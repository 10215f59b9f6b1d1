------------------------- MODULE TestSessionProofs -------------------------
(***************************************************************************)
(* Proofs about TestSession for tests of any teams in any order, any       *)
(* resources and any number of errors: what the report of leftovers lists, *)
(* and under which test errors are printed.                                *)
(***************************************************************************)
EXTENDS TestSession, TLAPS, SequenceTheorems

(* Facts about the data.                                                   *)

(* There is a test, and one of each team.                                  *)
LEMMA TestFacts ==
    /\ Len(Tests) \in Nat /\ Len(Tests) > 0
    /\ \A t \in Teams : t # NoTeam /\ \E i \in 1 .. Len(Tests) : Tests[i] = t
    /\ NoTeam \notin Teams
<1>1. Tests \in Seq(STRING) /\ Tests # <<>>
  BY SessionAssumption
<1>2. Len(Tests) \in Nat /\ DOMAIN Tests = 1 .. Len(Tests) /\ Len(Tests) > 0
  BY <1>1, LenProperties, EmptySeq
<1>3. Teams \subseteq { Tests[i] : i \in 1 .. Len(Tests) }
  BY <1>2, SessionAssumption DEF ToSet
<1>4. NoTeam \notin Teams
  BY SessionAssumption
<1>5. QED
  BY <1>2, <1>3, <1>4

(* The elements of a concatenation.                                        *)
LEMMA ToSetConcat ==
    ASSUME NEW S, NEW s \in Seq(S), NEW u \in Seq(S)
    PROVE  ToSet(s \o u) = ToSet(s) \cup ToSet(u)
<1>1. /\ s \o u \in Seq(S) /\ Len(s \o u) = Len(s) + Len(u)
      /\ \A i \in 1 .. Len(s) + Len(u) :
            (s \o u)[i] = IF i <= Len(s) THEN s[i] ELSE u[i - Len(s)]
  BY ConcatProperties
<1>2. /\ Len(s) \in Nat /\ Len(u) \in Nat
      /\ DOMAIN s = 1 .. Len(s) /\ DOMAIN u = 1 .. Len(u)
      /\ DOMAIN (s \o u) = 1 .. Len(s) + Len(u)
  BY <1>1, LenProperties
<1>3. ASSUME NEW i \in DOMAIN (s \o u)
      PROVE  (s \o u)[i] \in ToSet(s) \cup ToSet(u)
  <2>1. CASE i <= Len(s)
    BY <1>1, <1>2, <2>1 DEF ToSet
  <2>2. CASE i > Len(s)
    <3>1. i - Len(s) \in 1 .. Len(u)
      BY <1>2, <2>2
    <3>2. QED
      BY <1>1, <1>2, <2>2, <3>1 DEF ToSet
  <2>3. QED
    BY <1>2, <2>1, <2>2
<1>4. ASSUME NEW i \in DOMAIN s PROVE s[i] \in ToSet(s \o u)
  <2>1. i \in 1 .. Len(s) + Len(u) /\ i <= Len(s)
    BY <1>2
  <2>2. (s \o u)[i] = s[i]
    BY <1>1, <2>1
  <2>3. QED
    BY <1>2, <2>1, <2>2 DEF ToSet
<1>5. ASSUME NEW i \in DOMAIN u PROVE u[i] \in ToSet(s \o u)
  <2>1. /\ i + Len(s) \in 1 .. Len(s) + Len(u)
        /\ ~ (i + Len(s) <= Len(s))
        /\ (i + Len(s)) - Len(s) = i
    BY <1>2
  <2>2. (s \o u)[i + Len(s)] = u[i]
    BY <1>1, <2>1
  <2>3. QED
    BY <1>2, <2>1, <2>2 DEF ToSet
<1>6. QED
  BY <1>3, <1>4, <1>5 DEF ToSet

(* What a phase logs belongs to that phase.                                *)
LEMMA ErrorsFacts ==
    ASSUME n \in Nat, phase \in {"setup", "call", "teardown"}, NEW k \in Nat
    PROVE  /\ Errors(k) \in Seq(Message)
           /\ \A m \in ToSet(Errors(k)) : m = <<n, phase>>
           /\ ToSet(Errors(k)) \subseteq Message
<1>1. <<n, phase>> \in Message
  BY DEF Message
<1>2. Errors(k) \in [1 .. k -> Message]
  BY <1>1 DEF Errors
<1>3. Errors(k) \in Seq(Message)
  BY <1>2, SeqDef
<1>4. DOMAIN Errors(k) = 1 .. k /\ \A i \in 1 .. k : Errors(k)[i] = <<n, phase>>
  BY DEF Errors
<1>5. QED
  BY <1>1, <1>3, <1>4 DEF ToSet

(* What waits and is logged now is recorded together.                      *)
LEMMA RecordedFacts ==
    ASSUME n \in Nat, phase \in {"setup", "call", "teardown"},
           messages \in Seq(Message), NEW k \in Nat
    PROVE  /\ messages \o Errors(k) \in Seq(Message)
           /\ ToSet(messages \o Errors(k)) = ToSet(messages) \cup ToSet(Errors(k))
           /\ ToSet(messages) \subseteq Message
<1>1. Errors(k) \in Seq(Message)
  BY ErrorsFacts
<1>2. ToSet(messages) \subseteq Message
  BY ElementOfSeq, LenProperties DEF ToSet
<1>3. QED
  BY <1>1, <1>2, ConcatProperties, ToSetConcat

(* Inventory.                                                              *)

(* The comparison looks at each type of both dumps.                        *)
LEMMA CompareCongruence ==
    ASSUME NEW old, NEW cur, NEW old2, NEW cur2,
           \A ty \in Types : old[ty] = old2[ty] /\ cur[ty] = cur2[ty]
    PROVE  compare_ge_state(old, cur) = compare_ge_state(old2, cur2)
<1>1. [ty \in Types |-> find_resources_diff(old[ty], cur[ty])]
        = [ty \in Types |-> find_resources_diff(old2[ty], cur2[ty])]
  OBVIOUS
<1>2. QED
  BY <1>1 DEF compare_ge_state

(* Inventory.compare_ge_state lists what differs, and nothing else.        *)
LEMMA ListedExact ==
    ASSUME NEW old \in State, NEW cur \in State
    PROVE  Listed(compare_ge_state(old, cur)) = Differences(old, cur)
<1> DEFINE diff == [ty \in Types |-> find_resources_diff(old[ty], cur[ty])]
           rep == compare_ge_state(old, cur)
<1>1. /\ DOMAIN rep = { ty \in Types : diff[ty] # NoDiff }
      /\ \A ty \in DOMAIN rep : rep[ty] = find_resources_diff(old[ty], cur[ty])
  BY DEF compare_ge_state, Restrict
<1>2. ASSUME NEW ty \in Types, NEW i \in Ids
      PROVE  LET d == find_resources_diff(old[ty], cur[ty])
             IN  i \in d.changed \cup d.added \cup d.removed
                    <=> /\ old[ty][i] # cur[ty][i]
                        /\ old[ty][i] = "absent" => i \notin Ignored
  BY DEF find_resources_diff
<1>3. ASSUME NEW ty \in Types, NEW i \in Ids,
             LET d == find_resources_diff(old[ty], cur[ty])
             IN  i \in d.changed \cup d.added \cup d.removed
      PROVE  ty \in DOMAIN rep
  <2>1. find_resources_diff(old[ty], cur[ty]) # NoDiff
    BY <1>3 DEF NoDiff
  <2>2. QED
    BY <1>1, <2>1
<1> HIDE DEF rep
<1>4. \A x \in Types \X Ids : x[1] \in Types /\ x[2] \in Ids
  OBVIOUS
<1>5. ASSUME NEW x \in Listed(rep) PROVE x \in Differences(old, cur)
  <2>1. /\ x[1] \in DOMAIN rep /\ x[2] \in Ids /\ x \in (DOMAIN rep) \X Ids
        /\ x[2] \in rep[x[1]].changed \cup rep[x[1]].added \cup rep[x[1]].removed
    BY <1>5 DEF Listed
  <2>2. x[1] \in Types /\ x \in Types \X Ids
    BY <1>1, <2>1
  <2>3. QED
    BY <1>1, <1>2, <2>1, <2>2 DEF Differences
<1>6. ASSUME NEW x \in Differences(old, cur) PROVE x \in Listed(rep)
  <2>1. /\ x[1] \in Types /\ x[2] \in Ids /\ x \in Types \X Ids
        /\ old[x[1]][x[2]] # cur[x[1]][x[2]]
        /\ old[x[1]][x[2]] = "absent" => x[2] \notin Ignored
    BY <1>6 DEF Differences
  <2>2. LET d == find_resources_diff(old[x[1]], cur[x[1]])
        IN  x[2] \in d.changed \cup d.added \cup d.removed
    BY <1>2, <2>1
  <2>3. x[1] \in DOMAIN rep
    BY <1>3, <2>1, <2>2
  <2>4. x \in (DOMAIN rep) \X Ids
    BY <2>1, <2>3
  <2>5. QED
    BY <1>1, <2>2, <2>3, <2>4 DEF Listed
<1>7. QED
  BY <1>5, <1>6 DEF rep

(* What differs between two states differs on the way from one to the      *)
(* other.                                                                  *)
LEMMA DifferencesBetween ==
    ASSUME NEW a \in State, NEW b \in State, NEW c \in State
    PROVE  Differences(a, c) \subseteq Differences(a, b) \cup Differences(b, c)
<1>1. ASSUME NEW x \in Differences(a, c)
      PROVE  x \in Differences(a, b) \cup Differences(b, c)
  <2>1. /\ x \in Types \X Ids /\ a[x[1]][x[2]] # c[x[1]][x[2]]
        /\ a[x[1]][x[2]] = "absent" => x[2] \notin Ignored
    BY <1>1 DEF Differences
  <2>2. CASE a[x[1]][x[2]] # b[x[1]][x[2]]
    BY <2>1, <2>2 DEF Differences
  <2>3. CASE a[x[1]][x[2]] = b[x[1]][x[2]]
    BY <2>1, <2>3 DEF Differences
  <2>4. QED
    BY <2>2, <2>3
<1>2. QED
  BY <1>1

(* Nothing differs between a state and itself.                             *)
LEMMA NoDifferences == \A a : Differences(a, a) = {}
BY DEF Differences

-----------------------------------------------------------------------------
(* The test log.                                                           *)

(* The report of a setup or a call keeps the invariant of the log: a setup *)
(* that has passed hands its messages on to the call, everything else is   *)
(* printed or flushed.                                                     *)
LEMMA ReportedStep ==
    ASSUME TypeOK, LogInv, phase \in {"setup", "call"}, n' = n,
           NEW outcome \in Outcomes, Reported(outcome),
           phase' = IF phase = "setup" /\ outcome = "passed"
                    THEN "call" ELSE "teardown"
    PROVE  /\ LogInv'
           /\ messages' \in Seq(Message)
           /\ printed' \subseteq Message /\ logged' \subseteq Message
           /\ failed' \in BOOLEAN
<1>1. PICK k \in 0 .. (MaxErrors - Len(messages)) :
        /\ report(phase, outcome, messages \o Errors(k))
        /\ logged' = logged \cup ToSet(Errors(k))
        /\ failed' = (failed \/ outcome = "failed")
  BY DEF Reported
<1>2. /\ n \in Nat /\ messages \in Seq(Message)
      /\ printed \subseteq Message /\ logged \subseteq Message
  BY TestFacts DEF TypeOK
<1>3. k \in Nat
  BY <1>2, LenProperties, SessionAssumption
<1> DEFINE ms == messages \o Errors(k)
           new == ToSet(Errors(k))
<1>4. /\ ms \in Seq(Message) /\ ToSet(ms) = ToSet(messages) \cup new
      /\ ToSet(ms) \subseteq Message
      /\ new \subseteq Message /\ \A m \in new : m = <<n, phase>>
  <2>1. ToSet(messages) \subseteq Message
    BY <1>2, <1>3, RecordedFacts
  <2>2. QED
    BY <1>2, <1>3, <2>1, ErrorsFacts, RecordedFacts
<1>5. report(phase, outcome, ms)
  BY <1>1
<1>6. logged' = logged \cup new /\ failed' = (failed \/ outcome = "failed")
  BY <1>1
<1> HIDE DEF ms, new
<1>7. /\ printed = {} /\ ~ failed /\ logged \subseteq ToSet(messages)
      /\ \A m \in ToSet(messages) :
            m[2] # "teardown" => m[1] = n /\ phase = "call"
  BY DEF LogInv
<1>8. failed' = (outcome = "failed") /\ failed' \in BOOLEAN
  BY <1>6, <1>7
<1>9. \A m \in ToSet(ms) : m[2] # "teardown" => m[1] = n
  BY <1>4, <1>7
<1>10. logged' \subseteq ToSet(ms)
  BY <1>4, <1>6, <1>7
<1>11. CASE phase = "setup" /\ outcome = "passed"
  <2>1. messages' = ms /\ printed' = {} /\ phase' = "call" /\ ~ failed'
    BY <1>5, <1>7, <1>8, <1>11 DEF report
  <2>2. ErrorsOwn' /\ ErrorsPrinted'
    BY <2>1 DEF ErrorsOwn, ErrorsPrinted
  <2>3. LogInv'
    BY <1>9, <1>10, <2>1, <2>2 DEF LogInv
  <2>4. QED
    BY <1>4, <1>8, <1>10, <2>1, <2>3
<1>12. CASE ~ (phase = "setup" /\ outcome = "passed")
  <2>1. /\ messages' = <<>> /\ phase' = "teardown"
        /\ printed' = IF outcome = "failed" THEN ToSet(ms) ELSE {}
    BY <1>5, <1>7, <1>12 DEF report, log_footer, Outcomes
  <2>2. messages' \in Seq(Message) /\ ToSet(messages') = {}
    <3>1. messages' \in Seq(Message)
      BY <2>1, EmptySeq
    <3>2. ToSet(<<>>) = {}
      BY DEF ToSet
    <3>3. QED
      BY <2>1, <3>1, <3>2
  <2>3. ErrorsOwn' /\ ErrorsPrinted'
    BY <1>8, <1>9, <1>10, <2>1 DEF ErrorsOwn, ErrorsPrinted
  <2>4. LogInv'
    BY <2>1, <2>2, <2>3 DEF LogInv
  <2>5. QED
    BY <1>4, <1>8, <1>10, <2>1, <2>2, <2>4
<1>13. QED
  BY <1>11, <1>12

(* After the teardown only messages of teardowns wait.                     *)
LEMMA TeardownLogStep ==
    ASSUME TypeOK, LogInv, pytest_runtest_teardown
    PROVE  /\ LogInv'
           /\ messages' \in Seq(Message)
           /\ printed' \subseteq Message /\ logged' \subseteq Message
           /\ failed' \in BOOLEAN
<1>1. PICK outcome \in Outcomes, k \in 0 .. (MaxErrors - Len(messages)) :
        report(phase, outcome, messages \o Errors(k))
  BY DEF pytest_runtest_teardown
<1>2. /\ n \in Nat /\ messages \in Seq(Message) /\ phase = "teardown"
      /\ messages = <<>>
  BY TestFacts DEF TypeOK, LogInv, pytest_runtest_teardown
<1>3. k \in Nat
  BY <1>2, LenProperties, SessionAssumption
<1> DEFINE ms == messages \o Errors(k)
<1>4. ms \in Seq(Message) /\ \A m \in ToSet(ms) : m[2] = "teardown"
  <2>1. /\ ms \in Seq(Message)
        /\ ToSet(ms) = ToSet(messages) \cup ToSet(Errors(k))
        /\ \A m \in ToSet(Errors(k)) : m = <<n, phase>>
    BY <1>2, <1>3, ErrorsFacts, RecordedFacts
  <2>2. ToSet(messages) = {}
    BY <1>2 DEF ToSet
  <2>3. QED
    BY <1>2, <2>1, <2>2
<1>5. report(phase, outcome, ms)
  BY <1>1
<1> HIDE DEF ms
<1>6. printed' = {} /\ messages' \in {<<>>, ms}
  BY <1>2, <1>5 DEF report
<1>7. phase' = "setup" /\ logged' = {} /\ failed' = FALSE
  BY DEF pytest_runtest_teardown
<1>8. messages' \in Seq(Message) /\ \A m \in ToSet(messages') : m[2] = "teardown"
  <2>1. <<>> \in Seq(Message) /\ ToSet(<<>>) = {}
    BY EmptySeq DEF ToSet
  <2>2. QED
    BY <1>4, <1>6, <2>1
<1>9. LogInv'
  BY <1>6, <1>7, <1>8 DEF LogInv, ErrorsOwn, ErrorsPrinted
<1>10. QED
  BY <1>6, <1>7, <1>8, <1>9

-----------------------------------------------------------------------------
(* The leftovers.                                                          *)

Dump == [team : Teams, engine : State]

(* At the start no fixture has run and nothing is recorded.                *)
LEMMA InitTestInv == Init => TestInv
<1> SUFFICES ASSUME Init PROVE TestInv
  OBVIOUS
<1>1. \A t \in Teams : fixture[t] = "none"
  BY DEF Init
<1>2. /\ dumps = <<>> /\ Len(dumps) = 0 /\ DOMAIN summary = {}
      /\ dumps \in Seq([team : Teams, engine : State])
  BY EmptySeq DEF Init, Empty
<1>3. <<>> \in Seq(Message) /\ ToSet(<<>>) = {}
  BY EmptySeq DEF ToSet
<1>4. TypeOK
  <2>1. {failed, dumpFailed, file, leftovers_file} \subseteq BOOLEAN
    BY DEF Init
  <2>2. 1 \in 1 .. Len(Tests) + 1
    BY TestFacts
  <2>3. QED
    BY <1>2, <1>3, <2>1, <2>2 DEF Init, TypeOK
<1>5. FixtureInv
  BY <1>1, <1>2, TestFacts DEF Init, FixtureInv
<1>6. SummaryInv
  <2>1. Dumped = {}
    BY <1>2 DEF Dumped
  <2>2. team = NoTeam /\ NoTeam \notin DOMAIN summary /\ phase = "setup"
    BY <1>2 DEF Init
  <2>3. QED
    BY <1>1, <1>2, <2>1, <2>2 DEF SummaryInv, ReportComplete
<1>7. LogInv
  BY <1>3 DEF Init, LogInv, ErrorsOwn, ErrorsPrinted
<1>8. QED
  BY <1>4, <1>5, <1>6, <1>7 DEF TestInv

(* The last dump.                                                          *)
LEMMA LastDump ==
    ASSUME TypeOK, FixtureInv, team # NoTeam
    PROVE  /\ Len(dumps) \in Nat /\ Len(dumps) > 0
           /\ dumps[Len(dumps)].team = team /\ team \in Dumped
           /\ \A k \in 1 .. Len(dumps) :
                /\ dumps[k].team \in Teams /\ dumps[k].engine \in State
                /\ dumps[k].team = team => k = Len(dumps)
           /\ UpTo(Len(dumps)) = engine
<1>1. dumps \in Seq(Dump) /\ dumps # <<>>
  BY DEF TypeOK, FixtureInv, Dump
<1>2. Len(dumps) \in Nat /\ Len(dumps) > 0
  BY <1>1, LenProperties, EmptySeq
<1>3. \A k \in 1 .. Len(dumps) : dumps[k] \in Dump
  BY <1>1, ElementOfSeq
<1>4. dumps[Len(dumps)].team = team
  BY DEF FixtureInv
<1>5. Len(dumps) \in 1 .. Len(dumps)
  BY <1>2
<1>6. team \in Dumped
  BY <1>4, <1>5 DEF Dumped
<1>7. \A j, k \in 1 .. Len(dumps) : dumps[j].team = dumps[k].team => j = k
  BY DEF FixtureInv
<1>8. QED
  BY <1>2, <1>3, <1>4, <1>5, <1>6, <1>7 DEF Dump, UpTo

(* A teardown that does not raise compares the engine at the team's        *)
(* fixture with the engine now, and no other summary changes: every type   *)
(* was dumped both times.                                                  *)
LEMMA TearsDownFacts ==
    ASSUME TypeOK, FixtureInv, SummaryInv, phase = "setup",
           NEW dumped \in SUBSET Types, TearsDown(dumped)
    PROVE  /\ DOMAIN summary' =
                DOMAIN summary \cup (IF team = NoTeam THEN {} ELSE {team})
           /\ DOMAIN summary' \subseteq Dumped
           /\ \A t \in DOMAIN summary : summary'[t] = summary[t]
           /\ \A k \in 1 .. Len(dumps) : dumps[k].team \in DOMAIN summary' =>
                summary'[dumps[k].team]
                    = compare_ge_state(dumps[k].engine, UpTo(k))
<1>1. CASE team = NoTeam
  BY <1>1 DEF TearsDown, SummaryInv
<1>2. CASE team # NoTeam
  <2>1. /\ Comparable(ge_state, get_summary_report(dumped))
        /\ summary' = [t \in DOMAIN summary \cup {team} |->
            IF t = team
            THEN compare_ge_state(ge_state, get_summary_report(dumped))
            ELSE summary[t]]
    BY <1>2 DEF TearsDown
  <2> DEFINE last == dumps[Len(dumps)].engine
  <2>2. /\ team \notin DOMAIN summary /\ DOMAIN summary \subseteq Dumped
        /\ \A k \in 1 .. Len(dumps) : dumps[k].team \in DOMAIN summary =>
            summary[dumps[k].team] = compare_ge_state(dumps[k].engine, UpTo(k))
    BY DEF SummaryInv
  <2>3. ge_state = Restrict(last, DOMAIN ge_state)
    BY <1>2 DEF FixtureInv
  <2>4. Types \subseteq DOMAIN ge_state /\ Types \subseteq dumped
    BY <2>1 DEF Comparable, get_summary_report, Restrict
  <2>5. \A ty \in Types : /\ ge_state[ty] = last[ty]
                          /\ get_summary_report(dumped)[ty] = engine[ty]
    BY <2>3, <2>4 DEF Restrict, get_summary_report
  <2>6. compare_ge_state(ge_state, get_summary_report(dumped))
            = compare_ge_state(last, engine)
    BY <2>5, CompareCongruence
  <2>7. ASSUME NEW k \in 1 .. Len(dumps), dumps[k].team \in DOMAIN summary'
        PROVE  summary'[dumps[k].team]
                    = compare_ge_state(dumps[k].engine, UpTo(k))
    <3>1. CASE dumps[k].team = team
      <4>1. k = Len(dumps) /\ UpTo(k) = engine
        BY <1>2, <3>1, LastDump
      <4>2. QED
        BY <2>1, <2>6, <3>1, <4>1
    <3>2. CASE dumps[k].team # team
      BY <2>1, <2>2, <2>7, <3>2
    <3>3. QED
      BY <3>1, <3>2
  <2>8. team \in Dumped
    BY <1>2, LastDump
  <2>9. QED
    BY <1>2, <2>1, <2>2, <2>7, <2>8
<1>3. QED
  BY <1>1, <1>2

(* What is listed after such a teardown: everything that differs between   *)
(* the first dump and the engine now, if no dump has failed.               *)
LEMMA TearsDownListed ==
    ASSUME TypeOK, FixtureInv, SummaryInv, phase = "setup", ~ dumpFailed,
           NEW dumped \in SUBSET Types, TearsDown(dumped), dumps # <<>>
    PROVE  Differences(dumps[1].engine, engine) \subseteq AllListed'
<1>1. team # NoTeam
  <2>1. CASE team = NoTeam
    BY <2>1 DEF FixtureInv, SummaryInv
  <2>2. QED
    BY <2>1
<1> DEFINE first == dumps[1].engine
           last == dumps[Len(dumps)].engine
<1>2. /\ Len(dumps) \in 1 .. Len(dumps) /\ 1 \in 1 .. Len(dumps)
      /\ dumps[Len(dumps)].team = team /\ UpTo(Len(dumps)) = engine
      /\ first \in State /\ last \in State
  BY <1>1, LastDump
<1>3. engine \in State
  BY DEF TypeOK
<1>4. /\ DOMAIN summary' = DOMAIN summary \cup {team}
      /\ \A t \in DOMAIN summary : summary'[t] = summary[t]
      /\ \A k \in 1 .. Len(dumps) : dumps[k].team \in DOMAIN summary' =>
            summary'[dumps[k].team]
                = compare_ge_state(dumps[k].engine, UpTo(k))
  BY <1>1, TearsDownFacts
<1>5. Differences(first, last) \subseteq AllListed
  BY DEF SummaryInv
<1>6. summary'[team] = compare_ge_state(last, engine)
  BY <1>2, <1>4
<1>7. Listed(summary'[team]) = Differences(last, engine)
  BY <1>2, <1>3, <1>6, ListedExact
<1>8. AllListed' = UNION { Listed(summary'[t]) : t \in DOMAIN summary' }
  BY DEF AllListed, Listed
<1>9. AllListed \subseteq AllListed'
  BY <1>4, <1>8 DEF AllListed
<1>10. Differences(last, engine) \subseteq AllListed'
  BY <1>4, <1>7, <1>8
<1>11. Differences(first, engine)
          \subseteq Differences(first, last) \cup Differences(last, engine)
  BY <1>2, <1>3, DifferencesBetween
<1>12. QED
  BY <1>5, <1>9, <1>10, <1>11

(* When no dump has failed, a teardown does not raise.                     *)
LEMMA TeardownRaises ==
    ASSUME SummaryInv, NEW dumped, TeardownFails(dumped)
    PROVE  dumpFailed \/ dumped # Types
<1>1. SUFFICES ASSUME ~ dumpFailed, dumped = Types PROVE FALSE
  OBVIOUS
<1>2. Types \subseteq DOMAIN ge_state
  BY <1>1 DEF SummaryInv, TeardownFails
<1>3. DOMAIN get_summary_report(dumped) = Types
  BY <1>1 DEF get_summary_report, Restrict
<1>4. QED
  BY <1>2, <1>3 DEF Comparable, TeardownFails

(* The session fixture of a new team runs: the team before gets its        *)
(* summary, and the new one its dump.                                      *)
LEMMA FixtureRunsStep ==
    ASSUME TypeOK, FixtureInv, SummaryInv, phase = "setup",
           n <= Len(Tests), env = "ok",
           NEW t \in Teams, t = Tests[n], fixture[t] = "none",
           NEW one \in SUBSET Types, NEW two \in SUBSET Types,
           NEW outcome \in {"ok", "failed"},
           TearsDown(one),
           ge_state' = get_summary_report(two),
           team' = t,
           dumps' = Append(dumps, [team |-> t, engine |-> engine]),
           dumpFailed' =
                (dumpFailed \/ two # Types \/ (team # NoTeam /\ one # Types)),
           fixture' = [fixture EXCEPT ![t] = outcome],
           UNCHANGED <<engine, n, phase, env, leftovers_file, file>>
    PROVE  /\ fixture' \in [Teams -> {"none", "ok", "failed"}]
           /\ team' \in Teams
           /\ dumps' \in Seq([team : Teams, engine : State])
           /\ FixtureInv' /\ SummaryInv'
<1> DEFINE N == Len(dumps)
           new == [team |-> t, engine |-> engine]
<1>1. /\ n \in 1 .. Len(Tests) /\ Len(Tests) \in Nat /\ t # NoTeam
      /\ engine \in State /\ fixture \in [Teams -> {"none", "ok", "failed"}]
      /\ dumps \in Seq(Dump) /\ new \in Dump
  BY TestFacts DEF TypeOK, Dump
<1>2. /\ dumps' \in Seq(Dump) /\ N \in Nat /\ Len(dumps') = N + 1
      /\ \A k \in 1 .. N : dumps'[k] = dumps[k]
      /\ dumps'[N + 1] = new
  BY <1>1, AppendProperties, LenProperties
<1>3. /\ fixture' \in [Teams -> {"none", "ok", "failed"}]
      /\ \A x \in Teams : fixture'[x] = IF x = t THEN outcome ELSE fixture[x]
  BY <1>1
<1>4. \A k \in 1 .. N : dumps[k].team \in Teams /\ dumps[k].team # t
  <2>1. \A k \in 1 .. N : dumps[k] \in Dump
    BY <1>1, ElementOfSeq
  <2>2. QED
    BY <2>1 DEF Dump, FixtureInv
<1> HIDE DEF N
<1>5. t \notin Dumped /\ Dumped' = Dumped \cup {t}
  <2>1. Dumped = { dumps[k].team : k \in 1 .. N }
    BY DEF Dumped, N
  <2>2. Dumped' = { dumps'[k].team : k \in 1 .. N + 1 }
    BY <1>2 DEF Dumped
  <2>3. \A k \in 1 .. N + 1 : k \in 1 .. N \/ k = N + 1
    BY <1>2
  <2>4. 1 .. N \subseteq 1 .. N + 1 /\ N + 1 \in 1 .. N + 1
    BY <1>2
  <2>5. QED
    BY <1>2, <1>4, <2>1, <2>2, <2>3, <2>4
<1>6. \A k \in 1 .. N : UpTo(k)' = UpTo(k)
  <2>1. ASSUME NEW k \in 1 .. N PROVE UpTo(k)' = UpTo(k)
    <3>1. UpTo(k)' = dumps'[k + 1].engine
      BY <1>2 DEF UpTo
    <3>2. CASE k < N
      <4>1. k + 1 \in 1 .. N
        BY <1>2, <3>2
      <4>2. QED
        BY <1>2, <3>1, <3>2, <4>1 DEF UpTo, N
    <3>3. CASE k = N
      BY <1>2, <3>1, <3>3 DEF UpTo, N
    <3>4. QED
      BY <1>2, <3>2, <3>3
  <2>2. QED
    BY <2>1
<1>7. /\ DOMAIN summary' =
            DOMAIN summary \cup (IF team = NoTeam THEN {} ELSE {team})
      /\ DOMAIN summary' \subseteq Dumped
      /\ \A k \in 1 .. N : dumps[k].team \in DOMAIN summary' =>
            summary'[dumps[k].team] = compare_ge_state(dumps[k].engine, UpTo(k))
  BY TearsDownFacts DEF N
<1>8. DOMAIN ge_state' = two /\ ge_state' = Restrict(engine, DOMAIN ge_state')
  BY DEF get_summary_report, Restrict
<1>9. dumps' # <<>>
  BY <1>2, EmptySeq
<1>10. FixtureInv'
  <2>1. ASSUME NEW i \in 1 .. Len(Tests), Tests[i] \in Teams,
               i < n \/ (i = n /\ phase # "setup")
        PROVE  fixture'[Tests[i]] # "none"
    <3>1. fixture[Tests[i]] # "none"
      BY <2>1 DEF FixtureInv
    <3>2. QED
      BY <1>3, <2>1, <3>1
  <2>2. \A k \in 1 .. N + 1 : fixture'[dumps'[k].team] # "none"
    <3>1. \A k \in 1 .. N : fixture'[dumps[k].team] # "none"
      BY <1>3, <1>4 DEF FixtureInv, N
    <3>2. fixture'[new.team] # "none"
      BY <1>3
    <3>3. QED
      BY <1>2, <3>1, <3>2
  <2>3. \A j, k \in 1 .. N + 1 : dumps'[j].team = dumps'[k].team => j = k
    <3>1. \A j, k \in 1 .. N : dumps[j].team = dumps[k].team => j = k
      BY DEF FixtureInv, N
    <3>2. \A k \in 1 .. N + 1 : k \in 1 .. N \/ k = N + 1
      BY <1>2
    <3>3. QED
      BY <1>2, <1>4, <3>1, <3>2
  <2>4. dumps'[Len(dumps')] = new
    BY <1>2
  <2>5. QED
    BY <1>1, <1>2, <1>8, <1>9, <2>1, <2>2, <2>3, <2>4 DEF FixtureInv
<1>11. SummaryInv'
  <2>1. ASSUME NEW k \in 1 .. N + 1, dumps'[k].team \in DOMAIN summary'
        PROVE  summary'[dumps'[k].team]
                    = compare_ge_state(dumps'[k].engine, UpTo(k)')
    <3>1. k \in 1 .. N
      BY <1>2, <1>5, <1>7, <2>1
    <3>2. QED
      BY <1>2, <1>6, <1>7, <2>1, <3>1
  <2>2. ASSUME ~ dumpFailed'
        PROVE  /\ \A x \in Teams : fixture'[x] # "none" => x \in Dumped'
               /\ Types \subseteq DOMAIN ge_state'
               /\ Dumped' \ {t} \subseteq DOMAIN summary'
               /\ Differences(dumps'[1].engine, dumps'[N + 1].engine)
                    \subseteq AllListed'
    <3>1. ~ dumpFailed /\ two = Types
      BY <2>2
    <3>2. /\ \A x \in Teams : fixture[x] # "none" => x \in Dumped
          /\ Dumped \ {team} \subseteq DOMAIN summary
      BY <3>1 DEF SummaryInv
    <3>3. team = NoTeam => N = 0 /\ Dumped = {}
      BY <1>2 DEF FixtureInv, Dumped, N
    <3>4. Dumped \subseteq DOMAIN summary'
      BY <1>7, <3>2, <3>3
    <3>5. Differences(dumps'[1].engine, engine) \subseteq AllListed'
      <4>1. CASE dumps = <<>>
        <5>1. N = 0
          BY <4>1 DEF N
        <5>2. QED
          BY <1>2, <5>1, NoDifferences
      <4>2. CASE dumps # <<>>
        <5>1. Differences(dumps[1].engine, engine) \subseteq AllListed'
          BY <3>1, <4>2, TearsDownListed
        <5>2. 1 \in 1 .. N
          BY <1>1, <1>2, <4>2, EmptySeq DEF N
        <5>3. QED
          BY <1>2, <5>1, <5>2
      <4>3. QED
        BY <4>1, <4>2
    <3>6. QED
      BY <1>2, <1>3, <1>5, <1>8, <3>1, <3>2, <3>4, <3>5
  <2>3. ReportComplete'
    BY DEF ReportComplete
  <2>4. team' \notin DOMAIN summary' /\ DOMAIN summary' \subseteq Dumped'
    BY <1>5, <1>7
  <2>5. QED
    BY <1>2, <2>1, <2>2, <2>3, <2>4 DEF SummaryInv
<1>12. QED
  BY <1>2, <1>3, <1>10, <1>11 DEF Dump

(* The teardown of the team before raises: the fixture fails, and the dump *)
(* stays in place.                                                         *)
LEMMA FixtureRaisesStep ==
    ASSUME TypeOK, FixtureInv, SummaryInv, phase = "setup",
           n <= Len(Tests), env = "ok",
           NEW t \in Teams, t = Tests[n], fixture[t] = "none",
           NEW one \in SUBSET Types,
           NEW outcome \in {"ok", "failed"},
           TeardownFails(one),
           dumpFailed' = (dumpFailed \/ one # Types),
           fixture' = [fixture EXCEPT ![t] = outcome],
           UNCHANGED <<ge_state, team, dumps, engine, n, phase, env,
                       leftovers_file, file>>
    PROVE  /\ fixture' \in [Teams -> {"none", "ok", "failed"}]
           /\ FixtureInv' /\ SummaryInv'
<1>1. /\ n \in 1 .. Len(Tests) /\ Len(Tests) \in Nat
      /\ dumps \in Seq(Dump)
  BY TestFacts DEF TypeOK, Dump
<1>2. /\ fixture' \in [Teams -> {"none", "ok", "failed"}]
      /\ \A x \in Teams : fixture'[x] = IF x = t THEN outcome ELSE fixture[x]
  BY DEF TypeOK
<1>3. dumpFailed' /\ summary' = summary
  BY TeardownRaises DEF TeardownFails
<1>4. \A k \in 1 .. Len(dumps) : dumps[k].team \in Teams
  <2>1. \A k \in 1 .. Len(dumps) : dumps[k] \in Dump
    BY <1>1, ElementOfSeq
  <2>2. QED
    BY <2>1 DEF Dump
<1>5. FixtureInv'
  <2>1. ASSUME NEW i \in 1 .. Len(Tests), Tests[i] \in Teams,
               i < n \/ (i = n /\ phase # "setup")
        PROVE  fixture'[Tests[i]] # "none"
    <3>1. fixture[Tests[i]] # "none"
      BY <2>1 DEF FixtureInv
    <3>2. QED
      BY <1>2, <2>1, <3>1
  <2>2. \A k \in 1 .. Len(dumps) : fixture'[dumps[k].team] # "none"
    BY <1>2, <1>4 DEF FixtureInv
  <2>3. QED
    BY <1>1, <2>1, <2>2 DEF FixtureInv
<1>6. SummaryInv'
  BY <1>3 DEF SummaryInv, ReportComplete, Dumped, UpTo
<1>7. QED
  BY <1>2, <1>5, <1>6

-----------------------------------------------------------------------------
(* The actions.                                                            *)

(* Nothing but the engine, prepare_env and the log matter to a step that   *)
(* neither dumps nor ends a test.                                          *)
LEMMA LeftoversKept ==
    ASSUME TypeOK, FixtureInv, SummaryInv,
           UNCHANGED <<fixture, leftovers>>, phase # "end", phase' # "end",
           engine' \in State
    PROVE  SummaryInv'
<1>1. /\ ge_state' = ge_state /\ team' = team /\ summary' = summary
      /\ dumpFailed' = dumpFailed /\ dumps' = dumps /\ fixture' = fixture
  BY DEF leftovers
<1>2. Dumped' = Dumped /\ AllListed' = AllListed
  BY <1>1 DEF Dumped, AllListed, Listed
<1>3. ASSUME NEW k \in 1 .. Len(dumps), dumps[k].team \in DOMAIN summary
      PROVE  UpTo(k)' = UpTo(k)
  <2>1. team \notin DOMAIN summary
    BY DEF SummaryInv
  <2>2. CASE team = NoTeam
    BY <1>1, <2>2, <1>3, EmptySeq DEF FixtureInv
  <2>3. CASE team # NoTeam
    <3>1. Len(dumps) \in Nat /\ dumps[Len(dumps)].team = team
      BY <2>3, LastDump
    <3>2. k < Len(dumps)
      BY <1>3, <2>1, <3>1
    <3>3. QED
      BY <1>1, <3>2 DEF UpTo
  <2>4. QED
    BY <2>2, <2>3
<1>4. ReportComplete'
  BY DEF ReportComplete
<1>5. QED
  BY <1>1, <1>2, <1>3, <1>4 DEF SummaryInv

(* prepare_env runs before any team's fixture.                             *)
LEMMA EnvStep ==
    ASSUME TestInv, prepare_env
    PROVE  TestInv'
<1>1. TypeOK /\ FixtureInv /\ SummaryInv /\ LogInv
  BY DEF TestInv
<1>2. /\ phase = "setup" /\ env = "none" /\ n <= Len(Tests)
      /\ env' \in {"ok", "failed"} /\ engine' \in State
      /\ UNCHANGED <<n, phase, fixture, leftovers, log>>
  BY DEF prepare_env
<1>3. n = 1
  BY <1>1, <1>2 DEF FixtureInv
<1>4. TypeOK'
  BY <1>1, <1>2 DEF TypeOK, leftovers, report_file, log
<1>5. FixtureInv'
  <2>1. \A i \in 1 .. Len(Tests) : ~ (i < n')
    BY <1>2, <1>3, TestFacts
  <2>2. QED
    BY <1>1, <1>2, <2>1 DEF FixtureInv, leftovers
<1>6. SummaryInv'
  BY <1>1, <1>2, LeftoversKept
<1>7. LogInv'
  BY <1>1, <1>2 DEF LogInv, ErrorsOwn, ErrorsPrinted, log
<1>8. QED
  BY <1>4, <1>5, <1>6, <1>7 DEF TestInv

(* The session fixture of a team.                                          *)
LEMMA TeamStep ==
    ASSUME TestInv, prepare_env_team
    PROVE  TestInv'
<1>1. TypeOK /\ FixtureInv /\ SummaryInv /\ LogInv
  BY DEF TestInv
<1> DEFINE t == Tests[n]
<1>2. /\ phase = "setup" /\ n <= Len(Tests) /\ env = "ok" /\ t \in Teams
      /\ fixture[t] = "none"
      /\ UNCHANGED <<engine, n, phase, env, report_file, log>>
      /\ pytest_rhv_setup(t)
  BY DEF prepare_env_team
<1>3. PICK outcome \in {"ok", "failed"} :
        fixture' = [fixture EXCEPT ![t] = outcome]
  BY DEF prepare_env_team
<1>4. /\ engine' = engine /\ n' = n /\ phase' = phase /\ env' = env
      /\ leftovers_file' = leftovers_file /\ file' = file
      /\ messages' = messages /\ printed' = printed /\ failed' = failed
      /\ logged' = logged
  BY <1>2 DEF report_file, log
<1>5. dumpFailed \in BOOLEAN
  BY <1>1 DEF TypeOK
<1>6. PICK one \in SUBSET Types, two \in SUBSET Types :
        \/ /\ TearsDown(one)
           /\ ge_state' = get_summary_report(two)
           /\ team' = t
           /\ dumps' = Append(dumps, [team |-> t, engine |-> engine])
           /\ dumpFailed' =
                (dumpFailed \/ two # Types \/ (team # NoTeam /\ one # Types))
        \/ /\ TeardownFails(one)
           /\ dumpFailed' = (dumpFailed \/ one # Types)
           /\ UNCHANGED <<ge_state, team, dumps>>
  BY <1>2 DEF pytest_rhv_setup
<1> HIDE DEF t
<1>7. t = Tests[n]
  BY DEF t
<1>8. /\ fixture' \in [Teams -> {"none", "ok", "failed"}]
      /\ team' \in Teams \cup {NoTeam} /\ dumpFailed' \in BOOLEAN
      /\ dumps' \in Seq([team : Teams, engine : State])
      /\ FixtureInv' /\ SummaryInv'
  <2>1. CASE /\ TearsDown(one)
             /\ ge_state' = get_summary_report(two)
             /\ team' = t
             /\ dumps' = Append(dumps, [team |-> t, engine |-> engine])
             /\ dumpFailed' =
                (dumpFailed \/ two # Types \/ (team # NoTeam /\ one # Types))
    <3>1. /\ fixture' \in [Teams -> {"none", "ok", "failed"}]
          /\ team' \in Teams
          /\ dumps' \in Seq([team : Teams, engine : State])
          /\ FixtureInv' /\ SummaryInv'
      BY <1>1, <1>2, <1>3, <1>4, <1>7, <2>1, FixtureRunsStep
    <3>2. QED
      BY <1>5, <2>1, <3>1
  <2>2. CASE /\ TeardownFails(one)
             /\ dumpFailed' = (dumpFailed \/ one # Types)
             /\ UNCHANGED <<ge_state, team, dumps>>
    <3>1. /\ fixture' \in [Teams -> {"none", "ok", "failed"}]
          /\ FixtureInv' /\ SummaryInv'
      BY <1>1, <1>2, <1>3, <1>4, <1>7, <2>2, FixtureRaisesStep
    <3>2. QED
      BY <1>1, <1>5, <2>2, <3>1 DEF TypeOK
  <2>3. QED
    BY <1>6, <2>1, <2>2
<1>9. TypeOK'
  BY <1>1, <1>4, <1>8 DEF TypeOK
<1>10. LogInv'
  BY <1>1, <1>4 DEF LogInv, ErrorsOwn, ErrorsPrinted
<1>11. QED
  BY <1>8, <1>9, <1>10 DEF TestInv

(* Fixtures, tests and finalizers change the engine only.                  *)
LEMMA WorksStep ==
    ASSUME TestInv, works
    PROVE  TestInv'
<1>1. TypeOK /\ FixtureInv /\ SummaryInv /\ LogInv
  BY DEF TestInv
<1>2. /\ phase # "end" /\ engine' \in State
      /\ UNCHANGED <<n, phase, env, fixture, leftovers, log>>
  BY DEF works
<1>3. TypeOK'
  BY <1>1, <1>2 DEF TypeOK, leftovers, report_file, log
<1>4. FixtureInv'
  BY <1>1, <1>2 DEF FixtureInv, leftovers
<1>5. SummaryInv'
  BY <1>1, <1>2, LeftoversKept
<1>6. LogInv'
  BY <1>1, <1>2 DEF LogInv, ErrorsOwn, ErrorsPrinted, log
<1>7. QED
  BY <1>3, <1>4, <1>5, <1>6 DEF TestInv

(* The report of a setup: the session fixtures have run.                   *)
LEMMA SetupStep ==
    ASSUME TestInv, pytest_runtest_setup
    PROVE  TestInv'
<1>1. TypeOK /\ FixtureInv /\ SummaryInv /\ LogInv
  BY DEF TestInv
<1>2. /\ phase = "setup" /\ n <= Len(Tests) /\ env # "none"
      /\ env = "ok" /\ Tests[n] \in Teams => fixture[Tests[n]] # "none"
      /\ UNCHANGED <<engine, n, env, fixture, leftovers>>
  BY DEF pytest_runtest_setup, SessionReady
<1>3. PICK outcome \in Outcomes :
        /\ Reported(outcome)
        /\ phase' = IF outcome = "passed" THEN "call" ELSE "teardown"
  BY DEF pytest_runtest_setup
<1>4. /\ LogInv'
      /\ messages' \in Seq(Message)
      /\ printed' \subseteq Message /\ logged' \subseteq Message
      /\ failed' \in BOOLEAN
  <2>1. phase' = IF phase = "setup" /\ outcome = "passed"
                 THEN "call" ELSE "teardown"
    BY <1>2, <1>3
  <2>2. QED
    BY <1>1, <1>2, <1>3, <2>1, ReportedStep
<1>5. phase' \in {"call", "teardown"}
  BY <1>3
<1>6. TypeOK'
  BY <1>1, <1>2, <1>4, <1>5 DEF TypeOK, leftovers, report_file
<1>7. FixtureInv'
  <2>1. n \in 1 .. Len(Tests) /\ Len(Tests) \in Nat
    BY <1>1, <1>2, TestFacts DEF TypeOK
  <2>2. QED
    BY <1>1, <1>2, <1>5, <2>1 DEF FixtureInv, leftovers
<1>8. SummaryInv'
  BY <1>1, <1>2, <1>5, LeftoversKept DEF TypeOK
<1>9. QED
  BY <1>4, <1>6, <1>7, <1>8 DEF TestInv

(* The report of a call.                                                   *)
LEMMA CallStep ==
    ASSUME TestInv, pytest_runtest_call
    PROVE  TestInv'
<1>1. TypeOK /\ FixtureInv /\ SummaryInv /\ LogInv
  BY DEF TestInv
<1>2. /\ phase = "call" /\ phase' = "teardown"
      /\ UNCHANGED <<engine, n, env, fixture, leftovers>>
  BY DEF pytest_runtest_call
<1>3. PICK outcome \in Outcomes : Reported(outcome)
  BY DEF pytest_runtest_call
<1>4. /\ LogInv'
      /\ messages' \in Seq(Message)
      /\ printed' \subseteq Message /\ logged' \subseteq Message
      /\ failed' \in BOOLEAN
  <2>1. phase' = IF phase = "setup" /\ outcome = "passed"
                 THEN "call" ELSE "teardown"
    BY <1>2
  <2>2. QED
    BY <1>1, <1>2, <1>3, <2>1, ReportedStep
<1>5. TypeOK'
  BY <1>1, <1>2, <1>4 DEF TypeOK, leftovers, report_file
<1>6. FixtureInv'
  BY <1>1, <1>2 DEF FixtureInv, leftovers
<1>7. SummaryInv'
  BY <1>1, <1>2, LeftoversKept DEF TypeOK
<1>8. QED
  BY <1>4, <1>5, <1>6, <1>7 DEF TestInv

(* The end of a test: the next one is set up.                              *)
LEMMA TeardownStep ==
    ASSUME TestInv, pytest_runtest_teardown
    PROVE  TestInv'
<1>1. TypeOK /\ FixtureInv /\ SummaryInv /\ LogInv
  BY DEF TestInv
<1>2. /\ phase = "teardown" /\ phase' = "setup" /\ n' = n + 1
      /\ UNCHANGED <<engine, env, fixture, leftovers>>
  BY DEF pytest_runtest_teardown
<1>3. /\ LogInv'
      /\ messages' \in Seq(Message)
      /\ printed' \subseteq Message /\ logged' \subseteq Message
      /\ failed' \in BOOLEAN
  BY <1>1, TeardownLogStep
<1>4. n \in 1 .. Len(Tests) /\ Len(Tests) \in Nat /\ n' \in 1 .. Len(Tests) + 1
  BY <1>1, <1>2, TestFacts DEF TypeOK, FixtureInv
<1>5. TypeOK'
  BY <1>1, <1>2, <1>3, <1>4 DEF TypeOK, leftovers, report_file
<1>6. FixtureInv'
  <2>1. ASSUME env = "ok", NEW i \in 1 .. Len(Tests), Tests[i] \in Teams,
               i < n + 1
        PROVE  fixture[Tests[i]] # "none"
    <3>1. i < n \/ (i = n /\ phase # "setup")
      BY <1>2, <1>4, <2>1
    <3>2. QED
      BY <1>1, <2>1, <3>1 DEF FixtureInv
  <2>2. env # "none"
    BY <1>1, <1>2 DEF FixtureInv
  <2>3. QED
    BY <1>1, <1>2, <1>4, <2>1, <2>2 DEF FixtureInv, leftovers
<1>7. SummaryInv'
  BY <1>1, <1>2, LeftoversKept DEF TypeOK
<1>8. QED
  BY <1>3, <1>5, <1>6, <1>7 DEF TestInv

(* The end of the session: the last team gets its summary, and the report  *)
(* is written if its option was given, unless a dump has failed.           *)
LEMMA UnconfigureStep ==
    ASSUME TestInv, pytest_unconfigure
    PROVE  TestInv'
<1>1. TypeOK /\ FixtureInv /\ SummaryInv /\ LogInv
  BY DEF TestInv
<1>2. /\ n > Len(Tests) /\ phase = "setup" /\ phase' = "end"
      /\ engine' = engine /\ n' = n /\ env' = env /\ fixture' = fixture
      /\ ge_state' = ge_state /\ team' = team /\ dumps' = dumps
      /\ messages' = messages /\ printed' = printed /\ failed' = failed
      /\ logged' = logged /\ leftovers_file' \in BOOLEAN
  BY DEF pytest_unconfigure, log
<1>3. PICK dumped \in SUBSET Types :
        /\ dumpFailed' = (dumpFailed \/ (team # NoTeam /\ dumped # Types))
        /\ \/ TearsDown(dumped) /\ file' = leftovers_file'
           \/ TeardownFails(dumped) /\ UNCHANGED file
  BY DEF pytest_unconfigure
<1>4. {failed, dumpFailed, file, leftovers_file} \subseteq BOOLEAN
  BY <1>1 DEF TypeOK
<1>5. TypeOK'
  <2>1. {failed', dumpFailed', file', leftovers_file'} \subseteq BOOLEAN
    BY <1>2, <1>3, <1>4
  <2>2. QED
    BY <1>1, <1>2, <2>1 DEF TypeOK
<1>6. FixtureInv'
  <2>1. Len(Tests) \in Nat /\ n \in Nat
    BY <1>1, TestFacts DEF TypeOK
  <2>2. QED
    BY <1>1, <1>2, <2>1 DEF FixtureInv
<1>7. LogInv'
  BY <1>1, <1>2 DEF LogInv, ErrorsOwn, ErrorsPrinted
<1>8. Dumped' = Dumped /\ \A k \in 1 .. Len(dumps) : UpTo(k)' = UpTo(k)
  BY <1>2 DEF Dumped, UpTo
<1>9. SummaryInv'
  <2>1. CASE TearsDown(dumped) /\ file' = leftovers_file'
    <3>1. /\ DOMAIN summary' =
                DOMAIN summary \cup (IF team = NoTeam THEN {} ELSE {team})
          /\ DOMAIN summary' \subseteq Dumped
          /\ \A k \in 1 .. Len(dumps) : dumps[k].team \in DOMAIN summary' =>
                summary'[dumps[k].team]
                    = compare_ge_state(dumps[k].engine, UpTo(k))
      BY <1>1, <1>2, <2>1, TearsDownFacts
    <3>2. ASSUME ~ dumpFailed'
          PROVE  /\ \A t \in Teams : fixture[t] # "none" => t \in Dumped
                 /\ team # NoTeam => Types \subseteq DOMAIN ge_state
                 /\ Dumped \subseteq DOMAIN summary'
                 /\ env = "ok" => Teams \subseteq Dumped
                 /\ dumps # <<>> =>
                     Differences(dumps[1].engine, engine) \subseteq AllListed'
      <4>1. ~ dumpFailed
        BY <1>3, <3>2
      <4>2. /\ \A t \in Teams : fixture[t] # "none" => t \in Dumped
            /\ team # NoTeam => Types \subseteq DOMAIN ge_state
            /\ Dumped \ {team} \subseteq DOMAIN summary
        BY <1>1, <4>1 DEF SummaryInv
      <4>3. team = NoTeam => Dumped = {}
        BY <1>1 DEF FixtureInv, Dumped
      <4>4. Dumped \subseteq DOMAIN summary'
        BY <3>1, <4>2, <4>3
      <4>5. ASSUME env = "ok", NEW t \in Teams PROVE t \in Dumped
        <5>1. PICK i \in 1 .. Len(Tests) : Tests[i] = t
          BY TestFacts
        <5>2. i < n
          BY <1>1, <1>2, TestFacts DEF TypeOK
        <5>3. fixture[t] # "none"
          BY <1>1, <4>5, <5>1, <5>2 DEF FixtureInv
        <5>4. QED
          BY <4>2, <5>3
      <4>6. dumps # <<>> =>
                Differences(dumps[1].engine, engine) \subseteq AllListed'
        BY <1>1, <1>2, <2>1, <4>1, TearsDownListed
      <4>7. QED
        BY <4>2, <4>4, <4>5, <4>6
    <3>3. Dumped \subseteq Teams
      <4>1. dumps \in Seq(Dump)
        BY <1>1 DEF TypeOK, Dump
      <4>2. \A k \in 1 .. Len(dumps) : dumps[k] \in Dump
        BY <4>1, ElementOfSeq
      <4>3. QED
        BY <4>2 DEF Dumped, Dump
    <3>4. ReportComplete'
      BY <1>2, <2>1, <3>1, <3>2, <3>3 DEF ReportComplete
    <3>5. ASSUME ~ dumpFailed', dumps # <<>>
          PROVE  Differences(dumps[1].engine, dumps[Len(dumps)].engine)
                    \subseteq AllListed'
      <4>1. ~ dumpFailed
        BY <1>3, <3>5
      <4>2. \A t \in DOMAIN summary : summary'[t] = summary[t]
        BY <1>1, <1>2, <2>1, TearsDownFacts
      <4>3. AllListed' = UNION { Listed(summary'[t]) : t \in DOMAIN summary' }
        BY DEF AllListed, Listed
      <4>4. AllListed \subseteq AllListed'
        BY <3>1, <4>2, <4>3 DEF AllListed
      <4>5. QED
        BY <1>1, <3>5, <4>1, <4>4 DEF SummaryInv
    <3>6. QED
      BY <1>2, <1>8, <3>1, <3>2, <3>4, <3>5 DEF SummaryInv
  <2>2. CASE TeardownFails(dumped) /\ UNCHANGED file
    <3>1. dumpFailed' /\ summary' = summary
      BY <1>1, <1>3, <2>2, TeardownRaises DEF TeardownFails
    <3>2. QED
      BY <1>1, <1>2, <1>8, <3>1 DEF SummaryInv, ReportComplete
  <2>3. QED
    BY <1>3, <2>1, <2>2
<1>10. QED
  BY <1>5, <1>6, <1>7, <1>9 DEF TestInv

(* Nothing happens.                                                        *)
LEMMA StutterStep ==
    ASSUME TestInv, UNCHANGED vars
    PROVE  TestInv'
<1>1. TypeOK'
  BY DEF TestInv, vars, TypeOK
<1>2. FixtureInv'
  BY DEF TestInv, vars, FixtureInv
<1>3. SummaryInv'
  BY DEF TestInv, vars, SummaryInv, Dumped, UpTo, AllListed, Listed,
         ReportComplete
<1>4. LogInv'
  BY DEF TestInv, vars, LogInv, ErrorsOwn, ErrorsPrinted
<1>5. QED
  BY <1>1, <1>2, <1>3, <1>4 DEF TestInv

-----------------------------------------------------------------------------
(* The theorems.                                                           *)

(* The inductive invariant: in every state of a session, whatever changes  *)
(* the engine and in whatever order the teams' tests come, each team's     *)
(* fixture has run once, every summary compares the engine at its team's   *)
(* fixture and at the next one, the summaries together cover what has      *)
(* changed since the first dump, and what waits in the recording filter    *)
(* belongs to the current test or to a teardown.                           *)
THEOREM TestInvariance == Spec => []TestInv
<1>1. TestInv /\ [Next]_vars => TestInv'
  BY EnvStep, TeamStep, WorksStep, SetupStep, CallStep, TeardownStep,
     UnconfigureStep, StutterStep DEF Next
<1>2. QED
  BY InitTestInv, <1>1, PTL DEF Spec

(* LeftoversInfo lists under a team exactly what differs between the       *)
(* engine at its session fixture and at that of the next team, or at the   *)
(* end, for any order of the tests, any resources and dumps that fail.     *)
THEOREM LeftoversCorrect == Spec => []LeftoversOwn
<1>1. ASSUME TestInv PROVE LeftoversOwn
  <2>1. /\ dumps \in Seq(Dump) /\ engine \in State
        /\ DOMAIN summary \subseteq Dumped
        /\ \A k \in 1 .. Len(dumps) : dumps[k].team \in DOMAIN summary =>
            summary[dumps[k].team] = compare_ge_state(dumps[k].engine, UpTo(k))
    BY <1>1 DEF TestInv, TypeOK, SummaryInv, Dump
  <2>2. Len(dumps) \in Nat /\ \A k \in 1 .. Len(dumps) : dumps[k] \in Dump
    BY <2>1, LenProperties, ElementOfSeq
  <2>3. ASSUME NEW k \in 1 .. Len(dumps), dumps[k].team \in DOMAIN summary
        PROVE  Listed(summary[dumps[k].team])
                    = Differences(dumps[k].engine, UpTo(k))
    <3>1. dumps[k].engine \in State
      BY <2>2 DEF Dump
    <3>2. UpTo(k) \in State
      <4>1. CASE k < Len(dumps)
        <5>1. dumps[k + 1] \in Dump
          BY <2>2, <4>1
        <5>2. QED
          BY <4>1, <5>1 DEF UpTo, Dump
      <4>2. CASE ~ (k < Len(dumps))
        BY <2>1, <4>2 DEF UpTo
      <4>3. QED
        BY <4>1, <4>2
    <3>3. QED
      BY <2>1, <2>3, <3>1, <3>2, ListedExact
  <2>4. QED
    BY <2>1, <2>3 DEF LeftoversOwn
<1>2. QED
  BY <1>1, TestInvariance, PTL

(* At the end of a session in which no dump has failed the report is       *)
(* written if its option was given, has all teams, and misses nothing that *)
(* differs since the first dump.                                           *)
THEOREM ReportCorrect == Spec => []ReportComplete
<1>1. TestInv => ReportComplete
  BY DEF TestInv, SummaryInv
<1>2. QED
  BY <1>1, TestInvariance, PTL

(* ARTLogging prints an error of a setup or call under its own test only,  *)
(* and only when that test has failed.                                     *)
THEOREM ErrorsOwnCorrect == Spec => []ErrorsOwn
<1>1. TestInv => ErrorsOwn
  BY DEF TestInv, LogInv
<1>2. QED
  BY <1>1, TestInvariance, PTL

(* ARTLogging prints all errors of the setup and the call of a test that   *)
(* has failed in one of them.                                              *)
THEOREM ErrorsPrintedCorrect == Spec => []ErrorsPrinted
<1>1. TestInv => ErrorsPrinted
  BY DEF TestInv, LogInv
<1>2. QED
  BY <1>1, TestInvariance, PTL

=============================================================================
