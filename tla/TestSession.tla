---------------------------- MODULE TestSession ----------------------------
(***************************************************************************)
(* A pytest session with two plugins of _pytest_art: LeftoversInfo, which  *)
(* compares the engine at the first tests of two teams (Inventory,         *)
(* inventory.py), and ARTLogging, which records the errors of requests     *)
(* while a test runs and prints them when it fails (testlogger.py).        *)
(*                                                                         *)
(* Before the first test pytest (external) runs the session fixture        *)
(* prepare_env of rhevmtests/conftest.py; before the first test of a team, *)
(* that of the team's own conftest.py, which calls the hook                *)
(* pytest_rhv_setup.  A session fixture runs once: when it has raised,     *)
(* pytest fails the setup of all tests that ask for it.  The order of the  *)
(* tests is any: the marks of an upgrade (marks.py) mix the teams.         *)
(* Fixtures, tests and finalizers change the engine.                       *)
(*                                                                         *)
(* A request error is an event of the test in whose setup, call or         *)
(* teardown it is logged (APIUtil.print_error_msg).                        *)
(***************************************************************************)
EXTENDS Naturals, Sequences, FiniteSets, Functions, SequencesExt

CONSTANTS
    Tests,      \* the directories of the tests, in the order of the session
    Teams,      \* those with a session fixture of their own
    Types,      \* Inventory.resource_types_to_dump
    Ids,        \* resources
    Ignored,    \* those that are named in ignored_rsrc_names
    Values,     \* what a resource looks like without whitelisted_attr
    NoTeam,     \* None
    MaxErrors   \* bound: errors that wait in the filter

ASSUME SessionAssumption ==
    /\ Tests \in Seq(STRING) /\ Tests # <<>>
    /\ Teams \subseteq ToSet(Tests)
    /\ NoTeam \notin Teams
    /\ "absent" \notin Values
    /\ Ignored \subseteq Ids
    /\ MaxErrors \in Nat

VARIABLES
    engine,     \* the resources of each type
    \* pytest
    n,          \* number of the test
    phase,      \* what it does next, or "end" of the session
    env,        \* outcome of the session fixture prepare_env
    fixture,    \* outcome of each team's session fixture
    \* LeftoversInfo
    ge_state,   \* the dump of each type that could be dumped
    team,       \* the team whose fixture ran last
    summary,    \* of each team, the differences
    leftovers_file, \* the option --leftovers-file was found given at the end
    file,       \* the report: written or not
    \* ARTLogging and its RecordingFilter
    messages,   \* recorded: the number and the phase of their test
    printed,    \* the messages of the " ERR:" lines under the current test
    \* history
    failed,     \* the current test has failed in its setup or call
    logged,     \* errors of the current test's setup and call
    dumpFailed, \* some dump has failed
    dumps       \* the teams whose pytest_rhv_setup ended, and the engine then

vars == <<engine, n, phase, env, fixture, ge_state, team, summary,
          leftovers_file, file, messages, printed, failed, logged, dumpFailed,
          dumps>>

report_file == <<leftovers_file, file>>
leftovers == <<ge_state, team, summary, report_file, dumpFailed, dumps>>
log == <<messages, printed, failed, logged>>

State == [Types -> [Ids -> Values \cup {"absent"}]]

Empty == [x \in {} |-> x]

Init ==
    /\ engine \in State
    /\ n = 1
    /\ phase = "setup"
    /\ env = "none"
    /\ fixture = [t \in Teams |-> "none"]
    /\ ge_state = Empty
    /\ team = NoTeam
    /\ summary = Empty
    /\ leftovers_file = FALSE
    /\ file = FALSE
    /\ messages = <<>>
    /\ printed = {}
    /\ failed = FALSE
    /\ logged = {}
    /\ dumpFailed = FALSE
    /\ dumps = <<>>

-----------------------------------------------------------------------------
(* Inventory *)

\* dump_ge_resource for each type; one that raises is logged and left out.
get_summary_report(dumped) == Restrict(engine, dumped)

find_resources_diff(old, cur) ==
    [changed |-> { i \in Ids : /\ "absent" \notin {old[i], cur[i]}
                               /\ old[i] # cur[i] },
     added |-> { i \in Ids \ Ignored : old[i] = "absent"
                                       /\ cur[i] # "absent" },
     removed |-> { i \in Ids : old[i] # "absent" /\ cur[i] = "absent" }]

NoDiff == [changed |-> {}, added |-> {}, removed |-> {}]

\* old_state[resource_type] and new_state[resource_type]: KeyError
Comparable(old, cur) == Types \subseteq DOMAIN old \cap DOMAIN cur

compare_ge_state(old, cur) ==
    LET diff == [ty \in Types |-> find_resources_diff(old[ty], cur[ty])]
    IN Restrict(diff, { ty \in Types : diff[ty] # NoDiff })

-----------------------------------------------------------------------------
(* LeftoversInfo: pytest_rhv_teardown of the team before, with the types   *)
(* that can be dumped now; then the rest of pytest_rhv_setup.              *)

TearsDown(dumped) ==
    \/ team = NoTeam /\ UNCHANGED summary
    \/ /\ team # NoTeam
       /\ Comparable(ge_state, get_summary_report(dumped))
       /\ summary' = [t \in DOMAIN summary \cup {team} |->
            IF t = team
            THEN compare_ge_state(ge_state, get_summary_report(dumped))
            ELSE summary[t]]

\* It raises: the dump of the team before stays in place.
TeardownFails(dumped) ==
    /\ team # NoTeam
    /\ ~ Comparable(ge_state, get_summary_report(dumped))
    /\ UNCHANGED summary

\* Mutant: the team is changed although the teardown has raised.
pytest_rhv_setupMovesOn(t) ==
    /\ team' = t
    /\ \E one, two \in SUBSET Types :
        \/ /\ TearsDown(one)
           /\ ge_state' = get_summary_report(two)
           /\ dumps' = Append(dumps, [team |-> t, engine |-> engine])
           /\ dumpFailed' =
                (dumpFailed \/ two # Types \/ (team # NoTeam /\ one # Types))
        \/ /\ TeardownFails(one)
           /\ dumpFailed' = (dumpFailed \/ one # Types)
           /\ UNCHANGED <<ge_state, dumps>>

pytest_rhv_setup(t) ==
    \E one, two \in SUBSET Types :
        \/ /\ TearsDown(one)
           /\ ge_state' = get_summary_report(two)
           /\ team' = t
           /\ dumps' = Append(dumps, [team |-> t, engine |-> engine])
           /\ dumpFailed' =
                (dumpFailed \/ two # Types \/ (team # NoTeam /\ one # Types))
        \/ /\ TeardownFails(one)
           /\ dumpFailed' = (dumpFailed \/ one # Types)
           /\ UNCHANGED <<ge_state, team, dumps>>

\* Mutant: the report is written without the teardown of the last team.
pytest_unconfigureOnly ==
    /\ n > Len(Tests)
    /\ phase = "setup"
    /\ phase' = "end"
    /\ leftovers_file' \in BOOLEAN
    /\ file' = leftovers_file'
    /\ UNCHANGED <<engine, n, env, fixture, ge_state, team, summary, log,
                   dumpFailed, dumps>>

\* At the end of the session: the teardown of the last team, and the report.
\* open() raises when the option has not been given.
pytest_unconfigure ==
    /\ n > Len(Tests)
    /\ phase = "setup"
    /\ phase' = "end"
    /\ leftovers_file' \in BOOLEAN
    /\ \E dumped \in SUBSET Types :
        /\ dumpFailed' = (dumpFailed \/ (team # NoTeam /\ dumped # Types))
        /\ \/ TearsDown(dumped) /\ file' = leftovers_file'
           \/ TeardownFails(dumped) /\ UNCHANGED file
    /\ UNCHANGED <<engine, n, env, fixture, ge_state, team, log, dumps>>

-----------------------------------------------------------------------------
(* ARTLogging.  The filter records from the first setup on; it is off only *)
(* while the plugin itself prints.                                         *)

\* _log_footer takes all messages that wait: they are printed if the test has
\* failed, or flushed.
log_footer(outcome, ms) == IF outcome = "failed" THEN ToSet(ms) ELSE {}

\* Mutant: the messages of a test that has not failed are not flushed.
reportFailures(when, outcome, ms) ==
    LET footer == outcome = "failed"
    IN /\ messages' = IF footer THEN <<>> ELSE ms
       /\ printed' = IF when = "teardown" THEN {}
                     ELSE printed \cup log_footer(outcome, ms)

\* Mutant: a setup that has failed has no footer.
reportCalls(when, outcome, ms) ==
    /\ messages' = IF when = "call" THEN <<>> ELSE ms
    /\ printed' = CASE when = "teardown" -> {}
                    [] when = "call" -> printed \cup log_footer(outcome, ms)
                    [] OTHER -> printed

\* pytest_report_teststatus: a footer for the call, for a setup that has not
\* passed, and for a teardown that has skipped.  After the teardown come the
\* lines of the next test.
report(when, outcome, ms) ==
    LET footer == \/ when = "call"
                  \/ when = "setup" /\ outcome = "failed"
                  \/ outcome = "skipped"
    IN /\ messages' = IF footer THEN <<>> ELSE ms
       /\ printed' =
            CASE when = "teardown" -> {}
              [] footer /\ when # "teardown" ->
                    printed \cup log_footer(outcome, ms)
              [] OTHER -> printed

\* The errors of a phase: some requests fail and are logged.
Errors(k) == [i \in 1 .. k |-> <<n, phase>>]

-----------------------------------------------------------------------------
(* A test: its setup, call and teardown, each with its report. *)

Outcomes == {"passed", "failed", "skipped"}

Reported(outcome) ==
    \E k \in 0 .. (MaxErrors - Len(messages)) :
        /\ report(phase, outcome, messages \o Errors(k))
        /\ logged' = logged \cup ToSet(Errors(k))
        /\ failed' = (failed \/ outcome = "failed")

\* Domains and jobs that an earlier session has left are removed.
prepare_env ==
    /\ phase = "setup"
    /\ n <= Len(Tests)
    /\ env = "none"
    /\ env' \in {"ok", "failed"}
    /\ engine' \in State
    /\ UNCHANGED <<n, phase, fixture, leftovers, log>>

\* The session fixture of the team.  What the network's and the storage's do
\* after the hook may raise, but leaves what is dumped alone.
prepare_env_team ==
    /\ phase = "setup"
    /\ n <= Len(Tests)
    /\ env = "ok"
    /\ Tests[n] \in Teams
    /\ fixture[Tests[n]] = "none"
    /\ pytest_rhv_setup(Tests[n])
    /\ \E outcome \in {"ok", "failed"} :
        /\ outcome = "ok" => team' = Tests[n]
        /\ fixture' = [fixture EXCEPT ![Tests[n]] = outcome]
    /\ UNCHANGED <<engine, n, phase, env, report_file, log>>

\* A session fixture of the current test has raised, now or before.
Broken ==
    \/ env = "failed"
    \/ Tests[n] \in Teams /\ fixture[Tests[n]] = "failed"

\* The session fixtures of the current test have run.
SessionReady ==
    /\ env # "none"
    /\ env = "ok" /\ Tests[n] \in Teams => fixture[Tests[n]] # "none"

\* What runs in the current phase changes the engine: the fixtures of the test,
\* its class and its module, the test itself, and the finalizers, that of
\* prepare_env (storage_cleanup) among those of the last test's teardown.
works ==
    /\ \/ phase = "setup" /\ n <= Len(Tests) /\ SessionReady /\ ~ Broken
       \/ phase \in {"call", "teardown"}
    /\ engine' \in State
    /\ UNCHANGED <<n, phase, env, fixture, leftovers, log>>

pytest_runtest_setup ==
    /\ phase = "setup"
    /\ n <= Len(Tests)
    /\ SessionReady
    /\ \E outcome \in Outcomes :
        /\ Broken => outcome = "failed"
        /\ Reported(outcome)
        /\ phase' = IF outcome = "passed" THEN "call" ELSE "teardown"
    /\ UNCHANGED <<engine, n, env, fixture, leftovers>>

pytest_runtest_call ==
    /\ phase = "call"
    /\ \E outcome \in Outcomes : Reported(outcome)
    /\ phase' = "teardown"
    /\ UNCHANGED <<engine, n, env, fixture, leftovers>>

pytest_runtest_teardown ==
    /\ phase = "teardown"
    /\ \E outcome \in Outcomes,
          k \in 0 .. (MaxErrors - Len(messages)) :
        report(phase, outcome, messages \o Errors(k))
    /\ phase' = "setup"
    /\ n' = n + 1
    /\ logged' = {}
    /\ failed' = FALSE
    /\ UNCHANGED <<engine, env, fixture, leftovers>>

Next ==
    \/ prepare_env
    \/ prepare_env_team
    \/ works
    \/ pytest_runtest_setup
    \/ pytest_runtest_call
    \/ pytest_runtest_teardown
    \/ pytest_unconfigure

Spec == Init /\ [][Next]_vars

-----------------------------------------------------------------------------
(* Properties *)

\* What differs between two states of the engine, as a reader of the report
\* expects: everything but resources of an ignored name that are new.
Differences(old, cur) ==
    { x \in Types \X Ids :
        /\ old[x[1]][x[2]] # cur[x[1]][x[2]]
        /\ old[x[1]][x[2]] = "absent" => x[2] \notin Ignored }

Listed(diff) ==
    { x \in (DOMAIN diff) \X Ids :
        x[2] \in diff[x[1]].changed \cup diff[x[1]].added
                \cup diff[x[1]].removed }

Dumped == { dumps[k].team : k \in 1 .. Len(dumps) }

\* The engine at the next team's fixture, or now.
UpTo(k) == IF k < Len(dumps) THEN dumps[k + 1].engine ELSE engine

AllListed == UNION { Listed(summary[t]) : t \in DOMAIN summary }

\* The report lists under a team exactly what differs between the engine at
\* its session fixture and at that of the next team, or at the end of the
\* session: although a team's teardown runs in the setup of the next one, and
\* is repeated in the setup of a later one when it has raised, a difference
\* is listed neither twice nor under another team.  (Whose tests have made it
\* is something else: see README.)
LeftoversOwn ==
    /\ DOMAIN summary \subseteq Dumped
    /\ \A k \in 1 .. Len(dumps) :
        dumps[k].team \in DOMAIN summary =>
            Listed(summary[dumps[k].team])
                = Differences(dumps[k].engine, UpTo(k))

\* At the end of a session in which no dump has failed, the report is written
\* if the option for its file was given, has all teams, and misses nothing:
\* what differs since the first dump is listed under some team.
ReportComplete ==
    phase = "end" /\ ~ dumpFailed =>
        /\ file = leftovers_file
        /\ env = "ok" => DOMAIN summary = Teams
        /\ dumps # <<>> => Differences(dumps[1].engine, engine) \subseteq AllListed

\* An error of a test's setup or call is printed under no other test, and
\* only if the test has failed: what a test that passes or skips has recorded
\* is flushed.
ErrorsOwn ==
    \A m \in printed : m[2] # "teardown" => m[1] = n /\ failed

\* All errors of the setup and the call of a test that has failed in one of
\* them are printed under it.
ErrorsPrinted ==
    phase = "teardown" /\ failed => logged \subseteq printed

-----------------------------------------------------------------------------
(* The inductive invariant behind the properties.                          *)

Message == Nat \X {"setup", "call", "teardown"}

TypeOK ==
    /\ engine \in State
    /\ n \in 1 .. Len(Tests) + 1
    /\ phase \in {"setup", "call", "teardown", "end"}
    /\ env \in {"none", "ok", "failed"}
    /\ fixture \in [Teams -> {"none", "ok", "failed"}]
    /\ team \in Teams \cup {NoTeam}
    /\ {failed, dumpFailed, file, leftovers_file} \subseteq BOOLEAN
    /\ messages \in Seq(Message)
    /\ printed \subseteq Message /\ logged \subseteq Message
    /\ dumps \in Seq([team : Teams, engine : State])

\* Each team's fixture runs once, before its first test, and what was dumped
\* last is the engine at the fixture of the team under way.
FixtureInv ==
    /\ phase \in {"call", "teardown"} => n <= Len(Tests) /\ env # "none"
    /\ env = "none" => n = 1
    /\ phase = "end" => n > Len(Tests)
    /\ env = "ok" =>
        \A i \in 1 .. Len(Tests) :
            Tests[i] \in Teams /\ (i < n \/ (i = n /\ phase # "setup")) =>
                fixture[Tests[i]] # "none"
    /\ \A k \in 1 .. Len(dumps) : fixture[dumps[k].team] # "none"
    /\ \A j, k \in 1 .. Len(dumps) : dumps[j].team = dumps[k].team => j = k
    /\ team = NoTeam => dumps = <<>>
    /\ team # NoTeam =>
        /\ dumps # <<>>
        /\ dumps[Len(dumps)].team = team
        /\ DOMAIN ge_state \subseteq Types
        /\ ge_state = Restrict(dumps[Len(dumps)].engine, DOMAIN ge_state)

\* The summary of a team is final; it is missing only until the next team's
\* fixture, or because a dump has failed.
SummaryInv ==
    /\ DOMAIN summary \subseteq Dumped
    /\ team \in DOMAIN summary => phase = "end"
    /\ \A k \in 1 .. Len(dumps) :
        dumps[k].team \in DOMAIN summary =>
            summary[dumps[k].team] = compare_ge_state(dumps[k].engine, UpTo(k))
    /\ ~ dumpFailed =>
        /\ \A t \in Teams : fixture[t] # "none" => t \in Dumped
        /\ team # NoTeam => Types \subseteq DOMAIN ge_state
        /\ Dumped \ {team} \subseteq DOMAIN summary
        /\ dumps # <<>> =>
            Differences(dumps[1].engine, dumps[Len(dumps)].engine)
                \subseteq AllListed
    /\ ReportComplete

\* Messages of a setup wait only for the report of the call that follows it.
LogInv ==
    /\ phase = "teardown" => messages = <<>>
    /\ \A m \in ToSet(messages) :
        m[2] # "teardown" => m[1] = n /\ phase = "call"
    /\ phase # "teardown" => printed = {} /\ ~ failed
    /\ phase = "setup" => logged = {}
    /\ phase = "call" => logged \subseteq ToSet(messages)
    /\ ErrorsOwn /\ ErrorsPrinted

\* The inductive invariant.
TestInv == TypeOK /\ FixtureInv /\ SummaryInv /\ LogInv
=============================================================================
