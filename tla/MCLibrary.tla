----------------------------- MODULE MCLibrary -----------------------------
(***************************************************************************)
(* The calls of the library that the run makes.  Left out are the calls    *)
(* for which TLC refutes a promise of module Calls (section 4 of the       *)
(* README): MoveCalls of DiskLib, HostFailures of HostLib, ImportCalls of  *)
(* StorageLib, GoneCalls of VmPartsLib and AsyncCalls of VmLib.            *)
(*                                                                         *)
(* The assumptions say for how many of these calls the hypotheses of the   *)
(* theorems of CallsProofs hold: TLC finds the points of a call one by one *)
(* and the statements of the library.                                      *)
(***************************************************************************)
EXTENDS CallCourses, CallIdioms, VmFlows

AllCalls ==
    CommonCalls \cup DiskCalls \cup VmCalls \cup VmPartCalls \cup HostCalls
    \cup ClusterCalls \cup StorageCalls \cup StorageFlowCalls
    \cup TemplateCalls \cup NetworkCalls \cup NetworkFlowCalls
    \cup VmFlowCalls

-----------------------------------------------------------------------------
(* The statements of the library, and what they leave to do.               *)

RECURSIVE StatementsOf(_)
StatementsOf(body) ==
    UNION { {s} \cup
            CASE s.do \in {"if", "when"} ->
                    StatementsOf(s.yes) \cup StatementsOf(s.no)
              [] s.do = "either" -> UNION { StatementsOf(a) : a \in s.alts }
              [] s.do = "call" -> StatementsOf(s.body)
              [] s.do = "try" ->
                    StatementsOf(s.body) \cup StatementsOf(s.handler)
                    \cup {[do |-> "except", on |-> s.on, body |-> s.handler]}
              [] s.do = "tryfinally" ->
                    StatementsOf(s.body) \cup StatementsOf(s.last)
                    \cup {[do |-> "finally", body |-> s.last]}
              [] s.do = "fork" ->
                    {[do |-> "join", onerror |-> s.onerror]}
                    \cup UNION { StatementsOf(b) : b \in Range(s.bodies) }
              [] OTHER -> {}
            : s \in Range(body) }

\* The calls for which the hypothesis of TypeCorrect holds.  The classes of
\* statements of several of them make up one class.
WrittenCalls ==
    { c \in AllCalls :
        Written({ Raise(x) : x \in AnyException }
                \cup { Ret(v) : v \in {"true", "false", "none"} }
                \cup StatementsOf(c.body)) }

-----------------------------------------------------------------------------
(* The points of a call: those that D leads to, one by one.                *)

RECURSIVE ClearPoints(_, _)
ClearPoints(D, old) ==
    IF D \subseteq old THEN old
    ELSE ClearPoints(UNION { Turns(c) \cup Clears(c) : c \in D \ old },
                     D \cup old)

RECURSIVE AllPoints(_, _, _)
AllPoints(D, old, X) ==
    IF D \subseteq old THEN old
    ELSE AllPoints(UNION { Turns(c) \cup Outcomes(c, X) : c \in D \ old },
                   D \cup old, X)

Beginnings(c, A, know) == { Beginning(c, a, know) : a \in A }

\* The statuses on the ways of its entities.
StatusesOf(c) ==
    LET given == UNION { c.given[e] : e \in DOMAIN c.given }
        sent == { s \in StatementsOf(c.body) : s.do = "request" }
    IN given \cup UNION { Range(StartPath(s)) : s \in given }
       \cup UNION { Range(s.op.path) \cup ({s.op.fail} \ {"never"}) : s \in sent }

\* The calls for which the hypotheses of ReasonGiven, TrueWitnessed and
\* RefusalWitnessed hold.
Accounted ==
    { c \in AllCalls :
        Accounts(ClearPoints(Beginnings(c, Demands(c), Unasked(c)), {}), c) }

Witnessed ==
    { c \in AllCalls :
        LET X == StatusesOf(c)
        IN Witnesses(AllPoints(Beginnings(c, Demands(c), Unseen(c)), {}, X),
                     X, c) }

RefusedOnly ==
    { c \in AllCalls :
        LET X == StatusesOf(c)
        IN /\ "positive" \in c.flags
           /\ Refuses(AllPoints(Beginnings(c, Refusals(c), Unseen(c)), {}, X),
                      X, c) }

\* Most of the calls, and of those that have a negative test.
ASSUME MostWritten == Cardinality(WrittenCalls) * 4 > Cardinality(AllCalls) * 3

ASSUME MostAccounted == Cardinality(Accounted) * 4 > Cardinality(AllCalls) * 3

ASSUME MostWitnessed == Cardinality(Witnessed) * 4 > Cardinality(AllCalls) * 3

ASSUME MostRefusedOnly ==
    Cardinality(RefusedOnly) * 4
    > Cardinality({ c \in AllCalls : "positive" \in c.flags }) * 3
=============================================================================
