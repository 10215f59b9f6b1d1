---------------------------- MODULE CallIdioms ----------------------------
(***************************************************************************)
(* The idioms in which the functions of the library are written: classes   *)
(* of statements that the steps of module Calls do not leave, and the ways *)
(* in which the functions end.                                             *)
(***************************************************************************)
EXTENDS Statements

\* Statements of any kind: what one of them leaves to do is in S again, and
\* two threads at most are started at once.
Written(S) ==
    /\ \A x \in AnyException : Raise(x) \in S
    /\ \A v \in {"true", "false", "none"} : Ret(v) \in S
    /\ \A s \in S :
        /\ s.do # "end"
        /\ s.do \in {"see", "look"} => s.why \in {"never", "state"}
        /\ s.do \in {"if", "when"} => s.yes \in Seq(S) /\ s.no \in Seq(S)
        /\ s.do = "either" => s.alts \subseteq Seq(S)
        /\ s.do = "call" => s.body \in Seq(S)
        /\ s.do = "try" =>
            /\ s.body \in Seq(S)
            /\ [do |-> "except", on |-> s.on, body |-> s.handler] \in S
        /\ s.do = "tryfinally" =>
            s.body \in Seq(S) /\ [do |-> "finally", body |-> s.last] \in S
        /\ s.do \in {"except", "finally"} => s.body \in Seq(S)
        /\ s.do = "raise" => s.x \in AnyException
        /\ s.do = "return" =>
            s.v \in {"true", "false", "none", "res", "acc", "positive",
                     "same", "negative"}
        /\ s.do = "fork" =>
            /\ s.bodies \in Seq(Seq(S)) /\ Len(s.bodies) <= 2
            /\ [do |-> "join", onerror |-> s.onerror] \in S

-----------------------------------------------------------------------------
\* The statements of S, and of C in the functions that they call: what one
\* of them leaves to do is in S again.  There are no threads.
Closed(S, C) ==
    /\ \A x \in AnyException : Raise(x) \in S
    /\ \A s \in S :
        /\ s.do \notin {"fork", "join", "end"}
        /\ s.do \in {"if", "when"} => s.yes \in Seq(S) /\ s.no \in Seq(S)
        /\ s.do = "either" => s.alts \subseteq Seq(S)
        /\ s.do = "call" => s.body \in Seq(C)
        /\ s.do = "try" =>
            /\ s.body \in Seq(S)
            /\ [do |-> "except", on |-> s.on, body |-> s.handler] \in S
        /\ s.do = "tryfinally" =>
            s.body \in Seq(S) /\ [do |-> "finally", body |-> s.last] \in S
        /\ s.do \in {"except", "finally"} => s.body \in Seq(S)
        /\ s.do = "raise" => s.x \in AnyException

\* The statements of the functions that are called: they return anything.
Called(S) ==
    /\ Closed(S, S)
    /\ \A v \in {"true", "false", "none"} : Ret(v) \in S
    /\ \A s \in S : s.do = "return" => Ret(s.v) \in S

\* The statements of a function before its tail: an early return answers
\* False or None.
Early(O, S) ==
    /\ Closed(O, S)
    /\ \A v \in {"false", "none"} : Ret(v) \in O
    /\ \A s \in O : s.do = "return" => s.v \in {"false", "none"}

-----------------------------------------------------------------------------
(* Ends of functions                                                       *)

\* The statement q shows what a call promises in `done`, if its result is
\* True: it is a request about the entity of the promise, or sees all its
\* entities in a promised status.
Shows(q, done) ==
    \/ q.do = "request" /\ done = [x \in {q.e} |-> {"asked"}]
    \/ /\ q.do \in {"see", "look", "wait"}
       /\ q.do = "wait" => q.by # "same"
       /\ DOMAIN done \subseteq q.es
       /\ \A x \in DOMAIN done : q.goal \subseteq done[x]

Failures == {Ret("false"), Ret("none")} \cup { Raise(x) : x \in AnyException }

\* return <result>, or: if not <result>: <failure>; return True
Endings ==
    {<<Ret("res")>>} \cup
    { <<If(<<>>, <<f>>), Ret("true")>> : f \in Failures }
=============================================================================
