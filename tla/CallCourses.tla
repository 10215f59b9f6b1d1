---------------------------- MODULE CallCourses ----------------------------
(***************************************************************************)
(* The course of a call, seen from the function: the points that it may    *)
(* reach, and what is known there of the entities, whatever the engine     *)
(* does.  A set of points that no statement leaves says something of every *)
(* behaviour of module Calls.                                              *)
(***************************************************************************)
EXTENDS Calls

\* A point: what the test has left to do, its last result, the conjunction of
\* results, the status that it remembers, the flags, and what is known of
\* each entity.
Point(c) ==
    c \in [todo : {c.todo}, res : {c.res}, acc : {c.acc}, mem : {c.mem},
           args : {c.args}, know : {c.know}]

\* The first point of the call c with the flags a.
Beginning(c, a, know) ==
    [todo |-> c.body, res |-> FALSE, acc |-> TRUE, mem |-> "none",
     args |-> a \cup Defaults(c), know |-> know]

\* The flags of the calls that demand what the function promises, and of
\* those that want the engine to refuse.
Demands(c) == { a \in SUBSET c.flags : {"positive", "wait"} \cap c.flags \subseteq a }
Refusals(c) == { a \in SUBSET c.flags : "positive" \in c.flags \ a }

-----------------------------------------------------------------------------
(* Statements that only the function is about.  They do in a point what    *)
(* they do in a thread of Calls.                                           *)

InFrame(c, f) == [c EXCEPT !.acc = f.acc, !.mem = f.mem, !.args = f.args]

\* Where a return leads to, if it is not the answer.
Returned(c, v, todo) ==
    LET i == SelectInSeq(todo, LAMBDA s : s.do \in {"end", "finally"})
        after == SubSeq(todo, i + 1, Len(todo))
    IN IF i = 0 THEN {}
       ELSE IF todo[i].do = "end"
       THEN {[InFrame(c, todo[i]) EXCEPT !.todo = after, !.res = (v = "true")]}
       ELSE {[c EXCEPT !.todo = todo[i].body \o <<Ret(v)>> \o after]}

\* Where an exception leads to, if the function does not raise it.
Handled(c, x, todo) ==
    LET i == SelectInSeq(todo, LAMBDA s : \/ s.do = "finally"
                                          \/ s.do = "except" /\ x \in s.on)
        ends == { j \in 1 .. (i - 1) : todo[j].do = "end" }
        u == IF ends = {} THEN c ELSE InFrame(c, todo[Max(ends)])
    IN IF i = 0 THEN {}
       ELSE {[u EXCEPT !.todo =
                todo[i].body
                \o (IF todo[i].do = "finally" THEN <<Raise(x)>> ELSE <<>>)
                \o SubSeq(todo, i + 1, Len(todo))]}

ValueAt(c, v) ==
    CASE v = "res" -> Truth(c.res)
      [] v = "acc" -> Truth(c.acc)
      [] v = "positive" -> Truth("positive" \in c.args)
      [] v = "same" -> Truth(c.res = ("positive" \in c.args))
      [] v = "negative" -> Truth("positive" \notin c.args)
      [] OTHER -> v

\* The points after a statement that does not ask the engine.
Turns(c) ==
    IF c.todo = <<>> THEN {}
    ELSE
    LET s == Head(c.todo)
        rest == Tail(c.todo)
    IN CASE s.do = "if" ->
            {[c EXCEPT !.todo = (IF c.res THEN s.yes ELSE s.no) \o rest]}
         [] s.do = "when" ->
            {[c EXCEPT !.todo = (IF s.flag \in c.args THEN s.yes ELSE s.no)
                                \o rest]}
         [] s.do = "either" -> { [c EXCEPT !.todo = a \o rest] : a \in s.alts }
         [] s.do = "keep" -> {[c EXCEPT !.todo = rest, !.acc = @ /\ c.res]}
         [] s.do = "call" ->
            {[c EXCEPT
                !.todo = s.body
                         \o <<[do |-> "end", acc |-> c.acc, mem |-> c.mem,
                               args |-> c.args]>>
                         \o rest,
                !.res = FALSE, !.acc = TRUE, !.mem = "none",
                !.args = (c.args \cap s.keep) \cup s.given]}
         [] s.do = "try" ->
            {[c EXCEPT !.todo =
                s.body \o <<[do |-> "except", on |-> s.on, body |-> s.handler]>>
                \o rest]}
         [] s.do = "tryfinally" ->
            {[c EXCEPT !.todo =
                s.body \o <<[do |-> "finally", body |-> s.last]>> \o rest]}
         [] s.do = "except" -> {[c EXCEPT !.todo = rest]}
         [] s.do = "finally" -> {[c EXCEPT !.todo = s.body \o rest]}
         [] s.do = "return" -> Returned(c, ValueAt(c, s.v), rest)
         [] s.do = "end" -> Returned(c, "none", c.todo)
         [] s.do = "raise" -> Handled(c, s.x, rest)
         [] OTHER -> {}

\* The answers of the function at this point, if it is over then.
Replies(c) ==
    IF c.todo = <<>> THEN {"none"}
    ELSE
    LET s == Head(c.todo)
        rest == Tail(c.todo)
    IN CASE s.do = "return" ->
            IF Returned(c, ValueAt(c, s.v), rest) = {}
            THEN {ValueAt(c, s.v)} ELSE {}
         [] s.do = "end" -> IF Returned(c, "none", c.todo) = {} THEN {"none"}
                            ELSE {}
         [] s.do = "raise" -> IF Handled(c, s.x, rest) = {} THEN {"raised"}
                              ELSE {}
         [] OTHER -> {}

-----------------------------------------------------------------------------
(* Courses in which nothing goes wrong.  What is known of an entity are    *)
(* the statuses that the requests of the call make it go through from      *)
(* here, or <<>> before its first request.                                 *)

\* The statuses in which it is on the way.
Pending(w) == { w[i] : i \in 1 .. (Len(w) - 1) }

\* The way after a wait for one of the statuses of goal.
Passed(w, goal) ==
    IF w # <<>> /\ Pending(w) \cap goal = {} THEN <<w[Len(w)]>> ELSE w

\* Waits that end early if the entity is in one of these statuses.
Final == {"none", "up"} \cup FailStatuses

\* If something goes wrong at this point then there is a reason for it: no
\* request is sent before the engine is ready for it, and no wait may miss
\* what it waits for, or end before the engine has finished.
Answerable(c) ==
    c.todo # <<>> =>
        LET s == Head(c.todo)
        IN /\ s.do \notin {"fork", "join", "remember"}
           /\ s.do = "request" =>
                /\ s.op.path \in Seq(STRING)
                /\ s.e \in DOMAIN c.know => Pending(c.know[s.e]) \subseteq s.op.from
           /\ s.do = "wait" =>
                /\ s.by \notin {"same", "old"}
                /\ \A e \in s.es \cap DOMAIN c.know : c.know[e] # <<>> =>
                    /\ c.know[e][Len(c.know[e])] \in s.goal
                    /\ s.by = "status" => Pending(c.know[e]) \cap Final = {}
                    /\ s.by = "only" => "none" \notin Pending(c.know[e])
                /\ s.by \in {"status", "only"} => \E e \in s.es : s.es = {e}

\* The points after a statement about the engine that goes well.
Clears(c) ==
    IF c.todo = <<>> THEN {}
    ELSE
    LET s == Head(c.todo)
        rest == Tail(c.todo)
    IN CASE s.do = "find" -> {[c EXCEPT !.todo = rest]}
         [] s.do \in {"see", "look"} ->
            { [c EXCEPT !.todo = rest, !.res = r] :
                r \in IF s.why = "state" THEN {TRUE} ELSE BOOLEAN }
         [] s.do = "request" ->
            {[c EXCEPT
                !.todo = rest,
                !.res = s.sign = "true" \/ "positive" \in c.args,
                !.know = [e \in DOMAIN c.know |->
                            IF e = s.e /\ s.op.path # <<>> THEN s.op.path
                            ELSE c.know[e]]]}
         [] s.do = "wait" ->
            {[c EXCEPT
                !.todo = rest,
                !.res = TRUE,
                !.know = [e \in DOMAIN c.know |->
                            IF e \in s.es THEN Passed(c.know[e], s.goal)
                            ELSE c.know[e]]]}
         [] OTHER -> {}

\* The points P of a call that answers yes unless something goes wrong.
Reasoned(P, yes) ==
    \A c \in P :
        /\ Point(c)
        /\ Answerable(c)
        /\ Replies(c) \subseteq {yes}
        /\ Turns(c) \cup Clears(c) \subseteq P

\* ... are the points of the call c.
Unasked(c) == [e \in DOMAIN c.given |-> <<>>]

Accounts(P, c) ==
    /\ c.yes # "running"
    /\ Reasoned(P, c.yes)
    /\ \A a \in Demands(c) : Beginning(c, a, Unasked(c)) \in P

-----------------------------------------------------------------------------
(* Courses in which anything goes wrong.  What is known are the statuses,  *)
(* of X, that the test may have seen last of each entity, and the verdict. *)

Learns(c, es, S) ==
    [c EXCEPT !.know = [seen |-> [e \in DOMAIN c.know.seen |->
                                    IF e \in es THEN S ELSE c.know.seen[e]],
                        verdict |-> c.know.verdict]]

Judged(c, v) ==
    IF Head(c.todo).sign = "given"
    THEN [c EXCEPT !.know = [seen |-> c.know.seen, verdict |-> v]]
    ELSE c

Past(c, r) == [c EXCEPT !.todo = Tail(c.todo), !.res = r]

\* The points after a statement about the engine, or a sample of a wait.
Outcomes(c, X) ==
    IF c.todo = <<>> THEN {}
    ELSE
    LET s == Head(c.todo)
        rest == Tail(c.todo)
        sign == s.sign = "true" \/ "positive" \in c.args
        missed == Handled(Learns(c, s.es, X), "EntityNotFound", rest)
        broken == Handled(c, "ConnectionError", rest)
        goal == IF s.by = "same" THEN {c.mem} ELSE s.goal
        others == IF \E e \in s.es : s.es = {e} THEN X \ s.goal ELSE X
        tested == {Learns(Past(c, TRUE), s.es, s.goal),
                   Learns(Past(c, FALSE), s.es, others)}
    IN CASE s.do = "find" ->
            {Learns([c EXCEPT !.todo = rest], s.es, X \ {"none"})}
            \cup missed \cup broken
         [] s.do = "remember" ->
            { Learns([c EXCEPT !.todo = rest, !.mem = m], s.es, X \ {"none"}) :
                m \in X \cup {"ok"} } \cup missed \cup broken
         [] s.do = "see" -> tested
         [] s.do = "look" -> tested \cup missed \cup broken
         [] s.do = "request" ->
            {Learns(Past(Judged(c, "accepted"), sign), {s.e}, {"asked"}),
             Past(Judged(c, "refused"), ~ sign)}
            \cup Handled(Judged(c, "lost"), "ConnectionError", rest)
            \cup (IF s.op.verb = "delete" THEN {}
                  ELSE {Learns(Past(Judged(c, "accepted"), FALSE), {s.e},
                               {"unseen"})})
            \cup (IF s.op.verb = "create" THEN {}
                  ELSE {Past(Judged(c, "missing"), FALSE)})
         [] s.do = "wait" ->
            {Learns(c, s.es, X), Learns(Past(c, TRUE), s.es, goal)} \cup broken
            \cup (IF s.by \in {"watch", "watchq"} THEN missed ELSE {})
            \cup (IF s.by \in {"status", "same", "only"}
                  THEN {Learns(Past(c, FALSE), s.es, X)} ELSE {})
            \cup (IF s.by \in {"sampler", "old", "watch"}
                  THEN Handled(c, "APITimeout", rest)
                  ELSE {Past(c, FALSE)})
         [] OTHER -> {}

\* The points P of a call: the engine may only put an entity on a way
\* through X, and there are no threads.
Followed(P, X) ==
    \A c \in P :
        /\ Point(c)
        /\ c.todo # <<>> =>
            LET s == Head(c.todo)
            IN /\ s.do \notin {"fork", "join"}
               /\ s.do = "request" =>
                    s.op.path \in Seq(X) /\ s.op.fail \in X \cup {"never"}
        /\ "running" \notin Replies(c)
        /\ Turns(c) \cup Outcomes(c, X) \subseteq P

\* ... of the call c, for the flags A.
Unseen(c) ==
    [seen |-> [e \in DOMAIN c.given |-> {"unseen"}], verdict |-> "none"]

Follows(P, X, c, A) ==
    /\ Followed(P, X)
    /\ \A e \in DOMAIN c.given : \A s \in c.given[e] :
        s \in X /\ StartPath(s) \in Seq(X)
    /\ \A a \in A : Beginning(c, a, Unseen(c)) \in P

\* The answer of a call that demands a promise is given only where what it
\* promises has been seen.
Witnesses(P, X, c) ==
    /\ c.yes \notin {"running", "raised"}
    /\ Follows(P, X, c, Demands(c))
    /\ \A p \in P : c.yes \in Replies(p) =>
        \A e \in DOMAIN c.done :
            e \in DOMAIN c.given /\ p.know.seen[e] \subseteq c.done[e]

\* A negative call answers True only where the request has been refused.
Refuses(P, X, c) ==
    /\ Follows(P, X, c, Refusals(c))
    /\ \A p \in P : "true" \in Replies(p) => p.know.verdict = "refused"
=============================================================================
