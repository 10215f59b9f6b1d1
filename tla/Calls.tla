------------------------------- MODULE Calls -------------------------------
(***************************************************************************)
(* A test calls one function of the library, while the engine (external)   *)
(* accepts or refuses its requests and works on those it has accepted.     *)
(* The functions are written in the vocabulary of module Statements; here  *)
(* is what each statement does: the requests and find of RestUtil          *)
(* (rest_utils.py), waitForElemStatus, waitForQuery and TimeoutingSampler, *)
(* and Python's calls, returns, exceptions, threads.                       *)
(***************************************************************************)
EXTENDS Statements

CONSTANTS
    Library,    \* the calls that a test makes: a set of Fn(...)
    MaxPolls    \* bound: samples of a wait before its time is over, minus 1

ASSUME CallsAssumption == MaxPolls \in Nat

Threads == 0 .. 2       \* the test and the workers of a Fork

VARIABLES
    call,       \* the call
    ent,        \* engine: of each entity, its status, the way it is on,
                \* where that may end instead, and whether the call has put
                \* it on that way
    th,         \* of each thread: statements left, last result, conjunction
                \* of results, remembered status, flags, samples taken
    out,        \* of each thread: idle, running, or its answer
    \* history
    seen,       \* the last thing the test learned of each entity
    verdict,    \* of the last request that was sent with the caller's sign
    reasons     \* why the call may fail

vars == <<call, ent, th, out, seen, verdict, reasons>>

Tracked == DOMAIN ent

Status(e) == IF e \in Tracked THEN ent[e].st ELSE "ok"

\* Entities that are on their way when the test starts.
StartPath(s) ==
    CASE s = "started" -> <<"finished">>
      [] s = "locked" -> <<"ok">>
      [] s = "powering_up" -> <<"up">>
      [] s = "image_locked" -> <<"down">>
      [] s = "moving" -> <<"moved">>
      [] s = "migrating" -> <<"moved">>
      [] s = "deactivating" -> <<"none">>
      [] s = "soon" -> <<"ok">>
      [] OTHER -> <<>>

Idle ==
    [todo |-> <<>>, res |-> FALSE, acc |-> TRUE, mem |-> "none", args |-> {},
     polls |-> 0]

\* The entities of a call in one of the combinations of their statuses.
Starts(given) ==
    { f \in [DOMAIN given -> UNION { given[e] : e \in DOMAIN given }] :
        \A e \in DOMAIN given : f[e] \in given[e] }

\* Arguments that a call does not vary are as in a positive test.
Defaults(c) == {"positive", "wait"} \ c.flags

Init ==
    /\ \E c \in Library : \E a \in SUBSET c.flags :
        /\ call = [fn |-> c.fn, flags |-> c.flags, args |-> a,
                   done |-> c.done, yes |-> c.yes]
        /\ \E f \in Starts(c.given) :
            ent = [e \in DOMAIN f |->
                    [st |-> f[e], path |-> StartPath(f[e]),
                     fail |-> "never", mine |-> FALSE]]
        /\ th = [t \in Threads |->
                IF t = 0
                THEN [Idle EXCEPT !.todo = c.body, !.args = a \cup Defaults(c)]
                ELSE Idle]
    /\ out = [t \in Threads |-> IF t = 0 THEN "running" ELSE "idle"]
    /\ seen = [e \in DOMAIN ent |-> "unseen"]
    /\ verdict = "none"
    /\ reasons = {}

-----------------------------------------------------------------------------
(* The engine (external) *)

Advance(e) ==
    /\ ent[e].path # <<>>
    /\ ent' = [ent EXCEPT ![e].st = Head(ent[e].path),
                          ![e].path = Tail(@)]
    /\ UNCHANGED reasons

Fail(e) ==
    /\ ent[e].path # <<>>
    /\ ent[e].fail # "never"
    /\ ent' = [ent EXCEPT ![e].st = ent[e].fail, ![e].path = <<>>]
    /\ reasons' = reasons \cup {"failed"}

Settle(e) ==
    /\ out[0] = "running"
    /\ Advance(e) \/ Fail(e)
    /\ UNCHANGED <<call, th, out, seen, verdict>>

Accepts(e, op) == e \in Tracked => Status(e) \in op.from

\* The entity after a request that was accepted.
After(e, op) ==
    IF op.path = <<>> THEN ent[e]
    ELSE [st |-> Head(op.path), path |-> Tail(op.path), fail |-> op.fail,
          mine |-> TRUE]

-----------------------------------------------------------------------------
(* Threads *)

Todo(t) == th[t].todo
Now(t) == Head(Todo(t))
Rest(t) == Tail(Todo(t))
Positive(t) == "positive" \in th[t].args

At(t, do) ==
    /\ out[t] = "running"
    /\ Todo(t) # <<>>
    /\ Now(t).do = do

Goto(t, todo) == th' = [th EXCEPT ![t].todo = todo]

Result(t, r, todo) ==
    th' = [th EXCEPT ![t].todo = todo, ![t].res = r, ![t].polls = 0]

Saw(es) ==
    seen' = [e \in DOMAIN seen |-> IF e \in es THEN Status(e) ELSE seen[e]]

Local == UNCHANGED <<call, ent, out, seen, verdict, reasons>>

-----------------------------------------------------------------------------
(* Exceptions: the handler, or the `finally`, that is next.  The frames of *)
(* the calls that are left on the way are dropped.                         *)

Frame(t, f) ==
    [th[t] EXCEPT !.acc = f.acc, !.mem = f.mem, !.args = f.args, !.polls = 0]

Unwound(t, todo, i) ==
    LET ends == { j \in 1 .. (i - 1) : todo[j].do = "end" }
    IN IF ends = {} THEN [th[t] EXCEPT !.polls = 0]
       ELSE Frame(t, todo[Max(ends)])

Throw(t, x) ==
    LET todo == Rest(t)
        i == SelectInSeq(todo, LAMBDA s : \/ s.do = "finally"
                                          \/ s.do = "except" /\ x \in s.on)
    IN IF i = 0
       THEN /\ out' = [out EXCEPT ![t] = "raised"]
            /\ th' = [th EXCEPT ![t] = Idle]
       ELSE /\ th' = [th EXCEPT ![t] =
                [Unwound(t, todo, i) EXCEPT !.todo =
                    todo[i].body
                    \o (IF todo[i].do = "finally" THEN <<Raise(x)>> ELSE <<>>)
                    \o SubSeq(todo, i + 1, Len(todo))]]
            /\ UNCHANGED out

-----------------------------------------------------------------------------
(* Requests and reads *)

found(t) ==
    /\ At(t, "find")
    /\ \A e \in Now(t).es : Status(e) # "none"
    /\ Saw(Now(t).es)
    /\ Goto(t, Rest(t))
    /\ UNCHANGED <<call, ent, out, verdict, reasons>>

notFound(t) ==
    /\ \/ At(t, "find") \/ At(t, "look") \/ At(t, "remember")
       \/ At(t, "wait") /\ Now(t).by \in {"watch", "watchq"}
    /\ \E e \in Now(t).es : Status(e) = "none"
    /\ Saw(Now(t).es)
    /\ Throw(t, "EntityNotFound")
    /\ reasons' = reasons \cup {"missing"}
    /\ UNCHANGED <<call, ent, verdict>>

see(t) ==
    /\ \/ At(t, "see")
       \/ At(t, "look") /\ \A e \in Now(t).es : Status(e) # "none"
    /\ LET r == \A e \in Now(t).es : Status(e) \in Now(t).goal
       IN /\ Result(t, r, Rest(t))
          /\ reasons' = IF r \/ Now(t).why = "never" THEN reasons
                        ELSE reasons \cup {Now(t).why}
    /\ Saw(Now(t).es)
    /\ UNCHANGED <<call, ent, out, verdict>>

remember(t) ==
    /\ At(t, "remember")
    /\ \A e \in Now(t).es : Status(e) # "none"
    /\ th' = [th EXCEPT ![t].todo = Rest(t),
                        ![t].mem = Status(CHOOSE e \in Now(t).es : TRUE)]
    /\ Saw(Now(t).es)
    /\ UNCHANGED <<call, ent, out, verdict, reasons>>

\* `positive` of the request
Sign(t) == Now(t).sign = "true" \/ Positive(t)

Learn(e, what) ==
    seen' = IF e \in DOMAIN seen THEN [seen EXCEPT ![e] = what] ELSE seen

Noted(t, v) == verdict' = IF Now(t).sign = "given" THEN v ELSE verdict

\* Accepted.  A create or an update may still answer False when the entity
\* that comes back is not the expected one, an action when its status is not.
accepted(t) ==
    /\ At(t, "request")
    /\ LET e == Now(t).e
           op == Now(t).op
       IN /\ Accepts(e, op)
          /\ ent' = IF e \in Tracked THEN [ent EXCEPT ![e] = After(e, op)]
                    ELSE ent
          /\ \E match \in BOOLEAN :
                /\ op.verb = "delete" => match
                /\ Result(t, Sign(t) /\ match, Rest(t))
                /\ Learn(e, IF match THEN "asked" ELSE "unseen")
                /\ reasons' = IF match THEN reasons
                              ELSE reasons \cup {"mismatch"}
    /\ Noted(t, "accepted")
    /\ UNCHANGED <<call, out>>

\* Refused.  A missing entity is answered with 404, which neither a positive
\* nor a negative request expects, unless it is one that creates.
refused(t) ==
    /\ At(t, "request")
    /\ LET missing == Now(t).op.verb # "create" /\ Status(Now(t).e) = "none"
       IN /\ Result(t, ~ Sign(t) /\ ~ missing, Rest(t))
          /\ Noted(t, IF missing THEN "missing" ELSE "refused")
    /\ reasons' = reasons \cup
        {IF Now(t).e \in Tracked /\ ~ Accepts(Now(t).e, Now(t).op)
            /\ ent[Now(t).e].mine /\ ent[Now(t).e].path # <<>>
         THEN "early" ELSE "refused"}
    /\ UNCHANGED <<call, ent, out, seen>>

\* The connection is lost: conn.request() or getresponse() raises.  The engine
\* may have accepted the request by then.  (A test, "see", may ask the engine
\* or what the function has in hand; it is not interrupted.)
lost(t) ==
    /\ \/ /\ At(t, "request")
          /\ LET e == Now(t).e
                 op == Now(t).op
             IN \/ UNCHANGED ent
                \/ /\ e \in Tracked
                   /\ Accepts(e, op)
                   /\ ent' = [ent EXCEPT ![e] = After(e, op)]
          /\ Noted(t, "lost")
       \/ /\ At(t, "find") \/ At(t, "look") \/ At(t, "remember") \/ At(t, "wait")
          /\ UNCHANGED <<ent, verdict>>
    /\ Throw(t, "ConnectionError")
    /\ reasons' = reasons \cup {"lost"}
    /\ UNCHANGED <<call, seen>>

-----------------------------------------------------------------------------
(* Waits.  A sample, then the next one, or the end of the time.            *)

FailStatuses == {"failed", "install_failed"}

Goal(t) == IF Now(t).by = "same" THEN {th[t].mem} ELSE Now(t).goal

OldValue(t) == Now(t).by = "old" /\ th[t].polls > 0

There(t) == \A e \in Now(t).es : Status(e) \in Goal(t)

Stays(t) == \A e \in Now(t).es \cap Tracked : ent[e].path = <<>>

Reached(t) == There(t) /\ ~ OldValue(t)

\* waitForElemStatus gives up when the element is gone, has failed or is
\* 'up', unless ignoreFinalStates.
GivesUp(t) ==
    \E e \in Now(t).es :
        \/ Now(t).by \in {"status", "same", "only"} /\ Status(e) = "none"
        \/ /\ Now(t).by \in {"status", "same"}
           /\ Status(e) \in FailStatuses \cup {"up"}

sampled(t) ==
    /\ At(t, "wait")
    /\ Reached(t)
    /\ Result(t, TRUE, Rest(t))
    /\ Saw(Now(t).es)
    /\ UNCHANGED <<call, ent, out, verdict, reasons>>

gaveUp(t) ==
    /\ At(t, "wait")
    /\ ~ Reached(t)
    /\ GivesUp(t)
    /\ Result(t, FALSE, Rest(t))
    /\ Saw(Now(t).es)
    /\ reasons' = IF Stays(t) THEN reasons \cup {"state"} ELSE reasons
    /\ UNCHANGED <<call, ent, out, verdict>>

\* The function of the sampler raises.
Raises(t) ==
    /\ Now(t).by \in {"watch", "watchq"}
    /\ \E e \in Now(t).es : Status(e) = "none"

sleeps(t) ==
    /\ At(t, "wait")
    /\ ~ Reached(t)
    /\ ~ GivesUp(t)
    /\ ~ Raises(t)
    /\ th[t].polls < MaxPolls
    /\ th' = [th EXCEPT ![t].polls = @ + 1]
    /\ seen' = IF OldValue(t) THEN seen
               ELSE [e \in DOMAIN seen |->
                        IF e \in Now(t).es THEN Status(e) ELSE seen[e]]
    /\ UNCHANGED <<call, ent, out, verdict, reasons>>

\* The time is over.  That is a reason if the engine is really not there, and
\* has not gone through the goal and beyond it on the way that the call has
\* asked for.
Missed(t) ==
    \E e \in Now(t).es \cap Tracked :
        ent[e].mine /\ ent[e].path = <<>> /\ Status(e) \notin Goal(t)

timeout(t) ==
    /\ At(t, "wait")
    /\ ~ Reached(t)
    /\ ~ GivesUp(t)
    /\ ~ Raises(t)
    /\ th[t].polls = MaxPolls
    /\ reasons' =
        CASE There(t) -> reasons
          [] Missed(t) -> reasons \cup {"missed"}
          [] OTHER -> reasons \cup {"late"}
    /\ IF Now(t).by \in {"sampler", "old", "watch"} THEN Throw(t, "APITimeout")
       ELSE Result(t, FALSE, Rest(t)) /\ UNCHANGED out
    /\ UNCHANGED <<call, ent, seen, verdict>>

-----------------------------------------------------------------------------
(* Control *)

branch(t) ==
    /\ \/ /\ At(t, "if")
          /\ Goto(t, (IF th[t].res THEN Now(t).yes ELSE Now(t).no) \o Rest(t))
       \/ /\ At(t, "when")
          /\ Goto(t, (IF Now(t).flag \in th[t].args THEN Now(t).yes
                      ELSE Now(t).no) \o Rest(t))
       \/ /\ At(t, "either")
          /\ \E a \in Now(t).alts : Goto(t, a \o Rest(t))
    /\ Local

keep(t) ==
    /\ At(t, "keep")
    /\ th' = [th EXCEPT ![t].todo = Rest(t), ![t].acc = @ /\ th[t].res]
    /\ Local

calls(t) ==
    /\ At(t, "call")
    /\ th' = [th EXCEPT ![t] =
        [Idle EXCEPT
            !.todo = Now(t).body
                     \o <<[do |-> "end", acc |-> th[t].acc,
                           mem |-> th[t].mem, args |-> th[t].args]>>
                     \o Rest(t),
            !.args = (th[t].args \cap Now(t).keep) \cup Now(t).given]]
    /\ Local

enterTry(t) ==
    /\ \/ /\ At(t, "try")
          /\ Goto(t, Now(t).body
                     \o <<[do |-> "except", on |-> Now(t).on,
                           body |-> Now(t).handler]>>
                     \o Rest(t))
       \/ /\ At(t, "tryfinally")
          /\ Goto(t, Now(t).body
                     \o <<[do |-> "finally", body |-> Now(t).last]>>
                     \o Rest(t))
    /\ Local

leaveTry(t) ==
    /\ \/ At(t, "except") /\ Goto(t, Rest(t))
       \/ At(t, "finally") /\ Goto(t, Now(t).body \o Rest(t))
    /\ Local

Truth(b) == IF b THEN "true" ELSE "false"

Value(t, v) ==
    CASE v = "res" -> Truth(th[t].res)
      [] v = "acc" -> Truth(th[t].acc)
      [] v = "positive" -> Truth(Positive(t))
      [] v = "same" -> Truth(th[t].res = Positive(t))
      [] v = "negative" -> Truth(~ Positive(t))
      [] OTHER -> v

\* return v; todo is what is left after it
Leave(t, v, todo) ==
    LET i == SelectInSeq(todo, LAMBDA s : s.do \in {"end", "finally"})
        after == SubSeq(todo, i + 1, Len(todo))
    IN IF i = 0
       THEN /\ out' = [out EXCEPT ![t] = v]
            /\ th' = [th EXCEPT ![t] = Idle]
       ELSE /\ th' = [th EXCEPT ![t] =
                IF todo[i].do = "end"
                THEN [Frame(t, todo[i]) EXCEPT !.todo = after,
                                               !.res = (v = "true")]
                ELSE [th[t] EXCEPT !.todo = todo[i].body \o <<Ret(v)>>
                                            \o after]]
            /\ UNCHANGED out

return(t) ==
    /\ At(t, "return")
    /\ Leave(t, Value(t, Now(t).v), Rest(t))
    /\ UNCHANGED <<call, ent, seen, verdict, reasons>>

\* The end of a function without a return: None.
fallOff(t) ==
    /\ out[t] = "running"
    /\ \/ Todo(t) = <<>>
       \/ At(t, "end")
    /\ Leave(t, "none", Todo(t))
    /\ UNCHANGED <<call, ent, seen, verdict, reasons>>

raise(t) ==
    /\ At(t, "raise")
    /\ Throw(t, Now(t).x)
    /\ UNCHANGED <<call, ent, seen, verdict, reasons>>

-----------------------------------------------------------------------------
(* Threads of startVms, removeVms, and the executors' *)

Workers(t) == 1 .. Len(Now(t).bodies)

fork(t) ==
    /\ At(t, "fork")
    /\ th' = [u \in Threads |->
        IF u = t
        THEN [th[t] EXCEPT !.todo =
                <<[do |-> "join", onerror |-> Now(t).onerror]>> \o Rest(t)]
        ELSE IF u \in Workers(t)
        THEN [Idle EXCEPT !.todo = Now(t).bodies[u], !.args = Now(t).given]
        ELSE th[u]]
    /\ out' = [u \in Threads |-> IF u \in Workers(t) THEN "running"
                                 ELSE out[u]]
    /\ UNCHANGED <<call, ent, seen, verdict, reasons>>

join(t) ==
    /\ At(t, "join")
    /\ \A u \in Threads \ {t} : out[u] # "running"
    /\ LET ended == { u \in Threads \ {t} : out[u] # "idle" }
       IN IF Now(t).onerror = "raise" /\ \E u \in ended : out[u] = "raised"
          THEN Throw(t, "Error")
          ELSE /\ Result(t, \A u \in ended : out[u] = "true", Rest(t))
               /\ out' = [u \in Threads |-> IF u = t THEN out[t]
                                            ELSE "idle"]
    /\ UNCHANGED <<call, ent, seen, verdict, reasons>>

-----------------------------------------------------------------------------

Step(t) ==
    \/ found(t) \/ notFound(t) \/ see(t) \/ remember(t)
    \/ accepted(t) \/ refused(t) \/ lost(t)
    \/ sampled(t) \/ gaveUp(t) \/ sleeps(t) \/ timeout(t)
    \/ branch(t) \/ keep(t) \/ calls(t) \/ enterTry(t) \/ leaveTry(t)
    \/ return(t) \/ fallOff(t) \/ raise(t)
    \/ fork(t) \/ join(t)

\* The call is over; the test goes on with something else.
Over == out[0] # "running" /\ UNCHANGED vars

Next ==
    \/ \E t \in Threads : Step(t)
    \/ \E e \in Tracked : Settle(e)
    \/ Over

Spec == Init /\ [][Next]_vars

-----------------------------------------------------------------------------
(* Properties *)

TypeOK ==
    /\ call.args \subseteq call.flags
    /\ DOMAIN seen = Tracked
    /\ out \in [Threads ->
        {"idle", "running", "true", "false", "none", "raised"}]
    /\ verdict \in {"none", "accepted", "refused", "missing", "lost"}
    /\ reasons \subseteq {"refused", "mismatch", "failed", "late", "missing",
                          "lost", "state", "early", "missed"}

\* The caller wants it done, and waits for it if there is a choice.
Demanded == {"positive", "wait"} \cap call.flags \subseteq call.args

\* When a library function answers True to a positive call that waits, the
\* test has seen what the function promises: the last thing it learned of
\* every entity of the call is a status of the promise.
TrueMeansSeen ==
    out[0] = call.yes /\ Demanded =>
        \A e \in DOMAIN call.done : seen[e] \in call.done[e]

\* When a positive call answers False, None or raises, there is a reason in
\* the engine: a request was refused, an entity was missing or in another
\* state than the function needs, the connection was lost, or the engine
\* failed or was too late.  A
\* request that the function has sent before the engine was ready for it, or
\* a status that the function has waited for when it was over, is none.
FailsForAReason ==
    out[0] \notin {"running", call.yes} /\ Demanded =>
        reasons \ {"early", "missed"} # {}

\* A negative call (positive=False: the test wants the engine to refuse)
\* answers True only when the engine has refused the request.
NegativeMeansRefused ==
    out[0] = "true" /\ "positive" \in call.flags \ call.args =>
        verdict = "refused"
=============================================================================
