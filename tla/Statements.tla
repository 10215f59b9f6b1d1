----------------------------- MODULE Statements -----------------------------
(***************************************************************************)
(* The vocabulary in which the test library (rhevm_api/tests_lib) is       *)
(* written down: a library function is a sequence of statements, one per   *)
(* REST request, wait, test, early return or call of another function, in  *)
(* the order of the code.  Module Calls executes them.                     *)
(*                                                                         *)
(* An entity (a VM, a disk, the jobs page, the address of a VM...) is a    *)
(* string, its state a status of the engine in lower case; "none" says     *)
(* that there is no such entity.  A flag is an argument of the function    *)
(* that the code tests: "positive", "wait", ...                            *)
(***************************************************************************)
EXTENDS Naturals, Sequences, TLC, SequencesExt

-----------------------------------------------------------------------------
(* What a request does in the engine (external): the statuses in which it  *)
(* is accepted, the path of statuses it starts (the first one at once),    *)
(* and where it may end instead.                                           *)

Action(from, path, fail) ==
    [verb |-> "action", from |-> from, path |-> path, fail |-> fail]

Create(path, fail) ==
    [verb |-> "create", from |-> {"none"}, path |-> path, fail |-> fail]

Delete(from, path) ==
    [verb |-> "delete", from |-> from, path |-> path, fail |-> "never"]

\* Of all statuses but "none".
Statuses ==
    {"ok", "up", "down", "locked", "image_locked", "active", "maintenance",
     "inactive", "unattached", "paused", "suspended", "powering_up",
     "powering_down", "wait_for_launch", "migrating", "moved", "illegal",
     "in_preview", "saving_state", "started", "finished", "failed",
     "moving", "preparing_for_maintenance", "non_operational", "reboot",
     "installing", "install_failed", "initializing", "non_responsive",
     "connecting", "deactivating", "activating", "mixed", "uninitialized",
     "not_operational", "problematic"}

Updates(from, path) ==
    [verb |-> "update", from |-> from, path |-> path, fail |-> "never"]

\* The usual ones: an element of a collection, an update of what there is.
New == Create(<<"ok">>, "never")
Drop == Delete(Statuses, <<"none">>)
Update == Updates(Statuses, <<>>)

\* An action that leaves the status of the entity alone.
Act(from) == Action(from, <<>>, "never")

-----------------------------------------------------------------------------
(* Statements that talk to the engine *)

\* API.find, getElemFromElemColl...: raises EntityNotFound when e is missing.
Find(e) == [do |-> "find", es |-> {e}]

\* A test of what the engine says now; es is a set of entities.
See(es, goal) == [do |-> "see", es |-> es, goal |-> goal, why |-> "never"]

\* A test that is the reason of the answer of the function.
Check(es, goal) == [do |-> "see", es |-> es, goal |-> goal, why |-> "state"]

\* What was seen just before is the reason of the answer.
Because == Check({"reason"}, {})

\* find, and a test of the object that was found
Look(e, goal) == [do |-> "look", es |-> {e}, goal |-> goal, why |-> "never"]

Exists(e) == See({e}, Statuses)

Demand(e, goal) == [do |-> "look", es |-> {e}, goal |-> goal, why |-> "state"]

\* find, and the status of the object, kept in a local variable
Remember(e) == [do |-> "remember", es |-> {e}]

\* API.create, update, delete, syncAction with the caller's `positive`.
Req(e, op) == [do |-> "request", e |-> e, op |-> op, sign |-> "given"]

\* The same with positive=True.
Do(e, op) == [do |-> "request", e |-> e, op |-> op, sign |-> "true"]

\* waitForElemStatus, and with ignoreFinalStates=True
Wait(e, goal) ==
    [do |-> "wait", es |-> {e}, goal |-> goal, by |-> "status"]

WaitOnly(e, goal) ==
    [do |-> "wait", es |-> {e}, goal |-> goal, by |-> "only"]

\* waitForElemStatus(obj, <the status that was remembered>)
WaitSame(e) == [do |-> "wait", es |-> {e}, goal |-> {}, by |-> "same"]

\* waitForQuery, and any loop that answers False when its time is over
Query(es, goal) == [do |-> "wait", es |-> es, goal |-> goal, by |-> "query"]

\* a TimeoutingSampler loop: raises APITimeout
Sample(es, goal) ==
    [do |-> "wait", es |-> es, goal |-> goal, by |-> "sampler"]

\* a sampler whose function looks at a list that was read before the loop
SampleOld(es, goal) ==
    [do |-> "wait", es |-> es, goal |-> goal, by |-> "old"]

\* a sampler, or its waitForFuncStatus, whose function finds e
Watch(e, goal) ==
    [do |-> "wait", es |-> {e}, goal |-> goal, by |-> "watch"]

WatchQ(e, goal) ==
    [do |-> "wait", es |-> {e}, goal |-> goal, by |-> "watchq"]

-----------------------------------------------------------------------------
(* Control *)

If(yes, no) == [do |-> "if", yes |-> yes, no |-> no]

When(flag, yes, no) ==
    [do |-> "when", flag |-> flag, yes |-> yes, no |-> no]

\* An optional argument that only this function looks at.
Maybe(yes) == [do |-> "either", alts |-> {yes, <<>>}]

Either(one, two) == [do |-> "either", alts |-> {one, two}]

\* "true", "false", "none", or the value of res, acc, positive, negative, or
\* (same) of res == positive
Ret(v) == [do |-> "return", v |-> v]

Raise(x) == [do |-> "raise", x |-> x]

\* if not <result>: return False
OrFalse == If(<<>>, <<Ret("false")>>)

OrRaise(x) == If(<<>>, <<Raise(x)>>)

\* if status and positive [and wait]: return <w>; return status
ThenWaitP(w) ==
    << When("positive", <<If(w \o <<Ret("res")>>, <<>>)>>, <<>>), Ret("res") >>

ThenWait(w) ==
    << When("wait",
            <<When("positive", <<If(w \o <<Ret("res")>>, <<>>)>>, <<>>)>>,
            <<>>),
       Ret("res") >>

\* status = status and <result>
Keep == [do |-> "keep"]

\* A call with the flags of keep passed on and those of given as literals.
Pass(body, keep, given) ==
    [do |-> "call", body |-> body, keep |-> keep, given |-> given]

Call(body) == Pass(body, {}, {"positive", "wait"})

CallPos(body) == Pass(body, {"positive"}, {"wait"})

NoWait(body) == Pass(body, {}, {"positive"})

Try(body, exceptions, handler) ==
    [do |-> "try", body |-> body, on |-> exceptions, handler |-> handler]

Finally(body, last) == [do |-> "tryfinally", body |-> body, last |-> last]

\* for x in xs: ...
ForEach(xs, Body(_)) == FlattenSeq([i \in DOMAIN xs |-> Body(xs[i])])

\* query(...)[0], an attribute of None: raises an error when there is none.
First(e) == << Check({e}, Statuses), OrRaise("Error") >>

\* getters: the element, or None
Get(e) == << Find(e), Ret("true") >>
GetAny(e) == << Check({e}, Statuses), If(<<Ret("true")>>, <<Ret("none")>>) >>

\* Threads or jobs, one for each body, and the wait for all of them.  The
\* result is the conjunction of theirs; what they raise is raised again if
\* the code asks for their results ("raise") or makes the answer False.
Fork(bodies, given, onerror) ==
    [do |-> "fork", bodies |-> bodies, given |-> given, onerror |-> onerror]

\* A predicate that a test asks: what it has seen is the reason of a False.
Direct(body) == << Call(body), If(<<Ret("true")>>, <<Because, Ret("false")>>) >>

\* for <result> in TimeoutingSampler(...): round.  Two rounds stand for all of
\* them; then the time is over.
Rounds(round) == round \o round \o << Raise("APITimeout") >>

AnyException ==
    {"EntityNotFound", "APITimeout", "TimeoutExpiredError", "HostException",
     "ConnectionError", "Error"}

-----------------------------------------------------------------------------
\* A call of a library function, as a test makes it: its flags, the statuses
\* in which the entities it deals with may be, and what a positive answer of
\* a positive call promises: the last thing that was seen of each entity
\* ("asked": that its request was accepted).
Fn(name, body, flags, given, done) ==
    [fn |-> name, body |-> body, flags |-> flags, given |-> given,
     done |-> done, yes |-> "true"]

\* A function that sends a request about e and does not wait, and one that
\* only reads e.
Asks(name, body, flags, given, e) ==
    Fn(name, body, flags, given, e :> {"asked"})

Reads(name, body, given, e) == Fn(name, body, {}, given, e :> Statuses)

\* A function that answers None, and raises when it fails.
Proc(name, body, flags, given, done) ==
    [Fn(name, body, flags, given, done) EXCEPT !.yes = "none"]
=============================================================================
