------------------------------ MODULE RestOps ------------------------------
(***************************************************************************)
(* The operations of RestUtil (core_api/rest_utils.py) on the headers of   *)
(* the one HTTPProxy that all RestUtils share: threads create, update,     *)
(* delete, run actions, search and list while the engine (external)        *)
(* accepts, refuses or fails.  One action is one access to what another    *)
(* thread sees: the headers, context_lock, or the engine by a request.     *)
(***************************************************************************)
EXTENDS Naturals

CONSTANTS
    Threads,
    Ids,        \* entities of the collection
    None,
    Validate,   \* opts['RUN']['validate']
    Configured, \* opts['headers'] has a Correlation-Id, the same for all calls
    Operations, \* the operations that threads use
    MaxCalls    \* bound on the calls of one thread

Modify == {"create", "update", "delete", "syncAction"}

Read == {"get", "find", "query", "getElemFromLink", "getElemFromElemColl"}

ASSUME OpsAssumption ==
    /\ None \notin Threads \cup Modify \cup Read \cup Ids \cup {"configured"}
    /\ Validate \in BOOLEAN /\ Configured \in BOOLEAN
    /\ Operations \subseteq Modify \cup Read
    /\ MaxCalls \in Nat

VARIABLES
    headers,    \* 'All-content' and custom headers in api.headers
    corr,       \* 'Correlation-Id' in api.headers: the call it was made for
    ctx,        \* holder of RestUtil.context_lock
    exists,     \* engine: the collection
    coming,     \* engine: accepted, not yet in the collection
    pc, op, id, positive,
    flag,       \* all_content, custom_headers or async
    status,     \* of the response to the modification or search
    result,
    \* history of the call
    sentWith,   \* a reading request was sent with 'All-content'
    sentCorr,   \* the Correlation-Id of a modifying one
    did,        \* the engine did what was asked
    unsure,     \* it answered 500 although it did
    alone,      \* no other thread used the headers since it began
    calls

server == <<exists, coming>>
shared == <<headers, corr, ctx>>
call == <<op, id, positive, flag>>
vars == <<shared, server, pc, call, status, result, sentWith, sentCorr, did,
          unsure, alone, calls>>

-----------------------------------------------------------------------------
(* Response codes *)

POSITIVE_CODES == {200, 201}
NEGATIVE_CODES == {400, 409, 500}

\* What an operation expects, if it is to succeed and if it is to fail.
ExpectedPositive(o, async) ==
    CASE o = "create" -> POSITIVE_CODES \cup {202}
      [] o = "delete" -> {200, 202, 204}
      [] o = "syncAction" /\ async -> {200, 202}
      [] OTHER -> POSITIVE_CODES

ExpectedNegative(o) ==
    IF o = "create" THEN NEGATIVE_CODES \cup {404} ELSE NEGATIVE_CODES

\* Mutant: the codes of a success are looked at whatever is expected.
responseCodesMatchPositive(t) ==
    status[t] \in ExpectedPositive(op[t], flag[t])

responseCodesMatch(t) ==
    status[t] \in IF positive[t] THEN ExpectedPositive(op[t], flag[t])
                  ELSE ExpectedNegative(op[t])

\* Engine: a request that it executes, by the code of the success, the
\* collection afterwards and what is on its way.
Executions(o, i) ==
    CASE o = "create" -> { <<201, exists \cup {i}, coming>>,
                           <<202, exists, coming \cup {i}>> }
      [] o = "update" -> { <<200, exists, coming>> }
      [] o = "delete" -> { <<c, exists \ {i}, coming>> : c \in {200, 204} }
      [] o = "syncAction" -> { <<c, exists, coming>> : c \in {200, 202} }

\* ... and one that it does not execute; 409 stands for 400, which is in the
\* same lists of codes.
Refusals == { <<c, exists, coming, FALSE>> : c \in {409, 500} }

\* An answer: its code, the collection and what is on its way, and whether the
\* request was executed.  A 500 may come before the execution or after it.
Answers(o, i) ==
    Refusals \cup
    IF o \in Read THEN { <<200, exists, coming, TRUE>> }
    ELSE IF o = "create" /\ i \in exists \cup coming THEN {}
    ELSE IF o # "create" /\ i \notin exists
    THEN { <<404, exists, coming, FALSE>> }
    ELSE { <<e[1], e[2], e[3], TRUE>> : e \in Executions(o, i) } \cup
         { <<500, e[2], e[3], TRUE>> : e \in Executions(o, i) }

\* Engine: an entity that was accepted with 202 appears.
Appear(i) ==
    /\ i \in coming
    /\ coming' = coming \ {i}
    /\ exists' = exists \cup {i}
    /\ UNCHANGED <<shared, pc, call, status, result, sentWith, sentCorr, did,
                   unsure, alone, calls>>

-----------------------------------------------------------------------------
(* The operations *)

Goto(t, l) == pc' = [pc EXCEPT ![t] = l]

Touches(t) == alone' = [u \in Threads |-> alone[u] /\ u = t]

\* The operations that remove 'All-content' when they have set it.
Removing == {"query", "getElemFromLink"}

Call(t, o, i, p, f) ==
    /\ pc[t] = "idle"
    /\ calls[t] < MaxCalls
    /\ o \in Read => p
    /\ o \in {"update", "delete"} => ~ f
    /\ calls' = [calls EXCEPT ![t] = @ + 1]
    /\ op' = [op EXCEPT ![t] = o]
    /\ id' = [id EXCEPT ![t] = i]
    /\ positive' = [positive EXCEPT ![t] = p]
    /\ flag' = [flag EXCEPT ![t] = f]
    /\ result' = [result EXCEPT ![t] = "none"]
    /\ sentWith' = [sentWith EXCEPT ![t] = FALSE]
    /\ sentCorr' = [sentCorr EXCEPT ![t] = None]
    /\ did' = [did EXCEPT ![t] = FALSE]
    /\ unsure' = [unsure EXCEPT ![t] = FALSE]
    /\ alone' = [alone EXCEPT ![t] = f /\ o \in Removing]
    /\ Goto(t, CASE o \in Modify -> "lock" [] o \in Read /\ f -> "set"
                 [] OTHER -> "send")
    /\ UNCHANGED <<shared, server, status>>

\* Mutant: the header has the name of another one.
HeaderCustom(o) == "custom"

Header(o) == IF o = "get" THEN "custom" ELSE "All-content"

SetHeader(t) ==
    /\ pc[t] = "set"
    /\ headers' = headers \cup {Header(op[t])}
    /\ Touches(t)
    /\ Goto(t, "send")
    /\ UNCHANGED <<corr, ctx, server, call, status, result, sentWith, sentCorr,
                   did, unsure, calls>>

\* Mutant: the lock is not waited for.
EnterContextAnyway(t) ==
    /\ pc[t] = "lock"
    /\ ctx' = t
    /\ Goto(t, "correlate")
    /\ UNCHANGED <<headers, corr, server, call, status, result, sentWith,
                   sentCorr, did, unsure, alone, calls>>

EnterContext(t) ==
    /\ pc[t] = "lock"
    /\ ctx = None
    /\ ctx' = t
    /\ Goto(t, "correlate")
    /\ UNCHANGED <<headers, corr, server, call, status, result, sentWith,
                   sentCorr, did, unsure, alone, calls>>

\* getCorrelationId(): the configured one, or a new one for this call.
CorrelationId(t) == IF Configured THEN "configured" ELSE t

SetCorrelationId(t) ==
    /\ pc[t] = "correlate"
    /\ corr' = CorrelationId(t)
    /\ Goto(t, "send")
    /\ UNCHANGED <<headers, ctx, server, call, status, result, sentWith,
                   sentCorr, did, unsure, alone, calls>>

Removes(t) == flag[t] /\ op[t] \in Removing

\* A finally follows the request of the operations that undo what they set.
AfterRequest(t, l) ==
    Goto(t, CASE op[t] \in Modify -> "uncorrelate" [] Removes(t) -> "pop"
              [] OTHER -> l)

\* What the properties remember of the headers that a request is sent with.
Record(t) ==
    IF op[t] \in Modify
    THEN sentCorr' = [sentCorr EXCEPT ![t] = corr] /\ UNCHANGED sentWith
    ELSE /\ sentWith' = [sentWith EXCEPT ![t] = "All-content" \in headers]
         /\ UNCHANGED sentCorr

\* HTTPProxy copies the headers and sends the request; the engine answers.
Send(t) ==
    /\ pc[t] = "send"
    /\ Record(t)
    /\ \E a \in Answers(op[t], id[t]) :
        /\ status' = [status EXCEPT ![t] = a[1]]
        /\ exists' = a[2]
        /\ coming' = a[3]
        /\ did' = [did EXCEPT ![t] = a[4] /\ op[t] \in Modify]
        /\ unsure' = [unsure EXCEPT ![t] = a[4] /\ a[1] = 500]
    /\ AfterRequest(t, "judge")
    /\ UNCHANGED <<shared, call, result, alone, calls>>

\* The request raises: the answer is lost, whatever the engine did.
SendRaises(t) ==
    /\ pc[t] = "send"
    /\ Record(t)
    /\ \E a \in Answers(op[t], id[t]) : exists' = a[2] /\ coming' = a[3]
    /\ result' = [result EXCEPT ![t] = "raised"]
    /\ AfterRequest(t, "idle")
    /\ UNCHANGED <<shared, call, status, did, unsure, alone, calls>>

\* The element has no such link, or only its href is wanted: no request.
NoLink(t) ==
    /\ pc[t] = "send"
    /\ op[t] \in {"getElemFromLink", "getElemFromElemColl"}
    /\ result' = [result EXCEPT ![t] = "unsent"]
    /\ AfterRequest(t, "idle")
    /\ UNCHANGED <<shared, server, call, status, sentWith, sentCorr, did,
                   unsure, alone, calls>>

\* The finally of query() and getElemFromLink(): pop() raises KeyError if
\* another thread has removed the header.
PopHeader(t) ==
    /\ pc[t] = "pop"
    /\ IF "All-content" \in headers
       THEN /\ headers' = headers \ {"All-content"}
            /\ Goto(t, IF result[t] = "none" THEN "judge" ELSE "idle")
            /\ UNCHANGED result
       ELSE result' = [result EXCEPT ![t] = "KeyError"] /\ Goto(t, "idle")
            /\ UNCHANGED headers
    /\ Touches(t)
    /\ UNCHANGED <<corr, ctx, server, call, status, sentWith, sentCorr, did,
                   unsure, calls>>

\* The finally of correlationIdContext().
PopCorrelationId(t) ==
    /\ pc[t] = "uncorrelate"
    /\ corr' = None
    /\ result' = IF corr = None THEN [result EXCEPT ![t] = "KeyError"] ELSE result
    /\ Goto(t, "unlock")
    /\ UNCHANGED <<headers, ctx, server, call, status, sentWith, sentCorr, did,
                   unsure, alone, calls>>

\* Mutant: an unexpected code leaves with the lock held.
ExitContextHeld(t) ==
    /\ pc[t] = "unlock"
    /\ ctx' = IF responseCodesMatch(t) THEN None ELSE ctx
    /\ Goto(t, IF result[t] = "none" THEN "judge" ELSE "idle")
    /\ UNCHANGED <<headers, corr, server, call, status, result, sentWith,
                   sentCorr, did, unsure, alone, calls>>

ExitContext(t) ==
    /\ pc[t] = "unlock"
    /\ ctx' = None
    /\ Goto(t, IF result[t] = "none" THEN "judge" ELSE "idle")
    /\ UNCHANGED <<headers, corr, server, call, status, result, sentWith,
                   sentCorr, did, unsure, alone, calls>>

Return(t, r) ==
    /\ result' = [result EXCEPT ![t] = r]
    /\ status' = [status EXCEPT ![t] = None]
    /\ Goto(t, "idle")

\* compareElements() or compareAsyncActionStatus() may reject the answer.
Mismatch(t) == Validate /\ positive[t] /\ op[t] \in {"update", "syncAction"}

\* The codes are compared; create() then lists the collection.
Judge(t) ==
    /\ pc[t] = "judge"
    /\ IF op[t] \in Read
       THEN Return(t, IF status[t] \in POSITIVE_CODES THEN "True" ELSE "False")
       ELSE IF ~ responseCodesMatch(t) THEN Return(t, "False")
       ELSE IF op[t] = "create" /\ Validate
       THEN Goto(t, "list") /\ UNCHANGED <<result, status>>
       ELSE Return(t, "True") \/ (Mismatch(t) /\ Return(t, "False"))
    /\ UNCHANGED <<shared, server, call, sentWith, sentCorr, did,
                   unsure, alone, calls>>

\* create() compares the body, if there is one, with what was asked for and,
\* unless async was asked for, finds the new entity in the list.
FindCreated(t, listed, body) ==
    CASE ~ positive[t] \/ body = "empty" -> "True"
      [] positive[t] /\ body = "other" -> "False"
      [] positive[t] /\ body = "same" ->
            IF flag[t] \/ id[t] \in listed THEN "True" ELSE "EntityNotFound"

\* get() of the collection, and find(), which gets it again if it is empty;
\* either request may raise.
List(t) ==
    /\ pc[t] = "list"
    /\ \/ Return(t, "raised")
       \/ \E listed \in {exists, {}}, body \in {"empty", "same", "other"} :
            Return(t, FindCreated(t, listed, body))
    /\ UNCHANGED <<shared, server, call, sentWith, sentCorr, did,
                   unsure, alone, calls>>

Step(t) ==
    \/ SetHeader(t) \/ EnterContext(t) \/ SetCorrelationId(t) \/ Send(t)
    \/ SendRaises(t) \/ NoLink(t) \/ PopHeader(t) \/ PopCorrelationId(t) \/ ExitContext(t) \/ Judge(t)
    \/ List(t)

-----------------------------------------------------------------------------

Init ==
    /\ headers = {} /\ corr = None /\ ctx = None
    /\ exists = {} /\ coming = {}
    /\ pc = [t \in Threads |-> "idle"]
    /\ op = [t \in Threads |-> None]
    /\ id = [t \in Threads |-> None]
    /\ positive = [t \in Threads |-> TRUE]
    /\ flag = [t \in Threads |-> FALSE]
    /\ status = [t \in Threads |-> None]
    /\ result = [t \in Threads |-> "none"]
    /\ sentWith = [t \in Threads |-> FALSE]
    /\ sentCorr = [t \in Threads |-> None]
    /\ did = [t \in Threads |-> FALSE]
    /\ unsure = [t \in Threads |-> FALSE]
    /\ alone = [t \in Threads |-> FALSE]
    /\ calls = [t \in Threads |-> 0]

Next ==
    \/ \E i \in Ids : Appear(i)
    \/ \E t \in Threads :
        \/ Step(t)
        \/ \E o \in Operations, i \in Ids, p, f \in BOOLEAN :
            Call(t, o, i, p, f)

Spec == Init /\ [][Next]_vars

\* Every thread is scheduled, and every thread makes finitely many calls.
FairSpec == Spec /\ \A t \in Threads : WF_vars(Step(t))

-----------------------------------------------------------------------------

Locations == {"idle", "set", "lock", "correlate", "send", "pop", "uncorrelate",
              "unlock", "judge", "list"}

Done == {200, 201, 202, 204}

Codes == Done \cup {404, 409, 500, None}

\* Types of the headers, the lock and the calls.
TypeOK ==
    /\ headers \subseteq {"All-content", "custom"}
    /\ corr \in Threads \cup {None, "configured"}
    /\ ctx \in Threads \cup {None}
    /\ exists \subseteq Ids /\ coming \subseteq Ids
    /\ pc \in [Threads -> Locations]
    /\ op \in [Threads -> Modify \cup Read \cup {None}]
    /\ id \in [Threads -> Ids \cup {None}]
    /\ positive \in [Threads -> BOOLEAN]
    /\ flag \in [Threads -> BOOLEAN]
    /\ status \in [Threads -> Codes]
    /\ result \in [Threads -> {"none", "True", "False", "KeyError", "EntityNotFound",
                            "raised", "unsent"}]
    /\ sentWith \in [Threads -> BOOLEAN]
    /\ sentCorr \in [Threads -> Threads \cup {None, "configured"}]
    /\ did \in [Threads -> BOOLEAN]
    /\ unsure \in [Threads -> BOOLEAN]
    /\ alone \in [Threads -> BOOLEAN]

Finished(t) == pc[t] = "idle" /\ op[t] # None

Sent(t) == Finished(t) \/ pc[t] \in {"pop", "uncorrelate", "unlock", "judge", "list"}

\* A request that modifies the engine carries the Correlation-Id made for it
\* or configured, although all threads write and remove the one header
\* (correlationIdContext).
CorrelationOwn ==
    \A t \in Threads :
        op[t] \in Modify /\ Sent(t) => sentCorr[t] = CorrelationId(t)

\* What a True of an operation says (responseCodesMatch and its lists of
\* codes): it was to succeed and the engine did what was asked, or it was to
\* fail and the engine did nothing.  The one exception is in NEGATIVE_CODES: an
\* operation that was to fail also counts a 500 as its refusal, and after a 500
\* the engine may have done what was asked.
VerdictTrue ==
    \A t \in Threads :
        Finished(t) /\ op[t] \in Modify /\ result[t] = "True" =>
            \/ did[t] = positive[t]
            \/ ~ positive[t] /\ unsure[t]

\* query() and getElemFromLink() with all_content, undisturbed by other
\* threads, send the header and end without a KeyError, whatever operations
\* left in the headers before.
AllContentAlone ==
    \A t \in Threads :
        Finished(t) /\ Removes(t) /\ alone[t] =>
            /\ result[t] # "unsent" => sentWith[t]
            /\ result[t] # "KeyError"

\* Every operation returns: context_lock is released on every path.
OperationsReturn == \A t \in Threads : pc[t] # "idle" ~> pc[t] = "idle"

\* The holder of context_lock, the Correlation-Id and the location of the
\* threads determine each other.
Inside(t) ==
    \/ pc[t] \in {"correlate", "uncorrelate", "unlock"}
    \/ pc[t] = "send" /\ op[t] \in Modify

LockInv ==
    /\ \A t \in Threads : Inside(t) <=> ctx = t
    /\ \A t \in Threads :
        /\ pc[t] # "idle" => op[t] \in Modify \cup Read /\ id[t] \in Ids
        /\ Inside(t) \/ pc[t] = "lock" => op[t] \in Modify
        /\ pc[t] \in {"set", "pop"} => op[t] \in Read
        /\ pc[t] \in {"uncorrelate", "send"} /\ Inside(t) =>
            corr = CorrelationId(t)
        /\ pc[t] \in {"correlate", "unlock"} => corr = None
    /\ ctx = None => corr = None

\* Between its answer and its verdict an operation knows from the code what was
\* done, except after a 500.
Told(t) ==
    /\ status[t] \in Done => did[t]
    /\ unsure[t] => status[t] = 500
    /\ did[t] => status[t] \in Done \/ unsure[t]

JudgeInv ==
    \A t \in Threads : op[t] \in Modify =>
        /\ pc[t] \in {"uncorrelate", "unlock", "judge"} =>
            \/ result[t] = "none" /\ Told(t)
            \/ result[t] = "raised" /\ pc[t] # "judge"
        /\ pc[t] = "list" => \/ did[t] = positive[t]
                             \/ ~ positive[t] /\ unsure[t]
        /\ pc[t] \in {"lock", "correlate", "send"} => result[t] = "none"

\* While nobody else uses the headers, 'All-content' stays from where it is
\* set to where it is removed, and the request is sent in between.
HeaderInv ==
    \A t \in Threads : Removes(t) /\ alone[t] =>
        /\ pc[t] \in {"send", "pop"} => "All-content" \in headers
        /\ pc[t] \in {"set", "send", "judge", "list"} => result[t] = "none"
        /\ pc[t] \notin {"set", "send"} =>
            /\ result[t] # "unsent" => sentWith[t]
            /\ result[t] # "KeyError"

\* The inductive invariant of the proofs.
OpsInv ==
    TypeOK /\ LockInv /\ JudgeInv /\ CorrelationOwn /\ VerdictTrue /\ HeaderInv

=============================================================================
