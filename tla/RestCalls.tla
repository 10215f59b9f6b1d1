----------------------------- MODULE RestCalls -----------------------------
(***************************************************************************)
(* What GetApi, RestUtil and HTTPProxy (test_utils.py, core_api) promise   *)
(* the threads that make REST calls while nobody switches the user under   *)
(* them: the engine executes a call at most once, between its beginning    *)
(* and its end, as the configured user and with that user's filter.  An    *)
(* answer is that of the execution, unless the engine has failed; a call   *)
(* that was refused was not executed, nor was one that ended in an error,  *)
(* unless the connection has failed.                                       *)
(***************************************************************************)
CONSTANTS Threads, Users, None, Faults

VARIABLES
    user,       \* the configured user
    st,         \* of each thread: how far its call is
    by,         \* the user it was executed as
    filteredBy, \* the user whose filter it was executed with
    result      \* of the last call

callVars == <<user, st, by, filteredBy, result>>

Init ==
    /\ user \in Users
    /\ st = [t \in Threads |-> "idle"]
    /\ by = [t \in Threads |-> None]
    /\ filteredBy = [t \in Threads |-> None]
    /\ result = [t \in Threads |-> "none"]

Call(t) ==
    /\ st[t] = "idle"
    /\ st' = [st EXCEPT ![t] = "called"]
    /\ by' = [by EXCEPT ![t] = None]
    /\ filteredBy' = [filteredBy EXCEPT ![t] = None]
    /\ result' = [result EXCEPT ![t] = "none"]
    /\ UNCHANGED user

Execute(t) ==
    /\ st[t] = "called"
    /\ st' = [st EXCEPT ![t] = "executed"]
    /\ by' = [by EXCEPT ![t] = user]
    /\ filteredBy' = [filteredBy EXCEPT ![t] = user]
    /\ UNCHANGED <<user, result>>

Return(t, r) ==
    /\ \/ r = "answered" /\ st[t] = "executed"
       \/ r = "answered" /\ st[t] = "called" /\ Faults
       \/ r \in {"refused", "error"} /\ st[t] = "called"
       \/ r = "error" /\ st[t] = "executed" /\ Faults
    /\ st' = [st EXCEPT ![t] = "idle"]
    /\ result' = [result EXCEPT ![t] = r]
    /\ UNCHANGED <<user, by, filteredBy>>

Switch(u) ==
    /\ \A t \in Threads : st[t] = "idle"
    /\ user' = u
    /\ UNCHANGED <<st, by, filteredBy, result>>

Next ==
    \/ \E t \in Threads :
        Call(t) \/ Execute(t) \/ \E r \in {"answered", "refused", "error"} : Return(t, r)
    \/ \E u \in Users : Switch(u)

Spec == Init /\ [][Next]_callVars
=============================================================================
