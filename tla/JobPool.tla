------------------------------ MODULE JobPool ------------------------------
(***************************************************************************)
(* What JobsSet (art/rhevm_api/utils/jobs.py) promises its client: every   *)
(* job submitted is executed at most once, and join() returns only when no *)
(* submitted job is waiting or being executed.                             *)
(***************************************************************************)
CONSTANT Jobs

VARIABLES
    st,      \* st[j]: how far job j is
    joined   \* the client's last call was a join() that returned

poolVars == <<st, joined>>

Init ==
    /\ st = [j \in Jobs |-> "new"]
    /\ joined = FALSE

Submit(j) ==
    /\ ~joined
    /\ st[j] = "new"
    /\ st' = [st EXCEPT ![j] = "queued"]
    /\ UNCHANGED joined

Run(j) ==
    /\ ~joined
    /\ st[j] = "queued"
    /\ st' = [st EXCEPT ![j] = "running"]
    /\ UNCHANGED joined

Finish(j) ==
    /\ ~joined
    /\ st[j] = "running"
    /\ st' = [st EXCEPT ![j] = "finished"]
    /\ UNCHANGED joined

Join ==
    /\ ~joined
    /\ \A j \in Jobs : st[j] \in {"new", "finished"}
    /\ joined' = TRUE
    /\ UNCHANGED st

NextCall ==
    /\ joined
    /\ joined' = FALSE
    /\ UNCHANGED st

Next ==
    \/ \E j \in Jobs : Submit(j) \/ Run(j) \/ Finish(j)
    \/ Join
    \/ NextCall

Spec == Init /\ [][Next]_poolVars

=============================================================================
