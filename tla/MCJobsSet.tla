----------------------------- MODULE MCJobsSet -----------------------------
(***************************************************************************)
(* TLC instances of JobsSet.                                               *)
(***************************************************************************)
EXTENDS JobsSet, TLC

CONSTANTS a, b, c, d   \* jobs

(* Every job has a finished_event of its own ...                           *)
OwnEvents == [j \in Jobs |-> j]
(* ... or shares the one of the job it is a copy of.                       *)
SharedEvent == [j \in Jobs |-> a]

=============================================================================
