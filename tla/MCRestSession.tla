--------------------------- MODULE MCRestSession ---------------------------
(* RestSession for TLC: threads, elements and users are interchangeable. *)
EXTENDS RestSession, TLC

Interchangeable ==
    Permutations(Threads) \cup Permutations(Elements) \cup Permutations(Users)
=============================================================================
