---------------------------- MODULE MCApprovals ----------------------------
(* Small instances of the requests that wait for the user. *)
EXTENDS Approvals, TLC

TaskSymmetry ==
    Permutations(Turns \ Children) \cup Permutations(Children) \cup Permutations(Calls \ Remote)
=============================================================================
