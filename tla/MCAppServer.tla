---------------------------- MODULE MCAppServer ----------------------------
(* A small instance of the supervisor: its clients are interchangeable. *)
EXTENDS AppServer, TLC

ClientSymmetry == Permutations(Clients)
=============================================================================
