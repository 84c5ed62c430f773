-------------------------- MODULE MCTurnLifecycle --------------------------
(* A small instance of the engine: every run is for the same session. *)
EXTENDS TurnLifecycle, TLC

CONSTANTS session

OneSession == [r \in Runs |-> session]
TaskSymmetry == Permutations(Runs) \cup Permutations(Stops)
=============================================================================
