------------------------------ MODULE PairingGate ------------------------------
(***************************************************************************)
(* src-tauri/src/sync/pairing_gate.rs: the pairing window of the desktop   *)
(* and the pairing requests that wait for its user.                        *)
(*                                                                         *)
(* A gate is a record.  A window is named by its nonce, a number; a        *)
(* request by the connection that made it, which is also where the answer  *)
(* goes.  Operators return the gate afterwards.                            *)
(***************************************************************************)
EXTENDS Naturals

NoNonce == 0
ClosedGate == [nonce |-> NoNonce, lapsed |-> FALSE, pending |-> {}]

\* open_window replaces whatever window there is.
OpenWindow(gate, nonce) == [gate EXCEPT !.nonce = nonce, !.lapsed = FALSE]
CloseWindow(gate) == [gate EXCEPT !.nonce = NoNonce, !.lapsed = FALSE]
\* PAIRING_WINDOW_TTL is over; the window is cleared by whoever reads it next.
Lapse(gate) == [gate EXCEPT !.lapsed = TRUE]
ActiveNonce(gate) == IF gate.lapsed THEN NoNonce ELSE gate.nonce
WindowRead(gate) == IF gate.lapsed THEN CloseWindow(gate) ELSE gate
WindowIsOpen(gate) == ActiveNonce(gate) # NoNonce

\* serve_decision
ServeDecision(confirmed, open) ==
    IF confirmed THEN "Serve" ELSE IF open THEN "Prompt" ELSE "Drop"

RegisterPending(gate, request) == [gate EXCEPT !.pending = @ \cup {request}]
\* resolve_pending removes the entry before it answers, forget_pending answers nobody.
WithoutPending(gate, request) == [gate EXCEPT !.pending = @ \ {request}]
================================================================================
