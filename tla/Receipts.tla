------------------------------ MODULE Receipts ------------------------------
(***************************************************************************)
(* The rows of turn_receipts (src-tauri/src/db.rs).  A receipt is written  *)
(* as a placeholder when its turn begins, again when the outcome of the    *)
(* turn is known, and once more, for good, with its Git manifest.  The     *)
(* writes come from different tasks, may find the connection taken and be  *)
(* skipped, and may be late; a restart closes what was left open.          *)
(***************************************************************************)
EXTENDS Naturals

NoReceipt == [state |-> "none"]
ReceiptStates == {"pending", "known", "terminal"}
Statuses == {"interrupted", "completed"}

NewReceipt(state, status, anchor) == [state |-> state, status |-> status, anchor |-> anchor]

\* ON CONFLICT ... WHERE: a terminal receipt is never rewritten, a known
\* outcome only by a known or terminal one.
MayReplace(old, new) ==
    \/ old.state = "pending"
    \/ old.state = "known" /\ new.state \in {"known", "terminal"}

\* write_turn_receipt_state; the position in the timeline is the first one.
Written(old, new) ==
    IF old = NoReceipt THEN new
    ELSE IF MayReplace(old, new) THEN [new EXCEPT !.anchor = old.anchor]
    ELSE old

\* recover_pending_turn_receipts, for one row
OutcomeIsKnown(r) == r.state = "known" /\ r.status # "interrupted"

Recovered(r) ==
    IF r.state \in {"none", "terminal"} THEN r
    ELSE [r EXCEPT !.state = "terminal",
                   !.status = IF OutcomeIsKnown(r) THEN r.status ELSE "interrupted"]

\* get_turn_receipt and every join of a reader
IsVisible(r) == r.state = "terminal"
=============================================================================
