--------------------------- MODULE MCSessionStore ---------------------------
(***************************************************************************)
(* Instances of SessionStore for TLC: activity of three threads against    *)
(* every bound; a reader against a writer; turns with failing writes, lost *)
(* servers and kills, and with ends announced twice; two commands against  *)
(* a turn; a deletion, and one with late receipts and ends; receipts.      *)
(***************************************************************************)
EXTENDS SessionStore

MCThreadLimits == [rows |-> 2, bytes |-> 3]
MCSessionLimits == [rows |-> 3, bytes |-> 5]
MCGlobalLimits == [rows |-> 4, bytes |-> 6]

Quiet == [rows |-> 0, from |-> {}, kinds |-> {}, turns |-> 0, kills |-> 0, may |-> {}]
Bounds == [Quiet EXCEPT !.rows = 6, !.from = Threads, !.kinds = {"progress", "item/completed"}]
Reading == [Quiet EXCEPT !.rows = 5, !.from = {Root, Child}, !.kinds = {"progress", "item/completed"},
                         !.may = {"read", "fail"}]
Restoring == [Quiet EXCEPT !.rows = 3, !.turns = 3, !.kills = 2, !.may = {"fail", "lose", "repeat"}]
Repeating == [Quiet EXCEPT !.rows = 4, !.turns = 3, !.may = {"repeat"}]
Selecting == [Quiet EXCEPT !.turns = 1, !.kills = 1, !.may = {"select", "receipts"}]
Deleting == [Quiet EXCEPT !.rows = 1, !.from = {Child}, !.kinds = {"progress"}, !.turns = 2, !.kills = 1,
                          !.may = {"delete", "fail"}]
Closing == [Quiet EXCEPT !.turns = 2, !.kills = 2, !.may = {"receipts", "lose"}]
\* Without lost servers: a history restored, deleted in part and restored again would
\* add sequences without end.
LateDeleting == [Deleting EXCEPT !.may = @ \cup {"receipts", "repeat"}]

MCScenarios == {Bounds, Reading, Restoring, Repeating, Selecting, Deleting, LateDeleting, Closing}
=============================================================================
