----------------------------- MODULE Migrations -----------------------------
(***************************************************************************)
(* Db::open (src-tauri/src/db.rs) on the database of an earlier build.     *)
(* Each statement commits on its own, so the program may die, or find the  *)
(* file locked and give up, between any two: the next start begins again   *)
(* at the first one, on whatever the last one left.                        *)
(***************************************************************************)
EXTENDS Receipts, Integers, Sequences, FiniteSetsExt

CONSTANTS
    Databases,      \* the files the earlier builds left
    MaxOpens,       \* bound on the attempts to open
    MaxSaves        \* bound on the messages the program saves once it is open

Null == -1          \* NULL, in a column of numbers
Untold == "untold"  \* the state of a receipt in a table without the column

VARIABLES
    db,     \* the file: columns, session, confirmed, messages, receipts
    at,     \* the next statement of open, or "closed", or "open"
    before, \* the file at the last start that followed a run
    opens, saves

vars == <<db, at, before, opens, saves>>

\* The statements, in the order of open
Statements ==
    <<"tables", "model", "account", "thread", "receiptAccount", "retireClaude", "oneAccount",
      "confirmed", "turnId", "terminal", "anchor", "placeReceipts", "recover">>

Columns == {"model", "account", "thread", "receiptAccount", "confirmed", "turnId", "terminal", "anchor"}

Next1(s) ==
    LET k == CHOOSE i \in DOMAIN Statements : Statements[i] = s
    IN  IF k = Len(Statements) THEN "open" ELSE Statements[k + 1]

\* A table that is there stays as it is, one that is not has every column.
CreateTables(d) ==
    [d EXCEPT !.columns = @ \cup (IF d.tables THEN {} ELSE {"receiptAccount", "terminal", "anchor"}),
              !.tables = TRUE]

\* What ADD COLUMN writes in the rows that exist
\* Mutant: a row of before the column is taken for a turn that is under way.
AddedAsPending(d) == [t \in DOMAIN d.receipts |-> [d.receipts[t] EXCEPT !.state = "pending"]]
AddTerminal(d) == [t \in DOMAIN d.receipts |-> [d.receipts[t] EXCEPT !.state = "terminal"]]

Add(column, d) ==
    IF column \in d.columns THEN d
    ELSE LET with == [d EXCEPT !.columns = @ \cup {column}]
         IN  CASE column = "model" -> [with EXCEPT !.session.model = "null"]
               [] column = "account" -> [with EXCEPT !.session.account = "null"]
               [] column = "confirmed" -> [with EXCEPT !.confirmed = FALSE]
               [] column = "terminal" -> [with EXCEPT !.receipts = AddTerminal(d)]
               [] OTHER -> with

RetireClaude(session) ==
    IF session.model \in {"null", "empty", "claude"} THEN [model |-> "terra", account |-> "primary"] ELSE session

OneAccount(session) ==
    IF session.model \in {"gpt", "terra"} THEN [session EXCEPT !.account = "primary"] ELSE session

\* COALESCE: the first row of the turn, the first that is not older, the end
RowsOf(t, d) == {i \in DOMAIN d.messages : d.messages[i].turn = t}
PlaceOf(t, d) ==
    LET later == {i \in DOMAIN d.messages : d.messages[i].time >= d.receipts[t].started}
    IN  IF RowsOf(t, d) # {} THEN Min(RowsOf(t, d)) - 1
        ELSE IF later # {} THEN Min(later) - 1 ELSE Len(d.messages)

PlaceReceipts(d) ==
    [t \in DOMAIN d.receipts |->
       IF d.receipts[t].anchor = Null THEN [d.receipts[t] EXCEPT !.anchor = PlaceOf(t, d)] ELSE d.receipts[t]]

Run(s, d) ==
    CASE s = "tables" -> CreateTables(d)
      [] s = "retireClaude" -> [d EXCEPT !.session = RetireClaude(@)]
      [] s = "oneAccount" -> [d EXCEPT !.session = OneAccount(@)]
      [] s = "placeReceipts" -> [d EXCEPT !.receipts = PlaceReceipts(d)]
      [] OTHER -> Add(s, d)

-----------------------------------------------------------------------------
Init ==
    /\ db \in Databases
    /\ before = db
    /\ at = "closed"
    /\ opens = 0 /\ saves = 0

Start ==
    /\ at = "closed" /\ opens < MaxOpens
    /\ at' = "tables" /\ opens' = opens + 1
    /\ UNCHANGED <<db, before, saves>>

Execute ==
    /\ at \notin {"closed", "open", "recover"}
    /\ db' = Run(at, db)
    /\ at' = Next1(at)
    /\ UNCHANGED <<before, opens, saves>>

\* One UPDATE for each receipt that was left open
OpenReceipts == {t \in DOMAIN db.receipts : db.receipts[t].state # "terminal"}
Recover ==
    /\ at = "recover"
    /\ IF OpenReceipts = {} THEN at' = "open" /\ UNCHANGED db
       ELSE /\ \E t \in OpenReceipts : db' = [db EXCEPT !.receipts[t] = Recovered(@)]
            /\ UNCHANGED at
    /\ UNCHANGED <<before, opens, saves>>

\* A statement fails, or the program ends before it.
GiveUp ==
    /\ at \notin {"closed", "open"}
    /\ at' = "closed"
    /\ UNCHANGED <<db, before, opens, saves>>

\* The clock does not go back.
LastTime == IF db.messages = <<>> THEN 0 ELSE db.messages[Len(db.messages)].time
SaveMessage ==
    /\ at = "open" /\ saves < MaxSaves
    /\ \E ticks \in {0, 1} :
         db' = [db EXCEPT !.messages = Append(@, [turn |-> 0, time |-> LastTime + ticks])]
    /\ saves' = saves + 1
    /\ UNCHANGED <<at, before, opens>>

ConfirmDevice ==
    /\ at = "open" /\ ~db.confirmed
    /\ db' = [db EXCEPT !.confirmed = TRUE]
    /\ UNCHANGED <<at, before, opens, saves>>

Quit ==
    /\ at = "open"
    /\ at' = "closed" /\ before' = db
    /\ UNCHANGED <<db, opens, saves>>

Next == Start \/ Execute \/ Recover \/ GiveUp \/ SaveMessage \/ ConfirmDevice \/ Quit

Spec == Init /\ [][Next]_vars

-----------------------------------------------------------------------------
TrustKept(b, d) == d.confirmed = ("confirmed" \in b.columns /\ b.confirmed)

SessionKept(b, d) ==
    /\ b.session.model = "other" =>
         d.session = [b.session EXCEPT !.account = IF "account" \in b.columns THEN @ ELSE "null"]
    /\ b.session.model \in {"gpt", "terra"} => d.session = [model |-> b.session.model, account |-> "primary"]
    /\ b.session.model \in {"null", "empty", "claude"} => d.session = [model |-> "terra", account |-> "primary"]

OutcomeKept(t, b, d) ==
    /\ d.receipts[t].state = "terminal"
    /\ d.receipts[t].status =
         IF b.receipts[t].state \in {Untold, "terminal"} \/ OutcomeIsKnown(b.receipts[t])
         THEN b.receipts[t].status ELSE "interrupted"

\* At the first of its rows, or after all that is older and before all that is not
PlaceKept(t, b, d) ==
    LET place == d.receipts[t].anchor
    IN  IF b.receipts[t].anchor # Null THEN place = b.receipts[t].anchor
        ELSE IF RowsOf(t, d) # {} THEN place + 1 \in RowsOf(t, d) /\ \A i \in RowsOf(t, d) : place < i
        ELSE \A i \in DOMAIN d.messages : i <= place <=> d.messages[i].time < d.receipts[t].started

\* However many starts were cut off between two statements, the one that gets
\* through leaves what the last run, or the earlier build, meant: a finished turn
\* keeps its outcome and one cut off is interrupted, every receipt has its place,
\* no device is trusted that was not, a GPT model stays (Db::open).
StartKeeps ==
    at # "open" /\ at' = "open" =>
        /\ db'.tables /\ Columns \subseteq db'.columns
        /\ TrustKept(before, db') /\ SessionKept(before, db')
        /\ db'.messages = before.messages
        /\ \A t \in DOMAIN before.receipts : OutcomeKept(t, before, db') /\ PlaceKept(t, before, db')
OpenKeeps == [][StartKeeps]_vars
=============================================================================
