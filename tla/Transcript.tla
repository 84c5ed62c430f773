----------------------------- MODULE Transcript -----------------------------
(***************************************************************************)
(* What the desktop shows of a session: the messages and receipts of       *)
(* src-tauri/src/db.rs folded into bubbles, all at once (try_ui_messages)  *)
(* or in pages from the newest down (try_ui_message_page), the latter      *)
(* while rows are still being added.                                       *)
(*                                                                         *)
(* A row is a message: its turn, its role, whether it has text, the tool   *)
(* it asks for and the one it has a result of.  Its sequence is its place, *)
(* counted from 0.  A receipt is final; one without a message of its turn  *)
(* stands at the sequence the next message will have, its anchor.          *)
(***************************************************************************)
EXTENDS Naturals, Sequences, SequencesExt, FiniteSets, FiniteSetsExt

CONSTANTS
    PageSizes,  \* UI_MESSAGE_PAGE_SIZE, any of these
    Scripts     \* what is written to a session, in order: rows and receipts

NoTurn == 0     \* the turns of a session are numbered by the order of their ids
NoTool == 0
NoCursor == 1000

VARIABLES
    script,     \* what is written to the session
    written,    \* how much of it is written
    pageSize,
    cursor,     \* the anchor below which the reader asks for more
    pages,      \* the bubbles it has, oldest first
    first,      \* what try_ui_messages would have said when it began
    reading     \* "no", "yes", "done"

vars == <<script, written, pageSize, cursor, pages, first, reading>>

Row(turn, role, text, use, result) ==
    [kind |-> "message", turn |-> turn, role |-> role, text |-> text, use |-> use, result |-> result]
Receipt(turn) == [kind |-> "receipt", turn |-> turn]

IsMessage(x) == x.kind = "message"
MessagesIn(store) == SelectSeq(store, IsMessage)
ReceiptOf(t, store) == \E i \in DOMAIN store : store[i] = Receipt(t)
HasMessage(t, store) == \E i \in DOMAIN store : IsMessage(store[i]) /\ store[i].turn = t

\* The events of the timeline: a message at its sequence, a receipt at its anchor.
Place(i, store) == Len(MessagesIn(SubSeq(store, 1, i - 1)))
Event(i, store) ==
    [anchor |-> Place(i, store), rank |-> IF IsMessage(store[i]) THEN 1 ELSE 0, at |-> i, what |-> store[i]]

\* ORDER BY anchor_seq, rank, tie: the tie of receipts is the turn, messages have none.
Earlier(d, e) ==
    \/ d.anchor < e.anchor
    \/ d.anchor = e.anchor /\ d.rank < e.rank
    \/ d.anchor = e.anchor /\ d.rank = e.rank /\ d.what.turn < e.what.turn

Timeline(store) ==
    LET shown(e) == IsMessage(e.what) \/ ~HasMessage(e.what.turn, store)
    IN  SortSeq(SelectSeq([i \in DOMAIN store |-> Event(i, store)], shown), Earlier)

\* Everything is written at a time of its own, and a turn starts before the first of it.
TimeOf(at) == 2 * at
StartOf(t, store) == 2 * Min({i \in DOMAIN store : store[i].turn = t}) - 1
-----------------------------------------------------------------------------
(* Folding rows into bubbles.                                              *)

TurnBubble(t, time, receipt) ==
    [id |-> <<"turn", t>>, role |-> "assistant", blocks |-> <<>>, time |-> time, receipt |-> receipt]
RowBubble(e, role, blocks) ==
    [id |-> <<"row", e.anchor>>, role |-> role, blocks |-> blocks, time |-> TimeOf(e.at), receipt |-> FALSE]

Texts(e) == IF e.what.text THEN <<[kind |-> "text", of |-> e.anchor]>> ELSE <<>>
Uses(e) == IF e.what.use # NoTool THEN <<[kind |-> "use", of |-> e.what.use]>> ELSE <<>>
Results(e) == IF e.what.result # NoTool THEN <<[kind |-> "result", of |-> e.what.result]>> ELSE <<>>
Blocks(e) == Texts(e) \o Uses(e) \o Results(e)

Extended(bubble, blocks) == [bubble EXCEPT !.blocks = @ \o blocks]

\* ensure_turn_assistant, and the blocks it gets: the bubble of the turn, wherever
\* it is, or a new one at the end
IntoTurn(out, t, time, receipt, blocks) ==
    IF \E i \in DOMAIN out : out[i].id = <<"turn", t>>
    THEN [i \in DOMAIN out |-> IF out[i].id = <<"turn", t>> THEN Extended(out[i], blocks) ELSE out[i]]
    ELSE Append(out, Extended(TurnBubble(t, time, receipt), blocks))

UserBubble(out, e) == IF e.what.text THEN Append(out, RowBubble(e, "user", Texts(e))) ELSE out

\* A row of a turn: the answers of a turn, and the results of its tools, are one bubble.
FoldTurnRow(out, e, store) ==
    LET t == e.what.turn
        receipt == ReceiptOf(t, store)
        asked == UserBubble(out, e)
    IN  IF e.what.role = "assistant" THEN IntoTurn(out, t, TimeOf(e.at), receipt, Blocks(e))
        ELSE IF e.what.result = NoTool /\ ~receipt THEN asked
        ELSE IntoTurn(asked, t, IF receipt THEN StartOf(t, store) ELSE TimeOf(e.at), receipt, Results(e))

\* A row older than turns: results go to the bubble before it, whatever that is.
FoldLegacyRow(out, e) ==
    IF e.what.role = "assistant" THEN Append(out, RowBubble(e, "assistant", Blocks(e)))
    ELSE LET answered == IF e.what.result # NoTool /\ out # <<>>
                         THEN Append(Front(out), Extended(Last(out), Results(e))) ELSE out
         IN  UserBubble(answered, e)

Fold(out, e, store) ==
    IF ~IsMessage(e.what) THEN IntoTurn(out, e.what.turn, StartOf(e.what.turn, store), TRUE, <<>>)
    ELSE IF e.what.turn # NoTurn THEN FoldTurnRow(out, e, store)
    ELSE FoldLegacyRow(out, e)

\* finalize_unmatched_ui_tools: a tool without a result was interrupted.
Finalized(bubble) ==
    LET uses == SelectSeq(bubble.blocks, LAMBDA b : b.kind = "use")
        open == SelectSeq(uses, LAMBDA u : [kind |-> "result", of |-> u.of] \notin Range(bubble.blocks))
    IN  Extended(bubble, [i \in DOMAIN open |-> [kind |-> "interrupted", of |-> open[i].of]])

Folded(events, store) ==
    LET out == FoldLeft(LAMBDA o, e : Fold(o, e, store), <<>>, events)
    IN  [i \in DOMAIN out |-> Finalized(out[i])]

\* try_ui_messages: the messages first; then each receipt that has no bubble yet
\* goes before the first bubble that is younger than its turn.
Placed(out, t, store) ==
    LET start == StartOf(t, store)
        younger == {i \in DOMAIN out : out[i].time > start}
        at == IF younger = {} THEN Len(out) + 1 ELSE Min(younger)
    IN  InsertAt(out, at, TurnBubble(t, start, TRUE))

View(store) ==
    LET messages == SelectSeq(Timeline(store), LAMBDA e : IsMessage(e.what))
        \* ORDER BY anchor_seq, started_at, turn_id
        receipts == SelectSeq(store, LAMBDA x : ~IsMessage(x) /\ ~HasMessage(x.turn, store))
    IN  FoldLeft(LAMBDA out, x : Placed(out, x.turn, store), Folded(messages, store), receipts)
-----------------------------------------------------------------------------
(* One page: the newest rows below the cursor.                             *)

\* Mutant: the window ends where it ends.
WindowEnds(oldest, messages) == oldest.anchor

\* The oldest row of the window drags in the rows that belong with it: those of
\* its turn, or the row before a result.
FirstOfTurn(oldest, messages) ==
    Min({oldest.anchor} \cup {i - 1 : i \in {j \in DOMAIN messages : messages[j].turn = oldest.what.turn}})

StartOfPage(oldest, messages) ==
    IF oldest.what.turn # NoTurn THEN FirstOfTurn(oldest, messages)
    ELSE IF oldest.what.role # "assistant" /\ oldest.what.result # NoTool /\ oldest.anchor > 0
    THEN oldest.anchor - 1 ELSE oldest.anchor

\* The next page continues where the rows of this one begin ...
NextCursor(start, oldest) == start

Page(store, below, size) ==
    LET window == SelectSeq(Timeline(store), LAMBDA e : e.anchor < below)
        keys == SubSeq(window, Max({1, Len(window) - size + 1}), Len(window))
        oldest == keys[1]
        start == StartOfPage(oldest, MessagesIn(store))
        older == \E i \in DOMAIN window : window[i].anchor < start
    IN  IF window = <<>> THEN [bubbles |-> <<>>, cursor |-> NoCursor]
        ELSE [bubbles |-> Folded(SelectSeq(window, LAMBDA e : e.anchor >= start), store),
              cursor |-> IF older THEN NextCursor(start, oldest) ELSE NoCursor]
-----------------------------------------------------------------------------
Init ==
    /\ script \in Scripts /\ pageSize \in PageSizes
    /\ written = 0 /\ cursor = NoCursor /\ pages = <<>> /\ first = <<>> /\ reading = "no"

\* The engine writes the next row or receipt.
WriteNext ==
    /\ written < Len(script)
    /\ written' = written + 1
    /\ UNCHANGED <<script, pageSize, cursor, pages, first, reading>>

\* get_message_page, from the newest page on
ReadNext ==
    LET store == SubSeq(script, 1, written)
        page == Page(store, cursor, pageSize)
    IN  /\ reading # "done"
        /\ reading' = IF page.cursor = NoCursor THEN "done" ELSE "yes"
        /\ cursor' = page.cursor
        /\ pages' = page.bubbles \o pages
        /\ first' = IF reading = "no" THEN View(store) ELSE first
        /\ UNCHANGED <<script, written, pageSize>>

Ended == written = Len(script) /\ reading = "done" /\ UNCHANGED vars

Next == WriteNext \/ ReadNext \/ Ended
Spec == Init /\ [][Next]_vars
-----------------------------------------------------------------------------
Ids(bubbles) == [i \in DOMAIN bubbles |-> bubbles[i].id]

\* The pages a reader has are the newer end of what it would have been shown in
\* one piece, each bubble once and whole: no turn, tool call or group of receipts
\* is split or repeated by a page (db.rs:2425-2428), whatever is written meanwhile.
PagesAreTheView ==
    reading # "no" =>
        /\ ToSet(pages) \subseteq ToSet(first)
        /\ IsInjective(Ids(pages))
        /\ Len(pages) > 0 =>
              \A i \in DOMAIN first : first[i].id = pages[1].id =>
                 \A j \in i .. Len(first) : first[j] \in ToSet(pages)
        /\ reading = "done" => Len(pages) = Len(first)
=============================================================================
