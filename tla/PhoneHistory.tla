---------------------------- MODULE PhoneHistory ----------------------------
(***************************************************************************)
(* The history of a session on the phones: the catch-up of a new           *)
(* connection ships the last rows that fit a frame, and a phone that       *)
(* scrolls up asks for the page before its oldest row.                     *)
(*                                                                         *)
(* src-tauri/src/sync (session.rs, server.rs, public.rs), db.rs and the    *)
(* phone's store (src/store/store.ts).  Row k of the session has seq k - 1 *)
(* there; rows of one turn, which the phone shows as one bubble, are kept  *)
(* apart.  A row fits a frame of its own.                                  *)
(***************************************************************************)
EXTENDS Naturals, Sequences, SequencesExt, FiniteSets, FiniteSetsExt

CONSTANTS
    Phones,
    Histories,      \* the sizes of the rows there may be at the start
    Sizes,          \* the sizes of a row that is saved later
    Window,         \* SYNC_CACHE_WINDOW
    FrameBudget,    \* PHONE_FRAME_BUDGET, in sizes; no row is larger
    PageSize,       \* PAGE_SIZE of the phone
    MaxPage,        \* MAX_PAGE_LIMIT
    MaxRows,        \* bound on the rows
    MaxConnects     \* bound on the connections

VARIABLES
    rows,       \* the sizes of the session's rows
    conn,       \* whether a phone is connected
    queue,      \* the frames on their way to a phone
    asked,      \* the fetch_messages of a phone that are not served
    held,       \* the rows a phone shows
    paging,     \* messagePaging of the session, or Unseeded
    crossed,    \* the phones that were shown a page another phone asked for
    connects

vars == <<rows, conn, queue, asked, held, paging, crossed, connects>>

Unseeded == [hasMore |-> FALSE, loading |-> FALSE, oldest |-> 0]

SizeOf(page) == FoldLeft(LAMBDA sum, k : sum + rows[k], 0, page)
Fits(page) == SizeOf(page) <= FrameBudget
Stretch(lo, hi) == [i \in 1 .. (IF hi < lo THEN 0 ELSE hi - lo + 1) |-> lo + i - 1]

\* messages_tail, as message_delta_frame cuts it: a prefix stays
Recent == Stretch(Max({1, Len(rows) - Window + 1}), Len(rows))
DeltaFrame ==
    LET n == Max({i \in 0 .. Len(Recent) : Fits(SubSeq(Recent, 1, i))})
    IN  [kind |-> "delta", rows |-> SubSeq(Recent, 1, n), hasMore |-> FALSE, asker |-> "none"]

\* messages_page, as message_page_frame cuts it: a suffix stays
Page(before, limit) ==
    LET first == Max({1, before - limit})
    IN  [rows |-> Stretch(first, before - 1), hasMore |-> first > 1]

Suffix(page, n) == SubSeq(page, Len(page) - n + 1, Len(page))
Kept(page, n) == Suffix(page, n)

PageFrame(p, before) ==
    LET page == Page(before, Min({PageSize, MaxPage}))
        n == Max({i \in 0 .. Len(page.rows) : Fits(Suffix(page.rows, i))})
    IN  [kind |-> "page", rows |-> Kept(page.rows, n), asker |-> p, hasMore |-> page.hasMore \/ n < Len(page.rows)]

\* prependMessages
Prepended(list, page) == page \o SelectSeq(list, LAMBDA k : k \notin ToSet(page))

-----------------------------------------------------------------------------
Init ==
    /\ rows \in Histories
    /\ conn = [p \in Phones |-> FALSE]
    /\ queue = [p \in Phones |-> <<>>]
    /\ asked = [p \in Phones |-> <<>>]
    /\ held = [p \in Phones |-> <<>>]
    /\ paging = [p \in Phones |-> Unseeded]
    /\ crossed = {}
    /\ connects = 0

SaveRow(size) ==
    /\ Len(rows) < MaxRows
    /\ rows' = Append(rows, size)
    /\ UNCHANGED <<conn, queue, asked, held, paging, crossed, connects>>

\* The Hello of the web client names no cursor.
Connect(p) ==
    /\ ~conn[p] /\ connects < MaxConnects
    /\ conn' = [conn EXCEPT ![p] = TRUE]
    /\ queue' = [queue EXCEPT ![p] = <<DeltaFrame>>]
    /\ asked' = [asked EXCEPT ![p] = <<>>]
    /\ paging' = [paging EXCEPT ![p] = Unseeded]
    /\ connects' = connects + 1
    /\ UNCHANGED <<rows, held, crossed>>

ApplyDelta(p, frame) ==
    /\ frame.kind = "delta"
    /\ held' = [held EXCEPT ![p] = frame.rows]
    /\ LET oldest == IF frame.rows = <<>> THEN 1 ELSE Head(frame.rows)
       IN  paging' = [paging EXCEPT ![p] = [hasMore |-> oldest > 1, loading |-> FALSE, oldest |-> oldest]]
    /\ crossed' = crossed \ {p}

ApplyPage(p, frame) ==
    /\ frame.kind = "page"
    /\ held' = [held EXCEPT ![p] = Prepended(@, frame.rows)]
    /\ paging' = [paging EXCEPT ![p] = [hasMore |-> frame.hasMore, loading |-> FALSE,
                                        oldest |-> Min({paging[p].oldest} \cup ToSet(frame.rows))]]
    /\ crossed' = IF frame.asker = p THEN crossed ELSE crossed \cup {p}

Receive(p) ==
    /\ queue[p] # <<>>
    /\ queue' = [queue EXCEPT ![p] = Tail(@)]
    /\ ApplyDelta(p, Head(queue[p])) \/ ApplyPage(p, Head(queue[p]))
    /\ UNCHANGED <<rows, conn, asked, connects>>

\* loadOlderMessages
Scroll(p) ==
    /\ conn[p] /\ paging[p] # Unseeded
    /\ ~paging[p].loading /\ paging[p].hasMore
    /\ IF paging[p].oldest <= 1
       THEN paging' = [paging EXCEPT ![p].hasMore = FALSE] /\ UNCHANGED asked
       ELSE /\ paging' = [paging EXCEPT ![p].loading = TRUE]
            /\ asked' = [asked EXCEPT ![p] = Append(@, paging[p].oldest)]
    /\ UNCHANGED <<rows, conn, queue, held, crossed, connects>>

\* handle_command, FetchMessages: the page goes to every phone that is subscribed.
Serve(p) ==
    /\ asked[p] # <<>>
    /\ asked' = [asked EXCEPT ![p] = Tail(@)]
    /\ queue' = [q \in Phones |-> IF conn[q] THEN Append(queue[q], PageFrame(p, Head(asked[p]))) ELSE queue[q]]
    /\ UNCHANGED <<rows, conn, held, paging, crossed, connects>>

\* The connection ends: what is on its way is lost, what is shown stays.
Disconnect(p) ==
    /\ conn[p]
    /\ conn' = [conn EXCEPT ![p] = FALSE]
    /\ queue' = [queue EXCEPT ![p] = <<>>]
    /\ asked' = [asked EXCEPT ![p] = <<>>]
    /\ paging' = [paging EXCEPT ![p] = Unseeded]
    /\ UNCHANGED <<rows, held, crossed, connects>>

Next ==
    \/ \E size \in Sizes : SaveRow(size)
    \/ \E p \in Phones : Connect(p) \/ Receive(p) \/ Scroll(p) \/ Serve(p) \/ Disconnect(p)

Spec == Init /\ [][Next]_vars

-----------------------------------------------------------------------------
\* What a phone shows is a stretch of the history without a hole or a repetition,
\* however small the frames are, and it says that there is no more only when it
\* shows the first row (message_page_frame, loadOlderMessages). A phone that was
\* sent the page of another phone is excepted: the hub sends it to all.
HistoryHasNoHole ==
    \A p \in Phones \ crossed :
        /\ held[p] # <<>> => held[p] = Stretch(Head(held[p]), Last(held[p]))
        /\ paging[p] # Unseeded /\ ~paging[p].hasMore /\ held[p] # <<>> => Head(held[p]) = 1
=============================================================================
