----------------------------- MODULE ActivityLog -----------------------------
(***************************************************************************)
(* The durable activity of Codex: the table codex_events, its retention    *)
(* and the pages read from it (src-tauri/src/db.rs).  A row is a record    *)
(* with its sequence, session, thread, kind and encoded bytes.             *)
(***************************************************************************)
EXTENDS Naturals, FiniteSets, FiniteSetsExt

CONSTANTS
    ThreadLimits, SessionLimits, GlobalLimits   \* [rows, bytes] that may be kept of a thread, of a session, of all

LimitsAssumption ==
    \A limits \in {ThreadLimits, SessionLimits, GlobalLimits} : limits \in [rows : Nat, bytes : Nat]
ASSUME LimitsAssumption

NoCursor == 0

\* The methods that prove how something ended, which go last.
TerminalKinds == {"turn/completed", "item/completed", "thread/closed", "serverRequest/resolved"}
IsTerminal(e) == e.kind \in TerminalKinds

\* Mutant: the oldest rows go first, whatever they say.
OldestFirst(d, e) == d.seq < e.seq

\* ORDER BY (terminal) ASC, sequence ASC: the row to delete first comes first.
GoesBefore(d, e) ==
    \/ ~IsTerminal(d) /\ IsTerminal(e)
    \/ (IsTerminal(d) <=> IsTerminal(e)) /\ d.seq < e.seq

From(e, events) == {d \in events : ~GoesBefore(d, e)}
BytesOf(events) == MapThenSumSet(LAMBDA e : e.bytes, events)

\* prune_codex_activity_scope: the rows in excess go, then rows until the rest
\* has few enough bytes.
Within(events, limits) ==
    LET counted == {e \in events : Cardinality(From(e, events)) <= limits.rows}
    IN  {e \in counted : BytesOf(From(e, counted)) <= limits.bytes}
Pruned(events, scope, limits) == (events \ scope) \cup Within(scope, limits)

OfThread(e, events) == {d \in events : d.session = e.session /\ d.thread = e.thread}
OfSession(s, events) == {d \in events : d.session = s}

\* Mutant: a session's threads are not counted together.
AppendedByThread(e, events) ==
    LET added == events \cup {e}
        thread == Pruned(added, OfThread(e, added), ThreadLimits)
    IN  Pruned(thread, thread, GlobalLimits)

\* The three scopes in turn, within the transaction that adds e.
Appended(e, events) ==
    LET added == events \cup {e}
        thread == Pruned(added, OfThread(e, added), ThreadLimits)
        session == Pruned(thread, OfSession(e.session, thread), SessionLimits)
    IN  Pruned(session, session, GlobalLimits)

IsCompleted(thread, turn, events) ==
    \E e \in events : e.thread = thread /\ e.turn = turn /\ e.kind = "turn/completed"

\* codex_activity_page: the newest rows below the cursor, one more being read
\* to know whether there are any.
ActivityPage(s, limit, cursor, events) ==
    LET below == {e \in OfSession(s, events) : cursor = NoCursor \/ e.seq < cursor}
        page == {e \in below : Cardinality({d \in below : d.seq >= e.seq}) <= limit}
        more == page # below
    IN  [rows |-> page, cursor |-> IF more THEN Min({e.seq : e \in page}) ELSE NoCursor]

=============================================================================
