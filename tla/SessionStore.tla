---------------------------- MODULE SessionStore ----------------------------
(***************************************************************************)
(* The database of the desktop (src-tauri/src/db.rs) and those who use it: *)
(* the engine that starts turns, appends their activity and restores what  *)
(* Codex remembers (codex_engine.rs), and the commands that select an      *)
(* account, change a model, page through the activity and delete a session *)
(* (lib.rs).  Every call holds the connection's mutex, so it is one step;  *)
(* between the calls of one caller anything may happen, and the process    *)
(* may be killed at any time.  The tables are what survives it.            *)
(*                                                                         *)
(* One session, Chat, has messages, receipts and a row of its own; the     *)
(* activity of Other matters only to what is counted over all sessions.    *)
(***************************************************************************)
EXTENDS ActivityLog, Receipts, Sequences, SequencesExt

CONSTANTS
    Root, Child, Stranger,  \* threads: of Chat, of an agent of Chat, of Other
    Turns,                  \* turns of Root, started in this order
    Callers,                \* commands about the account or the model of Chat
    Models,                 \* the models a caller may ask for
    MaxBytes,               \* a row of activity encodes to at most so much
    PageSize,               \* rows a reader asks for at once
    Scenarios               \* what may happen, see ScenarioAssumption

Chat == "chat"
Other == "other"
Threads == {Root, Child, Stranger}
SessionOf(thread) == IF thread = Stranger THEN Other ELSE Chat
TurnOrder == SetToSeq(Turns)
NoTurn == "none"
Primary == "primary"
NoAccount == "none"
Accounts == {NoAccount, Primary, "legacy"}

\* rows: a bound on the appends that nothing else bounds (activity of the threads
\* in from, of the kinds in kinds; failures; repeated ends); turns and kills: how
\* many there are; may: what else may happen.
ScenarioAssumption ==
    \A s \in Scenarios :
        /\ s.rows \in Nat
        /\ s.from \subseteq Threads
        /\ s.kinds \subseteq TerminalKinds \cup {"progress"}
        /\ s.turns \in 0 .. Cardinality(Turns)
        /\ s.kills \in Nat
        /\ s.may \subseteq {"fail", "read", "select", "delete", "receipts", "lose", "repeat"}
ASSUME ScenarioAssumption

\* There is something to choose from; a page has a row.
StoreAssumption ==
    /\ Root # Child /\ Root # Stranger /\ Child # Stranger
    /\ IsFiniteSet(Turns) /\ NoTurn \notin Turns
    /\ Models # {}
    /\ {MaxBytes, PageSize} \subseteq Nat \ {0}
ASSUME StoreAssumption

VARIABLES
    scenario,
    row,        \* the session's row: exists, model, account, whether a thread is bound
    events,     \* codex_events
    lastSeq,    \* sqlite_sequence of codex_events
    messages,   \* the messages of Chat, in the order of seq
    receipts,   \* turn_receipts
    codex,      \* external: the turns of Root that Codex remembers, and whether it answered
    engine,     \* the turn being started or run, what is left to restore, the turns with a
                \* projection, and those begun since the process started
    callers,    \* what each caller read and where it stands
    reader,     \* where the reader of the activity stands, and what it holds
    deleter,    \* delete_session
    process,    \* how often the process was killed
    appends,    \* rows appended or attempted by now
    shown,      \* the rows announced to the frontend by now: sequence and row
    raced       \* delete_session ran while something of the session was under way

tables == <<row, events, lastSeq, messages, receipts>>
vars == <<scenario, tables, codex, engine, callers, reader, deleter, process, appends, shown, raced>>

May(what) == what \in scenario.may
IdleEngine == [turn |-> NoTurn, at |-> "idle", restore |-> <<>>, resumed |-> FALSE,
               projections |-> {}, mine |-> {}]
IdleReader == [at |-> "idle", cursor |-> NoCursor, top |-> 0, held |-> {}]
IdleCaller == [at |-> "idle", read |-> <<>>, model |-> CHOOSE m \in Models : TRUE]

Init ==
    /\ scenario \in Scenarios
    /\ row \in [exists : {TRUE}, model : {CHOOSE m \in Models : TRUE},
                account : IF "select" \in scenario.may THEN Accounts ELSE {Primary}, bound : {FALSE}]
    /\ events = {} /\ lastSeq = 0 /\ messages = <<>>
    /\ receipts = [t \in Turns |-> NoReceipt]
    /\ codex = <<>>
    /\ engine = IdleEngine
    /\ callers = [c \in Callers |-> IdleCaller]
    /\ reader = IdleReader
    /\ deleter = "idle"
    /\ process = 0 /\ appends = 0 /\ shown = {} /\ raced = FALSE
-----------------------------------------------------------------------------
(* Appending activity: the row, the messages made of it and the pruning    *)
(* are one transaction, announced once it is committed.                    *)

\* AUTOINCREMENT: a sequence is not used again, not even after its row is gone.
NextSeq == lastSeq + 1

NewEvent(thread, kind, turn, bytes) ==
    [seq |-> NextSeq, session |-> SessionOf(thread), thread |-> thread,
     kind |-> kind, turn |-> turn, bytes |-> bytes, id |-> appends + 1]

\* append_codex_activity_with_messages that commits, and its announcement
Commit(e, new) ==
    /\ events' = Appended(e, events)
    /\ lastSeq' = e.seq
    /\ messages' = messages \o new
    /\ shown' = shown \cup {<<e.seq, e.id>>}
    /\ appends' = appends + 1

\* ... and one that fails, and leaves nothing
Rollback ==
    /\ May("fail") /\ appends < scenario.rows
    /\ appends' = appends + 1
    /\ UNCHANGED <<events, lastSeq, messages, shown>>

UserRow(t) == [turn |-> t, role |-> "user"]
AnswerRow(t) == [turn |-> t, role |-> "assistant"]
HasMessages(t) == \E i \in DOMAIN messages : messages[i].turn = t

\* record_raw: activity of a thread that has a route, whatever became of its session
Record(thread, kind, bytes) ==
    /\ appends < scenario.rows
    /\ thread \in scenario.from /\ kind \in scenario.kinds
    /\ Commit(NewEvent(thread, kind, NoTurn, bytes), <<>>) \/ Rollback
    /\ UNCHANGED <<scenario, row, receipts, codex, engine, callers, reader, deleter, process, raced>>
-----------------------------------------------------------------------------
(* A turn of the root thread.                                              *)

Started == Len(codex)
At(here) == engine.at = here

\* The session is taken before anything is read of it.
Reserve ==
    /\ At("idle") /\ Started < scenario.turns
    /\ engine' = [engine EXCEPT !.turn = TurnOrder[Started + 1], !.at = "reserved"]
    /\ UNCHANGED <<scenario, tables, codex, callers, reader, deleter, process, appends, shown, raced>>

Released == [engine EXCEPT !.turn = NoTurn, !.at = "idle", !.restore = <<>>]

\* codex_session_config: a session without a row is refused; a thread that this
\* process has not resumed is resumed, which brings back all its turns.
LoadSession ==
    /\ At("reserved")
    /\ engine' = IF ~row.exists THEN Released
                 ELSE IF ~row.bound THEN [engine EXCEPT !.at = "binding"]
                 ELSE IF engine.resumed THEN [engine EXCEPT !.at = "ready"]
                 ELSE [engine EXCEPT !.at = "restoring", !.restore = codex]
    /\ UNCHANGED <<scenario, tables, codex, callers, reader, deleter, process, appends, shown, raced>>

\* bind_codex_thread, after thread/start: a deleted session has no row to bind
BindThread ==
    /\ At("binding")
    /\ row' = [row EXCEPT !.bound = row.exists]
    /\ engine' = IF row.exists THEN [engine EXCEPT !.at = "ready", !.resumed = TRUE] ELSE Released
    /\ UNCHANGED <<scenario, events, lastSeq, messages, receipts, codex, callers, reader, deleter,
                   process, appends, shown, raced>>

\* Mutant: nothing is restored to a transcript that has anything.
AnyMessages(t) == messages # <<>>

\* reconcile_resumed_thread skips the turns the transcript knows anything of ...
IsRestored(t) == HasMessages(t)

RowsOf(t) == <<UserRow(t.turn)>> \o (IF t.answered THEN <<AnswerRow(t.turn)>> ELSE <<>>)

\* ... and writes each of the others in one transaction of its own.
RestoreTurn ==
    LET t == Head(engine.restore)
    IN  /\ At("restoring") /\ engine.restore # <<>>
        /\ \/ /\ IsRestored(t.turn)
              /\ engine' = [engine EXCEPT !.restore = Tail(@)]
              /\ UNCHANGED <<events, lastSeq, messages, appends, shown>>
           \/ /\ ~IsRestored(t.turn)
              /\ \/ /\ Commit(NewEvent(Root, "thread/resume/history", t.turn, 1), RowsOf(t))
                    /\ engine' = [engine EXCEPT !.restore = Tail(@)]
                 \/ Rollback /\ engine' = Released
        /\ UNCHANGED <<scenario, row, receipts, codex, callers, reader, deleter, process, raced>>

RestoreEnds ==
    /\ At("restoring") /\ engine.restore = <<>>
    /\ engine' = [engine EXCEPT !.at = "ready", !.resumed = TRUE]
    /\ UNCHANGED <<scenario, tables, codex, callers, reader, deleter, process, appends, shown, raced>>

\* turn/start is answered: Codex has the turn from now on.
CodexStarts ==
    /\ At("ready")
    /\ codex' = Append(codex, [turn |-> engine.turn, answered |-> FALSE])
    /\ engine' = [engine EXCEPT !.at = "started"]
    /\ UNCHANGED <<scenario, tables, callers, reader, deleter, process, appends, shown, raced>>

\* activate_pending_turn: the user's row is written without a look at the session.
Activate ==
    LET t == engine.turn
    IN  /\ At("started")
        /\ \/ /\ messages' = Append(messages, UserRow(t))
              /\ engine' = [engine EXCEPT !.at = "running", !.projections = @ \cup {t},
                                          !.mine = @ \cup {t}]
           \/ /\ May("fail") /\ engine' = Released
              /\ UNCHANGED messages
        /\ UNCHANGED <<scenario, row, events, lastSeq, receipts, codex, callers, reader, deleter,
                       process, appends, shown, raced>>

\* External: the turn Codex works at comes to an answer, whether Portcode follows or not.
CodexAnswers ==
    LET last == Len(codex)
    IN  /\ engine.resumed /\ codex # <<>> /\ ~codex[last].answered
        /\ codex' = [codex EXCEPT ![last].answered = TRUE]
        /\ UNCHANGED <<scenario, tables, engine, callers, reader, deleter, process, appends, shown, raced>>

AnswerOf(i) ==
    IF codex[i].turn \in engine.projections /\ codex[i].answered
    THEN <<AnswerRow(codex[i].turn)>> ELSE <<>>

\* Mutant: it stays for what may still come.
ProjectionStays(t) == engine.projections

\* The projection goes once its message is stored.
ProjectionGoes(t) == engine.projections \ {t}

EngineAfter(t, kept) == [IF engine.turn = t THEN Released ELSE engine EXCEPT !.projections = kept]

\* complete_turn for the root thread: the end of a turn, also one announced twice,
\* is ignored while the activity knows it; the message and the record of the end
\* are one transaction; when it fails, a record of the failure takes its place and
\* the projection is kept; when that fails too, nothing happens.
Terminal(i) ==
    LET t == codex[i].turn
    IN  /\ engine.resumed
        /\ \/ t = engine.turn /\ At("running")
           \/ May("repeat") /\ t \in engine.mine /\ appends < scenario.rows
        /\ ~IsCompleted(Root, t, events)
        /\ \/ /\ Commit(NewEvent(Root, "turn/completed", t, 1), AnswerOf(i))
              /\ engine' = EngineAfter(t, ProjectionGoes(t))
           \/ /\ May("fail")
              /\ Commit(NewEvent(Root, "portcode/codexBridge/terminalPersistenceFailed", t, 1), <<>>)
              /\ engine' = EngineAfter(t, engine.projections)
           \/ Rollback /\ UNCHANGED engine
        /\ UNCHANGED <<scenario, row, receipts, codex, callers, reader, deleter, process, raced>>

\* The app-server is lost: its turn is released, its projections are those of
\* another generation, and the thread has to be resumed.
ServerLost ==
    /\ May("lose") /\ engine.resumed
    /\ engine' = [Released EXCEPT !.resumed = FALSE, !.projections = {}]
    /\ UNCHANGED <<scenario, tables, codex, callers, reader, deleter, process, appends, shown, raced>>
-----------------------------------------------------------------------------
(* Receipts: any write of a turn of this process may come at any time, late *)
(* or again; one that finds the connection taken is a step that never comes. *)

Outcome(t) ==
    IF \E i \in DOMAIN codex : codex[i].turn = t /\ codex[i].answered THEN "completed" ELSE "interrupted"

WriteReceipt(t, state) ==
    LET status == IF state = "pending" THEN "interrupted" ELSE Outcome(t)
    IN  /\ May("receipts") /\ t \in engine.mine
        /\ state # "pending" => engine.turn # t
        /\ receipts' = [receipts EXCEPT ![t] = Written(@, NewReceipt(state, status, Len(messages)))]
        /\ receipts' # receipts
        /\ UNCHANGED <<scenario, row, events, lastSeq, messages, codex, engine, callers, reader,
                       deleter, process, appends, shown, raced>>

\* The process is killed and started again: the tables stay, and Db::open closes
\* the receipts that were left open.
Kill ==
    /\ process < scenario.kills
    /\ process' = process + 1
    /\ receipts' = [t \in Turns |-> Recovered(receipts[t])]
    /\ engine' = IdleEngine
    /\ callers' = [c \in Callers |-> IdleCaller]
    /\ reader' = IdleReader
    /\ deleter' = "idle"
    /\ UNCHANGED <<scenario, row, events, lastSeq, messages, codex, appends, shown, raced>>
-----------------------------------------------------------------------------
(* Commands of the frontend.                                               *)

HasStarted == messages # <<>> \/ \E t \in Turns : receipts[t] # NoReceipt

Config == [model |-> row.model, account |-> row.account]
CallerMoves(c, entry) ==
    /\ callers' = [callers EXCEPT ![c] = entry]
    /\ UNCHANGED <<scenario, events, lastSeq, messages, receipts, codex, engine, reader, deleter,
                   process, appends, shown, raced>>

\* session_run_config: update_session_model and pin_session_openai_account read
\* first and check what they read.
ReadConfig(c, model, purpose) ==
    /\ May("select") /\ callers[c].at = "idle" /\ row.exists
    /\ purpose = "update" => row.account \in {NoAccount, Primary}
    /\ CallerMoves(c, [at |-> purpose, read |-> Config, model |-> model])
    /\ UNCHANGED row

CallerDone(c) == CallerMoves(c, [callers[c] EXCEPT !.at = "done"])

\* compare_and_set_session_model
UpdateModel(c) ==
    /\ callers[c].at = "update"
    /\ row' = IF row.exists /\ Config = callers[c].read THEN [row EXCEPT !.model = callers[c].model] ELSE row
    /\ CallerDone(c)

\* select_session_openai_account_if_config: refused when the session changed since
\* it was read, and when it has an account and has started.
SelectAccount(c) ==
    /\ callers[c].at = "select"
    /\ row' = IF row.exists /\ Config = callers[c].read /\ ~(HasStarted /\ row.account # NoAccount)
              THEN [row EXCEPT !.account = Primary, !.model = callers[c].model] ELSE row
    /\ CallerDone(c)

\* get_codex_activity, page after page
ReadPage ==
    LET page == ActivityPage(Chat, PageSize, reader.cursor, events)
        seqs == {e.seq : e \in page.rows}
    IN  /\ May("read") /\ reader.at # "done"
        /\ reader' = [at |-> IF page.cursor = NoCursor THEN "done" ELSE "walking",
                      cursor |-> page.cursor,
                      top |-> IF reader.at = "idle" THEN lastSeq ELSE reader.top,
                      held |-> reader.held \cup seqs]
        /\ UNCHANGED <<scenario, tables, codex, engine, callers, deleter, process, appends, shown, raced>>

\* delete_session asks the engine first ...
CheckInactive ==
    /\ May("delete") /\ deleter = "idle" /\ At("idle")
    /\ deleter' = "checked"
    /\ UNCHANGED <<scenario, tables, codex, engine, callers, reader, process, appends, shown, raced>>

\* Mutant: the row goes first.
RowFirst == <<"sessions", "messages", "turn_receipts", "drafts", "usage", "codex_events">>

\* ... and runs its statements one after the other, each its own transaction: an
\* error or the end of the process leaves the first n of them done.
Statements == <<"messages", "turn_receipts", "drafts", "usage", "codex_events", "sessions">>

DeleteRuns ==
    /\ deleter = "checked"
    /\ \E n \in IF May("fail") THEN 0 .. Len(Statements) ELSE {Len(Statements)} :
          LET gone == Range(SubSeq(Statements, 1, n))
          IN  /\ messages' = IF "messages" \in gone THEN <<>> ELSE messages
              /\ receipts' = IF "turn_receipts" \in gone THEN [t \in Turns |-> NoReceipt] ELSE receipts
              /\ events' = IF "codex_events" \in gone THEN events \ OfSession(Chat, events) ELSE events
              /\ row' = [row EXCEPT !.exists = @ /\ "sessions" \notin gone]
              /\ deleter' = IF n < Len(Statements) THEN "idle" ELSE "done"
    /\ raced' = (raced \/ ~At("idle"))
    /\ UNCHANGED <<scenario, lastSeq, codex, engine, callers, reader, process, appends, shown>>
-----------------------------------------------------------------------------
\* Everything that may happen has; what may still be read or written is optional.
Finished ==
    /\ At("idle") /\ Started = scenario.turns
    /\ UNCHANGED vars

Next ==
    \/ \E thread \in Threads, kind \in TerminalKinds \cup {"progress"}, bytes \in 1 .. MaxBytes :
          Record(thread, kind, bytes)
    \/ Reserve \/ LoadSession \/ BindThread \/ RestoreTurn \/ RestoreEnds
    \/ CodexStarts \/ Activate \/ CodexAnswers \/ ServerLost \/ Kill
    \/ \E i \in DOMAIN codex : Terminal(i)
    \/ \E t \in Turns, state \in ReceiptStates : WriteReceipt(t, state)
    \/ \E c \in Callers, model \in Models, purpose \in {"update", "select"} : ReadConfig(c, model, purpose)
    \/ \E c \in Callers : UpdateModel(c) \/ SelectAccount(c)
    \/ ReadPage \/ CheckInactive \/ DeleteRuns
    \/ Finished

Spec == Init /\ [][Next]_vars
-----------------------------------------------------------------------------
\* The variables hold what their comments say.
TypeOK ==
    /\ row \in [exists : BOOLEAN, model : Models, account : Accounts, bound : BOOLEAN]
    /\ \A e \in events : e.seq \in 1 .. lastSeq /\ e.thread \in Threads /\ e.bytes \in 1 .. MaxBytes
    /\ \A i \in DOMAIN messages : messages[i].turn \in Turns /\ messages[i].role \in {"user", "assistant"}
    /\ \A t \in Turns : receipts[t] = NoReceipt
                       \/ /\ receipts[t].state \in ReceiptStates /\ receipts[t].status \in Statuses
                          /\ receipts[t].anchor \in 0 .. 2 * Cardinality(Turns)
    /\ engine.projections \subseteq engine.mine /\ engine.mine \subseteq Turns

\* After every call the activity is within its bounds: those of each thread, of
\* each session and of the whole table (db.rs:28-36).
RetentionHolds ==
    LET Fits(rows, limits) == Cardinality(rows) <= limits.rows /\ BytesOf(rows) <= limits.bytes
    IN  /\ Fits(events, GlobalLimits)
        /\ \A e \in events : /\ Fits(OfThread(e, events), ThreadLimits)
                             /\ Fits(OfSession(e.session, events), SessionLimits)

\* "Pruning always removes the oldest non-terminal evidence before terminal
\* truth" (db.rs:32): when the proof that something ended is pruned, nothing but
\* such proof is left of the thread, of the session or of the whole table.
TerminalsOutlive ==
    [][\A e \in events \ events' :
          (IsTerminal(e) /\ appends' # appends) =>
             \E rest \in {OfThread(e, events'), OfSession(e.session, events'), events'} :
                \A d \in rest : IsTerminal(d)]_vars

\* The sequence a row was announced under names that row for ever, across failed
\* transactions, pruning and restarts: the frontend merges live rows and pages by it.
SequenceNamesOneRow ==
    \A a, b \in shown \cup {<<e.seq, e.id>> : e \in events} : a[1] = b[1] => a[2] = b[2]

\* A reader that walked from the newest page down holds every stored row between
\* its first page and where it stands, whatever was appended or pruned meanwhile.
PagesHaveNoHole ==
    reader.at # "idle" =>
        \A e \in OfSession(Chat, events) : e.seq \in reader.cursor .. reader.top => e.seq \in reader.held

\* A turn is in the transcript once: one row of the user and at most one answer,
\* though its end is announced twice, its message fails at first, and what Codex
\* remembers is restored in part, interrupted and restored again.
TurnsAppearOnce ==
    \A i, j \in DOMAIN messages : messages[i] = messages[j] => i = j

\* When a thread has been resumed, the transcript has every turn that Codex
\* remembers, though an earlier attempt was cut off or failed in the middle.  (A
\* turn whose own row was written before its process died keeps no more than that
\* row, see README; a deletion that runs meanwhile may take the rows again.)
HistoryIsRestored ==
    [][(At("restoring") /\ engine'.at = "ready" /\ ~raced) =>
          \A i \in DOMAIN codex : HasMessages(codex[i].turn)]_engine

\* "Once started, the persisted account remains immutable" (db.rs:371-373): no
\* command moves a session that has an account and a message to another one.
AccountStays ==
    [][(row.exists /\ row.account # NoAccount /\ messages # <<>>) => row'.account = row.account]_row

\* A receipt only advances: what a late or repeated write says never replaces the
\* outcome that is known, nor anything the terminal one; its place stays the same.
ReceiptsOnlyAdvance ==
    [][\A t \in Turns :
          (receipts[t] # NoReceipt /\ receipts'[t] # NoReceipt /\ receipts'[t] # receipts[t]) =>
             /\ receipts[t].state # "terminal"
             /\ receipts[t].state = "known" => receipts'[t].state # "pending"
             /\ receipts'[t].anchor = receipts[t].anchor]_receipts

\* A turn whose answer was known when the process died is not called interrupted
\* after the restart; and no receipt is left open by a process that is gone.
RestartClosesReceipts ==
    [][process' # process =>
          \A t \in Turns : receipts[t] # NoReceipt =>
             /\ IsVisible(receipts'[t])
             /\ receipts[t].state # "pending" => receipts'[t].status = receipts[t].status]_process

\* An end that comes again, or a receipt, may be written when its turn is over.
WritesLate == May("repeat") \/ May("receipts")

\* Where nothing is written late, nothing of a deleted session is left, though the
\* deletion was cut off and repeated: the row by which the user would delete it goes
\* last.  (raced: a turn that began between the check and the statements writes on,
\* see README.)
DeletedIsGone ==
    (~row.exists /\ ~raced /\ ~WritesLate) =>
        /\ messages = <<>>
        /\ \A t \in Turns : receipts[t] = NoReceipt
        /\ \A e \in events : e.session = Chat => e.thread = Child

\* Whatever is written late: the row of a session goes only when nothing of it is
\* left, however often its deletion was cut off, and a session without one is neither
\* begun again nor restored, unless a turn of it was under way (raced); what may still
\* come is the answer of a turn that is over (delete_session, codex_session_config).
DeletionIsWhole ==
    [][/\ row.exists /\ ~row'.exists =>
             /\ messages' = <<>> /\ OfSession(Chat, events') = {}
             /\ \A t \in Turns : receipts'[t] = NoReceipt
       /\ ~row.exists /\ ~raced =>
             /\ Len(codex') = Len(codex)
             /\ \A i \in DOMAIN messages' : messages'[i].role = "user" =>
                   \E j \in DOMAIN messages : messages[j] = messages'[i]]_vars

\* What the store holds of activity: within its bounds, under sequences that name one
\* row each, read by pages without a hole.
ActivityIsSound == TypeOK /\ RetentionHolds /\ SequenceNamesOneRow /\ PagesHaveNoHole

\* What it holds of a session's turns: each once, and nothing of a deleted one.
TranscriptIsSound == TurnsAppearOnce /\ DeletedIsGone

\* The account of a session, the proof that something ended and the outcome of a
\* turn are not lost to what comes later, a restart included.
FactsStay == AccountStays /\ TerminalsOutlive /\ ReceiptsOnlyAdvance /\ RestartClosesReceipts
=============================================================================
