----------------------------- MODULE Projection -----------------------------
(***************************************************************************)
(* What the answer of a root turn becomes (src-tauri/src/codex_engine.rs): *)
(* the events of its items are recorded one by one, folded into the turn's *)
(* projection and streamed to the conversation; the end of the turn saves  *)
(* the projection as a message, in one transaction with its record.        *)
(* Writes may fail, the terminal may come again, the watchdog of an        *)
(* interrupt may end the turn first, the process may be lost.              *)
(*                                                                         *)
(* An item is a text or a tool.  A text is the sequence of its pieces; the *)
(* final text of an item need not be what was streamed of it.              *)
(***************************************************************************)
EXTENDS Naturals, Sequences, SequencesExt, FiniteSets, FiniteSetsExt, Functions

CONSTANTS
    Turns,          \* the turns of a conversation, by their order
    Conversations,  \* what Codex says in each turn before the terminal
    MaxRetained,    \* MAX_RETAINED_FAILED_ROOT_PROJECTIONS_PER_GENERATION
    MaxFailures,    \* bound on the writes that fail
    MaxRepeats      \* bound on the terminals that come again

VARIABLES
    script,     \* what Codex says in each turn
    said,       \* how much of it, and of the terminal after it, it has said
    current,    \* active_by_session and active_by_thread: the turn, or 0
    turns,      \* the projections
    failed,     \* failed_root_retention_order
    billed,     \* usage_by_turn
    usage,      \* what add_usage added for a turn
    heard,      \* the events of a turn that were recorded
    record,     \* what the activity log has of the end: "none", "failed", "watchdog", "completed"
    saved,      \* the assistant message of a turn, or NoMessage
    captured,   \* what the watchdog of an interrupt will save, or NoMessage
    view,       \* the bubble of a turn in a window that follows the events
    shown,      \* how the window saw the turn end
    failures, repeats

vars == <<script, said, current, turns, failed, billed, usage, heard, record, saved, captured,
          view, shown, failures, repeats>>

NoMessage == <<[kind |-> "nothing", item |-> 0, text |-> <<>>]>>

Delta(i, piece) == [kind |-> "delta", item |-> i, text |-> <<piece>>]
Finished(i, text) == [kind |-> "text", item |-> i, text |-> text]
Started(i) == [kind |-> "started", item |-> i, text |-> <<>>]
Ended(i) == [kind |-> "tool", item |-> i, text |-> <<>>]
Tokens(n) == [kind |-> "usage", item |-> n, text |-> <<>>]

\* Blocks, as they are stored and as a window keeps them
Text(t) == [kind |-> "text", item |-> 0, text |-> t]
Use(i) == [kind |-> "use", item |-> i, text |-> <<>>]
Result(i) == [kind |-> "result", item |-> i, text |-> <<>>]

-----------------------------------------------------------------------------
(* TurnProjection *)
NoProjection == [order |-> <<>>, items |-> <<>>, snapshot |-> NoMessage]
Absent == [NoProjection EXCEPT !.order = <<0>>]
TextItem(t) == [kind |-> "text", text |-> t, done |-> FALSE]
Tool(done) == [kind |-> "tool", text |-> <<>>, done |-> done]

Has(p, i) == i \in Range(p.order)
Put(p, i, item) ==
    [order |-> IF Has(p, i) THEN p.order ELSE Append(p.order, i),
     items |-> [j \in Range(p.order) \cup {i} |-> IF j = i THEN item ELSE p.items[j]],
     snapshot |-> p.snapshot]

BlocksOf(p, i) ==
    LET item == p.items[i]
    IN  IF item.kind = "text" THEN (IF item.text = <<>> THEN <<>> ELSE <<Text(item.text)>>)
        ELSE IF item.done THEN <<Use(i), Result(i)>> ELSE <<Use(i)>>
Blocks(p) == FlattenSeq([n \in DOMAIN p.order |-> BlocksOf(p, p.order[n])])

\* Mutant: a final text is appended to what was streamed of it.
AppendsFinal(p, e) ==
    LET old == IF Has(p, e.item) THEN p.items[e.item].text ELSE <<>>
    IN  Put(p, e.item, TextItem(old \o e.text))
PutFinal(p, e) == Put(p, e.item, TextItem(e.text))

Project(p, e) ==
    CASE e.kind = "delta" ->
           IF ~Has(p, e.item) THEN Put(p, e.item, TextItem(e.text))
           ELSE IF p.items[e.item].kind = "text" THEN Put(p, e.item, TextItem(p.items[e.item].text \o e.text))
           ELSE p
      [] e.kind = "text" -> LET q == PutFinal(p, e) IN [q EXCEPT !.snapshot = Blocks(q)]
      [] e.kind = "started" -> IF Has(p, e.item) THEN p ELSE Put(p, e.item, Tool(FALSE))
      [] e.kind = "tool" -> Put(p, e.item, Tool(TRUE))
      [] e.kind = "usage" -> p

\* What the window is told meanwhile; text goes to the block it is writing.
AddText(blocks, t) ==
    IF blocks # <<>> /\ Last(blocks).kind = "text"
    THEN Append(Front(blocks), Text(Last(blocks).text \o t)) ELSE Append(blocks, Text(t))

Stream(blocks, p, e) ==
    CASE e.kind = "delta" -> AddText(blocks, e.text)
      [] e.kind = "started" /\ ~Has(p, e.item) -> Append(blocks, Use(e.item))
      [] e.kind = "tool" -> (IF Has(p, e.item) THEN blocks ELSE Append(blocks, Use(e.item))) \o <<Result(e.item)>>
      [] OTHER -> blocks

-----------------------------------------------------------------------------
Init ==
    /\ script \in Conversations
    /\ said = [t \in Turns |-> 0]
    /\ current = 0
    /\ turns = [t \in Turns |-> Absent]
    /\ failed = <<>>
    /\ billed = [t \in Turns |-> 0] /\ usage = [t \in Turns |-> 0]
    /\ heard = [t \in Turns |-> <<>>]
    /\ record = [t \in Turns |-> "none"]
    /\ saved = [t \in Turns |-> NoMessage] /\ captured = [t \in Turns |-> NoMessage]
    /\ view = [t \in Turns |-> NoMessage]
    /\ shown = [t \in Turns |-> "none"]
    /\ failures = 0 /\ repeats = 0

Tracked(t) == turns[t] # Absent
Fail == failures < MaxFailures /\ failures' = failures + 1

\* activate_pending_turn
StartTurn(t) ==
    /\ current = 0 /\ shown[t] = "none" /\ \A u \in Turns : u < t => shown[u] # "none"
    /\ current' = t
    /\ turns' = [turns EXCEPT ![t] = NoProjection]
    /\ view' = [view EXCEPT ![t] = <<>>]
    /\ shown' = [shown EXCEPT ![t] = "running"]
    /\ UNCHANGED <<script, said, failed, billed, usage, heard, record, saved, captured, failures, repeats>>

\* handle_notification: what is not recorded is not shown either.
Begun(t) == shown[t] # "none"
Say(t) ==
    /\ Begun(t) /\ said[t] < Len(script[t])
    /\ said' = [said EXCEPT ![t] = @ + 1]

Lose(t) ==
    /\ Say(t) /\ Fail
    /\ UNCHANGED <<script, current, turns, failed, billed, usage, heard, record, saved, captured, view, shown, repeats>>

UsageDelta(t, n) == IF n > billed[t] THEN n - billed[t] ELSE 0

Hear(t) ==
    /\ Say(t)
    /\ LET e == script[t][said[t] + 1]
       IN  /\ heard' = [heard EXCEPT ![t] = Append(@, e)]
           /\ IF ~Tracked(t) THEN UNCHANGED <<turns, view, billed, usage>>
              ELSE /\ turns' = [turns EXCEPT ![t] = Project(@, e)]
                   /\ view' = [view EXCEPT ![t] = Stream(@, turns[t], e)]
                   /\ IF e.kind # "usage" THEN UNCHANGED <<billed, usage>>
                      ELSE /\ usage' = [usage EXCEPT ![t] = @ + UsageDelta(t, e.item)]
                           /\ billed' = [billed EXCEPT ![t] = Max({@, e.item})]
    /\ UNCHANGED <<script, current, failed, record, saved, captured, shown, failures, repeats>>

-----------------------------------------------------------------------------
(* complete_turn, for the terminal or for one that comes again *)
Terminal(t) ==
    /\ Begun(t)
    /\ \/ said[t] = Len(script[t]) /\ UNCHANGED repeats
       \/ said[t] > Len(script[t]) /\ repeats < MaxRepeats /\ repeats' = repeats + 1
    /\ said' = [said EXCEPT ![t] = Len(script[t]) + 1]
    /\ billed' = [billed EXCEPT ![t] = IF record[t] = "completed" THEN @ ELSE 0]

Leave(t, how) ==
    IF current = t THEN current' = 0 /\ shown' = [shown EXCEPT ![t] = how] ELSE UNCHANGED <<current, shown>>

\* codex_turn_completed
TerminalAgain(t) ==
    /\ Terminal(t) /\ record[t] = "completed"
    /\ UNCHANGED <<script, current, turns, failed, usage, heard, record, saved, captured, view, shown, failures>>

Message(t) == IF Tracked(t) THEN Blocks(turns[t]) ELSE <<>>

\* retain: a turn is in the list once
Without(list, t) ==
    IF t \in Range(list) THEN RemoveAt(list, CHOOSE n \in DOMAIN list : list[n] = t) ELSE list

\* append_codex_activity_with_messages: the message and the record, or neither
Complete(t) ==
    /\ Terminal(t) /\ record[t] # "completed"
    /\ record' = [record EXCEPT ![t] = "completed"]
    /\ saved' = [saved EXCEPT ![t] = IF Message(t) = <<>> THEN @ ELSE Message(t)]
    /\ view' = [view EXCEPT ![t] = IF turns[t].snapshot = NoMessage THEN @ ELSE turns[t].snapshot]
    /\ turns' = [turns EXCEPT ![t] = Absent]
    /\ failed' = Without(failed, t)
    /\ Leave(t, "ended")
    /\ UNCHANGED <<script, usage, heard, captured, failures>>

\* retain_failed_root_projection: the last few that could not be saved are kept.
Evicted(list) == IF Len(list) > MaxRetained THEN {u \in {Head(list)} : u # current} ELSE {}

CompleteUnsaved(t) ==
    /\ Terminal(t) /\ record[t] # "completed" /\ Fail
    /\ record' = [record EXCEPT ![t] = IF @ = "none" THEN "failed" ELSE @]
    /\ LET list == IF ~Tracked(t) \/ t \in Range(failed) THEN failed ELSE Append(failed, t)
       IN  /\ turns' = [u \in Turns |-> IF u \in Evicted(list) THEN Absent ELSE turns[u]]
           /\ failed' = IF Len(list) > MaxRetained THEN Tail(list) ELSE list
    /\ Leave(t, "failed")
    /\ UNCHANGED <<script, usage, heard, saved, captured, view>>

\* The record of the failure cannot be saved either: nothing happens, and the
\* session keeps the turn.
TerminalDropped(t) ==
    /\ Terminal(t) /\ record[t] # "completed" /\ Fail
    /\ UNCHANGED <<script, current, turns, failed, usage, heard, record, saved, captured, view, shown>>

\* handle_interrupt_watchdog: the projection is copied before the lifecycle is locked.
WatchdogCopies(t) ==
    /\ current = t /\ captured[t] = NoMessage
    /\ captured' = [captured EXCEPT ![t] = Message(t)]
    /\ UNCHANGED <<script, said, current, turns, failed, billed, usage, heard, record, saved, view, shown, failures, repeats>>

WatchdogSaves(t) ==
    /\ captured[t] # NoMessage /\ current = t
    /\ record' = [record EXCEPT ![t] = "watchdog"]
    /\ saved' = [saved EXCEPT ![t] = IF captured[t] = <<>> THEN @ ELSE captured[t]]
    /\ turns' = [turns EXCEPT ![t] = Absent]
    /\ Leave(t, "ended")
    /\ UNCHANGED <<script, said, failed, billed, usage, heard, captured, view, failures, repeats>>

\* handle_transport_closed: what was not saved is gone.
ProcessLost ==
    /\ \E t \in Turns : Tracked(t)
    /\ turns' = [t \in Turns |-> Absent]
    /\ failed' = <<>> /\ current' = 0
    /\ billed' = [t \in Turns |-> 0]
    /\ shown' = [t \in Turns |-> IF t = current THEN "lost" ELSE shown[t]]
    /\ said' = [t \in Turns |-> IF Begun(t) THEN Len(script[t]) + 1 ELSE said[t]]
    /\ repeats' = MaxRepeats
    /\ UNCHANGED <<script, usage, heard, record, saved, captured, view, failures>>

Next ==
    \/ \E t \in Turns :
         \/ StartTurn(t) \/ Hear(t) \/ Lose(t) \/ TerminalAgain(t) \/ Complete(t) \/ CompleteUnsaved(t)
         \/ TerminalDropped(t) \/ WatchdogCopies(t) \/ WatchdogSaves(t)
    \/ ProcessLost

Spec == Init /\ [][Next]_vars

-----------------------------------------------------------------------------
\* The answer that the recorded events of a turn amount to: its items, by their
\* first mention
IsFirst(events, n) ==
    /\ events[n].kind # "usage"
    /\ \A m \in 1 .. n - 1 : events[m].kind # "usage" => events[m].item # events[n].item
Mentions(events) ==
    FlattenSeq([n \in DOMAIN events |-> IF IsFirst(events, n) THEN <<events[n].item>> ELSE <<>>])

\* The final words of a text, or what was streamed of it
Of(events, i, kind) == {n \in DOMAIN events : events[n].item = i /\ events[n].kind = kind}
Streamed(events, i) ==
    FlattenSeq([n \in DOMAIN events |-> IF n \in Of(events, i, "delta") THEN events[n].text ELSE <<>>])
TextOf(events, i) ==
    LET finals == Of(events, i, "text")
    IN  IF finals = {} THEN Streamed(events, i) ELSE events[Max(finals)].text

AnswerOf(events, i) ==
    IF Of(events, i, "tool") # {} THEN <<Use(i), Result(i)>>
    ELSE IF Of(events, i, "started") # {} THEN <<Use(i)>>
    ELSE IF TextOf(events, i) = <<>> THEN <<>> ELSE <<Text(TextOf(events, i))>>
Answer(events) ==
    LET items == Mentions(events) IN FlattenSeq([n \in DOMAIN items |-> AnswerOf(events, items[n])])

\* A recorded terminal has its answer with it, whatever failed before it and
\* however often it came: all that was recorded of the turn, or for a turn the
\* watchdog ended what was recorded when it looked (complete_turn,
\* handle_interrupt_watchdog).
AnswerIsSaved ==
    \A t \in Turns :
        LET whole == Answer(heard[t])
        IN  /\ record[t] = "completed" /\ captured[t] = NoMessage /\ shown[t] # "lost" =>
                 \/ whole = <<>> \/ saved[t] = whole
                 \/ /\ shown[t] = "failed" /\ saved[t] = NoMessage
                    /\ Cardinality({u \in Turns \ {t} : shown[u] = "failed"}) >= MaxRetained
            /\ saved[t] # NoMessage =>
                 \E n \in 0 .. Len(heard[t]) : saved[t] = Answer(SubSeq(heard[t], 1, n))

\* A turn of which the record failed can still be saved by a terminal that comes
\* again: the latest such turns keep their projection, and no more than the limit
\* (retain_failed_root_projection).
FailedIsKept ==
    /\ Len(failed) <= MaxRetained
    /\ \A i \in DOMAIN failed : Tracked(failed[i]) /\ Blocks(turns[failed[i]]) = Answer(heard[failed[i]])
    /\ \A t \in Turns : Tracked(t) => t = current \/ t \in Range(failed)

\* What is charged for a turn is the highest count that was recorded for it, once
\* (project_usage).
UsageCountsOnce ==
    \A t \in Turns :
        LET counts == {0} \cup {e.item : e \in {x \in Range(heard[t]) : x.kind = "usage"}}
        IN  usage[t] <= Max(counts) /\ (Tracked(t) => usage[t] = Max(counts))

\* A window that followed a turn shows what it will read again, though the words
\* that were streamed were not the final ones; it may lack the tools that ended
\* after the last final text (pending_assistant_snapshot).
EndsInText(events) ==
    \E n \in DOMAIN events : events[n].kind = "text" /\ \A m \in n + 1 .. Len(events) : events[m].kind = "usage"

LiveIsReloaded ==
    \A t \in Turns :
        record[t] = "completed" /\ shown[t] = "ended" /\ captured[t] = NoMessage /\ EndsInText(heard[t])
            => view[t] = IF saved[t] = NoMessage THEN <<>> ELSE saved[t]
=============================================================================
