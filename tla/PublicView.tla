----------------------------- MODULE PublicView -----------------------------
(***************************************************************************)
(* What a phone may see of a turn (src-tauri/src/sync/public.rs): every    *)
(* internal event, session and stored message has a public form.  A phone  *)
(* that was there folds the events of the turn into a bubble, one that     *)
(* comes later reads the row of it in a page of the history.               *)
(*                                                                         *)
(* A value is a number and what it is: "plain" is an identifier, a name or *)
(* a text that the desktop gives away, "private" is a credential, a path,  *)
(* or content of a tool or a prompt.  A text is a sequence of values; how  *)
(* it is held back and cut in pieces is PublicStream's.                    *)
(***************************************************************************)
EXTENDS Naturals, Sequences, SequencesExt, FiniteSets, FiniteSetsExt, TLC

CONSTANTS
    Tools,        \* the tools a turn may use; an odd one has private names
    MaxEvents,    \* bound on the events of the turn
    MaxText,      \* MAX_MESSAGE_TEXT_BYTES
    MaxContent,   \* MAX_MESSAGE_CONTENT_BYTES
    MaxBlocks,    \* MAX_MESSAGE_BLOCKS
    MaxSource,    \* MAX_MESSAGE_SOURCE_BLOCKS
    LiveBudget    \* PHONE_LIVE_FRAME_BUDGET, of a snapshot

VARIABLES
    stage,    \* of the turn: "new", "runs", "saved", "over"
    turn,     \* its id
    blocks,   \* the message of the turn that the desktop saves
    open,     \* the tools that run
    count,    \* the events so far
    sent,     \* what the fields of the last frame are
    bubble,   \* what a phone that follows the turn shows
    page      \* the row as a page gives it, or NoPage

vars == <<stage, turn, blocks, open, count, sent, bubble, page>>

-----------------------------------------------------------------------------
(* The conversions of a value *)
Value(n, as) == [n |-> n, as |-> as]
Nothing == Value(0, "fixed")

Convert(rule, v) ==
    CASE rule = "asis" -> v
      [] rule = "id" -> IF v.as = "plain" THEN v ELSE [v EXCEPT !.as = "digest"]
      [] rule = "digest" -> [v EXCEPT !.as = "digest"]
      [] rule = "text" -> IF v.as = "plain" THEN v ELSE Value(0, "redacted")
      [] rule = "label" -> [v EXCEPT !.as = "label"]
      [] rule = "known" -> IF v.as = "plain" THEN v ELSE Value(0, "unknown")
      [] rule = "none" -> Nothing

\* What becomes of the fields of an event (project_event)
TurnRules ==
    [turn_start |-> [message |-> "id", turn |-> "id"],
     text_delta |-> [text |-> "text"],
     tool_use |-> [id |-> "digest", name |-> "known", input |-> "none"],
     tool_result |-> [id |-> "digest", output |-> "none", error |-> "asis"],
     permission_request |-> [id |-> "id", tool |-> "known", summary |-> "text", input |-> "none", diff |-> "none"],
     usage |-> [tokens |-> "asis"],
     error |-> [message |-> "text"]]
AgentRules ==
    [agent_started |-> [id |-> "id", parent |-> "id", turn |-> "id", description |-> "none", model |-> "text"],
     agent_progress |-> [id |-> "id", parent |-> "id", turn |-> "id", step |-> "asis"],
     agent_finished |-> [id |-> "id", turn |-> "id", status |-> "known", result |-> "none", activity |-> "text"],
     task_started |-> [id |-> "id", command |-> "none"],
     task_finished |-> [id |-> "id", command |-> "none", output |-> "none", code |-> "asis"]]
CodexRules == [codex_event |-> [method |-> "id", request |-> "id", thread |-> "id", turn |-> "id", item |-> "id"]]
\* ... of what Codex says of a plan, a diff, a tool, an end; of why it was cut
PayloadRules ==
    [plan |-> [status |-> "known", steps |-> "asis", other |-> "none"],
     diff |-> [lines |-> "asis", files |-> "asis", text |-> "none"],
     tool |-> [item |-> "known", status |-> "known", terminal |-> "asis", other |-> "none"],
     terminal |-> [status |-> "known", other |-> "none"]]
MetadataRules == [metadata |-> [redacted |-> "asis", reasons |-> "known", bytes |-> "asis", other |-> "none"]]
\* ... of a receipt, of a row of the session list
ReceiptRules == [turn_end |-> [reason |-> "known", turn |-> "id", path |-> "label", old_path |-> "label", account |-> "none"]]
SessionRules ==
    [session |-> [id |-> "id", title |-> "text", branch |-> "text", workspace |-> "label", model |-> "text", account |-> "none"]]

Rules == TurnRules @@ AgentRules @@ CodexRules @@ PayloadRules @@ MetadataRules @@ ReceiptRules @@ SessionRules

ProjectEvent(event) == [f \in DOMAIN event.of |-> Convert(Rules[event.type][f], event.of[f])]

-----------------------------------------------------------------------------
(* The message: of its blocks, and of the row *)
TextBlock(text) == [kind |-> "text", of |-> Nothing, text |-> text]
UseBlock(id) == [kind |-> "use", of |-> id, text |-> <<>>]
ResultBlock(id) == [kind |-> "result", of |-> id, text |-> <<>>]
Omitted == TextBlock(<<Value(0, "omitted")>>)

PublicText(text, max) == [i \in 1 .. Min({Len(text), max}) |-> Convert("text", text[i])]

\* project_block
ProjectBlock(block, remaining) ==
    IF block.kind = "text" THEN TextBlock(PublicText(block.text, Min({remaining, MaxText})))
    ELSE [block EXCEPT !.of = Convert("digest", @)]

TextBytes(content) == FoldLeft(LAMBDA sum, block : sum + Len(block.text), 0, content)

\* project_message: how many blocks of the row are shown, and what a page has of it
RECURSIVE Content(_, _)
Content(source, content) ==
    IF source = <<>> THEN content
    ELSE IF Len(blocks) - Len(source) >= MaxSource \/ Len(content) >= MaxBlocks \/ TextBytes(content) >= MaxContent
    THEN IF Len(content) < MaxBlocks THEN Append(content, Omitted) ELSE content
    ELSE Content(Tail(source), Append(content, ProjectBlock(Head(source), MaxContent - TextBytes(content))))

ProjectMessage == [turn |-> Convert("id", turn), content |-> Content(blocks, <<>>)]
NoPage == [turn |-> Nothing, content |-> <<>>]
NoBubble == [turn |-> Nothing, content |-> <<>>, stale |-> FALSE]

-----------------------------------------------------------------------------
(* The bubble of the phone (store.ts) *)
AppendText(content, text) ==
    IF content # <<>> /\ Last(content).kind = "text"
    THEN [content EXCEPT ![Len(content)].text = @ \o text] ELSE Append(content, TextBlock(text))

Shows(frame, type) ==
    CASE type = "turn_start" -> [bubble EXCEPT !.turn = frame.turn]
      [] type = "text_delta" -> [bubble EXCEPT !.content = AppendText(@, <<frame.text>>)]
      [] type = "tool_use" -> [bubble EXCEPT !.content = Append(@, UseBlock(frame.id))]
      [] type = "tool_result" -> [bubble EXCEPT !.content = Append(@, ResultBlock(frame.id))]
      [] OTHER -> bubble

Emit(type, of) ==
    LET frame == ProjectEvent([type |-> type, of |-> of])
    IN  /\ sent' = {frame[f].as : f \in DOMAIN frame}
        /\ bubble' = Shows(frame, type)
        /\ count' = count + 1

-----------------------------------------------------------------------------
Init ==
    /\ stage = "new" /\ turn \in {Value(1, "plain"), Value(1, "private")}
    /\ blocks = <<>> /\ open = {} /\ count = 0 /\ sent = {}
    /\ bubble = NoBubble /\ page = NoPage

Secret == Value(9, "private")
Runs == stage = "runs" /\ count < MaxEvents

Begin ==
    /\ stage = "new" /\ stage' = "runs"
    /\ Emit("turn_start", [message |-> turn, turn |-> turn])
    /\ UNCHANGED <<turn, blocks, open, page>>

Say(word) ==
    /\ Runs
    /\ blocks' = AppendText(blocks, <<word>>)
    /\ Emit("text_delta", [text |-> word])
    /\ UNCHANGED <<stage, turn, open, page>>

\* The final text of an item is other than what was streamed of it
Rewrite(word) ==
    /\ Runs /\ blocks # <<>> /\ Last(blocks).kind = "text"
    /\ blocks' = [blocks EXCEPT ![Len(blocks)].text = <<word>>]
    /\ count' = count + 1 /\ bubble' = [bubble EXCEPT !.stale = TRUE]
    /\ UNCHANGED <<stage, turn, open, sent, page>>

Use(tool) ==
    /\ Runs /\ open = {}
    /\ open' = {tool} /\ blocks' = Append(blocks, UseBlock(tool))
    /\ Emit("tool_use", [id |-> tool, name |-> tool, input |-> Secret])
    /\ UNCHANGED <<stage, turn, page>>

Result(tool) ==
    /\ stage = "runs" /\ tool \in open
    /\ open' = open \ {tool} /\ blocks' = Append(blocks, ResultBlock(tool))
    /\ Emit("tool_result", [id |-> tool, output |-> Secret, error |-> Value(0, "plain")])
    /\ UNCHANGED <<stage, turn, page>>

\* An event that is no block of the message
Others == DOMAIN Rules \ {"turn_start", "text_delta", "tool_use", "tool_result", "turn_end"}

Tell(type) ==
    /\ Runs
    /\ Emit(type, [f \in DOMAIN Rules[type] |-> IF Rules[type][f] = "asis" THEN Value(2, "plain") ELSE Secret])
    /\ UNCHANGED <<stage, turn, blocks, open, page>>

\* The desktop saves the message, and emits it as it saved it if the frame fits
Save ==
    /\ stage = "runs" /\ open = {}
    /\ stage' = "saved"
    /\ LET content == [i \in 1 .. Min({Len(blocks), MaxBlocks}) |-> ProjectBlock(blocks[i], MaxText)]
       IN  bubble' = IF TextBytes(content) <= LiveBudget THEN [bubble EXCEPT !.content = content, !.stale = FALSE] ELSE bubble
    /\ UNCHANGED <<turn, blocks, open, count, sent, page>>

End ==
    /\ stage = "saved" /\ stage' = "over"
    /\ Emit("turn_end", [reason |-> Secret, turn |-> turn, path |-> Secret, old_path |-> Secret, account |-> Secret])
    /\ UNCHANGED <<turn, blocks, open, page>>

ReadPage ==
    /\ stage = "over" /\ page = NoPage
    /\ page' = ProjectMessage
    /\ UNCHANGED <<stage, turn, blocks, open, count, sent, bubble>>

Next ==
    \/ Begin \/ Save \/ End \/ ReadPage
    \/ \E word \in {Value(1, "plain"), Value(2, "plain"), Secret} : Say(word) \/ Rewrite(word)
    \/ \E tool \in Tools : Use(tool) \/ Result(tool)
    \/ \E type \in Others : Tell(type)

Spec == Init /\ [][Next]_vars

-----------------------------------------------------------------------------
IsCutOf(block, whole) ==
    /\ block.kind = whole.kind /\ block.of = whole.of
    /\ IsPrefix(block.text, whole.text) \/ IsPrefix(whole.text, block.text)

\* No frame shows what is private; a page shows, of the turn the bubble is of, the
\* blocks the bubble has, each with the same id and the text cut at most, and says
\* so where it leaves blocks out, unless it is full.  A bubble whose snapshot was
\* too large for a frame keeps what was streamed (project_frames, project_message).
ViewsAgree ==
    /\ "private" \notin sent
    /\ page # NoPage /\ ~bubble.stale =>
         LET shown == SelectSeq(page.content, LAMBDA block : block # Omitted)
         IN  /\ page.turn = bubble.turn
             /\ Len(shown) <= Len(bubble.content)
             /\ \A i \in DOMAIN shown : IsCutOf(shown[i], bubble.content[i])
             /\ Len(shown) < Len(bubble.content) =>
                  Last(page.content) = Omitted \/ Len(shown) = MaxBlocks
=============================================================================
