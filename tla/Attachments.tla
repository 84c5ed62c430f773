---------------------------- MODULE Attachments ----------------------------
(***************************************************************************)
(* The files a user attaches to a message (src-tauri/src/attachments.rs    *)
(* and the commands of lib.rs that use it), from the paths to what Codex   *)
(* reads: checked on disk while somebody else may be writing them, text    *)
(* copied into the input, images into a private directory that has to live *)
(* as long as the turn may read it (codex_engine.rs).                      *)
(*                                                                         *)
(* A caller is one call of validate_attachments or run_agent.  A file is   *)
(* what a path leads to; its name is a sequence, so that a file can carry  *)
(* the very name a label would give another one.                           *)
(***************************************************************************)
EXTENDS Naturals, Sequences, SequencesExt, FiniteSets, FiniteSetsExt, Functions

CONSTANTS
    Callers, Files,
    MaxAttachments, MaxFile, MaxTotal,  \* MAX_ATTACHMENT_COUNT, _FILE_BYTES, _TOTAL_BYTES
    MaxCandidates, MaxIssues,           \* MAX_ATTACHMENT_CANDIDATE_COUNT, _ISSUE_COUNT
    Permits,                            \* ATTACHMENT_VALIDATION_PERMITS
    Scenes,     \* who asks for what, and what is on the disk
    MaxWrites   \* bound on the writes of somebody else

VARIABLES
    wants,      \* what a caller asks: kind, paths, names, hasText
    disk,       \* the files
    writes,
    pc,         \* "idle", "waiting", "checking", "reading", "built", "running", "refused", "shown"
    next,       \* the path being checked
    prepared,   \* what was read of the files so far
    issues,     \* how many candidates were refused
    active,     \* the caller whose turn the session runs, or NoCaller
    sent,       \* the input of a turn, as Codex was given it
    codex,      \* what Codex does with the turn: "none", "asked", "turn", "ended"
    abandoned   \* the callers whose turn was given up while Codex might work on it

vars == <<wants, disk, writes, pc, next, prepared, issues, active, sent, codex, abandoned>>

NoCaller == "nobody"
Missing == "missing"
Gone == 99   \* no version of a file

\* BoundedStrings: too long a list is refused before it is built.
Admitted(c) == Len(wants[c].paths) <= MaxCandidates /\ Len(wants[c].names) <= MaxAttachments

Current(c) == wants[c].paths[next[c]]
FilesOf(list) == [i \in DOMAIN list |-> list[i].file]
\* What was looked at before: canonicalize, then the set of those seen
Seen(c) == \E i \in 1 .. next[c] - 1 : wants[c].paths[i] = Current(c)
SizeOf(list) == MapThenSumSet(LAMBDA i : list[i].size, DOMAIN list)
Total(c) == SizeOf(prepared[c])

Issue(c) == issues' = [issues EXCEPT ![c] = @ + 1]

\* What is read is bounded again: the file may have grown since it was opened.
FitsAsRead(c, size) == size <= MaxFile /\ size <= MaxTotal - Total(c)

\* The labels of the summary: a name that occurs once, or the name and a number
\* that gives no other attachment's name and no label given before.
NameOf(a) == disk[a.file].name
Named(list, n) == {i \in DOMAIN list : NameOf(list[i]) = n}

\* The number that label i is given after `last`: the numbers go on from one label to
\* the next, whatever its name, and those that give the name of a file are left out.
IsAlone(list, i) == Cardinality(Named(list, NameOf(list[i]))) < 2
Reserved(list) == {NameOf(list[i]) : i \in DOMAIN list}
NumberAfter(list, i, last) ==
    IF IsAlone(list, i) THEN last
    ELSE Min({k \in last + 1 .. last + 1 + Len(list) : Append(NameOf(list[i]), k) \notin Reserved(list)})
Numbers(list) ==
    LET number[i \in 0 .. Len(list)] == IF i = 0 THEN 0 ELSE NumberAfter(list, i, number[i - 1])
    IN  number

Labels(list) ==
    LET number == Numbers(list)
    IN  [i \in DOMAIN list |->
           IF IsAlone(list, i) THEN NameOf(list[i]) ELSE Append(NameOf(list[i]), number[i])]

\* submitted_attachment_labels: the names the page gave, if they are of these files
Labelled(list, names) ==
    IF names = <<>> THEN Labels(list)
    ELSE IF /\ Len(names) = Len(list) /\ IsInjective(names)
            /\ \A i \in DOMAIN list :
                 names[i] = NameOf(list[i]) \/ \E k \in 1 .. MaxCandidates : names[i] = Append(NameOf(list[i]), k)
         THEN names
         ELSE <<Missing>>

-----------------------------------------------------------------------------
Init ==
    /\ \E scene \in Scenes : wants = scene.wants /\ disk = scene.disk
    /\ writes = 0
    /\ pc = [c \in Callers |-> "idle"]
    /\ next = [c \in Callers |-> 1]
    /\ prepared = [c \in Callers |-> <<>>]
    /\ issues = [c \in Callers |-> 0]
    /\ active = NoCaller
    /\ sent = [c \in Callers |-> <<>>]
    /\ codex = [c \in Callers |-> "none"]
    /\ abandoned = {}

Goto(c, to) == pc' = [pc EXCEPT ![c] = to]

Request(c) ==
    /\ pc[c] = "idle" /\ wants[c].kind # "none"
    /\ Goto(c, IF Admitted(c) THEN "waiting" ELSE "refused")
    /\ UNCHANGED <<wants, disk, writes, next, prepared, issues, active, sent, codex, abandoned>>

\* Two validations at a time; the permit goes with the blocking work.
Working == {c \in Callers : pc[c] \in {"checking", "reading", "built"}}
Acquire(c) ==
    /\ pc[c] = "waiting" /\ Cardinality(Working) < Permits
    /\ Goto(c, "checking")
    /\ UNCHANGED <<wants, disk, writes, next, prepared, issues, active, sent, codex, abandoned>>

Busy(c) ==
    /\ pc[c] = "waiting"
    /\ Goto(c, "refused")
    /\ UNCHANGED <<wants, disk, writes, next, prepared, issues, active, sent, codex, abandoned>>

\* One candidate, as its directory describes it
Skip(c) == next' = [next EXCEPT ![c] = @ + 1] /\ UNCHANGED pc

Check(c) ==
    /\ pc[c] = "checking" /\ next[c] <= Len(wants[c].paths)
    /\ LET f == Current(c)
       IN  IF f # Missing /\ Seen(c) THEN Skip(c) /\ UNCHANGED issues
           ELSE IF \/ f = Missing
                   \/ Len(prepared[c]) >= MaxAttachments
                   \/ disk[f].kind \notin {"text", "image"}
                   \/ disk[f].size > MaxFile
                   \/ Total(c) + disk[f].size > MaxTotal
           THEN Skip(c) /\ Issue(c)
           ELSE Goto(c, "reading") /\ UNCHANGED <<next, issues>>
    /\ UNCHANGED <<wants, disk, writes, prepared, active, sent, codex, abandoned>>

\* What is read of it: text has to be UTF-8, an image has to decode.
Read(c) ==
    /\ pc[c] = "reading"
    /\ LET f == Current(c)
           size == disk[f].size
       IN  IF disk[f].sound /\ FitsAsRead(c, size)
           THEN /\ prepared' = [prepared EXCEPT ![c] =
                                  Append(@, [file |-> f, size |-> size, version |-> disk[f].version])]
                /\ UNCHANGED issues
           ELSE Issue(c) /\ UNCHANGED prepared
    /\ next' = [next EXCEPT ![c] = @ + 1]
    /\ Goto(c, "checking")
    /\ UNCHANGED <<wants, disk, writes, active, sent, codex, abandoned>>

\* prepare_turn: any issue refuses the whole turn, so does an empty one.
Issues(c) == IF issues[c] > MaxIssues THEN MaxIssues ELSE issues[c]
Prepared(c) == pc[c] = "checking" /\ next[c] > Len(wants[c].paths)

Refuse(c) ==
    /\ Prepared(c)
    /\ \/ wants[c].kind = "validate" /\ Goto(c, "shown")
       \/ /\ wants[c].kind = "run"
          /\ \/ Issues(c) > 0
             \/ prepared[c] = <<>> /\ ~wants[c].hasText
             \/ Labelled(prepared[c], wants[c].names) = <<Missing>>
          /\ Goto(c, "refused")
    /\ UNCHANGED <<wants, disk, writes, next, prepared, issues, active, sent, codex, abandoned>>

SentAs(a) == IF disk[a.file].kind = "image" THEN "snapshot" ELSE "text"

Build(c) ==
    /\ Prepared(c) /\ wants[c].kind = "run"
    /\ Issues(c) = 0
    /\ prepared[c] # <<>> \/ wants[c].hasText
    /\ LET labels == Labelled(prepared[c], wants[c].names)
       IN  /\ labels # <<Missing>>
           /\ sent' = [sent EXCEPT ![c] =
                [i \in DOMAIN prepared[c] |->
                   [label |-> labels[i], file |-> prepared[c][i].file, as |-> SentAs(prepared[c][i])]]]
    /\ Goto(c, "running")
    /\ UNCHANGED <<wants, disk, writes, next, prepared, issues, active, codex, abandoned>>

-----------------------------------------------------------------------------
(* The turn.  run_turn holds the prepared turn until turn/start is         *)
(* answered; the entry of the session holds its images until it is let go  *)
(* of, at the end of the turn or before.                                   *)

\* Mutant: only the call that starts the turn holds its images.
HeldByTheCall(c) == pc[c] = "running"
SnapshotLives(c) == pc[c] = "running" \/ active = c

LetGo(c) == active' = IF active = c THEN NoCaller ELSE active
Leave(c) == Goto(c, "refused") /\ LetGo(c)
Abandon(c) == abandoned' = abandoned \cup {c}

Begin(c) ==
    /\ pc[c] = "running" /\ active = NoCaller /\ codex[c] = "none" /\ c \notin abandoned
    /\ active' = c
    /\ UNCHANGED <<wants, disk, writes, pc, next, prepared, issues, sent, codex, abandoned>>

\* The session has a turn, no account is signed in, the thread does not start.
BeginFails(c) ==
    /\ pc[c] = "running" /\ codex[c] = "none"
    /\ Leave(c)
    /\ UNCHANGED <<wants, disk, writes, next, prepared, issues, sent, codex, abandoned>>

\* Nothing looks whether the session is still this run's.
StartTurn(c) ==
    /\ pc[c] = "running" /\ codex[c] = "none"
    /\ active = c \/ c \in abandoned
    /\ codex' = [codex EXCEPT ![c] = "asked"]
    /\ UNCHANGED <<wants, disk, writes, pc, next, prepared, issues, active, sent, abandoned>>

CodexBegins(c) ==
    /\ codex[c] = "asked"
    /\ codex' = [codex EXCEPT ![c] = "turn"]
    /\ UNCHANGED <<wants, disk, writes, pc, next, prepared, issues, active, sent, abandoned>>

Started(c) ==
    /\ pc[c] = "running" /\ codex[c] \in {"turn", "ended"}
    /\ Goto(c, "shown")
    /\ UNCHANGED <<wants, disk, writes, next, prepared, issues, active, sent, codex, abandoned>>

\* Codex refuses the turn, or its process is gone.
StartFails(c) ==
    /\ pc[c] = "running" /\ codex[c] = "asked"
    /\ codex' = [codex EXCEPT ![c] = "ended"]
    /\ Leave(c)
    /\ UNCHANGED <<wants, disk, writes, next, prepared, issues, sent, abandoned>>

\* Nobody waits for the turn any more; Codex may begin it all the same.
StartTimesOut(c) ==
    /\ pc[c] = "running" /\ codex[c] \in {"asked", "turn"}
    /\ Leave(c) /\ Abandon(c)
    /\ UNCHANGED <<wants, disk, writes, next, prepared, issues, sent, codex>>

\* The turn was started and cannot be activated: its message is not saved, its owner
\* does not match.  run_turn lets go of it; nobody stops Codex.
ActivationFails(c) ==
    /\ pc[c] = "running" /\ codex[c] \in {"turn", "ended"}
    /\ Leave(c) /\ Abandon(c)
    /\ UNCHANGED <<wants, disk, writes, next, prepared, issues, sent, codex>>

CodexEnds(c) ==
    /\ codex[c] = "turn"
    /\ codex' = [codex EXCEPT ![c] = "ended"]
    /\ UNCHANGED <<wants, disk, writes, pc, next, prepared, issues, active, sent, abandoned>>

\* turn/completed, the loss of the turn's process, or shutdown, which closes it first
TurnIsOver(c) ==
    /\ active = c /\ codex[c] = "ended"
    /\ LetGo(c)
    /\ UNCHANGED <<wants, disk, writes, pc, next, prepared, issues, sent, codex, abandoned>>

\* The turn was stopped, Codex took the interrupt and has told of no end since.
Watchdog(c) ==
    /\ active = c /\ codex[c] \in {"turn", "ended"}
    /\ LetGo(c) /\ Abandon(c)
    /\ UNCHANGED <<wants, disk, writes, pc, next, prepared, issues, sent, codex>>

\* The loss of an earlier process, told late, releases a run that goes on in the next.
EarlierLoss(c) ==
    /\ active = c
    /\ LetGo(c) /\ Abandon(c)
    /\ UNCHANGED <<wants, disk, writes, pc, next, prepared, issues, sent, codex>>

\* Somebody else writes a file.
WriteFile(f) ==
    /\ writes < MaxWrites
    /\ \E size \in 1 .. MaxTotal, sound \in BOOLEAN :
         disk' = [disk EXCEPT ![f].size = size, ![f].sound = sound, ![f].version = @ + 1]
    /\ writes' = writes + 1
    /\ UNCHANGED <<wants, pc, next, prepared, issues, active, sent, codex, abandoned>>

Next ==
    \/ \E c \in Callers :
         \/ Request(c) \/ Acquire(c) \/ Busy(c) \/ Check(c) \/ Read(c) \/ Refuse(c) \/ Build(c)
         \/ Begin(c) \/ BeginFails(c) \/ StartTurn(c) \/ CodexBegins(c) \/ Started(c) \/ StartFails(c)
         \/ StartTimesOut(c) \/ ActivationFails(c) \/ CodexEnds(c) \/ TurnIsOver(c) \/ Watchdog(c)
         \/ EarlierLoss(c)
    \/ \E f \in Files : WriteFile(f)

Spec == Init /\ [][Next]_vars

-----------------------------------------------------------------------------
\* The files of a list are those of the paths, each once, in the order of their first
\* mention.
AreAsked(files, paths) ==
    /\ Range(files) = Range(paths)
    /\ \A i, j \in DOMAIN files : i < j =>
         \E m \in DOMAIN paths : paths[m] = files[i] /\ \A k \in 1 .. m : paths[k] # files[j]

\* A turn that is sent has every file that was asked for, in order and under a
\* label of its own that is of its name, and no more of them than the limits
\* allow by the bytes that were read (prepare_turn_with_display_names).
TurnIsWhole ==
    \A c \in Callers : sent[c] # <<>> =>
        /\ FilesOf(sent[c]) = FilesOf(prepared[c]) /\ AreAsked(FilesOf(sent[c]), wants[c].paths)
        /\ Len(prepared[c]) <= MaxAttachments /\ Total(c) <= MaxTotal
        /\ \A i \in DOMAIN prepared[c] : prepared[c][i].size <= MaxFile
        /\ IsInjective([i \in DOMAIN sent[c] |-> sent[c][i].label])
        /\ \A i \in DOMAIN sent[c] : IsPrefix(NameOf(sent[c][i]), sent[c][i].label)

\* What Codex finds of attachment i when it reads it now
Found(c, i) ==
    CASE sent[c][i].as = "path" -> disk[sent[c][i].file].version
      [] sent[c][i].as = "snapshot" /\ ~SnapshotLives(c) -> Gone
      [] OTHER -> prepared[c][i].version

\* Whenever Codex reads an attachment of a turn it works on, it finds the bytes that
\* were checked, whatever became of the files and of the call that sent them.  Left out
\* are the turns Portcode gave up while Codex might work on them: after a timeout or a
\* failed activation, by the watchdog of a stop, by the late loss of an earlier process
\* (PreparedTurn::attachment_snapshot, ActiveSessionTurn).
CodexReadsWhatWasChecked ==
    \A c \in Callers \ abandoned : codex[c] = "turn" =>
        \A i \in DOMAIN sent[c] : sent[c][i].as = "text" \/ Found(c, i) = prepared[c][i].version
=============================================================================
