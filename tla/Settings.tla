------------------------------ MODULE Settings ------------------------------
(***************************************************************************)
(* The settings of the desktop (src-tauri/src/settings.rs, lib.rs): one    *)
(* copy in memory, which is the running policy, and one in settings.json,  *)
(* which a save replaces whole.  A replacement may fail before or after    *)
(* the name points at the new file, the file may be edited by others, and  *)
(* the machine may lose what was not yet synchronized.                     *)
(*                                                                         *)
(* Settings are a record: the model ("claude" stands for a model or a      *)
(* provider that is retired) and the permission mode.                      *)
(***************************************************************************)
EXTENDS Naturals

CONSTANTS
    Calls,
    Requests,   \* what each call gives save_settings: "keep" is a field it does not name, "bad" a malformed one
    Edits,      \* what others write into the file; Garbage is no settings
    MaxEdits, MaxRestarts

Garbage == [model |-> "bad", mode |-> "bad"]
NoFile == [model |-> "none", mode |-> "none"]
DefaultSettings == [model |-> "terra", mode |-> "default"]

VARIABLES
    running,
    memory,     \* AppState.settings
    file,       \* settings.json as it is read now
    durable,    \* settings.json as a power loss leaves it
    lock,       \* the call that holds the mutex, or "free"
    call,       \* each call of save_settings: pc, patch, base, before, outcome
    expected,   \* the settings as the answers told them
    doubt,      \* what the file may hold instead, as an answer, an edit or a crash left it
    edits, restarts

vars == <<running, memory, file, durable, lock, call, expected, doubt, edits, restarts>>

\* Settings::load
Loaded(bytes) ==
    LET parsed == IF bytes \in {Garbage, NoFile} THEN DefaultSettings ELSE bytes
    IN  IF parsed.model = "claude" THEN [parsed EXCEPT !.model = "terra"] ELSE parsed

\* save_settings: a mode that does not parse is ignored
Patched(base, patch) ==
    [model |-> IF patch.model = "keep" THEN base.model ELSE patch.model,
     mode |-> IF patch.mode \in {"keep", "bad"} THEN base.mode ELSE patch.mode]

Candidate(c) == Patched(call[c].base, call[c].patch)

Asked(patch) == [pc |-> "asked", patch |-> patch, base |-> DefaultSettings, before |-> NoFile, outcome |-> "none"]
Unreadable == [model |-> "unreadable", mode |-> "unreadable"]

-----------------------------------------------------------------------------
Init ==
    /\ running = TRUE
    /\ file \in {NoFile, DefaultSettings} /\ durable = file
    /\ memory = Loaded(file) /\ expected = memory
    /\ doubt = {file}
    /\ lock = "free"
    /\ \E request \in Requests : call = [c \in Calls |-> Asked(request[c])]
    /\ edits = 0 /\ restarts = 0

\* The mutex is taken, the candidate made and the file read, or not.
IsFree == running /\ lock = "free"

Lock(c) ==
    /\ call[c].pc = "asked" /\ IsFree
    /\ lock' = c
    /\ \E before \in {file, Unreadable} :
         call' = [call EXCEPT ![c].pc = "replaces", ![c].base = memory, ![c].before = before]
    /\ UNCHANGED <<running, memory, file, durable, expected, doubt, edits, restarts>>

\* AtomicFile::write: "ok", "unsynced" (the name points at the candidate, the
\* directory is not synchronized) or "failed" (nothing is changed)
Replace(c) ==
    /\ call[c].pc = "replaces"
    /\ \E outcome \in {"ok", "unsynced", "failed"} :
         /\ call' = [call EXCEPT ![c].pc = "finishes", ![c].outcome = outcome]
         /\ file' = IF outcome = "failed" THEN file ELSE Candidate(c)
         /\ durable' = IF outcome = "ok" THEN Candidate(c) ELSE durable
         /\ doubt' = CASE outcome = "ok" -> {Candidate(c)}
                       [] outcome = "unsynced" -> doubt \cup {Candidate(c)}
                       [] OTHER -> doubt
    /\ UNCHANGED <<running, memory, lock, expected, edits, restarts>>

\* finish_settings_transaction: what the memory and the answer are
Answer(c, result) ==
    /\ lock' = "free"
    /\ call' = [call EXCEPT ![c].pc = "done"]
    /\ expected' = IF result \in {"ok", "committed"} THEN Patched(expected, call[c].patch) ELSE expected
    /\ UNCHANGED <<running, edits, restarts>>

\* Mutant: a save whose durability is unconfirmed is treated as one that failed.
OnlyClean(c, result) == IF result = "ok" THEN Candidate(c) ELSE memory
Followed(c, result) == IF result \in {"ok", "committed"} THEN Candidate(c) ELSE memory

Saved(c) ==
    /\ call[c].pc = "finishes" /\ call[c].outcome = "ok"
    /\ memory' = Followed(c, "ok")
    /\ Answer(c, "ok")
    /\ UNCHANGED <<file, durable, doubt>>

\* The replacement failed: what the file holds now tells how far it came.
Classify(c) ==
    /\ call[c].pc = "finishes" /\ call[c].outcome # "ok"
    /\ \E after \in {file, Unreadable} :
         \/ /\ after = Candidate(c)     \* confirm_parent_durability succeeds
            /\ durable' = file /\ doubt' = {}
            /\ memory' = Followed(c, "ok")
            /\ Answer(c, "ok")
         \/ /\ after = Candidate(c)     \* it fails: CommittedDurabilityUnconfirmed
            /\ doubt' = doubt \cup {expected}
            /\ memory' = Followed(c, "committed")
            /\ Answer(c, "committed")
            /\ UNCHANGED durable
         \/ /\ after # Candidate(c)     \* Uncommitted, if it is what it was, else StateUnknown
            /\ memory' = Followed(c, IF after = call[c].before /\ after # Unreadable THEN "uncommitted" ELSE "unknown")
            /\ Answer(c, "unknown")
            /\ UNCHANGED <<durable, doubt>>
    /\ UNCHANGED file

\* The user, or another program, writes the file.
Edit(bytes) ==
    /\ edits < MaxEdits
    /\ edits' = edits + 1
    /\ file' = bytes /\ durable' = bytes
    /\ doubt' = doubt \cup {bytes}
    /\ UNCHANGED <<running, memory, lock, call, expected, restarts>>

\* The program ends, and the machine with it or not.
Stop ==
    /\ running /\ restarts < MaxRestarts
    /\ running' = FALSE /\ restarts' = restarts + 1
    /\ file' \in {file, durable} /\ durable' = file'
    /\ lock' = "free"
    /\ call' = [c \in Calls |-> IF call[c].pc = "asked" THEN call[c] ELSE [call[c] EXCEPT !.pc = "done"]]
    /\ UNCHANGED <<memory, expected, doubt, edits>>

Start ==
    /\ ~running
    /\ running' = TRUE
    /\ memory' = Loaded(file) /\ expected' = memory'
    /\ doubt' = {file}
    /\ UNCHANGED <<file, durable, lock, call, edits, restarts>>

Next ==
    \/ \E c \in Calls : Lock(c) \/ Replace(c) \/ Saved(c) \/ Classify(c)
    \/ \E bytes \in Edits : Edit(bytes)
    \/ Stop \/ Start

Spec == Init /\ [][Next]_vars

-----------------------------------------------------------------------------
\* The running policy is what the answers told, of two calls at once neither is
\* lost, and the next start finds it again, whatever the machine lost: only an
\* edit, or an answer that said so, leaves a doubt (finish_settings_transaction,
\* Settings::save_with).
PolicyIsAsTold == running => memory = expected
StartFindsIt == ~running /\ running' => memory' \in {Loaded(s) : s \in {expected} \cup doubt}
SettingsAreKept == []PolicyIsAsTold /\ [][StartFindsIt]_vars
=============================================================================
