---------------------------- MODULE PublicStream ----------------------------
(***************************************************************************)
(* What the phones are told of a running turn (src-tauri/src/sync):        *)
(* public.rs holds the text of a session back until a piece can be         *)
(* redacted without cutting a credential in two, and the hub of mod.rs     *)
(* sends the pieces to whoever subscribes.                                 *)
(*                                                                         *)
(* A text is a sequence of characters: "a" may be part of a key, "h" is a *)
(* label ("authorization:") whose next word is a credential, "p" begins a  *)
(* home directory ("/home/"), "/" separates names, "," is none of these,   *)
(* " " is white space; outside ASCII, "n" is white space and "e" is not.   *)
(* "T" is an event that is no text.  Mail and network addresses, and what  *)
(* the passes ask of the word before a secret, are left out.               *)
(***************************************************************************)
EXTENDS Naturals, Sequences, SequencesExt, FiniteSets, FiniteSetsExt

CONSTANTS
    Phones, Sessions,
    Scenarios,       \* records: talk (what each session says), phones
    MaxDelta,        \* bound on the characters of a delta
    MaxJoins,        \* bound on the subscriptions
    KeyLength,       \* the shortest run of characters that is taken for a key
    MaxSessions,     \* MAX_PENDING_SESSIONS
    EmitTarget,      \* TEXT_EMIT_TARGET_BYTES
    Holdback,        \* TEXT_RAW_HOLDBACK_BYTES
    Chunk,           \* TEXT_APPEND_CHUNK_BYTES
    MaxFrames,       \* MAX_LIVE_FRAMES_PER_EVENT
    MaxPending,      \* MAX_PENDING_TEXT_BYTES
    MaxLive          \* MAX_LIVE_TEXT_BYTES

VARIABLES
    scenario,
    said,       \* how much of its talk a session has said
    pending,    \* PhoneEventProjector: the raw text held for a session, or Nothing
    phone,      \* a phone's subscription: "off", "first" or "next" once it has counted, "clears", "on"
    joins,
    told,       \* what a phone has received of a session
    since,      \* what a session has said since a phone subscribed
    disturbed,  \* the phones whose stream another subscription raced
    clipped,    \* the sessions of which a held text was longer than MaxLive
    torn        \* where a cut fell that nothing looks behind: a session, and in what

vars == <<scenario, said, pending, phone, joins, told, since, disturbed, clipped, torn>>

Omitted == "..."

-----------------------------------------------------------------------------
(* redact_secrets_full: its passes, in their order *)
White == {" ", "n"}
NotAscii == {"n", "e"}
ValueChars == {"a", "e", "h", "p", "/", "#"}
NameChars == {"a", "e", "h", ",", " ", "n", "#"}

Run(t, chars) == Cardinality({n \in 1 .. Len(t) : \A i \in 1 .. n : t[i] \in chars})
From(t, n) == SubSeq(t, n, Len(t))

\* A label, white space, and a word that is not told
RECURSIVE Credentials(_)
Credentials(t) ==
    IF t = <<>> THEN <<>>
    ELSE LET gap == Run(Tail(t), White)
             value == Run(From(t, gap + 2), ValueChars)
         IN  IF Head(t) = "h" /\ value > 0
             THEN SubSeq(t, 1, gap + 1) \o <<"#">> \o Credentials(From(t, gap + value + 2))
             ELSE <<Head(t)>> \o Credentials(Tail(t))

\* The name of a home directory goes on to the next separator, over white space too.
RECURSIVE Homes(_)
Homes(t) ==
    IF t = <<>> THEN <<>>
    ELSE LET name == IF Head(t) = "p" THEN Run(Tail(t), NameChars) ELSE 0
         IN  <<Head(t)>> \o (IF name > 0 THEN <<"~">> ELSE <<>>) \o Homes(From(t, name + 2))

RECURSIVE Keys(_)
Keys(t) ==
    IF t = <<>> THEN <<>>
    ELSE LET run == Run(t, {"a"})
         IN  IF run >= KeyLength THEN <<"#">> \o Keys(From(t, run + 1))
             ELSE SubSeq(t, 1, Max({run, 1})) \o Keys(From(t, Max({run, 1}) + 1))

Redact(t) == Keys(Homes(Credentials(t)))

\* bounded_public_text
Public(t) == LET r == Redact(t) IN SubSeq(r, 1, Min({Len(r), MaxLive}))

-----------------------------------------------------------------------------
(* PhoneEventProjector *)
Nothing == [raw |-> <<>>, suppressed |-> FALSE, held |-> FALSE]
Held(raw) == [raw |-> raw, suppressed |-> FALSE, held |-> TRUE]
Suppressed == [raw |-> <<>>, suppressed |-> TRUE, held |-> TRUE]

\* sensitive_prefix_before_space
SensitiveBefore(t) ==
    LET words == SelectSeq(t, LAMBDA x : x \notin White) IN words # <<>> /\ Last(words) = "h"

\* Mutant: any white space is a boundary.
AnyBoundary(raw, ends) == {i \in ends : raw[i] \in White \cup NotAscii}
Boundaries(raw, ends) ==
    {i \in ends : \/ raw[i] \in NotAscii
                  \/ raw[i] \in White /\ ~SensitiveBefore(SubSeq(raw, 1, i - 1))}

\* stream_boundary: where the text may be cut, 0 if nowhere yet
Boundary(raw) ==
    IF Len(raw) <= EmitTarget + Holdback THEN 0
    ELSE Max({0} \cup Boundaries(raw, 1 .. Min({EmitTarget, Len(raw) - Holdback})))

\* What a cut divides unseen: a credential, if it comes after a character outside
\* ASCII that is not the end of one, and the name of a home directory.
InCredential(t) ==
    \E i \in DOMAIN t : t[i] = "h" /\ LET gap == Run(From(t, i + 1), White)
                                       IN  Run(From(t, i + gap + 1), ValueChars) = Len(t) - i - gap
InHome(t) ==
    LET seen == Credentials(t)
    IN  \E i \in DOMAIN seen : seen[i] = "p" /\ Run(From(seen, i + 1), NameChars) = Len(seen) - i
Tears(raw, n) ==
    {kind \in {"credential", "home"} :
       \/ kind = "credential" /\ raw[n] \in NotAscii /\ InCredential(SubSeq(raw, 1, n))
       \/ kind = "home" /\ InHome(SubSeq(raw, 1, n)) /\ raw[n + 1] \in NameChars}

\* drain_ready_text: the pieces, and what stays
RECURSIVE Drained(_)
Drained(raw) ==
    LET n == Boundary(raw)
    IN  IF n = 0 THEN [pieces |-> <<>>, raw |-> raw, tears |-> {}]
        ELSE LET rest == Drained(From(raw, n + 1))
             IN  [rest EXCEPT !.pieces = <<Public(SubSeq(raw, 1, n))>> \o @, !.tears = @ \cup Tears(raw, n)]

\* append_text: the frames of one delta, and what is held after it
RECURSIVE Appended(_, _, _, _)
Appended(p, text, frames, tears) ==
    IF text = <<>> \/ p.suppressed THEN [held |-> p, frames |-> frames, tears |-> tears]
    ELSE IF Len(frames) >= MaxFrames \/ Len(p.raw) >= MaxPending
    THEN [held |-> Suppressed, frames |-> frames, tears |-> tears]
    ELSE LET take == Min({Len(text), MaxPending - Len(p.raw), Chunk})
             ready == Drained(p.raw \o SubSeq(text, 1, take))
             all == frames \o ready.pieces
         IN  IF Len(all) > MaxFrames
             THEN [held |-> Suppressed, frames |-> SubSeq(all, 1, MaxFrames), tears |-> tears \cup ready.tears]
             ELSE Appended(IF Len(ready.raw) >= MaxPending THEN Suppressed ELSE Held(ready.raw),
                           From(text, take + 1), all, tears \cup ready.tears)

\* flush_pending
Flushed(p) == IF ~p.held THEN <<>> ELSE IF p.suppressed THEN <<Omitted>> ELSE Public(p.raw)

\* project_frames: what is sent, and what is held then
Projected(s, text) ==
    LET result == Appended(IF pending[s].held THEN pending[s] ELSE Held(<<>>), text, <<>>, {})
    IN  IF ~pending[s].held /\ Cardinality({u \in Sessions : pending[u].held}) >= MaxSessions
        THEN [sent |-> <<Omitted>>, held |-> Nothing, tears |-> {}]
        ELSE [sent |-> FlattenSeq(result.frames), held |-> result.held, tears |-> result.tears]

OtherEvent(s) == [sent |-> Flushed(pending[s]) \o <<"T">>, held |-> Nothing, tears |-> {}]

-----------------------------------------------------------------------------
Init ==
    /\ scenario \in Scenarios
    /\ said = [s \in Sessions |-> 0]
    /\ pending = [s \in Sessions |-> Nothing]
    /\ phone = [p \in Phones |-> "off"]
    /\ joins = 0
    /\ told = [p \in Phones |-> [s \in Sessions |-> <<>>]]
    /\ since = [p \in Phones |-> [s \in Sessions |-> <<>>]]
    /\ disturbed = {} /\ clipped = {} /\ torn = {}

Receivers == {p \in Phones : phone[p] \in {"clears", "on"}}

(* subscribe: it counts the receivers, subscribes, and clears what was held *)
Count(p) ==
    /\ p \in scenario.phones /\ phone[p] = "off" /\ joins < MaxJoins
    /\ joins' = joins + 1
    /\ phone' = [phone EXCEPT ![p] = IF Receivers = {} THEN "first" ELSE "next"]
    /\ UNCHANGED <<scenario, said, pending, told, since, disturbed, clipped, torn>>

Subscribe(p) ==
    /\ phone[p] \in {"first", "next"}
    /\ phone' = [phone EXCEPT ![p] = IF @ = "first" THEN "clears" ELSE "on"]
    /\ told' = [told EXCEPT ![p] = [s \in Sessions |-> <<>>]]
    /\ since' = [since EXCEPT ![p] = [s \in Sessions |-> pending[s].raw]]
    /\ disturbed' = IF phone[p] = "first" /\ Receivers = {} THEN disturbed \ {p}
                    ELSE IF \E s \in Sessions : pending[s].held THEN disturbed \cup {p} ELSE disturbed \ {p}
    /\ UNCHANGED <<scenario, said, pending, joins, clipped, torn>>

Cleared(p) == [s \in Sessions |-> Nothing]

Clear(p) ==
    /\ phone[p] = "clears"
    /\ phone' = [phone EXCEPT ![p] = "on"]
    /\ pending' = Cleared(p)
    /\ LET others == Receivers \ {p}
       IN  /\ disturbed' = IF \E s \in Sessions : since[p][s] # pending[s].raw \/ told[p][s] # <<>>
                           THEN disturbed \cup others \cup {p} ELSE disturbed \cup others
           /\ since' = [since EXCEPT ![p] = [s \in Sessions |-> <<>>]]
    /\ UNCHANGED <<scenario, said, joins, told, clipped, torn>>

Leave(p) ==
    /\ phone[p] = "on"
    /\ phone' = [phone EXCEPT ![p] = "off"]
    /\ told' = [told EXCEPT ![p] = [s \in Sessions |-> <<>>]]
    /\ since' = [since EXCEPT ![p] = [s \in Sessions |-> <<>>]]
    /\ disturbed' = disturbed \ {p}
    /\ UNCHANGED <<scenario, said, pending, joins, clipped, torn>>

(* publish: project and send under the projector's lock; nobody there, nothing done *)
Deliver(s, heard, result) ==
    IF Receivers = {} THEN UNCHANGED <<pending, told, since, torn>>
    ELSE /\ torn' = torn \cup {<<s, kind>> : kind \in result.tears}
         /\ pending' = [pending EXCEPT ![s] = result.held]
         /\ told' = [p \in Phones |-> IF p \in Receivers THEN [told[p] EXCEPT ![s] = @ \o result.sent] ELSE told[p]]
         /\ since' = [p \in Phones |-> IF p \in Receivers THEN [since[p] EXCEPT ![s] = @ \o heard] ELSE since[p]]

Publish(s) ==
    LET talk == scenario.talk[s]
    IN  /\ said[s] < Len(talk)
        /\ \/ /\ talk[said[s] + 1] = "T"
              /\ said' = [said EXCEPT ![s] = @ + 1]
              /\ Deliver(s, <<"T">>, OtherEvent(s))
              /\ clipped' = IF Receivers # {} /\ Len(Redact(pending[s].raw)) > MaxLive THEN clipped \cup {s} ELSE clipped
           \/ \E n \in 1 .. Min({MaxDelta, Len(talk) - said[s]}) :
                LET text == SubSeq(talk, said[s] + 1, said[s] + n)
                IN  /\ "T" \notin ToSet(text)
                    /\ said' = [said EXCEPT ![s] = @ + n]
                    /\ Deliver(s, text, Projected(s, text))
                    /\ UNCHANGED clipped
        /\ UNCHANGED <<scenario, phone, joins, disturbed>>

Next ==
    \/ \E p \in Phones : Count(p) \/ Subscribe(p) \/ Clear(p) \/ Leave(p)
    \/ \E s \in Sessions : Publish(s)

Spec == Init /\ [][Next]_vars

-----------------------------------------------------------------------------
(* The talk as it should be read: each run of text between two events redacted
   as a whole. *)
RECURSIVE Readable(_)
Readable(talk) ==
    LET ends == {i \in DOMAIN talk : talk[i] = "T"}
    IN  IF ends = {} THEN Redact(talk)
        ELSE Redact(SubSeq(talk, 1, Min(ends) - 1)) \o <<"T">> \o Readable(From(talk, Min(ends) + 1))

\* `read` is `whole`, but for what a mark says is left out of a run
RECURSIVE Reads(_, _)
Reads(read, whole) ==
    IF read = <<>> THEN whole = <<>>
    ELSE IF Head(read) = Omitted
    THEN LET ends == {i \in DOMAIN whole : whole[i] = "T"}
         IN  \E n \in 0 .. (IF ends = {} THEN Len(whole) ELSE Min(ends) - 1) : Reads(Tail(read), From(whole, n + 1))
    ELSE whole # <<>> /\ Head(read) = Head(whole) /\ Reads(Tail(read), Tail(whole))

\* What a phone has read of a session, and what it would read if the rest came now, is
\* what was said since it subscribed, in the order it was said and redacted as one text.
ReadsAsOne(p, s) ==
    phone[p] = "on" /\ Len(Redact(pending[s].raw)) <= MaxLive =>
        Reads(told[p][s] \o Flushed(pending[s]), Readable(since[p][s]))

\* A phone reads what was said since it subscribed, in the order it was said and
\* redacted as one text wherever it was cut, with a mark where something is left
\* out; what it has not read yet is what is held.  The cuts that nothing looks
\* behind are left out: those in a home directory's name, and those after a
\* character outside ASCII in a credential (PhoneEventProjector, SyncHub).
StreamIsTheTalk ==
    \A p \in Phones \ disturbed, s \in Sessions \ clipped :
        (\A kind \in {"credential", "home"} : <<s, kind>> \notin torn) => ReadsAsOne(p, s)
=============================================================================
