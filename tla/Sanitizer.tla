----------------------------- MODULE Sanitizer -----------------------------
(***************************************************************************)
(* What of an event of the app-server goes on (codex_engine.rs): the pump  *)
(* replaces its parameters by a bounded copy without credentials and raw   *)
(* reasoning before anything else sees them, its thread is read from the   *)
(* copy, and the copy is checked once more before it is saved.             *)
(*                                                                         *)
(* A value is a record: k is "leaf", "list", "map" or "marker"; a leaf has *)
(* a size and a tag, by which it is found again; of has the entries of a   *)
(* list or a map, in the order in which they are read.  A key stands for   *)
(* its kind: "thread", "id" and "kind" correlate, "summary" is safe,       *)
(* "secret" and "reasoning" are not, "item" and "text" are any other.      *)
(***************************************************************************)
EXTENDS Naturals, Sequences, SequencesExt, FiniteSets, FiniteSetsExt

CONSTANTS
    Inputs,         \* the parameters of the events
    MaxDepth,       \* MAX_ACTIVITY_DEPTH
    MaxFields,      \* MAX_ACTIVITY_FIELDS
    MaxItems,       \* MAX_ACTIVITY_ARRAY_ITEMS
    MaxString,      \* MAX_ACTIVITY_STRING_BYTES
    MaxParams,      \* MAX_ACTIVITY_PARAM_BYTES
    MaxId,          \* the bytes of a correlation id
    MetaSize        \* the size of the metadata

VARIABLES
    method,     \* "plain", "raw" (is_raw_reasoning_method) or "long"
    params,     \* the parameters as they came
    stage,
    event       \* the copy: body, and its metadata redacted, cut and size

vars == <<method, params, stage, event>>

Leaf(tag, size) == [k |-> "leaf", tag |-> tag, size |-> size, of |-> <<>>]
Marker == [k |-> "marker", tag |-> 0, size |-> 1, of |-> <<>>]
ListOf(entries) == [k |-> "list", tag |-> 0, size |-> 0, of |-> entries]
MapOf(entries) == [k |-> "map", tag |-> 0, size |-> 0, of |-> entries]
Entry(key, value) == [key |-> key, value |-> value]

ReasoningType == 99     \* the tag of a kind that says reasoning

\* encoded_json_len
RECURSIVE Size(_)
Size(v) ==
    IF v.k \in {"leaf", "marker"} THEN v.size
    ELSE FoldLeft(LAMBDA sum, e : sum + 1 + Size(e.value), 1, v.of)

\* explicit_activity_marker: what upstream marked
Marked(v) == v.k = "map" /\ \E i \in DOMAIN v.of : v.of[i].key = "marked"

\* object_is_reasoning
IsReasoning(v) == \E i \in DOMAIN v.of : v.of[i].key = "kind" /\ v.of[i].value.tag = ReasoningType

Safe(key) == key \in {"thread", "id", "kind", "summary"}

\* Mutant: only the key tells, not what the object says that it is.
HidesByKey(object, key) == key \in {"secret", "reasoning"}
Hides(object, key) == key \in {"secret", "reasoning"} \/ (IsReasoning(object) /\ ~Safe(key))

Truncated(leaf, max) == [leaf EXCEPT !.size = Min({leaf.size, max})]
Cut(stats, reason) == [stats EXCEPT !.cut = @ \cup {reason}]

-----------------------------------------------------------------------------
\* sanitize_activity_node
RECURSIVE Sanitized(_, _, _)
Sanitized(v, depth, stats) ==
    IF depth >= MaxDepth THEN [value |-> Marker, stats |-> Cut(stats, "maxDepth")]
    ELSE CASE v.k = "leaf" ->
                [value |-> Truncated(v, MaxString),
                 stats |-> IF v.size > MaxString THEN Cut(stats, "maxStringBytes") ELSE stats]
           [] v.k = "list" ->
                LET kept == SubSeq(v.of, 1, Min({Len(v.of), MaxItems}))
                    all == FoldLeft(LAMBDA done, e :
                                      LET next == Sanitized(e.value, depth + 1, done.stats)
                                      IN  [of |-> Append(done.of, Entry(e.key, next.value)), stats |-> next.stats],
                                    [of |-> <<>>, stats |-> IF kept = v.of THEN stats ELSE Cut(stats, "maxArrayItems")],
                                    kept)
                IN  [value |-> ListOf(all.of), stats |-> all.stats]
           [] v.k = "marker" \/ Marked(v) -> [value |-> Marker, stats |-> stats]
           [] OTHER ->
                LET field(done, e) ==
                      IF done.stats.fields >= MaxFields THEN [done EXCEPT !.stats = Cut(@, "maxFields")]
                      ELSE LET one == [done.stats EXCEPT !.fields = @ + 1]
                               next == CASE Hides(v, e.key) /\ (e.key = "secret" \/ ~Marked(e.value)) ->
                                              [value |-> Marker, stats |-> [one EXCEPT !.redacted = TRUE]]
                                         [] Marked(e.value) -> [value |-> Marker, stats |-> one]
                                         [] OTHER -> Sanitized(e.value, depth + 1, one)
                           IN  [of |-> Append(done.of, Entry(e.key, next.value)), stats |-> next.stats]
                    all == FoldLeft(field, [of |-> <<>>, stats |-> stats], v.of)
                IN  [value |-> MapOf(all.of), stats |-> all.stats]

\* correlation_only_params
Ids(v, keys) ==
    LET ids == SelectSeq(v.of, LAMBDA e : e.key \in keys /\ e.value.k = "leaf")
    IN  [i \in DOMAIN ids |-> Entry(ids[i].key, Truncated(ids[i].value, MaxId))]

CorrelationOnly(v) ==
    LET items == SelectSeq(v.of, LAMBDA e : e.key = "item")
        ids == IF items = <<>> THEN <<>> ELSE Ids(Head(items).value, {"id", "kind"})
    IN  MapOf(Ids(v, {"thread", "id", "kind"}) \o (IF ids = <<>> THEN <<>> ELSE <<Entry("item", MapOf(ids))>>))

\* sanitize_activity_params; the size counts the metadata, and in it retainedBytes
Event(body, stats, size) == [body |-> body, redacted |-> stats.redacted, cut |-> stats.cut, size |-> size]
Bounded(v, stats) ==
    LET body == CorrelationOnly(v) IN Event(body, Cut(stats, "maxEncodedBytes"), Size(body) + MetaSize)

SanitizedParams(m, v) ==
    LET none == [redacted |-> FALSE, cut |-> {}, fields |-> 0]
        first == IF m = "raw" THEN [value |-> CorrelationOnly(v), stats |-> [none EXCEPT !.redacted = TRUE]]
                 ELSE Sanitized(v, 0, none)
        body == IF first.value.k \in {"map", "marker"} THEN first.value ELSE MapOf(<<Entry("text", first.value)>>)
    IN  IF Size(body) + MetaSize + 1 > MaxParams THEN Bounded(v, first.stats)
        ELSE Event(body, first.stats, Size(body) + MetaSize + 1)

\* sanitize_method_and_params: a method that is cut is told in the metadata
CopyOf(m, v) ==
    LET copy == SanitizedParams(m, v)
    IN  IF m = "long" THEN [copy EXCEPT !.cut = @ \cup {"maxMethodBytes"}, !.size = @ + 1] ELSE copy

\* already_sanitized_activity; the metadata is a field of the copy
Recorded(m, e) == IF e.size <= MaxParams THEN e ELSE SanitizedParams(m, e.body)

-----------------------------------------------------------------------------
NoEvent == [body |-> Marker, redacted |-> FALSE, cut |-> {}, size |-> 0]

Init ==
    /\ method \in {"plain", "raw", "long"}
    /\ params \in Inputs
    /\ stage = "received" /\ event = NoEvent

Sanitize ==
    /\ stage = "received"
    /\ stage' = "routed"
    /\ event' = CopyOf(method, params)
    /\ UNCHANGED <<method, params>>

Record ==
    /\ stage = "routed"
    /\ stage' = "recorded"
    /\ event' = Recorded(method, event)
    /\ UNCHANGED <<method, params>>

Next == Sanitize \/ Record

Spec == Init /\ [][Next]_vars

-----------------------------------------------------------------------------
RECURSIVE Leaves(_)
Leaves(v) == IF v.k = "leaf" THEN {v} ELSE UNION {Leaves(v.of[i].value) : i \in DOMAIN v.of}

\* The leaves below a key that must not go on, whatever is between
RECURSIVE Private(_)
Private(v) ==
    UNION {LET e == v.of[i]
           IN  IF e.key \in {"secret", "reasoning"} \/ (v.k = "map" /\ IsReasoning(v) /\ ~Safe(e.key))
               THEN Leaves(e.value) ELSE Private(e.value) : i \in DOMAIN v.of}

RECURSIVE HasMark(_)
HasMark(v) == Marked(v) \/ \E i \in DOMAIN v.of : HasMark(v.of[i].value)

\* Nothing of a credential or of raw reasoning goes on, wherever it is nested; the
\* copy is bounded; and what is missing in it is told: by the metadata, or by the
\* mark upstream had put; and its thread is still told, unless larger fields came
\* before it (sanitize_activity_params, incoming_thread_id). What is saved is what was
\* routed, but for the copy of a long method, which may be over the bound by its
\* own metadata and is then cut once more.
ActivityIsSafe ==
    stage # "received" =>
        LET left == Leaves(event.body)
        IN  /\ {l.tag : l \in left} \cap {l.tag : l \in Private(params)} = {}
            /\ method = "raw" => left \subseteq Leaves(CorrelationOnly(params))
            /\ stage = "recorded" \/ method # "long" => event.size <= MaxParams
            /\ params.of # <<>> /\ Head(params.of).key = "thread" =>
                  \E i \in DOMAIN event.body.of : event.body.of[i].key = "thread"
            /\ left = Leaves(params) \/ event.redacted \/ event.cut # {} \/ HasMark(params)
=============================================================================
