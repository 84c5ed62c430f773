---------------------------- MODULE DeferredQueue ----------------------------
(***************************************************************************)
(* Events of threads that have no route yet, in                            *)
(* src-tauri/src/codex_engine.rs: they are kept per thread, within four    *)
(* limits, until the thread is routed.  A terminal event (the end of a     *)
(* turn, of an item, of a thread, of a request) is worth more than a       *)
(* diagnostic one.                                                         *)
(*                                                                         *)
(* A table maps the threads that have a queue to their queues.  The code   *)
(* iterates over a HashMap, whose order is arbitrary: `first` says which   *)
(* threads come first.                                                     *)
(***************************************************************************)
EXTENDS Naturals, Sequences, FiniteSets, SequencesExt, FiniteSetsExt, Functions

CONSTANTS
    MaxDeferredThreads,    \* MAX_DEFERRED_THREADS
    MaxEventsPerThread,    \* MAX_DEFERRED_EVENTS_PER_THREAD
    MaxBytesPerThread,     \* MAX_DEFERRED_BYTES_PER_THREAD
    MaxBytesTotal          \* MAX_DEFERRED_BYTES_TOTAL

ASSUME DeferredAssumption ==
    {MaxDeferredThreads, MaxEventsPerThread, MaxBytesPerThread, MaxBytesTotal} \subseteq Nat \ {0}

Bytes(queue) == FoldLeft(LAMBDA total, e : total + e.size, 0, queue)
TotalBytes(table) == MapThenSumSet(LAMBDA t : Bytes(table[t]), DOMAIN table)
Terminals(queue) == SelectSeq(queue, LAMBDA e : e.terminal)
Diagnostics(queue) == {i \in DOMAIN queue : ~queue[i].terminal}
Drop(table, t) == [u \in DOMAIN table \ {t} |-> table[u]]
FirstOf(first, threads) == first[SelectInSeq(first, LAMBDA t : t \in threads)]

(***************************************************************************)
(* One thread's queue.                                                     *)
(***************************************************************************)
Saturated(queue, event) ==
    \/ Len(queue) >= MaxEventsPerThread
    \/ Bytes(queue) + event.size > MaxBytesPerThread

\* A full queue gives up its oldest diagnostic, and for a terminal its oldest
\* terminal if it has no diagnostic.  What an event that is refused in the end
\* has displaced is gone all the same.
Displace(queue, event) ==
    IF Diagnostics(queue) # {} THEN RemoveAt(queue, Min(Diagnostics(queue)))
    ELSE IF event.terminal /\ queue # <<>> THEN Tail(queue)
    ELSE queue

Enqueue(queue, event) ==
    LET displaced[n \in 0 .. Len(queue)] ==
            IF n = 0 THEN queue
            ELSE LET left == displaced[n - 1]
                 IN  IF Saturated(left, event) THEN Displace(left, event) ELSE left
        room == displaced[Len(queue)]
    IN  IF event.size > MaxBytesPerThread THEN [queue |-> queue, inserted |-> FALSE]
        ELSE IF Saturated(room, event) THEN [queue |-> room, inserted |-> FALSE]
        ELSE [queue |-> Append(room, event), inserted |-> TRUE]

(***************************************************************************)
(* The table.                                                              *)
(***************************************************************************)
\* evict_deferred_thread_for_terminal: a thread with diagnostics only, or else
\* one with the fewest terminals.
EvictThread(table, first) ==
    LET spare == {t \in DOMAIN table : Terminals(table[t]) = <<>>}
        fewest == {t \in DOMAIN table : \A u \in DOMAIN table :
                                           Len(Terminals(table[t])) <= Len(Terminals(table[u]))}
    IN  Drop(table, FirstOf(first, IF spare # {} THEN spare ELSE fewest))

\* evict_deferred_diagnostic
EvictDiagnostic(table, t) ==
    LET queue == RemoveAt(table[t], Min(Diagnostics(table[t])))
    IN  IF queue = <<>> THEN Drop(table, t) ELSE [table EXCEPT ![t] = queue]

\* Over the total, one diagnostic of any thread goes; when there is none left, a
\* whole thread.
Shrink(table, first) ==
    LET loose == {t \in DOMAIN table : Diagnostics(table[t]) # {}}
    IN  IF loose # {} THEN EvictDiagnostic(table, FirstOf(first, loose))
        ELSE Drop(table, FirstOf(first, DOMAIN table))

EventCount(table) == MapThenSumSet(LAMBDA t : Len(table[t]) + 1, DOMAIN table)

WithinTotal(table, first) ==
    LET shrunk[n \in 0 .. EventCount(table)] ==
            IF n = 0 THEN table
            ELSE LET left == shrunk[n - 1]
                 IN  IF TotalBytes(left) > MaxBytesTotal THEN Shrink(left, first) ELSE left
    IN  shrunk[EventCount(table)]

\* The part of handle_bounded_incoming that defers an event of a thread without a
\* route: the table afterwards and whether a warning is emitted.
Defer(table, t, event, first) ==
    LET crowded == t \notin DOMAIN table /\ Cardinality(DOMAIN table) >= MaxDeferredThreads
        admitted == IF crowded /\ event.terminal THEN EvictThread(table, first) ELSE table
        queue == IF t \in DOMAIN admitted THEN admitted[t] ELSE <<>>
        entered == Enqueue(queue, event)
        filled == [u \in DOMAIN admitted \cup {t} |->
                      IF u = t THEN entered.queue ELSE admitted[u]]
        kept == WithinTotal(filled, first)
    IN  IF crowded /\ ~event.terminal
        THEN [table |-> table, warned |-> TRUE]
        ELSE [table  |-> kept,
              warned |-> \/ crowded
                         \/ Saturated(queue, event)
                         \/ ~entered.inserted
                         \/ kept # filled]

\* drain_deferred takes a thread's queue out of the table.
QueueOf(table, t) == IF t \in DOMAIN table THEN table[t] ELSE <<>>

\* handle_transport_closed forgets the events of a generation.
OtherThan(queue, g) ==
    LET others[n \in 0 .. Len(queue)] ==
            IF n = 0 THEN <<>>
            ELSE IF queue[n].gen = g THEN others[n - 1] ELSE Append(others[n - 1], queue[n])
    IN  others[Len(queue)]

WithoutGeneration(table, g) ==
    [t \in {u \in DOMAIN table : OtherThan(table[u], g) # <<>>} |-> OtherThan(table[t], g)]
==============================================================================
