------------------------------ MODULE Subagents ------------------------------
(***************************************************************************)
(* Child agents in src-tauri/src/codex_engine.rs: which child threads are  *)
(* routed and under which parent, the events of a thread that is not       *)
(* routed yet, the turns of an agent and how each is shown ended, the      *)
(* interrupts of agents with their watchdogs, and the retention of agents  *)
(* that are finished.                                                      *)
(*                                                                         *)
(* One session.  The pump handles one event at a time; `agenda` is the     *)
(* event it handles and the deferred ones it drained.  A step runs from    *)
(* one slow wait to the next: a database write, request_lifecycle, an      *)
(* app-server request.                                                     *)
(***************************************************************************)
EXTENDS DeferredQueue

CONSTANTS
    Agents,            \* child threads
    Root,              \* the session's own thread
    NoThread,
    MaxTurns,          \* turns of an agent
    MaxGeneration,     \* app-server processes
    MaxAttempts,       \* interrupts of a turn
    MaxRetainedTurns,  \* MAX_RETAINED_SUBAGENT_TURNS_PER_THREAD
    Scenarios,         \* what happens around the engine, see Scenario
    AnswersInTime      \* an agent is interrupted again once its last interrupt was answered

ASSUME SubagentsAssumption ==
    /\ IsFiniteSet(Agents)
    /\ Root \notin Agents
    /\ NoThread \notin Agents \cup {Root}
    /\ {MaxTurns, MaxGeneration, MaxAttempts, MaxRetainedTurns} \subseteq Nat \ {0}
    /\ AnswersInTime \in BOOLEAN
    /\ Scenarios \subseteq
          [room      : Nat \ {0},     \* MAX_RETAINED_SUBAGENTS_PER_GENERATION
           kinds     : SUBSET {"threadStarted", "agentMessage", "collabItem", "interrupted"},
           turns     : [Agents -> 0 .. MaxTurns],     \* how many turns each agent runs
           spawners  : SUBSET Agents,                 \* agents that spawn agents
           processes : 1 .. MaxGeneration,
           attempts  : [Agents -> 0 .. MaxAttempts],  \* interrupts of one turn
           stale     : BOOLEAN,     \* events of a lost process are still delivered
           fails     : BOOLEAN]     \* writes to the database may fail

VARIABLES
    scenario,     \* one of Scenarios, chosen at the start
    process,      \* the newest app-server process
    generation,   \* the process the root thread is routed under, 0 between two
    server,       \* the app-server's side of each agent
    agenda,       \* events the pump has taken and not handled
    completing,   \* the first of them is recorded and waits for request_lifecycle
    table,        \* deferred_by_thread
    active,       \* active_by_thread
    kept,         \* routes of children, subagent_* and agent_interrupts
    sending,      \* turn/interrupt requests that are not answered
    watchdogs,    \* interrupt watchdogs that have not run
    cancelling,   \* the watchdog that holds request_lifecycle
    shown,        \* the last end of each turn that was shown
    overtaken     \* turns whose truth came while their watchdog was recording its own

pump == <<agenda, completing, table>>
interrupts == <<sending, watchdogs, cancelling>>
seen == <<shown, overtaken>>
vars == <<scenario, process, generation, server, pump, active, kept, interrupts, seen>>

Threads == Agents \cup {Root}
Turns == 1 .. MaxTurns
\* A terminal of an agent whose turn is not known is filed under the item that
\* reported it: "collab:<item>" or "activity:<item>".
CollabKey == MaxTurns + 1
ActivityKey == MaxTurns + 2
TurnKeys == Turns \cup {CollabKey, ActivityKey}
Generations == 1 .. MaxGeneration

NoRoute == [gen |-> 0, parent |-> NoThread, launch |-> 0]
NoActive == [gen |-> 0, turn |-> 0]
NoInterrupt == [gen |-> 0, turn |-> 0, attempt |-> 0, phase |-> "none"]
NoWatchdog == [agent |-> NoThread, gen |-> 0, turn |-> 0, attempt |-> 0]

Kinds == {"threadStarted", "collabItem", "agentActivity", "turnStarted", "turnCompleted",
          "agentMessage", "collabStatus"}
\* `thread` is the event's own thread and `turn` its turn; `other` is the parent that
\* thread/started names, or the agent that an item names, and `status` what it says.
Event == [kind : Kinds, gen : Generations, thread : Threads, turn : 0 .. MaxTurns,
          other : Threads \cup {NoThread}, status : {"none", "ended", "drained"},
          terminal : BOOLEAN, size : {1}]

(***************************************************************************)
(* The tables of the children, as one record: pure functions that routing  *)
(* and retention are composed of.  Left out: announced_agents and          *)
(* subagent_results, which only choose what an emitted event says.         *)
(***************************************************************************)
NothingKept ==
    [route     |-> [a \in Agents |-> NoRoute],
     current   |-> [a \in Agents |-> 0],
     terminals |-> [a \in Agents |-> [t \in TurnKeys |-> "none"]],
     order     |-> <<>>,
     turnOrder |-> [a \in Agents |-> <<>>],
     interrupt |-> [a \in Agents |-> NoInterrupt]]

Room == scenario.room
RoutedAgents(k) == {a \in Agents : k.route[a] # NoRoute}
Retained(k, g) == {a \in Agents : k.route[a].gen = g}
IsRouted(k, t) == IF t = Root THEN generation # 0 ELSE t \in RoutedAgents(k)
RouteGeneration(k, t) == IF t = Root THEN generation ELSE k.route[t].gen
\* Something is at most once in the order it will be forgotten by.
WithoutItem(seq, x) == RemoveFirst(seq, x)

\* Mutant: one agent too many is admitted.
IsOverfull(k, g) == Cardinality(Retained(k, g)) > Room
IsFull(k, g) == Cardinality(Retained(k, g)) >= Room

\* Both retention paths forget an agent this way.
Evict(k, a) ==
    [k EXCEPT !.route[a] = NoRoute,
              !.current[a] = 0,
              !.terminals[a] = [t \in TurnKeys |-> "none"],
              !.turnOrder[a] = <<>>,
              !.interrupt[a] = NoInterrupt]

\* make_room_for_completed_subagent: only the oldest finished agent is considered.
MakeRoom(k, g) ==
    IF ~IsFull(k, g) \/ k.order = <<>> THEN k
    ELSE LET oldest == Head(k.order)
         IN  IF active[oldest] # NoActive
             THEN [k EXCEPT !.order = Append(Tail(@), oldest)]
             ELSE Evict([k EXCEPT !.order = Tail(@)], oldest)

Ancestors(k, t) ==
    LET up[n \in 0 .. Cardinality(Agents)] ==
            IF n = 0 THEN {t}
            ELSE LET below == up[n - 1]
                 IN  below \cup {k.route[a].parent : a \in below \cap RoutedAgents(k)}
    IN  up[Cardinality(Agents)]

\* Mutant: every report of a child replaces its launch turn.
LatestLaunch(route, launch) == launch
LaunchOf(route, launch) == IF route.launch = 0 THEN launch ELSE route.launch

\* Mutant: a parent that descends from the child is accepted.
IsBelowRoot(k, child, parent, g) ==
    /\ child # Root
    /\ IsRouted(k, parent)
    /\ RouteGeneration(k, parent) = g
IsAdmissible(k, child, parent, g) ==
    IsBelowRoot(k, child, parent, g) /\ child \notin Ancestors(k, parent)

\* establish_child_route: the tables afterwards and whether the child is routed there.
Establish(k, child, parent, g, launch) ==
    LET k1 == IF child \in RoutedAgents(k) THEN k ELSE MakeRoom(k, g)
        old == k1.route[child]
    IN  IF child = parent THEN [kept |-> k, ok |-> FALSE]
        ELSE IF ~IsAdmissible(k1, child, parent, g) THEN [kept |-> k1, ok |-> FALSE]
        ELSE IF old # NoRoute
             THEN IF old.gen = g /\ old.parent = parent
                  THEN [kept |-> [k1 EXCEPT !.route[child].launch = LaunchOf(old, launch)],
                        ok |-> TRUE]
                  ELSE [kept |-> k1, ok |-> FALSE]
        ELSE IF IsFull(k1, g) THEN [kept |-> k1, ok |-> FALSE]
        ELSE [kept |-> [k1 EXCEPT !.route[child] = [gen |-> g, parent |-> parent, launch |-> launch]],
              ok |-> TRUE]

\* prune_subagent_turn_state
KeepTurn(k, a, t) ==
    LET order == Append(WithoutItem(k.turnOrder[a], t), t)
        over == Len(order) > MaxRetainedTurns
    IN  [k EXCEPT !.turnOrder[a] = IF over THEN Tail(order) ELSE order,
                  !.terminals[a] = IF over THEN [@ EXCEPT ![Head(order)] = "none"] ELSE @]

\* prune_subagent_state: an agent that runs again leaves the order and stays routed.
KeepAgent(k, a, running) ==
    LET order == Append(WithoutItem(k.order, a), a)
        k1 == [k EXCEPT !.order = IF Len(order) > Room THEN Tail(order) ELSE order]
    IN  IF Len(order) > Room /\ Head(order) \notin running THEN Evict(k1, Head(order))
        ELSE k1

(***************************************************************************)
(* Ends of turns.                                                          *)
(***************************************************************************)
\* A turn is recorded as ended by the truth once; a watchdog's record gives way.
IsFirst(k, a, t) == k.terminals[a][t] # "authoritative"
Retire(a, g, t) ==
    IF active[a] = [gen |-> g, turn |-> t] THEN [active EXCEPT ![a] = NoActive] ELSE active
\* The end of a turn as an item of another thread reports it.
RetiredByItem(a, g, t) == Retire(a, g, t)
Running(act) == {a \in Agents : act[a] # NoActive}
Remembered(k, a, t, running) ==
    KeepAgent(KeepTurn([k EXCEPT !.terminals[a][t] = "authoritative"], a, t), a, running)
ShowTruth(a, t) ==
    /\ shown' = IF t \in Turns THEN [shown EXCEPT ![a][t] = "authoritative"] ELSE shown
    /\ overtaken' = IF cancelling.agent = a /\ cancelling.turn = t
                    THEN overtaken \cup {<<a, t>>} ELSE overtaken

\* The agent's current turn, or the item when no turn of it is known.
TurnKey(k, a, item) == IF k.current[a] # 0 THEN k.current[a] ELSE item

(***************************************************************************)
(* The pump.  `rest` is what it has still to handle after event e.         *)
(***************************************************************************)
HandledNothing(rest) ==
    /\ agenda' = rest
    /\ UNCHANGED <<completing, table, active, kept, seen>>

DeferEvent(k, e, rest) ==
    /\ \E first \in SetToSeqs(DOMAIN table \cup {e.thread}) :
           table' = Defer(table, e.thread, e, first).table
    /\ kept' = k
    /\ agenda' = rest
    /\ UNCHANGED <<completing, active, seen>>

\* The events that were deferred for t come before the rest.
Drained(t, rest) ==
    /\ agenda' = QueueOf(table, t) \o rest
    /\ table' = Drop(table, t)

\* thread/started names the parent and routes the thread by itself.
ThreadStarted(e, rest) ==
    LET routed == Establish(kept, e.thread, e.other, e.gen, 0)
    IN  IF IsRouted(kept, e.other) /\ RouteGeneration(kept, e.other) # e.gen
        THEN HandledNothing(rest)
        ELSE IF routed.ok
        THEN /\ kept' = routed.kept
             /\ Drained(e.thread, <<[e EXCEPT !.status = "drained"]>> \o rest)
             /\ UNCHANGED <<completing, active, seen>>
        ELSE IF IsRouted(routed.kept, e.thread)
        THEN /\ kept' = routed.kept
             /\ agenda' = rest
             /\ UNCHANGED <<completing, table, active, seen>>
        ELSE DeferEvent(routed.kept, e, rest)

\* "turn/started" of a child thread.  A turn that is recorded as ended stays so.
TurnStarted(e, rest) ==
    /\ agenda' = rest
    /\ IF kept.terminals[e.thread][e.turn] # "none" THEN UNCHANGED <<active, kept>>
       ELSE /\ active' = [active EXCEPT ![e.thread] = [gen |-> e.gen, turn |-> e.turn]]
            /\ kept' = [kept EXCEPT !.current[e.thread] = e.turn]
    /\ UNCHANGED <<completing, table, seen>>

\* register_collab_routes; project_collab_status follows what was drained.
CollabItem(e, rest) ==
    LET routed == Establish(kept, e.other, e.thread, e.gen, e.turn)
        after == IF e.status = "ended" THEN <<[e EXCEPT !.kind = "collabStatus"]>> \o rest
                 ELSE rest
    IN  /\ IF routed.ok
           THEN Drained(e.other, after)
           ELSE agenda' = after /\ UNCHANGED table
        /\ kept' = routed.kept
        /\ UNCHANGED <<completing, active, seen>>

CollabStatus(e, rest) ==
    LET a == e.other
        t == TurnKey(kept, a, CollabKey)
    IN  /\ agenda' = rest
        /\ IF IsFirst(kept, a, t)
           THEN /\ active' = RetiredByItem(a, e.gen, t)
                /\ kept' = Remembered(kept, a, t, Running(active'))
                /\ ShowTruth(a, t)
           ELSE UNCHANGED <<active, kept, seen>>
        /\ UNCHANGED <<completing, table>>

\* project_subagent_activity.  An interruption ends the agent's current turn.
AgentActivity(e, rest) ==
    LET a == e.other
        routed == Establish(kept, a, e.thread, e.gen, e.turn)
        k == routed.kept
        t == TurnKey(k, a, ActivityKey)
        ends == e.status = "ended"
    IN  IF ~routed.ok
        THEN kept' = k /\ agenda' = rest /\ UNCHANGED <<completing, table, active, seen>>
        ELSE /\ active' = IF ends THEN RetiredByItem(a, e.gen, t) ELSE active
             /\ kept' = IF ends /\ IsFirst(k, a, t) THEN Remembered(k, a, t, Running(active'))
                        ELSE k
             /\ IF ends /\ IsFirst(k, a, t) THEN ShowTruth(a, t) ELSE UNCHANGED seen
             /\ IF a \in RoutedAgents(kept) THEN agenda' = rest /\ UNCHANGED table
                ELSE Drained(a, rest)
             /\ UNCHANGED completing

\* handle_bounded_incoming, and handle_notification once the event is recorded.
Handle(e, rest) ==
    /\ IF e.kind = "collabStatus" THEN CollabStatus(e, rest)
       ELSE IF IsRouted(kept, e.thread) /\ RouteGeneration(kept, e.thread) # e.gen
       THEN HandledNothing(rest)
       ELSE IF e.kind = "threadStarted" /\ e.status # "drained" THEN ThreadStarted(e, rest)
       ELSE IF ~IsRouted(kept, e.thread) THEN DeferEvent(kept, [e EXCEPT !.status =
                                                  IF @ = "drained" THEN "none" ELSE @], rest)
       ELSE \/ /\ scenario.fails
               /\ HandledNothing(rest)
            \/ CASE e.kind = "turnStarted" -> TurnStarted(e, rest)
                 [] e.kind = "turnCompleted" ->
                        /\ completing' = TRUE
                        /\ agenda' = <<e>> \o rest
                        /\ UNCHANGED <<table, active, kept, seen>>
                 [] e.kind = "collabItem" -> CollabItem(e, rest)
                 [] e.kind = "agentActivity" -> AgentActivity(e, rest)
                 [] e.kind = "agentMessage" ->
                        /\ kept' = KeepTurn(kept, e.thread, e.turn)
                        /\ agenda' = rest
                        /\ UNCHANGED <<completing, table, active, seen>>
                 [] OTHER -> HandledNothing(rest)
    /\ UNCHANGED <<scenario, process, generation, interrupts>>

\* A drained event is handled before the pump takes the next.
HandleNext ==
    /\ agenda # <<>>
    /\ ~completing
    /\ Handle(Head(agenda), Tail(agenda))
    /\ UNCHANGED server

LifecycleFree == cancelling = NoWatchdog

\* complete_turn for a child thread, once it has request_lifecycle.  The interrupt
\* of the thread is forgotten whatever turn it was for.
CompleteTurn ==
    LET e == Head(agenda)
        a == e.thread
        act == Retire(a, e.gen, e.turn)
    IN  /\ completing
        /\ LifecycleFree
        /\ active' = act
        /\ IF IsFirst(kept, a, e.turn)
           THEN /\ kept' = Remembered([kept EXCEPT !.interrupt[a] = NoInterrupt], a, e.turn,
                                      Running(act))
                /\ ShowTruth(a, e.turn)
           ELSE UNCHANGED <<kept, seen>>
        /\ agenda' = Tail(agenda)
        /\ completing' = FALSE
        /\ UNCHANGED <<scenario, process, generation, server, table, interrupts>>

\* handle_transport_closed, as far as it is about children.
HandleClosed ==
    /\ agenda = <<>>
    /\ LifecycleFree
    /\ generation # 0
    /\ generation' = 0
    /\ active' = [a \in Agents |-> NoActive]
    /\ kept' = NothingKept
    /\ table' = WithoutGeneration(table, generation)
    /\ server' = [a \in Agents |-> [server[a] EXCEPT !.parent = NoThread, !.running = FALSE]]
    /\ UNCHANGED <<scenario, process, agenda, completing, interrupts, seen>>

\* register_root_route for a new process.
RegisterRoot ==
    /\ generation = 0
    /\ process < scenario.processes
    /\ process' = process + 1
    /\ generation' = process'
    /\ table' = Drop(table, Root)
    /\ UNCHANGED <<scenario, server, agenda, completing, active, kept, interrupts, seen>>

(***************************************************************************)
(* interrupt_agent and its watchdog.                                       *)
(***************************************************************************)
IsFor(state, a) == state.gen = active[a].gen /\ state.turn = active[a].turn

Interrupt(a) ==
    LET state == kept.interrupt[a]
        attempt == IF IsFor(state, a) THEN state.attempt + 1 ELSE 1
        w == [agent |-> a, gen |-> active[a].gen, turn |-> active[a].turn, attempt |-> attempt]
    IN  /\ active[a] # NoActive
        /\ ~(IsFor(state, a) /\ state.phase \in {"Sending", "Sent"})
        /\ attempt <= scenario.attempts[a]
        /\ AnswersInTime => \A v \in sending : v.agent # a
        /\ kept' = [kept EXCEPT !.interrupt[a] = [gen |-> w.gen, turn |-> w.turn,
                                                   attempt |-> attempt, phase |-> "Sending"]]
        /\ sending' = sending \cup {w}
        /\ UNCHANGED <<scenario, process, generation, server, pump, active, watchdogs, cancelling, seen>>

\* The answer, an error or the request's timeout; the entry is recognized by the
\* number of the attempt.
Settle(w, phase) ==
    kept' = IF kept.interrupt[w.agent].attempt = w.attempt
            THEN [kept EXCEPT !.interrupt[w.agent].phase = phase] ELSE kept

\* Mutant: nothing waits for the end of an interrupted turn.
AcceptedUnwatched(w) ==
    /\ w \in sending
    /\ Settle(w, "Sent")
    /\ sending' = sending \ {w}
    /\ UNCHANGED <<scenario, process, generation, server, pump, active, watchdogs, cancelling, seen>>

InterruptAccepted(w) ==
    /\ w \in sending
    /\ Settle(w, "Sent")
    /\ sending' = sending \ {w}
    /\ watchdogs' = watchdogs \cup {w}
    /\ UNCHANGED <<scenario, process, generation, server, pump, active, cancelling, seen>>

\* Mutant: the request's failure is not noted.
FailureUnnoted(w) ==
    /\ w \in sending
    /\ sending' = sending \ {w}
    /\ UNCHANGED <<scenario, process, generation, server, pump, active, kept, watchdogs, cancelling, seen>>

InterruptFails(w) ==
    /\ w \in sending
    /\ Settle(w, "Retryable")
    /\ sending' = sending \ {w}
    /\ UNCHANGED <<scenario, process, generation, server, pump, active, watchdogs, cancelling, seen>>

IsExact(state, w) == state.gen = w.gen /\ state.turn = w.turn /\ state.attempt = w.attempt
IsOpen(w) ==
    /\ active[w.agent] = [gen |-> w.gen, turn |-> w.turn]
    /\ kept.terminals[w.agent][w.turn] = "none"

\* handle_agent_interrupt_watchdog up to its database write, and after it.
WatchdogChecks(w) ==
    LET state == kept.interrupt[w.agent]
        exact == /\ kept.route[w.agent].gen = w.gen
                 /\ IsExact(state, w) /\ state.phase = "Sent"
                 /\ IsOpen(w)
    IN  /\ w \in watchdogs
        /\ LifecycleFree
        /\ watchdogs' = watchdogs \ {w}
        /\ cancelling' = IF exact THEN w ELSE NoWatchdog
        /\ UNCHANGED <<scenario, process, generation, server, pump, active, kept, sending, seen>>

WatchdogCancels ==
    LET w == cancelling
        a == w.agent
        k == [kept EXCEPT !.interrupt[a] = IF IsExact(@, w) THEN NoInterrupt ELSE @,
                          !.terminals[a][w.turn] = "synthetic"]
    IN  /\ cancelling # NoWatchdog
        /\ active' = Retire(a, w.gen, w.turn)
        /\ kept' = KeepTurn(k, a, w.turn)
        /\ shown' = [shown EXCEPT ![a][w.turn] = "synthetic"]
        /\ cancelling' = NoWatchdog
        /\ UNCHANGED <<scenario, process, generation, server, pump, sending, watchdogs, overtaken>>

WatchdogUnsaved ==
    LET w == cancelling
    IN  /\ scenario.fails
        /\ cancelling # NoWatchdog
        /\ kept' = IF IsExact(kept.interrupt[w.agent], w)
                   THEN [kept EXCEPT !.interrupt[w.agent].phase = "Retryable"] ELSE kept
        /\ cancelling' = NoWatchdog
        /\ UNCHANGED <<scenario, process, generation, server, pump, active, sending, watchdogs, seen>>

(***************************************************************************)
(* The app-server (external).  An agent is spawned by a running thread;    *)
(* its events, its parent's items about it and any thread's activity about *)
(* it come in every order that keeps the turns of each thread in order.    *)
(***************************************************************************)
NotSpawned == [parent |-> NoThread, turns |-> 0, running |-> FALSE]

Speaking == {Root} \cup {a \in scenario.spawners : server[a].running}
Speaks(t) == generation # 0 /\ t \in Speaking
TurnOf(t) == IF t = Root THEN 1 ELSE server[t].turns

Spawn(a, p) ==
    /\ p # a
    /\ Speaks(p)
    /\ server[a].parent = NoThread
    /\ server[a].turns < scenario.turns[a]
    /\ server' = [server EXCEPT ![a].parent = p]
    /\ UNCHANGED <<scenario, process, generation, pump, active, kept, interrupts, seen>>

EventOf(kind, g, t, turn, other, status) ==
    [kind |-> kind, gen |-> g, thread |-> t, turn |-> turn, other |-> other,
     status |-> status, size |-> 1,
     terminal |-> kind = "turnCompleted" \/ (kind = "collabItem" /\ status = "ended")]

\* The pump takes an event that has just been sent.
Send(e) ==
    /\ agenda = <<>>
    /\ Handle(e, <<>>)

SendStarted(a) ==
    /\ generation # 0
    /\ server[a].parent # NoThread
    /\ ~server[a].running
    /\ server[a].turns < scenario.turns[a]
    /\ server' = [server EXCEPT ![a].turns = @ + 1, ![a].running = TRUE]
    /\ Send(EventOf("turnStarted", generation, a, server[a].turns + 1, NoThread, "none"))

SendCompleted(a) ==
    /\ server[a].running
    /\ server' = [server EXCEPT ![a].running = FALSE]
    /\ Send(EventOf("turnCompleted", generation, a, server[a].turns, NoThread, "none"))

SendMessage(a) ==
    /\ "agentMessage" \in scenario.kinds
    /\ server[a].running
    /\ Send(EventOf("agentMessage", generation, a, server[a].turns, NoThread, "none"))
    /\ UNCHANGED server

SendThreadStarted(a) ==
    /\ "threadStarted" \in scenario.kinds
    /\ server[a].parent # NoThread
    /\ Send(EventOf("threadStarted", generation, a, 0, server[a].parent, "none"))
    /\ UNCHANGED server

SendCollabItem(a, status) ==
    /\ "collabItem" \in scenario.kinds
    /\ server[a].parent # NoThread
    /\ Speaks(server[a].parent)
    /\ status = "ended" => ~server[a].running
    /\ Send(EventOf("collabItem", generation, server[a].parent, TurnOf(server[a].parent), a, status))
    /\ UNCHANGED server

SendActivity(p, a, status) ==
    /\ status = "ended" => "interrupted" \in scenario.kinds
    /\ server[a].parent # NoThread
    /\ p # a
    /\ Speaks(p)
    /\ Send(EventOf("agentActivity", generation, p, TurnOf(p), a, status))
    /\ UNCHANGED server

\* A late event of a process that is gone.
SendStale(a, t) ==
    /\ scenario.stale
    /\ t \in 1 .. server[a].turns
    /\ \E g \in 1 .. process :
           /\ g # generation
           /\ Send(EventOf("turnStarted", g, a, t, NoThread, "none"))
    /\ UNCHANGED server

Init ==
    /\ scenario \in Scenarios
    /\ process = 1
    /\ generation = 1
    /\ server = [a \in Agents |-> NotSpawned]
    /\ agenda = <<>>
    /\ completing = FALSE
    /\ table = <<>>
    /\ active = [a \in Agents |-> NoActive]
    /\ kept = NothingKept
    /\ sending = {}
    /\ watchdogs = {}
    /\ cancelling = NoWatchdog
    /\ shown = [a \in Agents |-> [t \in Turns |-> "none"]]
    /\ overtaken = {}

Pump == HandleNext \/ CompleteTurn
Answer(w) == InterruptAccepted(w) \/ InterruptFails(w)
Next ==
    \/ Pump
    \/ HandleClosed
    \/ RegisterRoot
    \/ WatchdogCancels
    \/ WatchdogUnsaved
    \/ \E w \in sending : Answer(w)
    \/ \E w \in watchdogs : WatchdogChecks(w)
    \/ \E a \in Agents :
          \/ Interrupt(a)
          \/ SendStarted(a)
          \/ SendCompleted(a)
          \/ SendMessage(a)
          \/ SendThreadStarted(a)
          \/ \E status \in {"none", "ended"} : SendCollabItem(a, status)
          \/ \E p \in Threads : Spawn(a, p)
          \/ \E p \in Threads, status \in {"none", "ended"} : SendActivity(p, a, status)
          \/ \E t \in Turns : SendStale(a, t)

Watchdogs == [agent : Agents, gen : Generations, turn : Turns, attempt : 1 .. MaxAttempts]

\* An interrupt is answered or times out; a watchdog's delay passes and it gets the
\* lock; a write ends, with success or not.  Nothing is asked of the pump.
Fairness ==
    /\ WF_vars(\E w \in sending : Answer(w))
    /\ WF_vars(\E w \in watchdogs : WatchdogChecks(w))
    /\ WF_vars(WatchdogCancels \/ WatchdogUnsaved)

Spec == Init /\ [][Next]_vars
FairSpec == Spec /\ Fairness

(***************************************************************************)
(* Properties.                                                             *)
(***************************************************************************)
ToSetOf(seq) == {seq[i] : i \in DOMAIN seq}

TypeOK ==
    /\ scenario \in Scenarios
    /\ process \in Generations
    /\ generation \in {0, process}
    /\ server \in [Agents -> [parent : Threads \cup {NoThread}, turns : 0 .. MaxTurns,
                              running : BOOLEAN]]
    /\ ToSetOf(agenda) \subseteq Event
    /\ completing => agenda # <<>>
    /\ DOMAIN table \subseteq Threads
    /\ \A t \in DOMAIN table : ToSetOf(table[t]) \subseteq Event
    /\ active \in [Agents -> [gen : 0 .. MaxGeneration, turn : 0 .. MaxTurns]]
    /\ kept.route \in [Agents -> [gen : 0 .. MaxGeneration, parent : Threads \cup {NoThread},
                                  launch : 0 .. MaxTurns]]
    /\ kept.current \in [Agents -> 0 .. MaxTurns]
    /\ kept.terminals \in [Agents -> [TurnKeys -> {"none", "synthetic", "authoritative"}]]
    /\ ToSetOf(kept.order) \subseteq Agents
    /\ \A a \in Agents : ToSetOf(kept.turnOrder[a]) \subseteq TurnKeys
    /\ kept.interrupt \in [Agents -> [gen : 0 .. MaxGeneration, turn : 0 .. MaxTurns,
                              attempt : 0 .. MaxAttempts,
                              phase : {"none", "Sending", "Sent", "Retryable"}]]
    /\ sending \cup watchdogs \subseteq Watchdogs
    /\ cancelling \in Watchdogs \cup {NoWatchdog}
    /\ shown \in [Agents -> [Turns -> {"none", "synthetic", "authoritative"}]]
    /\ overtaken \subseteq Agents \X Turns

\* What is kept of children is bounded: admission stops at Room, and whatever
\* is recorded of a turn is in the order it will be forgotten by.
RetentionIsBounded ==
    /\ Cardinality(RoutedAgents(kept)) <= Room
    /\ Len(kept.order) <= Room
    /\ Cardinality(ToSetOf(kept.order)) = Len(kept.order)
    /\ \A a \in Agents :
          /\ Len(kept.turnOrder[a]) <= MaxRetainedTurns
          /\ \A t \in TurnKeys : kept.terminals[a][t] # "none" => t \in ToSetOf(kept.turnOrder[a])

\* An agent whose last turn ended by the truth can be forgotten for a new one: the
\* room of a finished agent comes back.
FinishedIsEvictable ==
    \A a \in RoutedAgents(kept) :
        /\ active[a] = NoActive
        /\ kept.current[a] # 0
        /\ kept.terminals[a][kept.current[a]] = "authoritative"
        => a \in ToSetOf(kept.order)

\* Room for a new agent is bounded and comes back.
RetentionIsSound == TypeOK /\ RetentionIsBounded /\ FinishedIsEvictable

\* Parents lead to the root thread or to a parent that was forgotten, never back.
NoCycle == \A a \in RoutedAgents(kept) : a \notin Ancestors(kept, kept.route[a].parent)

\* A turn whose truth is known is not the active one, whichever of the agent's own
\* terminal, its parent's item and an interruption reported it, and however deferral
\* and draining mixed its events with theirs.
ActiveIsUnfinished ==
    \A a \in Agents : active[a] # NoActive => kept.terminals[a][active[a].turn] # "authoritative"

\* An active turn whose interrupt counts as sent has a watchdog for exactly that
\* attempt: nobody waits for an end that may not come.
SentIsWatched ==
    \A a \in Agents :
        LET state == kept.interrupt[a]
        IN  state.phase = "Sent" /\ active[a] = [gen |-> state.gen, turn |-> state.turn]
            => \E w \in watchdogs \cup {cancelling} : w.agent = a /\ IsExact(state, w)

\* Routes, turns, interrupts and watchdogs of the agents say the same.
RegistryAgrees == NoCycle /\ ActiveIsUnfinished /\ SentIsWatched

\* While a child is routed its parent stays, and so does its launch turn once known.
ProvenanceStays ==
    [][\A a \in RoutedAgents(kept) \cap RoutedAgents(kept') :
          /\ kept'.route[a].parent = kept.route[a].parent
          /\ kept'.route[a].gen = kept.route[a].gen
          /\ kept.route[a].launch \in {0, kept'.route[a].launch}]_vars

\* A turn that was shown ended by the truth is shown cancelled afterwards only if the
\* truth came while the watchdog, past its checks, was writing its record.
TruthStays ==
    [][\A a \in Agents, t \in Turns :
          /\ shown[a][t] = "authoritative"
          /\ shown'[a][t] = "synthetic"
          => <<a, t>> \in overtaken]_vars

\* What is known of a child is not unlearned.
HistoryStands == ProvenanceStays /\ TruthStays

\* An interrupt of an active turn is not on its way or sent for ever: the turn ends or
\* the interrupt can be tried again.
IsWaiting(a) ==
    LET state == kept.interrupt[a]
    IN  /\ state.phase \in {"Sending", "Sent"}
        /\ active[a] = [gen |-> state.gen, turn |-> state.turn]

InterruptResolves == \A a \in Agents : []<>~IsWaiting(a)
==============================================================================
