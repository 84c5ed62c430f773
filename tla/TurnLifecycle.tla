--------------------------- MODULE TurnLifecycle ---------------------------
(***************************************************************************)
(* Root turns in src-tauri/src/codex_engine.rs: run_turn, the event pump,  *)
(* interrupts with their watchdogs, and shutdown, above the contract of    *)
(* the transport (module Transport, which AppServer implements).           *)
(*                                                                         *)
(* A step runs from one slow wait to the next: an app-server request, a    *)
(* database write, the request_lifecycle mutex, a timer, or the server's   *)
(* state mutex.  The mutexes of the engine's maps are held for one         *)
(* statement and are no scheduling points.                                 *)
(*                                                                         *)
(* A session has one thread and a run starts at most one turn, so a thread *)
(* is named by its session and a turn by the run that asked for it.  A     *)
(* root event whose thread has no route is dropped here; the code defers   *)
(* it until a route of its generation appears.                             *)
(***************************************************************************)
EXTENDS Transport, Sequences

CONSTANTS
    Sessions,
    Runs,            \* calls of run_turn, and the turns they start
    Stops,           \* calls of interrupt_session
    Pump,            \* the task that consumes the transport's events
    NoRun,
    SessionOf,       \* the session each run is for
    ShutsDown,       \* whether shutdown is called
    StorageFails,    \* whether writes to the database may fail
    Overlaps,        \* whether a session's next run may begin while one that
                     \* lost the session is still under way
    KeepsUp          \* whether a turn's start is handled before the session's next run
                     \* and before a watchdog's delay is over

ASSUME TurnAssumption ==
    /\ MaxGeneration \in Nat
    /\ SessionOf \in [Runs -> Sessions]
    /\ NoRun \notin Runs
    /\ {ShutsDown, StorageFails, Overlaps, KeepsUp} \subseteq BOOLEAN
    /\ Runs \cap Stops = {}
    /\ Pump \notin Runs \cup Stops

Tasks == Runs \cup Stops \cup {Pump}
Turns == Runs

VARIABLES
    active,        \* active_by_session
    pendingStart,  \* pending_starts, by thread
    projected,     \* turns: the generation a turn is projected under, or none
    activeThread,  \* active_by_thread
    route,         \* routes: the generation of each root thread's route
    bound,         \* sessions whose codex_thread_id is saved
    resumed,       \* resumed_generation
    interrupt,     \* session_interrupts
    recorded,      \* turns whose turn/completed is in the database
    lifecycle,     \* the holder of request_lifecycle across a database write
    gate,          \* how far shutdown is; "down" is *shutdown_gate
    pc,            \* where each task is between two waits
    job,           \* the locals of each task
    watchdogs,     \* spawned watchdog tasks
    events,        \* the transport's broadcast events not yet handled
    server,        \* the app-server's side of each turn
    loaded,        \* the generations whose process has each thread loaded
    shown,         \* the turn a listener of the session's channel sees running
    outcome,       \* how each turn was ended for the user
    wanted,        \* runs the user asked to stop
    sent           \* turns an interrupt was sent for

maps == <<active, pendingStart, projected, activeThread, route, bound, resumed, interrupt>>
tasks == <<lifecycle, gate, pc, job, watchdogs>>
seen == <<recorded, shown, outcome, wanted, sent>>
engine == <<maps, tasks, seen>>
outside == <<events, server, loaded>>
vars == <<transportVars, engine, outside>>

NoActive == [run |-> NoRun, gen |-> NoGeneration, turn |-> NoRun]
NoStart == [run |-> NoRun, gen |-> NoGeneration]
NoThreadTurn == [gen |-> NoGeneration, turn |-> NoRun]
NoInterrupt == [gen |-> NoGeneration, run |-> NoRun, turn |-> NoRun, attempt |-> 0, phase |-> "none"]
NoJob == [gen |-> NoGeneration, run |-> NoRun, turn |-> NoRun, attempt |-> 0, owner |-> FALSE, exact |-> FALSE]
NoTurn == [gen |-> NoGeneration, phase |-> "none", reply |-> FALSE]

Gens == Generations \cup {NoGeneration}
MaybeRun == Runs \cup {NoRun}
Labels == {"idle", "prepare", "status", "resume", "resumed", "threadStart", "bind", "threadStarted",
           "ready", "turnStart", "turnWait", "persist", "interrupting", "complete", "done"}

TypeOK ==
    /\ TransportTypeOK
    /\ active \in [Sessions -> [run : MaybeRun, gen : Gens, turn : MaybeRun]]
    /\ pendingStart \in [Sessions -> [run : MaybeRun, gen : Gens]]
    /\ projected \in [Turns -> Gens]
    /\ activeThread \in [Sessions -> [gen : Gens, turn : MaybeRun]]
    /\ route \in [Sessions -> Gens]
    /\ bound \in [Sessions -> BOOLEAN]
    /\ resumed \in [Sessions -> Gens]
    /\ interrupt \in [Sessions -> [gen : Gens, run : MaybeRun, turn : MaybeRun, attempt : Nat,
                                   phase : {"none", "PendingIdentity", "Sending", "Sent", "Retryable"}]]
    /\ recorded \subseteq Turns
    /\ lifecycle \in {"free", "pump", "watchdog"}
    /\ gate \in {"open", "closing", "draining", "down"}
    /\ pc \in [Tasks -> Labels]
    /\ job \in [Tasks -> [gen : Gens, run : MaybeRun, turn : MaybeRun, attempt : Nat,
                          owner : BOOLEAN, exact : BOOLEAN]]
    /\ watchdogs \subseteq [gen : Gens, run : MaybeRun, turn : Turns, attempt : Nat,
                            stage : {"armed", "woken", "append"}]
    /\ events \in Seq([kind : {"started", "completed", "closed"}, gen : Generations, turn : MaybeRun])
    /\ server \in [Turns -> [gen : Gens, phase : {"none", "accepted", "started", "done"}, reply : BOOLEAN]]
    /\ loaded \in [Sessions -> SUBSET Generations]
    /\ shown \in [Sessions -> MaybeRun]
    /\ outcome \in [Turns -> {"none", "completed", "cancelled", "unsaved"}]
    /\ wanted \subseteq Runs
    /\ sent \subseteq Turns

Init ==
    /\ TransportInit
    /\ active = [s \in Sessions |-> NoActive]
    /\ pendingStart = [s \in Sessions |-> NoStart]
    /\ projected = [t \in Turns |-> NoGeneration]
    /\ activeThread = [s \in Sessions |-> NoThreadTurn]
    /\ route = [s \in Sessions |-> NoGeneration]
    /\ bound \in [Sessions -> BOOLEAN]
    /\ resumed = [s \in Sessions |-> NoGeneration]
    /\ interrupt = [s \in Sessions |-> NoInterrupt]
    /\ recorded = {}
    /\ lifecycle = "free"
    /\ gate = "open"
    /\ pc = [p \in Tasks |-> "idle"]
    /\ job = [p \in Tasks |-> NoJob]
    /\ watchdogs = {}
    /\ events = <<>>
    /\ server = [t \in Turns |-> NoTurn]
    /\ loaded = [s \in Sessions |-> {}]
    /\ shown = [s \in Sessions |-> NoRun]
    /\ outcome = [t \in Turns |-> "none"]
    /\ wanted = {}
    /\ sent = {}

-----------------------------------------------------------------------------
(* The transport and the app-server behind it *)

\* A generation is launched, becomes ready, or stops being the current one.
TransportMoves ==
    /\ \/ Start /\ gate \in {"open", "closing"}
       \/ BecomeReady
       \/ AbandonStart
       \/ Lose
       \/ Release
    /\ UNCHANGED <<engine, outside>>

\* Mutant: the event is dropped by a receiver that fell behind.
LoseAnnouncement(g) == Announce(g) /\ UNCHANGED <<engine, outside>>

AnnounceLoss(g) ==
    /\ Announce(g)
    /\ events' = Append(events, [kind |-> "closed", gen |-> g, turn |-> NoRun])
    /\ UNCHANGED <<engine, server, loaded>>

\* A request can be answered while its generation is current, and until the
\* loss of that generation has purged the pending table.
Answers(g) == (g = current /\ ready) \/ g \in owed

ReplyTurnStart(t) ==
    /\ pc[t] = "turnWait"
    /\ ~server[t].reply
    /\ Answers(server[t].gen)
    /\ server' = [server EXCEPT ![t].reply = TRUE]
    /\ UNCHANGED <<transportVars, engine, events, loaded>>

\* Frames of a lost process that the reader still holds are broadcast too.
NotifyStarted(t) ==
    /\ server[t].phase = "accepted"
    /\ server' = [server EXCEPT ![t].phase = "started"]
    /\ events' = Append(events, [kind |-> "started", gen |-> server[t].gen, turn |-> t])
    /\ UNCHANGED <<transportVars, engine, loaded>>

NotifyCompleted(t) ==
    /\ server[t].phase = "started"
    /\ server' = [server EXCEPT ![t].phase = "done"]
    /\ events' = Append(events, [kind |-> "completed", gen |-> server[t].gen, turn |-> t])
    /\ UNCHANGED <<transportVars, engine, loaded>>

-----------------------------------------------------------------------------
(* What the tasks share *)

Goto(p, label) == pc' = [pc EXCEPT ![p] = label]

\* The end of a handler: the pump takes the next event, any other task returns.
\* Either way its locals are gone.
Return(p) ==
    /\ Goto(p, IF p = Pump THEN "idle" ELSE "done")
    /\ job' = [job EXCEPT ![p] = NoJob]

\* The start of turn t is still on its way through the pump or its run.
Starting(t) ==
    \/ server[t].phase = "accepted" /\ server[t].gen = current
    \/ \E i \in DOMAIN events : events[i].kind = "started" /\ events[i].turn = t
    \/ pc[t] = "turnWait" /\ (server[t].reply \/ server[t].gen = current)
    \/ \E p \in Tasks : pc[p] = "persist" /\ job[p].turn = t

\* Mutant: terminals are not serialized.
LifecycleIgnored == TRUE

LifecycleFree == lifecycle = "free"

\* status() waits for the mutex a startup holds.
StatusAnswers == current = NoGeneration \/ ready

RequestSucceeds == current # NoGeneration /\ ready /\ ~halted

\* Mutant: only a session whose turn is known is released.
OwnsKnownTurn(r) == active[SessionOf[r]].run = r /\ active[SessionOf[r]].turn # NoRun

Owns(r) == active[SessionOf[r]].run = r

\* run_turn after an error: a run that still owns its session releases it.
Fail(r) ==
    LET s == SessionOf[r]
        owned == Owns(r)
    IN /\ pendingStart' = [pendingStart EXCEPT ![s] = IF @.run = r THEN NoStart ELSE @]
       /\ active' = [active EXCEPT ![s] = IF owned THEN NoActive ELSE @]
       /\ interrupt' = [interrupt EXCEPT ![s] = IF owned THEN NoInterrupt ELSE @]
       /\ shown' = [shown EXCEPT ![s] = IF owned THEN NoRun ELSE @]
       /\ Return(r)

FailUntouched == <<projected, activeThread, route, bound, resumed, recorded, lifecycle, gate,
                   watchdogs, outcome, wanted, sent>>

\* An activation that ends in Err: run_turn reports it, the pump ignores it.
Refuse(p) ==
    \/ p \in Runs /\ Fail(p) /\ UNCHANGED FailUntouched
    \/ p = Pump /\ Return(p)
       /\ UNCHANGED <<pendingStart, active, interrupt, shown, FailUntouched>>

\* The run that owns its session learns its generation.
Adopt(r, g) ==
    active' = [active EXCEPT ![SessionOf[r]] = IF Owns(r) THEN [@ EXCEPT !.gen = g] ELSE @]

IsOwned(t, g) == projected[t] = g /\ route[SessionOf[t]] = g

-----------------------------------------------------------------------------
(* send_session_interrupt and activate_pending_turn *)

\* Task p asks the app-server to interrupt turn t of generation g, which owner
\* must still run.  An interrupt of that turn that is already out is enough.
SendInterrupt(p, s, g, t, owner) ==
    LET now == interrupt[s]
        same == now.gen = g /\ now.run = owner.run /\ now.turn = t
        goes == /\ owner.gen = g /\ owner.turn = t
                /\ ~(same /\ now.phase \in {"Sending", "Sent"})
        attempt == IF same THEN now.attempt + 1 ELSE 1
    IN \/ /\ goes
          /\ interrupt' = [interrupt EXCEPT ![s] = [gen |-> g, run |-> owner.run, turn |-> t,
                                                   attempt |-> attempt, phase |-> "Sending"]]
          /\ job' = [job EXCEPT ![p] = [NoJob EXCEPT !.gen = g, !.run = owner.run, !.turn = t,
                                                    !.attempt = attempt]]
          /\ sent' = sent \cup {t}
          /\ Goto(p, "interrupting")
       \/ /\ ~goes
          /\ Return(p)
          /\ UNCHANGED <<interrupt, sent>>

\* The entry the request of task p was sent for, unless it was replaced.
Settle(p, phase) ==
    interrupt' = [interrupt EXCEPT ![SessionOf[job[p].turn]] =
        IF @.gen = job[p].gen /\ @.turn = job[p].turn /\ @.attempt = job[p].attempt
        THEN [@ EXCEPT !.phase = phase] ELSE @]

\* Mutant: no watchdog is started.
AcceptedUnwatched(p) ==
    /\ pc[p] = "interrupting"
    /\ Answers(job[p].gen)
    /\ Settle(p, "Sent")
    /\ Return(p)
    /\ UNCHANGED <<active, pendingStart, projected, activeThread, route, bound, resumed,
                   lifecycle, gate, watchdogs, seen, transportVars, outside>>

InterruptAccepted(p) ==
    /\ pc[p] = "interrupting"
    /\ Answers(job[p].gen)
    /\ Settle(p, "Sent")
    /\ watchdogs' = watchdogs \cup {[gen |-> job[p].gen, run |-> job[p].run, turn |-> job[p].turn,
                                    attempt |-> job[p].attempt, stage |-> "armed"]}
    /\ Return(p)
    /\ UNCHANGED <<active, pendingStart, projected, activeThread, route, bound, resumed,
                   lifecycle, gate, seen, transportVars, outside>>

InterruptFails(p) ==
    /\ pc[p] = "interrupting"
    /\ Settle(p, "Retryable")
    /\ Return(p)
    /\ UNCHANGED <<active, pendingStart, projected, activeThread, route, bound, resumed,
                   lifecycle, gate, watchdogs, seen, transportVars, outside>>

\* Task p saw turn t of generation g begin: it takes the start that waits for it.
Activate(p, g, t) ==
    LET s == SessionOf[t]
        pending == pendingStart[s]
        routed == route[s] # NoGeneration
        known == projected[t] # NoGeneration
        expected == pending.run # NoRun
    IN \/ /\ \/ ~routed
             \/ routed /\ known /\ ~IsOwned(t, g)
             \/ routed /\ ~known /\ ~expected
             \/ routed /\ ~known /\ expected /\ pending.gen = g /\ route[s] # g
          /\ Refuse(p)
       \/ /\ routed
          /\ \/ known /\ IsOwned(t, g)
             \/ ~known /\ expected /\ pending.gen # g
          /\ Return(p)
          /\ UNCHANGED <<pendingStart, active, interrupt, shown, FailUntouched>>
       \/ /\ ~known /\ expected /\ pending.gen = g /\ route[s] = g
          /\ pendingStart' = [pendingStart EXCEPT ![s] = NoStart]
          /\ job' = [job EXCEPT ![p] = [NoJob EXCEPT !.gen = g, !.run = pending.run, !.turn = t]]
          /\ Goto(p, "persist")
          /\ UNCHANGED <<active, interrupt, shown, FailUntouched>>

\* The user message is saved: the turn is live, and a stop that waited for its
\* identity is sent.
PublishTurn(p) ==
    LET g == job[p].gen
        t == job[p].turn
        s == SessionOf[t]
        owner == IF active[s].run = job[p].run
                 THEN [run |-> job[p].run, gen |-> g, turn |-> t] ELSE active[s]
        stopped == interrupt[s].phase = "PendingIdentity" /\ interrupt[s].gen \in {NoGeneration, g}
    IN /\ pc[p] = "persist"
       /\ projected' = [projected EXCEPT ![t] = g]
       /\ active' = [active EXCEPT ![s] = owner]
       /\ activeThread' = [activeThread EXCEPT ![s] = [gen |-> g, turn |-> t]]
       /\ shown' = [shown EXCEPT ![s] = t]
       /\ \/ stopped /\ SendInterrupt(p, s, g, t, owner)
          \/ ~stopped /\ Return(p) /\ UNCHANGED <<interrupt, sent>>
       /\ UNCHANGED <<pendingStart, route, bound, resumed, recorded, lifecycle, gate, watchdogs,
                      outcome, wanted, transportVars, outside>>

PersistFails(p) ==
    /\ pc[p] = "persist"
    /\ StorageFails
    /\ Refuse(p)
    /\ UNCHANGED <<transportVars, outside>>

-----------------------------------------------------------------------------
(* run_turn *)

\* A busy session refuses a second turn; after shutdown every turn is refused.
BeginRun(r) ==
    LET s == SessionOf[r]
        admitted == gate \in {"open", "closing"} /\ active[s].run = NoRun
    IN /\ pc[r] = "idle"
       /\ gate # "draining"
       /\ \A t \in Runs : SessionOf[t] = s /\ ~Overlaps => pc[t] \in {"idle", "done"}
       /\ KeepsUp => \A t \in Turns : SessionOf[t] = s => ~Starting(t)
       /\ active' = [active EXCEPT ![s] = IF admitted THEN [NoActive EXCEPT !.run = r] ELSE @]
       /\ Goto(r, IF admitted THEN "prepare" ELSE "done")
       /\ UNCHANGED <<pendingStart, projected, activeThread, route, bound, resumed, interrupt,
                      lifecycle, gate, job, watchdogs, seen, transportVars, outside>>

\* Any request of the run can fail, and so can saving the thread or its history.
\* A turn that was accepted is only given up with its generation: a timeout
\* loses the connection before the request returns.
RunFails(r) ==
    /\ \/ pc[r] \in {"prepare", "resume", "threadStart", "turnStart"}
       \/ pc[r] \in {"bind", "resumed"} /\ StorageFails
       \/ pc[r] = "turnWait" /\ ~server[r].reply /\ server[r].gen # current
       \/ pc[r] \in {"status", "ready"} /\ current = NoGeneration
    /\ Fail(r)
    /\ UNCHANGED <<FailUntouched, transportVars, outside>>

\* The account, the models and the saved session are read.
Prepare(r) ==
    /\ pc[r] = "prepare"
    /\ RequestSucceeds
    /\ Goto(r, "status")
    /\ UNCHANGED <<maps, lifecycle, gate, job, watchdogs, seen, transportVars, outside>>

\* The generation the thread is resumed or started under.  A bound thread is
\* routed under it right away.
ReadStatus(r) ==
    LET s == SessionOf[r]
    IN /\ pc[r] = "status"
       /\ StatusAnswers
       /\ current # NoGeneration
       /\ Adopt(r, current)
       /\ route' = [route EXCEPT ![s] = IF bound[s] THEN current ELSE @]
       /\ job' = [job EXCEPT ![r].gen = current]
       /\ Goto(r, IF ~bound[s] THEN "threadStart"
                  ELSE IF resumed[s] = current THEN "ready" ELSE "resume")
       /\ UNCHANGED <<pendingStart, projected, activeThread, bound, resumed, interrupt,
                      lifecycle, gate, watchdogs, seen, transportVars, outside>>

\* thread/resume and thread/start load the thread in the process that answers.
LoadThread(r) ==
    LET s == SessionOf[r]
    IN /\ pc[r] \in {"resume", "threadStart"}
       /\ RequestSucceeds
       /\ loaded' = [loaded EXCEPT ![s] = @ \cup {current}]
       /\ Goto(r, IF pc[r] = "resume" THEN "resumed" ELSE "bind")
       /\ UNCHANGED <<maps, lifecycle, gate, job, watchdogs, seen, transportVars, events, server>>

BindThread(r) ==
    /\ pc[r] = "bind"
    /\ bound' = [bound EXCEPT ![SessionOf[r]] = TRUE]
    /\ Goto(r, "threadStarted")
    /\ UNCHANGED <<active, pendingStart, projected, activeThread, route, resumed, interrupt,
                   lifecycle, gate, job, watchdogs, seen, transportVars, outside>>

\* The thread counts as resumed in the generation that is current now, which
\* need not be the one that answered.  A new thread is routed under it.
RecordResumed(r) ==
    LET s == SessionOf[r]
        g == IF current = NoGeneration THEN job[r].gen ELSE current
    IN /\ pc[r] \in {"resumed", "threadStarted"}
       /\ StatusAnswers
       /\ resumed' = [resumed EXCEPT ![s] = g]
       /\ route' = [route EXCEPT ![s] = IF pc[r] = "threadStarted" THEN g ELSE @]
       /\ Goto(r, "ready")
       /\ UNCHANGED <<active, pendingStart, projected, activeThread, bound, interrupt,
                      lifecycle, gate, job, watchdogs, seen, transportVars, outside>>

\* The turn is announced to the pump before it is asked for.
InsertStart(r) ==
    /\ pc[r] = "ready"
    /\ StatusAnswers
    /\ current # NoGeneration
    /\ Adopt(r, current)
    /\ pendingStart' = [pendingStart EXCEPT ![SessionOf[r]] = [run |-> r, gen |-> current]]
    /\ job' = [job EXCEPT ![r].gen = current]
    /\ Goto(r, "turnStart")
    /\ UNCHANGED <<projected, activeThread, route, bound, resumed, interrupt,
                   lifecycle, gate, watchdogs, seen, transportVars, outside>>

\* The process that is current now accepts the turn if it has the thread.
SendTurnStart(r) ==
    /\ pc[r] = "turnStart"
    /\ RequestSucceeds
    /\ current \in loaded[SessionOf[r]]
    /\ server' = [server EXCEPT ![r] = [gen |-> current, phase |-> "accepted", reply |-> FALSE]]
    /\ Goto(r, "turnWait")
    /\ UNCHANGED <<maps, lifecycle, gate, job, watchdogs, seen, transportVars, events, loaded>>

ReceiveTurn(r) ==
    /\ pc[r] = "turnWait"
    /\ server[r].reply
    /\ Activate(r, job[r].gen, r)
    /\ UNCHANGED <<transportVars, outside>>

-----------------------------------------------------------------------------
(* interrupt_session *)

\* A stop before the turn is known waits for its identity; later ones ask the
\* app-server.
Stop(i, s) ==
    LET owner == active[s]
    IN /\ pc[i] = "idle"
       /\ owner.run # NoRun
       /\ wanted' = wanted \cup {owner.run}
       /\ \/ /\ owner.turn = NoRun
             /\ interrupt' = [interrupt EXCEPT ![s] = IF @.phase # "none" THEN @ ELSE
                     [NoInterrupt EXCEPT !.gen = owner.gen, !.run = owner.run,
                                         !.phase = "PendingIdentity"]]
             /\ Return(i)
             /\ UNCHANGED sent
          \/ /\ owner.turn # NoRun
             /\ IsOwned(owner.turn, owner.gen)
             /\ SendInterrupt(i, s, owner.gen, owner.turn, owner)
          \/ /\ owner.turn # NoRun
             /\ ~IsOwned(owner.turn, owner.gen)
             /\ Return(i)
             /\ UNCHANGED <<interrupt, sent>>
       /\ UNCHANGED <<active, pendingStart, projected, activeThread, route, bound, resumed,
                      lifecycle, gate, watchdogs, recorded, shown, outcome, transportVars, outside>>

-----------------------------------------------------------------------------
(* The event pump *)

PumpReads(kind) ==
    /\ pc[Pump] = "idle"
    /\ events # <<>>
    /\ Head(events).kind = kind
    /\ events' = Tail(events)
    /\ UNCHANGED <<transportVars, server, loaded>>

\* The handler returns before it changes anything: the thread is not routed
\* under the event's generation, another owner has the turn, it is already
\* over, or the database refuses.
PumpIgnores ==
    LET event == Head(events)
        t == event.turn
    IN /\ PumpReads(event.kind)
       /\ event.kind # "closed"
       /\ \/ route[SessionOf[t]] # event.gen
          \/ projected[t] \notin {NoGeneration, event.gen}
          \/ event.kind = "completed" /\ t \in recorded
          \/ StorageFails
       /\ UNCHANGED engine

HandleStarted ==
    LET event == Head(events)
        t == event.turn
        s == SessionOf[t]
    IN /\ PumpReads("started")
       /\ route[s] = event.gen
       /\ projected[t] \in {NoGeneration, event.gen}
       /\ activeThread' = [activeThread EXCEPT ![s] = [gen |-> event.gen, turn |-> t]]
       /\ \/ /\ projected[t] = NoGeneration
             /\ pendingStart[s].run # NoRun
             /\ pendingStart[s].gen = event.gen
             /\ pendingStart' = [pendingStart EXCEPT ![s] = NoStart]
             /\ job' = [job EXCEPT ![Pump] =
                     [NoJob EXCEPT !.gen = event.gen, !.run = pendingStart[s].run, !.turn = t]]
             /\ Goto(Pump, "persist")
          \/ /\ \/ projected[t] # NoGeneration
                \/ pendingStart[s].run = NoRun
                \/ pendingStart[s].gen # event.gen
             /\ UNCHANGED <<pendingStart, job, pc>>
       /\ UNCHANGED <<active, projected, route, bound, resumed, interrupt, lifecycle, gate,
                      watchdogs, seen>>

\* complete_turn decides under request_lifecycle what the terminal may end, and
\* then appends it.
HandleCompleted ==
    LET event == Head(events)
        g == event.gen
        t == event.turn
        s == SessionOf[t]
    IN /\ PumpReads("completed")
       /\ route[s] = g
       /\ projected[t] \in {NoGeneration, g}
       /\ t \notin recorded
       /\ LifecycleFree
       /\ lifecycle' = "pump"
       /\ job' = [job EXCEPT ![Pump] =
              [NoJob EXCEPT !.gen = g, !.turn = t, !.owner = (projected[t] = g),
                 !.exact = (activeThread[s] = [gen |-> g, turn |-> t]
                            /\ active[s].gen = g /\ active[s].turn = t)]]
       /\ Goto(Pump, "complete")
       /\ UNCHANGED <<maps, gate, watchdogs, seen>>

\* Mutant: whichever turn the session runs is ended.
EndSessionsTurn(g, t, exact, ending) ==
    LET s == SessionOf[t]
    IN /\ active' = [active EXCEPT ![s] = IF @.gen = g THEN NoActive ELSE @]
       /\ activeThread' = [activeThread EXCEPT ![s] = IF @.gen = g THEN NoThreadTurn ELSE @]
       /\ interrupt' = [interrupt EXCEPT ![s] = IF @.gen = g THEN NoInterrupt ELSE @]
       /\ outcome' = [outcome EXCEPT ![t] = IF exact THEN ending ELSE @]
       /\ shown' = [shown EXCEPT ![s] = NoRun]

\* The turn gives its session, its thread and its interrupt back, if all are its own.
EndExactTurn(g, t, exact, ending) ==
    LET s == SessionOf[t]
    IN /\ active' = [active EXCEPT ![s] =
               IF exact /\ @.gen = g /\ @.turn = t THEN NoActive ELSE @]
       /\ activeThread' = [activeThread EXCEPT ![s] =
               IF exact /\ @ = [gen |-> g, turn |-> t] THEN NoThreadTurn ELSE @]
       /\ interrupt' = [interrupt EXCEPT ![s] =
               IF exact /\ @.gen = g /\ @.turn = t THEN NoInterrupt ELSE @]
       /\ outcome' = [outcome EXCEPT ![t] = IF exact THEN ending ELSE @]
       /\ shown' = [shown EXCEPT ![s] = IF exact THEN NoRun ELSE @]

CompleteTurn ==
    LET g == job[Pump].gen
        t == job[Pump].turn
    IN /\ pc[Pump] = "complete"
       /\ recorded' = recorded \cup {t}
       /\ projected' = [projected EXCEPT ![t] =
               IF job[Pump].owner /\ IsOwned(t, g) THEN NoGeneration ELSE @]
       /\ EndExactTurn(g, t, job[Pump].exact, "completed")
       /\ lifecycle' = "free"
       /\ Return(Pump)
       /\ UNCHANGED <<pendingStart, route, bound, resumed, gate, watchdogs, wanted, sent,
                      transportVars, outside>>

\* The terminal could not be saved, but the record of that could.
TerminalUnsaved ==
    /\ pc[Pump] = "complete"
    /\ StorageFails
    /\ EndExactTurn(job[Pump].gen, job[Pump].turn, job[Pump].exact, "unsaved")
    /\ lifecycle' = "free"
    /\ Return(Pump)
    /\ UNCHANGED <<pendingStart, projected, route, bound, resumed, recorded, gate, watchdogs,
                   wanted, sent, transportVars, outside>>

TerminalDropped ==
    /\ pc[Pump] = "complete"
    /\ StorageFails
    /\ lifecycle' = "free"
    /\ Return(Pump)
    /\ UNCHANGED <<maps, gate, watchdogs, seen, transportVars, outside>>

Expired(gen, g) == gen = g

\* Everything of the lost generation is dropped.  Each session it touched is
\* told, unless another run owns it by now.
HandleClosed ==
    LET g == Head(events).gen
        touched == {s \in Sessions :
            \/ Expired(active[s].gen, g)
            \/ Expired(pendingStart[s].gen, g)
            \/ \E t \in Turns : Expired(projected[t], g) /\ SessionOf[t] = s
            \/ Expired(activeThread[s].gen, g) /\ Expired(route[s], g)}
        protected == {s \in Sessions : active[s].run # NoRun /\ ~Expired(active[s].gen, g)}
    IN /\ PumpReads("closed")
       /\ LifecycleFree
       /\ pendingStart' = [s \in Sessions |->
               IF Expired(pendingStart[s].gen, g) THEN NoStart ELSE pendingStart[s]]
       /\ projected' = [t \in Turns |-> IF Expired(projected[t], g) THEN NoGeneration ELSE projected[t]]
       /\ activeThread' = [s \in Sessions |->
               IF Expired(activeThread[s].gen, g) THEN NoThreadTurn ELSE activeThread[s]]
       /\ route' = [s \in Sessions |-> IF Expired(route[s], g) THEN NoGeneration ELSE route[s]]
       /\ resumed' = [s \in Sessions |-> IF Expired(resumed[s], g) THEN NoGeneration ELSE resumed[s]]
       /\ interrupt' = [s \in Sessions |->
               IF Expired(interrupt[s].gen, g) THEN NoInterrupt ELSE interrupt[s]]
       /\ active' = [s \in Sessions |-> IF Expired(active[s].gen, g) THEN NoActive ELSE active[s]]
       /\ shown' = [s \in Sessions |-> IF s \in touched \ protected THEN NoRun ELSE shown[s]]
       /\ UNCHANGED <<bound, tasks, recorded, outcome, wanted, sent>>

-----------------------------------------------------------------------------
(* handle_interrupt_watchdog *)

\* The interrupt a watchdog was started for is still the session's.
SameAttempt(w) ==
    LET now == interrupt[SessionOf[w.turn]]
    IN now.gen = w.gen /\ now.run = w.run /\ now.turn = w.turn /\ now.attempt = w.attempt

StillSent(w) == SameAttempt(w) /\ interrupt[SessionOf[w.turn]].phase = "Sent"

Become(w, stage) == watchdogs' = (watchdogs \ {w}) \cup {[w EXCEPT !.stage = stage]}

WatchdogWakes(w) ==
    /\ w.stage = "armed"
    /\ KeepsUp => ~Starting(w.turn)
    /\ \/ StillSent(w) /\ Become(w, "woken")
       \/ ~StillSent(w) /\ watchdogs' = watchdogs \ {w}
    /\ UNCHANGED <<maps, lifecycle, gate, pc, job, seen, transportVars, outside>>

\* Under request_lifecycle it looks again before it writes anything.
WatchdogChecks(w) ==
    LET s == SessionOf[w.turn]
        sessionIsExact == active[s] = [run |-> w.run, gen |-> w.gen, turn |-> w.turn]
        threadIsExact == activeThread[s] = [gen |-> w.gen, turn |-> w.turn]
        exact == StillSent(w) /\ sessionIsExact /\ threadIsExact
    IN /\ w.stage = "woken"
       /\ LifecycleFree
       /\ \/ /\ exact
             /\ Become(w, "append")
             /\ lifecycle' = "watchdog"
             /\ UNCHANGED interrupt
          \/ /\ ~exact
             /\ watchdogs' = watchdogs \ {w}
             /\ interrupt' = [interrupt EXCEPT ![s] =
                     IF ~sessionIsExact /\ SameAttempt(w) THEN NoInterrupt ELSE @]
             /\ UNCHANGED lifecycle
       /\ UNCHANGED <<active, pendingStart, projected, activeThread, route, bound, resumed,
                      gate, pc, job, seen, transportVars, outside>>

\* Mutant: the session keeps its turn.
CancelKeepsSession(w) ==
    LET s == SessionOf[w.turn]
    IN /\ w.stage = "append"
       /\ projected' = [projected EXCEPT ![w.turn] = IF @ = w.gen THEN NoGeneration ELSE @]
       /\ activeThread' = [activeThread EXCEPT ![s] =
              IF @ = [gen |-> w.gen, turn |-> w.turn] THEN NoThreadTurn ELSE @]
       /\ interrupt' = [interrupt EXCEPT ![s] = IF SameAttempt(w) THEN NoInterrupt ELSE @]
       /\ outcome' = [outcome EXCEPT ![w.turn] = "cancelled"]
       /\ shown' = [shown EXCEPT ![s] = NoRun]
       /\ watchdogs' = watchdogs \ {w}
       /\ lifecycle' = "free"
       /\ UNCHANGED <<active, pendingStart, route, bound, resumed, gate, pc, job, recorded,
                      wanted, sent, transportVars, outside>>

\* The synthetic terminal is saved: the turn ends as cancelled.
WatchdogCancels(w) ==
    LET s == SessionOf[w.turn]
    IN /\ w.stage = "append"
       /\ active' = [active EXCEPT ![s] =
              IF @ = [run |-> w.run, gen |-> w.gen, turn |-> w.turn] THEN NoActive ELSE @]
       /\ projected' = [projected EXCEPT ![w.turn] = IF @ = w.gen THEN NoGeneration ELSE @]
       /\ activeThread' = [activeThread EXCEPT ![s] =
              IF @ = [gen |-> w.gen, turn |-> w.turn] THEN NoThreadTurn ELSE @]
       /\ interrupt' = [interrupt EXCEPT ![s] = IF SameAttempt(w) THEN NoInterrupt ELSE @]
       /\ outcome' = [outcome EXCEPT ![w.turn] = "cancelled"]
       /\ shown' = [shown EXCEPT ![s] = NoRun]
       /\ watchdogs' = watchdogs \ {w}
       /\ lifecycle' = "free"
       /\ UNCHANGED <<pendingStart, route, bound, resumed, gate, pc, job, recorded, wanted, sent,
                      transportVars, outside>>

\* The interrupt becomes retryable, and nothing is shown.
WatchdogAppendFails(w) ==
    LET s == SessionOf[w.turn]
    IN /\ w.stage = "append"
       /\ StorageFails
       /\ interrupt' = [interrupt EXCEPT ![s] =
              IF SameAttempt(w) THEN [@ EXCEPT !.phase = "Retryable"] ELSE @]
       /\ watchdogs' = watchdogs \ {w}
       /\ lifecycle' = "free"
       /\ UNCHANGED <<active, pendingStart, projected, activeThread, route, bound, resumed,
                      gate, pc, job, seen, transportVars, outside>>

-----------------------------------------------------------------------------
(* shutdown: first the transport, then admission, then what is left *)

CloseTransport ==
    /\ ShutsDown
    /\ gate = "open"
    /\ Halt
    /\ gate' = "closing"
    /\ UNCHANGED <<maps, lifecycle, pc, job, watchdogs, seen, outside>>

\* The writer queues for the gate: no further run is admitted.
DrainRuns ==
    /\ gate = "closing"
    /\ current = NoGeneration
    /\ gate' = "draining"
    /\ UNCHANGED <<maps, lifecycle, pc, job, watchdogs, seen, transportVars, outside>>

\* Every admitted run released the gate.
Drained == \A r \in Runs : pc[r] \in {"idle", "done"}

\* The pump is aborted wherever it is: a terminal it was saving may be saved.
FinishShutdown ==
    /\ gate = "draining"
    /\ Drained
    /\ gate' = "down"
    /\ Goto(Pump, "done")
    /\ job' = [job EXCEPT ![Pump] = NoJob]
    /\ lifecycle' = IF lifecycle = "pump" THEN "free" ELSE lifecycle
    /\ \/ recorded' = recorded
       \/ pc[Pump] = "complete" /\ recorded' = recorded \cup {job[Pump].turn}
    /\ pendingStart' = [s \in Sessions |-> NoStart]
    /\ activeThread' = [s \in Sessions |-> NoThreadTurn]
    /\ projected' = [t \in Turns |-> NoGeneration]
    /\ active' = [s \in Sessions |-> NoActive]
    /\ UNCHANGED <<route, bound, resumed, interrupt, watchdogs, shown, outcome, wanted, sent,
                   transportVars, outside>>

-----------------------------------------------------------------------------

TransportStep == TransportMoves \/ \E g \in Generations : AnnounceLoss(g)

ServerStep(t) == ReplyTurnStart(t) \/ NotifyStarted(t) \/ NotifyCompleted(t)

RunStep(r) ==
    \/ RunFails(r) \/ Prepare(r) \/ ReadStatus(r) \/ LoadThread(r) \/ BindThread(r)
    \/ RecordResumed(r) \/ InsertStart(r) \/ SendTurnStart(r) \/ ReceiveTurn(r)

\* What any task may be waiting for inside activate_pending_turn or an interrupt.
WaitStep(p) == PublishTurn(p) \/ PersistFails(p) \/ InterruptAccepted(p) \/ InterruptFails(p)

PumpStep ==
    \/ events # <<>> /\ PumpIgnores
    \/ events # <<>> /\ HandleStarted
    \/ events # <<>> /\ HandleCompleted
    \/ events # <<>> /\ HandleClosed
    \/ CompleteTurn \/ TerminalUnsaved \/ TerminalDropped

WatchdogStep(w) ==
    WatchdogWakes(w) \/ WatchdogChecks(w) \/ WatchdogCancels(w) \/ WatchdogAppendFails(w)

ShutdownStep == CloseTransport \/ DrainRuns \/ FinishShutdown

Next ==
    \/ TransportStep
    \/ \E t \in Turns : ServerStep(t)
    \/ \E r \in Runs : BeginRun(r) \/ RunStep(r)
    \/ \E p \in Tasks : WaitStep(p)
    \/ \E i \in Stops, s \in Sessions : Stop(i, s)
    \/ PumpStep
    \/ \E w \in watchdogs : WatchdogStep(w)
    \/ ShutdownStep

Spec == Init /\ [][Next]_vars

-----------------------------------------------------------------------------
(* What the code and its timeouts bring about *)

\* A startup ends, within startup_timeout.
StartupEnds == (BecomeReady \/ AbandonStart) /\ UNCHANGED <<engine, outside>>

\* turn/start is answered, or request_timeout gives up on the connection.
TurnStartResolves(t) ==
    \/ ReplyTurnStart(t)
    \/ /\ pc[t] = "turnWait" /\ ~server[t].reply /\ server[t].gen = current
       /\ Lose
       /\ UNCHANGED <<engine, outside>>

Fairness ==
    /\ WF_vars(StartupEnds)
    /\ WF_vars(gate = "closing" /\ Release /\ UNCHANGED <<engine, outside>>)
    /\ \A g \in Generations : WF_vars(AnnounceLoss(g))
    /\ \A r \in Runs : WF_vars(RunStep(r)) /\ WF_vars(TurnStartResolves(r))
    /\ \A p \in Tasks : WF_vars(WaitStep(p))
    /\ WF_vars(PumpStep)
    /\ \A t \in Turns : WF_vars(\E w \in watchdogs : w.turn = t /\ WatchdogStep(w))
    /\ WF_vars(DrainRuns \/ FinishShutdown)
    /\ KeepsUp => \A t \in Turns : WF_vars(NotifyStarted(t))

FairSpec == Spec /\ Fairness

-----------------------------------------------------------------------------
(* Properties *)

\* How a turn was ended for the user is never revised: a late terminal does not
\* overwrite a watchdog's cancellation, nor a watchdog a terminal (complete_turn
\* and handle_interrupt_watchdog decide under request_lifecycle).
OutcomeIsFinal ==
    [][\A t \in Turns : outcome[t] # "none" => outcome'[t] = outcome[t]]_vars

\* The loss of g is being handled by this step.
ClosesNow(g) ==
    events # <<>> /\ Head(events).kind = "closed" /\ Head(events).gen = g /\ events' = Tail(events)

\* A live turn is only released by its own terminal or cancellation, the loss of
\* its own generation, the failure of the run that asked for it, or shutdown:
\* a stale terminal, watchdog or TransportClosed does not clear a newer turn.
NewerTurnSurvives ==
    [][\A s \in Sessions :
          LET old == active[s]
          IN old.turn # NoRun /\ active'[s] # old =>
               \/ outcome[old.turn] = "none" /\ outcome'[old.turn] # "none"
               \/ ClosesNow(old.gen)
               \/ pc[old.run] # "done" /\ pc'[old.run] = "done"
               \/ gate' = "down"]_vars

\* However the runs of a session overlap and whatever the pump is behind with, a
\* session that runs the turn its owner asked for loses it only by the ending of
\* that turn, the loss of its generation, the failure of the run that asked for it,
\* or shutdown: no other run, start, terminal, watchdog or loss takes it
\* (run_turn, activate_pending_turn, complete_turn, handle_interrupt_watchdog,
\* handle_transport_closed).
OwnTurnSurvives ==
    [][\A s \in Sessions :
          LET old == active[s]
          IN old.turn # NoRun /\ old.turn = old.run /\ active'[s] # old =>
               \/ outcome[old.turn] = "none" /\ outcome'[old.turn] # "none"
               \/ ClosesNow(old.gen)
               \/ pc[old.run] # "done" /\ pc'[old.run] = "done"
               \/ gate' = "down"]_vars

\* Late, repeated and stale endings change nothing that is settled or newer.
EndingsStand == OutcomeIsFinal /\ NewerTurnSurvives

\* Generations whose loss the pump has dealt with.
Handled == announced \ {events[i].gen : i \in {j \in DOMAIN events : events[j].kind = "closed"}}

\* However the runs of a session overlap, none is held under a generation whose loss
\* the pump has dealt with: the TransportClosed that would have to release it is still
\* to come (ReadStatus and InsertStart may adopt a generation while its loss is on
\* its way, and a start may be published long after).
OwnersAreReleasable == \A s \in Sessions : active[s].gen \notin Handled

\* However the runs of a session overlap, it neither keeps a turn that nothing can end
\* nor loses one that nothing has ended.
OwnersStand == []OwnersAreReleasable /\ OwnTurnSurvives

\* Once its run returned, a session stays owned only by a turn that is known,
\* and whose generation's loss would still release it: run_turn and
\* handle_transport_closed leave no conversation that refuses every later turn.
OwnedSessionIsReleasable ==
    \A s \in Sessions : active[s].run # NoRun /\ pc[active[s].run] = "done" =>
        active[s].turn # NoRun /\ active[s].gen \notin Handled

\* An interrupt that was sent has a watchdog: otherwise a stop that is never
\* answered would also swallow every later one, because send_session_interrupt
\* returns early while it is Sent.
SentIsGuarded ==
    \A s \in Sessions : interrupt[s].phase = "Sent" =>
        \E w \in watchdogs : w.gen = interrupt[s].gen /\ w.turn = interrupt[s].turn
                             /\ w.attempt = interrupt[s].attempt

\* active_by_session, active_by_thread and turns name the same live turn: only
\* then do a terminal and a watchdog find it exact and end it.
MapsAgree ==
    \A s \in Sessions : active[s].turn # NoRun =>
        /\ projected[active[s].turn] = active[s].gen
        /\ activeThread[s] = [gen |-> active[s].gen, turn |-> active[s].turn]

\* Each map is what it should be, and what the engine holds of a turn in five of them
\* agrees: a terminal and a watchdog find the turn they are about, and an interrupt that
\* was sent finds its watchdog.
OwnersAgree == TypeOK /\ MapsAgree /\ SentIsGuarded

\* After shutdown nothing of a turn is left, and nothing comes back: no admitted
\* run outlives it, although runs, the pump and watchdogs were under way.
ShutdownLeavesNothing ==
    gate = "down" =>
        /\ active = [s \in Sessions |-> NoActive]
        /\ pendingStart = [s \in Sessions |-> NoStart]
        /\ projected = [t \in Turns |-> NoGeneration]
        /\ activeThread = [s \in Sessions |-> NoThreadTurn]
        /\ Drained

\* A stop the app-server accepted ends the turn, whether or not its terminal
\* ever comes.
InterruptResolves ==
    \A t \in Turns :
        LET s == SessionOf[t]
        IN interrupt[s].phase = "Sent" /\ interrupt[s].turn = t ~> active[s].turn # t

\* No session keeps a turn of a lost generation: the pump gets to its
\* TransportClosed although it waits for request_lifecycle and for interrupts.
LostGenerationReleases ==
    \A g \in Generations : g \in owed ~> [](\A s \in Sessions : active[s].gen # g)

\* Shutdown ends: closing the transport wakes every admitted run.
ShutdownCompletes == gate = "closing" ~> gate = "down"

\* A loss and a shutdown come to their end and leave nothing behind.
EngineLetsGo == LostGenerationReleases /\ ShutdownCompletes /\ []ShutdownLeavesNothing

\* Only a turn of a run the user stopped is interrupted (exact session, turn
\* and generation ownership).  The code does not keep this.
InterruptsAreWanted == sent \subseteq wanted
=============================================================================
