------------------------- MODULE TurnLifecycleProofs -------------------------
(***************************************************************************)
(* Proofs about root turns, for any number of sessions, runs, stops and    *)
(* generations.                                                            *)
(***************************************************************************)
EXTENDS TurnLifecycle, TLAPS

-----------------------------------------------------------------------------
(* The queue of events, as the set of what is in it *)

Queued == {events[i] : i \in DOMAIN events}

StartQueued(t) == \E e \in Queued : e.kind = "started" /\ e.turn = t

EventType == [kind : {"started", "completed", "closed"}, gen : Generations, turn : MaybeRun]

\* An event joins the queue.
LEMMA QueueAppend ==
    ASSUME NEW S, events \in Seq(S), NEW e \in S, events' = Append(events, e)
    PROVE  events' \in Seq(S) /\ Queued' = Queued \cup {e}
<1>1. /\ events' \in Seq(S)
      /\ DOMAIN events = 1 .. Len(events)
      /\ DOMAIN events' = 1 .. Len(events) + 1
      /\ Len(events) \in Nat
      /\ events'[Len(events) + 1] = e
      /\ \A i \in 1 .. Len(events) : events'[i] = events[i]
    OBVIOUS
<1>2. \A x : x \in Queued' <=> x \in Queued \/ x = e
    BY <1>1 DEF Queued
<1> QED
    BY <1>1, <1>2

\* The pump takes the head of the queue.
LEMMA QueueTail ==
    ASSUME NEW S, events \in Seq(S), events # <<>>, events' = Tail(events)
    PROVE  /\ events' \in Seq(S)
           /\ Head(events) \in S
           /\ Head(events) \in Queued
           /\ Queued' \subseteq Queued
           /\ Queued \subseteq Queued' \cup {Head(events)}
<1>1. /\ events' \in Seq(S)
      /\ Len(events) \in Nat \ {0}
      /\ DOMAIN events = 1 .. Len(events)
      /\ DOMAIN events' = 1 .. Len(events) - 1
      /\ Head(events) = events[1]
      /\ \A i \in 1 .. Len(events) - 1 : events'[i] = events[i + 1]
      /\ \A i \in 1 .. Len(events) : events[i] \in S
    OBVIOUS
<1>2. Head(events) \in S /\ Head(events) \in Queued
    BY <1>1 DEF Queued
<1>3. ASSUME NEW x \in Queued' PROVE x \in Queued
    BY <1>1 DEF Queued
<1>4. ASSUME NEW x \in Queued, x # Head(events) PROVE x \in Queued'
  <2>1. PICK i \in 1 .. Len(events) : x = events[i]
    BY <1>1 DEF Queued
  <2>2. i - 1 \in 1 .. Len(events) - 1 /\ events'[i - 1] = events[i]
    BY <1>1, <1>4, <2>1
  <2> QED
    BY <1>1, <2>1, <2>2 DEF Queued
<1> QED
    BY <1>1, <1>2, <1>3, <1>4
-----------------------------------------------------------------------------
(* Type correctness *)

ActiveType == [run : MaybeRun, gen : Gens, turn : MaybeRun]
StartType == [run : MaybeRun, gen : Gens]
ThreadTurnType == [gen : Gens, turn : MaybeRun]
InterruptType ==
    [gen : Gens, run : MaybeRun, turn : MaybeRun, attempt : Nat,
     phase : {"none", "PendingIdentity", "Sending", "Sent", "Retryable"}]
JobType ==
    [gen : Gens, run : MaybeRun, turn : MaybeRun, attempt : Nat, owner : BOOLEAN, exact : BOOLEAN]
WatchdogType ==
    [gen : Gens, run : MaybeRun, turn : Turns, attempt : Nat, stage : {"armed", "woken", "append"}]
ServerType == [gen : Gens, phase : {"none", "accepted", "started", "done"}, reply : BOOLEAN]

\* The types of the variables a task changes.
MapsTypeOK ==
    /\ active \in [Sessions -> ActiveType]
    /\ pendingStart \in [Sessions -> StartType]
    /\ projected \in [Turns -> Gens]
    /\ activeThread \in [Sessions -> ThreadTurnType]
    /\ route \in [Sessions -> Gens]
    /\ bound \in [Sessions -> BOOLEAN]
    /\ resumed \in [Sessions -> Gens]
    /\ interrupt \in [Sessions -> InterruptType]

TasksTypeOK ==
    /\ lifecycle \in {"free", "pump", "watchdog"}
    /\ gate \in {"open", "closing", "draining", "down"}
    /\ pc \in [Tasks -> Labels]
    /\ job \in [Tasks -> JobType]
    /\ watchdogs \subseteq WatchdogType

SeenTypeOK ==
    /\ recorded \subseteq Turns
    /\ shown \in [Sessions -> MaybeRun]
    /\ outcome \in [Turns -> {"none", "completed", "cancelled", "unsaved"}]
    /\ wanted \subseteq Runs
    /\ sent \subseteq Turns

OutsideTypeOK ==
    /\ events \in Seq(EventType)
    /\ server \in [Turns -> ServerType]
    /\ loaded \in [Sessions -> SUBSET Generations]

\* The type invariant in four parts.
LEMMA TypeParts ==
    /\ TypeOK <=> TransportTypeOK /\ MapsTypeOK /\ TasksTypeOK /\ SeenTypeOK /\ OutsideTypeOK
    /\ TypeOK' <=> (TransportTypeOK /\ MapsTypeOK /\ TasksTypeOK /\ SeenTypeOK /\ OutsideTypeOK)'
BY DEF TypeOK, MapsTypeOK, TasksTypeOK, SeenTypeOK, OutsideTypeOK, ActiveType, StartType,
       ThreadTurnType, InterruptType, JobType, WatchdogType, ServerType, EventType

\* Where a task may be, and that what it is in the middle of is about a turn.
JobsInv ==
    /\ \A p \in Tasks : pc[p] \in {"persist", "interrupting", "complete"} => job[p].turn \in Turns
    /\ \A i \in Stops : pc[i] \in {"idle", "interrupting", "done"}
    /\ pc[Pump] \in {"idle", "persist", "interrupting", "complete", "done"}
    /\ \A r \in Runs : pc[r] # "complete"

\* Every event but TransportClosed is about a turn that was accepted.
EventsInv ==
    /\ \A e \in Queued : e.kind # "closed" => e.turn \in Turns
    /\ \A t \in Turns : server[t].phase # "none" => server[t].gen \in Generations

TypeInv == TypeOK /\ JobsInv /\ EventsInv

\* The records that stand for nothing have the types.
LEMMA Nothings ==
    /\ NoActive \in ActiveType
    /\ NoStart \in StartType
    /\ NoThreadTurn \in ThreadTurnType
    /\ NoInterrupt \in InterruptType
    /\ NoJob \in JobType
    /\ NoTurn \in ServerType
    /\ NoGeneration \in Gens
    /\ NoRun \in MaybeRun
BY DEF NoActive, NoStart, NoThreadTurn, NoInterrupt, NoJob, NoTurn, Gens, MaybeRun, ActiveType,
       StartType, ThreadTurnType, InterruptType, JobType, ServerType

\* The initial state has the types.
LEMMA InitType == Init => TypeInv
<1> SUFFICES ASSUME Init PROVE TypeInv
    OBVIOUS
<1> USE Nothings
<1>1. TransportTypeOK
    BY DEF Init, TransportInit, TransportTypeOK
<1>2. MapsTypeOK /\ SeenTypeOK
    BY DEF Init, MapsTypeOK, SeenTypeOK
<1>3. TasksTypeOK
    BY DEF Init, TasksTypeOK, Labels
<1>4. OutsideTypeOK
    BY DEF Init, OutsideTypeOK
<1>5. JobsInv
    BY DEF Init, JobsInv, Tasks
<1>6. EventsInv
    BY DEF Init, EventsInv, Queued, NoTurn
<1> QED
    BY <1>1, <1>2, <1>3, <1>4, <1>5, <1>6, TypeParts DEF TypeInv
\* A task goes on, or returns.
LEMMA GotoType ==
    ASSUME TasksTypeOK, NEW p \in Tasks, NEW label \in Labels, Goto(p, label)
    PROVE  pc' \in [Tasks -> Labels]
BY DEF TasksTypeOK, Goto

\* A task that returns is done, or idle again if it is the pump.
LEMMA ReturnType ==
    ASSUME TasksTypeOK, NEW p \in Tasks, Return(p)
    PROVE  /\ pc' \in [Tasks -> Labels]
           /\ job' \in [Tasks -> JobType]
           /\ pc'[p] = IF p = Pump THEN "idle" ELSE "done"
           /\ \A q \in Tasks \ {p} : pc'[q] = pc[q] /\ job'[q] = job[q]
BY Nothings DEF TasksTypeOK, Return, Goto, Labels

\* A run that fails, or an activation that ends in Err.
LEMMA FailType ==
    ASSUME TurnAssumption, MapsTypeOK, TasksTypeOK, SeenTypeOK, NEW r \in Runs, Fail(r)
    PROVE  /\ pendingStart' \in [Sessions -> StartType]
           /\ active' \in [Sessions -> ActiveType]
           /\ interrupt' \in [Sessions -> InterruptType]
           /\ shown' \in [Sessions -> MaybeRun]
           /\ pc' \in [Tasks -> Labels]
           /\ job' \in [Tasks -> JobType]
<1>1. SessionOf[r] \in Sessions /\ r \in Tasks
    BY DEF TurnAssumption, Tasks
<1>2. pc' \in [Tasks -> Labels] /\ job' \in [Tasks -> JobType]
    BY <1>1, ReturnType DEF Fail
<1>3. /\ pendingStart' \in [Sessions -> StartType]
      /\ active' \in [Sessions -> ActiveType]
      /\ interrupt' \in [Sessions -> InterruptType]
      /\ shown' \in [Sessions -> MaybeRun]
    BY <1>1, Nothings DEF Fail, MapsTypeOK, SeenTypeOK
<1> QED
    BY <1>2, <1>3

\* An activation that ends in Err, for a run or for the pump.
LEMMA RefuseType ==
    ASSUME TurnAssumption, MapsTypeOK, TasksTypeOK, SeenTypeOK, NEW p \in Tasks, Refuse(p)
    PROVE  /\ MapsTypeOK' /\ TasksTypeOK' /\ SeenTypeOK'
           /\ p \in Runs \cup {Pump}
           /\ Return(p)
<1>1. CASE p \in Runs /\ Fail(p) /\ UNCHANGED FailUntouched
    BY <1>1, FailType DEF FailUntouched, MapsTypeOK, TasksTypeOK, SeenTypeOK, Fail
<1>2. CASE p = Pump /\ Return(p) /\ UNCHANGED <<pendingStart, active, interrupt, shown, FailUntouched>>
    BY <1>2, ReturnType DEF FailUntouched, MapsTypeOK, TasksTypeOK, SeenTypeOK
<1> QED
    BY <1>1, <1>2 DEF Refuse

\* An interrupt is sent, or one is out already.
LEMMA SendInterruptType ==
    ASSUME MapsTypeOK, TasksTypeOK, SeenTypeOK, NEW p \in Tasks, NEW s \in Sessions,
           NEW g \in Gens, NEW t \in Turns, NEW owner \in ActiveType,
           SendInterrupt(p, s, g, t, owner)
    PROVE  /\ interrupt' \in [Sessions -> InterruptType]
           /\ pc' \in [Tasks -> Labels]
           /\ job' \in [Tasks -> JobType]
           /\ sent' \subseteq Turns
           /\ pc'[p] = "interrupting" => job'[p].turn = t
           /\ pc'[p] \in {"interrupting", IF p = Pump THEN "idle" ELSE "done"}
           /\ \A q \in Tasks \ {p} : pc'[q] = pc[q] /\ job'[q] = job[q]
<1> DEFINE now == interrupt[s]
           same == now.gen = g /\ now.run = owner.run /\ now.turn = t
           goes == /\ owner.gen = g /\ owner.turn = t
                   /\ ~(same /\ now.phase \in {"Sending", "Sent"})
           attempt == IF same THEN now.attempt + 1 ELSE 1
<1>1. attempt \in Nat /\ owner.run \in MaybeRun /\ t \in MaybeRun
    BY DEF MapsTypeOK, InterruptType, ActiveType, MaybeRun, Turns
<1>2. CASE goes /\ interrupt' = [interrupt EXCEPT ![s] = [gen |-> g, run |-> owner.run, turn |-> t,
                                                   attempt |-> attempt, phase |-> "Sending"]]
           /\ job' = [job EXCEPT ![p] = [NoJob EXCEPT !.gen = g, !.run = owner.run, !.turn = t,
                                                    !.attempt = attempt]]
           /\ sent' = sent \cup {t}
           /\ Goto(p, "interrupting")
  <2> HIDE DEF attempt
  <2>1. [gen |-> g, run |-> owner.run, turn |-> t, attempt |-> attempt, phase |-> "Sending"]
            \in InterruptType
    BY <1>1 DEF InterruptType
  <2>2. [NoJob EXCEPT !.gen = g, !.run = owner.run, !.turn = t, !.attempt = attempt] \in JobType
    BY <1>1 DEF JobType, NoJob
  <2>3. pc' \in [Tasks -> Labels]
    BY <1>2, GotoType DEF Labels
  <2> QED
    BY <1>2, <2>1, <2>2, <2>3 DEF MapsTypeOK, TasksTypeOK, SeenTypeOK, Goto, NoJob
<1>3. CASE Return(p) /\ UNCHANGED <<interrupt, sent>>
  <2>1. pc' \in [Tasks -> Labels] /\ job' \in [Tasks -> JobType]
    BY <1>3, ReturnType
  <2> QED
    BY <1>3, <2>1 DEF MapsTypeOK, TasksTypeOK, SeenTypeOK, Return, Goto
<1> QED
    BY <1>2, <1>3 DEF SendInterrupt

\* The answer to an interrupt request changes a phase.
LEMMA SettleType ==
    ASSUME TurnAssumption, MapsTypeOK, NEW p, job[p].turn \in Turns, NEW phase \in {"Sent", "Retryable"},
           Settle(p, phase)
    PROVE  interrupt' \in [Sessions -> InterruptType]
<1>1. SessionOf[job[p].turn] \in Sessions
    BY DEF TurnAssumption, Turns
<1> QED
    BY <1>1 DEF Settle, MapsTypeOK, InterruptType
\* The transport and the app-server.
LEMMA OutsideStep ==
    ASSUME TypeInv, TransportStep \/ \E t \in Turns : ServerStep(t)
    PROVE  TypeInv'
<1> USE DEF engine, maps, tasks, seen, outside
<1>0. TransportTypeOK /\ MapsTypeOK /\ TasksTypeOK /\ SeenTypeOK /\ OutsideTypeOK /\ JobsInv /\ EventsInv
    BY TypeParts DEF TypeInv
<1>a. UNCHANGED engine => MapsTypeOK' /\ TasksTypeOK' /\ SeenTypeOK' /\ JobsInv'
    BY <1>0 DEF MapsTypeOK, TasksTypeOK, SeenTypeOK, JobsInv
<1>b. ASSUME NEW e \in EventType, events' = Append(events, e), e.kind # "closed" => e.turn \in Turns
      PROVE  /\ events' \in Seq(EventType)
             /\ \A f \in Queued' : f.kind # "closed" => f.turn \in Turns
    BY <1>0, <1>b, QueueAppend DEF OutsideTypeOK, EventsInv
<1>1. CASE TransportMoves
  <2>1. TransportTypeOK'
    <3> USE TurnAssumption DEF TransportTypeOK
    <3>1. CASE Start
      BY <1>0, <3>1 DEF Start
    <3>2. CASE BecomeReady
      BY <1>0, <3>2 DEF BecomeReady
    <3>3. CASE AbandonStart
      BY <1>0, <3>3 DEF AbandonStart
    <3>4. CASE Lose
      BY <1>0, <3>4 DEF Lose
    <3>5. CASE Release
      BY <1>0, <3>5 DEF Release
    <3> QED
      BY <1>1, <3>1, <3>2, <3>3, <3>4, <3>5 DEF TransportMoves
  <2>2. UNCHANGED <<engine, outside>>
    BY <1>1 DEF TransportMoves
  <2> QED
    BY <1>0, <1>a, <2>1, <2>2, TypeParts DEF TypeInv, OutsideTypeOK, EventsInv, Queued
<1>2. ASSUME NEW g \in Generations, AnnounceLoss(g) PROVE TypeInv'
  <2>1. TransportTypeOK'
    BY <1>0, <1>2 DEF AnnounceLoss, Announce, TransportTypeOK
  <2>2. [kind |-> "closed", gen |-> g, turn |-> NoRun] \in EventType
    BY Nothings DEF EventType
  <2>3. /\ events' = Append(events, [kind |-> "closed", gen |-> g, turn |-> NoRun])
        /\ UNCHANGED <<engine, server, loaded>>
    BY <1>2 DEF AnnounceLoss
  <2> QED
    BY <1>0, <1>a, <1>b, <2>1, <2>2, <2>3, TypeParts DEF TypeInv, OutsideTypeOK, EventsInv
<1>3. ASSUME NEW t \in Turns, ServerStep(t) PROVE TypeInv'
  <2>1. TransportTypeOK'
    BY <1>0, <1>3
       DEF ServerStep, ReplyTurnStart, NotifyStarted, NotifyCompleted, TransportTypeOK, transportVars
  <2>2. UNCHANGED <<engine, loaded>>
    BY <1>3 DEF ServerStep, ReplyTurnStart, NotifyStarted, NotifyCompleted
  <2>3. /\ server' \in [Turns -> ServerType]
        /\ \A u \in Turns : server'[u].phase # "none" => server'[u].gen \in Generations
    <3>1. CASE server' = [server EXCEPT ![t].reply = TRUE]
      BY <1>0, <3>1 DEF OutsideTypeOK, ServerType, EventsInv
    <3>2. ASSUME server[t].phase # "none", NEW phase \in {"started", "done"},
                 server' = [server EXCEPT ![t].phase = phase]
          PROVE  /\ server' \in [Turns -> ServerType]
                 /\ \A u \in Turns : server'[u].phase # "none" => server'[u].gen \in Generations
      BY <1>0, <3>2 DEF OutsideTypeOK, ServerType, EventsInv
    <3> QED
      BY <1>3, <3>1, <3>2 DEF ServerStep, ReplyTurnStart, NotifyStarted, NotifyCompleted
  <2>4. events' \in Seq(EventType) /\ \A e \in Queued' : e.kind # "closed" => e.turn \in Turns
    <3>1. CASE UNCHANGED events
      BY <1>0, <3>1 DEF OutsideTypeOK, EventsInv, Queued
    <3>2. ASSUME NEW kind \in {"started", "completed"}, server[t].gen \in Generations,
                 events' = Append(events, [kind |-> kind, gen |-> server[t].gen, turn |-> t])
          PROVE  events' \in Seq(EventType) /\ \A e \in Queued' : e.kind # "closed" => e.turn \in Turns
      <4>1. [kind |-> kind, gen |-> server[t].gen, turn |-> t] \in EventType
        BY <3>2 DEF EventType, MaybeRun, Turns
      <4> QED
        BY <1>b, <3>2, <4>1
    <3> QED
      BY <1>0, <1>3, <3>1, <3>2 DEF ServerStep, ReplyTurnStart, NotifyStarted, NotifyCompleted, EventsInv
  <2> QED
    BY <1>0, <1>a, <2>1, <2>2, <2>3, <2>4, TypeParts DEF TypeInv, OutsideTypeOK, EventsInv
<1> QED
    BY <1>1, <1>2, <1>3 DEF TransportStep
\* Where a task is after it went on or returned.
LEMMA JobsKept ==
    ASSUME JobsInv, TasksTypeOK, NEW p \in Tasks,
           \A q \in Tasks \ {p} : pc'[q] = pc[q] /\ job'[q] = job[q],
           pc'[p] \in {"persist", "interrupting"} => job'[p].turn \in Turns,
           p \in Stops => pc'[p] \in {"interrupting", "done"},
           p = Pump => pc'[p] \in {"idle", "persist", "interrupting"},
           pc'[p] # "complete"
    PROVE  JobsInv'
<1>1. \A r \in Runs : r \in Tasks
    BY DEF Tasks
<1>2. \A i \in Stops : i \in Tasks
    BY DEF Tasks
<1> QED
    BY <1>1, <1>2 DEF JobsInv, Tasks

\* Requests, activations and interrupts a task waits for.
LEMMA WaitType ==
    ASSUME TypeInv, NEW p \in Tasks, WaitStep(p)
    PROVE  TypeInv'
<1> USE TurnAssumption
<1>0. TransportTypeOK /\ MapsTypeOK /\ TasksTypeOK /\ SeenTypeOK /\ OutsideTypeOK /\ JobsInv /\ EventsInv
    BY TypeParts DEF TypeInv
<1>1. UNCHANGED <<transportVars, outside>>
    BY DEF WaitStep, PublishTurn, PersistFails, InterruptAccepted, InterruptFails
<1>2. TransportTypeOK' /\ OutsideTypeOK' /\ EventsInv'
    BY <1>0, <1>1 DEF TransportTypeOK, OutsideTypeOK, EventsInv, transportVars, outside, Queued
<1>3. /\ job[p].turn \in Turns
      /\ job[p] \in JobType
      /\ SessionOf[job[p].turn] \in Sessions
  <2>1. pc[p] \in {"persist", "interrupting"}
    BY DEF WaitStep, PublishTurn, PersistFails, InterruptAccepted, InterruptFails
  <2> QED
    BY <1>0, <2>1 DEF JobsInv, TasksTypeOK, Turns, TurnAssumption
<1>a. ASSUME Return(p)
      PROVE  JobsInv'
  <2>1. /\ pc'[p] = IF p = Pump THEN "idle" ELSE "done"
        /\ \A q \in Tasks \ {p} : pc'[q] = pc[q] /\ job'[q] = job[q]
    BY <1>0, <1>a, ReturnType
  <2> QED
    BY <1>0, <2>1, JobsKept DEF TurnAssumption
<1>4. CASE PublishTurn(p)
  <2> DEFINE g == job[p].gen
             t == job[p].turn
             s == SessionOf[t]
             owner == IF active[s].run = job[p].run
                      THEN [run |-> job[p].run, gen |-> g, turn |-> t] ELSE active[s]
  <2>1. g \in Gens /\ t \in MaybeRun /\ owner \in ActiveType
    BY <1>0, <1>3 DEF MapsTypeOK, JobType, ActiveType
  <2>2. /\ projected' = [projected EXCEPT ![t] = g]
        /\ active' = [active EXCEPT ![s] = owner]
        /\ activeThread' = [activeThread EXCEPT ![s] = [gen |-> g, turn |-> t]]
        /\ shown' = [shown EXCEPT ![s] = t]
        /\ \/ SendInterrupt(p, s, g, t, owner)
           \/ Return(p) /\ UNCHANGED <<interrupt, sent>>
        /\ UNCHANGED <<pendingStart, route, bound, resumed, recorded, lifecycle, gate, watchdogs,
                       outcome, wanted>>
    BY <1>4, Zenon DEF PublishTurn
  <2> HIDE DEF owner
  <2>3. /\ projected' \in [Turns -> Gens]
        /\ active' \in [Sessions -> ActiveType]
        /\ activeThread' \in [Sessions -> ThreadTurnType]
        /\ shown' \in [Sessions -> MaybeRun]
    BY <1>0, <1>3, <2>1, <2>2 DEF MapsTypeOK, SeenTypeOK, ThreadTurnType
  <2>4. /\ interrupt' \in [Sessions -> InterruptType]
        /\ pc' \in [Tasks -> Labels]
        /\ job' \in [Tasks -> JobType]
        /\ sent' \subseteq Turns
        /\ JobsInv'
    <3>1. CASE SendInterrupt(p, s, g, t, owner)
      <4>1. /\ interrupt' \in [Sessions -> InterruptType]
            /\ pc' \in [Tasks -> Labels]
            /\ job' \in [Tasks -> JobType]
            /\ sent' \subseteq Turns
            /\ pc'[p] = "interrupting" => job'[p].turn = t
            /\ pc'[p] \in {"interrupting", IF p = Pump THEN "idle" ELSE "done"}
            /\ \A q \in Tasks \ {p} : pc'[q] = pc[q] /\ job'[q] = job[q]
        BY <1>0, <1>3, <2>1, <3>1, SendInterruptType
      <4> QED
        BY <1>0, <1>3, <4>1, JobsKept DEF TurnAssumption
    <3>2. CASE Return(p) /\ UNCHANGED <<interrupt, sent>>
      BY <1>0, <1>a, <3>2, ReturnType DEF MapsTypeOK, SeenTypeOK
    <3> QED
      BY <2>2, <3>1, <3>2
  <2> QED
    BY <1>0, <1>2, <2>2, <2>3, <2>4, TypeParts DEF TypeInv, MapsTypeOK, TasksTypeOK, SeenTypeOK
<1>5. CASE PersistFails(p)
  <2>1. Refuse(p)
    BY <1>5 DEF PersistFails
  <2> QED
    BY <1>0, <1>2, <1>a, <2>1, RefuseType, TypeParts DEF TypeInv
<1>6. CASE InterruptAccepted(p)
  <2>1. /\ interrupt' \in [Sessions -> InterruptType]
        /\ Return(p)
    BY <1>0, <1>3, <1>6, SettleType DEF InterruptAccepted
  <2>2. watchdogs' \subseteq WatchdogType
    BY <1>0, <1>3, <1>6 DEF InterruptAccepted, TasksTypeOK, WatchdogType, JobType
  <2> QED
    BY <1>0, <1>2, <1>6, <1>a, <2>1, <2>2, ReturnType, TypeParts
       DEF TypeInv, InterruptAccepted, MapsTypeOK, TasksTypeOK, SeenTypeOK, seen
<1>7. CASE InterruptFails(p)
  <2>1. /\ interrupt' \in [Sessions -> InterruptType]
        /\ Return(p)
    BY <1>0, <1>3, <1>7, SettleType DEF InterruptFails
  <2> QED
    BY <1>0, <1>2, <1>7, <1>a, <2>1, ReturnType, TypeParts
       DEF TypeInv, InterruptFails, MapsTypeOK, TasksTypeOK, SeenTypeOK, seen
<1> QED
    BY <1>4, <1>5, <1>6, <1>7 DEF WaitStep
\* run_turn.
LEMMA RunType ==
    ASSUME TypeInv, NEW r \in Runs, BeginRun(r) \/ RunStep(r)
    PROVE  TypeInv'
<1> USE TurnAssumption
<1>0. TransportTypeOK /\ MapsTypeOK /\ TasksTypeOK /\ SeenTypeOK /\ OutsideTypeOK /\ JobsInv /\ EventsInv
    BY TypeParts DEF TypeInv
<1>1. r \in Tasks /\ r \in Turns /\ SessionOf[r] \in Sessions /\ r # Pump /\ r \notin Stops /\ r \in MaybeRun
    BY DEF TurnAssumption, Tasks, Turns, MaybeRun
<1>2. UNCHANGED <<transportVars, events>>
    BY DEF BeginRun, RunStep, RunFails, Prepare, ReadStatus, LoadThread, BindThread, RecordResumed,
           InsertStart, SendTurnStart, ReceiveTurn, outside
<1>3. TransportTypeOK' /\ events' \in Seq(EventType) /\ Queued' = Queued
    BY <1>0, <1>2 DEF TransportTypeOK, OutsideTypeOK, transportVars, Queued
<1>a. ASSUME UNCHANGED outside PROVE OutsideTypeOK' /\ EventsInv'
    BY <1>0, <1>a DEF OutsideTypeOK, EventsInv, outside, Queued
<1>b. ASSUME Return(r) PROVE JobsInv'
  <2>1. /\ pc'[r] = "done"
        /\ \A q \in Tasks \ {r} : pc'[q] = pc[q] /\ job'[q] = job[q]
    BY <1>0, <1>1, <1>b, ReturnType
  <2> QED
    BY <1>0, <1>1, <2>1, JobsKept
<1>c. ASSUME NEW label \in Labels \ {"persist", "interrupting", "complete"}, Goto(r, label),
             \A q \in Tasks \ {r} : job'[q] = job[q]
      PROVE  JobsInv' /\ pc' \in [Tasks -> Labels]
  <2>1. /\ pc' \in [Tasks -> Labels]
        /\ pc'[r] = label
        /\ \A q \in Tasks \ {r} : pc'[q] = pc[q] /\ job'[q] = job[q]
    BY <1>0, <1>1, <1>c DEF Goto, TasksTypeOK
  <2> QED
    BY <1>0, <1>1, <1>c, <2>1, JobsKept
<1>d. ASSUME NEW g \in Gens, Adopt(r, g) PROVE active' \in [Sessions -> ActiveType]
    BY <1>0, <1>1, <1>d DEF Adopt, MapsTypeOK, ActiveType
<1>e. current \in Gens
    BY <1>0 DEF TransportTypeOK, Gens
<1>4. CASE BeginRun(r)
  <2>1. [NoActive EXCEPT !.run = r] \in ActiveType
    BY <1>1, Nothings DEF ActiveType
  <2>2. active' \in [Sessions -> ActiveType]
    BY <1>0, <1>1, <1>4, <2>1 DEF BeginRun, MapsTypeOK
  <2>3. JobsInv' /\ pc' \in [Tasks -> Labels]
    <3>1. CASE Goto(r, "prepare")
      BY <1>4, <1>c, <3>1 DEF BeginRun, Labels
    <3>2. CASE Goto(r, "done")
      BY <1>4, <1>c, <3>2 DEF BeginRun, Labels
    <3> QED
      BY <1>4, <3>1, <3>2 DEF BeginRun
  <2> QED
    BY <1>0, <1>3, <1>4, <1>a, <2>2, <2>3, TypeParts
       DEF TypeInv, BeginRun, MapsTypeOK, TasksTypeOK, SeenTypeOK, seen
<1>5. CASE RunFails(r)
  <2>1. Fail(r) /\ UNCHANGED FailUntouched /\ UNCHANGED outside
    BY <1>5 DEF RunFails
  <2>2. Refuse(r)
    BY <2>1 DEF Refuse
  <2> QED
    BY <1>0, <1>1, <1>3, <1>a, <1>b, <2>1, <2>2, RefuseType, TypeParts DEF TypeInv
<1>6. CASE Prepare(r)
  <2>1. JobsInv' /\ pc' \in [Tasks -> Labels]
    BY <1>6, <1>c DEF Prepare, Labels
  <2> QED
    BY <1>0, <1>3, <1>6, <1>a, <2>1, TypeParts
       DEF TypeInv, Prepare, MapsTypeOK, TasksTypeOK, SeenTypeOK, maps, seen
<1>7. CASE ReadStatus(r)
  <2>1. active' \in [Sessions -> ActiveType] /\ route' \in [Sessions -> Gens]
    BY <1>0, <1>1, <1>7, <1>d, <1>e DEF ReadStatus, MapsTypeOK
  <2>2. job' \in [Tasks -> JobType] /\ \A q \in Tasks \ {r} : job'[q] = job[q]
    BY <1>0, <1>1, <1>7, <1>e DEF ReadStatus, TasksTypeOK, JobType
  <2>3. JobsInv' /\ pc' \in [Tasks -> Labels]
    <3>1. \E label \in {"threadStart", "ready", "resume"} : Goto(r, label)
      BY <1>7 DEF ReadStatus
    <3> QED
      BY <1>c, <2>2, <3>1 DEF Labels
  <2> QED
    BY <1>0, <1>3, <1>7, <1>a, <2>1, <2>2, <2>3, TypeParts
       DEF TypeInv, ReadStatus, MapsTypeOK, TasksTypeOK, SeenTypeOK, seen
<1>8. CASE LoadThread(r)
  <2>1. JobsInv' /\ pc' \in [Tasks -> Labels]
    <3>1. \E label \in {"resumed", "bind"} : Goto(r, label)
      BY <1>8 DEF LoadThread
    <3> QED
      BY <1>8, <1>c, <3>1 DEF LoadThread, Labels
  <2>2. current \in Generations
    BY <1>0, <1>8 DEF LoadThread, RequestSucceeds, TransportTypeOK
  <2>3. OutsideTypeOK' /\ EventsInv'
    BY <1>0, <1>3, <1>8, <2>2 DEF LoadThread, OutsideTypeOK, EventsInv
  <2> QED
    BY <1>0, <1>3, <1>8, <2>1, <2>3, TypeParts
       DEF TypeInv, LoadThread, MapsTypeOK, TasksTypeOK, SeenTypeOK, maps, seen
<1>9. CASE BindThread(r)
  <2>1. JobsInv' /\ pc' \in [Tasks -> Labels]
    BY <1>9, <1>c DEF BindThread, Labels
  <2> QED
    BY <1>0, <1>3, <1>9, <1>a, <2>1, TypeParts
       DEF TypeInv, BindThread, MapsTypeOK, TasksTypeOK, SeenTypeOK, seen
<1>10. CASE RecordResumed(r)
  <2>1. JobsInv' /\ pc' \in [Tasks -> Labels]
    BY <1>10, <1>c DEF RecordResumed, Labels
  <2>2. resumed' \in [Sessions -> Gens] /\ route' \in [Sessions -> Gens]
    BY <1>0, <1>1, <1>10, <1>e DEF RecordResumed, MapsTypeOK, TasksTypeOK, JobType
  <2> QED
    BY <1>0, <1>3, <1>10, <1>a, <2>1, <2>2, TypeParts
       DEF TypeInv, RecordResumed, MapsTypeOK, TasksTypeOK, SeenTypeOK, seen
<1>11. CASE InsertStart(r)
  <2>1. [run |-> r, gen |-> current] \in StartType
    BY <1>1, <1>e DEF StartType
  <2>2. active' \in [Sessions -> ActiveType] /\ pendingStart' \in [Sessions -> StartType]
    BY <1>0, <1>1, <1>11, <1>d, <1>e, <2>1 DEF InsertStart, MapsTypeOK
  <2>3. job' \in [Tasks -> JobType] /\ \A q \in Tasks \ {r} : job'[q] = job[q]
    BY <1>0, <1>1, <1>11, <1>e DEF InsertStart, TasksTypeOK, JobType
  <2>4. JobsInv' /\ pc' \in [Tasks -> Labels]
    BY <1>11, <1>c, <2>3 DEF InsertStart, Labels
  <2> QED
    BY <1>0, <1>3, <1>11, <1>a, <2>2, <2>3, <2>4, TypeParts
       DEF TypeInv, InsertStart, MapsTypeOK, TasksTypeOK, SeenTypeOK, seen
<1>12. CASE SendTurnStart(r)
  <2>1. JobsInv' /\ pc' \in [Tasks -> Labels]
    BY <1>12, <1>c DEF SendTurnStart, Labels
  <2>2. current \in Generations
    BY <1>0, <1>12 DEF SendTurnStart, RequestSucceeds, TransportTypeOK
  <2>3. OutsideTypeOK' /\ EventsInv'
    BY <1>0, <1>1, <1>3, <1>12, <1>e, <2>2 DEF SendTurnStart, OutsideTypeOK, EventsInv, ServerType
  <2> QED
    BY <1>0, <1>3, <1>12, <2>1, <2>3, TypeParts
       DEF TypeInv, SendTurnStart, MapsTypeOK, TasksTypeOK, SeenTypeOK, maps, seen
<1>13. CASE ReceiveTurn(r)
  <2> DEFINE s == SessionOf[r]
             taken == [NoJob EXCEPT !.gen = job[r].gen, !.run = pendingStart[s].run, !.turn = r]
  <2>1. CASE Refuse(r)
    BY <1>0, <1>1, <1>3, <1>13, <1>a, <1>b, <2>1, RefuseType, TypeParts DEF TypeInv, ReceiveTurn
  <2>2. CASE Return(r) /\ UNCHANGED <<pendingStart, active, interrupt, shown, FailUntouched>>
    BY <1>0, <1>1, <1>3, <1>13, <1>a, <1>b, <2>2, ReturnType, TypeParts
       DEF TypeInv, ReceiveTurn, MapsTypeOK, TasksTypeOK, SeenTypeOK, FailUntouched
  <2>3. CASE /\ pendingStart' = [pendingStart EXCEPT ![s] = NoStart]
             /\ job' = [job EXCEPT ![r] = taken]
             /\ Goto(r, "persist")
             /\ UNCHANGED <<active, interrupt, shown, FailUntouched>>
    <3>1. taken \in JobType /\ taken.turn = r
      BY <1>0, <1>1, Nothings DEF JobType, MapsTypeOK, TasksTypeOK, StartType, NoJob
    <3> HIDE DEF taken
    <3>2. /\ job' \in [Tasks -> JobType]
          /\ pendingStart' \in [Sessions -> StartType]
          /\ pc' \in [Tasks -> Labels]
      BY <1>0, <1>1, <2>3, <3>1, GotoType, Nothings DEF MapsTypeOK, TasksTypeOK, Labels
    <3>3. /\ pc'[r] = "persist" /\ job'[r] = taken
          /\ \A q \in Tasks \ {r} : pc'[q] = pc[q] /\ job'[q] = job[q]
      BY <1>0, <1>1, <2>3 DEF TasksTypeOK, Goto
    <3>4. JobsInv'
      BY <1>0, <1>1, <3>1, <3>3, JobsKept
    <3> QED
      BY <1>0, <1>3, <1>13, <1>a, <2>3, <3>2, <3>4, TypeParts
         DEF TypeInv, ReceiveTurn, MapsTypeOK, TasksTypeOK, SeenTypeOK, FailUntouched
  <2> QED
    BY <1>13, <2>1, <2>2, <2>3, Zenon DEF ReceiveTurn, Activate
<1> QED
    BY <1>4, <1>5, <1>6, <1>7, <1>8, <1>9, <1>10, <1>11, <1>12, <1>13 DEF RunStep
\* interrupt_session.
LEMMA StopType ==
    ASSUME TypeInv, NEW i \in Stops, NEW s \in Sessions, Stop(i, s)
    PROVE  TypeInv'
<1> USE TurnAssumption
<1>0. TransportTypeOK /\ MapsTypeOK /\ TasksTypeOK /\ SeenTypeOK /\ OutsideTypeOK /\ JobsInv /\ EventsInv
    BY TypeParts DEF TypeInv
<1>1. i \in Tasks /\ i # Pump
    BY DEF TurnAssumption, Tasks
<1>2. UNCHANGED <<transportVars, outside>> /\ UNCHANGED <<active, pendingStart, projected, activeThread,
         route, bound, resumed, lifecycle, gate, watchdogs, recorded, shown, outcome>>
    BY DEF Stop
<1>3. TransportTypeOK' /\ OutsideTypeOK' /\ EventsInv'
    BY <1>0, <1>2 DEF TransportTypeOK, OutsideTypeOK, EventsInv, transportVars, outside, Queued
<1>4. /\ active[s] \in ActiveType /\ active[s].gen \in Gens /\ active[s].run \in MaybeRun
      /\ active[s].turn # NoRun => active[s].turn \in Turns
    BY <1>0 DEF MapsTypeOK, ActiveType, MaybeRun, Turns
<1>5. wanted' \subseteq Runs
    BY <1>0, <1>4 DEF Stop, SeenTypeOK, MaybeRun
<1>6. /\ interrupt' \in [Sessions -> InterruptType]
      /\ pc' \in [Tasks -> Labels]
      /\ job' \in [Tasks -> JobType]
      /\ sent' \subseteq Turns
      /\ JobsInv'
  <2> DEFINE waiting == [NoInterrupt EXCEPT !.gen = active[s].gen, !.run = active[s].run,
                                            !.phase = "PendingIdentity"]
  <2>1. CASE /\ Return(i)
             /\ UNCHANGED sent
             /\ \/ UNCHANGED interrupt
                \/ interrupt' = [interrupt EXCEPT ![s] = IF @.phase # "none" THEN @ ELSE waiting]
    <3>1. waiting \in InterruptType
      BY <1>4 DEF NoInterrupt, InterruptType, MaybeRun
    <3>2. interrupt' \in [Sessions -> InterruptType] /\ sent' \subseteq Turns
      BY <1>0, <2>1, <3>1 DEF MapsTypeOK, SeenTypeOK
    <3>3. /\ pc' \in [Tasks -> Labels]
          /\ job' \in [Tasks -> JobType]
          /\ pc'[i] = "done"
          /\ \A q \in Tasks \ {i} : pc'[q] = pc[q] /\ job'[q] = job[q]
      BY <1>0, <1>1, <2>1, ReturnType
    <3> QED
      BY <1>0, <1>1, <3>2, <3>3, JobsKept
  <2>2. CASE active[s].turn # NoRun /\ SendInterrupt(i, s, active[s].gen, active[s].turn, active[s])
    <3>1. /\ interrupt' \in [Sessions -> InterruptType]
          /\ pc' \in [Tasks -> Labels]
          /\ job' \in [Tasks -> JobType]
          /\ sent' \subseteq Turns
          /\ pc'[i] = "interrupting" => job'[i].turn = active[s].turn
          /\ pc'[i] \in {"interrupting", IF i = Pump THEN "idle" ELSE "done"}
          /\ \A q \in Tasks \ {i} : pc'[q] = pc[q] /\ job'[q] = job[q]
      BY <1>0, <1>1, <1>4, <2>2, SendInterruptType
    <3> QED
      BY <1>0, <1>1, <1>4, <2>2, <3>1, JobsKept
  <2> QED
    BY <2>1, <2>2 DEF Stop
<1> QED
  BY <1>0, <1>2, <1>3, <1>5, <1>6, TypeParts DEF TypeInv, MapsTypeOK, TasksTypeOK, SeenTypeOK

\* What the pump reads is an event of its queue.
LEMMA PumpReadsType ==
    ASSUME TypeInv, NEW kind, PumpReads(kind)
    PROVE  /\ Head(events) \in EventType
           /\ Head(events) \in Queued
           /\ kind # "closed" => Head(events).turn \in Turns
           /\ Queued' \subseteq Queued
           /\ Queued \subseteq Queued' \cup {Head(events)}
           /\ TransportTypeOK' /\ OutsideTypeOK' /\ EventsInv'
<1>0. TransportTypeOK /\ OutsideTypeOK /\ EventsInv
    BY TypeParts DEF TypeInv
<1>1. /\ events' \in Seq(EventType)
      /\ Head(events) \in EventType
      /\ Head(events) \in Queued
      /\ Queued' \subseteq Queued
      /\ Queued \subseteq Queued' \cup {Head(events)}
    BY <1>0, QueueTail DEF PumpReads, OutsideTypeOK
<1>2. UNCHANGED <<transportVars, server, loaded>> /\ Head(events).kind = kind
    BY DEF PumpReads
<1> QED
    BY <1>0, <1>1, <1>2 DEF TransportTypeOK, transportVars, OutsideTypeOK, EventsInv

\* The end of a turn.
LEMMA EndExactTurnType ==
    ASSUME TurnAssumption, MapsTypeOK, SeenTypeOK, NEW g, NEW t \in Turns, NEW exact \in BOOLEAN,
           NEW ending \in {"completed", "unsaved"}, EndExactTurn(g, t, exact, ending)
    PROVE  /\ active' \in [Sessions -> ActiveType]
           /\ activeThread' \in [Sessions -> ThreadTurnType]
           /\ interrupt' \in [Sessions -> InterruptType]
           /\ outcome' \in [Turns -> {"none", "completed", "cancelled", "unsaved"}]
           /\ shown' \in [Sessions -> MaybeRun]
<1>1. SessionOf[t] \in Sessions
    BY DEF TurnAssumption, Turns
<1>2. /\ active' \in [Sessions -> ActiveType]
      /\ activeThread' \in [Sessions -> ThreadTurnType]
      /\ interrupt' \in [Sessions -> InterruptType]
    BY <1>1, Nothings DEF EndExactTurn, MapsTypeOK
<1>3. /\ outcome' \in [Turns -> {"none", "completed", "cancelled", "unsaved"}]
      /\ shown' \in [Sessions -> MaybeRun]
    BY <1>1, Nothings DEF EndExactTurn, SeenTypeOK
<1> QED
    BY <1>2, <1>3
\* The event pump.
LEMMA PumpType ==
    ASSUME TypeInv, PumpStep
    PROVE  TypeInv'
<1> USE TurnAssumption
<1>0. TransportTypeOK /\ MapsTypeOK /\ TasksTypeOK /\ SeenTypeOK /\ OutsideTypeOK /\ JobsInv /\ EventsInv
    BY TypeParts DEF TypeInv
<1>1. Pump \in Tasks /\ Pump \notin Runs \cup Stops
    BY DEF TurnAssumption, Tasks
<1>2. ASSUME NEW kind, PumpReads(kind), kind # "closed"
      PROVE  /\ Head(events).turn \in Turns
             /\ Head(events).turn \in MaybeRun
             /\ SessionOf[Head(events).turn] \in Sessions
             /\ Head(events).gen \in Gens
             /\ TransportTypeOK' /\ OutsideTypeOK' /\ EventsInv'
    BY <1>2, PumpReadsType DEF EventType, Gens, MaybeRun, Turns, TurnAssumption
<1>3. ASSUME UNCHANGED <<transportVars, outside>> PROVE TransportTypeOK' /\ OutsideTypeOK' /\ EventsInv'
    BY <1>0, <1>3 DEF TransportTypeOK, OutsideTypeOK, EventsInv, transportVars, outside, Queued
<1>a. ASSUME Return(Pump) PROVE JobsInv' /\ pc' \in [Tasks -> Labels] /\ job' \in [Tasks -> JobType]
  <2>1. /\ pc' \in [Tasks -> Labels]
        /\ job' \in [Tasks -> JobType]
        /\ pc'[Pump] = "idle"
        /\ \A q \in Tasks \ {Pump} : pc'[q] = pc[q] /\ job'[q] = job[q]
    BY <1>0, <1>1, <1>a, ReturnType
  <2> QED
    BY <1>0, <1>1, <2>1, JobsKept
<1>4. CASE PumpIgnores
  <2>1. UNCHANGED engine /\ TransportTypeOK' /\ OutsideTypeOK' /\ EventsInv'
    BY <1>2, <1>4 DEF PumpIgnores
  <2> QED
    BY <1>0, <2>1, TypeParts
       DEF TypeInv, MapsTypeOK, TasksTypeOK, SeenTypeOK, JobsInv, engine, maps, tasks, seen
<1>5. CASE HandleStarted
  <2> DEFINE e == Head(events)
             t == e.turn
             s == SessionOf[t]
             taken == [NoJob EXCEPT !.gen = e.gen, !.run = pendingStart[s].run, !.turn = t]
  <2>1. /\ t \in Turns /\ t \in MaybeRun /\ s \in Sessions /\ e.gen \in Gens
        /\ TransportTypeOK' /\ OutsideTypeOK' /\ EventsInv'
    BY <1>2, <1>5 DEF HandleStarted
  <2>2. /\ activeThread' = [activeThread EXCEPT ![s] = [gen |-> e.gen, turn |-> t]]
        /\ UNCHANGED <<active, projected, route, bound, resumed, interrupt, lifecycle, gate,
                       watchdogs, seen>>
        /\ \/ /\ pendingStart' = [pendingStart EXCEPT ![s] = NoStart]
              /\ job' = [job EXCEPT ![Pump] = taken]
              /\ Goto(Pump, "persist")
           \/ UNCHANGED <<pendingStart, job, pc>>
    BY <1>5, Zenon DEF HandleStarted
  <2>3. activeThread' \in [Sessions -> ThreadTurnType]
    BY <1>0, <2>1, <2>2 DEF MapsTypeOK, ThreadTurnType
  <2>4. CASE UNCHANGED <<pendingStart, job, pc>>
    BY <1>0, <2>1, <2>2, <2>3, <2>4, TypeParts
       DEF TypeInv, MapsTypeOK, TasksTypeOK, SeenTypeOK, JobsInv, seen
  <2>5. CASE /\ pendingStart' = [pendingStart EXCEPT ![s] = NoStart]
             /\ job' = [job EXCEPT ![Pump] = taken]
             /\ Goto(Pump, "persist")
    <3>1. taken \in JobType /\ taken.turn = t
      BY <1>0, <2>1, Nothings DEF JobType, MapsTypeOK, StartType, NoJob
    <3> HIDE DEF taken
    <3>2. /\ job' \in [Tasks -> JobType]
          /\ pendingStart' \in [Sessions -> StartType]
          /\ pc' \in [Tasks -> Labels]
      BY <1>0, <1>1, <2>5, <3>1, GotoType, Nothings DEF MapsTypeOK, TasksTypeOK, Labels
    <3>3. /\ pc'[Pump] = "persist" /\ job'[Pump] = taken
          /\ \A q \in Tasks \ {Pump} : pc'[q] = pc[q] /\ job'[q] = job[q]
      BY <1>0, <1>1, <2>5 DEF TasksTypeOK, Goto
    <3>4. JobsInv'
      BY <1>0, <1>1, <2>1, <3>1, <3>3, JobsKept
    <3> QED
      BY <1>0, <2>1, <2>2, <2>3, <3>2, <3>4, TypeParts
         DEF TypeInv, MapsTypeOK, TasksTypeOK, SeenTypeOK, seen
  <2> QED
    BY <2>2, <2>4, <2>5
<1>6. CASE HandleCompleted
  <2> DEFINE e == Head(events)
             t == e.turn
             s == SessionOf[t]
  <2>1. /\ t \in Turns /\ t \in MaybeRun /\ e.gen \in Gens
        /\ TransportTypeOK' /\ OutsideTypeOK' /\ EventsInv'
    BY <1>2, <1>6 DEF HandleCompleted
  <2>2. PICK owner \in BOOLEAN, exact \in BOOLEAN :
            job' = [job EXCEPT ![Pump] = [NoJob EXCEPT !.gen = e.gen, !.turn = t, !.owner = owner,
                                                       !.exact = exact]]
    BY <1>6 DEF HandleCompleted
  <2>3. [NoJob EXCEPT !.gen = e.gen, !.turn = t, !.owner = owner, !.exact = exact] \in JobType
    BY <2>1, Nothings DEF JobType, NoJob
  <2>4. /\ pc' \in [Tasks -> Labels]
        /\ job' \in [Tasks -> JobType]
        /\ pc'[Pump] = "complete" /\ job'[Pump].turn = t
        /\ \A q \in Tasks \ {Pump} : pc'[q] = pc[q] /\ job'[q] = job[q]
    BY <1>0, <1>1, <1>6, <2>2, <2>3 DEF HandleCompleted, Goto, TasksTypeOK, Labels, NoJob
  <2>5. JobsInv'
    BY <1>0, <1>1, <2>1, <2>4 DEF JobsInv, Tasks
  <2> QED
    BY <1>0, <1>6, <2>1, <2>4, <2>5, TypeParts
       DEF TypeInv, HandleCompleted, MapsTypeOK, TasksTypeOK, SeenTypeOK, maps, seen
<1>7. CASE CompleteTurn \/ TerminalUnsaved
  <2> DEFINE g == job[Pump].gen
             t == job[Pump].turn
             exact == job[Pump].exact
  <2>1. t \in Turns /\ exact \in BOOLEAN
    BY <1>0, <1>1, <1>7 DEF CompleteTurn, TerminalUnsaved, JobsInv, TasksTypeOK, JobType
  <2>2. /\ EndExactTurn(g, t, exact, "completed") \/ EndExactTurn(g, t, exact, "unsaved")
        /\ Return(Pump)
        /\ lifecycle' = "free"
        /\ recorded' \in {recorded, recorded \cup {t}}
        /\ projected' = projected \/ projected' = [projected EXCEPT ![t] = NoGeneration]
        /\ UNCHANGED <<pendingStart, route, bound, resumed, gate, watchdogs, wanted, sent,
                       transportVars, outside>>
    BY <1>0, <1>7, <2>1 DEF CompleteTurn, TerminalUnsaved, MapsTypeOK
  <2>3. /\ active' \in [Sessions -> ActiveType]
        /\ activeThread' \in [Sessions -> ThreadTurnType]
        /\ interrupt' \in [Sessions -> InterruptType]
        /\ outcome' \in [Turns -> {"none", "completed", "cancelled", "unsaved"}]
        /\ shown' \in [Sessions -> MaybeRun]
    <3>1. CASE EndExactTurn(g, t, exact, "completed")
      <4> HIDE DEF g, t, exact
      <4> QED
        BY <1>0, <2>1, <3>1, EndExactTurnType
    <3>2. CASE EndExactTurn(g, t, exact, "unsaved")
      <4> HIDE DEF g, t, exact
      <4> QED
        BY <1>0, <2>1, <3>2, EndExactTurnType
    <3> QED
      BY <2>2, <3>1, <3>2
  <2>4. projected' \in [Turns -> Gens] /\ recorded' \subseteq Turns
    BY <1>0, <2>1, <2>2, Nothings DEF MapsTypeOK, SeenTypeOK
  <2>5. JobsInv' /\ pc' \in [Tasks -> Labels] /\ job' \in [Tasks -> JobType]
    BY <1>a, <2>2
  <2>6. TransportTypeOK' /\ OutsideTypeOK' /\ EventsInv'
    BY <1>3, <2>2
  <2> QED
    BY <1>0, <2>2, <2>3, <2>4, <2>5, <2>6, TypeParts DEF TypeInv, MapsTypeOK, TasksTypeOK, SeenTypeOK
<1>8. CASE TerminalDropped
  <2>1. JobsInv' /\ pc' \in [Tasks -> Labels] /\ job' \in [Tasks -> JobType]
    BY <1>8, <1>a DEF TerminalDropped
  <2>2. TransportTypeOK' /\ OutsideTypeOK' /\ EventsInv'
    BY <1>3, <1>8 DEF TerminalDropped
  <2> QED
    BY <1>0, <1>8, <2>1, <2>2, TypeParts
       DEF TypeInv, TerminalDropped, MapsTypeOK, TasksTypeOK, SeenTypeOK, maps, seen
<1>9. CASE HandleClosed
  <2>1. PumpReads("closed") /\ UNCHANGED <<bound, tasks, recorded, outcome, wanted, sent>>
    BY <1>9 DEF HandleClosed
  <2>2. TransportTypeOK' /\ OutsideTypeOK' /\ EventsInv'
    BY <2>1, PumpReadsType
  <2>3. MapsTypeOK'
    BY <1>0, <1>9, Nothings DEF HandleClosed, MapsTypeOK
  <2>4. shown' \in [Sessions -> MaybeRun]
    BY <1>0, <1>9, Nothings DEF HandleClosed, SeenTypeOK
  <2> QED
    BY <1>0, <2>1, <2>2, <2>3, <2>4, TypeParts DEF TypeInv, TasksTypeOK, SeenTypeOK, JobsInv, tasks
<1> QED
    BY <1>4, <1>5, <1>6, <1>7, <1>8, <1>9 DEF PumpStep
\* handle_interrupt_watchdog.
LEMMA WatchdogStepType ==
    ASSUME TypeInv, NEW w \in watchdogs, WatchdogStep(w)
    PROVE  TypeInv'
<1> USE TurnAssumption
<1>0. TransportTypeOK /\ MapsTypeOK /\ TasksTypeOK /\ SeenTypeOK /\ OutsideTypeOK /\ JobsInv /\ EventsInv
    BY TypeParts DEF TypeInv
<1>1. UNCHANGED <<transportVars, outside>> /\ UNCHANGED <<pc, job>>
      /\ UNCHANGED <<pendingStart, route, bound, resumed, gate, recorded, wanted, sent>>
    BY DEF WatchdogStep, WatchdogWakes, WatchdogChecks, WatchdogCancels, WatchdogAppendFails, maps, seen
<1>2. TransportTypeOK' /\ OutsideTypeOK' /\ EventsInv' /\ JobsInv'
    BY <1>0, <1>1 DEF TransportTypeOK, OutsideTypeOK, EventsInv, JobsInv, transportVars, outside, Queued
<1>3. w \in WatchdogType /\ SessionOf[w.turn] \in Sessions
    BY <1>0 DEF TasksTypeOK, WatchdogType, Turns, TurnAssumption
<1>4. watchdogs' \subseteq WatchdogType
  <2>1. ASSUME NEW stage \in {"armed", "woken", "append"} PROVE [w EXCEPT !.stage = stage] \in WatchdogType
    BY <1>3 DEF WatchdogType
  <2> QED
    BY <1>0, <2>1
       DEF WatchdogStep, WatchdogWakes, WatchdogChecks, WatchdogCancels, WatchdogAppendFails, Become, TasksTypeOK
<1>5. lifecycle' \in {"free", "pump", "watchdog"}
    BY <1>0
       DEF WatchdogStep, WatchdogWakes, WatchdogChecks, WatchdogCancels, WatchdogAppendFails, TasksTypeOK
<1>6. TasksTypeOK'
    BY <1>0, <1>1, <1>4, <1>5 DEF TasksTypeOK
<1>7. CASE WatchdogWakes(w)
    BY <1>0, <1>2, <1>6, <1>7, TypeParts DEF TypeInv, WatchdogWakes, MapsTypeOK, SeenTypeOK, maps, seen
<1>8. CASE WatchdogChecks(w)
  <2>1. interrupt' \in [Sessions -> InterruptType]
    BY <1>0, <1>8, Nothings DEF WatchdogChecks, MapsTypeOK
  <2> QED
    BY <1>0, <1>1, <1>2, <1>6, <1>8, <2>1, TypeParts DEF TypeInv, WatchdogChecks, MapsTypeOK, SeenTypeOK, seen
<1>9. CASE WatchdogCancels(w)
  <2>1. MapsTypeOK'
    BY <1>0, <1>1, <1>9, Nothings DEF WatchdogCancels, MapsTypeOK
  <2>2. SeenTypeOK'
    BY <1>0, <1>1, <1>9, Nothings DEF WatchdogCancels, SeenTypeOK
  <2> QED
    BY <1>2, <1>6, <2>1, <2>2, TypeParts DEF TypeInv
<1>10. CASE WatchdogAppendFails(w)
  <2>1. interrupt' \in [Sessions -> InterruptType]
    <3>1. [interrupt[SessionOf[w.turn]] EXCEPT !.phase = "Retryable"] \in InterruptType
      BY <1>0, <1>3 DEF MapsTypeOK, InterruptType
    <3> QED
      BY <1>0, <1>3, <1>10, <3>1 DEF WatchdogAppendFails, MapsTypeOK
  <2> QED
    BY <1>0, <1>1, <1>2, <1>6, <1>10, <2>1, TypeParts
       DEF TypeInv, WatchdogAppendFails, MapsTypeOK, SeenTypeOK, seen
<1> QED
    BY <1>7, <1>8, <1>9, <1>10 DEF WatchdogStep

\* shutdown.
LEMMA ShutdownType ==
    ASSUME TypeInv, ShutdownStep
    PROVE  TypeInv'
<1> USE TurnAssumption
<1>0. TransportTypeOK /\ MapsTypeOK /\ TasksTypeOK /\ SeenTypeOK /\ OutsideTypeOK /\ JobsInv /\ EventsInv
    BY TypeParts DEF TypeInv
<1>1. UNCHANGED outside
    BY DEF ShutdownStep, CloseTransport, DrainRuns, FinishShutdown
<1>2. OutsideTypeOK' /\ EventsInv'
    BY <1>0, <1>1 DEF OutsideTypeOK, EventsInv, outside, Queued
<1>3. CASE CloseTransport \/ DrainRuns
  <2>1. TransportTypeOK'
    BY <1>0, <1>3 DEF CloseTransport, DrainRuns, Halt, TransportTypeOK, transportVars
  <2> QED
    BY <1>0, <1>2, <1>3, <2>1, TypeParts
       DEF TypeInv, CloseTransport, DrainRuns, MapsTypeOK, TasksTypeOK, SeenTypeOK, JobsInv, maps, seen
<1>4. CASE FinishShutdown
  <2>1. TransportTypeOK'
    BY <1>0, <1>4 DEF FinishShutdown, TransportTypeOK, transportVars
  <2>2. MapsTypeOK'
    BY <1>0, <1>4, Nothings DEF FinishShutdown, MapsTypeOK
  <2>3. Pump \in Tasks /\ Pump \notin Runs \cup Stops
    BY DEF TurnAssumption, Tasks
  <2>4. TasksTypeOK'
    BY <1>0, <1>4, <2>3, Nothings DEF FinishShutdown, TasksTypeOK, Goto, Labels
  <2>5. SeenTypeOK'
    <3>1. pc[Pump] = "complete" => job[Pump].turn \in Turns
      BY <1>0, <2>3 DEF JobsInv
    <3> QED
      BY <1>0, <1>4, <3>1 DEF FinishShutdown, SeenTypeOK
  <2>6. JobsInv'
    BY <1>0, <1>4, <2>3 DEF FinishShutdown, JobsInv, TasksTypeOK, Goto, Tasks
  <2> QED
    BY <1>2, <2>1, <2>2, <2>4, <2>5, <2>6, TypeParts DEF TypeInv
<1> QED
    BY <1>3, <1>4 DEF ShutdownStep

\* Every variable keeps its type, whatever is done.
LEMMA TypeStep ==
    ASSUME TypeInv, [Next]_vars
    PROVE  TypeInv'
<1>1. CASE UNCHANGED vars
    BY <1>1 DEF TypeInv, TypeOK, TransportTypeOK, JobsInv, EventsInv, Queued, vars, engine, maps, tasks, seen,
                outside, transportVars
<1>2. CASE Next
    BY <1>2, OutsideStep, RunType, WaitType, StopType, PumpType, WatchdogStepType, ShutdownType DEF Next
<1> QED
    BY <1>1, <1>2

\* The types hold in every reachable state.
LEMMA TypeInvariance == Spec => []TypeInv
BY InitType, TypeStep, PTL DEF Spec

\* Type correctness of the engine's maps, tasks and watchdogs, of what a listener
\* sees and of the events and turns of the app-server.
THEOREM TypeCorrect == Spec => []TypeOK
<1>1. TypeInv => TypeOK
    BY DEF TypeInv
<1> QED
    BY <1>1, TypeInvariance, PTL
-----------------------------------------------------------------------------
(* Shutdown *)

DownInv == ShutdownLeavesNothing /\ (gate = "down" => pc[Pump] = "done")

\* Nothing that is still under way after shutdown puts anything back: tasks that
\* could have are over, and what is left only releases.
LEMMA DownStep ==
    ASSUME TypeInv, DownInv, [Next]_vars
    PROVE  DownInv'
<1> USE TurnAssumption
<1>0. MapsTypeOK /\ TasksTypeOK /\ JobsInv
    BY TypeParts DEF TypeInv
<1>1. Pump \in Tasks /\ Pump \notin Runs \cup Stops
    BY DEF TurnAssumption, Tasks
<1>2. CASE UNCHANGED <<active, pendingStart, projected, activeThread, gate, pc>>
    BY <1>2 DEF DownInv, ShutdownLeavesNothing, Drained
<1>3. CASE gate' # "down"
    BY <1>3 DEF DownInv, ShutdownLeavesNothing
<1>4. CASE FinishShutdown
    BY <1>0, <1>1, <1>4 DEF FinishShutdown, DownInv, ShutdownLeavesNothing, Drained, Goto, TasksTypeOK
<1>5. ASSUME gate = "down", gate' = "down", ~FinishShutdown PROVE DownInv'
  <2>1. /\ active = [s \in Sessions |-> NoActive]
        /\ pendingStart = [s \in Sessions |-> NoStart]
        /\ projected = [t \in Turns |-> NoGeneration]
        /\ activeThread = [s \in Sessions |-> NoThreadTurn]
        /\ \A r \in Runs : pc[r] \in {"idle", "done"}
        /\ pc[Pump] = "done"
    BY <1>5 DEF DownInv, ShutdownLeavesNothing, Drained
  <2>2. ASSUME NEW p \in Tasks \ (Runs \cup {Pump}), UNCHANGED <<active, pendingStart, projected, activeThread>>,
               \A q \in Tasks \ {p} : pc'[q] = pc[q]
        PROVE  DownInv'
    <3>1. \A q \in Runs \cup {Pump} : pc'[q] = pc[q]
      BY <1>1, <2>2 DEF Tasks
    <3> QED
      BY <2>1, <2>2, <3>1 DEF DownInv, ShutdownLeavesNothing, Drained
  <2>3. CASE TransportStep \/ (\E t \in Turns : ServerStep(t)) \/ UNCHANGED vars
    BY <1>2, <2>3
       DEF TransportStep, TransportMoves, AnnounceLoss, ServerStep, ReplyTurnStart, NotifyStarted,
           NotifyCompleted, vars, engine, maps, tasks
  <2>4. ASSUME NEW r \in Runs, BeginRun(r) PROVE DownInv'
    <3>1. /\ active' = active
          /\ pc' = [pc EXCEPT ![r] = "done"]
          /\ UNCHANGED <<pendingStart, projected, activeThread>>
      BY <1>0, <1>5, <2>1, <2>4 DEF BeginRun, Goto, MapsTypeOK
    <3> QED
      BY <1>0, <1>1, <2>1, <3>1 DEF DownInv, ShutdownLeavesNothing, Drained, TasksTypeOK, Tasks
  <2>5. ASSUME NEW r \in Runs, RunStep(r) PROVE FALSE
    BY <2>1, <2>5
       DEF RunStep, RunFails, Prepare, ReadStatus, LoadThread, BindThread, RecordResumed, InsertStart,
           SendTurnStart, ReceiveTurn
  <2>6. ASSUME NEW p \in Tasks, WaitStep(p) PROVE DownInv'
    <3>1. pc[p] \in {"persist", "interrupting"}
      BY <2>6 DEF WaitStep, PublishTurn, PersistFails, InterruptAccepted, InterruptFails
    <3>2. p \in Tasks \ (Runs \cup {Pump}) /\ pc[p] # "persist"
      BY <1>0, <2>1, <3>1 DEF JobsInv, Tasks
    <3>3. Return(p) /\ UNCHANGED <<active, pendingStart, projected, activeThread>>
      BY <2>6, <3>2 DEF WaitStep, PublishTurn, PersistFails, InterruptAccepted, InterruptFails
    <3> QED
      BY <1>0, <2>2, <3>2, <3>3, ReturnType
  <2>7. ASSUME NEW i \in Stops, NEW s \in Sessions, Stop(i, s) PROVE DownInv'
    <3>1. active[s].run = NoRun
      BY <2>1 DEF NoActive
    <3> QED
      BY <2>7, <3>1 DEF Stop
  <2>8. CASE PumpStep
    BY <2>1, <2>8
       DEF PumpStep, PumpIgnores, HandleStarted, HandleCompleted, HandleClosed, PumpReads, CompleteTurn,
           TerminalUnsaved, TerminalDropped
  <2>9. ASSUME NEW w \in watchdogs, WatchdogStep(w) PROVE DownInv'
    <3>1. UNCHANGED <<active, pendingStart, projected, activeThread, gate, pc>>
      <4>1. CASE WatchdogCancels(w)
        BY <2>1, <4>1 DEF WatchdogCancels
      <4>2. CASE WatchdogWakes(w) \/ WatchdogChecks(w) \/ WatchdogAppendFails(w)
        BY <4>2 DEF WatchdogWakes, WatchdogChecks, WatchdogAppendFails, maps
      <4> QED
        BY <2>9, <4>1, <4>2 DEF WatchdogStep
    <3> QED
      BY <1>2, <3>1
  <2>10. CASE CloseTransport \/ DrainRuns
    BY <1>5, <2>10 DEF CloseTransport, DrainRuns
  <2> QED
    BY <1>4, <2>3, <2>4, <2>5, <2>6, <2>7, <2>8, <2>9, <2>10 DEF Next, ShutdownStep
<1>6. ASSUME gate # "down", gate' = "down" PROVE FinishShutdown
  <2>1. TransportStep \/ (\E t \in Turns : ServerStep(t)) \/ UNCHANGED vars => UNCHANGED gate
    BY DEF TransportStep, TransportMoves, AnnounceLoss, ServerStep, ReplyTurnStart, NotifyStarted,
           NotifyCompleted, vars, engine, tasks
  <2>2. ASSUME NEW r \in Runs, BeginRun(r) \/ RunStep(r) PROVE UNCHANGED gate
    BY <2>2
       DEF BeginRun, RunStep, RunFails, Prepare, ReadStatus, LoadThread, BindThread, RecordResumed, InsertStart,
           SendTurnStart, ReceiveTurn, Activate, Refuse, FailUntouched
  <2>3. ASSUME NEW p \in Tasks, WaitStep(p) PROVE UNCHANGED gate
    BY <2>3 DEF WaitStep, PublishTurn, PersistFails, InterruptAccepted, InterruptFails, Refuse, FailUntouched
  <2>4. ASSUME NEW i \in Stops, NEW s \in Sessions, Stop(i, s) PROVE UNCHANGED gate
    BY <2>4 DEF Stop
  <2>5. PumpStep => UNCHANGED gate
    BY DEF PumpStep, PumpIgnores, HandleStarted, HandleCompleted, HandleClosed, CompleteTurn,
           TerminalUnsaved, TerminalDropped, engine, tasks
  <2>6. ASSUME NEW w \in watchdogs, WatchdogStep(w) PROVE UNCHANGED gate
    BY <2>6 DEF WatchdogStep, WatchdogWakes, WatchdogChecks, WatchdogCancels, WatchdogAppendFails
  <2>7. CloseTransport \/ DrainRuns => gate' # "down"
    BY DEF CloseTransport, DrainRuns
  <2> QED
    BY <1>6, <2>1, <2>2, <2>3, <2>4, <2>5, <2>6, <2>7 DEF Next, ShutdownStep
<1> QED
    BY <1>3, <1>4, <1>5, <1>6

\* After shutdown nothing of a turn is left and nothing comes back, although runs,
\* the pump and watchdogs were under way (EngineLetsGo checks its end).
THEOREM ShutdownSafe == Spec => []ShutdownLeavesNothing
<1>1. Init => DownInv
    BY DEF Init, DownInv, ShutdownLeavesNothing
<1>2. TypeInv /\ DownInv /\ [Next]_vars => DownInv'
    BY DownStep
<1>3. DownInv => ShutdownLeavesNothing
    BY DEF DownInv
<1> QED
    BY <1>1, <1>2, <1>3, TypeInvariance, PTL DEF Spec

-----------------------------------------------------------------------------
(* One owner of a session *)

Late(t) == server[t].phase = "accepted" \/ StartQueued(t)

Busy(r) == pc[r] \notin {"idle", "done"}

\* Generations only grow, a turn's events carry its own, and the current one is
\* not lost.
GensInv ==
    /\ current <= spawned
    /\ \A g \in owed \cup announced : g <= spawned /\ g # current
    /\ \A t \in Turns : server[t].gen <= spawned
    /\ \A s \in Sessions : \A g \in loaded[s] : g <= spawned
    /\ \A e \in Queued :
           /\ e.kind = "closed" => e.gen \in announced
           /\ e.kind # "closed" => /\ e.gen = server[e.turn].gen
                                   /\ server[e.turn].phase \in {"started", "done"}

\* A session has one run under way, which owns it or lost it, and only that run's
\* start waits.
RunInv ==
    /\ \A r, q \in Runs : Busy(r) /\ Busy(q) /\ SessionOf[r] = SessionOf[q] => r = q
    /\ \A r \in Runs : Busy(r) => active[SessionOf[r]].run \in {r, NoRun}
    /\ \A s \in Sessions :
           /\ active[s].run = NoRun => active[s] = NoActive
           /\ active[s].run # NoRun => SessionOf[active[s].run] = s /\ pc[active[s].run] # "idle"
           /\ pendingStart[s].run = NoRun => pendingStart[s] = NoStart
           /\ pendingStart[s].run # NoRun =>
                  /\ SessionOf[pendingStart[s].run] = s
                  /\ pc[pendingStart[s].run] \in {"turnStart", "turnWait"}
                  /\ pendingStart[s].gen = job[pendingStart[s].run].gen
    /\ \A r \in Runs :
           /\ pc[r] \in {"turnStart", "turnWait"} /\ active[SessionOf[r]].run = r =>
                  active[SessionOf[r]].gen = job[r].gen
           /\ pc[r] = "turnStart" /\ current \in loaded[SessionOf[r]] => current = job[r].gen
           /\ pc[r] = "turnWait" => server[r].gen = job[r].gen /\ server[r].phase # "none"
           /\ server[r].phase # "none" => pc[r] \in {"turnWait", "persist", "interrupting", "done"}
           /\ pc[r] = "idle" => job[r].gen = NoGeneration

\* A start that is still on its way is of another generation than what the
\* session's later run counts on.
LateInv ==
    \A t, r \in Runs : r # t /\ SessionOf[r] = SessionOf[t] /\ Late(t) =>
        /\ Busy(r) => server[t].gen # current /\ job[r].gen # server[t].gen
        /\ active[SessionOf[r]].run = r =>
               server[t].gen # current /\ active[SessionOf[r]].gen # server[t].gen

\* The start of t was taken, and its turn published or given up.
Past(t) ==
    /\ pendingStart[SessionOf[t]].run # t
    /\ \A p \in Tasks : pc[p] = "persist" => job[p].turn # t
    /\ pc[t] \in {"turnWait", "interrupting", "done"}

\* The one task that saves the user message of t holds its start, and until it is
\* done the session is t's or nobody's.
PersistInv ==
    \A p \in Tasks : pc[p] = "persist" =>
        LET t == job[p].turn
            s == SessionOf[t]
            g == job[p].gen
        IN /\ p \in {t, Pump}
           /\ job[p].run = t
           /\ g = server[t].gen
           /\ server[t].phase # "none"
           /\ pc[t] \in {"turnWait", "persist", "done"}
           /\ pendingStart[s].run # t
           /\ projected[t] = NoGeneration
           /\ active[s].run \in {t, NoRun}
           /\ active[s].run = t => active[s].gen = g /\ route[s] = g /\ active[s].turn = NoRun
           /\ \A r \in Runs : Busy(r) /\ SessionOf[r] = s => r = t
           /\ \A q \in Tasks : pc[q] = "persist" /\ job[q].turn = t => q = p

\* A session whose turn is known is owned by the run that asked for it, under the
\* generation that accepted it.
LiveInv ==
    /\ \A t \in Turns : projected[t] # NoGeneration =>
           /\ Past(t)
           /\ projected[t] = server[t].gen
           /\ server[t].phase # "none"
           /\ active[SessionOf[t]].run = t => active[SessionOf[t]].turn = t
    /\ \A s \in Sessions : active[s].turn # NoRun =>
           /\ active[s].turn = active[s].run
           /\ Past(active[s].turn)
           /\ active[s].gen = server[active[s].turn].gen /\ server[active[s].turn].phase # "none"
           /\ route[s] = active[s].gen
    /\ \A r \in Runs : active[SessionOf[r]].run = r /\ pc[r] \in {"interrupting", "done"} =>
           active[SessionOf[r]].turn = r

\* What the pump is about to do with a terminal agrees with the owners.
PumpEnds ==
    pc[Pump] = "complete" =>
        LET t == job[Pump].turn
        IN /\ job[Pump].gen = server[t].gen /\ server[t].phase # "none"
           /\ job[Pump].exact => job[Pump].owner
           /\ job[Pump].owner => Past(t)
           /\ job[Pump].owner /\ ~job[Pump].exact => active[SessionOf[t]].turn # t

\* A watchdog is about a turn that went by its start.
WatchdogsKnow ==
    \A w \in watchdogs :
        /\ w.run = w.turn
        /\ w.gen = server[w.turn].gen /\ server[w.turn].phase # "none"
        /\ Past(w.turn)

\* One ending is written at a time.
OneEnding ==
    /\ lifecycle = "pump" <=> pc[Pump] = "complete"
    /\ \A w \in watchdogs : w.stage = "append" => lifecycle = "watchdog"
    /\ \A v, w \in watchdogs : v.stage = "append" /\ w.stage = "append" => v = w

\* What was ended is not live, and no ending of it is being written.
EndedIsOver ==
    \A t \in Turns : outcome[t] # "none" =>
        /\ Past(t)
        /\ active[SessionOf[t]].turn # t
        /\ ~(pc[Pump] = "complete" /\ job[Pump].turn = t /\ job[Pump].exact)
        /\ \A w \in watchdogs : w.stage = "append" => w.turn # t

\* Terminals and cancellations exclude each other.
EndInv == PumpEnds /\ WatchdogsKnow /\ OneEnding /\ EndedIsOver

\* An interrupt names a run by its turn.
InterruptInv ==
    /\ \A s \in Sessions :
           /\ interrupt[s].turn # NoRun => /\ interrupt[s].run = interrupt[s].turn
                                           /\ SessionOf[interrupt[s].turn] = s
           /\ interrupt[s].turn = NoRun => interrupt[s].phase \in {"none", "PendingIdentity"}
    /\ \A p \in Tasks : pc[p] = "interrupting" =>
           /\ job[p].run = job[p].turn
           /\ job[p].gen = server[job[p].turn].gen /\ server[job[p].turn].phase # "none"
           /\ Past(job[p].turn)

IInv ==
    /\ TypeInv
    /\ GensInv
    /\ RunInv
    /\ LateInv
    /\ PersistInv
    /\ LiveInv
    /\ MapsAgree
    /\ EndInv
    /\ InterruptInv
    /\ SentIsGuarded

-----------------------------------------------------------------------------
(* What a step may do to sessions, starts and tasks *)

\* Sessions, starts, projections and routes are at most given up, no task takes a
\* start, and a run that returns has lost its session or knows its turn.
Releases ==
    /\ UNCHANGED <<current, server, loaded>>
    /\ Queued' \subseteq Queued
    /\ \A s \in Sessions :
           /\ active'[s] \in {active[s], NoActive}
           /\ pendingStart'[s] \in {pendingStart[s], NoStart}
           /\ route'[s] # route[s] => active'[s].gen # route[s]
    /\ \A t \in Turns : projected'[t] \in {projected[t], NoGeneration}
    /\ \A p \in Tasks \ Runs : (pc'[p] = pc[p] /\ job'[p] = job[p]) \/ pc'[p] # "persist"
    /\ \A r \in Runs :
           \/ pc'[r] = pc[r] /\ job'[r] = job[r]
           \/ /\ pc[r] # "idle" /\ pc'[r] = "done"
              /\ active'[SessionOf[r]].run = r => active[SessionOf[r]].turn = r
              /\ pc[r] \in {"turnStart", "turnWait"} => pendingStart'[SessionOf[r]].run # r

\* Task p takes the start of turn t.
Takes(p, t) ==
    LET s == SessionOf[t]
        g == server[t].gen
    IN /\ p \in {t, Pump}
       /\ pc[p] # "persist"
       /\ pc[t] = "turnWait"
       /\ pendingStart[s].run = t
       /\ server[t].phase # "none"
       /\ projected[t] = NoGeneration
       /\ route[s] = g
       /\ job[t].gen = g
       /\ pendingStart' = [pendingStart EXCEPT ![s] = NoStart]
       /\ job' = [job EXCEPT ![p] = [NoJob EXCEPT !.gen = g, !.run = t, !.turn = t]]
       /\ pc' = [pc EXCEPT ![p] = "persist"]
       /\ UNCHANGED <<current, server, loaded, active, route, projected, interrupt, watchdogs, outcome,
                      lifecycle>>
       /\ Queued' \subseteq Queued

\* Task p publishes turn t to the session, if that is still its run's, and may
\* have an interrupt to send.
Publishes(p, t) ==
    LET s == SessionOf[t]
        g == server[t].gen
    IN /\ pc[p] = "persist" /\ job[p].turn = t
       /\ active' = [active EXCEPT ![s] = IF @.run = t THEN [run |-> t, gen |-> g, turn |-> t] ELSE @]
       /\ projected' = [projected EXCEPT ![t] = g]
       /\ activeThread' = [activeThread EXCEPT ![s] = [gen |-> g, turn |-> t]]
       /\ \A q \in Tasks \ {p} : pc'[q] = pc[q] /\ job'[q] = job[q]
       /\ \/ /\ pc'[p] = "interrupting"
             /\ job'[p].gen = g /\ job'[p].run = t /\ job'[p].turn = t
             /\ \E n \in Nat : interrupt' = [interrupt EXCEPT ![s] =
                    [gen |-> g, run |-> t, turn |-> t, attempt |-> n, phase |-> "Sending"]]
          \/ pc'[p] = (IF p = Pump THEN "idle" ELSE "done") /\ UNCHANGED interrupt
       /\ UNCHANGED <<current, server, loaded, pendingStart, route, watchdogs, outcome, lifecycle, events>>

\* The assumptions under which a session has one run under way at a time.
OneAtATime == ~Overlaps /\ KeepsUp

\* What an activation does when it ends in Err.
LEMMA FailReleases ==
    ASSUME TurnAssumption, TypeInv, NEW r \in Runs, pc[r] # "idle", Fail(r), UNCHANGED FailUntouched,
           UNCHANGED <<transportVars, outside>>
    PROVE  Releases
<1> USE TurnAssumption DEF TurnAssumption
<1>0. MapsTypeOK /\ TasksTypeOK /\ r \in Tasks /\ r # Pump
    BY TypeParts DEF TypeInv, Tasks
<1>1. /\ pc'[r] = "done"
      /\ \A q \in Tasks \ {r} : pc'[q] = pc[q] /\ job'[q] = job[q]
    BY <1>0, ReturnType DEF Fail
<1>2. \A s \in Sessions :
          /\ active'[s] \in {active[s], NoActive}
          /\ pendingStart'[s] \in {pendingStart[s], NoStart}
    BY <1>0 DEF Fail, MapsTypeOK
<1>3. active'[SessionOf[r]].run # r /\ pendingStart'[SessionOf[r]].run # r
    BY <1>0 DEF Fail, MapsTypeOK, Owns, NoActive, NoStart
<1> QED
    BY <1>0, <1>1, <1>2, <1>3
       DEF Releases, FailUntouched, transportVars, outside, Queued, Tasks

\* An activation that ends in Err only releases.
LEMMA RefuseReleases ==
    ASSUME TurnAssumption, TypeInv, NEW p \in Tasks, pc[p] # "idle", Refuse(p), Queued' = Queued,
           UNCHANGED <<transportVars, outside>>
    PROVE  Releases
<1> USE TurnAssumption DEF TurnAssumption
<1>0. MapsTypeOK /\ TasksTypeOK
    BY TypeParts DEF TypeInv
<1>1. CASE p \in Runs /\ Fail(p) /\ UNCHANGED FailUntouched
    BY <1>1, FailReleases
<1>2. CASE p = Pump /\ Return(p) /\ UNCHANGED <<pendingStart, active, interrupt, shown, FailUntouched>>
  <2>1. /\ pc'[Pump] = "idle"
        /\ \A q \in Tasks \ {Pump} : pc'[q] = pc[q] /\ job'[q] = job[q]
    BY <1>0, <1>2, ReturnType
  <2> QED
    BY <1>2, <2>1 DEF Releases, FailUntouched, transportVars, outside, Tasks
<1> QED
    BY <1>1, <1>2 DEF Refuse

\* An activation by a run takes its start or releases.
LEMMA ReceiveEffect ==
    ASSUME TurnAssumption, TypeInv, RunInv, LiveInv, NEW r \in Runs, ReceiveTurn(r)
    PROVE  Releases \/ Takes(r, r)
<1> USE TurnAssumption DEF TurnAssumption
<1> DEFINE s == SessionOf[r]
           g == job[r].gen
<1>0. MapsTypeOK /\ TasksTypeOK /\ OutsideTypeOK /\ JobsInv /\ r \in Tasks /\ r # Pump /\ r \in Turns
    BY TypeParts DEF TypeInv, Tasks, Turns
<1>1. pc[r] = "turnWait" /\ UNCHANGED <<transportVars, outside>> /\ Queued' = Queued
    BY DEF ReceiveTurn, outside, Queued
<1>2. g = server[r].gen /\ server[r].phase # "none" /\ Busy(r)
    BY <1>1 DEF RunInv, Busy
<1>3. pendingStart[s].run # NoRun => pendingStart[s].run = r /\ pendingStart[s].gen = g
  <2>1. ASSUME pendingStart[s].run # NoRun PROVE pendingStart[s].run \in Runs
    BY <1>0, <2>1 DEF MapsTypeOK, StartType, MaybeRun
  <2> QED
    BY <1>2, <2>1 DEF RunInv, Busy
<1>4. CASE Refuse(r)
    BY <1>0, <1>1, <1>4, RefuseReleases
<1>5. CASE /\ \/ projected[r] # NoGeneration
              \/ pendingStart[s].run # NoRun /\ pendingStart[s].gen # g
           /\ Return(r)
           /\ UNCHANGED <<pendingStart, active, interrupt, shown, FailUntouched>>
  <2>1. /\ active[s].run = r => active[s].turn = r
        /\ pendingStart[s].run # r
    BY <1>0, <1>3, <1>5 DEF LiveInv, Past
  <2>2. /\ pc'[r] = "done"
        /\ \A q \in Tasks \ {r} : pc'[q] = pc[q] /\ job'[q] = job[q]
    BY <1>0, <1>5, ReturnType
  <2> QED
    BY <1>0, <1>1, <1>5, <2>1, <2>2 DEF Releases, FailUntouched, transportVars, outside, Tasks
<1>6. CASE /\ projected[r] = NoGeneration /\ pendingStart[s].run # NoRun /\ route[s] = g
           /\ pendingStart' = [pendingStart EXCEPT ![s] = NoStart]
           /\ job' = [job EXCEPT ![r] = [NoJob EXCEPT !.gen = g, !.run = pendingStart[s].run, !.turn = r]]
           /\ Goto(r, "persist")
           /\ UNCHANGED <<active, interrupt, shown, FailUntouched>>
    BY <1>0, <1>1, <1>2, <1>3, <1>6 DEF Takes, FailUntouched, transportVars, outside, Goto
<1> QED
    BY <1>4, <1>5, <1>6, Zenon DEF ReceiveTurn, Activate

\* turn/started takes the start of its own turn, or no start.
LEMMA StartedEffect ==
    ASSUME TurnAssumption, TypeInv, GensInv, RunInv, LateInv, HandleStarted
    PROVE  Releases \/ Takes(Pump, Head(events).turn)
<1> USE TurnAssumption DEF TurnAssumption
<1> DEFINE e == Head(events)
           t == e.turn
           s == SessionOf[t]
<1>0. MapsTypeOK /\ TasksTypeOK /\ OutsideTypeOK /\ Pump \in Tasks
    BY TypeParts DEF TypeInv, Tasks
<1>1. /\ PumpReads("started") /\ e.kind = "started" /\ pc[Pump] = "idle"
      /\ UNCHANGED <<transportVars, server, loaded>>
      /\ UNCHANGED <<active, projected, route, interrupt, watchdogs, outcome, lifecycle>>
    BY DEF HandleStarted, PumpReads, seen
<1>2. /\ e \in Queued /\ e \in EventType
      /\ t \in Turns /\ t \in Runs /\ s \in Sessions
      /\ Queued' \subseteq Queued
    BY <1>1, PumpReadsType DEF Turns
<1>3. /\ e.gen = server[t].gen /\ server[t].phase \in {"started", "done"}
      /\ Late(t)
    BY <1>1, <1>2 DEF GensInv, Late, StartQueued
<1>4. CASE UNCHANGED <<pendingStart, job, pc>>
    BY <1>1, <1>2, <1>4 DEF Releases, transportVars
<1>5. CASE /\ projected[t] = NoGeneration
           /\ pendingStart[s].run # NoRun
           /\ pendingStart[s].gen = e.gen
           /\ pendingStart' = [pendingStart EXCEPT ![s] = NoStart]
           /\ job' = [job EXCEPT ![Pump] =
                   [NoJob EXCEPT !.gen = e.gen, !.run = pendingStart[s].run, !.turn = t]]
           /\ Goto(Pump, "persist")
  <2> DEFINE r == pendingStart[s].run
  <2>1. /\ r \in Runs /\ SessionOf[r] = s /\ pc[r] \in {"turnStart", "turnWait"} /\ Busy(r)
        /\ pendingStart[s].gen = job[r].gen
    BY <1>0, <1>2, <1>5 DEF MapsTypeOK, StartType, MaybeRun, RunInv, Busy
  <2>2. r = t
    BY <1>2, <1>3, <1>5, <2>1 DEF LateInv, Turns
  <2>3. pc[t] = "turnWait"
    BY <1>2, <1>3, <2>1, <2>2 DEF RunInv
  <2>4. route[s] = e.gen
    BY DEF HandleStarted
  <2> QED
    BY <1>1, <1>2, <1>3, <1>5, <2>1, <2>2, <2>3, <2>4 DEF Takes, transportVars, Goto
<1> QED
    BY <1>4, <1>5, Zenon DEF HandleStarted

\* What PublishTurn does to the session.
LEMMA PublishEffect ==
    ASSUME TurnAssumption, TypeInv, RunInv, PersistInv, NEW p \in Tasks, PublishTurn(p)
    PROVE  job[p].turn \in Turns /\ Publishes(p, job[p].turn)
<1> USE TurnAssumption DEF TurnAssumption
<1> DEFINE g == job[p].gen
           t == job[p].turn
           s == SessionOf[t]
           owner == IF active[s].run = job[p].run
                    THEN [run |-> job[p].run, gen |-> g, turn |-> t] ELSE active[s]
<1>0. MapsTypeOK /\ TasksTypeOK /\ JobsInv /\ pc[p] = "persist"
    BY TypeParts DEF TypeInv, PublishTurn
<1>1. /\ t \in Turns /\ t \in Runs /\ s \in Sessions /\ t # NoRun
      /\ job[p].run = t /\ g = server[t].gen
      /\ active[s].run \in {t, NoRun}
      /\ active[s].run = NoRun => active[s] = NoActive
    BY <1>0 DEF JobsInv, PersistInv, RunInv, Turns
<1>2. /\ projected' = [projected EXCEPT ![t] = g]
      /\ active' = [active EXCEPT ![s] = owner]
      /\ activeThread' = [activeThread EXCEPT ![s] = [gen |-> g, turn |-> t]]
      /\ \/ SendInterrupt(p, s, g, t, owner)
         \/ Return(p) /\ UNCHANGED interrupt
      /\ UNCHANGED <<pendingStart, route, lifecycle, watchdogs, outcome, transportVars, outside>>
    BY Zenon DEF PublishTurn
<1>3. /\ owner = IF active[s].run = t THEN [run |-> t, gen |-> g, turn |-> t] ELSE active[s]
      /\ owner.turn = t => owner.run = t
    BY <1>1 DEF NoActive
<1> HIDE DEF owner
<1>4. \/ /\ pc'[p] = "interrupting"
         /\ job'[p].gen = g /\ job'[p].run = t /\ job'[p].turn = t
         /\ \E n \in Nat : interrupt' = [interrupt EXCEPT ![s] =
                [gen |-> g, run |-> t, turn |-> t, attempt |-> n, phase |-> "Sending"]]
      \/ pc'[p] = (IF p = Pump THEN "idle" ELSE "done") /\ UNCHANGED interrupt
  <2>1. CASE Return(p) /\ UNCHANGED interrupt
    BY <1>0, <2>1, ReturnType
  <2>2. CASE SendInterrupt(p, s, g, t, owner)
    <3>1. CASE Return(p) /\ UNCHANGED interrupt
      BY <2>1, <3>1
    <3>2. ASSUME NEW n \in Nat, owner.turn = t,
                 interrupt' = [interrupt EXCEPT ![s] = [gen |-> g, run |-> owner.run, turn |-> t,
                                                       attempt |-> n, phase |-> "Sending"]],
                 job' = [job EXCEPT ![p] = [NoJob EXCEPT !.gen = g, !.run = owner.run, !.turn = t,
                                                        !.attempt = n]],
                 Goto(p, "interrupting")
          PROVE  /\ pc'[p] = "interrupting"
                 /\ job'[p].gen = g /\ job'[p].run = t /\ job'[p].turn = t
                 /\ interrupt' = [interrupt EXCEPT ![s] =
                        [gen |-> g, run |-> t, turn |-> t, attempt |-> n, phase |-> "Sending"]]
      BY <1>0, <1>3, <3>2 DEF Goto, TasksTypeOK, NoJob
    <3>3. interrupt[s].attempt + 1 \in Nat /\ 1 \in Nat
      BY <1>0, <1>1 DEF MapsTypeOK, InterruptType
    <3> QED
      BY <2>2, <3>1, <3>2, <3>3 DEF SendInterrupt
  <2> QED
    BY <1>2, <2>1, <2>2
<1>5. \A q \in Tasks \ {p} : pc'[q] = pc[q] /\ job'[q] = job[q]
  <2>1. CASE Return(p)
    BY <1>0, <2>1, ReturnType
  <2>2. CASE SendInterrupt(p, s, g, t, owner)
    BY <1>0, <2>1, <2>2 DEF SendInterrupt, Goto, TasksTypeOK
  <2> QED
    BY <1>2, <2>1, <2>2
<1> QED
    BY <1>0, <1>1, <1>2, <1>3, <1>4, <1>5 DEF Publishes, transportVars, outside

\* A task that only returns, and was not about to own a session.
LEMMA ReturnReleases ==
    ASSUME TurnAssumption, TypeInv, LiveInv, NEW p \in Tasks, Return(p), Queued' \subseteq Queued,
           p \in Runs => pc[p] = "interrupting",
           UNCHANGED <<current, server, loaded, active, pendingStart, route, projected>>
    PROVE  Releases
<1> USE TurnAssumption DEF TurnAssumption
<1>0. TasksTypeOK
    BY TypeParts DEF TypeInv
<1>1. /\ pc'[p] = IF p = Pump THEN "idle" ELSE "done"
      /\ \A q \in Tasks \ {p} : pc'[q] = pc[q] /\ job'[q] = job[q]
    BY <1>0, ReturnType
<1>2. p \in Runs => p # Pump /\ (active[SessionOf[p]].run = p => active[SessionOf[p]].turn = p)
    BY DEF LiveInv
<1> QED
    BY <1>1, <1>2 DEF Releases, Tasks

\* The steps that at most release.
LEMMA ReleaseSteps ==
    ASSUME TurnAssumption, TypeInv, RunInv, LiveInv,
           \/ \E r \in Runs : RunFails(r)
           \/ \E p \in Tasks : PersistFails(p) \/ InterruptAccepted(p) \/ InterruptFails(p)
           \/ \E i \in Stops, s \in Sessions : Stop(i, s)
           \/ PumpIgnores \/ HandleCompleted \/ CompleteTurn \/ TerminalUnsaved \/ TerminalDropped
           \/ HandleClosed
           \/ \E w \in watchdogs : WatchdogStep(w)
           \/ ShutdownStep
    PROVE  Releases
<1> USE TurnAssumption DEF TurnAssumption
<1>0. MapsTypeOK /\ TasksTypeOK /\ JobsInv /\ Pump \in Tasks /\ Pump \notin Runs
    BY TypeParts DEF TypeInv, Tasks
<1>a. ASSUME UNCHANGED <<current, server, loaded, active, pendingStart, route, projected>>,
             Queued' \subseteq Queued, UNCHANGED <<pc, job>>
      PROVE  Releases
    BY <1>a DEF Releases
<1>1. ASSUME NEW r \in Runs, RunFails(r) PROVE Releases
    BY <1>1, FailReleases DEF RunFails
<1>2. ASSUME NEW p \in Tasks, PersistFails(p) PROVE Releases
    BY <1>2, RefuseReleases DEF PersistFails, outside, Queued
<1>3. ASSUME NEW p \in Tasks, InterruptAccepted(p) \/ InterruptFails(p) PROVE Releases
  <2>1. /\ pc[p] = "interrupting" /\ Return(p)
        /\ UNCHANGED <<current, server, loaded, active, pendingStart, route, projected, events>>
    BY <1>3 DEF InterruptAccepted, InterruptFails, transportVars, outside
  <2> QED
    BY <2>1, ReturnReleases DEF Queued
<1>4. ASSUME NEW i \in Stops, NEW s \in Sessions, Stop(i, s) PROVE Releases
  <2>1. /\ i \in Tasks \ Runs
        /\ UNCHANGED <<current, server, loaded, active, pendingStart, route, projected, events>>
    BY <1>4 DEF Stop, transportVars, outside, Tasks
  <2>2. CASE Return(i)
    BY <2>1, <2>2, ReturnReleases DEF Queued
  <2>3. CASE SendInterrupt(i, s, active[s].gen, active[s].turn, active[s])
    <3>1. /\ pc'[i] # "persist"
          /\ \A q \in Tasks \ {i} : pc'[q] = pc[q] /\ job'[q] = job[q]
      BY <1>0, <2>1, <2>2, <2>3 DEF SendInterrupt, Return, Goto, TasksTypeOK
    <3> QED
      BY <2>1, <3>1 DEF Releases, Queued, Tasks
  <2> QED
    BY <1>4, <2>2, <2>3 DEF Stop
<1>5. CASE PumpIgnores
  <2>1. PumpReads(Head(events).kind) /\ UNCHANGED engine
    BY <1>5 DEF PumpIgnores
  <2> QED
    BY <1>a, <2>1, PumpReadsType DEF PumpReads, engine, maps, tasks, transportVars
<1>6. CASE HandleCompleted
  <2>1. /\ PumpReads("completed") /\ UNCHANGED maps
        /\ pc'[Pump] = "complete"
        /\ \A q \in Tasks \ {Pump} : pc'[q] = pc[q] /\ job'[q] = job[q]
    BY <1>0, <1>6 DEF HandleCompleted, Goto, TasksTypeOK
  <2> QED
    BY <2>1, PumpReadsType DEF Releases, PumpReads, maps, transportVars, Tasks
<1>7. CASE TerminalDropped
    BY <1>0, <1>7, ReturnReleases DEF TerminalDropped, maps, transportVars, outside, Queued
<1>8. CASE CompleteTurn \/ TerminalUnsaved
  <2> DEFINE t == job[Pump].turn
  <2>1. /\ t \in Turns /\ SessionOf[t] \in Sessions
        /\ Return(Pump)
        /\ UNCHANGED <<current, server, loaded, pendingStart, route, events>>
    BY <1>0, <1>8 DEF CompleteTurn, TerminalUnsaved, JobsInv, transportVars, outside, Turns
  <2>2. /\ \A s \in Sessions : active'[s] \in {active[s], NoActive}
        /\ \A u \in Turns : projected'[u] \in {projected[u], NoGeneration}
    BY <1>0, <1>8, <2>1 DEF CompleteTurn, TerminalUnsaved, EndExactTurn, MapsTypeOK
  <2>3. /\ pc'[Pump] = "idle"
        /\ \A q \in Tasks \ {Pump} : pc'[q] = pc[q] /\ job'[q] = job[q]
    BY <1>0, <2>1, ReturnType
  <2> QED
    BY <2>1, <2>2, <2>3 DEF Releases, Queued, Tasks
<1>9. CASE HandleClosed
  <2>1. /\ PumpReads("closed") /\ UNCHANGED tasks
        /\ UNCHANGED <<current, server, loaded>>
    BY <1>9 DEF HandleClosed, PumpReads, transportVars
  <2>2. /\ \A s \in Sessions :
               /\ active'[s] \in {active[s], NoActive}
               /\ pendingStart'[s] \in {pendingStart[s], NoStart}
               /\ route'[s] # route[s] => active'[s].gen # route[s]
        /\ \A u \in Turns : projected'[u] \in {projected[u], NoGeneration}
    BY <1>0, <1>9 DEF HandleClosed, Expired, MapsTypeOK, NoActive
  <2> QED
    BY <2>1, <2>2, PumpReadsType DEF Releases, tasks
<1>10. ASSUME NEW w \in watchdogs, WatchdogStep(w) PROVE Releases
  <2>1. UNCHANGED <<current, server, loaded, pendingStart, route, events, pc, job>>
    BY <1>10
       DEF WatchdogStep, WatchdogWakes, WatchdogChecks, WatchdogCancels, WatchdogAppendFails, transportVars,
           outside, maps
  <2>2. /\ \A s \in Sessions : active'[s] \in {active[s], NoActive}
        /\ \A u \in Turns : projected'[u] \in {projected[u], NoGeneration}
    BY <1>0, <1>10
       DEF WatchdogStep, WatchdogWakes, WatchdogChecks, WatchdogCancels, WatchdogAppendFails, maps, MapsTypeOK
  <2> QED
    BY <2>1, <2>2 DEF Releases, Queued
<1>11. CASE CloseTransport \/ DrainRuns
    BY <1>a, <1>11 DEF CloseTransport, DrainRuns, Halt, transportVars, outside, maps, Queued
<1>12. CASE FinishShutdown
  <2>1. /\ UNCHANGED <<current, server, loaded, route, events>>
        /\ \A s \in Sessions : active'[s] = NoActive /\ pendingStart'[s] = NoStart
        /\ \A u \in Turns : projected'[u] = NoGeneration
        /\ pc'[Pump] = "done"
        /\ \A q \in Tasks \ {Pump} : pc'[q] = pc[q] /\ job'[q] = job[q]
    BY <1>0, <1>12 DEF FinishShutdown, Goto, TasksTypeOK, transportVars, outside
  <2> QED
    BY <2>1 DEF Releases, Queued, Tasks
<1> QED
    BY <1>1, <1>2, <1>3, <1>4, <1>5, <1>6, <1>7, <1>8, <1>9, <1>10, <1>11, <1>12 DEF ShutdownStep

\* The steps of a run that are about to start a turn.
Prepares(r) ==
    \/ BeginRun(r) \/ Prepare(r) \/ ReadStatus(r) \/ LoadThread(r) \/ BindThread(r)
    \/ RecordResumed(r) \/ InsertStart(r) \/ SendTurnStart(r)

\* Every step is one of these.
LEMMA StepKinds ==
    ASSUME TurnAssumption, IInv, [Next]_vars
    PROVE  \/ TransportStep
           \/ \E t \in Turns : ServerStep(t)
           \/ \E r \in Runs : Prepares(r)
           \/ \E p \in Tasks, t \in Turns : Takes(p, t)
           \/ \E p \in Tasks : PublishTurn(p) /\ job[p].turn \in Turns /\ Publishes(p, job[p].turn)
           \/ Releases
<1> USE DEF IInv
<1>1. CASE UNCHANGED vars
    BY <1>1 DEF vars, engine, maps, tasks, outside, transportVars, Releases, Queued
<1>2. ASSUME NEW r \in Runs, RunStep(r) PROVE Prepares(r) \/ RunFails(r) \/ Releases \/ Takes(r, r)
    BY <1>2, ReceiveEffect DEF RunStep, Prepares
<1>3. ASSUME NEW p \in Tasks, WaitStep(p)
      PROVE  Releases \/ (PublishTurn(p) /\ job[p].turn \in Turns /\ Publishes(p, job[p].turn))
  <2>1. CASE PublishTurn(p)
    BY <2>1, PublishEffect
  <2>2. CASE PersistFails(p) \/ InterruptAccepted(p) \/ InterruptFails(p)
    <3>1. \E q \in Tasks : PersistFails(q) \/ InterruptAccepted(q) \/ InterruptFails(q)
      BY <2>2
    <3> QED
      BY <3>1, ReleaseSteps
  <2> QED
    BY <1>3, <2>1, <2>2 DEF WaitStep
<1>4. CASE PumpStep
  <2>1. CASE HandleStarted
    <3>1. Head(events).turn \in Turns /\ Pump \in Tasks
      BY <2>1, PumpReadsType DEF HandleStarted, Tasks
    <3> QED
      BY <2>1, <3>1, StartedEffect
  <2> QED
    BY <1>4, <2>1, ReleaseSteps DEF PumpStep
<1> QED
    BY <1>1, <1>2, <1>3, <1>4, ReleaseSteps DEF Next, Prepares, Tasks, Turns

\* Giving up disturbs no owner.
LEMMA ReleasesRun ==
    ASSUME TurnAssumption, TypeInv, RunInv, Releases
    PROVE  RunInv'
<1> USE TurnAssumption DEF TurnAssumption
<1>0. MapsTypeOK /\ NoRun \notin Runs
    BY TypeParts DEF TypeInv
<1>1. \A r \in Runs : Busy(r)' => Busy(r) /\ pc'[r] = pc[r] /\ job'[r] = job[r]
    BY DEF Releases, Busy
<1>2. \A r \in Runs : pc[r] # "idle" => pc'[r] # "idle"
    BY DEF Releases
<1>3. \A s \in Sessions :
          /\ active'[s] \in {active[s], NoActive}
          /\ pendingStart'[s] \in {pendingStart[s], NoStart}
    BY DEF Releases
<1>4. /\ \A r, q \in Runs : Busy(r)' /\ Busy(q)' /\ SessionOf[r] = SessionOf[q] => r = q
      /\ \A r \in Runs : Busy(r)' => active'[SessionOf[r]].run \in {r, NoRun}
    BY <1>1, <1>3 DEF RunInv, NoActive
<1>5. \A s \in Sessions :
           /\ active'[s].run = NoRun => active'[s] = NoActive
           /\ active'[s].run # NoRun => SessionOf[active'[s].run] = s /\ pc'[active'[s].run] # "idle"
           /\ pendingStart'[s].run = NoRun => pendingStart'[s] = NoStart
  <2> SUFFICES ASSUME NEW s \in Sessions
               PROVE  /\ active'[s].run = NoRun => active'[s] = NoActive
                      /\ active'[s].run # NoRun => SessionOf[active'[s].run] = s /\ pc'[active'[s].run] # "idle"
                      /\ pendingStart'[s].run = NoRun => pendingStart'[s] = NoStart
    OBVIOUS
  <2>1. active[s].run \in MaybeRun
    BY <1>0 DEF MapsTypeOK, ActiveType
  <2> QED
    BY <1>2, <1>3, <2>1 DEF RunInv, NoActive, NoStart, MaybeRun
<1>6. ASSUME NEW s \in Sessions, pendingStart'[s].run # NoRun
      PROVE  /\ SessionOf[pendingStart'[s].run] = s
             /\ pc'[pendingStart'[s].run] \in {"turnStart", "turnWait"}
             /\ pendingStart'[s].gen = job'[pendingStart'[s].run].gen
  <2>1. pendingStart'[s] = pendingStart[s] /\ pendingStart[s].run \in Runs
    BY <1>0, <1>3, <1>6 DEF MapsTypeOK, StartType, MaybeRun, NoStart
  <2> DEFINE r == pendingStart[s].run
  <2>2. SessionOf[r] = s /\ pc[r] \in {"turnStart", "turnWait"} /\ pendingStart[s].gen = job[r].gen
    BY <1>6, <2>1 DEF RunInv
  <2>3. pc'[r] = pc[r] /\ job'[r] = job[r]
    BY <2>1, <2>2 DEF Releases
  <2> QED
    BY <2>1, <2>2, <2>3
<1>7. ASSUME NEW r \in Runs
      PROVE  /\ pc'[r] \in {"turnStart", "turnWait"} /\ active'[SessionOf[r]].run = r =>
                    active'[SessionOf[r]].gen = job'[r].gen
             /\ pc'[r] = "turnStart" /\ current' \in loaded'[SessionOf[r]] => current' = job'[r].gen
             /\ pc'[r] = "turnWait" => server'[r].gen = job'[r].gen /\ server'[r].phase # "none"
             /\ server'[r].phase # "none" => pc'[r] \in {"turnWait", "persist", "interrupting", "done"}
             /\ pc'[r] = "idle" => job'[r].gen = NoGeneration
  <2>1. active'[SessionOf[r]].run = r => active'[SessionOf[r]] = active[SessionOf[r]]
    BY <1>3 DEF NoActive
  <2>2. UNCHANGED <<current, loaded, server>>
    BY DEF Releases
  <2>3. (pc'[r] = pc[r] /\ job'[r] = job[r]) \/ pc'[r] = "done"
    BY DEF Releases
  <2> QED
    BY <2>1, <2>2, <2>3 DEF RunInv
<1> HIDE DEF TurnAssumption
<1> QED
    BY <1>4, <1>5, <1>6, <1>7 DEF RunInv

\* Releasing makes no start late.
LEMMA ReleasesLate ==
    ASSUME TurnAssumption, TypeInv, LateInv, Releases
    PROVE  LateInv'
<1> SUFFICES ASSUME NEW t \in Runs, NEW r \in Runs, r # t, SessionOf[r] = SessionOf[t], Late(t)'
             PROVE  /\ Busy(r)' => server'[t].gen # current' /\ job'[r].gen # server'[t].gen
                    /\ active'[SessionOf[r]].run = r =>
                           server'[t].gen # current' /\ active'[SessionOf[r]].gen # server'[t].gen
    BY DEF LateInv
<1>1. Late(t)
    BY DEF Late, StartQueued, Releases
<1>2. Busy(r)' => Busy(r) /\ job'[r] = job[r]
    BY DEF Releases, Busy
<1>3. active'[SessionOf[r]].run = r => active'[SessionOf[r]] = active[SessionOf[r]]
    BY DEF Releases, NoActive, TurnAssumption
<1> QED
    BY <1>1, <1>2, <1>3 DEF LateInv, Releases

\* What went by its start has gone by it for good.
LEMMA ReleasesPast ==
    ASSUME TurnAssumption, Releases, NEW t \in Turns, Past(t)
    PROVE  Past(t)'
<1> USE TurnAssumption DEF TurnAssumption
<1>1. SessionOf[t] \in Sessions /\ t \in Runs
    BY DEF Turns
<1>2. pendingStart'[SessionOf[t]].run # t
    BY <1>1 DEF Releases, Past, NoStart
<1>3. ASSUME NEW p \in Tasks, pc'[p] = "persist" PROVE job'[p].turn # t
    BY <1>1, <1>3 DEF Releases, Past
<1>4. pc'[t] \in {"turnWait", "interrupting", "done"}
    BY <1>1 DEF Releases, Past
<1> QED
    BY <1>2, <1>3, <1>4 DEF Past

\* Releasing does not disturb a task that saves a user message.
LEMMA ReleasesPersist ==
    ASSUME TurnAssumption, TypeInv, PersistInv, Releases
    PROVE  PersistInv'
<1> USE TurnAssumption DEF TurnAssumption
<1>1. \A p \in Tasks : pc'[p] = "persist" => pc[p] = "persist" /\ job'[p] = job[p]
    BY DEF Releases
<1>2. \A p \in Tasks : pc[p] = "persist" => job[p].turn \in Runs
    BY DEF TypeInv, JobsInv, Turns
<1>3. \A r \in Runs : Busy(r)' => Busy(r)
    BY DEF Releases, Busy
<1> SUFFICES ASSUME NEW p \in Tasks, pc'[p] = "persist", NEW t \in Runs, t = job[p].turn
             PROVE  LET s == SessionOf[t]
                        g == job[p].gen
                    IN /\ p \in {t, Pump}
                       /\ job[p].run = t
                       /\ g = server'[t].gen
                       /\ server'[t].phase # "none"
                       /\ pc'[t] \in {"turnWait", "persist", "done"}
                       /\ pendingStart'[s].run # t
                       /\ projected'[t] = NoGeneration
                       /\ active'[s].run \in {t, NoRun}
                       /\ active'[s].run = t =>
                              active'[s].gen = g /\ route'[s] = g /\ active'[s].turn = NoRun
                       /\ \A r \in Runs : Busy(r)' /\ SessionOf[r] = s => r = t
                       /\ \A q \in Tasks : pc'[q] = "persist" /\ job[q].turn = t => q = p
    BY <1>1, <1>2 DEF PersistInv
<1> DEFINE s == SessionOf[t]
           g == job[p].gen
<1>4. /\ p \in {t, Pump} /\ job[p].run = t /\ g = server[t].gen /\ server[t].phase # "none"
      /\ pc[t] \in {"turnWait", "persist", "done"}
      /\ pendingStart[s].run # t /\ projected[t] = NoGeneration /\ active[s].run \in {t, NoRun}
      /\ active[s].run = t => active[s].gen = g /\ route[s] = g /\ active[s].turn = NoRun
      /\ \A r \in Runs : Busy(r) /\ SessionOf[r] = s => r = t
      /\ \A q \in Tasks : pc[q] = "persist" /\ job[q].turn = t => q = p
    BY <1>1 DEF PersistInv
<1>5. /\ active'[s] \in {active[s], NoActive}
      /\ pendingStart'[s] \in {pendingStart[s], NoStart}
      /\ route'[s] # route[s] => active'[s].gen # route[s]
      /\ projected'[t] \in {projected[t], NoGeneration}
      /\ pc'[t] \in {pc[t], "done"}
      /\ server' = server
    BY DEF Releases, Turns
<1>6. /\ active'[s].run \in {t, NoRun}
      /\ active'[s].run = t => active'[s].gen = g /\ route'[s] = g /\ active'[s].turn = NoRun
    BY <1>4, <1>5 DEF NoActive
<1>7. pendingStart'[s].run # t
    BY <1>4, <1>5 DEF NoStart
<1> QED
    BY <1>1, <1>3, <1>4, <1>5, <1>6, <1>7

\* Releasing leaves the live turns with their runs.
LEMMA ReleasesLive ==
    ASSUME TurnAssumption, TypeInv, RunInv, LiveInv, Releases
    PROVE  LiveInv'
<1> USE TurnAssumption DEF TurnAssumption
<1>0. MapsTypeOK /\ \A t \in Turns : Past(t) => Past(t)'
    BY TypeParts, ReleasesPast DEF TypeInv
<1>1. UNCHANGED server /\ \A s \in Sessions : active'[s] \in {active[s], NoActive}
    BY DEF Releases
<1>2. ASSUME NEW t \in Turns, projected'[t] # NoGeneration
      PROVE  /\ Past(t)'
             /\ projected'[t] = server'[t].gen
             /\ server'[t].phase # "none"
             /\ active'[SessionOf[t]].run = t => active'[SessionOf[t]].turn = t
  <2>1. projected[t] = projected'[t] /\ SessionOf[t] \in Sessions /\ t # NoRun
    BY <1>2 DEF Releases, Turns
  <2> QED
    BY <1>0, <1>1, <1>2, <2>1 DEF LiveInv, NoActive
<1>3. ASSUME NEW s \in Sessions, active'[s].turn # NoRun
      PROVE  /\ active'[s].turn = active'[s].run
             /\ Past(active[s].turn)'
             /\ active'[s].gen = server'[active'[s].turn].gen /\ server'[active'[s].turn].phase # "none"
             /\ route'[s] = active'[s].gen
  <2>1. active'[s] = active[s] /\ active[s].turn \in Turns
    BY <1>0, <1>1, <1>3 DEF NoActive, MapsTypeOK, ActiveType, MaybeRun, Turns
  <2>2. route'[s] # route[s] => active'[s].gen # route[s]
    BY DEF Releases
  <2>3. ASSUME NEW t \in Turns, t = active[s].turn, Past(t)' PROVE Past(active[s].turn)'
    BY <1>1, <1>3, <2>1, <2>3 DEF Past
  <2> QED
    BY <1>0, <1>1, <1>3, <2>1, <2>2, <2>3 DEF LiveInv
<1>4. ASSUME NEW r \in Runs, active'[SessionOf[r]].run = r, pc'[r] \in {"interrupting", "done"}
      PROVE  active'[SessionOf[r]].turn = r
  <2>1. active'[SessionOf[r]] = active[SessionOf[r]]
    BY <1>1, <1>4 DEF NoActive
  <2>2. CASE pc'[r] = pc[r]
    BY <1>4, <2>1, <2>2 DEF LiveInv
  <2>3. CASE pc'[r] # pc[r]
    BY <1>4, <2>1, <2>3 DEF Releases
  <2> QED
    BY <2>2, <2>3
<1> HIDE DEF TurnAssumption
<1> QED
    BY <1>2, <1>3, <1>4 DEF LiveInv

\* Taking a start.
LEMMA TakesFacts ==
    ASSUME TurnAssumption, TypeInv, RunInv, PersistInv, LiveInv, NEW p \in Tasks, NEW t \in Turns,
           Takes(p, t)
    PROVE  /\ t \in Runs /\ SessionOf[t] \in Sessions /\ t # Pump /\ Pump \notin Runs /\ Busy(t)
           /\ p \in Runs => p = t
           /\ pc'[p] = "persist" /\ \A q \in Tasks \ {p} : pc'[q] = pc[q] /\ job'[q] = job[q]
           /\ job'[p].turn = t /\ job'[p].run = t /\ job'[p].gen = server[t].gen
           /\ pendingStart'[SessionOf[t]] = NoStart
           /\ \A s \in Sessions \ {SessionOf[t]} : pendingStart'[s] = pendingStart[s]
           /\ UNCHANGED <<current, server, loaded, active, route, projected, interrupt, watchdogs, outcome,
                         lifecycle>>
           /\ Queued' \subseteq Queued
           /\ job[t].gen = server[t].gen /\ pc[t] = "turnWait" /\ ~Past(t)
           /\ active[SessionOf[t]].run \in {t, NoRun}
           /\ active[SessionOf[t]].run = t => active[SessionOf[t]].turn = NoRun
           /\ \A r \in Runs : (Busy(r)' <=> Busy(r)) /\ job'[r].gen = job[r].gen
<1> USE TurnAssumption DEF TurnAssumption
<1>0. /\ MapsTypeOK /\ TasksTypeOK
      /\ t \in Runs /\ SessionOf[t] \in Sessions /\ t # Pump /\ Pump \notin Runs /\ t \in Tasks
    BY TypeParts DEF TypeInv, Turns, Tasks
<1>1. p \in {t, Pump} /\ pc[t] = "turnWait" /\ job[t].gen = server[t].gen /\ ~Past(t) /\ Busy(t)
    BY DEF Takes, Past, Busy
<1>2. /\ pc'[p] = "persist" /\ \A q \in Tasks \ {p} : pc'[q] = pc[q] /\ job'[q] = job[q]
      /\ job'[p].turn = t /\ job'[p].run = t /\ job'[p].gen = server[t].gen
    BY <1>0 DEF Takes, TasksTypeOK, NoJob
<1>3. /\ pendingStart'[SessionOf[t]] = NoStart
      /\ \A s \in Sessions \ {SessionOf[t]} : pendingStart'[s] = pendingStart[s]
    BY <1>0 DEF Takes, MapsTypeOK
<1>4. /\ active[SessionOf[t]].run \in {t, NoRun}
      /\ active[SessionOf[t]].run = t => active[SessionOf[t]].turn = NoRun
    BY <1>0, <1>1 DEF RunInv, LiveInv
<1>5. \A r \in Runs : (Busy(r)' <=> Busy(r)) /\ job'[r].gen = job[r].gen
    BY <1>0, <1>1, <1>2 DEF Busy, Tasks
<1> QED
    BY <1>0, <1>1, <1>2, <1>3, <1>4, <1>5 DEF Takes

\* Taking a start keeps the owners.
LEMMA TakesOwners ==
    ASSUME TurnAssumption, TypeInv, RunInv, LateInv, PersistInv, LiveInv, NEW p \in Tasks,
           NEW t \in Turns, Takes(p, t)
    PROVE  /\ RunInv' /\ LateInv' /\ PersistInv' /\ LiveInv'
           /\ \A u \in Turns : Past(u) => Past(u)'
<1> USE TurnAssumption, TakesFacts DEF TurnAssumption
<1>0. MapsTypeOK
    BY TypeParts DEF TypeInv
<1>1. \A r \in Runs : pc'[r] = pc[r] \/ (r = t /\ pc[r] = "turnWait" /\ pc'[r] = "persist")
    BY DEF Tasks
<1>2. \A r \in Runs : job'[r].gen = job[r].gen /\ (Busy(r)' <=> Busy(r))
    OBVIOUS
<1>3. RunInv'
  <2>1. \A s \in Sessions :
           /\ active'[s].run = NoRun => active'[s] = NoActive
           /\ active'[s].run # NoRun => SessionOf[active'[s].run] = s /\ pc'[active'[s].run] # "idle"
    <3>1. \A s \in Sessions : active[s].run \in MaybeRun
      BY <1>0 DEF MapsTypeOK, ActiveType
    <3> QED
      BY <1>1, <3>1 DEF RunInv, MaybeRun
  <2>2. ASSUME NEW s \in Sessions
        PROVE  /\ pendingStart'[s].run = NoRun => pendingStart'[s] = NoStart
               /\ pendingStart'[s].run # NoRun =>
                  /\ SessionOf[pendingStart'[s].run] = s
                  /\ pc'[pendingStart'[s].run] \in {"turnStart", "turnWait"}
                  /\ pendingStart'[s].gen = job'[pendingStart'[s].run].gen
    <3>1. CASE s = SessionOf[t]
      BY <3>1 DEF NoStart
    <3>2. CASE s # SessionOf[t]
      <4>1. pendingStart'[s] = pendingStart[s] /\ pendingStart[s].run \in MaybeRun
        BY <1>0, <3>2 DEF MapsTypeOK, StartType
      <4> QED
        BY <1>1, <1>2, <3>2, <4>1 DEF RunInv, MaybeRun
    <3> QED
      BY <3>1, <3>2
  <2>3. ASSUME NEW r \in Runs
        PROVE  /\ pc'[r] \in {"turnStart", "turnWait"} /\ active'[SessionOf[r]].run = r =>
                    active'[SessionOf[r]].gen = job'[r].gen
               /\ pc'[r] = "turnStart" /\ current' \in loaded'[SessionOf[r]] => current' = job'[r].gen
               /\ pc'[r] = "turnWait" => server'[r].gen = job'[r].gen /\ server'[r].phase # "none"
               /\ server'[r].phase # "none" => pc'[r] \in {"turnWait", "persist", "interrupting", "done"}
               /\ pc'[r] = "idle" => job'[r].gen = NoGeneration
    BY <1>1, <1>2 DEF RunInv
  <2>4. /\ \A r, q \in Runs : Busy(r)' /\ Busy(q)' /\ SessionOf[r] = SessionOf[q] => r = q
        /\ \A r \in Runs : Busy(r)' => active'[SessionOf[r]].run \in {r, NoRun}
    BY <1>2 DEF RunInv
  <2> HIDE DEF TurnAssumption
  <2> QED
    BY <2>1, <2>2, <2>3, <2>4 DEF RunInv
<1>4. LateInv'
    BY <1>2 DEF LateInv, Late, StartQueued
<1>5. \A u \in Turns : Past(u) => u # t /\ Past(u)'
  <2> SUFFICES ASSUME NEW u \in Turns, Past(u) PROVE u # t /\ Past(u)'
    OBVIOUS
  <2>1. u # t /\ u \in Runs /\ SessionOf[u] \in Sessions
    BY DEF Turns
  <2>2. pendingStart'[SessionOf[u]].run # u
    BY <2>1 DEF Past, NoStart
  <2> QED
    BY <1>1, <2>1, <2>2 DEF Past
<1>6. PersistInv'
  <2>1. /\ \A q \in Tasks : pc[q] = "persist" => job[q].turn # t
        /\ \A q \in Tasks : pc[q] = "persist" => job[q].turn \in Runs /\ q # p
    <3>1. pendingStart[SessionOf[t]].run = t /\ pc[p] # "persist"
      BY DEF Takes
    <3>2. \A q \in Tasks : pc[q] = "persist" => job[q].turn \in Runs
      BY DEF TypeInv, JobsInv, Turns
    <3> QED
      BY <3>1, <3>2 DEF PersistInv
  <2>2. ASSUME NEW q \in Tasks, pc[q] = "persist", NEW u \in Runs, u = job[q].turn
        PROVE  SessionOf[u] # SessionOf[t]
    BY <2>1, <2>2 DEF PersistInv
  <2>3. ASSUME NEW q \in Tasks, q # p, pc'[q] = "persist", NEW u \in Runs, u = job[q].turn
        PROVE  /\ q \in {u, Pump} /\ job'[q].run = u /\ job'[q].gen = server'[u].gen
               /\ server'[u].phase # "none"
               /\ pc'[u] \in {"turnWait", "persist", "done"}
               /\ pendingStart'[SessionOf[u]].run # u
               /\ projected'[u] = NoGeneration
               /\ active'[SessionOf[u]].run \in {u, NoRun}
               /\ active'[SessionOf[u]].run = u => /\ active'[SessionOf[u]].gen = job'[q].gen
                                                   /\ route'[SessionOf[u]] = job'[q].gen
                                                   /\ active'[SessionOf[u]].turn = NoRun
               /\ \A r \in Runs : Busy(r)' /\ SessionOf[r] = SessionOf[u] => r = u
               /\ \A v \in Tasks : pc'[v] = "persist" /\ job'[v].turn = u => v = q
    <3>1. pc[q] = "persist" /\ job'[q] = job[q] /\ SessionOf[u] # SessionOf[t] /\ u # t
      BY <2>2, <2>3
    <3>2. pendingStart'[SessionOf[u]] = pendingStart[SessionOf[u]]
      BY <3>1
    <3>3. pc'[u] = pc[u]
      BY <1>1, <3>1
    <3>4. \A v \in Tasks : pc'[v] = "persist" /\ job'[v].turn = u => pc[v] = "persist" /\ job[v].turn = u
      BY <3>1
    <3> QED
      BY <1>2, <2>3, <3>1, <3>2, <3>3, <3>4 DEF PersistInv
  <2>4. /\ p \in {t, Pump} /\ server'[t].phase # "none"
        /\ pc'[t] \in {"turnWait", "persist", "done"}
        /\ pendingStart'[SessionOf[t]].run # t
        /\ projected'[t] = NoGeneration
        /\ active'[SessionOf[t]].run \in {t, NoRun}
        /\ active'[SessionOf[t]].run = t => /\ active'[SessionOf[t]].gen = job'[p].gen
                                            /\ route'[SessionOf[t]] = job'[p].gen
                                            /\ active'[SessionOf[t]].turn = NoRun
        /\ \A r \in Runs : Busy(r)' /\ SessionOf[r] = SessionOf[t] => r = t
        /\ \A v \in Tasks : pc'[v] = "persist" /\ job'[v].turn = t => v = p
    <3>1. /\ p \in {t, Pump} /\ server[t].phase # "none" /\ projected[t] = NoGeneration
          /\ route[SessionOf[t]] = server[t].gen
      BY DEF Takes
    <3>2. active[SessionOf[t]].run = t => active[SessionOf[t]].gen = server[t].gen
      BY DEF RunInv
    <3>3. \A r \in Runs : Busy(r)' /\ SessionOf[r] = SessionOf[t] => r = t
      BY <1>2 DEF RunInv
    <3>4. \A v \in Tasks : pc'[v] = "persist" /\ job'[v].turn = t => v = p
      BY <2>1
    <3>5. pc'[t] \in {"turnWait", "persist", "done"} /\ pendingStart'[SessionOf[t]].run # t
      BY <1>1 DEF NoStart
    <3> QED
      BY <3>1, <3>2, <3>3, <3>4, <3>5
  <2>5. \A q \in Tasks : q # p /\ pc'[q] = "persist" => job'[q].turn \in Runs /\ job'[q] = job[q]
    BY <2>1
  <2> HIDE DEF TurnAssumption
  <2>6. /\ job'[p].turn = t /\ job'[p].run = t /\ job'[p].gen = server'[t].gen
    OBVIOUS
  <2> QED
    BY <2>3, <2>4, <2>5, <2>6 DEF PersistInv
<1>7. LiveInv'
  <2>1. \A s \in Sessions : active[s].turn \in MaybeRun
    BY <1>0 DEF MapsTypeOK, ActiveType
  <2>2. \A u \in Turns : Past(u)' <=> Past(u)' 
    OBVIOUS
  <2>3. ASSUME NEW s \in Sessions, active'[s].turn # NoRun
        PROVE  /\ active'[s].turn = active'[s].run
               /\ Past(active[s].turn)'
               /\ active'[s].gen = server'[active'[s].turn].gen /\ server'[active'[s].turn].phase # "none"
               /\ route'[s] = active'[s].gen
    <3>1. active[s].turn \in Turns /\ active' = active
      BY <2>1, <2>3 DEF MaybeRun, Turns
    <3>2. Past(active[s].turn)
      BY <2>3, <3>1 DEF LiveInv
    <3>3. ASSUME NEW u \in Turns, u = active[s].turn, Past(u)' PROVE Past(active[s].turn)'
      BY <3>1, <3>3 DEF Past
    <3> QED
      BY <1>5, <2>3, <3>1, <3>2, <3>3 DEF LiveInv
  <2>4. \A u \in Turns : projected'[u] # NoGeneration =>
           /\ Past(u)'
           /\ projected'[u] = server'[u].gen
           /\ server'[u].phase # "none"
           /\ active'[SessionOf[u]].run = u => active'[SessionOf[u]].turn = u
    BY <1>5 DEF LiveInv
  <2>5. \A r \in Runs : active'[SessionOf[r]].run = r /\ pc'[r] \in {"interrupting", "done"} =>
           active'[SessionOf[r]].turn = r
    BY <1>1 DEF LiveInv
  <2> HIDE DEF TurnAssumption
  <2> QED
    BY <2>3, <2>4, <2>5 DEF LiveInv
<1> QED
    BY <1>3, <1>4, <1>5, <1>6, <1>7

\* Publishing a turn, session by session and task by task.
Published(p, t) ==
    /\ t \in Runs /\ SessionOf[t] \in Sessions /\ t # NoRun /\ p \in {t, Pump} /\ t # Pump /\ Pump \notin Runs
    /\ pc[p] = "persist" /\ job[p].turn = t /\ job[p].gen = server[t].gen
    /\ pc'[p] \in {"interrupting", IF p = Pump THEN "idle" ELSE "done"}
    /\ \A q \in Tasks \ {p} : pc'[q] = pc[q] /\ job'[q] = job[q]
    /\ pc[t] \in {"turnWait", "persist", "done"}
    /\ pc[t] = "persist" => p = t
    /\ server[t].phase # "none" /\ server[t].gen \in Generations
    /\ pendingStart[SessionOf[t]].run # t /\ projected[t] = NoGeneration
    /\ active[SessionOf[t]].run \in {t, NoRun}
    /\ active[SessionOf[t]].run = t =>
           /\ active[SessionOf[t]].gen = server[t].gen /\ route[SessionOf[t]] = server[t].gen
           /\ active'[SessionOf[t]] = [run |-> t, gen |-> server[t].gen, turn |-> t]
    /\ active[SessionOf[t]].run = NoRun => active'[SessionOf[t]] = NoActive /\ active[SessionOf[t]] = NoActive
    /\ \A u \in Sessions \ {SessionOf[t]} : active'[u] = active[u]
    /\ projected'[t] = server[t].gen /\ \A u \in Turns \ {t} : projected'[u] = projected[u]
    /\ \A r \in Runs : Busy(r) /\ SessionOf[r] = SessionOf[t] => r = t
    /\ \A q \in Tasks : pc[q] = "persist" /\ job[q].turn = t => q = p
    /\ UNCHANGED <<current, server, loaded, pendingStart, route, events>>
    /\ \A r \in Runs : \/ pc'[r] = pc[r] /\ job'[r] = job[r]
                       \/ r = t /\ pc[r] = "persist" /\ pc'[r] \in {"interrupting", "done"}

\* What Publishes changes, in terms of the invariant.
LEMMA PublishesFacts ==
    ASSUME TurnAssumption, TypeInv, RunInv, PersistInv, LiveInv, NEW p \in Tasks, NEW t \in Turns,
           Publishes(p, t)
    PROVE  Published(p, t)
<1> USE TurnAssumption DEF TurnAssumption
<1> DEFINE s == SessionOf[t]
           g == server[t].gen
<1>0. /\ MapsTypeOK /\ TasksTypeOK
      /\ t \in Runs /\ s \in Sessions /\ t # NoRun /\ t # Pump /\ Pump \notin Runs /\ t \in Tasks
    BY TypeParts DEF TypeInv, Turns, Tasks
<1>1. /\ pc[p] = "persist" /\ job[p].turn = t
      /\ pc'[p] \in {"interrupting", IF p = Pump THEN "idle" ELSE "done"}
      /\ \A q \in Tasks \ {p} : pc'[q] = pc[q] /\ job'[q] = job[q]
      /\ UNCHANGED <<current, server, loaded, pendingStart, route, events>>
    BY DEF Publishes
<1>2. /\ p \in {t, Pump} /\ job[p].gen = g
      /\ pc[t] \in {"turnWait", "persist", "done"}
      /\ server[t].phase # "none"
      /\ pendingStart[s].run # t /\ projected[t] = NoGeneration
      /\ active[s].run \in {t, NoRun}
      /\ active[s].run = t => active[s].gen = g /\ route[s] = g
      /\ \A r \in Runs : Busy(r) /\ SessionOf[r] = s => r = t
      /\ \A q \in Tasks : pc[q] = "persist" /\ job[q].turn = t => q = p
    BY <1>1 DEF PersistInv
<1>3. pc[t] = "persist" => p = t
  <2>1. ASSUME pc[t] = "persist" PROVE job[t].turn = t
    <3>1. t \in {job[t].turn, Pump}
      BY <1>0, <2>1 DEF PersistInv
    <3> QED
      BY <1>0, <3>1
  <2> QED
    BY <1>0, <1>2, <2>1
<1>4. g \in Generations
    BY <1>2 DEF TypeInv, EventsInv
<1>5. /\ active[s].run = t => active'[s] = [run |-> t, gen |-> g, turn |-> t]
      /\ active[s].run = NoRun => active'[s] = active[s] /\ active[s] = NoActive
      /\ \A u \in Sessions \ {s} : active'[u] = active[u]
    BY <1>0 DEF Publishes, MapsTypeOK, RunInv
<1>6. projected'[t] = g /\ \A u \in Turns \ {t} : projected'[u] = projected[u]
    BY <1>0 DEF Publishes, MapsTypeOK
<1>7. \A r \in Runs : (pc'[r] = pc[r] /\ job'[r] = job[r])
                       \/ (r = t /\ pc[r] = "persist" /\ pc'[r] \in {"interrupting", "done"})
    BY <1>0, <1>1, <1>2 DEF Tasks
<1> QED
    BY <1>0, <1>1, <1>2, <1>3, <1>4, <1>5, <1>6, <1>7 DEF Published

\* Publishing a turn keeps the owners, and the turn went by its start.
LEMMA PublishesOwners ==
    ASSUME TurnAssumption, TypeInv, RunInv, LateInv, PersistInv, LiveInv, NEW p \in Tasks,
           NEW t \in Turns, Publishes(p, t)
    PROVE  /\ RunInv' /\ LateInv' /\ PersistInv' /\ LiveInv'
           /\ \A u \in Turns : Past(u) => Past(u)'
           /\ Past(t)'
<1>a. Published(p, t)
    BY PublishesFacts
<1> USE TurnAssumption, <1>a DEF TurnAssumption, Published
<1>0. MapsTypeOK
    BY TypeParts DEF TypeInv
<1>1. \A r \in Runs : (pc'[r] = pc[r] /\ job'[r] = job[r])
                       \/ (r = t /\ pc[r] = "persist" /\ pc'[r] \in {"interrupting", "done"})
    OBVIOUS
<1>2. /\ \A r \in Runs : Busy(r)' => Busy(r)
      /\ \A r \in Runs : Busy(r)' => job'[r] = job[r] \/ r = t
    BY <1>1 DEF Busy
<1>3. \A u \in Sessions : active'[u].run = active[u].run /\ active'[u].gen = active[u].gen
  <2>1. CASE active[SessionOf[t]].run = t
    BY <2>1
  <2>2. CASE active[SessionOf[t]].run = NoRun
    BY <2>2
  <2> QED
    BY <2>1, <2>2
<1>4. RunInv'
  <2>1. ASSUME NEW u \in Sessions
        PROVE  /\ active'[u].run = NoRun => active'[u] = NoActive
               /\ active'[u].run # NoRun => SessionOf[active'[u].run] = u /\ pc'[active'[u].run] # "idle"
    <3>1. active[u].run \in MaybeRun
      BY <1>0 DEF MapsTypeOK, ActiveType
    <3>2. active[u].run = NoRun => active'[u] = active[u]
      OBVIOUS
    <3>3. active'[u].run = active[u].run
      BY <1>3
    <3> QED
      BY <1>1, <3>1, <3>2, <3>3 DEF RunInv, MaybeRun
  <2>2. ASSUME NEW u \in Sessions
        PROVE  /\ pendingStart'[u].run = NoRun => pendingStart'[u] = NoStart
               /\ pendingStart'[u].run # NoRun =>
                  /\ SessionOf[pendingStart'[u].run] = u
                  /\ pc'[pendingStart'[u].run] \in {"turnStart", "turnWait"}
                  /\ pendingStart'[u].gen = job'[pendingStart'[u].run].gen
    <3>1. pendingStart'[u] = pendingStart[u] /\ pendingStart[u].run \in MaybeRun
      BY <1>0 DEF MapsTypeOK, StartType
    <3> QED
      BY <1>1, <3>1 DEF RunInv, MaybeRun
  <2>3. ASSUME NEW r \in Runs
        PROVE  /\ pc'[r] \in {"turnStart", "turnWait"} /\ active'[SessionOf[r]].run = r =>
                    active'[SessionOf[r]].gen = job'[r].gen
               /\ pc'[r] = "turnStart" /\ current' \in loaded'[SessionOf[r]] => current' = job'[r].gen
               /\ pc'[r] = "turnWait" => server'[r].gen = job'[r].gen /\ server'[r].phase # "none"
               /\ server'[r].phase # "none" => pc'[r] \in {"turnWait", "persist", "interrupting", "done"}
               /\ pc'[r] = "idle" => job'[r].gen = NoGeneration
    BY <1>1, <1>3 DEF RunInv
  <2>4. /\ \A r, q \in Runs : Busy(r)' /\ Busy(q)' /\ SessionOf[r] = SessionOf[q] => r = q
        /\ \A r \in Runs : Busy(r)' => active'[SessionOf[r]].run \in {r, NoRun}
    BY <1>2, <1>3 DEF RunInv
  <2> HIDE DEF TurnAssumption
  <2> QED
    BY <2>1, <2>2, <2>3, <2>4 DEF RunInv
<1>5. LateInv'
  <2>1. ASSUME NEW u \in Runs, NEW r \in Runs, r # u, SessionOf[r] = SessionOf[u], Late(u)'
        PROVE  /\ Busy(r)' => server'[u].gen # current' /\ job'[r].gen # server'[u].gen
               /\ active'[SessionOf[r]].run = r =>
                      server'[u].gen # current' /\ active'[SessionOf[r]].gen # server'[u].gen
    <3>1. Late(u) /\ Queued' = Queued
      BY <2>1 DEF Late, StartQueued, Queued
    <3>2. active'[SessionOf[r]].run = r =>
                 server'[u].gen # current' /\ active'[SessionOf[r]].gen # server'[u].gen
      BY <1>3, <2>1, <3>1 DEF LateInv
    <3>3. ASSUME Busy(r)' PROVE server'[u].gen # current' /\ job'[r].gen # server'[u].gen
      <4>1. CASE job'[r] = job[r]
        BY <1>2, <2>1, <3>1, <3>3, <4>1 DEF LateInv
      <4>2. CASE job'[r] # job[r]
        <5>1. r = t /\ p = t /\ pc'[t] = "interrupting"
          BY <1>1, <1>2, <3>3, <4>2 DEF Busy
        <5>2. job'[r].gen = server[t].gen /\ job[r].gen = server[t].gen
          BY <5>1 DEF Publishes
        <5> QED
          BY <1>2, <2>1, <3>1, <3>3, <5>1, <5>2 DEF LateInv
      <4> QED
        BY <4>1, <4>2
    <3> QED
      BY <3>2, <3>3
  <2> QED
    BY <2>1 DEF LateInv
<1>6. \A q \in Tasks : pc'[q] = "persist" => q # p /\ pc[q] = "persist" /\ job'[q] = job[q] /\ job[q].turn # t
    OBVIOUS
<1>7. \A u \in Turns : Past(u) \/ u = t => Past(u)'
  <2> SUFFICES ASSUME NEW u \in Turns, Past(u) \/ u = t PROVE Past(u)'
    OBVIOUS
  <2>1. u \in Runs
    BY DEF Turns
  <2>2. pendingStart'[SessionOf[u]].run # u
    BY DEF Past
  <2>3. pc'[u] \in {"turnWait", "interrupting", "done"}
    BY <1>1, <2>1 DEF Past
  <2>4. \A q \in Tasks : pc'[q] = "persist" => job'[q].turn # u
    BY <1>6 DEF Past
  <2> QED
    BY <2>2, <2>3, <2>4 DEF Past
<1>8. PersistInv'
  <2>2. ASSUME NEW q \in Tasks, pc'[q] = "persist", NEW u \in Runs, u = job[q].turn
        PROVE  /\ q \in {u, Pump} /\ job'[q].run = u /\ job'[q].gen = server'[u].gen
               /\ server'[u].phase # "none"
               /\ pc'[u] \in {"turnWait", "persist", "done"}
               /\ pendingStart'[SessionOf[u]].run # u
               /\ projected'[u] = NoGeneration
               /\ active'[SessionOf[u]].run \in {u, NoRun}
               /\ active'[SessionOf[u]].run = u => /\ active'[SessionOf[u]].gen = job'[q].gen
                                                   /\ route'[SessionOf[u]] = job'[q].gen
                                                   /\ active'[SessionOf[u]].turn = NoRun
               /\ \A r \in Runs : Busy(r)' /\ SessionOf[r] = SessionOf[u] => r = u
               /\ \A v \in Tasks : pc'[v] = "persist" /\ job'[v].turn = u => v = q
    <3>1. pc[q] = "persist" /\ job'[q] = job[q] /\ u # t /\ u \in Turns
      BY <1>6, <2>2 DEF Turns
    <3>2. pc'[u] = pc[u]
      BY <1>1, <3>1
    <3>3. active'[SessionOf[u]].run = active[SessionOf[u]].run
      BY <1>3
    <3>4. active[SessionOf[u]].run = u => active'[SessionOf[u]] = active[SessionOf[u]]
      BY <3>1
    <3>5. \A v \in Tasks : pc'[v] = "persist" /\ job'[v].turn = u => pc[v] = "persist" /\ job[v].turn = u
      BY <1>6
    <3>6. projected'[u] = projected[u]
      BY <3>1
    <3> QED
      BY <1>2, <2>2, <3>1, <3>2, <3>3, <3>4, <3>5, <3>6 DEF PersistInv
  <2>3. \A q \in Tasks : pc[q] = "persist" => job[q].turn \in Runs
    BY DEF TypeInv, JobsInv, Turns
  <2> HIDE DEF TurnAssumption
  <2> QED
    BY <1>6, <2>2, <2>3 DEF PersistInv
<1>9. LiveInv'
  <2>1. \A u \in Sessions : active[u].turn \in MaybeRun
    BY <1>0 DEF MapsTypeOK, ActiveType
  <2>3. ASSUME NEW u \in Sessions, active'[u].turn # NoRun
        PROVE  /\ active'[u].turn = active'[u].run
               /\ Past(active[u].turn)'
               /\ active'[u].gen = server'[active'[u].turn].gen
               /\ route'[u] = active'[u].gen
    <3>a. ASSUME NEW v \in Turns, v = active'[u].turn, Past(v)' PROVE Past(active[u].turn)'
      BY <3>a DEF Past
    <3>1. CASE u = SessionOf[t]
      <4>1. active[u].run = t
        BY <2>3, <3>1 DEF NoActive
      <4>2. active'[u] = [run |-> t, gen |-> server[t].gen, turn |-> t] /\ route'[u] = server'[t].gen
        BY <3>1, <4>1
      <4> QED
        BY <1>7, <3>a, <4>2
    <3>2. CASE u # SessionOf[t]
      <4>1. active'[u] = active[u] /\ active[u].turn \in Turns
        BY <2>1, <2>3, <3>2 DEF MaybeRun, Turns
      <4>2. \A v \in Turns : v = active[u].turn => Past(v)
        BY <2>3, <4>1 DEF LiveInv
      <4> QED
        BY <1>7, <2>3, <3>a, <4>1, <4>2 DEF LiveInv
    <3> QED
      BY <3>1, <3>2
  <2>4. ASSUME NEW u \in Turns, projected'[u] # NoGeneration
        PROVE  /\ Past(u)'
               /\ projected'[u] = server'[u].gen
               /\ server'[u].phase # "none"
               /\ active'[SessionOf[u]].run = u => active'[SessionOf[u]].turn = u
    <3>1. CASE u = t
      BY <1>3, <1>7, <3>1
    <3>2. CASE u # t
      <4>1. active[SessionOf[u]].run = u => active'[SessionOf[u]] = active[SessionOf[u]]
        BY <3>2 DEF Turns
      <4> QED
        BY <1>3, <1>7, <2>4, <3>2, <4>1 DEF LiveInv, Turns
    <3> QED
      BY <3>1, <3>2
  <2>5. ASSUME NEW r \in Runs, active'[SessionOf[r]].run = r, pc'[r] \in {"interrupting", "done"}
        PROVE  active'[SessionOf[r]].turn = r
    <3>1. CASE r = t
      BY <1>3, <2>5, <3>1
    <3>2. CASE r # t
      <4>1. active'[SessionOf[r]] = active[SessionOf[r]]
        BY <1>3, <2>5, <3>2
      <4> QED
        BY <1>1, <2>5, <3>2, <4>1 DEF LiveInv
    <3> QED
      BY <3>1, <3>2
  <2> HIDE DEF TurnAssumption
  <2> QED
    BY <2>3, <2>4, <2>5 DEF LiveInv
<1> HIDE DEF TurnAssumption
<1> QED
    BY <1>4, <1>5, <1>7, <1>8, <1>9

\* The world outside the engine: a turn keeps its generation, and no start becomes
\* late.
Outer ==
    /\ UNCHANGED <<engine, loaded>>
    /\ \A t \in Turns : /\ server'[t].gen = server[t].gen
                        /\ server'[t].phase = "none" <=> server[t].phase = "none"
                        /\ Late(t)' => Late(t)
    /\ current' \in {current, NoGeneration, spawned + 1}

\* The transport and the app-server leave the engine alone.
LEMMA OuterSteps ==
    ASSUME TurnAssumption, TypeInv, GensInv, TransportStep \/ \E t \in Turns : ServerStep(t)
    PROVE  Outer /\ GensInv'
<1> USE TurnAssumption DEF TurnAssumption
<1>0. TransportTypeOK /\ OutsideTypeOK /\ EventsInv
    BY TypeParts DEF TypeInv
<1>a. /\ current \in Nat /\ spawned \in Nat /\ owed \subseteq Nat /\ announced \subseteq Nat
      /\ \A t \in Turns : server[t].gen \in Nat
      /\ \A s \in Sessions : loaded[s] \subseteq Nat
    BY <1>0 DEF TransportTypeOK, OutsideTypeOK, ServerType, Gens, Generations, NoGeneration
<1>1. CASE TransportMoves
  <2>1. /\ UNCHANGED <<engine, outside>> /\ current' \in {current, NoGeneration, spawned + 1}
        /\ announced' = announced
    BY <1>1 DEF TransportMoves, Start, BecomeReady, AbandonStart, Lose, Release
  <2>2. Outer
    BY <2>1 DEF Outer, outside, Late, StartQueued, Queued
  <2>3. ASSUME current' <= spawned', spawned <= spawned',
               \A g \in owed' \cup announced' : g <= spawned' /\ g # current',
               spawned' \in Nat
        PROVE  GensInv'
    <3>1. \A g \in Nat : g <= spawned => g <= spawned'
      BY <1>a, <2>3
    <3>2. /\ \A t \in Turns : server'[t].gen <= spawned'
          /\ \A s \in Sessions : \A g \in loaded'[s] : g <= spawned'
      BY <1>a, <2>1, <3>1 DEF GensInv, outside
    <3>3. \A e \in Queued' :
               /\ e.kind = "closed" => e.gen \in announced'
               /\ e.kind # "closed" => /\ e.gen = server'[e.turn].gen
                                       /\ server'[e.turn].phase \in {"started", "done"}
      BY <2>1 DEF GensInv, outside, Queued
    <3> QED
      BY <2>3, <3>2, <3>3 DEF GensInv
  <2>4. CASE Start
    <3>1. spawned' = spawned + 1 /\ current' = spawned + 1 /\ UNCHANGED <<owed, announced>>
      BY <2>4 DEF Start
    <3>2. \A g \in owed \cup announced : g \in Nat /\ g <= spawned
      BY <1>a DEF GensInv
    <3>3. \A g \in owed' \cup announced' : g <= spawned' /\ g # current'
      BY <1>a, <3>1, <3>2
    <3>4. current' <= spawned' /\ spawned <= spawned' /\ spawned' \in Nat
      BY <1>a, <3>1
    <3> QED
      BY <2>2, <2>3, <3>3, <3>4
  <2>5. CASE BecomeReady
    <3>1. UNCHANGED <<spawned, current, owed, announced>>
      BY <2>5 DEF BecomeReady
    <3>2. current' <= spawned' /\ spawned <= spawned' /\ spawned' \in Nat
      BY <1>a, <3>1 DEF GensInv
    <3>3. \A g \in owed' \cup announced' : g <= spawned' /\ g # current'
      BY <3>1 DEF GensInv
    <3> QED
      BY <2>2, <2>3, <3>2, <3>3
  <2>6. CASE AbandonStart \/ Release
    <3>1. owed \cup announced \subseteq Generations
      BY <1>0 DEF TransportTypeOK
    <3>2. /\ UNCHANGED <<owed, announced, spawned>> /\ current' = 0 /\ 0 \notin Generations
      BY <2>6 DEF AbandonStart, Release, NoGeneration, Generations
    <3>3. current' <= spawned' /\ spawned <= spawned' /\ spawned' \in Nat
      BY <1>a, <3>2
    <3>4. \A g \in owed' \cup announced' : g <= spawned' /\ g # current'
      BY <1>a, <3>1, <3>2 DEF GensInv
    <3> QED
      BY <2>2, <2>3, <3>3, <3>4
  <2>7. CASE Lose
    <3>1. owed' \cup announced' \subseteq Generations
      BY <1>0, <2>7 DEF TransportTypeOK, Lose
    <3>2. /\ UNCHANGED <<announced, spawned>> /\ owed' = owed \cup {current} /\ current' = 0
          /\ 0 \notin Generations
      BY <2>7 DEF Lose, NoGeneration, Generations
    <3>3. current' <= spawned' /\ spawned <= spawned' /\ spawned' \in Nat
      BY <1>a, <3>2
    <3>4. \A g \in owed' \cup announced' : g <= spawned' /\ g # current'
      BY <1>a, <3>1, <3>2 DEF GensInv
    <3> QED
      BY <2>2, <2>3, <3>3, <3>4
  <2> QED
    BY <1>1, <2>2, <2>4, <2>5, <2>6, <2>7 DEF TransportMoves
<1>2. ASSUME NEW g \in Generations, AnnounceLoss(g) PROVE Outer /\ GensInv'
  <2> DEFINE closed == [kind |-> "closed", gen |-> g, turn |-> NoRun]
  <2>1. closed \in EventType
    BY Nothings DEF EventType
  <2>2. Queued' = Queued \cup {closed}
    BY <1>0, <1>2, <2>1, QueueAppend DEF AnnounceLoss, OutsideTypeOK
  <2>3. /\ UNCHANGED <<engine, server, loaded, current, spawned>>
        /\ g \in owed /\ owed' \cup announced' = owed \cup announced
        /\ announced' = announced \cup {g}
    BY <1>2 DEF AnnounceLoss, Announce
  <2>4. Outer
    BY <2>2, <2>3 DEF Outer, Late, StartQueued
  <2> QED
    BY <2>2, <2>3, <2>4 DEF GensInv
<1>3. ASSUME NEW t \in Turns, ServerStep(t) PROVE Outer /\ GensInv'
  <2>1. /\ UNCHANGED <<transportVars, engine, loaded>>
        /\ \/ Queued' = Queued
           \/ /\ server[t].phase = "accepted" /\ server'[t].phase = "started"
              /\ Queued' = Queued \cup {[kind |-> "started", gen |-> server[t].gen, turn |-> t]}
           \/ /\ server[t].phase = "started" /\ server'[t].phase = "done"
              /\ Queued' = Queued \cup {[kind |-> "completed", gen |-> server[t].gen, turn |-> t]}
    <3>1. server[t].phase # "none" => server[t].gen \in Generations /\ t \in MaybeRun
      BY <1>0 DEF EventsInv, MaybeRun, Turns
    <3>2. CASE ReplyTurnStart(t)
      BY <3>2 DEF ReplyTurnStart, Queued
    <3>3. CASE NotifyStarted(t)
      <4>1. [kind |-> "started", gen |-> server[t].gen, turn |-> t] \in EventType
        BY <3>1, <3>3 DEF EventType, NotifyStarted
      <4>2. Queued' = Queued \cup {[kind |-> "started", gen |-> server[t].gen, turn |-> t]}
        BY <1>0, <3>3, <4>1, QueueAppend DEF NotifyStarted, OutsideTypeOK
      <4> QED
        BY <1>0, <3>3, <4>2 DEF NotifyStarted, OutsideTypeOK, ServerType
    <3>4. CASE NotifyCompleted(t)
      <4>1. [kind |-> "completed", gen |-> server[t].gen, turn |-> t] \in EventType
        BY <3>1, <3>4 DEF EventType, NotifyCompleted
      <4>2. Queued' = Queued \cup {[kind |-> "completed", gen |-> server[t].gen, turn |-> t]}
        BY <1>0, <3>4, <4>1, QueueAppend DEF NotifyCompleted, OutsideTypeOK
      <4> QED
        BY <1>0, <3>4, <4>2 DEF NotifyCompleted, OutsideTypeOK, ServerType
    <3> QED
      BY <1>3, <3>2, <3>3, <3>4 DEF ServerStep
  <2>2. \A u \in Turns : /\ server'[u].gen = server[u].gen
                         /\ u # t => server'[u] = server[u]
                         /\ server'[u].phase = "none" <=> server[u].phase = "none"
                         /\ server[u].phase \in {"started", "done"} => server'[u].phase \in {"started", "done"}
                         /\ server'[u].phase = "accepted" => server[u].phase = "accepted"
    BY <1>0, <1>3 DEF ServerStep, ReplyTurnStart, NotifyStarted, NotifyCompleted, OutsideTypeOK, ServerType
  <2>3. \A e \in Queued' : \/ e \in Queued
                           \/ /\ e.kind = "started" /\ e.gen = server[t].gen /\ e.turn = t
                              /\ server[t].phase = "accepted" /\ server'[t].phase = "started"
                           \/ /\ e.kind = "completed" /\ e.gen = server[t].gen /\ e.turn = t
                              /\ server'[t].phase = "done"
    BY <2>1
  <2>4. \A u \in Turns : Late(u)' => Late(u)
    <3> SUFFICES ASSUME NEW u \in Turns, Late(u)' PROVE Late(u)
      OBVIOUS
    <3>1. CASE server'[u].phase = "accepted"
      BY <2>2, <3>1 DEF Late
    <3>2. CASE StartQueued(u)'
      <4>1. PICK e \in Queued' : e.kind = "started" /\ e.turn = u
        BY <3>2 DEF StartQueued
      <4> QED
        BY <2>3, <4>1 DEF Late, StartQueued
    <3> QED
      BY <3>1, <3>2 DEF Late
  <2>5. Outer
    <3>1. UNCHANGED <<engine, loaded>> /\ current' = current
      BY <2>1 DEF transportVars
    <3>2. \A u \in Turns : /\ server'[u].gen = server[u].gen
                           /\ server'[u].phase = "none" <=> server[u].phase = "none"
      BY <2>2
    <3> QED
      BY <2>4, <3>1, <3>2 DEF Outer
  <2>6. \A e \in Queued' : e.kind # "closed" => /\ e.gen = server'[e.turn].gen
                                                /\ server'[e.turn].phase \in {"started", "done"}
    <3>1. \A e \in Queued : e.kind # "closed" => e.turn \in Turns
      BY <1>0 DEF EventsInv
    <3> QED
      BY <2>2, <2>3, <3>1 DEF GensInv
  <2>7. \A e \in Queued' : e.kind = "closed" => e \in Queued
    BY <2>3
  <2> QED
    BY <2>1, <2>2, <2>5, <2>6, <2>7 DEF GensInv, transportVars
<1> QED
    BY <1>1, <1>2, <1>3 DEF TransportStep

\* The world outside keeps the owners.
LEMMA OuterOwners ==
    ASSUME TurnAssumption, TypeInv, GensInv, RunInv, LateInv, PersistInv, LiveInv, Outer
    PROVE  /\ RunInv' /\ LateInv' /\ PersistInv' /\ LiveInv'
           /\ \A u \in Turns : Past(u) => Past(u)'
<1> USE TurnAssumption DEF TurnAssumption
<1>0. TransportTypeOK /\ MapsTypeOK /\ OutsideTypeOK /\ EventsInv
    BY TypeParts DEF TypeInv
<1>1. /\ UNCHANGED <<active, pendingStart, projected, route, pc, job, loaded>>
      /\ \A t \in Turns : server'[t].gen = server[t].gen
                         /\ (server'[t].phase = "none" <=> server[t].phase = "none")
      /\ \A r \in Runs : Busy(r)' <=> Busy(r)
      /\ \A u \in Turns : Past(u) <=> Past(u)'
      /\ Runs = Turns
    BY DEF Outer, engine, maps, tasks, Busy, Past, Turns
<1>2. RunInv'
  <2>1. \A r \in Runs :
           pc'[r] = "turnStart" /\ current' \in loaded'[SessionOf[r]] => current' = job'[r].gen
    <3> SUFFICES ASSUME NEW r \in Runs, pc'[r] = "turnStart", current' \in loaded'[SessionOf[r]]
                 PROVE  current' = job'[r].gen
      OBVIOUS
    <3>1. loaded[SessionOf[r]] \subseteq Generations /\ NoGeneration \notin Generations
      BY <1>0 DEF OutsideTypeOK, NoGeneration, Generations
    <3>2. spawned + 1 \notin loaded[SessionOf[r]]
      BY <1>0 DEF GensInv, TransportTypeOK
    <3>3. current' = current
      BY <1>1, <3>1, <3>2 DEF Outer
    <3> QED
      BY <1>1, <3>3 DEF RunInv
  <2> HIDE DEF TurnAssumption
  <2> QED
    BY <1>1, <2>1 DEF RunInv
<1>3. LateInv'
  <2> SUFFICES ASSUME NEW t \in Runs, NEW r \in Runs, r # t, SessionOf[r] = SessionOf[t], Late(t)'
               PROVE  /\ Busy(r)' => server'[t].gen # current' /\ job'[r].gen # server'[t].gen
                      /\ active'[SessionOf[r]].run = r =>
                             server'[t].gen # current' /\ active'[SessionOf[r]].gen # server'[t].gen
    BY DEF LateInv
  <2>1. Late(t) /\ t \in Turns
    BY <1>1 DEF Outer
  <2>2. server[t].phase # "none"
    BY <2>1 DEF Late, StartQueued, GensInv
  <2>3. server[t].gen \in Generations /\ server[t].gen <= spawned /\ server[t].gen # NoGeneration
    BY <1>0, <2>1, <2>2 DEF EventsInv, GensInv, NoGeneration, Generations
  <2>4. server[t].gen # current => server[t].gen # current'
    BY <1>0, <2>3 DEF Outer, TransportTypeOK, Generations
  <2> QED
    BY <1>1, <2>1, <2>4 DEF LateInv
<1>4. PersistInv'
  <2>1. \A p \in Tasks : pc[p] = "persist" => job[p].turn \in Turns
    BY DEF TypeInv, JobsInv
  <2> HIDE DEF TurnAssumption
  <2> QED
    BY <1>1, <2>1 DEF PersistInv
<1>5. LiveInv'
  <2>1. ASSUME NEW s \in Sessions, active'[s].turn # NoRun
        PROVE  /\ active'[s].turn = active'[s].run
               /\ Past(active[s].turn)'
               /\ active'[s].gen = server'[active'[s].turn].gen /\ server'[active'[s].turn].phase # "none"
               /\ route'[s] = active'[s].gen
    <3>1. active[s].turn \in Turns
      BY <1>0, <1>1, <2>1 DEF MapsTypeOK, ActiveType, MaybeRun
    <3>2. ASSUME NEW u \in Turns, u = active[s].turn, Past(u)' PROVE Past(active[s].turn)'
      BY <1>1, <3>2 DEF Past
    <3> QED
      BY <1>1, <2>1, <3>1, <3>2 DEF LiveInv
  <2> HIDE DEF TurnAssumption
  <2> QED
    BY <1>1, <2>1 DEF LiveInv
<1> QED
    BY <1>1, <1>2, <1>3, <1>4, <1>5

\* A run begins: no other run of its session is under way, and no start is still on
\* its way in the current generation.
Begun(r) ==
    /\ SessionOf[r] \in Sessions /\ r # NoRun /\ pc[r] = "idle" /\ job[r].gen = NoGeneration
    /\ \A q \in Runs : SessionOf[q] = SessionOf[r] => ~Busy(q)
    /\ \A t \in Runs : SessionOf[t] = SessionOf[r] => ~Starting(t)
    /\ active[SessionOf[r]].run # r /\ server[r].phase = "none" /\ ~Past(r)
    /\ \A s \in Sessions \ {SessionOf[r]} : active'[s] = active[s]
    /\ \/ /\ pc'[r] = "prepare" /\ active[SessionOf[r]].run = NoRun
          /\ active'[SessionOf[r]] = [run |-> r, gen |-> NoGeneration, turn |-> NoRun]
       \/ pc'[r] = "done" /\ active'[SessionOf[r]] = active[SessionOf[r]]
    /\ \A p \in Tasks \ {r} : pc'[p] = pc[p]
    /\ UNCHANGED <<job, pendingStart, projected, route, current, server, loaded, events>>

\* What BeginRun changes, in terms of the invariant.
LEMMA BeginFacts ==
    ASSUME TurnAssumption, TypeInv, RunInv, LiveInv, OneAtATime, NEW r \in Runs, BeginRun(r)
    PROVE  Begun(r)
<1> USE TurnAssumption DEF TurnAssumption
<1>0. MapsTypeOK /\ TasksTypeOK /\ r \in Tasks /\ SessionOf[r] \in Sessions /\ r # NoRun
    BY TypeParts DEF TypeInv, Tasks
<1>1. /\ pc[r] = "idle"
      /\ \A q \in Runs : SessionOf[q] = SessionOf[r] => pc[q] \in {"idle", "done"}
      /\ \A t \in Runs : SessionOf[t] = SessionOf[r] => ~Starting(t)
      /\ UNCHANGED <<job, pendingStart, projected, route, current, server, loaded, events>>
    BY DEF BeginRun, OneAtATime, Turns, transportVars, outside
<1>2. job[r].gen = NoGeneration /\ active[SessionOf[r]].run # r /\ server[r].phase = "none" /\ ~Past(r)
    BY <1>0, <1>1 DEF RunInv, Past
<1>3. \A p \in Tasks \ {r} : pc'[p] = pc[p]
    BY <1>0 DEF BeginRun, Goto, TasksTypeOK
<1>4. /\ \A s \in Sessions \ {SessionOf[r]} : active'[s] = active[s]
      /\ \/ /\ pc'[r] = "prepare" /\ active[SessionOf[r]].run = NoRun
            /\ active'[SessionOf[r]] = [run |-> r, gen |-> NoGeneration, turn |-> NoRun]
         \/ pc'[r] = "done" /\ active'[SessionOf[r]] = active[SessionOf[r]]
    BY <1>0 DEF BeginRun, Goto, TasksTypeOK, MapsTypeOK, NoActive
<1> QED
    BY <1>0, <1>1, <1>2, <1>3, <1>4 DEF Begun, Busy

\* A run that begins keeps the owners.
LEMMA BeginOwners ==
    ASSUME TurnAssumption, TypeInv, GensInv, RunInv, LateInv, PersistInv, LiveInv, OneAtATime,
           NEW r \in Runs, BeginRun(r)
    PROVE  /\ RunInv' /\ LateInv' /\ PersistInv' /\ LiveInv'
           /\ \A u \in Turns : Past(u) => Past(u)'
<1>a. Begun(r)
    BY BeginFacts
<1> USE TurnAssumption, <1>a DEF TurnAssumption, Begun
<1>0. MapsTypeOK /\ EventsInv
    BY TypeParts DEF TypeInv
<1>1. \A q \in Runs \ {r} : pc'[q] = pc[q] /\ (Busy(q)' <=> Busy(q))
    BY DEF Busy, Tasks
<1>2. \A p \in Tasks : pc'[p] = "persist" => p # r /\ pc[p] = "persist"
    OBVIOUS
<1>3. \A s \in Sessions : active'[s] # active[s] =>
          s = SessionOf[r] /\ active'[s].run = r /\ active'[s].gen = NoGeneration /\ active'[s].turn = NoRun
    OBVIOUS
<1>4. RunInv'
  <2>1. ASSUME NEW s \in Sessions
        PROVE  /\ active'[s].run = NoRun => active'[s] = NoActive
               /\ active'[s].run # NoRun => SessionOf[active'[s].run] = s /\ pc'[active'[s].run] # "idle"
    <3>1. CASE active'[s] = active[s]
      <4>1. active[s].run \in MaybeRun
        BY <1>0 DEF MapsTypeOK, ActiveType
      <4> QED
        BY <1>1, <3>1, <4>1 DEF RunInv, MaybeRun
    <3>2. CASE active'[s] # active[s]
      BY <1>3, <3>2
    <3> QED
      BY <3>1, <3>2
  <2>2. ASSUME NEW s \in Sessions
        PROVE  /\ pendingStart'[s].run = NoRun => pendingStart'[s] = NoStart
               /\ pendingStart'[s].run # NoRun =>
                      /\ SessionOf[pendingStart'[s].run] = s
                      /\ pc'[pendingStart'[s].run] \in {"turnStart", "turnWait"}
                      /\ pendingStart'[s].gen = job'[pendingStart'[s].run].gen
    <3>1. pendingStart'[s] = pendingStart[s] /\ pendingStart[s].run \in MaybeRun
      BY <1>0 DEF MapsTypeOK, StartType
    <3> QED
      BY <1>1, <3>1 DEF RunInv, MaybeRun
  <2>3. ASSUME NEW q \in Runs
        PROVE  /\ pc'[q] \in {"turnStart", "turnWait"} /\ active'[SessionOf[q]].run = q =>
                    active'[SessionOf[q]].gen = job'[q].gen
               /\ pc'[q] = "turnStart" /\ current' \in loaded'[SessionOf[q]] => current' = job'[q].gen
               /\ pc'[q] = "turnWait" => server'[q].gen = job'[q].gen /\ server'[q].phase # "none"
               /\ server'[q].phase # "none" => pc'[q] \in {"turnWait", "persist", "interrupting", "done"}
               /\ pc'[q] = "idle" => job'[q].gen = NoGeneration
    <3>1. CASE q = r
      BY <3>1
    <3>2. CASE q # r
      <4>1. active'[SessionOf[q]].run = q => active'[SessionOf[q]] = active[SessionOf[q]]
        BY <1>3, <3>2
      <4> QED
        BY <1>1, <3>2, <4>1 DEF RunInv
    <3> QED
      BY <3>1, <3>2
  <2>4. \A q, v \in Runs : Busy(q)' /\ Busy(v)' /\ SessionOf[q] = SessionOf[v] => q = v
    BY <1>1 DEF RunInv
  <2>5. ASSUME NEW q \in Runs, Busy(q)' PROVE active'[SessionOf[q]].run \in {q, NoRun}
    <3>1. CASE q = r
      BY <2>5, <3>1 DEF Busy
    <3>2. CASE q # r
      <4>1. Busy(q) /\ SessionOf[q] # SessionOf[r]
        BY <1>1, <2>5, <3>2
      <4> QED
        BY <4>1 DEF RunInv
    <3> QED
      BY <3>1, <3>2
  <2> HIDE DEF TurnAssumption
  <2> QED
    BY <2>1, <2>2, <2>3, <2>4, <2>5 DEF RunInv
<1>5. LateInv'
  <2> SUFFICES ASSUME NEW t \in Runs, NEW q \in Runs, q # t, SessionOf[q] = SessionOf[t], Late(t)'
               PROVE  /\ Busy(q)' => server'[t].gen # current' /\ job'[q].gen # server'[t].gen
                      /\ active'[SessionOf[q]].run = q =>
                             server'[t].gen # current' /\ active'[SessionOf[q]].gen # server'[t].gen
    BY DEF LateInv
  <2>1. Late(t)
    BY DEF Late, StartQueued, Queued
  <2>2. server[t].phase # "none" /\ server[t].gen # NoGeneration
    <3>1. server[t].phase # "none"
      BY <2>1 DEF Late, StartQueued, GensInv
    <3> QED
      BY <1>0, <3>1 DEF EventsInv, Turns, NoGeneration, Generations
  <2>3. SessionOf[t] = SessionOf[r] => server[t].gen # current
    <3>1. StartQueued(t) => Starting(t)
      BY DEF StartQueued, Queued, Starting
    <3> QED
      BY <2>1, <3>1 DEF Late, Starting
  <2>4. CASE q = r
    BY <2>2, <2>3, <2>4
  <2>5. CASE q # r
    <3>1. active'[SessionOf[q]].run = q => active'[SessionOf[q]] = active[SessionOf[q]]
      BY <1>3, <2>5
    <3> QED
      BY <1>1, <2>1, <2>5, <3>1 DEF LateInv
  <2> QED
    BY <2>4, <2>5
<1>6. \A u \in Turns : Past(u) => u # r /\ Past(u)'
  <2> SUFFICES ASSUME NEW u \in Turns, Past(u) PROVE u # r /\ Past(u)'
    OBVIOUS
  <2>1. u # r /\ u \in Runs
    BY DEF Turns
  <2>2. pc'[u] = pc[u]
    BY <1>1, <2>1
  <2> QED
    BY <1>2, <2>1, <2>2 DEF Past
<1>7. PersistInv'
  <2>1. ASSUME NEW q \in Tasks, pc'[q] = "persist", NEW u \in Runs, u = job[q].turn
        PROVE  /\ q \in {u, Pump} /\ job'[q].run = u /\ job'[q].gen = server'[u].gen
               /\ server'[u].phase # "none"
               /\ pc'[u] \in {"turnWait", "persist", "done"}
               /\ pendingStart'[SessionOf[u]].run # u
               /\ projected'[u] = NoGeneration
               /\ active'[SessionOf[u]].run \in {u, NoRun}
               /\ active'[SessionOf[u]].run = u => /\ active'[SessionOf[u]].gen = job'[q].gen
                                                   /\ route'[SessionOf[u]] = job'[q].gen
                                                   /\ active'[SessionOf[u]].turn = NoRun
               /\ \A v \in Runs : Busy(v)' /\ SessionOf[v] = SessionOf[u] => v = u
               /\ \A v \in Tasks : pc'[v] = "persist" /\ job'[v].turn = u => v = q
    <3>1. pc[q] = "persist" /\ job'[q] = job[q]
      BY <1>2, <2>1
    <3>2. SessionOf[u] # SessionOf[r]
      <4>1. \E p \in Tasks : pc[p] = "persist" /\ job[p].turn = u
        BY <2>1, <3>1
      <4>2. Starting(u)
        BY <4>1 DEF Starting
      <4> QED
        BY <4>2
    <3>3. active'[SessionOf[u]] = active[SessionOf[u]] /\ pc'[u] = pc[u]
      BY <1>1, <3>2
    <3>4. \A v \in Runs : Busy(v)' /\ SessionOf[v] = SessionOf[u] => Busy(v)
      BY <1>1, <3>2
    <3> QED
      BY <1>2, <2>1, <3>1, <3>3, <3>4 DEF PersistInv
  <2>2. \A q \in Tasks : pc[q] = "persist" => job[q].turn \in Runs
    BY DEF TypeInv, JobsInv, Turns
  <2>3. job' = job
    OBVIOUS
  <2> HIDE DEF TurnAssumption
  <2> QED
    BY <1>2, <2>1, <2>2, <2>3 DEF PersistInv
<1>8. LiveInv'
  <2>1. ASSUME NEW s \in Sessions, active'[s].turn # NoRun
        PROVE  /\ active'[s].turn = active'[s].run
               /\ Past(active[s].turn)'
               /\ active'[s].gen = server'[active'[s].turn].gen /\ server'[active'[s].turn].phase # "none"
               /\ route'[s] = active'[s].gen
    <3>1. active'[s] = active[s] /\ active[s].turn \in Turns
      BY <1>0, <1>3, <2>1 DEF MapsTypeOK, ActiveType, MaybeRun, Turns
    <3>2. \A u \in Turns : u = active[s].turn => Past(u)
      BY <2>1, <3>1 DEF LiveInv
    <3>3. ASSUME NEW u \in Turns, u = active[s].turn, Past(u)' PROVE Past(active[s].turn)'
      BY <3>1, <3>3 DEF Past
    <3> QED
      BY <1>6, <2>1, <3>1, <3>2, <3>3 DEF LiveInv
  <2>2. ASSUME NEW u \in Turns, projected'[u] # NoGeneration
        PROVE  /\ Past(u)'
               /\ projected'[u] = server'[u].gen
               /\ server'[u].phase # "none"
               /\ active'[SessionOf[u]].run = u => active'[SessionOf[u]].turn = u
    <3>1. Past(u) /\ u \in Runs
      BY <2>2 DEF LiveInv, Turns
    <3>2. active'[SessionOf[u]].run = u => active'[SessionOf[u]] = active[SessionOf[u]]
      BY <1>3, <1>6, <3>1
    <3> QED
      BY <1>6, <2>2, <3>1, <3>2 DEF LiveInv
  <2>3. ASSUME NEW q \in Runs, active'[SessionOf[q]].run = q, pc'[q] \in {"interrupting", "done"}
        PROVE  active'[SessionOf[q]].turn = q
    <3>1. CASE q = r
      BY <2>3, <3>1
    <3>2. CASE q # r
      <4>1. active'[SessionOf[q]] = active[SessionOf[q]]
        BY <1>3, <2>3, <3>2
      <4> QED
        BY <1>1, <2>3, <3>2, <4>1 DEF LiveInv
    <3> QED
      BY <3>1, <3>2
  <2> HIDE DEF TurnAssumption
  <2> QED
    BY <2>1, <2>2, <2>3 DEF LiveInv
<1> HIDE DEF TurnAssumption
<1> QED
    BY <1>4, <1>5, <1>6, <1>7, <1>8

\* Where a run is before its turn is asked for.
Preparing ==
    {"prepare", "status", "resume", "resumed", "threadStart", "bind", "threadStarted", "ready", "turnStart"}

\* A run on its way to turn/start: its turn does not exist yet and its session has no
\* known turn.
Advances(r) ==
    /\ SessionOf[r] \in Sessions /\ r # NoRun /\ r # Pump
    /\ pc[r] \in Preparing
    /\ Busy(r) /\ ~Past(r) /\ server[r].phase = "none" /\ projected[r] = NoGeneration
    /\ active[SessionOf[r]].run \in {r, NoRun} /\ active[SessionOf[r]].turn = NoRun
    /\ \A q \in Runs : Busy(q) /\ SessionOf[q] = SessionOf[r] => q = r
    /\ \A p \in Tasks : pc[p] = "persist" => SessionOf[job[p].turn] # SessionOf[r]
    /\ \A p \in Tasks \ {r} : pc'[p] = pc[p] /\ job'[p] = job[p]
    /\ pc'[r] \in Preparing \cup {"turnWait"}
    /\ job'[r].gen \in {job[r].gen, current}
    /\ \A s \in Sessions \ {SessionOf[r]} : /\ active'[s] = active[s] /\ route'[s] = route[s]
                                            /\ pendingStart'[s] = pendingStart[s] /\ loaded'[s] = loaded[s]
    /\ active'[SessionOf[r]].run = active[SessionOf[r]].run
    /\ active'[SessionOf[r]].turn = NoRun
    /\ active'[SessionOf[r]].gen \in {active[SessionOf[r]].gen, current}
    /\ active[SessionOf[r]].run = NoRun => active'[SessionOf[r]] = NoActive
    /\ \A t \in Turns \ {r} : server'[t] = server[t]
    /\ UNCHANGED <<current, projected, events>>
    /\ \/ /\ pc'[r] \in Preparing \ {"turnStart"}
          /\ pc[r] # "turnStart"
          /\ UNCHANGED <<pendingStart, server>>
       \/ /\ pc'[r] = "turnStart"
          /\ job'[r].gen = current
          /\ active[SessionOf[r]].run = r => active'[SessionOf[r]].gen = current
          /\ pendingStart'[SessionOf[r]] = [run |-> r, gen |-> current]
          /\ UNCHANGED server
       \/ /\ pc[r] = "turnStart" /\ pc'[r] = "turnWait"
          /\ current \in loaded[SessionOf[r]]
          /\ server'[r].gen = current /\ server'[r].phase = "accepted"
          /\ UNCHANGED <<active, job, pendingStart>>

\* What a step of a run before turn/start is accepted changes.
LEMMA AdvancesFacts ==
    ASSUME TurnAssumption, TypeInv, RunInv, PersistInv, LiveInv, NEW r \in Runs,
           Prepares(r), ~BeginRun(r)
    PROVE  Advances(r)
<1> USE TurnAssumption DEF TurnAssumption
<1> DEFINE s == SessionOf[r]
<1>0. /\ MapsTypeOK /\ TasksTypeOK /\ OutsideTypeOK
      /\ r \in Tasks /\ r \in Turns /\ s \in Sessions /\ r # NoRun /\ r # Pump
    BY TypeParts DEF TypeInv, Tasks, Turns
<1>1. pc[r] \in Preparing
    BY DEF Prepares, Prepare, ReadStatus, LoadThread, BindThread, RecordResumed, InsertStart, SendTurnStart,
           Preparing
<1>2. Busy(r) /\ ~Past(r)
    BY <1>1 DEF Preparing, Busy, Past
<1>3. /\ server[r].phase = "none"
      /\ active[s].run \in {r, NoRun}
      /\ \A q \in Runs : Busy(q) /\ SessionOf[q] = s => q = r
    BY <1>1, <1>2 DEF RunInv, Preparing
<1>4. active[s].turn = NoRun /\ projected[r] = NoGeneration
    BY <1>0, <1>2, <1>3 DEF LiveInv
<1>5. ASSUME NEW p \in Tasks, pc[p] = "persist" PROVE SessionOf[job[p].turn] # s
  <2>1. SessionOf[job[p].turn] = s => r = job[p].turn
    BY <1>2, <1>5 DEF PersistInv
  <2>2. pc[job[p].turn] \in {"turnWait", "persist", "done"}
    BY <1>5 DEF PersistInv
  <2> QED
    BY <1>1, <2>1, <2>2 DEF Preparing
<1>6. active[s].run = NoRun => active[s] = NoActive
    BY <1>0 DEF RunInv
<1>7. UNCHANGED <<current, projected, events>>
    BY DEF Prepares, Prepare, ReadStatus, LoadThread, BindThread, RecordResumed, InsertStart, SendTurnStart,
           maps, transportVars, outside
<1> DEFINE New ==
        /\ \A p \in Tasks \ {r} : pc'[p] = pc[p] /\ job'[p] = job[p]
        /\ pc'[r] \in Preparing \cup {"turnWait"}
        /\ job'[r].gen \in {job[r].gen, current}
        /\ \A u \in Sessions \ {s} : /\ active'[u] = active[u] /\ route'[u] = route[u]
                                     /\ pendingStart'[u] = pendingStart[u] /\ loaded'[u] = loaded[u]
        /\ active'[s].run = active[s].run
        /\ active'[s].turn = NoRun
        /\ active'[s].gen \in {active[s].gen, current}
        /\ active[s].run = NoRun => active'[s] = NoActive
        /\ \A t \in Turns \ {r} : server'[t] = server[t]
        /\ \/ /\ pc'[r] \in Preparing \ {"turnStart"}
              /\ pc[r] # "turnStart"
              /\ UNCHANGED <<pendingStart, server>>
           \/ /\ pc'[r] = "turnStart"
              /\ job'[r].gen = current
              /\ active[s].run = r => active'[s].gen = current
              /\ pendingStart'[s] = [run |-> r, gen |-> current]
              /\ UNCHANGED server
           \/ /\ pc[r] = "turnStart" /\ pc'[r] = "turnWait"
              /\ current \in loaded[s]
              /\ server'[r].gen = current /\ server'[r].phase = "accepted"
              /\ UNCHANGED <<active, job, pendingStart>>
<1>8. ASSUME Prepare(r) PROVE New
    BY <1>0, <1>4, <1>6, <1>8 DEF Prepare, Goto, TasksTypeOK, Preparing, maps, transportVars, outside
<1>9. ASSUME LoadThread(r) PROVE New
    BY <1>0, <1>4, <1>6, <1>9 DEF LoadThread, Goto, TasksTypeOK, OutsideTypeOK, Preparing, maps
<1>10. ASSUME BindThread(r) PROVE New
    BY <1>0, <1>4, <1>6, <1>10 DEF BindThread, Goto, TasksTypeOK, Preparing, outside
<1>11. ASSUME RecordResumed(r) PROVE New
    BY <1>0, <1>4, <1>6, <1>11 DEF RecordResumed, Goto, TasksTypeOK, MapsTypeOK, Preparing, outside
<1>a. ASSUME Adopt(r, current)
      PROVE  /\ \A u \in Sessions \ {s} : active'[u] = active[u]
             /\ active'[s].run = active[s].run
             /\ active'[s].turn = NoRun
             /\ active'[s].gen \in {active[s].gen, current}
             /\ active[s].run = r => active'[s].gen = current
             /\ active[s].run = NoRun => active'[s] = NoActive
    BY <1>0, <1>4, <1>6, <1>a DEF Adopt, Owns, MapsTypeOK, ActiveType
<1>b. ASSUME job' = [job EXCEPT ![r].gen = current]
      PROVE  job'[r].gen = current /\ \A p \in Tasks \ {r} : job'[p] = job[p]
    BY <1>0, <1>b DEF TasksTypeOK, JobType
<1>12. ASSUME ReadStatus(r) PROVE New
  <2>1. /\ Adopt(r, current) /\ job' = [job EXCEPT ![r].gen = current]
        /\ \A u \in Sessions \ {s} : route'[u] = route[u]
        /\ pc'[r] \in Preparing \ {"turnStart"} /\ \A p \in Tasks \ {r} : pc'[p] = pc[p]
        /\ pc[r] # "turnStart" /\ UNCHANGED <<pendingStart, server, loaded>>
    BY <1>0, <1>12 DEF ReadStatus, Goto, TasksTypeOK, MapsTypeOK, Preparing, outside
  <2> QED
    BY <1>a, <1>b, <2>1
<1>13. ASSUME InsertStart(r) PROVE New
  <2>1. /\ Adopt(r, current) /\ job' = [job EXCEPT ![r].gen = current]
        /\ UNCHANGED <<route, server, loaded>>
        /\ pc'[r] = "turnStart" /\ \A p \in Tasks \ {r} : pc'[p] = pc[p]
        /\ pendingStart'[s] = [run |-> r, gen |-> current]
        /\ \A u \in Sessions \ {s} : pendingStart'[u] = pendingStart[u]
    BY <1>0, <1>13 DEF InsertStart, Goto, TasksTypeOK, MapsTypeOK, outside
  <2>2. "turnStart" \in Preparing
    BY DEF Preparing
  <2> QED
    BY <1>a, <1>b, <2>1, <2>2
<1>14. ASSUME SendTurnStart(r) PROVE New
  <2>1. /\ UNCHANGED <<active, job, pendingStart, route, loaded>>
        /\ pc[r] = "turnStart" /\ pc'[r] = "turnWait" /\ \A p \in Tasks \ {r} : pc'[p] = pc[p]
        /\ current \in loaded[s]
        /\ server'[r].gen = current /\ server'[r].phase = "accepted"
        /\ \A t \in Turns \ {r} : server'[t] = server[t]
    BY <1>0, <1>14 DEF SendTurnStart, Goto, TasksTypeOK, OutsideTypeOK, maps
  <2> QED
    BY <1>4, <1>6, <2>1
<1> HIDE DEF New
<1>15. New
    BY <1>8, <1>9, <1>10, <1>11, <1>12, <1>13, <1>14 DEF Prepares
<1> QED
    BY <1>0, <1>1, <1>2, <1>3, <1>4, <1>5, <1>7, <1>15 DEF Advances, New

\* A run on its way to turn/start keeps the owners.
LEMMA AdvancesOwners ==
    ASSUME TurnAssumption, TypeInv, GensInv, RunInv, LateInv, PersistInv, LiveInv,
           NEW r \in Runs, Advances(r)
    PROVE  /\ RunInv' /\ LateInv' /\ PersistInv' /\ LiveInv'
           /\ \A u \in Turns : Past(u) => Past(u)'
<1> USE TurnAssumption DEF TurnAssumption, Advances
<1>0. MapsTypeOK
    BY TypeParts DEF TypeInv
<1>1. /\ \A q \in Runs \ {r} : pc'[q] = pc[q] /\ job'[q] = job[q] /\ (Busy(q)' <=> Busy(q))
      /\ Busy(r)'
    BY DEF Busy, Tasks, Preparing
<1>2. \A p \in Tasks : pc'[p] = "persist" => p # r /\ pc[p] = "persist" /\ job'[p] = job[p]
    BY DEF Preparing
<1>3. \A s \in Sessions : /\ active'[s].run = active[s].run
                          /\ active'[s].turn # NoRun => active'[s] = active[s]
                          /\ s # SessionOf[r] => active'[s] = active[s] /\ route'[s] = route[s]
    OBVIOUS
<1>4. RunInv'
  <2>1. ASSUME NEW s \in Sessions
        PROVE  /\ active'[s].run = NoRun => active'[s] = NoActive
               /\ active'[s].run # NoRun => SessionOf[active'[s].run] = s /\ pc'[active'[s].run] # "idle"
    <3>1. active[s].run \in MaybeRun /\ active'[s].run = active[s].run
      BY <1>0, <1>3 DEF MapsTypeOK, ActiveType
    <3>2. active[s].run = NoRun => active'[s] = NoActive
      BY <1>3 DEF RunInv
    <3>3. pc'[r] # "idle"
      BY DEF Preparing
    <3> QED
      BY <1>1, <3>1, <3>2, <3>3 DEF RunInv, MaybeRun
  <2>2. ASSUME NEW s \in Sessions
        PROVE  /\ pendingStart'[s].run = NoRun => pendingStart'[s] = NoStart
               /\ pendingStart'[s].run # NoRun =>
                      /\ SessionOf[pendingStart'[s].run] = s
                      /\ pc'[pendingStart'[s].run] \in {"turnStart", "turnWait"}
                      /\ pendingStart'[s].gen = job'[pendingStart'[s].run].gen
    <3>1. pendingStart[s].run \in MaybeRun
      BY <1>0 DEF MapsTypeOK, StartType
    <3>2. CASE s = SessionOf[r] /\ pc'[r] = "turnStart"
      BY <3>2
    <3>3. CASE ~(s = SessionOf[r] /\ pc'[r] = "turnStart")
      <4>1. pendingStart'[s] = pendingStart[s]
        BY <3>3 DEF Preparing
      <4>2. ASSUME pendingStart[s].run = r
            PROVE  pc[r] = "turnStart" /\ pc'[r] = "turnWait" /\ job' = job
        BY <3>1, <3>3, <4>2 DEF RunInv, Preparing, MaybeRun
      <4> QED
        BY <1>1, <3>1, <4>1, <4>2 DEF RunInv, MaybeRun
    <3> QED
      BY <3>2, <3>3
  <2>3. ASSUME NEW q \in Runs
        PROVE  /\ pc'[q] \in {"turnStart", "turnWait"} /\ active'[SessionOf[q]].run = q =>
                    active'[SessionOf[q]].gen = job'[q].gen
               /\ pc'[q] = "turnStart" /\ current' \in loaded'[SessionOf[q]] => current' = job'[q].gen
               /\ pc'[q] = "turnWait" => server'[q].gen = job'[q].gen /\ server'[q].phase # "none"
               /\ server'[q].phase # "none" => pc'[q] \in {"turnWait", "persist", "interrupting", "done"}
               /\ pc'[q] = "idle" => job'[q].gen = NoGeneration
    <3>1. CASE q = r
      <4>1. CASE pc'[r] = "turnWait"
        <5>1. pc[r] = "turnStart" /\ current \in loaded[SessionOf[r]] /\ job' = job /\ active' = active
              /\ server'[r].gen = current /\ server'[r].phase = "accepted"
          BY <4>1 DEF Preparing
        <5>2. current = job[r].gen
          BY <5>1 DEF RunInv
        <5>3. active[SessionOf[r]].run = r => active[SessionOf[r]].gen = job[r].gen
          BY <5>1 DEF RunInv
        <5> QED
          BY <3>1, <4>1, <5>1, <5>2, <5>3
      <4>2. CASE pc'[r] = "turnStart"
        BY <3>1, <4>2
      <4>3. CASE pc'[r] \in Preparing \ {"turnStart"}
        BY <3>1, <4>3 DEF Preparing
      <4> QED
        BY <4>1, <4>2, <4>3
    <3>2. CASE q # r
      <4>1. active[SessionOf[q]].run = q => active'[SessionOf[q]] = active[SessionOf[q]]
        BY <1>3, <3>2
      <4>2. pc[q] = "turnStart" => SessionOf[q] # SessionOf[r]
        BY <3>2 DEF Busy
      <4>3. server'[q] = server[q]
        BY <3>2 DEF Turns
      <4> QED
        BY <1>1, <1>3, <3>2, <4>1, <4>2, <4>3 DEF RunInv
    <3> QED
      BY <3>1, <3>2
  <2>4. /\ \A q, v \in Runs : Busy(q)' /\ Busy(v)' /\ SessionOf[q] = SessionOf[v] => q = v
        /\ \A q \in Runs : Busy(q)' => active'[SessionOf[q]].run \in {q, NoRun}
    BY <1>1, <1>3 DEF RunInv
  <2> HIDE DEF TurnAssumption
  <2> QED
    BY <2>1, <2>2, <2>3, <2>4 DEF RunInv
<1>5. LateInv'
  <2> SUFFICES ASSUME NEW t \in Runs, NEW q \in Runs, q # t, SessionOf[q] = SessionOf[t], Late(t)'
               PROVE  /\ Busy(q)' => server'[t].gen # current' /\ job'[q].gen # server'[t].gen
                      /\ active'[SessionOf[q]].run = q =>
                             server'[t].gen # current' /\ active'[SessionOf[q]].gen # server'[t].gen
    BY DEF LateInv
  <2>1. CASE t = r
    BY <1>1, <1>3, <2>1
  <2>2. CASE t # r
    <3>1. Late(t) /\ server'[t] = server[t]
      BY <2>2 DEF Late, StartQueued, Queued, Turns
    <3>2. CASE q = r
      <4>1. server[t].gen # current /\ job[r].gen # server[t].gen
        BY <3>1, <3>2 DEF LateInv
      <4>2. active[SessionOf[r]].run = r => active[SessionOf[r]].gen # server[t].gen
        BY <3>1, <3>2 DEF LateInv
      <4> QED
        BY <1>3, <3>1, <3>2, <4>1, <4>2
    <3>3. CASE q # r
      <4>1. active'[SessionOf[q]].run = q => active'[SessionOf[q]] = active[SessionOf[q]]
        BY <1>3, <3>3
      <4> QED
        BY <1>1, <3>1, <3>3, <4>1 DEF LateInv
    <3> QED
      BY <3>2, <3>3
  <2> QED
    BY <2>1, <2>2
<1>6. \A u \in Turns : Past(u) => u # r /\ Past(u)'
  <2> SUFFICES ASSUME NEW u \in Turns, Past(u) PROVE u # r /\ Past(u)'
    OBVIOUS
  <2>1. u # r /\ u \in Runs
    BY DEF Turns
  <2>2. pc'[u] = pc[u]
    BY <1>1, <2>1
  <2>3. pendingStart'[SessionOf[u]] = pendingStart[SessionOf[u]] \/ pendingStart'[SessionOf[u]].run = r
    BY <2>1 DEF Preparing
  <2> QED
    BY <1>2, <2>1, <2>2, <2>3 DEF Past
<1>7. PersistInv'
  <2>1. ASSUME NEW q \in Tasks, pc'[q] = "persist", NEW u \in Runs, u = job[q].turn
        PROVE  /\ q \in {u, Pump} /\ job'[q].run = u /\ job'[q].gen = server'[u].gen
               /\ server'[u].phase # "none"
               /\ pc'[u] \in {"turnWait", "persist", "done"}
               /\ pendingStart'[SessionOf[u]].run # u
               /\ projected'[u] = NoGeneration
               /\ active'[SessionOf[u]].run \in {u, NoRun}
               /\ active'[SessionOf[u]].run = u => /\ active'[SessionOf[u]].gen = job'[q].gen
                                                   /\ route'[SessionOf[u]] = job'[q].gen
                                                   /\ active'[SessionOf[u]].turn = NoRun
               /\ \A v \in Runs : Busy(v)' /\ SessionOf[v] = SessionOf[u] => v = u
               /\ \A v \in Tasks : pc'[v] = "persist" /\ job'[v].turn = u => v = q
    <3>1. pc[q] = "persist" /\ job'[q] = job[q] /\ SessionOf[u] # SessionOf[r]
      BY <1>2, <2>1
    <3>2. /\ active'[SessionOf[u]] = active[SessionOf[u]] /\ route'[SessionOf[u]] = route[SessionOf[u]]
          /\ pendingStart'[SessionOf[u]] = pendingStart[SessionOf[u]]
          /\ pc'[u] = pc[u] /\ server'[u] = server[u]
      BY <1>1, <1>3, <3>1 DEF Turns
    <3>3. \A v \in Runs : Busy(v)' /\ SessionOf[v] = SessionOf[u] => Busy(v)
      BY <1>1, <3>1
    <3> QED
      BY <1>2, <2>1, <3>1, <3>2, <3>3 DEF PersistInv
  <2>2. \A q \in Tasks : pc[q] = "persist" => job[q].turn \in Runs
    BY DEF TypeInv, JobsInv, Turns
  <2> HIDE DEF TurnAssumption
  <2> QED
    BY <1>2, <2>1, <2>2 DEF PersistInv
<1>8. LiveInv'
  <2>1. ASSUME NEW s \in Sessions, active'[s].turn # NoRun
        PROVE  /\ active'[s].turn = active'[s].run
               /\ Past(active[s].turn)'
               /\ active'[s].gen = server'[active'[s].turn].gen /\ server'[active'[s].turn].phase # "none"
               /\ route'[s] = active'[s].gen
    <3>1. active'[s] = active[s] /\ active[s].turn \in Turns /\ s # SessionOf[r]
      BY <1>0, <1>3, <2>1 DEF MapsTypeOK, ActiveType, MaybeRun, Turns
    <3>2. \A u \in Turns : u = active[s].turn => Past(u)
      BY <2>1, <3>1 DEF LiveInv
    <3>3. ASSUME NEW u \in Turns, u = active[s].turn, Past(u)' PROVE Past(active[s].turn)'
      BY <3>1, <3>3 DEF Past
    <3>4. server'[active[s].turn] = server[active[s].turn] /\ route'[s] = route[s]
      BY <1>3, <1>6, <3>1, <3>2
    <3> QED
      BY <1>6, <2>1, <3>1, <3>2, <3>3, <3>4 DEF LiveInv
  <2>2. ASSUME NEW u \in Turns, projected'[u] # NoGeneration
        PROVE  /\ Past(u)'
               /\ projected'[u] = server'[u].gen
               /\ server'[u].phase # "none"
               /\ active'[SessionOf[u]].run = u => active'[SessionOf[u]].turn = u
    <3>1. Past(u) /\ u \in Runs /\ u # r
      BY <1>6, <2>2 DEF LiveInv, Turns
    <3>2. active'[SessionOf[u]].run = u => active'[SessionOf[u]] = active[SessionOf[u]]
      BY <1>3, <3>1
    <3>3. server'[u] = server[u]
      BY <3>1
    <3> QED
      BY <1>6, <2>2, <3>1, <3>2, <3>3 DEF LiveInv
  <2>3. ASSUME NEW q \in Runs, active'[SessionOf[q]].run = q, pc'[q] \in {"interrupting", "done"}
        PROVE  active'[SessionOf[q]].turn = q
    <3>1. q # r
      BY <2>3 DEF Preparing
    <3>2. active'[SessionOf[q]] = active[SessionOf[q]]
      BY <1>3, <2>3, <3>1
    <3> QED
      BY <1>1, <2>3, <3>1, <3>2 DEF LiveInv
  <2> HIDE DEF TurnAssumption
  <2> QED
    BY <2>1, <2>2, <2>3 DEF LiveInv
<1> HIDE DEF TurnAssumption
<1> QED
    BY <1>4, <1>5, <1>6, <1>7, <1>8

\* Sessions, starts and turns keep their owners.
LEMMA OwnersStep ==
    ASSUME TurnAssumption, IInv, [Next]_vars, OneAtATime
    PROVE  /\ RunInv' /\ LateInv' /\ PersistInv' /\ LiveInv'
           /\ \A u \in Turns : Past(u) => Past(u)'
<1> USE DEF IInv
<1>1. CASE TransportStep \/ \E t \in Turns : ServerStep(t)
    BY <1>1, OuterSteps, OuterOwners
<1>2. ASSUME NEW r \in Runs, Prepares(r)
      PROVE  /\ RunInv' /\ LateInv' /\ PersistInv' /\ LiveInv'
             /\ \A u \in Turns : Past(u) => Past(u)'
  <2>1. CASE BeginRun(r)
    BY <2>1, BeginOwners
  <2>2. CASE ~BeginRun(r)
    BY <1>2, <2>2, AdvancesFacts, AdvancesOwners
  <2> QED
    BY <2>1, <2>2
<1>3. ASSUME NEW p \in Tasks, NEW t \in Turns, Takes(p, t)
      PROVE  /\ RunInv' /\ LateInv' /\ PersistInv' /\ LiveInv'
             /\ \A u \in Turns : Past(u) => Past(u)'
    BY <1>3, TakesOwners
<1>4. ASSUME NEW p \in Tasks, NEW t \in Turns, Publishes(p, t)
      PROVE  /\ RunInv' /\ LateInv' /\ PersistInv' /\ LiveInv'
             /\ \A u \in Turns : Past(u) => Past(u)'
    BY <1>4, PublishesOwners
<1>5. CASE Releases
    BY <1>5, ReleasesRun, ReleasesLate, ReleasesPast, ReleasesPersist, ReleasesLive
<1> QED
    BY <1>1, <1>2, <1>3, <1>4, <1>5, StepKinds

\* Generations keep growing.
LEMMA GensStep ==
    ASSUME TurnAssumption, TypeInv, GensInv, [Next]_vars,
           \A r \in Runs : pc[r] = "turnStart" => server[r].phase = "none"
    PROVE  GensInv'
<1>0. TransportTypeOK /\ OutsideTypeOK /\ EventsInv
    BY TypeParts DEF TypeInv
<1>1. CASE TransportStep \/ \E t \in Turns : ServerStep(t)
    BY <1>1, OuterSteps
<1>2. CASE ~(TransportStep \/ \E t \in Turns : ServerStep(t))
  <2>1. /\ UNCHANGED <<current, spawned, owed, announced>> /\ Queued' \subseteq Queued
        /\ \/ UNCHANGED <<server, loaded>>
           \/ \E r \in Runs : LoadThread(r) \/ SendTurnStart(r)
    <3>1. CASE UNCHANGED vars
      BY <3>1 DEF vars, outside, transportVars, Queued
    <3>2. ASSUME NEW r \in Runs, BeginRun(r) \/ RunStep(r)
          PROVE  /\ UNCHANGED <<current, spawned, owed, announced>> /\ Queued' \subseteq Queued
                 /\ \/ UNCHANGED <<server, loaded>>
                    \/ LoadThread(r) \/ SendTurnStart(r)
      <4>1. UNCHANGED <<transportVars, events>>
        BY <3>2
           DEF BeginRun, RunStep, RunFails, Prepare, ReadStatus, LoadThread, BindThread, RecordResumed,
               InsertStart, SendTurnStart, ReceiveTurn, outside
      <4>2. UNCHANGED <<server, loaded>> \/ LoadThread(r) \/ SendTurnStart(r)
        BY <3>2
           DEF BeginRun, RunStep, RunFails, Prepare, ReadStatus, BindThread, RecordResumed,
               InsertStart, ReceiveTurn, outside
      <4> QED
        BY <4>1, <4>2 DEF transportVars, Queued
    <3>3. ASSUME NEW p \in Tasks, WaitStep(p)
          PROVE  UNCHANGED <<transportVars, outside>>
      BY <3>3 DEF WaitStep, PublishTurn, PersistFails, InterruptAccepted, InterruptFails
    <3>4. ASSUME NEW i \in Stops, NEW s \in Sessions, Stop(i, s) PROVE UNCHANGED <<transportVars, outside>>
      BY <3>4 DEF Stop
    <3>5. CASE PumpStep
      <4>1. CASE UNCHANGED <<transportVars, outside>>
        BY <4>1 DEF transportVars, outside, Queued
      <4>2. ASSUME NEW kind, PumpReads(kind)
            PROVE  UNCHANGED <<transportVars, server, loaded>> /\ Queued' \subseteq Queued
        BY <1>0, <4>2, QueueTail DEF PumpReads, OutsideTypeOK
      <4> QED
        BY <3>5, <4>1, <4>2
           DEF PumpStep, PumpIgnores, HandleStarted, HandleCompleted, HandleClosed, CompleteTurn,
               TerminalUnsaved, TerminalDropped, transportVars
    <3>6. ASSUME NEW w \in watchdogs, WatchdogStep(w) PROVE UNCHANGED <<transportVars, outside>>
      BY <3>6 DEF WatchdogStep, WatchdogWakes, WatchdogChecks, WatchdogCancels, WatchdogAppendFails
    <3>7. CASE ShutdownStep
      BY <3>7 DEF ShutdownStep, CloseTransport, DrainRuns, FinishShutdown, Halt, transportVars, outside, Queued
    <3>8. UNCHANGED <<transportVars, outside>> =>
              UNCHANGED <<current, spawned, owed, announced, server, loaded>> /\ Queued' = Queued
      BY DEF transportVars, outside, Queued
    <3> QED
      BY <1>2, <3>1, <3>2, <3>3, <3>4, <3>5, <3>6, <3>7, <3>8 DEF Next
  <2>2. CASE UNCHANGED <<server, loaded>>
    BY <2>1, <2>2 DEF GensInv
  <2>3. ASSUME NEW r \in Runs, LoadThread(r) PROVE GensInv'
    <3>1. SessionOf[r] \in Sessions /\ loaded' = [loaded EXCEPT ![SessionOf[r]] = @ \cup {current}] /\ server' = server
      BY <2>3 DEF LoadThread, TurnAssumption
    <3>2. \A s \in Sessions : loaded'[s] \subseteq loaded[s] \cup {current}
      BY <1>0, <3>1 DEF OutsideTypeOK
    <3> QED
      BY <2>1, <3>1, <3>2 DEF GensInv
  <2>4. ASSUME NEW r \in Runs, SendTurnStart(r) PROVE GensInv'
    <3>1. /\ r \in Turns /\ loaded' = loaded /\ pc[r] = "turnStart"
          /\ server' = [server EXCEPT ![r] = [gen |-> current, phase |-> "accepted", reply |-> FALSE]]
      BY <2>4 DEF SendTurnStart, Turns
    <3>2. server[r].phase = "none"
      BY <3>1
    <3>3. \A e \in Queued : e.kind # "closed" => e.turn \in Turns /\ e.turn # r
      BY <1>0, <3>2 DEF GensInv, EventsInv
    <3>4. server'[r].gen = current /\ \A t \in Turns \ {r} : server'[t] = server[t]
      BY <1>0, <3>1 DEF OutsideTypeOK
    <3> QED
      BY <2>1, <3>1, <3>3, <3>4 DEF GensInv
  <2> QED
    BY <2>1, <2>2, <2>3, <2>4
<1> QED
    BY <1>1, <1>2

-----------------------------------------------------------------------------
(* Endings and interrupts *)

\* Nothing is ended, and at most an owner and its interrupt are given up.
Quiet ==
    /\ UNCHANGED <<projected, activeThread, watchdogs, outcome, lifecycle>>
    /\ \A s \in Sessions : /\ interrupt'[s] \in {interrupt[s], NoInterrupt}
                           /\ active'[s].turn # NoRun => active'[s] = active[s]
    /\ \A p \in Tasks : pc'[p] \in {"complete", "interrupting"} => pc'[p] = pc[p] /\ job'[p] = job[p]
    /\ pc[Pump] = "complete" => pc'[Pump] = "complete"
    /\ \A t \in Turns : server[t].phase # "none" =>
           server'[t].phase # "none" /\ server'[t].gen = server[t].gen

\* The steps that are quiet.
QuietStep ==
    \/ TransportStep
    \/ \E t \in Turns : ServerStep(t)
    \/ \E r \in Runs : BeginRun(r) \/ RunStep(r)
    \/ \E p \in Tasks : PersistFails(p)
    \/ PumpIgnores \/ CloseTransport \/ DrainRuns
    \/ UNCHANGED vars

\* They are.
LEMMA QuietSteps ==
    ASSUME TurnAssumption, IInv, OneAtATime, QuietStep
    PROVE  Quiet
<1> USE TurnAssumption DEF TurnAssumption, IInv
<1>0. MapsTypeOK /\ TasksTypeOK /\ JobsInv /\ OutsideTypeOK /\ Pump \in Tasks /\ Pump \notin Runs
    BY TypeParts DEF TypeInv, Tasks
<1>a. ASSUME UNCHANGED <<engine, server>> PROVE Quiet
    BY <1>a DEF Quiet, engine, maps, tasks, seen
<1>b. ASSUME NEW p \in Tasks, pc[p] # "complete", Refuse(p), UNCHANGED outside PROVE Quiet
  <2>1. CASE p \in Runs /\ Fail(p) /\ UNCHANGED FailUntouched
    <3>1. /\ pc'[p] = "done" /\ p # Pump
          /\ \A q \in Tasks \ {p} : pc'[q] = pc[q] /\ job'[q] = job[q]
      BY <1>0, <2>1, ReturnType DEF Fail
    <3>2. \A s \in Sessions : /\ interrupt'[s] \in {interrupt[s], NoInterrupt}
                              /\ active'[s] \in {active[s], NoActive}
      BY <1>0, <2>1 DEF Fail, MapsTypeOK
    <3>3. \A s \in Sessions : active'[s].turn # NoRun => active'[s] = active[s]
      BY <3>2 DEF NoActive
    <3>4. /\ UNCHANGED <<projected, activeThread, watchdogs, outcome, lifecycle, server>>
          /\ pc'[Pump] = pc[Pump]
          /\ \A q \in Tasks : pc'[q] \in {"complete", "interrupting"} => pc'[q] = pc[q] /\ job'[q] = job[q]
      BY <1>0, <1>b, <2>1, <3>1 DEF FailUntouched, outside
    <3> QED
      BY <3>2, <3>3, <3>4 DEF Quiet
  <2>2. CASE p = Pump /\ Return(p) /\ UNCHANGED <<pendingStart, active, interrupt, shown, FailUntouched>>
    <3>1. /\ pc'[p] = "idle"
          /\ \A q \in Tasks \ {p} : pc'[q] = pc[q] /\ job'[q] = job[q]
      BY <1>0, <2>2, ReturnType
    <3> QED
      BY <1>b, <2>2, <3>1 DEF Quiet, FailUntouched, outside
  <2> QED
    BY <1>b, <2>1, <2>2 DEF Refuse
<1>1. CASE TransportStep \/ \E t \in Turns : ServerStep(t)
  <2>1. Outer
    BY <1>1, OuterSteps
  <2>2. UNCHANGED <<engine>>
    BY <2>1 DEF Outer
  <2> QED
    BY <2>1, <2>2 DEF Quiet, Outer, engine, maps, tasks, seen
<1>2. ASSUME NEW r \in Runs, BeginRun(r) PROVE Quiet
  <2>1. Begun(r) /\ UNCHANGED <<projected, activeThread, watchdogs, outcome, lifecycle, interrupt, server, job>>
    BY <1>2, BeginFacts DEF BeginRun, seen, outside
  <2>2. \A p \in Tasks : pc'[p] \in {"complete", "interrupting"} => pc'[p] = pc[p]
    BY <2>1 DEF Begun
  <2>3. \A s \in Sessions : active'[s].turn # NoRun => active'[s] = active[s]
    BY <2>1 DEF Begun
  <2>4. pc'[Pump] = pc[Pump]
    BY <1>0, <2>1 DEF Begun
  <2> QED
    BY <2>1, <2>2, <2>3, <2>4 DEF Quiet
<1>3. ASSUME NEW r \in Runs, Prepares(r), ~BeginRun(r) PROVE Quiet
  <2>1. Advances(r)
    BY <1>3, AdvancesFacts
  <2>2. UNCHANGED <<projected, activeThread, watchdogs, outcome, lifecycle, interrupt>>
    BY <1>3 DEF Prepares, Prepare, ReadStatus, LoadThread, BindThread, RecordResumed, InsertStart, SendTurnStart,
                maps, seen
  <2>3. \A p \in Tasks : pc'[p] \in {"complete", "interrupting"} => pc'[p] = pc[p] /\ job'[p] = job[p]
    BY <2>1 DEF Advances, Preparing
  <2>4. \A s \in Sessions : active'[s].turn # NoRun => active'[s] = active[s]
    BY <2>1 DEF Advances
  <2>5. pc'[Pump] = pc[Pump]
    BY <1>0, <2>1 DEF Advances
  <2>6. \A t \in Turns : server[t].phase # "none" => server'[t] = server[t]
    BY <2>1 DEF Advances
  <2> QED
    BY <2>2, <2>3, <2>4, <2>5, <2>6 DEF Quiet
<1>4. ASSUME NEW r \in Runs, RunFails(r) PROVE Quiet
  <2>1. pc[r] # "complete" /\ Refuse(r) /\ UNCHANGED outside /\ r \in Tasks
    BY <1>0, <1>4 DEF RunFails, Refuse, JobsInv, Tasks
  <2> QED
    BY <1>b, <2>1
<1>5. ASSUME NEW r \in Runs, ReceiveTurn(r) PROVE Quiet
  <2>1. pc[r] = "turnWait" /\ UNCHANGED outside /\ r \in Tasks /\ Activate(r, job[r].gen, r)
    BY <1>5 DEF ReceiveTurn, Tasks
  <2>2. CASE Refuse(r)
    BY <1>b, <2>1, <2>2
  <2>3. CASE /\ Return(r) \/ /\ \E j : job' = [job EXCEPT ![r] = j]
                             /\ Goto(r, "persist")
             /\ UNCHANGED <<active, interrupt, shown, FailUntouched>>
    <3>1. /\ pc'[r] \in {"done", "persist"}
          /\ \A q \in Tasks \ {r} : pc'[q] = pc[q] /\ job'[q] = job[q]
      BY <1>0, <2>1, <2>3, ReturnType DEF Goto, TasksTypeOK
    <3> QED
      BY <1>0, <2>1, <2>3, <3>1 DEF Quiet, FailUntouched, outside
  <2> QED
    BY <2>1, <2>2, <2>3, Zenon DEF Activate
<1>6. ASSUME NEW p \in Tasks, PersistFails(p) PROVE Quiet
    BY <1>b, <1>6 DEF PersistFails
<1>7. CASE PumpIgnores
    BY <1>a, <1>7 DEF PumpIgnores, PumpReads
<1>8. CASE CloseTransport \/ DrainRuns
    BY <1>8 DEF Quiet, CloseTransport, DrainRuns, maps, seen, outside
<1>9. CASE UNCHANGED vars
    BY <1>a, <1>9 DEF vars, outside
<1> QED
    BY <1>1, <1>2, <1>3, <1>4, <1>5, <1>6, <1>7, <1>8, <1>9 DEF QuietStep, RunStep, Prepares

\* The steps that are not.
LoudStep ==
    \/ \E p \in Tasks : PublishTurn(p) \/ InterruptAccepted(p) \/ InterruptFails(p)
    \/ \E i \in Stops, s \in Sessions : Stop(i, s)
    \/ HandleStarted \/ HandleCompleted \/ HandleClosed
    \/ CompleteTurn \/ TerminalUnsaved \/ TerminalDropped
    \/ \E w \in watchdogs : WatchdogStep(w)
    \/ FinishShutdown

\* Every step is quiet or one of those.
LEMMA QuietOrLoud ==
    ASSUME [Next]_vars
    PROVE  QuietStep \/ LoudStep
<1>1. ASSUME NEW p \in Tasks, WaitStep(p) PROVE QuietStep \/ LoudStep
    BY <1>1 DEF WaitStep, QuietStep, LoudStep
<1>2. CASE PumpStep
    BY <1>2 DEF PumpStep, QuietStep, LoudStep
<1>3. CASE ShutdownStep
    BY <1>3 DEF ShutdownStep, QuietStep, LoudStep
<1> QED
    BY <1>1, <1>2, <1>3 DEF Next, QuietStep, LoudStep

\* A quiet step keeps the maps, endings and interrupts in agreement.
LEMMA QuietKeeps ==
    ASSUME TurnAssumption, IInv, Quiet, \A u \in Turns : Past(u) => Past(u)'
    PROVE  MapsAgree' /\ EndInv' /\ InterruptInv' /\ SentIsGuarded'
<1> USE TurnAssumption DEF TurnAssumption, IInv
<1>0. MapsTypeOK /\ TasksTypeOK /\ JobsInv /\ Pump \in Tasks /\ Pump \notin Runs
    BY TypeParts DEF TypeInv, Tasks
<1>1. MapsAgree'
    BY DEF Quiet, MapsAgree
<1>2. SentIsGuarded'
    BY DEF Quiet, SentIsGuarded, NoInterrupt
<1>3. InterruptInv'
  <2>1. \A s \in Sessions :
           /\ interrupt'[s].turn # NoRun => /\ interrupt'[s].run = interrupt'[s].turn
                                            /\ SessionOf[interrupt'[s].turn] = s
           /\ interrupt'[s].turn = NoRun => interrupt'[s].phase \in {"none", "PendingIdentity"}
    BY DEF Quiet, InterruptInv, NoInterrupt
  <2>2. ASSUME NEW p \in Tasks, pc'[p] = "interrupting", NEW t \in Turns, t = job[p].turn
        PROVE  /\ job'[p].run = t
               /\ job'[p].gen = server'[t].gen /\ server'[t].phase # "none"
               /\ Past(t)'
    BY <2>2 DEF Quiet, InterruptInv
  <2>3. \A p \in Tasks : pc'[p] = "interrupting" => job'[p] = job[p] /\ job[p].turn \in Turns
    BY <1>0 DEF Quiet, JobsInv
  <2> HIDE DEF TurnAssumption
  <2>4. ASSUME NEW p \in Tasks, pc'[p] = "interrupting"
        PROVE  Past(job[p].turn)' /\ job'[p].run = job'[p].turn
               /\ job'[p].gen = server'[job'[p].turn].gen /\ server'[job'[p].turn].phase # "none"
    <3>1. \A t \in Turns : t = job[p].turn => Past(t)
      BY <2>3, <2>4 DEF InterruptInv, Quiet
    <3>2. ASSUME NEW t \in Turns, t = job[p].turn, Past(t)' PROVE Past(job[p].turn)'
      BY <2>3, <2>4, <3>2 DEF Past
    <3> QED
      BY <2>2, <2>3, <2>4, <3>1, <3>2
  <2> QED
    BY <2>1, <2>4 DEF InterruptInv
<1>4. PumpEnds'
  <2> SUFFICES ASSUME pc'[Pump] = "complete", NEW t \in Turns, t = job[Pump].turn
               PROVE  /\ job'[Pump] = job[Pump]
                      /\ job[Pump].gen = server'[t].gen /\ server'[t].phase # "none"
                      /\ job[Pump].exact => job[Pump].owner
                      /\ job[Pump].owner => Past(t)'
                      /\ job[Pump].owner /\ ~job[Pump].exact => active'[SessionOf[t]].turn # t
    <3>1. pc'[Pump] = "complete" => job'[Pump] = job[Pump] /\ job[Pump].turn \in Turns
      BY <1>0 DEF Quiet, JobsInv
    <3>2. ASSUME NEW t \in Turns, t = job[Pump].turn, Past(t)', job'[Pump] = job[Pump] PROVE Past(job[Pump].turn)'
      BY <3>2 DEF Past
    <3> HIDE DEF TurnAssumption, IInv
    <3> QED
      BY <3>1, <3>2 DEF PumpEnds
  <2>1. pc[Pump] = "complete" /\ job'[Pump] = job[Pump]
    BY <1>0 DEF Quiet
  <2>2. SessionOf[t] \in Sessions /\ t # NoRun
    BY DEF Turns
  <2> QED
    BY <2>1, <2>2 DEF Quiet, EndInv, PumpEnds
<1>5. OneEnding'
    BY <1>0 DEF Quiet, EndInv, OneEnding
<1>6. WatchdogsKnow'
  <2> SUFFICES ASSUME NEW w \in watchdogs'
               PROVE  /\ w.run = w.turn
                      /\ w.gen = server'[w.turn].gen /\ server'[w.turn].phase # "none"
                      /\ Past(w.turn)'
    BY DEF WatchdogsKnow
  <2>1. w \in watchdogs /\ w.turn \in Turns
    BY <1>0 DEF Quiet, TasksTypeOK, WatchdogType
  <2> QED
    BY <2>1 DEF Quiet, EndInv, WatchdogsKnow
<1>7. EndedIsOver'
  <2> SUFFICES ASSUME NEW t \in Turns, outcome'[t] # "none"
               PROVE  /\ Past(t)'
                      /\ active'[SessionOf[t]].turn # t
                      /\ ~(pc'[Pump] = "complete" /\ job'[Pump].turn = t /\ job'[Pump].exact)
                      /\ \A w \in watchdogs' : w.stage = "append" => w.turn # t
    BY DEF EndedIsOver
  <2>1. SessionOf[t] \in Sessions /\ t # NoRun
    BY DEF Turns
  <2> QED
    BY <1>0, <2>1 DEF Quiet, EndInv, EndedIsOver
<1> QED
    BY <1>1, <1>2, <1>3, <1>4, <1>5, <1>6, <1>7 DEF EndInv

\* What a step does to the turn whose end it decides.
LEMMA MapsStep ==
    ASSUME TurnAssumption, IInv, LoudStep
    PROVE  MapsAgree'
<1> USE TurnAssumption DEF TurnAssumption, IInv
<1>0. MapsTypeOK /\ TasksTypeOK /\ JobsInv /\ OutsideTypeOK /\ Pump \in Tasks
    BY TypeParts DEF TypeInv, Tasks
<1>a. UNCHANGED <<active, projected, activeThread>> => MapsAgree'
    BY DEF MapsAgree
<1>b. \A s \in Sessions : active[s].turn # NoRun =>
          /\ active[s].turn \in Turns /\ active[s].turn = active[s].run
          /\ active[s].gen = server[active[s].turn].gen
          /\ SessionOf[active[s].turn] = s /\ route[s] = active[s].gen
          /\ projected[active[s].turn] = active[s].gen
          /\ activeThread[s] = [gen |-> active[s].gen, turn |-> active[s].turn]
    BY <1>0 DEF MapsAgree, LiveInv, RunInv, MapsTypeOK, ActiveType, MaybeRun, Turns
<1>1. ASSUME NEW p \in Tasks, PublishTurn(p) PROVE MapsAgree'
  <2> DEFINE t == job[p].turn
  <2>1. t \in Turns /\ Publishes(p, t) /\ Published(p, t)
    BY <1>1, PublishEffect, PublishesFacts
  <2>2. /\ activeThread'[SessionOf[t]] = [gen |-> server[t].gen, turn |-> t]
        /\ \A s \in Sessions \ {SessionOf[t]} : activeThread'[s] = activeThread[s]
    BY <1>0, <2>1 DEF Publishes, MapsTypeOK, Turns
  <2>3. ASSUME NEW s \in Sessions, active'[s].turn # NoRun, s # SessionOf[t]
        PROVE  /\ projected'[active'[s].turn] = active'[s].gen
               /\ activeThread'[s] = [gen |-> active'[s].gen, turn |-> active'[s].turn]
    <3> DEFINE u == active[s].turn
    <3>1. active'[s] = active[s] /\ activeThread'[s] = activeThread[s]
      BY <2>1, <2>2, <2>3 DEF Published
    <3>2. /\ u \in Turns /\ SessionOf[u] = s /\ projected[u] = active[s].gen
          /\ activeThread[s] = [gen |-> active[s].gen, turn |-> u]
      BY <1>b, <2>3, <3>1
    <3>3. projected'[u] = projected[u]
      BY <2>1, <2>3, <3>2 DEF Published
    <3> HIDE DEF u
    <3> QED
      BY <3>1, <3>2, <3>3 DEF u
  <2>4. active'[SessionOf[t]].turn # NoRun =>
               /\ projected'[active'[SessionOf[t]].turn] = active'[SessionOf[t]].gen
               /\ activeThread'[SessionOf[t]] =
                      [gen |-> active'[SessionOf[t]].gen, turn |-> active'[SessionOf[t]].turn]
    BY <2>1, <2>2 DEF Published, NoActive
  <2> QED
    BY <2>3, <2>4 DEF MapsAgree
<1>2. ASSUME NEW p \in Tasks, InterruptAccepted(p) \/ InterruptFails(p) PROVE MapsAgree'
    BY <1>a, <1>2 DEF InterruptAccepted, InterruptFails
<1>3. ASSUME NEW i \in Stops, NEW s \in Sessions, Stop(i, s) PROVE MapsAgree'
    BY <1>a, <1>3 DEF Stop
<1>4. CASE HandleStarted
  <2> DEFINE t == Head(events).turn
             g == Head(events).gen
             u == SessionOf[t]
  <2>1. /\ PumpReads("started") /\ Head(events).kind = "started" /\ route[u] = g
        /\ activeThread' = [activeThread EXCEPT ![u] = [gen |-> g, turn |-> t]]
        /\ UNCHANGED <<active, projected>>
    BY <1>4 DEF HandleStarted, PumpReads
  <2>2. t \in Turns /\ t \in Runs /\ u \in Sessions /\ Head(events) \in Queued
    BY <2>1, PumpReadsType DEF Turns
  <2>3. g = server[t].gen /\ Late(t)
    BY <2>1, <2>2 DEF GensInv, Late, StartQueued
  <2>4. active[u].turn # NoRun => active[u].turn = t /\ active[u].gen = g
    <3> SUFFICES ASSUME active[u].turn # NoRun PROVE active[u].turn = t /\ active[u].gen = g
      OBVIOUS
    <3> DEFINE r == active[u].run
    <3>1. r \in Runs /\ SessionOf[r] = u /\ active[u].turn = r /\ active[u].gen = g
      BY <1>b, <2>1, <2>2 DEF Turns
    <3>2. r # t => active[u].gen # server[t].gen
      BY <2>2, <2>3, <3>1 DEF LateInv
    <3> QED
      BY <2>3, <3>1, <3>2
  <2> HIDE DEF t, g, u
  <2>5. /\ activeThread'[u] = [gen |-> g, turn |-> t]
        /\ \A s \in Sessions \ {u} : activeThread'[s] = activeThread[s]
    BY <1>0, <2>1, <2>2 DEF MapsTypeOK
  <2> QED
    BY <1>b, <2>1, <2>4, <2>5 DEF MapsAgree
<1>5. CASE HandleCompleted
    BY <1>a, <1>5 DEF HandleCompleted, maps
<1>6. CASE HandleClosed
  <2> DEFINE g == Head(events).gen
  <2>1. /\ \A s \in Sessions : active'[s] = IF active[s].gen = g THEN NoActive ELSE active[s]
        /\ \A t \in Turns : projected'[t] = IF projected[t] = g THEN NoGeneration ELSE projected[t]
        /\ \A s \in Sessions : activeThread'[s] = IF activeThread[s].gen = g THEN NoThreadTurn ELSE activeThread[s]
    BY <1>6 DEF HandleClosed, Expired
  <2> HIDE DEF g
  <2> QED
    BY <1>b, <2>1 DEF MapsAgree, NoActive
<1>7. CASE CompleteTurn \/ TerminalUnsaved
  <2> DEFINE t == job[Pump].turn
             g == job[Pump].gen
             u == SessionOf[t]
             exact == job[Pump].exact
  <2>1. /\ t \in Turns /\ u \in Sessions /\ g = server[t].gen
        /\ exact => job[Pump].owner
        /\ job[Pump].owner /\ ~exact => active[u].turn # t
    BY <1>0, <1>7 DEF CompleteTurn, TerminalUnsaved, EndInv, PumpEnds, JobsInv, Turns
  <2>2. /\ active'[u] = (IF exact /\ active[u].gen = g /\ active[u].turn = t THEN NoActive ELSE active[u])
        /\ \A s \in Sessions \ {u} : active'[s] = active[s]
        /\ activeThread'[u] = (IF exact /\ activeThread[u] = [gen |-> g, turn |-> t]
                               THEN NoThreadTurn ELSE activeThread[u])
        /\ \A s \in Sessions \ {u} : activeThread'[s] = activeThread[s]
        /\ \A v \in Turns : v # t => projected'[v] = projected[v]
        /\ ~job[Pump].owner => projected' = projected
    <3>1. \E ending : EndExactTurn(g, t, exact, ending)
      BY <1>7 DEF CompleteTurn, TerminalUnsaved
    <3>2. projected' = projected \/ (job[Pump].owner /\ projected' = [projected EXCEPT ![t] = NoGeneration])
      BY <1>0, <1>7, <2>1 DEF CompleteTurn, TerminalUnsaved, MapsTypeOK
    <3>3. /\ active' = [active EXCEPT ![u] = IF exact /\ @.gen = g /\ @.turn = t THEN NoActive ELSE @]
          /\ activeThread' = [activeThread EXCEPT ![u] =
                 IF exact /\ @ = [gen |-> g, turn |-> t] THEN NoThreadTurn ELSE @]
      BY <3>1 DEF EndExactTurn
    <3> HIDE DEF t, g, u, exact
    <3> QED
      BY <1>0, <2>1, <3>2, <3>3 DEF MapsTypeOK
  <2>a. SessionOf[t] = u
    OBVIOUS
  <2> HIDE DEF t, g, u, exact
  <2>3. ASSUME NEW s \in Sessions, active'[s].turn # NoRun
        PROVE  active'[s] = active[s] /\ (active[s].turn = t => ~job[Pump].owner /\ ~exact)
    <3>1. active'[s] = active[s]
      BY <2>2, <2>3 DEF NoActive
    <3>2. ASSUME active[s].turn = t PROVE ~job[Pump].owner /\ ~exact
      <4>0. active[s].turn # NoRun
        BY <2>3, <3>1
      <4>1. s = u /\ active[u].gen = g
        <5>1. SessionOf[active[s].turn] = s /\ active[s].gen = server[active[s].turn].gen
          BY <1>b, <4>0
        <5> QED
          BY <2>1, <2>a, <3>2, <5>1
      <4>2. ~exact
        BY <2>2, <2>3, <3>2, <4>1 DEF NoActive
      <4> QED
        BY <2>1, <3>2, <4>1, <4>2
    <3> QED
      BY <3>1, <3>2
  <2>4. ASSUME NEW s \in Sessions, active'[s].turn # NoRun
        PROVE  activeThread'[s] = activeThread[s]
    <3>1. activeThread[s] = [gen |-> active[s].gen, turn |-> active[s].turn]
      BY <1>b, <2>3, <2>4
    <3>2. activeThread[s].turn = t => ~exact
      BY <2>3, <2>4, <3>1
    <3>3. CASE activeThread[s] = [gen |-> g, turn |-> t]
      BY <2>2, <3>2, <3>3
    <3>4. CASE activeThread[s] # [gen |-> g, turn |-> t]
      BY <2>2, <3>4
    <3> QED
      BY <3>3, <3>4
  <2> QED
    BY <1>b, <2>2, <2>3, <2>4 DEF MapsAgree
<1>8. CASE TerminalDropped
    BY <1>a, <1>8 DEF TerminalDropped, maps
<1>9. ASSUME NEW w \in watchdogs, WatchdogStep(w) PROVE MapsAgree'
  <2>1. CASE WatchdogWakes(w) \/ WatchdogChecks(w) \/ WatchdogAppendFails(w)
    BY <1>a, <2>1 DEF WatchdogWakes, WatchdogChecks, WatchdogAppendFails, maps
  <2>2. CASE WatchdogCancels(w)
    <3> DEFINE t == w.turn
               u == SessionOf[t]
    <3>1. /\ t \in Turns /\ u \in Sessions /\ w.run = t /\ w.gen = server[t].gen
      BY <1>0 DEF TasksTypeOK, WatchdogType, EndInv, WatchdogsKnow, Turns
    <3>2. /\ active'[u] = (IF active[u] = [run |-> w.run, gen |-> w.gen, turn |-> t] THEN NoActive ELSE active[u])
          /\ \A s \in Sessions \ {u} : active'[s] = active[s]
          /\ activeThread'[u] = (IF activeThread[u] = [gen |-> w.gen, turn |-> t]
                                 THEN NoThreadTurn ELSE activeThread[u])
          /\ \A s \in Sessions \ {u} : activeThread'[s] = activeThread[s]
          /\ \A v \in Turns : v # t => projected'[v] = projected[v]
      BY <1>0, <2>2, <3>1 DEF WatchdogCancels, MapsTypeOK
    <3>3. active[u].turn = t => active[u] = [run |-> w.run, gen |-> w.gen, turn |-> t]
      <4>1. active[u] \in ActiveType /\ t # NoRun
        BY <1>0, <3>1 DEF MapsTypeOK, Turns
      <4> HIDE DEF t, u
      <4>2. ASSUME active[u].turn = t PROVE active[u].run = w.run /\ active[u].gen = w.gen
        BY <1>b, <3>1, <4>1, <4>2
      <4> QED
        BY <4>1, <4>2 DEF ActiveType
    <3>a. SessionOf[t] = u
      OBVIOUS
    <3> HIDE DEF t, u
    <3>4. ASSUME NEW s \in Sessions, active'[s].turn # NoRun
          PROVE  active'[s] = active[s] /\ active[s].turn # t
      <4>1. active'[s] = active[s]
        BY <3>2, <3>4 DEF NoActive
      <4>2. ASSUME active[s].turn = t PROVE FALSE
        <5>1. s = u
          BY <1>b, <3>4, <3>a, <4>1, <4>2
        <5>2. active'[u] = NoActive
          BY <3>2, <3>3, <4>2, <5>1
        <5> QED
          BY <3>4, <5>1, <5>2 DEF NoActive
      <4> QED
        BY <4>1, <4>2
    <3>5. ASSUME NEW s \in Sessions, active'[s].turn # NoRun
          PROVE  activeThread'[s] = activeThread[s]
      <4>0. active[s].turn # NoRun /\ active[s].turn # t
        BY <3>4, <3>5
      <4>1. activeThread[s].turn # t
        <5>1. activeThread[s] = [gen |-> active[s].gen, turn |-> active[s].turn]
          BY <1>b, <4>0
        <5> QED
          BY <4>0, <5>1
      <4>2. activeThread[s] # [gen |-> w.gen, turn |-> t]
        BY <4>1
      <4> QED
        BY <3>2, <4>2
    <3> QED
      BY <1>b, <3>2, <3>4, <3>5 DEF MapsAgree
  <2> QED
    BY <1>9, <2>1, <2>2 DEF WatchdogStep
<1>10. CASE FinishShutdown
    BY <1>10 DEF FinishShutdown, MapsAgree, NoActive
<1> QED
    BY <1>1, <1>2, <1>3, <1>4, <1>5, <1>6, <1>7, <1>8, <1>9, <1>10 DEF LoudStep

\* A step that is not quiet leaves the app-server alone, and makes no turn live that
\* went by its start.
LEMMA LoudFacts ==
    ASSUME TurnAssumption, IInv, LoudStep
    PROVE  /\ UNCHANGED server
           /\ \A t \in Turns : Past(t) /\ active'[SessionOf[t]].turn = t => active[SessionOf[t]].turn = t
<1> USE TurnAssumption DEF TurnAssumption, IInv
<1>1. ASSUME Releases
      PROVE  /\ UNCHANGED server
             /\ \A t \in Turns : Past(t) /\ active'[SessionOf[t]].turn = t => active[SessionOf[t]].turn = t
    BY <1>1 DEF Releases, NoActive, Turns
<1>2. ASSUME NEW p \in Tasks, PublishTurn(p)
      PROVE  /\ UNCHANGED server
             /\ \A t \in Turns : Past(t) /\ active'[SessionOf[t]].turn = t => active[SessionOf[t]].turn = t
  <2> DEFINE u == job[p].turn
  <2>1. Published(p, u) /\ u \in Turns
    BY <1>2, PublishEffect, PublishesFacts
  <2>2. ~Past(u)
    BY <2>1 DEF Published, Past
  <2> HIDE DEF u
  <2>3. \A s \in Sessions : active'[s].turn = active[s].turn \/ active'[s].turn = u
    BY <2>1 DEF Published
  <2> QED
    BY <2>1, <2>2, <2>3 DEF Published, Turns
<1>3. CASE HandleStarted
    BY <1>3 DEF HandleStarted, PumpReads
<1>4. ASSUME NEW p \in Tasks, InterruptAccepted(p) \/ InterruptFails(p) PROVE Releases
  <2>1. \E q \in Tasks : PersistFails(q) \/ InterruptAccepted(q) \/ InterruptFails(q)
    BY <1>4
  <2> QED
    BY <2>1, ReleaseSteps
<1>5. CASE FinishShutdown
    BY <1>1, <1>5, ReleaseSteps DEF ShutdownStep
<1> QED
    BY <1>1, <1>2, <1>3, <1>4, <1>5, ReleaseSteps DEF LoudStep

\* The watchdogs there are after a step.
LEMMA WatchdogsStep ==
    ASSUME TurnAssumption, IInv, LoudStep, \A u \in Turns : Past(u) => Past(u)'
    PROVE  WatchdogsKnow'
<1> USE TurnAssumption DEF TurnAssumption, IInv, EndInv
<1>0. /\ TasksTypeOK /\ JobsInv /\ UNCHANGED server
      /\ \A w \in watchdogs : w.turn \in Turns
    BY TypeParts, LoudFacts DEF TypeInv, TasksTypeOK, WatchdogType
<1>1. ASSUME \A w \in watchdogs' : \/ \E v \in watchdogs : w.run = v.run /\ w.turn = v.turn /\ w.gen = v.gen
                                   \/ \E p \in Tasks : /\ pc[p] = "interrupting" /\ w.run = job[p].run
                                                       /\ w.turn = job[p].turn /\ w.gen = job[p].gen
      PROVE  WatchdogsKnow'
  <2> SUFFICES ASSUME NEW w \in watchdogs'
               PROVE  /\ w.run = w.turn
                      /\ w.gen = server'[w.turn].gen /\ server'[w.turn].phase # "none"
                      /\ Past(w.turn)'
    BY DEF WatchdogsKnow
  <2>1. /\ w.turn \in Turns /\ w.run = w.turn /\ Past(w.turn)
        /\ w.gen = server[w.turn].gen /\ server[w.turn].phase # "none"
    BY <1>0, <1>1 DEF WatchdogsKnow, InterruptInv, JobsInv
  <2> QED
    BY <1>0, <2>1
<1>2. watchdogs' \subseteq watchdogs => WatchdogsKnow'
    BY <1>1
<1>3. ASSUME NEW p \in Tasks, PublishTurn(p) \/ InterruptFails(p) PROVE watchdogs' \subseteq watchdogs
    BY <1>3 DEF PublishTurn, InterruptFails
<1>4. ASSUME NEW p \in Tasks, InterruptAccepted(p) PROVE WatchdogsKnow'
    BY <1>1, <1>4 DEF InterruptAccepted
<1>5. ASSUME NEW i \in Stops, NEW s \in Sessions, Stop(i, s) PROVE watchdogs' \subseteq watchdogs
    BY <1>5 DEF Stop
<1>6. HandleStarted \/ HandleCompleted \/ HandleClosed \/ CompleteTurn \/ TerminalUnsaved \/ TerminalDropped
          \/ FinishShutdown => watchdogs' \subseteq watchdogs
    BY DEF HandleStarted, HandleCompleted, HandleClosed, CompleteTurn, TerminalUnsaved, TerminalDropped,
           FinishShutdown, tasks
<1>7. ASSUME NEW w \in watchdogs, WatchdogStep(w) PROVE WatchdogsKnow'
  <2>1. ASSUME NEW stage, Become(w, stage) PROVE WatchdogsKnow'
    <3>1. w \in WatchdogType
      BY <1>0 DEF TasksTypeOK
    <3>2. [w EXCEPT !.stage = stage].run = w.run /\ [w EXCEPT !.stage = stage].turn = w.turn
          /\ [w EXCEPT !.stage = stage].gen = w.gen
      BY <3>1 DEF WatchdogType
    <3> QED
      BY <1>1, <2>1, <3>2 DEF Become
  <2>2. watchdogs' \subseteq watchdogs \/ \E stage : Become(w, stage)
    BY <1>7 DEF WatchdogStep, WatchdogWakes, WatchdogChecks, WatchdogCancels, WatchdogAppendFails
  <2> QED
    BY <1>2, <2>1, <2>2
<1> QED
    BY <1>2, <1>3, <1>4, <1>5, <1>6, <1>7 DEF LoudStep

\* Where the pump and the lock are after a step.
LEMMA PumpFrame ==
    ASSUME TurnAssumption, IInv, LoudStep
    PROVE  \/ HandleCompleted
           \/ /\ pc'[Pump] # "complete"
              /\ CompleteTurn \/ TerminalUnsaved \/ TerminalDropped \/ FinishShutdown
           \/ /\ pc'[Pump] = "complete" <=> pc[Pump] = "complete"
              /\ pc'[Pump] = "complete" => job'[Pump] = job[Pump]
              /\ ~(CompleteTurn \/ TerminalUnsaved \/ TerminalDropped \/ FinishShutdown)
<1> USE TurnAssumption DEF TurnAssumption
<1>0. TasksTypeOK /\ Pump \in Tasks
    BY TypeParts DEF IInv, TypeInv, Tasks
<1> DEFINE Same == /\ pc'[Pump] = "complete" <=> pc[Pump] = "complete"
                   /\ pc'[Pump] = "complete" => job'[Pump] = job[Pump]
           Ends == CompleteTurn \/ TerminalUnsaved \/ TerminalDropped \/ FinishShutdown
<1>1. Ends => pc'[Pump] # "complete"
  <2>1. CompleteTurn \/ TerminalUnsaved \/ TerminalDropped => Return(Pump)
    BY DEF CompleteTurn, TerminalUnsaved, TerminalDropped
  <2>2. Return(Pump) => pc'[Pump] # "complete"
    BY <1>0, ReturnType
  <2>3. FinishShutdown => pc'[Pump] # "complete"
    BY <1>0 DEF FinishShutdown, Goto, TasksTypeOK
  <2> QED
    BY <2>1, <2>2, <2>3
<1>2. ASSUME NEW p \in Tasks, pc[p] # "complete", Return(p) PROVE Same
    BY <1>0, <1>2, ReturnType
<1>3. ASSUME NEW p \in Tasks, NEW s, NEW g, NEW t, NEW owner, pc[p] # "complete", SendInterrupt(p, s, g, t, owner)
      PROVE  Same
    BY <1>0, <1>2, <1>3 DEF SendInterrupt, Goto, TasksTypeOK
<1>4. ASSUME NEW p \in Tasks, PublishTurn(p) \/ InterruptAccepted(p) \/ InterruptFails(p) PROVE Same
    BY <1>2, <1>3, <1>4, Zenon DEF PublishTurn, InterruptAccepted, InterruptFails
<1>5. ASSUME NEW i \in Stops, NEW s \in Sessions, Stop(i, s) PROVE Same
  <2>1. i \in Tasks /\ pc[i] # "complete"
    BY <1>5 DEF Stop, Tasks
  <2> QED
    BY <1>2, <1>3, <1>5, <2>1 DEF Stop
<1>6. CASE HandleStarted
    BY <1>0, <1>6 DEF HandleStarted, PumpReads, Goto, TasksTypeOK
<1>7. HandleClosed => Same
    BY DEF HandleClosed, tasks
<1>8. ASSUME NEW w \in watchdogs, WatchdogStep(w) PROVE Same
    BY <1>8 DEF WatchdogStep, WatchdogWakes, WatchdogChecks, WatchdogCancels, WatchdogAppendFails
<1> QED
    BY <1>1, <1>4, <1>5, <1>6, <1>7, <1>8 DEF LoudStep

\* Only one task or watchdog is writing an ending after a step.
LEMMA OneEndingStep ==
    ASSUME TurnAssumption, IInv, LoudStep
    PROVE  OneEnding'
<1> USE TurnAssumption DEF TurnAssumption, IInv, EndInv
<1>0. TasksTypeOK /\ Pump \in Tasks
    BY TypeParts DEF TypeInv, Tasks
<1> DEFINE Same == pc'[Pump] = "complete" <=> pc[Pump] = "complete"
<1>1. ASSUME UNCHANGED lifecycle, Same,
             \A w \in watchdogs' : w.stage = "append" => w \in watchdogs
      PROVE  OneEnding'
    BY <1>1 DEF OneEnding
<1>2. CASE HandleCompleted
  <2>1. lifecycle = "free" /\ lifecycle' = "pump" /\ pc'[Pump] = "complete" /\ watchdogs' = watchdogs
    BY <1>0, <1>2 DEF HandleCompleted, LifecycleFree, Goto, TasksTypeOK
  <2> QED
    BY <2>1 DEF OneEnding
<1>3. CASE CompleteTurn \/ TerminalUnsaved \/ TerminalDropped
  <2>1. /\ lifecycle' = "free" /\ pc[Pump] = "complete" /\ watchdogs' = watchdogs
        /\ Return(Pump)
    BY <1>3 DEF CompleteTurn, TerminalUnsaved, TerminalDropped
  <2>2. pc'[Pump] # "complete"
    BY <1>0, <2>1, ReturnType
  <2> QED
    BY <2>1, <2>2 DEF OneEnding
<1>4. CASE FinishShutdown
  <2>1. /\ lifecycle' = (IF lifecycle = "pump" THEN "free" ELSE lifecycle) /\ pc'[Pump] # "complete"
        /\ watchdogs' = watchdogs
    BY <1>0, <1>4 DEF FinishShutdown, Goto, TasksTypeOK
  <2> QED
    BY <2>1 DEF OneEnding
<1>5. CASE ~(HandleCompleted \/ CompleteTurn \/ TerminalUnsaved \/ TerminalDropped \/ FinishShutdown)
  <2>1. Same
    BY <1>5, PumpFrame
  <2>2. ASSUME NEW p \in Tasks, PublishTurn(p) \/ InterruptFails(p) PROVE UNCHANGED <<lifecycle, watchdogs>>
    BY <2>2 DEF PublishTurn, InterruptFails
  <2>3. ASSUME NEW p \in Tasks, InterruptAccepted(p) PROVE OneEnding'
    BY <1>1, <2>1, <2>3 DEF InterruptAccepted
  <2>4. ASSUME NEW i \in Stops, NEW s \in Sessions, Stop(i, s) PROVE UNCHANGED <<lifecycle, watchdogs>>
    BY <2>4 DEF Stop
  <2>5. HandleStarted \/ HandleClosed => UNCHANGED <<lifecycle, watchdogs>>
    BY DEF HandleStarted, HandleClosed, tasks
  <2>6. ASSUME NEW w \in watchdogs, WatchdogStep(w) PROVE OneEnding'
    <3>0. w \in WatchdogType
      BY <1>0 DEF TasksTypeOK
    <3>1. ASSUME NEW stage, Become(w, stage)
          PROVE  \A v \in watchdogs' : v.stage = "append" => (v \in watchdogs /\ v # w)
                                                              \/ (stage = "append" /\ v = [w EXCEPT !.stage = stage])
      BY <3>0, <3>1 DEF Become, WatchdogType
    <3>2. CASE WatchdogWakes(w)
      <4>1. UNCHANGED lifecycle /\ (watchdogs' \subseteq watchdogs \/ Become(w, "woken"))
        BY <3>2 DEF WatchdogWakes
      <4>2. \A v \in watchdogs' : v.stage = "append" => v \in watchdogs
        BY <3>1, <4>1
      <4> QED
        BY <1>1, <2>1, <4>1, <4>2
    <3>3. CASE WatchdogChecks(w)
      <4>1. lifecycle = "free"
        BY <3>3 DEF WatchdogChecks, LifecycleFree
      <4>2. CASE watchdogs' = watchdogs \ {w} /\ UNCHANGED lifecycle
        BY <1>1, <2>1, <4>2
      <4>3. CASE Become(w, "append") /\ lifecycle' = "watchdog"
        <5>1. pc[Pump] # "complete" /\ \A v \in watchdogs : v.stage # "append"
          BY <4>1 DEF OneEnding
        <5>2. \A v \in watchdogs' : v.stage = "append" => v = [w EXCEPT !.stage = "append"]
          BY <3>1, <4>3, <5>1
        <5> QED
          BY <2>1, <4>3, <5>1, <5>2 DEF OneEnding
      <4> QED
        BY <3>3, <4>2, <4>3 DEF WatchdogChecks
    <3>4. CASE WatchdogCancels(w) \/ WatchdogAppendFails(w)
      <4>1. w.stage = "append" /\ watchdogs' = watchdogs \ {w} /\ lifecycle' = "free"
        BY <3>4 DEF WatchdogCancels, WatchdogAppendFails
      <4>2. lifecycle = "watchdog" /\ pc[Pump] # "complete" /\ \A v \in watchdogs' : v.stage # "append"
        BY <4>1 DEF OneEnding
      <4> QED
        BY <2>1, <4>1, <4>2 DEF OneEnding
    <3> QED
      BY <2>6, <3>2, <3>3, <3>4 DEF WatchdogStep
  <2>7. UNCHANGED <<lifecycle, watchdogs>> => OneEnding'
    BY <1>1, <2>1
  <2> QED
    BY <1>5, <2>2, <2>3, <2>4, <2>5, <2>6, <2>7 DEF LoudStep
<1> QED
    BY <1>2, <1>3, <1>4, <1>5

\* The pump decides what a terminal ends from maps that agree.
LEMMA PumpEndsStep ==
    ASSUME TurnAssumption, IInv, LoudStep, \A u \in Turns : Past(u) => Past(u)'
    PROVE  PumpEnds'
<1> USE TurnAssumption DEF TurnAssumption, IInv, EndInv
<1>0. MapsTypeOK /\ TasksTypeOK /\ JobsInv /\ Pump \in Tasks /\ UNCHANGED server
    BY TypeParts, LoudFacts DEF TypeInv, Tasks
<1>1. ASSUME pc'[Pump] = "complete",
             NEW t \in Turns, t = job'[Pump].turn,
             /\ job'[Pump].gen = server[t].gen /\ server[t].phase # "none"
             /\ job'[Pump].exact => job'[Pump].owner
             /\ job'[Pump].owner => Past(t)
             /\ job'[Pump].owner /\ ~job'[Pump].exact => active[SessionOf[t]].turn # t
      PROVE  PumpEnds'
  <2>1. job'[Pump].owner /\ ~job'[Pump].exact => active'[SessionOf[t]].turn # t
    BY <1>1, LoudFacts
  <2>2. ASSUME Past(t)' PROVE Past(job[Pump].turn)'
    BY <1>1, <2>2 DEF Past
  <2> HIDE DEF TurnAssumption, IInv
  <2> QED
    BY <1>0, <1>1, <2>1, <2>2 DEF PumpEnds
<1>2. CASE HandleCompleted
  <2> DEFINE t == Head(events).turn
             g == Head(events).gen
             u == SessionOf[t]
  <2>1. /\ PumpReads("completed") /\ Head(events).kind = "completed" /\ UNCHANGED active
        /\ pc'[Pump] = "complete"
        /\ job'[Pump].turn = t /\ job'[Pump].gen = g
        /\ job'[Pump].owner = (projected[t] = g)
        /\ job'[Pump].exact = (activeThread[u] = [gen |-> g, turn |-> t]
                               /\ active[u].gen = g /\ active[u].turn = t)
    BY <1>0, <1>2 DEF HandleCompleted, PumpReads, Goto, TasksTypeOK, NoJob, maps
  <2>2. t \in Turns /\ u \in Sessions /\ t # NoRun /\ Head(events) \in Queued /\ g \in Generations
    BY <2>1, PumpReadsType DEF Turns, EventType
  <2>3. g = server[t].gen /\ server[t].phase # "none" /\ g # NoGeneration
    BY <2>1, <2>2 DEF GensInv, NoGeneration, Generations
  <2>4. active[u].turn = t => /\ projected[t] = active[u].gen
                              /\ activeThread[u] = [gen |-> active[u].gen, turn |-> t]
    BY <2>2 DEF MapsAgree
  <2>5. projected[t] = g => Past(t)
    BY <2>2, <2>3 DEF LiveInv
  <2> HIDE DEF t, g, u
  <2>6. u = SessionOf[t]
    BY DEF u, t
  <2>7. /\ job'[Pump].exact => job'[Pump].owner
        /\ job'[Pump].owner => Past(t)
        /\ job'[Pump].owner /\ ~job'[Pump].exact => active[SessionOf[t]].turn # t
    BY <2>1, <2>2, <2>4, <2>5, <2>6
  <2> QED
    BY <1>1, <2>1, <2>2, <2>3, <2>7
<1>3. CASE pc'[Pump] # "complete"
    BY <1>3 DEF PumpEnds
<1>4. CASE pc'[Pump] = "complete" /\ pc[Pump] = "complete" /\ job'[Pump] = job[Pump]
  <2>1. job[Pump].turn \in Turns
    BY <1>0, <1>4 DEF JobsInv
  <2> QED
    BY <1>1, <1>4, <2>1 DEF PumpEnds
<1> QED
    BY <1>2, <1>3, <1>4, PumpFrame

\* An ending that was shown stands.
LEMMA EndedStep ==
    ASSUME TurnAssumption, IInv, LoudStep, \A u \in Turns : Past(u) => Past(u)'
    PROVE  /\ EndedIsOver'
           /\ \A t \in Turns : outcome[t] # "none" => outcome'[t] = outcome[t]
<1> USE TurnAssumption DEF TurnAssumption, IInv, EndInv
<1>0. /\ MapsTypeOK /\ TasksTypeOK /\ SeenTypeOK /\ JobsInv /\ Pump \in Tasks
      /\ \A w \in watchdogs : w.turn \in Turns
    BY TypeParts DEF TypeInv, Tasks, TasksTypeOK, WatchdogType
<1> DEFINE Over(t) == /\ Past(t)
                      /\ active'[SessionOf[t]].turn # t
                      /\ ~(pc'[Pump] = "complete" /\ job'[Pump].turn = t /\ job'[Pump].exact)
                      /\ \A w \in watchdogs' : w.stage = "append" => w.turn # t
<1>1. ASSUME \A t \in Turns : outcome'[t] # "none" => Over(t)
      PROVE  EndedIsOver'
    BY <1>1 DEF EndedIsOver
<1>2. ASSUME NEW t \in Turns, outcome[t] # "none" PROVE active'[SessionOf[t]].turn # t
    BY <1>2, LoudFacts DEF EndedIsOver
<1>3. ASSUME UNCHANGED outcome, \A w \in watchdogs' : w.stage = "append" => w \in watchdogs,
             pc'[Pump] = "complete" => pc[Pump] = "complete" /\ job'[Pump] = job[Pump]
      PROVE  EndedIsOver'
    BY <1>1, <1>2, <1>3 DEF EndedIsOver
<1>4. CASE HandleCompleted
  <2> DEFINE v == Head(events).turn
  <2>1. /\ UNCHANGED <<outcome, active, watchdogs>>
        /\ job'[Pump].turn = v /\ (job'[Pump].exact => active[SessionOf[v]].turn = v)
    BY <1>0, <1>4 DEF HandleCompleted, seen, maps, NoJob, TasksTypeOK
  <2> HIDE DEF v
  <2>2. \A t \in Turns : outcome'[t] # "none" => Over(t)
    BY <2>1 DEF EndedIsOver
  <2> QED
    BY <1>1, <2>1, <2>2
<1>5. CASE CompleteTurn \/ TerminalUnsaved
  <2> DEFINE v == job[Pump].turn
             exact == job[Pump].exact
             u == SessionOf[v]
  <2>1. /\ pc[Pump] = "complete" /\ pc'[Pump] # "complete" /\ watchdogs' = watchdogs /\ v \in Turns /\ u \in Sessions
        /\ \E ending : EndExactTurn(job[Pump].gen, v, exact, ending)
        /\ lifecycle = "pump"
    <3>1. pc[Pump] = "complete" /\ watchdogs' = watchdogs /\ Return(Pump)
      BY <1>5 DEF CompleteTurn, TerminalUnsaved
    <3>2. \E ending : EndExactTurn(job[Pump].gen, v, exact, ending)
      BY <1>5 DEF CompleteTurn, TerminalUnsaved
    <3> QED
      BY <1>0, <3>1, <3>2, ReturnType DEF JobsInv, OneEnding, Turns
  <2>2. /\ \A t \in Turns : t # v => outcome'[t] = outcome[t]
        /\ ~exact => outcome' = outcome
        /\ active'[u] = (IF exact /\ active[u].gen = job[Pump].gen /\ active[u].turn = v THEN NoActive ELSE active[u])
    BY <1>0, <2>1 DEF EndExactTurn, MapsTypeOK, SeenTypeOK
  <2>3. exact => Past(v) /\ outcome[v] = "none" /\ active[u] \in ActiveType /\ v # NoRun
    BY <1>0, <2>1 DEF PumpEnds, EndedIsOver, MapsTypeOK, Turns
  <2>4. exact => active'[u].turn # v
    <3>1. exact /\ active[u].turn = v => active[u].gen = job[Pump].gen
      BY <2>1, <2>3 DEF PumpEnds, LiveInv
    <3> QED
      BY <2>2, <2>3, <3>1 DEF NoActive
  <2>5. \A w \in watchdogs' : w.stage # "append"
    BY <2>1 DEF OneEnding
  <2>6. u = SessionOf[v]
    OBVIOUS
  <2> HIDE DEF v, exact, u
  <2>7. \A t \in Turns : outcome'[t] # "none" => Over(t)
    BY <1>2, <2>1, <2>2, <2>3, <2>4, <2>5, <2>6 DEF EndedIsOver
  <2> QED
    BY <1>1, <2>2, <2>3, <2>7
<1>6. CASE TerminalDropped \/ FinishShutdown
  <2>1. UNCHANGED <<outcome, watchdogs>> /\ pc'[Pump] # "complete"
    <3>1. TerminalDropped => Return(Pump)
      BY DEF TerminalDropped
    <3>2. FinishShutdown => pc'[Pump] = "done"
      BY <1>0 DEF FinishShutdown, Goto, TasksTypeOK
    <3>3. UNCHANGED <<outcome, watchdogs>>
      BY <1>6 DEF TerminalDropped, FinishShutdown, seen
    <3> QED
      BY <1>0, <1>6, <3>1, <3>2, <3>3, ReturnType
  <2> QED
    BY <1>3, <2>1
<1>7. CASE ~(HandleCompleted \/ CompleteTurn \/ TerminalUnsaved \/ TerminalDropped \/ FinishShutdown)
  <2>1. pc'[Pump] = "complete" => pc[Pump] = "complete" /\ job'[Pump] = job[Pump]
    BY <1>7, PumpFrame
  <2>2. ASSUME NEW p \in Tasks, PublishTurn(p) \/ InterruptFails(p) PROVE UNCHANGED <<outcome, watchdogs>>
    BY <2>2 DEF PublishTurn, InterruptFails, seen
  <2>3. ASSUME NEW p \in Tasks, InterruptAccepted(p) PROVE EndedIsOver' /\ UNCHANGED outcome
    BY <1>3, <2>1, <2>3 DEF InterruptAccepted, seen
  <2>4. ASSUME NEW i \in Stops, NEW s \in Sessions, Stop(i, s) PROVE UNCHANGED <<outcome, watchdogs>>
    BY <2>4 DEF Stop
  <2>5. HandleStarted \/ HandleClosed => UNCHANGED <<outcome, watchdogs>>
    BY DEF HandleStarted, HandleClosed, tasks, seen
  <2>6. ASSUME NEW w \in watchdogs, WatchdogStep(w)
        PROVE  EndedIsOver' /\ \A t \in Turns : outcome[t] # "none" => outcome'[t] = outcome[t]
    <3>0. w \in WatchdogType /\ w.turn \in Turns /\ SessionOf[w.turn] \in Sessions
      BY <1>0 DEF TasksTypeOK, Turns
    <3>1. ASSUME NEW stage, Become(w, stage)
          PROVE  \A v \in watchdogs' : v.stage = "append" => v \in watchdogs
                                                              \/ (stage = "append" /\ v.turn = w.turn)
      BY <3>0, <3>1 DEF Become, WatchdogType
    <3>2. CASE WatchdogWakes(w)
      <4>1. UNCHANGED outcome /\ (watchdogs' \subseteq watchdogs \/ Become(w, "woken"))
        BY <3>2 DEF WatchdogWakes, seen
      <4>2. \A v \in watchdogs' : v.stage = "append" => v \in watchdogs
        BY <3>1, <4>1
      <4> QED
        BY <1>3, <2>1, <4>1, <4>2
    <3>3. CASE WatchdogChecks(w)
      <4>1. UNCHANGED outcome
        BY <3>3 DEF WatchdogChecks, seen
      <4>2. CASE watchdogs' = watchdogs \ {w}
        BY <1>3, <2>1, <4>1, <4>2
      <4>3. CASE Become(w, "append") /\ active[SessionOf[w.turn]].turn = w.turn
        <5>1. \A t \in Turns : outcome'[t] # "none" => Over(t)
          BY <1>2, <2>1, <3>1, <4>1, <4>3 DEF EndedIsOver
        <5> QED
          BY <1>1, <4>1, <5>1
      <4> QED
        BY <3>3, <4>2, <4>3 DEF WatchdogChecks
    <3>4. CASE WatchdogCancels(w)
      <4> DEFINE u == SessionOf[w.turn]
      <4>1. /\ w.stage = "append" /\ watchdogs' = watchdogs \ {w}
            /\ outcome' = [outcome EXCEPT ![w.turn] = "cancelled"]
            /\ active'[u] = (IF active[u] = [run |-> w.run, gen |-> w.gen, turn |-> w.turn]
                             THEN NoActive ELSE active[u])
        BY <1>0, <3>0, <3>4 DEF WatchdogCancels, MapsTypeOK
      <4>2. outcome[w.turn] = "none"
        BY <3>0, <4>1 DEF EndedIsOver
      <4>3. /\ \A t \in Turns : t # w.turn => outcome'[t] = outcome[t]
            /\ \A v \in watchdogs' : v.stage # "append"
        BY <1>0, <4>1 DEF OneEnding, SeenTypeOK
      <4>4. active'[u].turn # w.turn
        <5>1. active[u] \in ActiveType /\ w.turn # NoRun
          BY <1>0, <3>0 DEF MapsTypeOK, Turns
        <5>2. active[u].turn = w.turn => active[u].run = w.run /\ active[u].gen = w.gen
          BY <3>0, <5>1 DEF LiveInv, WatchdogsKnow
        <5>3. active[u].turn = w.turn => active[u] = [run |-> w.run, gen |-> w.gen, turn |-> w.turn]
          BY <5>1, <5>2 DEF ActiveType
        <5> QED
          BY <4>1, <5>1, <5>3 DEF NoActive
      <4>5. Past(w.turn) /\ pc[Pump] # "complete"
        BY <4>1 DEF WatchdogsKnow, OneEnding
      <4>6. \A t \in Turns : outcome'[t] # "none" => Over(t)
        BY <1>2, <2>1, <4>3, <4>4, <4>5 DEF EndedIsOver
      <4> QED
        BY <1>1, <4>2, <4>3, <4>6
    <3>5. CASE WatchdogAppendFails(w)
      BY <1>3, <2>1, <3>5 DEF WatchdogAppendFails, seen
    <3> QED
      BY <2>6, <3>2, <3>3, <3>4, <3>5 DEF WatchdogStep
  <2>7. UNCHANGED <<outcome, watchdogs>> => EndedIsOver'
    BY <1>3, <2>1
  <2> QED
    BY <1>7, <2>2, <2>3, <2>4, <2>5, <2>6, <2>7 DEF LoudStep
<1> QED
    BY <1>4, <1>5, <1>6, <1>7

\* An interrupt that is sent names the turn it is for, and so does the task that waits
\* for its answer.
LEMMA InterruptStep ==
    ASSUME TurnAssumption, IInv, LoudStep, \A u \in Turns : Past(u) => Past(u)'
    PROVE  InterruptInv'
<1> USE TurnAssumption DEF TurnAssumption, IInv
<1>0. /\ MapsTypeOK /\ TasksTypeOK /\ JobsInv /\ UNCHANGED server /\ Pump \in Tasks
      /\ \A t \in Turns : t \in Runs /\ t # NoRun /\ SessionOf[t] \in Sessions
    BY TypeParts, LoudFacts DEF TypeInv, Turns, Tasks
<1> DEFINE Names(s) == \/ interrupt'[s] \in {interrupt[s], NoInterrupt}
                       \/ /\ interrupt'[s].turn = NoRun /\ interrupt'[s].phase = "PendingIdentity"
                       \/ \E t \in Turns : interrupt'[s].turn = t /\ interrupt'[s].run = t /\ SessionOf[t] = s
           Sends(p, t) == /\ job'[p].turn = t /\ job'[p].run = t /\ job'[p].gen = server[t].gen
                          /\ server[t].phase # "none" /\ Past(t)'
           Waits(p) == pc'[p] = "interrupting" => \/ pc[p] = "interrupting" /\ job'[p] = job[p]
                                                  \/ \E t \in Turns : Sends(p, t)
<1>1. ASSUME \A s \in Sessions : Names(s), \A p \in Tasks : Waits(p) PROVE InterruptInv'
  <2>1. ASSUME NEW s \in Sessions
        PROVE  /\ interrupt'[s].turn # NoRun => /\ interrupt'[s].run = interrupt'[s].turn
                                                /\ SessionOf[interrupt'[s].turn] = s
               /\ interrupt'[s].turn = NoRun => interrupt'[s].phase \in {"none", "PendingIdentity"}
    <3>1. Names(s)
      BY <1>1
    <3> QED
      BY <1>0, <3>1 DEF InterruptInv, NoInterrupt
  <2>2. ASSUME NEW p \in Tasks, pc'[p] = "interrupting" PROVE \E t \in Turns : Sends(p, t)
    <3>1. CASE pc[p] = "interrupting" /\ job'[p] = job[p]
      <4>1. job[p].turn \in Turns
        BY <1>0, <3>1 DEF JobsInv
      <4>2. ASSUME NEW t \in Turns, t = job[p].turn PROVE Sends(p, t)
        BY <3>1, <4>2 DEF InterruptInv
      <4> QED
        BY <4>1, <4>2
    <3> QED
      BY <1>1, <2>2, <3>1
  <2>3. ASSUME NEW p \in Tasks, pc'[p] = "interrupting"
        PROVE  /\ job'[p].run = job'[p].turn
               /\ job'[p].gen = server'[job'[p].turn].gen /\ server'[job'[p].turn].phase # "none"
               /\ Past(job[p].turn)'
    <3>1. PICK t \in Turns : Sends(p, t)
      BY <2>2, <2>3
    <3>2. Past(job[p].turn)'
      BY <3>1 DEF Past
    <3> QED
      BY <1>0, <3>1, <3>2
  <2> HIDE DEF TurnAssumption, IInv
  <2> QED
    BY <2>1, <2>3 DEF InterruptInv
<1>2. ASSUME NEW p \in Tasks, Return(p) PROVE \A q \in Tasks : Waits(q)
    BY <1>0, <1>2, ReturnType
<1>3. ASSUME NEW p \in Tasks, PublishTurn(p) PROVE InterruptInv'
  <2>a. PICK u \in Turns : u = job[p].turn /\ Publishes(p, u)
    BY <1>3, PublishEffect
  <2>1. Publishes(p, u) /\ Published(p, u) /\ Past(u)'
    BY <2>a, PublishesFacts, PublishesOwners
  <2>2. \/ /\ pc'[p] = "interrupting"
           /\ job'[p].gen = server[u].gen /\ job'[p].run = u /\ job'[p].turn = u
           /\ \E n \in Nat : interrupt' = [interrupt EXCEPT ![SessionOf[u]] =
                  [gen |-> server[u].gen, run |-> u, turn |-> u, attempt |-> n, phase |-> "Sending"]]
        \/ pc'[p] # "interrupting" /\ UNCHANGED interrupt
    BY <2>1 DEF Publishes
  <2>3. \A q \in Tasks : Waits(q)
    BY <1>0, <2>1, <2>2 DEF Published
  <2>4. ASSUME NEW s \in Sessions PROVE Names(s)
    <3>1. CASE UNCHANGED interrupt
      BY <3>1
    <3>2. CASE s # SessionOf[u]
      BY <1>0, <2>2, <3>2 DEF MapsTypeOK
    <3>3. ASSUME s = SessionOf[u], interrupt' # interrupt PROVE interrupt'[s].turn = u /\ interrupt'[s].run = u
      <4>1. PICK n \in Nat : interrupt' = [interrupt EXCEPT ![SessionOf[u]] =
                [gen |-> server[u].gen, run |-> u, turn |-> u, attempt |-> n, phase |-> "Sending"]]
        BY <2>2, <3>3
      <4> QED
        BY <1>0, <3>3, <4>1 DEF MapsTypeOK
    <3> QED
      BY <3>1, <3>2, <3>3
  <2> QED
    BY <1>1, <2>3, <2>4
<1>4. ASSUME NEW p \in Tasks, InterruptAccepted(p) \/ InterruptFails(p) PROVE InterruptInv'
  <2> DEFINE u == job[p].turn
  <2>1. /\ u \in Turns /\ Return(p)
        /\ \E phase : Settle(p, phase)
    BY <1>0, <1>4 DEF InterruptAccepted, InterruptFails, JobsInv
  <2>2. PICK phase : Settle(p, phase)
    BY <2>1
  <2>3. interrupt[SessionOf[u]] \in InterruptType
    BY <1>0, <2>1 DEF MapsTypeOK
  <2>4. \/ interrupt' = interrupt
        \/ /\ interrupt[SessionOf[u]].turn = u
           /\ interrupt' = [interrupt EXCEPT ![SessionOf[u]] = [@ EXCEPT !.phase = phase]]
    BY <1>0, <2>1, <2>2, <2>3 DEF Settle, MapsTypeOK
  <2>5. [interrupt[SessionOf[u]] EXCEPT !.phase = phase].run = interrupt[SessionOf[u]].run
        /\ [interrupt[SessionOf[u]] EXCEPT !.phase = phase].turn = interrupt[SessionOf[u]].turn
    BY <2>3 DEF InterruptType
  <2> HIDE DEF u
  <2>6. ASSUME NEW s \in Sessions PROVE Names(s)
    <3>1. CASE interrupt' = interrupt \/ s # SessionOf[u]
      BY <1>0, <2>1, <2>4, <3>1 DEF MapsTypeOK
    <3>2. CASE s = SessionOf[u] /\ interrupt[s].turn = u /\ interrupt'[s] = [interrupt[s] EXCEPT !.phase = phase]
      <4>1. interrupt'[s].turn = u /\ interrupt'[s].run = u
        BY <1>0, <2>1, <2>5, <3>2 DEF InterruptInv
      <4> QED
        BY <2>1, <3>2, <4>1
    <3> QED
      BY <1>0, <2>1, <2>4, <3>1, <3>2 DEF MapsTypeOK
  <2> QED
    BY <1>1, <1>2, <2>1, <2>6
<1>5. ASSUME NEW i \in Stops, NEW s \in Sessions, Stop(i, s) PROVE InterruptInv'
  <2> DEFINE t == active[s].turn
             g == active[s].gen
  <2>0. i \in Tasks /\ active[s] \in ActiveType
    BY <1>0 DEF Tasks, MapsTypeOK
  <2>1. CASE Return(i) /\ \/ UNCHANGED interrupt
                          \/ interrupt' = [interrupt EXCEPT ![s] = IF @.phase # "none" THEN @ ELSE
                                  [NoInterrupt EXCEPT !.gen = g, !.run = active[s].run,
                                                      !.phase = "PendingIdentity"]]
    <3>0. LET e == [NoInterrupt EXCEPT !.gen = g, !.run = active[s].run, !.phase = "PendingIdentity"]
          IN  e.turn = NoRun /\ e.phase = "PendingIdentity"
      BY DEF NoInterrupt
    <3>1. ASSUME NEW z \in Sessions PROVE Names(z)
      BY <1>0, <2>1, <3>0 DEF MapsTypeOK
    <3> QED
      BY <1>1, <1>2, <2>0, <2>1, <3>1
  <2>2. CASE t # NoRun /\ SendInterrupt(i, s, g, t, active[s])
    <3>a. t \in Turns /\ active[s].run = t /\ SessionOf[t] = s
      BY <1>0, <2>0, <2>2 DEF ActiveType, MaybeRun, LiveInv, RunInv, Turns
    <3>b. PICK u \in Turns : u = t
      BY <3>a
    <3>1. active[s].run = u /\ SessionOf[u] = s /\ g = server[u].gen /\ Past(u)' /\ server[u].phase # "none"
      BY <2>2, <3>a, <3>b DEF LiveInv
    <3> HIDE DEF t, g
    <3>3. CASE Return(i) /\ UNCHANGED interrupt
      BY <1>1, <1>2, <2>0, <3>3
    <3>4. ASSUME NEW n, interrupt' = [interrupt EXCEPT ![s] = [gen |-> g, run |-> active[s].run, turn |-> t,
                                                              attempt |-> n, phase |-> "Sending"]],
                 job' = [job EXCEPT ![i] = [NoJob EXCEPT !.gen = g, !.run = active[s].run, !.turn = t,
                                                        !.attempt = n]],
                 Goto(i, "interrupting")
          PROVE  InterruptInv'
      <4>1. ASSUME NEW z \in Sessions PROVE Names(z)
        BY <1>0, <3>1, <3>b, <3>4 DEF MapsTypeOK
      <4>2. ASSUME NEW q \in Tasks PROVE Waits(q)
        BY <1>0, <2>0, <3>1, <3>b, <3>4 DEF TasksTypeOK, Goto, NoJob
      <4> QED
        BY <1>1, <4>1, <4>2
    <3> QED
      BY <2>2, <3>3, <3>4 DEF SendInterrupt
  <2> QED
    BY <1>5, <2>1, <2>2, Zenon DEF Stop
<1>6. CASE HandleStarted
  <2>1. UNCHANGED interrupt /\ \A p \in Tasks : pc'[p] = "interrupting" => pc[p] = "interrupting" /\ job'[p] = job[p]
    BY <1>0, <1>6 DEF HandleStarted, Goto, TasksTypeOK
  <2> QED
    BY <1>1, <2>1
<1>7. CASE HandleCompleted
  <2>1. UNCHANGED interrupt /\ \A p \in Tasks : pc'[p] = "interrupting" => pc[p] = "interrupting" /\ job'[p] = job[p]
    BY <1>0, <1>7 DEF HandleCompleted, Goto, TasksTypeOK, maps
  <2> QED
    BY <1>1, <2>1
<1>8. CASE HandleClosed
  <2>1. UNCHANGED <<pc, job>> /\ \A s \in Sessions : interrupt'[s] \in {interrupt[s], NoInterrupt}
    BY <1>8 DEF HandleClosed, tasks
  <2> QED
    BY <1>1, <2>1
<1>9. CASE CompleteTurn \/ TerminalUnsaved \/ TerminalDropped
  <2>1. Return(Pump) /\ \A s \in Sessions : interrupt'[s] \in {interrupt[s], NoInterrupt}
    BY <1>0, <1>9 DEF CompleteTurn, TerminalUnsaved, TerminalDropped, EndExactTurn, MapsTypeOK, maps
  <2> QED
    BY <1>0, <1>1, <1>2, <2>1
<1>10. ASSUME NEW w \in watchdogs, WatchdogStep(w) PROVE InterruptInv'
  <2> DEFINE u == SessionOf[w.turn]
  <2>0. w.turn \in Turns /\ u \in Sessions /\ interrupt[u] \in InterruptType
    BY <1>0 DEF TasksTypeOK, WatchdogType, MapsTypeOK
  <2>1. UNCHANGED <<pc, job>>
    BY <1>10 DEF WatchdogStep, WatchdogWakes, WatchdogChecks, WatchdogCancels, WatchdogAppendFails
  <2>2. CASE WatchdogWakes(w) \/ WatchdogChecks(w) \/ WatchdogCancels(w)
    <3>1. \A s \in Sessions : interrupt'[s] \in {interrupt[s], NoInterrupt}
      BY <1>0, <2>0, <2>2 DEF WatchdogWakes, WatchdogChecks, WatchdogCancels, maps, MapsTypeOK
    <3> QED
      BY <1>1, <2>1, <3>1
  <2>3. CASE WatchdogAppendFails(w)
    <3>1. \/ interrupt' = interrupt
          \/ /\ interrupt[u].turn = w.turn
             /\ interrupt' = [interrupt EXCEPT ![u] = [@ EXCEPT !.phase = "Retryable"]]
      BY <1>0, <2>0, <2>3 DEF WatchdogAppendFails, MapsTypeOK, SameAttempt
    <3>2. [interrupt[u] EXCEPT !.phase = "Retryable"].run = interrupt[u].run
          /\ [interrupt[u] EXCEPT !.phase = "Retryable"].turn = interrupt[u].turn
      BY <2>0 DEF InterruptType
    <3>3. u = SessionOf[w.turn]
      OBVIOUS
    <3> HIDE DEF u
    <3>4. ASSUME NEW s \in Sessions PROVE Names(s)
      <4>1. CASE interrupt' = interrupt \/ s # u
        BY <1>0, <2>0, <3>1, <4>1 DEF MapsTypeOK
      <4>2. CASE s = u /\ interrupt[s].turn = w.turn /\ interrupt'[s] = [interrupt[s] EXCEPT !.phase = "Retryable"]
        <5>1. interrupt'[s].turn = w.turn /\ interrupt'[s].run = w.turn
          BY <1>0, <2>0, <3>2, <4>2 DEF InterruptInv
        <5> QED
          BY <2>0, <3>3, <4>2, <5>1
      <4> QED
        BY <1>0, <2>0, <3>1, <4>1, <4>2 DEF MapsTypeOK
    <3> QED
      BY <1>1, <2>1, <3>4
  <2> QED
    BY <1>10, <2>2, <2>3 DEF WatchdogStep
<1>11. CASE FinishShutdown
  <2>1. UNCHANGED interrupt /\ \A p \in Tasks : pc'[p] = "interrupting" => pc[p] = "interrupting" /\ job'[p] = job[p]
    BY <1>0, <1>11 DEF FinishShutdown, Goto, TasksTypeOK
  <2> QED
    BY <1>1, <2>1
<1> QED
    BY <1>3, <1>4, <1>5, <1>6, <1>7, <1>8, <1>9, <1>10, <1>11 DEF LoudStep

\* A watchdog that guards an interrupt is about the interrupt's session.
LEMMA GuardMatches ==
    ASSUME TurnAssumption, IInv, NEW s \in Sessions, interrupt[s].phase = "Sent", NEW w \in watchdogs,
           w.gen = interrupt[s].gen, w.turn = interrupt[s].turn, w.attempt = interrupt[s].attempt
    PROVE  SessionOf[w.turn] = s /\ SameAttempt(w) /\ StillSent(w)
<1>1. interrupt[s].turn # NoRun
    BY DEF IInv, InterruptInv
<1>2. SessionOf[w.turn] = s /\ w.run = interrupt[s].run
    BY <1>1 DEF IInv, InterruptInv, EndInv, WatchdogsKnow
<1> QED
    BY <1>2 DEF SameAttempt, StillSent

\* An interrupt stays Sent only as long as its watchdog is there.
LEMMA SentStep ==
    ASSUME TurnAssumption, IInv, LoudStep
    PROVE  SentIsGuarded'
<1> USE TurnAssumption DEF TurnAssumption, IInv
<1>0. MapsTypeOK /\ TasksTypeOK /\ JobsInv /\ \A t \in Turns : SessionOf[t] \in Sessions
    BY TypeParts DEF TypeInv, Turns
<1>1. ASSUME watchdogs \subseteq watchdogs',
             \A s \in Sessions : interrupt'[s] = interrupt[s] \/ interrupt'[s].phase # "Sent"
      PROVE  SentIsGuarded'
    BY <1>1 DEF SentIsGuarded
<1>2. ASSUME NEW p \in Tasks, PublishTurn(p) PROVE SentIsGuarded'
  <2>1. PICK u \in Turns : u = job[p].turn /\ Publishes(p, u)
    BY <1>2, PublishEffect
  <2>2. CASE UNCHANGED interrupt
    BY <1>1, <2>1, <2>2 DEF Publishes
  <2>3. ASSUME NEW n \in Nat, interrupt' = [interrupt EXCEPT ![SessionOf[u]] =
                  [gen |-> server[u].gen, run |-> u, turn |-> u, attempt |-> n, phase |-> "Sending"]]
        PROVE  SentIsGuarded'
    <3>1. \A s \in Sessions : interrupt'[s] = interrupt[s] \/ interrupt'[s].phase # "Sent"
      BY <1>0, <2>3 DEF MapsTypeOK
    <3> QED
      BY <1>1, <2>1, <3>1 DEF Publishes
  <2> QED
    BY <2>1, <2>2, <2>3 DEF Publishes
<1>3. ASSUME NEW p \in Tasks, NEW phase \in {"Sent", "Retryable"}, pc[p] = "interrupting", Settle(p, phase)
      PROVE  \A s \in Sessions :
                 \/ interrupt'[s] = interrupt[s]
                 \/ /\ interrupt'[s].phase = phase /\ interrupt'[s].gen = job[p].gen
                    /\ interrupt'[s].turn = job[p].turn /\ interrupt'[s].attempt = job[p].attempt
  <2> DEFINE u == SessionOf[job[p].turn]
  <2>1. u \in Sessions /\ interrupt[u] \in InterruptType
    BY <1>0, <1>3 DEF JobsInv, MapsTypeOK
  <2>2. \/ interrupt' = interrupt
        \/ /\ interrupt[u].gen = job[p].gen /\ interrupt[u].turn = job[p].turn
           /\ interrupt[u].attempt = job[p].attempt
           /\ interrupt' = [interrupt EXCEPT ![u] = [@ EXCEPT !.phase = phase]]
    BY <1>0, <1>3, <2>1 DEF Settle, MapsTypeOK
  <2>3. LET e == [interrupt[u] EXCEPT !.phase = phase]
        IN  e.phase = phase /\ e.gen = interrupt[u].gen /\ e.turn = interrupt[u].turn
            /\ e.attempt = interrupt[u].attempt
    BY <2>1 DEF InterruptType
  <2> HIDE DEF u
  <2> QED
    BY <1>0, <2>1, <2>2, <2>3 DEF MapsTypeOK
<1>4. ASSUME NEW p \in Tasks, InterruptAccepted(p) PROVE SentIsGuarded'
  <2> DEFINE v == [gen |-> job[p].gen, run |-> job[p].run, turn |-> job[p].turn,
                   attempt |-> job[p].attempt, stage |-> "armed"]
  <2>1. pc[p] = "interrupting" /\ Settle(p, "Sent") /\ watchdogs' = watchdogs \cup {v}
    BY <1>4 DEF InterruptAccepted
  <2>2. v \in watchdogs' /\ watchdogs \subseteq watchdogs'
    BY <2>1
  <2>3. v.gen = job[p].gen /\ v.turn = job[p].turn /\ v.attempt = job[p].attempt
    OBVIOUS
  <2> HIDE DEF v
  <2> QED
    BY <1>3, <2>1, <2>2, <2>3 DEF SentIsGuarded
<1>5. ASSUME NEW p \in Tasks, InterruptFails(p) PROVE SentIsGuarded'
  <2>1. pc[p] = "interrupting" /\ Settle(p, "Retryable") /\ watchdogs' = watchdogs
    BY <1>5 DEF InterruptFails
  <2>2. \A s \in Sessions : interrupt'[s] = interrupt[s] \/ interrupt'[s].phase # "Sent"
    BY <1>3, <2>1
  <2> QED
    BY <1>1, <2>1, <2>2
<1>6. ASSUME NEW i \in Stops, NEW s \in Sessions, Stop(i, s) PROVE SentIsGuarded'
  <2>1. UNCHANGED watchdogs /\ \E e : e.phase # "Sent" /\ interrupt' \in {interrupt, [interrupt EXCEPT ![s] = e]}
    <3>1. CASE interrupt' \in {interrupt, [interrupt EXCEPT ![s] = [NoInterrupt EXCEPT
                     !.gen = active[s].gen, !.run = active[s].run, !.phase = "PendingIdentity"]]}
      <4>1. [NoInterrupt EXCEPT !.gen = active[s].gen, !.run = active[s].run, !.phase = "PendingIdentity"].phase
                # "Sent"
        BY DEF NoInterrupt
      <4> QED
        BY <1>6, <3>1, <4>1 DEF Stop
    <3>2. CASE SendInterrupt(i, s, active[s].gen, active[s].turn, active[s])
      <4>1. ASSUME NEW e, e.phase = "Sending", interrupt' = [interrupt EXCEPT ![s] = e]
            PROVE  /\ UNCHANGED watchdogs
                   /\ \E f : f.phase # "Sent" /\ interrupt' \in {interrupt, [interrupt EXCEPT ![s] = f]}
        BY <1>6, <4>1 DEF Stop
      <4> QED
        BY <1>6, <3>1, <3>2, <4>1 DEF SendInterrupt
    <3>3. \/ SendInterrupt(i, s, active[s].gen, active[s].turn, active[s])
          \/ UNCHANGED interrupt
          \/ interrupt' = [interrupt EXCEPT ![s] = IF @.phase # "none" THEN @ ELSE
                     [NoInterrupt EXCEPT !.gen = active[s].gen, !.run = active[s].run,
                                         !.phase = "PendingIdentity"]]
      BY <1>6, Zenon DEF Stop
    <3> QED
      BY <1>0, <3>1, <3>2, <3>3 DEF MapsTypeOK
  <2>2. \A z \in Sessions : interrupt'[z] = interrupt[z] \/ interrupt'[z].phase # "Sent"
    BY <1>0, <2>1 DEF MapsTypeOK
  <2> QED
    BY <1>1, <2>1, <2>2
<1>7. CASE \/ HandleStarted \/ HandleCompleted \/ HandleClosed \/ FinishShutdown
           \/ CompleteTurn \/ TerminalUnsaved \/ TerminalDropped
  <2>1. UNCHANGED watchdogs
    BY <1>7 DEF HandleStarted, HandleCompleted, HandleClosed, FinishShutdown, CompleteTurn, TerminalUnsaved,
                TerminalDropped, tasks
  <2>2. \A s \in Sessions : interrupt'[s] \in {interrupt[s], NoInterrupt}
    BY <1>0, <1>7
       DEF HandleStarted, HandleCompleted, HandleClosed, FinishShutdown, CompleteTurn, TerminalUnsaved,
           TerminalDropped, EndExactTurn, maps, MapsTypeOK
  <2> QED
    BY <1>1, <2>1, <2>2 DEF NoInterrupt
<1>8. ASSUME NEW w \in watchdogs, WatchdogStep(w) PROVE SentIsGuarded'
  <2> DEFINE u == SessionOf[w.turn]
  <2>0. w \in WatchdogType /\ w.turn \in Turns /\ u \in Sessions /\ interrupt[u] \in InterruptType
    BY <1>0 DEF TasksTypeOK, WatchdogType, MapsTypeOK
  <2>1. ASSUME NEW stage, Become(w, stage), UNCHANGED interrupt PROVE SentIsGuarded'
    <3>1. \E v \in watchdogs' : v.gen = w.gen /\ v.turn = w.turn /\ v.attempt = w.attempt
      <4>1. [w EXCEPT !.stage = stage] \in watchdogs'
        BY <2>1 DEF Become
      <4>2. /\ [w EXCEPT !.stage = stage].gen = w.gen /\ [w EXCEPT !.stage = stage].turn = w.turn
            /\ [w EXCEPT !.stage = stage].attempt = w.attempt
        BY <2>0 DEF WatchdogType
      <4> QED
        BY <4>1, <4>2
    <3>2. \A v \in watchdogs : v = w \/ v \in watchdogs'
      BY <2>1 DEF Become
    <3>3. \A v \in watchdogs : \E x \in watchdogs' : x.gen = v.gen /\ x.turn = v.turn /\ x.attempt = v.attempt
      BY <3>1, <3>2
    <3>4. UNCHANGED interrupt /\ SentIsGuarded
      BY <2>1
    <3> HIDE DEF IInv, TurnAssumption
    <3> QED
      BY <3>3, <3>4 DEF SentIsGuarded
  <2>2. ASSUME watchdogs' = watchdogs \ {w},
               \A s \in Sessions : interrupt'[s] = interrupt[s] \/ interrupt'[s].phase # "Sent",
               StillSent(w) => interrupt'[u].phase # "Sent"
        PROVE  SentIsGuarded'
    <3> SUFFICES ASSUME NEW s \in Sessions, interrupt'[s].phase = "Sent"
                 PROVE  \E v \in watchdogs' : v.gen = interrupt'[s].gen /\ v.turn = interrupt'[s].turn
                                              /\ v.attempt = interrupt'[s].attempt
      BY DEF SentIsGuarded
    <3>1. interrupt'[s] = interrupt[s]
      BY <2>2
    <3>2. PICK v \in watchdogs : v.gen = interrupt[s].gen /\ v.turn = interrupt[s].turn
                                 /\ v.attempt = interrupt[s].attempt
      BY <3>1 DEF SentIsGuarded
    <3>3. v # w
      <4> SUFFICES ASSUME v = w PROVE FALSE
        OBVIOUS
      <4>1. SessionOf[w.turn] = s /\ StillSent(w)
        BY <3>1, <3>2, GuardMatches
      <4> QED
        BY <2>2, <4>1
    <3> QED
      BY <2>2, <3>1, <3>2, <3>3
  <2>3. CASE WatchdogWakes(w)
    <3>1. CASE StillSent(w) /\ Become(w, "woken")
      BY <2>1, <2>3, <3>1 DEF WatchdogWakes, maps
    <3>2. CASE ~StillSent(w) /\ watchdogs' = watchdogs \ {w}
      BY <2>2, <2>3, <3>2 DEF WatchdogWakes, maps
    <3> QED
      BY <2>3, <3>1, <3>2 DEF WatchdogWakes
  <2>4. CASE WatchdogChecks(w)
    <3> DEFINE sessionIsExact == active[u] = [run |-> w.run, gen |-> w.gen, turn |-> w.turn]
               threadIsExact == activeThread[u] = [gen |-> w.gen, turn |-> w.turn]
               exact == StillSent(w) /\ sessionIsExact /\ threadIsExact
    <3>1. CASE Become(w, "append") /\ UNCHANGED interrupt
      BY <2>1, <3>1
    <3>2. CASE /\ ~exact /\ watchdogs' = watchdogs \ {w}
               /\ interrupt' = [interrupt EXCEPT ![u] = IF ~sessionIsExact /\ SameAttempt(w) THEN NoInterrupt ELSE @]
      <4>1. sessionIsExact => threadIsExact
        <5>1. ASSUME sessionIsExact PROVE active[u].turn = w.turn /\ active[u].gen = w.gen /\ w.turn # NoRun
          BY <2>0, <5>1 DEF Turns
        <5> QED
          BY <2>0, <5>1 DEF MapsAgree
      <4>2. StillSent(w) => ~sessionIsExact /\ SameAttempt(w)
        BY <3>2, <4>1 DEF StillSent
      <4> HIDE DEF sessionIsExact, u
      <4>3. /\ \A s \in Sessions : interrupt'[s] \in {interrupt[s], NoInterrupt}
            /\ ~sessionIsExact /\ SameAttempt(w) => interrupt'[u] = NoInterrupt
        BY <1>0, <2>0, <3>2 DEF MapsTypeOK
      <4>4. NoInterrupt.phase # "Sent"
        BY DEF NoInterrupt
      <4>5. /\ \A s \in Sessions : interrupt'[s] = interrupt[s] \/ interrupt'[s].phase # "Sent"
            /\ StillSent(w) => interrupt'[u].phase # "Sent"
        BY <4>2, <4>3, <4>4
      <4> QED
        BY <2>2, <3>2, <4>5
    <3> QED
      BY <2>4, <3>1, <3>2, Zenon DEF WatchdogChecks
  <2>5. CASE WatchdogCancels(w)
    <3>1. /\ watchdogs' = watchdogs \ {w}
          /\ \A s \in Sessions : interrupt'[s] \in {interrupt[s], NoInterrupt}
          /\ SameAttempt(w) => interrupt'[u] = NoInterrupt
      BY <1>0, <2>0, <2>5 DEF WatchdogCancels, MapsTypeOK
    <3>2. NoInterrupt.phase # "Sent"
      BY DEF NoInterrupt
    <3> QED
      BY <2>2, <3>1, <3>2 DEF StillSent
  <2>6. CASE WatchdogAppendFails(w)
    <3>1. /\ watchdogs' = watchdogs \ {w}
          /\ \A s \in Sessions : interrupt'[s] \in {interrupt[s], [interrupt[u] EXCEPT !.phase = "Retryable"]}
          /\ SameAttempt(w) => interrupt'[u] = [interrupt[u] EXCEPT !.phase = "Retryable"]
      BY <1>0, <2>0, <2>6 DEF WatchdogAppendFails, MapsTypeOK
    <3>2. [interrupt[u] EXCEPT !.phase = "Retryable"].phase # "Sent"
      BY <2>0 DEF InterruptType
    <3> QED
      BY <2>2, <3>1, <3>2 DEF StillSent
  <2> QED
    BY <1>8, <2>3, <2>4, <2>5, <2>6 DEF WatchdogStep
<1> QED
    BY <1>2, <1>4, <1>5, <1>6, <1>7, <1>8 DEF LoudStep

-----------------------------------------------------------------------------
(* Generations whose loss was handled *)

ClosedQueued(g) == \E e \in Queued : e.kind = "closed" /\ e.gen = g

\* A loss that was announced and is not in the queue any more was handled.
LEMMA HandledQueued ==
    ASSUME NEW g
    PROVE  /\ g \in Handled <=> g \in announced /\ ~ClosedQueued(g)
           /\ g \in Handled' <=> g \in announced' /\ ~ClosedQueued(g)'
BY DEF Handled, ClosedQueued, Queued

\* Only HandleClosed handles a loss.
LEMMA HandledStep ==
    ASSUME TurnAssumption, TypeInv, [Next]_vars, NEW g \in Handled', g \notin Handled
    PROVE  HandleClosed /\ g = Head(events).gen
<1> USE HandledQueued
<1>0. OutsideTypeOK /\ TransportTypeOK
    BY TypeParts DEF TypeInv
<1>1. ASSUME UNCHANGED announced, UNCHANGED events PROVE FALSE
  <2>1. ClosedQueued(g)' <=> ClosedQueued(g)
    BY <1>1 DEF ClosedQueued, Queued
  <2> QED
    BY <1>1, <2>1
<1>2. ASSUME UNCHANGED announced, \E e \in EventType : events' = Append(events, e) PROVE FALSE
  <2>1. Queued \subseteq Queued'
    BY <1>0, <1>2, QueueAppend DEF OutsideTypeOK
  <2> QED
    BY <1>2, <2>1 DEF ClosedQueued
<1>3. ASSUME NEW h \in Generations, AnnounceLoss(h) PROVE FALSE
  <2> DEFINE e == [kind |-> "closed", gen |-> h, turn |-> NoRun]
  <2>1. e \in EventType /\ events' = Append(events, e) /\ announced' = announced \cup {h}
    BY <1>3 DEF AnnounceLoss, Announce, EventType, MaybeRun
  <2>2. Queued' = Queued \cup {e}
    BY <1>0, <2>1, QueueAppend DEF OutsideTypeOK
  <2>3. e.kind = "closed" /\ e.gen = h
    OBVIOUS
  <2> HIDE DEF e
  <2> QED
    BY <2>1, <2>2, <2>3 DEF ClosedQueued
<1>4. ASSUME NEW kind, PumpReads(kind)
      PROVE  g = Head(events).gen /\ kind = "closed"
  <2>1. /\ UNCHANGED announced /\ Head(events).kind = kind
        /\ Queued \subseteq Queued' \cup {Head(events)}
    BY <1>4, PumpReadsType DEF PumpReads, transportVars
  <2> QED
    BY <2>1 DEF ClosedQueued
<1>5. CASE UNCHANGED vars
    BY <1>1, <1>5 DEF vars, outside, transportVars
<1>6. CASE TransportMoves
    BY <1>1, <1>6 DEF TransportMoves, Start, BecomeReady, AbandonStart, Lose, Release, outside
<1>7. ASSUME NEW t \in Turns, ServerStep(t) PROVE FALSE
  <2>1. CASE ReplyTurnStart(t)
    BY <1>1, <2>1 DEF ReplyTurnStart, transportVars
  <2>2. ASSUME NEW kind \in {"started", "completed"}, server[t].phase # "none",
               events' = Append(events, [kind |-> kind, gen |-> server[t].gen, turn |-> t]),
               UNCHANGED announced
        PROVE  FALSE
    <3>1. [kind |-> kind, gen |-> server[t].gen, turn |-> t] \in EventType
      BY <2>2 DEF TypeInv, EventsInv, EventType, MaybeRun, Turns
    <3> QED
      BY <1>2, <2>2, <3>1
  <2> QED
    BY <1>7, <2>1, <2>2 DEF ServerStep, NotifyStarted, NotifyCompleted, transportVars
<1>8. ASSUME NEW r \in Runs, BeginRun(r) \/ RunStep(r) PROVE FALSE
  <2>1. UNCHANGED <<transportVars, events>>
    BY <1>8
       DEF BeginRun, RunStep, RunFails, Prepare, ReadStatus, LoadThread, BindThread, RecordResumed,
           InsertStart, SendTurnStart, ReceiveTurn, outside
  <2> QED
    BY <1>1, <2>1 DEF transportVars
<1>9. ASSUME UNCHANGED <<transportVars, outside>> PROVE FALSE
    BY <1>1, <1>9 DEF transportVars, outside
<1>10. ASSUME NEW p \in Tasks, WaitStep(p) PROVE UNCHANGED <<transportVars, outside>>
    BY <1>10 DEF WaitStep, PublishTurn, PersistFails, InterruptAccepted, InterruptFails
<1>11. ASSUME NEW i \in Stops, NEW s \in Sessions, Stop(i, s) PROVE UNCHANGED <<transportVars, outside>>
    BY <1>11 DEF Stop
<1>12. CASE PumpStep
  <2>1. CASE CompleteTurn \/ TerminalUnsaved \/ TerminalDropped
    BY <1>9, <2>1 DEF CompleteTurn, TerminalUnsaved, TerminalDropped
  <2>2. CASE PumpIgnores
    <3>1. PumpReads(Head(events).kind) /\ Head(events).kind # "closed"
      BY <2>2 DEF PumpIgnores
    <3> QED
      BY <1>4, <3>1
  <2>3. ASSUME HandleStarted \/ HandleCompleted PROVE FALSE
    BY <1>4, <2>3 DEF HandleStarted, HandleCompleted
  <2>4. CASE HandleClosed
    <3>1. PumpReads("closed")
      BY <2>4 DEF HandleClosed
    <3> QED
      BY <1>4, <2>4, <3>1
  <2> QED
    BY <1>12, <2>1, <2>2, <2>3, <2>4 DEF PumpStep
<1>13. ASSUME NEW w \in watchdogs, WatchdogStep(w) PROVE UNCHANGED <<transportVars, outside>>
    BY <1>13 DEF WatchdogStep, WatchdogWakes, WatchdogChecks, WatchdogCancels, WatchdogAppendFails
<1>14. CASE ShutdownStep
    BY <1>1, <1>14 DEF ShutdownStep, CloseTransport, DrainRuns, FinishShutdown, Halt, transportVars, outside
<1> QED
    BY <1>3, <1>5, <1>6, <1>7, <1>8, <1>9, <1>10, <1>11, <1>12, <1>13, <1>14 DEF Next, TransportStep

-----------------------------------------------------------------------------
(* However the runs of a session overlap *)

\* From the acceptance of turn/start on, and from asking for it on.
Started == {"turnWait", "persist", "interrupting", "done"}
Asked == Started \cup {"turnStart"}

\* The app-server or the engine has a trace of turn t.
Known(t) ==
    \/ server[t].phase # "none"
    \/ \E p \in Tasks : pc[p] \in {"persist", "interrupting", "complete"} /\ job[p].turn = t
    \/ \E w \in watchdogs : w.turn = t
    \/ \E s \in Sessions : active[s].turn = t
    \/ outcome[t] # "none"

\* There is no trace of a turn before its run asked for it.
KnownInv == \A t \in Turns : Known(t) => pc[t] \in Started

\* The start of a run waits for its session or is held by one task that saves the
\* user message.  As long as it is, a session that still belongs to the run has no
\* turn, and counts on the generation of the start.
StartInv ==
    /\ \A s \in Sessions : active[s].run # NoRun =>
           /\ SessionOf[active[s].run] = s
           /\ pc[active[s].run] # "idle"
           /\ active[s].turn # NoRun => pc[active[s].run] \in Asked
    /\ \A s \in Sessions : pendingStart[s].run # NoRun =>
           /\ SessionOf[pendingStart[s].run] = s
           /\ pc[pendingStart[s].run] \in Asked
           /\ active[s].run = pendingStart[s].run =>
                  active[s].turn = NoRun /\ active[s].gen = pendingStart[s].gen
    /\ \A p \in Tasks : pc[p] = "persist" =>
           LET r == job[p].run
               s == SessionOf[job[p].turn]
           IN /\ r \in Runs /\ SessionOf[r] = s /\ pc[r] \in Asked
              /\ pendingStart[s].run # r
              /\ \A q \in Tasks : pc[q] = "persist" /\ job[q].run = r => q = p
              /\ active[s].run = r => active[s].turn = NoRun /\ active[s].gen = job[p].gen

\* A turn that was ended lost its session for good, and what the pump or a watchdog
\* is about to end is still what it decided to end, or has lost its session.
EndsInv ==
    /\ \A t \in Turns : outcome[t] # "none" => active[SessionOf[t]].run # t
    /\ pc[Pump] = "complete" /\ job[Pump].exact =>
           \A s \in Sessions : active[s].run = job[Pump].turn =>
               active[s].turn = job[Pump].turn /\ active[s].gen = job[Pump].gen
    /\ \A w \in watchdogs : w.stage = "append" =>
           \A s \in Sessions : active[s].run = w.turn =>
               active[s] = [run |-> w.run, gen |-> w.gen, turn |-> w.turn]

\* The invariant that needs no assumption about how runs are scheduled.
OverlapInv ==
    /\ TypeInv
    /\ GensInv
    /\ KnownInv
    /\ StartInv
    /\ EndsInv
    /\ OwnersAreReleasable

\* No run goes back, and no task takes a start.
Forward ==
    \A r \in Runs : /\ pc[r] # "idle" => pc'[r] # "idle"
                    /\ pc[r] \in Asked => pc'[r] \in Asked
                    /\ pc[r] \in Started => pc'[r] \in Started

TakesNoStart == \A p \in Tasks : pc'[p] = "persist" => pc[p] = "persist" /\ job'[p] = job[p]

\* Sessions and starts are at most given up.
LetsGo ==
    /\ TakesNoStart
    /\ \A s \in Sessions :
           active'[s] \in {active[s], NoActive} /\ pendingStart'[s] \in {pendingStart[s], NoStart}

\* Run r takes a session that is free.
TakesSession(r) ==
    /\ TakesNoStart
    /\ pc[r] = "idle" /\ pc'[r] # "idle"
    /\ active[SessionOf[r]].run = NoRun
    /\ active' = [active EXCEPT ![SessionOf[r]] = [NoActive EXCEPT !.run = r]]
    /\ UNCHANGED pendingStart

\* Run r counts on the current generation, and may leave its start for it.
CountsOn(r) ==
    /\ TakesNoStart
    /\ pc[r] \in {"status", "ready"} /\ current # NoGeneration
    /\ Adopt(r, current)
    /\ \/ UNCHANGED pendingStart
       \/ /\ pc'[r] = "turnStart"
          /\ pendingStart' = [pendingStart EXCEPT ![SessionOf[r]] = [run |-> r, gen |-> current]]

\* Task p takes whatever start the session of turn t has.
TakesStart(p, t) ==
    LET s == SessionOf[t]
    IN /\ pc[p] # "persist" /\ pc'[p] = "persist"
       /\ pendingStart[s].run # NoRun
       /\ job'[p].run = pendingStart[s].run
       /\ job'[p].gen = pendingStart[s].gen
       /\ job'[p].turn = t
       /\ \A q \in Tasks \ {p} : pc'[q] = pc[q] /\ job'[q] = job[q]
       /\ pendingStart' = [pendingStart EXCEPT ![s] = NoStart]
       /\ UNCHANGED active

\* Task p gives the turn it saved to the session, if that is still its run's.
GivesTurn(p) ==
    LET s == SessionOf[job[p].turn]
    IN /\ TakesNoStart
       /\ pc[p] = "persist" /\ pc'[p] # "persist"
       /\ active' = [active EXCEPT ![s] =
              IF @.run = job[p].run
              THEN [run |-> job[p].run, gen |-> job[p].gen, turn |-> job[p].turn] ELSE @]
       /\ UNCHANGED pendingStart

\* A task that returns goes on.
LEMMA ReturnGoesOn ==
    ASSUME TurnAssumption, TypeInv, NEW p \in Tasks, Return(p)
    PROVE  Forward /\ TakesNoStart /\ pc'[p] # "persist"
<1> USE TurnAssumption DEF TurnAssumption
<1>1. /\ pc'[p] = IF p = Pump THEN "idle" ELSE "done"
      /\ \A q \in Tasks \ {p} : pc'[q] = pc[q] /\ job'[q] = job[q]
    BY TypeParts, ReturnType DEF TypeInv
<1> QED
    BY <1>1 DEF Forward, TakesNoStart, Started, Asked, Tasks

\* So does one that sends an interrupt, or finds it sent.
LEMMA SendGoesOn ==
    ASSUME TurnAssumption, TypeInv, NEW p \in Tasks, NEW s, NEW g, NEW t, NEW owner,
           SendInterrupt(p, s, g, t, owner)
    PROVE  Forward /\ TakesNoStart /\ pc'[p] # "persist"
<1>1. CASE Return(p)
    BY <1>1, ReturnGoesOn
<1>2. CASE ~Return(p)
  <2>1. Goto(p, "interrupting") /\ \E j : job' = [job EXCEPT ![p] = j]
    BY <1>2 DEF SendInterrupt
  <2>2. /\ pc'[p] = "interrupting"
        /\ \A q \in Tasks \ {p} : pc'[q] = pc[q] /\ job'[q] = job[q]
    BY <2>1, TypeParts DEF TypeInv, TasksTypeOK, Goto
  <2> QED
    BY <2>2 DEF Forward, TakesNoStart, Started, Asked, Tasks
<1> QED
    BY <1>1, <1>2

\* A task that is refused gives up what it owns.
LEMMA RefuseShape ==
    ASSUME TurnAssumption, TypeInv, NEW p \in Tasks, Refuse(p)
    PROVE  LetsGo /\ Forward
<1> USE TurnAssumption DEF TurnAssumption
<1>0. MapsTypeOK /\ TasksTypeOK /\ SeenTypeOK
    BY TypeParts DEF TypeInv
<1>1. Return(p)
    BY <1>0, RefuseType
<1>2. \A s \in Sessions :
          active'[s] \in {active[s], NoActive} /\ pendingStart'[s] \in {pendingStart[s], NoStart}
    BY <1>0 DEF Refuse, Fail, MapsTypeOK
<1> QED
    BY <1>1, <1>2, ReturnGoesOn DEF LetsGo

\* An activation is refused, finds nothing to do, or takes a start.
LEMMA ActivateShape ==
    ASSUME TurnAssumption, TypeInv, NEW p \in Tasks, NEW t \in Turns, NEW g,
           pc[p] = "turnWait", Activate(p, g, t)
    PROVE  (LetsGo \/ TakesStart(p, t)) /\ Forward
<1> USE TurnAssumption DEF TurnAssumption
<1> DEFINE s == SessionOf[t]
<1>0. MapsTypeOK /\ TasksTypeOK
    BY TypeParts DEF TypeInv
<1>1. CASE Refuse(p)
    BY <1>1, RefuseShape
<1>2. CASE Return(p) /\ UNCHANGED <<pendingStart, active>>
    BY <1>2, ReturnGoesOn DEF LetsGo
<1>3. CASE /\ pendingStart[s].run # NoRun /\ pendingStart[s].gen = g
           /\ pendingStart' = [pendingStart EXCEPT ![s] = NoStart]
           /\ job' = [job EXCEPT ![p] = [NoJob EXCEPT !.gen = g, !.run = pendingStart[s].run, !.turn = t]]
           /\ Goto(p, "persist") /\ UNCHANGED active
  <2>1. /\ job'[p] = [NoJob EXCEPT !.gen = g, !.run = pendingStart[s].run, !.turn = t]
        /\ pc'[p] = "persist"
        /\ \A q \in Tasks \ {p} : pc'[q] = pc[q] /\ job'[q] = job[q]
    BY <1>0, <1>3 DEF TasksTypeOK, Goto
  <2>2. job'[p].gen = g /\ job'[p].run = pendingStart[s].run /\ job'[p].turn = t
    BY <2>1 DEF NoJob
  <2>3. TakesStart(p, t)
    BY <1>3, <2>1, <2>2, Zenon DEF TakesStart
  <2>4. Forward
    BY <2>1 DEF Forward, Started, Asked, Tasks
  <2> QED
    BY <2>3, <2>4
<1> QED
    BY <1>1, <1>2, <1>3, Zenon DEF Activate

\* Every step has one of these shapes, and no run goes back.
LEMMA StepShapes ==
    ASSUME TurnAssumption, TypeInv, [Next]_vars
    PROVE  /\ Forward
           /\ \/ LetsGo
              \/ \E r \in Runs : TakesSession(r) \/ CountsOn(r)
              \/ \E p \in Tasks, t \in Turns : TakesStart(p, t)
              \/ \E p \in Tasks : GivesTurn(p)
<1> USE TurnAssumption DEF TurnAssumption
<1>0. MapsTypeOK /\ TasksTypeOK /\ JobsInv /\ Pump \in Tasks /\ Pump \notin Runs
    BY TypeParts DEF TypeInv, Tasks
<1>a. ASSUME UNCHANGED <<pc, job>>,
             \A s \in Sessions : active'[s] \in {active[s], NoActive}
                                 /\ pendingStart'[s] \in {pendingStart[s], NoStart}
      PROVE  LetsGo /\ Forward
    BY <1>a DEF LetsGo, Forward, TakesNoStart
<1>b. ASSUME NEW p \in Tasks, NEW label \in Labels, Goto(p, label), label # "persist",
             p \in Runs => /\ label # "idle"
                           /\ pc[p] \notin Asked \/ label \in Started
      PROVE  Forward /\ (\A q \in Tasks : pc'[q] = "persist" => pc[q] = "persist" /\ q # p)
  <2>1. pc'[p] = label /\ \A q \in Tasks \ {p} : pc'[q] = pc[q]
    BY <1>0, <1>b DEF Goto, TasksTypeOK
  <2> QED
    BY <1>b, <2>1 DEF Forward, Started, Asked, Tasks
<1>1. CASE TransportStep \/ \E t \in Turns : ServerStep(t)
  <2>1. UNCHANGED engine
    BY <1>1
       DEF TransportStep, TransportMoves, AnnounceLoss, ServerStep, ReplyTurnStart, NotifyStarted, NotifyCompleted
  <2> QED
    BY <1>a, <2>1 DEF engine, maps, tasks
<1>2. ASSUME NEW r \in Runs, BeginRun(r) PROVE Forward /\ (LetsGo \/ TakesSession(r))
  <2>1. r \in Tasks /\ SessionOf[r] \in Sessions /\ pc[r] = "idle" /\ UNCHANGED <<pendingStart, job>>
    BY <1>2 DEF BeginRun, Tasks
  <2>2. ASSUME NEW label \in {"prepare", "done"}, Goto(r, label)
        PROVE  Forward /\ TakesNoStart /\ pc'[r] # "idle"
    <3>1. pc'[r] = label
      BY <1>0, <2>1, <2>2 DEF Goto, TasksTypeOK
    <3> QED
      BY <1>b, <2>1, <2>2, <3>1 DEF Labels, Started, Asked, TakesNoStart
  <2>3. CASE UNCHANGED active /\ Goto(r, "done")
    BY <2>1, <2>2, <2>3 DEF LetsGo
  <2>4. CASE /\ active[SessionOf[r]].run = NoRun
             /\ active' = [active EXCEPT ![SessionOf[r]] = [NoActive EXCEPT !.run = r]]
             /\ Goto(r, "prepare")
    BY <2>1, <2>2, <2>4 DEF TakesSession
  <2>5. gate \in {"open", "closing"} /\ active[SessionOf[r]].run = NoRun =>
            /\ active' = [active EXCEPT ![SessionOf[r]] = [NoActive EXCEPT !.run = r]]
            /\ Goto(r, "prepare")
    BY <1>2 DEF BeginRun
  <2>6. ~(gate \in {"open", "closing"} /\ active[SessionOf[r]].run = NoRun) => active' = active /\ Goto(r, "done")
    BY <1>0, <1>2 DEF BeginRun, MapsTypeOK
  <2> QED
    BY <2>3, <2>4, <2>5, <2>6
<1>3. ASSUME NEW r \in Runs, Prepare(r) \/ LoadThread(r) \/ BindThread(r) \/ RecordResumed(r) \/ SendTurnStart(r)
      PROVE  Forward /\ LetsGo
  <2>1. r \in Tasks /\ UNCHANGED <<active, pendingStart, job>>
    BY <1>3 DEF Prepare, LoadThread, BindThread, RecordResumed, SendTurnStart, maps, Tasks
  <2>2. \/ \E label \in {"status", "resumed", "bind", "threadStarted", "ready"} :
              Goto(r, label) /\ pc[r] \notin Asked
        \/ Goto(r, "turnWait")
    BY <1>3 DEF Prepare, LoadThread, BindThread, RecordResumed, SendTurnStart, Asked, Started
  <2> QED
    BY <1>b, <2>1, <2>2 DEF Labels, Started, LetsGo, TakesNoStart
<1>4. ASSUME NEW r \in Runs, ReadStatus(r) \/ InsertStart(r) PROVE Forward /\ CountsOn(r)
  <2>1. /\ r \in Tasks /\ pc[r] \in {"status", "ready"} /\ current # NoGeneration /\ Adopt(r, current)
        /\ job' = [job EXCEPT ![r].gen = current]
    BY <1>4 DEF ReadStatus, InsertStart, Tasks
  <2>2. \A q \in Tasks \ {r} : job'[q] = job[q]
    BY <1>0, <2>1 DEF TasksTypeOK
  <2>3. PICK label \in {"threadStart", "ready", "resume", "turnStart"} : Goto(r, label)
    BY <1>4 DEF ReadStatus, InsertStart
  <2>4. Forward /\ TakesNoStart /\ pc'[r] = label
    <3>1. pc'[r] = label
      BY <1>0, <2>1, <2>3 DEF Goto, TasksTypeOK
    <3> QED
      BY <1>b, <2>1, <2>2, <2>3, <3>1 DEF Labels, Started, Asked, TakesNoStart
  <2>5. \/ UNCHANGED pendingStart
        \/ /\ pc'[r] = "turnStart"
           /\ pendingStart' = [pendingStart EXCEPT ![SessionOf[r]] = [run |-> r, gen |-> current]]
    BY <1>0, <1>4, <2>1 DEF ReadStatus, InsertStart, Goto, TasksTypeOK
  <2> QED
    BY <2>1, <2>4, <2>5 DEF CountsOn
<1>5. ASSUME NEW r \in Runs, RunFails(r) PROVE Forward /\ LetsGo
    BY <1>5, RefuseShape DEF RunFails, Refuse, Tasks
<1>6. ASSUME NEW r \in Runs, ReceiveTurn(r) PROVE Forward /\ (LetsGo \/ TakesStart(r, r))
  <2>1. r \in Tasks /\ r \in Turns /\ pc[r] = "turnWait" /\ Activate(r, job[r].gen, r)
    BY <1>6 DEF ReceiveTurn, Tasks, Turns
  <2> QED
    BY <2>1, ActivateShape
<1>7. ASSUME NEW p \in Tasks, PublishTurn(p) PROVE Forward /\ GivesTurn(p)
  <2> DEFINE g == job[p].gen
             t == job[p].turn
             s == SessionOf[t]
             owner == IF active[s].run = job[p].run
                      THEN [run |-> job[p].run, gen |-> g, turn |-> t] ELSE active[s]
  <2>1. /\ pc[p] = "persist"
        /\ active' = [active EXCEPT ![s] = owner]
        /\ SendInterrupt(p, s, g, t, owner) \/ Return(p)
        /\ UNCHANGED pendingStart
    BY <1>7, Zenon DEF PublishTurn
  <2>2. Forward /\ TakesNoStart /\ pc'[p] # "persist"
    <3> HIDE DEF owner, s, t, g
    <3> QED
      BY <2>1, SendGoesOn, ReturnGoesOn
  <2>3. active' = [active EXCEPT ![s] =
              IF @.run = job[p].run THEN [run |-> job[p].run, gen |-> g, turn |-> t] ELSE @]
    BY <2>1
  <2> QED
    BY <2>1, <2>2, <2>3 DEF GivesTurn
<1>8. ASSUME NEW p \in Tasks, PersistFails(p) PROVE Forward /\ LetsGo
    BY <1>8, RefuseShape DEF PersistFails
<1>9. ASSUME NEW p \in Tasks, InterruptAccepted(p) \/ InterruptFails(p) PROVE Forward /\ LetsGo
  <2>1. Return(p) /\ UNCHANGED <<active, pendingStart>>
    BY <1>9 DEF InterruptAccepted, InterruptFails
  <2> QED
    BY <2>1, ReturnGoesOn DEF LetsGo
<1>10. ASSUME NEW i \in Stops, NEW s \in Sessions, Stop(i, s) PROVE Forward /\ LetsGo
  <2>1. i \in Tasks /\ UNCHANGED <<active, pendingStart>>
    BY <1>10 DEF Stop, Tasks
  <2>2. Return(i) \/ SendInterrupt(i, s, active[s].gen, active[s].turn, active[s])
    BY <1>10 DEF Stop
  <2> QED
    BY <2>1, <2>2, ReturnGoesOn, SendGoesOn DEF LetsGo
<1>11. CASE HandleStarted
  <2> DEFINE e == Head(events)
             z == SessionOf[e.turn]
  <2>1. e.turn \in Turns /\ pc[Pump] = "idle" /\ UNCHANGED active
    BY <1>11, PumpReadsType DEF HandleStarted, PumpReads
  <2>2. CASE UNCHANGED <<pendingStart, job, pc>>
    BY <1>a, <2>1, <2>2
  <2>3. CASE /\ pendingStart[z].run # NoRun
             /\ pendingStart[z].gen = e.gen
             /\ pendingStart' = [pendingStart EXCEPT ![z] = NoStart]
             /\ job' = [job EXCEPT ![Pump] =
                     [NoJob EXCEPT !.gen = e.gen, !.run = pendingStart[z].run, !.turn = e.turn]]
             /\ Goto(Pump, "persist")
    <3>1. /\ job'[Pump] = [NoJob EXCEPT !.gen = e.gen, !.run = pendingStart[z].run, !.turn = e.turn]
          /\ pc'[Pump] = "persist"
          /\ \A q \in Tasks \ {Pump} : pc'[q] = pc[q] /\ job'[q] = job[q]
      BY <1>0, <2>3 DEF TasksTypeOK, Goto
    <3>2. job'[Pump].gen = e.gen /\ job'[Pump].run = pendingStart[z].run /\ job'[Pump].turn = e.turn
      BY <3>1 DEF NoJob
    <3>3. TakesStart(Pump, e.turn)
      <4>1. pc[Pump] # "persist"
        BY <2>1
      <4> QED
        BY <2>1, <2>3, <3>1, <3>2, <4>1, Zenon DEF TakesStart
    <3>4. Forward
      BY <1>0, <3>1 DEF Forward, Tasks
    <3> QED
      BY <1>0, <2>1, <3>3, <3>4
  <2> QED
    BY <1>11, <2>2, <2>3, Zenon DEF HandleStarted
<1>12. CASE HandleCompleted
  <2>1. /\ pc'[Pump] = "complete" /\ UNCHANGED <<active, pendingStart>>
        /\ \A q \in Tasks \ {Pump} : pc'[q] = pc[q] /\ job'[q] = job[q]
    BY <1>0, <1>12 DEF HandleCompleted, Goto, TasksTypeOK, maps
  <2> QED
    BY <1>0, <2>1 DEF LetsGo, Forward, TakesNoStart, Tasks
<1>13. CASE CompleteTurn \/ TerminalUnsaved \/ TerminalDropped
  <2>1. Return(Pump) /\ UNCHANGED pendingStart
    BY <1>13 DEF CompleteTurn, TerminalUnsaved, TerminalDropped, maps
  <2>2. \A s \in Sessions : active'[s] \in {active[s], NoActive}
    BY <1>0, <1>13 DEF CompleteTurn, TerminalUnsaved, TerminalDropped, EndExactTurn, MapsTypeOK, maps
  <2> QED
    BY <1>0, <2>1, <2>2, ReturnGoesOn DEF LetsGo
<1>14. CASE PumpIgnores \/ HandleClosed
  <2>1. UNCHANGED <<pc, job>>
    BY <1>14 DEF PumpIgnores, HandleClosed, engine, tasks
  <2>2. \A s \in Sessions :
            active'[s] \in {active[s], NoActive} /\ pendingStart'[s] \in {pendingStart[s], NoStart}
    BY <1>14 DEF PumpIgnores, HandleClosed, engine, maps
  <2> QED
    BY <1>a, <2>1, <2>2
<1>15. ASSUME NEW w \in watchdogs, WatchdogStep(w) PROVE Forward /\ LetsGo
  <2>1. UNCHANGED <<pc, job, pendingStart>>
    BY <1>15 DEF WatchdogStep, WatchdogWakes, WatchdogChecks, WatchdogCancels, WatchdogAppendFails, maps
  <2>2. \A s \in Sessions : active'[s] \in {active[s], NoActive}
    BY <1>0, <1>15
       DEF WatchdogStep, WatchdogWakes, WatchdogChecks, WatchdogCancels, WatchdogAppendFails, maps, MapsTypeOK
  <2> QED
    BY <1>a, <2>1, <2>2
<1>16. CASE CloseTransport \/ DrainRuns \/ UNCHANGED vars
  <2>1. UNCHANGED <<pc, job, active, pendingStart>>
    BY <1>16 DEF CloseTransport, DrainRuns, vars, engine, maps, tasks
  <2> QED
    BY <1>a, <2>1
<1>17. CASE FinishShutdown
  <2>1. /\ \A s \in Sessions : active'[s] = NoActive /\ pendingStart'[s] = NoStart
        /\ pc'[Pump] = "done"
        /\ \A q \in Tasks \ {Pump} : pc'[q] = pc[q] /\ job'[q] = job[q]
    BY <1>0, <1>17 DEF FinishShutdown, Goto, TasksTypeOK
  <2> QED
    BY <1>0, <2>1 DEF LetsGo, Forward, TakesNoStart, Tasks
<1> HIDE DEF TurnAssumption
<1>18. ASSUME NEW r \in Runs, RunStep(r)
       PROVE  /\ Forward
              /\ \/ LetsGo
                 \/ CountsOn(r)
                 \/ \E p \in Tasks, t \in Turns : TakesStart(p, t)
  <2>1. r \in Tasks /\ r \in Turns
    BY DEF Tasks, Turns
  <2> QED
    BY <1>3, <1>4, <1>5, <1>6, <1>18, <2>1, Zenon DEF RunStep
<1>19. ASSUME NEW p \in Tasks, WaitStep(p) PROVE Forward /\ (LetsGo \/ GivesTurn(p))
    BY <1>7, <1>8, <1>9, <1>19, Zenon DEF WaitStep
<1>20. CASE PumpStep
    BY <1>11, <1>12, <1>13, <1>14, <1>20, Zenon DEF PumpStep
<1>21. CASE ShutdownStep
    BY <1>16, <1>17, <1>21, Zenon DEF ShutdownStep
<1> QED
    BY <1>1, <1>2, <1>10, <1>15, <1>16, <1>18, <1>19, <1>20, <1>21, Zenon DEF Next

\* Starts keep their one holder, and what their session counts on.
LEMMA StartStep ==
    ASSUME TurnAssumption, TypeInv, StartInv, [Next]_vars
    PROVE  StartInv'
<1> USE TurnAssumption DEF TurnAssumption
<1>0. /\ MapsTypeOK /\ TasksTypeOK /\ JobsInv
      /\ \A s \in Sessions : active[s].run # NoRun => active[s].run \in Runs
      /\ \A s \in Sessions : pendingStart[s].run # NoRun => pendingStart[s].run \in Runs
    BY TypeParts DEF TypeInv, MapsTypeOK, ActiveType, StartType, MaybeRun
<1>f. Forward
    BY StepShapes
<1>t. \A p \in Tasks : pc[p] = "persist" => SessionOf[job[p].turn] \in Sessions
    BY <1>0 DEF JobsInv, Turns
<1>n. NoActive.run = NoRun /\ NoStart.run = NoRun /\ NoRun \notin Runs
    BY DEF NoActive, NoStart
<1>1. CASE LetsGo
  <2>1. /\ \A s \in Sessions : active'[s].run # NoRun => active'[s] = active[s]
        /\ \A s \in Sessions : pendingStart'[s].run # NoRun => pendingStart'[s] = pendingStart[s]
        /\ \A p \in Tasks : pc'[p] = "persist" => pc[p] = "persist" /\ job'[p] = job[p]
    BY <1>1, <1>n DEF LetsGo, TakesNoStart
  <2>2. \A s \in Sessions : active'[s].run # NoRun =>
            /\ SessionOf[active'[s].run] = s
            /\ pc'[active'[s].run] # "idle"
            /\ active'[s].turn # NoRun => pc'[active'[s].run] \in Asked
    BY <1>0, <1>f, <2>1 DEF StartInv, Forward
  <2>3. \A s \in Sessions : pendingStart'[s].run # NoRun =>
            /\ SessionOf[pendingStart'[s].run] = s
            /\ pc'[pendingStart'[s].run] \in Asked
            /\ active'[s].run = pendingStart'[s].run =>
                   active'[s].turn = NoRun /\ active'[s].gen = pendingStart'[s].gen
    BY <1>0, <1>f, <2>1 DEF StartInv, Forward
  <2>4. ASSUME NEW p \in Tasks, pc'[p] = "persist"
        PROVE  LET r == job'[p].run
                   s == SessionOf[job'[p].turn]
               IN /\ r \in Runs /\ SessionOf[r] = s /\ pc'[r] \in Asked
                  /\ pendingStart'[s].run # r
                  /\ \A q \in Tasks : pc'[q] = "persist" /\ job'[q].run = r => q = p
                  /\ active'[s].run = r => active'[s].turn = NoRun /\ active'[s].gen = job'[p].gen
    <3>1. pc[p] = "persist" /\ job'[p] = job[p] /\ SessionOf[job[p].turn] \in Sessions
      BY <1>t, <2>1, <2>4
    <3>2. \A q \in Tasks : pc'[q] = "persist" => pc[q] = "persist" /\ job'[q] = job[q]
      BY <2>1
    <3> QED
      BY <1>f, <1>n, <2>1, <3>1, <3>2 DEF StartInv, Forward
  <2> QED
    BY <2>2, <2>3, <2>4 DEF StartInv
<1>2. ASSUME NEW r \in Runs, TakesSession(r) PROVE StartInv'
  <2> DEFINE z == SessionOf[r]
  <2>1. /\ z \in Sessions /\ pc[r] = "idle" /\ pc'[r] # "idle" /\ UNCHANGED pendingStart
        /\ \A s \in Sessions \ {z} : active'[s] = active[s]
        /\ active'[z].run = r /\ active'[z].turn = NoRun
        /\ \A p \in Tasks : pc'[p] = "persist" => pc[p] = "persist" /\ job'[p] = job[p]
    BY <1>0, <1>2 DEF TakesSession, TakesNoStart, MapsTypeOK, NoActive
  <2>2. pc[r] \notin Asked
    BY <2>1 DEF Asked, Started
  <2>3. \A s \in Sessions : active'[s].run # NoRun =>
            /\ SessionOf[active'[s].run] = s
            /\ pc'[active'[s].run] # "idle"
            /\ active'[s].turn # NoRun => pc'[active'[s].run] \in Asked
    BY <1>0, <1>f, <2>1 DEF StartInv, Forward
  <2>4. \A s \in Sessions : pendingStart'[s].run # NoRun =>
            /\ SessionOf[pendingStart'[s].run] = s
            /\ pc'[pendingStart'[s].run] \in Asked
            /\ active'[s].run = pendingStart'[s].run =>
                   active'[s].turn = NoRun /\ active'[s].gen = pendingStart'[s].gen
    <3> SUFFICES ASSUME NEW s \in Sessions, pendingStart[s].run # NoRun
                 PROVE  /\ SessionOf[pendingStart[s].run] = s
                        /\ pc'[pendingStart[s].run] \in Asked
                        /\ active'[s].run = pendingStart[s].run =>
                               active'[s].turn = NoRun /\ active'[s].gen = pendingStart[s].gen
      BY <2>1
    <3>1. /\ pendingStart[s].run \in Runs /\ pc[pendingStart[s].run] \in Asked
          /\ SessionOf[pendingStart[s].run] = s
          /\ active[s].run = pendingStart[s].run =>
                 active[s].turn = NoRun /\ active[s].gen = pendingStart[s].gen
      BY <1>0 DEF StartInv
    <3>2. pendingStart[s].run # r
      BY <2>2, <3>1
    <3> QED
      BY <1>f, <2>1, <3>1, <3>2 DEF Forward
  <2>5. ASSUME NEW p \in Tasks, pc'[p] = "persist"
        PROVE  LET q0 == job'[p].run
                   s == SessionOf[job'[p].turn]
               IN /\ q0 \in Runs /\ SessionOf[q0] = s /\ pc'[q0] \in Asked
                  /\ pendingStart'[s].run # q0
                  /\ \A q \in Tasks : pc'[q] = "persist" /\ job'[q].run = q0 => q = p
                  /\ active'[s].run = q0 => active'[s].turn = NoRun /\ active'[s].gen = job'[p].gen
    <3>1. pc[p] = "persist" /\ job'[p] = job[p] /\ SessionOf[job[p].turn] \in Sessions
      BY <1>t, <2>1, <2>5
    <3>2. \A q \in Tasks : pc'[q] = "persist" => pc[q] = "persist" /\ job'[q] = job[q]
      BY <2>1
    <3>3. job[p].run \in Runs /\ pc[job[p].run] \in Asked /\ job[p].run # r
      BY <2>2, <3>1 DEF StartInv
    <3> QED
      BY <1>f, <2>1, <3>1, <3>2, <3>3 DEF StartInv, Forward
  <2> QED
    BY <2>3, <2>4, <2>5 DEF StartInv
<1>3. ASSUME NEW r \in Runs, CountsOn(r) PROVE StartInv'
  <2> DEFINE z == SessionOf[r]
  <2>1. /\ z \in Sessions /\ pc[r] \in {"status", "ready"} /\ pc[r] \notin Asked
        /\ \A s \in Sessions : /\ active'[s].run = active[s].run
                               /\ active'[s].turn = active[s].turn
                               /\ s = z /\ active[s].run = r => active'[s].gen = current
                               /\ ~(s = z /\ active[s].run = r) => active'[s] = active[s]
        /\ \A p \in Tasks : pc'[p] = "persist" => pc[p] = "persist" /\ job'[p] = job[p]
    BY <1>0, <1>3 DEF CountsOn, Adopt, Owns, TakesNoStart, MapsTypeOK, ActiveType, Asked, Started
  <2>2. \A s \in Sessions : active'[s].run # NoRun =>
            /\ SessionOf[active'[s].run] = s
            /\ pc'[active'[s].run] # "idle"
            /\ active'[s].turn # NoRun => pc'[active'[s].run] \in Asked
    BY <1>0, <1>f, <2>1 DEF StartInv, Forward
  <2>3. \A s \in Sessions : \/ pendingStart'[s] = pendingStart[s]
                            \/ s = z /\ pc'[r] = "turnStart" /\ pendingStart'[s] = [run |-> r, gen |-> current]
    BY <1>0, <1>3, <2>1 DEF CountsOn, MapsTypeOK
  <2>4. ASSUME NEW s \in Sessions, pendingStart'[s].run # NoRun
        PROVE  /\ SessionOf[pendingStart'[s].run] = s
               /\ pc'[pendingStart'[s].run] \in Asked
               /\ active'[s].run = pendingStart'[s].run =>
                      active'[s].turn = NoRun /\ active'[s].gen = pendingStart'[s].gen
    <3>1. CASE pendingStart'[s] = pendingStart[s]
      <4>1. /\ pendingStart[s].run \in Runs /\ pc[pendingStart[s].run] \in Asked
            /\ SessionOf[pendingStart[s].run] = s
            /\ active[s].run = pendingStart[s].run =>
                   active[s].turn = NoRun /\ active[s].gen = pendingStart[s].gen
        BY <1>0, <2>4, <3>1 DEF StartInv
      <4>2. pendingStart[s].run # r
        BY <2>1, <4>1
      <4> QED
        BY <1>f, <2>1, <3>1, <4>1, <4>2 DEF Forward
    <3>2. CASE s = z /\ pc'[r] = "turnStart" /\ pendingStart'[s] = [run |-> r, gen |-> current]
      <4>1. active[s].run = r => active[s].turn = NoRun
        BY <1>n, <2>1 DEF StartInv
      <4> QED
        BY <2>1, <3>2, <4>1 DEF Asked
    <3> QED
      BY <2>3, <3>1, <3>2
  <2>5. ASSUME NEW p \in Tasks, pc'[p] = "persist"
        PROVE  LET q0 == job'[p].run
                   s == SessionOf[job'[p].turn]
               IN /\ q0 \in Runs /\ SessionOf[q0] = s /\ pc'[q0] \in Asked
                  /\ pendingStart'[s].run # q0
                  /\ \A q \in Tasks : pc'[q] = "persist" /\ job'[q].run = q0 => q = p
                  /\ active'[s].run = q0 => active'[s].turn = NoRun /\ active'[s].gen = job'[p].gen
    <3>1. pc[p] = "persist" /\ job'[p] = job[p] /\ SessionOf[job[p].turn] \in Sessions
      BY <1>t, <2>1, <2>5
    <3>2. \A q \in Tasks : pc'[q] = "persist" => pc[q] = "persist" /\ job'[q] = job[q]
      BY <2>1
    <3>3. job[p].run \in Runs /\ pc[job[p].run] \in Asked /\ job[p].run # r
      BY <2>1, <3>1 DEF StartInv
    <3>4. pendingStart'[SessionOf[job[p].turn]].run # job[p].run
      BY <2>3, <3>1, <3>3 DEF StartInv
    <3> QED
      BY <1>f, <2>1, <3>1, <3>2, <3>3, <3>4 DEF StartInv, Forward
  <2> QED
    BY <2>2, <2>4, <2>5 DEF StartInv
<1>4. ASSUME NEW o \in Tasks, NEW t \in Turns, TakesStart(o, t) PROVE StartInv'
  <2> DEFINE z == SessionOf[t]
             r == pendingStart[z].run
  <2>1. /\ z \in Sessions /\ r \in Runs
        /\ pc[o] # "persist" /\ pc'[o] = "persist"
        /\ job'[o].run = r /\ job'[o].gen = pendingStart[z].gen /\ job'[o].turn = t
        /\ \A q \in Tasks \ {o} : pc'[q] = pc[q] /\ job'[q] = job[q]
        /\ \A s \in Sessions \ {z} : pendingStart'[s] = pendingStart[s]
        /\ pendingStart'[z].run = NoRun
        /\ UNCHANGED active
    BY <1>0, <1>4, <1>n DEF TakesStart, MapsTypeOK, Turns
  <2>2. /\ SessionOf[r] = z /\ pc[r] \in Asked
        /\ active[z].run = r => active[z].turn = NoRun /\ active[z].gen = pendingStart[z].gen
    BY <1>n, <2>1 DEF StartInv
  <2>3. \A s \in Sessions : active'[s].run # NoRun =>
            /\ SessionOf[active'[s].run] = s
            /\ pc'[active'[s].run] # "idle"
            /\ active'[s].turn # NoRun => pc'[active'[s].run] \in Asked
    BY <1>0, <1>f, <2>1 DEF StartInv, Forward
  <2>4. \A s \in Sessions : pendingStart'[s].run # NoRun =>
            /\ SessionOf[pendingStart'[s].run] = s
            /\ pc'[pendingStart'[s].run] \in Asked
            /\ active'[s].run = pendingStart'[s].run =>
                   active'[s].turn = NoRun /\ active'[s].gen = pendingStart'[s].gen
    BY <1>0, <1>f, <2>1 DEF StartInv, Forward
  <2> HIDE DEF z, r
  <2>5. /\ r \in Runs /\ SessionOf[r] = SessionOf[job'[o].turn] /\ pc'[r] \in Asked
        /\ pendingStart'[SessionOf[job'[o].turn]].run # r
        /\ active'[SessionOf[job'[o].turn]].run = r =>
               active'[SessionOf[job'[o].turn]].turn = NoRun
               /\ active'[SessionOf[job'[o].turn]].gen = job'[o].gen
    BY <1>f, <1>n, <2>1, <2>2 DEF Forward, z
  <2>6. ASSUME NEW p \in Tasks, pc[p] = "persist", p # o
        PROVE  /\ pc'[p] = "persist" /\ job'[p] = job[p] /\ job[p].run # r
               /\ job[p].run \in Runs /\ SessionOf[job[p].run] = SessionOf[job[p].turn]
               /\ pc'[job[p].run] \in Asked
               /\ pendingStart'[SessionOf[job[p].turn]].run # job[p].run
               /\ active'[SessionOf[job[p].turn]].run = job[p].run =>
                      active'[SessionOf[job[p].turn]].turn = NoRun
                      /\ active'[SessionOf[job[p].turn]].gen = job[p].gen
    <3>1. SessionOf[job[p].turn] \in Sessions
      BY <1>t, <2>6
    <3>2. /\ job[p].run \in Runs /\ SessionOf[job[p].run] = SessionOf[job[p].turn] /\ pc[job[p].run] \in Asked
          /\ pendingStart[SessionOf[job[p].turn]].run # job[p].run
          /\ active[SessionOf[job[p].turn]].run = job[p].run =>
                 active[SessionOf[job[p].turn]].turn = NoRun
                 /\ active[SessionOf[job[p].turn]].gen = job[p].gen
      BY <2>6 DEF StartInv
    <3>3. job[p].run # r
      BY <2>2, <3>2 DEF r
    <3>4. pendingStart'[SessionOf[job[p].turn]].run # job[p].run
      BY <1>n, <2>1, <3>1, <3>2
    <3> QED
      BY <1>f, <2>1, <2>6, <3>2, <3>3, <3>4 DEF Forward
  <2>7. ASSUME NEW p \in Tasks, pc'[p] = "persist"
        PROVE  LET q0 == job'[p].run
                   s == SessionOf[job'[p].turn]
               IN /\ q0 \in Runs /\ SessionOf[q0] = s /\ pc'[q0] \in Asked
                  /\ pendingStart'[s].run # q0
                  /\ \A q \in Tasks : pc'[q] = "persist" /\ job'[q].run = q0 => q = p
                  /\ active'[s].run = q0 => active'[s].turn = NoRun /\ active'[s].gen = job'[p].gen
    <3>1. \A q \in Tasks \ {o} : pc'[q] = "persist" => pc[q] = "persist" /\ job'[q] = job[q] /\ job'[q].run # r
      BY <2>1, <2>6
    <3>2. CASE p = o
      BY <2>1, <2>5, <3>1, <3>2
    <3>3. CASE p # o
      <4>1. pc[p] = "persist"
        BY <2>1, <2>7, <3>3
      <4>2. \A q \in Tasks : pc'[q] = "persist" /\ job'[q].run = job[p].run => q = p
        BY <2>1, <2>6, <3>1, <3>3, <4>1 DEF StartInv
      <4> QED
        BY <2>6, <3>3, <4>1, <4>2
    <3> QED
      BY <3>2, <3>3
  <2> QED
    BY <2>3, <2>4, <2>7 DEF StartInv
<1>5. ASSUME NEW o \in Tasks, GivesTurn(o) PROVE StartInv'
  <2> DEFINE z == SessionOf[job[o].turn]
             r == job[o].run
  <2>1. /\ z \in Sessions
        /\ pc[o] = "persist" /\ pc'[o] # "persist" /\ UNCHANGED pendingStart
        /\ r \in Runs /\ SessionOf[r] = z /\ pc[r] \in Asked /\ pendingStart[z].run # r
        /\ \A q \in Tasks : pc[q] = "persist" /\ job[q].run = r => q = o
    BY <1>5, <1>t DEF GivesTurn, StartInv
  <2>2. /\ \A s \in Sessions : \/ active'[s] = active[s]
                               \/ s = z /\ active[s].run = r /\ active'[s].run = r
        /\ \A p \in Tasks : pc'[p] = "persist" => pc[p] = "persist" /\ job'[p] = job[p] /\ p # o
    BY <1>0, <1>5 DEF GivesTurn, TakesNoStart, MapsTypeOK
  <2> HIDE DEF z, r
  <2>3. \A s \in Sessions : active'[s].run # NoRun =>
            /\ SessionOf[active'[s].run] = s
            /\ pc'[active'[s].run] # "idle"
            /\ active'[s].turn # NoRun => pc'[active'[s].run] \in Asked
    BY <1>0, <1>f, <2>1, <2>2 DEF StartInv, Forward
  <2>4. \A s \in Sessions : pendingStart'[s].run # NoRun =>
            /\ SessionOf[pendingStart'[s].run] = s
            /\ pc'[pendingStart'[s].run] \in Asked
            /\ active'[s].run = pendingStart'[s].run =>
                   active'[s].turn = NoRun /\ active'[s].gen = pendingStart'[s].gen
    BY <1>0, <1>f, <2>1, <2>2 DEF StartInv, Forward
  <2>5. ASSUME NEW p \in Tasks, pc'[p] = "persist"
        PROVE  LET q0 == job'[p].run
                   s == SessionOf[job'[p].turn]
               IN /\ q0 \in Runs /\ SessionOf[q0] = s /\ pc'[q0] \in Asked
                  /\ pendingStart'[s].run # q0
                  /\ \A q \in Tasks : pc'[q] = "persist" /\ job'[q].run = q0 => q = p
                  /\ active'[s].run = q0 => active'[s].turn = NoRun /\ active'[s].gen = job'[p].gen
    <3>1. pc[p] = "persist" /\ job'[p] = job[p] /\ p # o /\ SessionOf[job[p].turn] \in Sessions
      BY <1>t, <2>2, <2>5
    <3>2. \A q \in Tasks : pc'[q] = "persist" => pc[q] = "persist" /\ job'[q] = job[q]
      BY <2>2
    <3>3. job[p].run \in Runs /\ pc[job[p].run] \in Asked /\ job[p].run # r
      BY <2>1, <3>1 DEF StartInv
    <3> QED
      BY <1>f, <2>1, <2>2, <3>1, <3>2, <3>3 DEF StartInv, Forward
  <2> QED
    BY <2>3, <2>4, <2>5 DEF StartInv
<1> HIDE DEF TurnAssumption
<1> QED
    BY <1>1, <1>2, <1>3, <1>4, <1>5, StepShapes

\* A step leaves no trace of a turn that was not asked for.
LEMMA KnownStep ==
    ASSUME TurnAssumption, TypeInv, GensInv, KnownInv, [Next]_vars
    PROVE  KnownInv'
<1> USE TurnAssumption DEF TurnAssumption
<1> DEFINE Hand == {"persist", "interrupting", "complete"}
           Servers == \A u \in Turns : server'[u].phase # "none" =>
                          server[u].phase # "none" \/ pc'[u] \in Started
           Hands == \A q \in Tasks : pc'[q] \in Hand =>
                        \/ pc[q] \in Hand /\ job'[q].turn = job[q].turn
                        \/ Known(job'[q].turn)
                        \/ pc'[job'[q].turn] \in Started
           Guards == \A w \in watchdogs' : (\E v \in watchdogs : v.turn = w.turn) \/ Known(w.turn)
           Holds == \A s \in Sessions : active'[s].turn \in {NoRun, active[s].turn} \/ Known(active'[s].turn)
           Ended == \A u \in Turns : outcome'[u] # "none" => outcome[u] # "none" \/ Known(u)
<1>0. /\ MapsTypeOK /\ TasksTypeOK /\ SeenTypeOK /\ OutsideTypeOK /\ JobsInv
      /\ Pump \in Tasks /\ Pump \notin Runs /\ NoActive.turn = NoRun
      /\ \A r \in Runs : r \in Tasks /\ r \in Turns /\ r # NoRun
    BY TypeParts DEF TypeInv, Tasks, Turns, NoActive
<1>f. Forward
    BY StepShapes
<1>s. UNCHANGED server => Servers
    OBVIOUS
<1>h. UNCHANGED <<pc, job>> => Hands
    OBVIOUS
<1>g. UNCHANGED watchdogs => Guards
    OBVIOUS
<1>v. UNCHANGED active => Holds
    OBVIOUS
<1>e. UNCHANGED outcome => Ended
    OBVIOUS
<1>j. \A q \in Tasks : pc[q] \in Hand => Known(job[q].turn)
    BY DEF Known
<1>w. \A w \in watchdogs : Known(w.turn)
    BY DEF Known
<1>r. ASSUME NEW p \in Tasks, Return(p) PROVE Hands
  <2>1. /\ pc'[p] = IF p = Pump THEN "idle" ELSE "done"
        /\ \A q \in Tasks \ {p} : pc'[q] = pc[q] /\ job'[q] = job[q]
    BY <1>0, <1>r, ReturnType
  <2> QED
    BY <2>1
<1>i. ASSUME NEW p \in Tasks, NEW s, NEW g, NEW t, NEW owner, SendInterrupt(p, s, g, t, owner), Known(t)
      PROVE  Hands
  <2>1. CASE Return(p)
    BY <1>r, <2>1
  <2>2. CASE ~Return(p)
    <3>1. PICK n : job' = [job EXCEPT ![p] = [NoJob EXCEPT !.gen = g, !.run = owner.run, !.turn = t,
                                                    !.attempt = n]]
      BY <1>i, <2>2 DEF SendInterrupt
    <3>2. Goto(p, "interrupting")
      BY <1>i, <2>2 DEF SendInterrupt
    <3>3. job'[p].turn = t /\ \A q \in Tasks \ {p} : pc'[q] = pc[q] /\ job'[q] = job[q]
      BY <1>0, <3>1, <3>2 DEF Goto, TasksTypeOK, NoJob
    <3> QED
      BY <1>i, <3>3
  <2> QED
    BY <2>1, <2>2
<1>l. LetsGo => Holds
    BY <1>0 DEF LetsGo
<1>k. ASSUME Servers, Hands, Guards, Holds, Ended PROVE KnownInv'
  <2> SUFFICES ASSUME NEW t \in Turns, Known(t)' PROVE pc'[t] \in Started
    BY DEF KnownInv
  <2>1. Known(t) => pc'[t] \in Started
    BY <1>f DEF KnownInv, Forward, Turns
  <2>2. CASE server'[t].phase # "none"
    BY <1>k, <2>1, <2>2 DEF Known
  <2>3. CASE \E p \in Tasks : pc'[p] \in Hand /\ job'[p].turn = t
    BY <1>j, <1>k, <2>1, <2>3
  <2>4. CASE \E w \in watchdogs' : w.turn = t
    BY <1>k, <1>w, <2>1, <2>4
  <2>5. CASE \E s \in Sessions : active'[s].turn = t
    BY <1>0, <1>k, <2>1, <2>5 DEF Known, Turns
  <2>6. CASE outcome'[t] # "none"
    BY <1>k, <2>1, <2>6 DEF Known
  <2> QED
    BY <2>2, <2>3, <2>4, <2>5, <2>6 DEF Known
<1> HIDE DEF Servers, Hands, Guards, Holds, Ended, Hand
<1>1. CASE TransportStep \/ \E t \in Turns : ServerStep(t)
  <2>1. Outer
    BY <1>1, OuterSteps
  <2>2. Servers
    BY <2>1 DEF Outer, Servers
  <2> QED
    BY <1>e, <1>g, <1>h, <1>k, <1>v, <2>1, <2>2 DEF Outer, engine, maps, tasks, seen
<1>2. ASSUME NEW r \in Runs,
             \/ BeginRun(r) \/ Prepare(r) \/ ReadStatus(r) \/ LoadThread(r) \/ BindThread(r)
             \/ RecordResumed(r) \/ InsertStart(r) \/ SendTurnStart(r)
      PROVE  KnownInv'
  <2>1. UNCHANGED <<watchdogs, outcome>>
    BY <1>2
       DEF BeginRun, Prepare, ReadStatus, LoadThread, BindThread, RecordResumed, InsertStart, SendTurnStart,
           seen
  <2>2. PICK label \in {"prepare", "done", "status", "threadStart", "ready", "resume", "resumed", "bind",
                        "threadStarted", "turnStart", "turnWait"} : Goto(r, label)
    BY <1>2
       DEF BeginRun, Prepare, ReadStatus, LoadThread, BindThread, RecordResumed, InsertStart, SendTurnStart
  <2>3. UNCHANGED job \/ job' = [job EXCEPT ![r].gen = current]
    BY <1>2
       DEF BeginRun, Prepare, ReadStatus, LoadThread, BindThread, RecordResumed, InsertStart, SendTurnStart
  <2>4. Hands
    <3>1. /\ pc'[r] \notin {"persist", "interrupting", "complete"}
          /\ \A q \in Tasks \ {r} : pc'[q] = pc[q]
          /\ \A q \in Tasks : job'[q].turn = job[q].turn
      BY <1>0, <2>2, <2>3 DEF Goto, TasksTypeOK, JobType
    <3> QED
      BY <1>0, <3>1 DEF Hands, Hand
  <2>5. Holds
    <3>1. \A s \in Sessions : active'[s].turn \in {NoRun, active[s].turn}
      BY <1>0, <1>2
         DEF BeginRun, Prepare, ReadStatus, LoadThread, BindThread, RecordResumed, InsertStart, SendTurnStart,
             Adopt, Owns, maps, MapsTypeOK, ActiveType, NoActive
    <3> QED
      BY <3>1 DEF Holds
  <2>6. Servers
    <3>1. CASE SendTurnStart(r)
      <4>1. pc'[r] = "turnWait" /\ \A u \in Turns \ {r} : server'[u] = server[u]
        BY <1>0, <3>1 DEF SendTurnStart, Goto, TasksTypeOK, OutsideTypeOK
      <4> QED
        BY <4>1 DEF Servers, Started
    <3>2. CASE ~SendTurnStart(r)
      BY <1>2, <1>s, <3>2
         DEF BeginRun, Prepare, ReadStatus, LoadThread, BindThread, RecordResumed, InsertStart, outside
    <3> QED
      BY <3>1, <3>2
  <2> QED
    BY <1>e, <1>g, <1>k, <2>1, <2>4, <2>5, <2>6
<1>3. ASSUME NEW p \in Tasks, Refuse(p), UNCHANGED <<transportVars, outside>> PROVE KnownInv'
  <2>1. Return(p) /\ UNCHANGED <<watchdogs, outcome, server>>
    BY <1>0, <1>3, RefuseType DEF Refuse, FailUntouched, outside
  <2>2. Holds
    BY <1>3, <1>l, RefuseShape
  <2> QED
    BY <1>e, <1>g, <1>k, <1>r, <1>s, <2>1, <2>2
<1>4. ASSUME NEW r \in Runs, ReceiveTurn(r) PROVE KnownInv'
  <2>1. /\ r \in Tasks /\ r \in Turns /\ pc[r] = "turnWait" /\ Activate(r, job[r].gen, r)
        /\ UNCHANGED <<transportVars, outside>>
    BY <1>4 DEF ReceiveTurn, Tasks, Turns
  <2>2. CASE ~Refuse(r)
    <3>1. UNCHANGED <<watchdogs, outcome, server, active>>
      BY <2>1, <2>2, Zenon DEF Activate, FailUntouched, outside
    <3>2. Return(r) \/ (Goto(r, "persist") /\ \E j : job' = [job EXCEPT ![r] = j])
      BY <2>1, <2>2 DEF Activate
    <3>3. Hands
      <4>1. CASE Return(r)
        BY <1>r, <2>1, <4>1
      <4>2. CASE Goto(r, "persist") /\ ~Return(r)
        <5>1. job'[r].turn = r
          <6>1. PICK n : job' = [job EXCEPT ![r] = [NoJob EXCEPT !.gen = job[r].gen, !.run = n, !.turn = r]]
            BY <2>1, <2>2, <4>2 DEF Activate
          <6> QED
            BY <1>0, <6>1 DEF TasksTypeOK, NoJob
        <5>2. pc'[r] = "persist" /\ \A q \in Tasks \ {r} : pc'[q] = pc[q] /\ job'[q] = job[q]
          BY <1>0, <3>2, <4>2 DEF Goto, TasksTypeOK
        <5> QED
          BY <5>1, <5>2 DEF Hands, Started
      <4> QED
        BY <3>2, <4>1, <4>2
    <3> QED
      BY <1>e, <1>g, <1>k, <1>s, <1>v, <3>1, <3>3
  <2> QED
    BY <1>3, <2>1, <2>2
<1>5. ASSUME NEW p \in Tasks, PublishTurn(p) PROVE KnownInv'
  <2> DEFINE g == job[p].gen
             t == job[p].turn
             s == SessionOf[t]
             owner == IF active[s].run = job[p].run
                      THEN [run |-> job[p].run, gen |-> g, turn |-> t] ELSE active[s]
  <2>1. /\ pc[p] = "persist"
        /\ active' = [active EXCEPT ![s] = owner]
        /\ SendInterrupt(p, s, g, t, owner) \/ Return(p)
        /\ UNCHANGED <<watchdogs, outcome, server>>
    BY <1>5, Zenon DEF PublishTurn, outside
  <2>2. Known(t)
    BY <1>j, <2>1 DEF Hand
  <2>3. Holds
    <3>1. \A z \in Sessions : active'[z] = active[z] \/ active'[z].turn \in {t, active[z].turn}
      BY <1>0, <2>1 DEF MapsTypeOK
    <3> QED
      BY <2>2, <3>1 DEF Holds
  <2>4. Hands
    <3> HIDE DEF owner, s, t, g
    <3> QED
      BY <1>i, <1>r, <2>1, <2>2
  <2> QED
    BY <1>e, <1>g, <1>k, <1>s, <2>1, <2>3, <2>4
<1>6. ASSUME NEW p \in Tasks, InterruptAccepted(p) \/ InterruptFails(p) PROVE KnownInv'
  <2>1. /\ pc[p] = "interrupting" /\ Return(p)
        /\ \A w \in watchdogs' : w \in watchdogs \/ w.turn = job[p].turn
        /\ UNCHANGED <<active, outcome, server>>
    BY <1>6 DEF InterruptAccepted, InterruptFails, seen, outside
  <2>2. Guards
    BY <1>j, <2>1 DEF Guards, Hand
  <2> QED
    BY <1>e, <1>k, <1>r, <1>s, <1>v, <2>1, <2>2
<1>7. ASSUME NEW i \in Stops, NEW s \in Sessions, Stop(i, s) PROVE KnownInv'
  <2>1. i \in Tasks /\ UNCHANGED <<active, watchdogs, outcome, server>>
    BY <1>7 DEF Stop, outside, Tasks
  <2>2. Return(i) \/ SendInterrupt(i, s, active[s].gen, active[s].turn, active[s])
    BY <1>7 DEF Stop
  <2>3. Known(active[s].turn)
    BY DEF Known
  <2> QED
    BY <1>e, <1>g, <1>i, <1>k, <1>r, <1>s, <1>v, <2>1, <2>2, <2>3
<1>8. ASSUME HandleStarted \/ HandleCompleted PROVE KnownInv'
  <2> DEFINE e == Head(events)
  <2>1. /\ UNCHANGED <<active, watchdogs, outcome, server>>
        /\ e \in Queued /\ e.kind # "closed"
    BY <1>8, PumpReadsType DEF HandleStarted, HandleCompleted, PumpReads, maps, seen
  <2>2. Known(e.turn)
    BY <2>1 DEF GensInv, Known
  <2>3. \/ UNCHANGED <<pc, job>>
        \/ /\ \E label : Goto(Pump, label)
           /\ job'[Pump].turn = e.turn
           /\ \A q \in Tasks \ {Pump} : job'[q] = job[q]
    <3>1. \/ UNCHANGED <<pc, job>>
          \/ /\ \E label : Goto(Pump, label)
             /\ \E j : j.turn = e.turn /\ job' = [job EXCEPT ![Pump] = j]
      <4>1. CASE HandleStarted
        <5>1. [NoJob EXCEPT !.gen = e.gen, !.run = pendingStart[SessionOf[e.turn]].run,
                            !.turn = e.turn].turn = e.turn
          BY DEF NoJob
        <5> QED
          BY <4>1, <5>1, Zenon DEF HandleStarted
      <4>2. CASE HandleCompleted
        <5> DEFINE z == SessionOf[e.turn]
                   j == [NoJob EXCEPT !.gen = e.gen, !.turn = e.turn, !.owner = (projected[e.turn] = e.gen),
                            !.exact = (activeThread[z] = [gen |-> e.gen, turn |-> e.turn]
                                       /\ active[z].gen = e.gen /\ active[z].turn = e.turn)]
        <5>1. j.turn = e.turn
          BY DEF NoJob
        <5>2. Goto(Pump, "complete") /\ job' = [job EXCEPT ![Pump] = j]
          BY <4>2 DEF HandleCompleted
        <5> QED
          BY <5>1, <5>2, Zenon
      <4> QED
        BY <1>8, <4>1, <4>2
    <3> QED
      BY <1>0, <3>1 DEF TasksTypeOK
  <2>4. Hands
    <3>1. CASE UNCHANGED <<pc, job>>
      BY <1>h, <3>1
    <3>2. CASE /\ \E label : Goto(Pump, label)
               /\ job'[Pump].turn = e.turn
               /\ \A q \in Tasks \ {Pump} : job'[q] = job[q]
      BY <1>0, <2>2, <3>2 DEF Goto, TasksTypeOK, Hands
    <3> QED
      BY <2>3, <3>1, <3>2
  <2> QED
    BY <1>e, <1>g, <1>k, <1>s, <1>v, <2>1, <2>4
<1>9. ASSUME CompleteTurn \/ TerminalUnsaved \/ TerminalDropped PROVE KnownInv'
  <2> DEFINE t == job[Pump].turn
  <2>1. /\ pc[Pump] = "complete" /\ Return(Pump) /\ UNCHANGED <<watchdogs, server>>
        /\ \/ UNCHANGED <<active, outcome>>
           \/ \E ending : EndExactTurn(job[Pump].gen, t, job[Pump].exact, ending)
    BY <1>9 DEF CompleteTurn, TerminalUnsaved, TerminalDropped, maps, seen, outside
  <2>2. Known(t)
    BY <1>0, <1>j, <2>1 DEF Hand
  <2>3. Holds
    BY <1>0, <2>1 DEF Holds, EndExactTurn, MapsTypeOK
  <2>4. Ended
    BY <1>0, <2>1, <2>2 DEF Ended, EndExactTurn, SeenTypeOK
  <2> QED
    BY <1>0, <1>g, <1>k, <1>r, <1>s, <2>1, <2>3, <2>4
<1>10. ASSUME PumpIgnores \/ HandleClosed PROVE KnownInv'
  <2>1. UNCHANGED <<pc, job, watchdogs, outcome, server>>
    BY <1>10 DEF PumpIgnores, HandleClosed, PumpReads, engine, tasks, seen
  <2>2. Holds
    BY <1>0, <1>10 DEF PumpIgnores, HandleClosed, engine, maps, Holds
  <2> QED
    BY <1>e, <1>g, <1>h, <1>k, <1>s, <2>1, <2>2
<1>11. ASSUME NEW w \in watchdogs, WatchdogStep(w) PROVE KnownInv'
  <2>1. UNCHANGED <<pc, job, server>>
    BY <1>11 DEF WatchdogStep, WatchdogWakes, WatchdogChecks, WatchdogCancels, WatchdogAppendFails, outside
  <2>2. Guards
    <3>1. \A v \in watchdogs' : v \in watchdogs \/ v.turn = w.turn
      BY <1>0, <1>11
         DEF WatchdogStep, WatchdogWakes, WatchdogChecks, WatchdogCancels, WatchdogAppendFails, Become,
             TasksTypeOK, WatchdogType
    <3> QED
      BY <3>1 DEF Guards
  <2>3. Holds
    BY <1>0, <1>11
       DEF WatchdogStep, WatchdogWakes, WatchdogChecks, WatchdogCancels, WatchdogAppendFails, maps, MapsTypeOK,
           Holds
  <2>4. \A u \in Turns : outcome'[u] # outcome[u] => u = w.turn
    BY <1>0, <1>11
       DEF WatchdogStep, WatchdogWakes, WatchdogChecks, WatchdogCancels, WatchdogAppendFails, seen, SeenTypeOK
  <2>5. Ended
    BY <1>w, <2>4 DEF Ended
  <2> QED
    BY <1>h, <1>k, <1>s, <2>1, <2>2, <2>3, <2>5
<1>12. ASSUME ShutdownStep \/ UNCHANGED vars PROVE KnownInv'
  <2>1. UNCHANGED <<watchdogs, outcome, server>>
    BY <1>12 DEF ShutdownStep, CloseTransport, DrainRuns, FinishShutdown, vars, engine, tasks, seen, outside
  <2>2. Holds
    BY <1>0, <1>12 DEF ShutdownStep, CloseTransport, DrainRuns, FinishShutdown, vars, engine, maps, Holds
  <2>3. Hands
    <3>1. CASE UNCHANGED <<pc, job>>
      BY <1>h, <3>1
    <3>2. CASE FinishShutdown
      <4>1. pc'[Pump] = "done" /\ \A q \in Tasks \ {Pump} : pc'[q] = pc[q] /\ job'[q] = job[q]
        BY <1>0, <3>2 DEF FinishShutdown, Goto, TasksTypeOK
      <4> QED
        BY <4>1 DEF Hands, Hand
    <3> QED
      BY <1>12, <3>1, <3>2 DEF ShutdownStep, CloseTransport, DrainRuns, vars, engine, tasks
  <2> QED
    BY <1>e, <1>g, <1>k, <1>s, <2>1, <2>2, <2>3
<1> HIDE DEF TurnAssumption
<1>13. ASSUME NEW r \in Runs, RunStep(r) PROVE KnownInv'
  <2>1. ASSUME RunFails(r) PROVE KnownInv'
    <3>1. r \in Tasks /\ Refuse(r) /\ UNCHANGED <<transportVars, outside>>
      BY <2>1 DEF RunFails, Refuse, Tasks
    <3> QED
      BY <1>3, <3>1
  <2> QED
    BY <1>2, <1>4, <1>13, <2>1, Zenon DEF RunStep
<1>14. ASSUME NEW p \in Tasks, WaitStep(p) PROVE KnownInv'
  <2>1. ASSUME PersistFails(p) PROVE KnownInv'
    BY <1>3, <2>1 DEF PersistFails
  <2> QED
    BY <1>5, <1>6, <1>14, <2>1, Zenon DEF WaitStep
<1>15. CASE PumpStep
    BY <1>8, <1>9, <1>10, <1>15, Zenon DEF PumpStep
<1> QED
    BY <1>1, <1>2, <1>7, <1>11, <1>12, <1>13, <1>14, <1>15, Zenon DEF Next

\* What a step does to a session: it keeps it, frees it, gives it to a run that has
\* no turn yet, or gives it the turn its run was waiting for.
LEMMA SessionStep ==
    ASSUME TurnAssumption, TypeInv, StartInv, [Next]_vars, NEW s \in Sessions
    PROVE  \/ active'[s] = active[s]
           \/ active'[s] = NoActive
           \/ /\ active'[s].run \in Runs /\ pc[active'[s].run] \notin Started
              /\ active[s].run \in {NoRun, active'[s].run}
              /\ active'[s].gen \in {NoGeneration, current}
           \/ /\ active'[s].run = active[s].run /\ active[s].turn = NoRun
              /\ active'[s].gen = active[s].gen
<1> USE TurnAssumption DEF TurnAssumption
<1>0. MapsTypeOK /\ JobsInv
    BY TypeParts DEF TypeInv
<1>1. CASE LetsGo
    BY <1>1 DEF LetsGo
<1>2. ASSUME NEW r \in Runs, TakesSession(r)
      PROVE  \/ active'[s] = active[s]
             \/ /\ active'[s].run = r /\ pc[r] \notin Started /\ active[s].run = NoRun
                /\ active'[s].gen = NoGeneration
    BY <1>0, <1>2 DEF TakesSession, MapsTypeOK, NoActive, Started
<1>3. ASSUME NEW r \in Runs, CountsOn(r)
      PROVE  \/ active'[s] = active[s]
             \/ /\ active'[s].run = r /\ pc[r] \notin Started /\ active[s].run = r
                /\ active'[s].gen = current
    BY <1>0, <1>3 DEF CountsOn, Adopt, Owns, MapsTypeOK, ActiveType, Started
<1>4. ASSUME NEW p \in Tasks, NEW t \in Turns, TakesStart(p, t) PROVE active'[s] = active[s]
    BY <1>4 DEF TakesStart
<1>5. ASSUME NEW p \in Tasks, GivesTurn(p)
      PROVE  \/ active'[s] = active[s]
             \/ /\ active'[s].run = active[s].run /\ active[s].turn = NoRun
                /\ active'[s].gen = active[s].gen
  <2>1. /\ pc[p] = "persist"
        /\ \/ active'[s] = active[s]
           \/ /\ s = SessionOf[job[p].turn] /\ active[s].run = job[p].run
              /\ active'[s] = [run |-> job[p].run, gen |-> job[p].gen, turn |-> job[p].turn]
    BY <1>0, <1>5 DEF GivesTurn, MapsTypeOK
  <2>2. s = SessionOf[job[p].turn] /\ active[s].run = job[p].run =>
            active[s].turn = NoRun /\ active[s].gen = job[p].gen
    BY <2>1 DEF StartInv
  <2> QED
    BY <2>1, <2>2
<1> HIDE DEF TurnAssumption
<1> QED
    BY <1>1, <1>2, <1>3, <1>4, <1>5, StepShapes

\* The pump decides on a terminal in one step, and a watchdog on a cancellation.
LEMMA DecidesStep ==
    ASSUME TurnAssumption, TypeInv, [Next]_vars
    PROVE  /\ \/ HandleCompleted
              \/ pc'[Pump] = "complete" => pc[Pump] = "complete" /\ job'[Pump] = job[Pump]
           /\ \A w \in watchdogs' : w.stage = "append" =>
                  \/ w \in watchdogs
                  \/ /\ active[SessionOf[w.turn]] = [run |-> w.run, gen |-> w.gen, turn |-> w.turn]
                     /\ UNCHANGED active
           /\ \/ UNCHANGED outcome
              \/ CompleteTurn \/ TerminalUnsaved
              \/ \E w \in watchdogs : WatchdogCancels(w)
<1> USE TurnAssumption DEF TurnAssumption
<1>0. /\ TasksTypeOK /\ JobsInv /\ Pump \in Tasks /\ Pump \notin Runs
    BY TypeParts DEF TypeInv, Tasks
<1> DEFINE Same == pc'[Pump] = "complete" => pc[Pump] = "complete" /\ job'[Pump] = job[Pump]
           Watched == \A w \in watchdogs' : w.stage = "append" =>
                          \/ w \in watchdogs
                          \/ /\ active[SessionOf[w.turn]] = [run |-> w.run, gen |-> w.gen, turn |-> w.turn]
                             /\ UNCHANGED active
<1>a. UNCHANGED <<pc, job>> => Same
    OBVIOUS
<1>b. UNCHANGED watchdogs => Watched
    OBVIOUS
<1>r. ASSUME NEW p \in Tasks, Return(p) PROVE Same
    BY <1>0, <1>r, ReturnType
<1>g. ASSUME NEW p \in Tasks, NEW label, label # "complete", Goto(p, label),
             p = Pump \/ job'[Pump] = job[Pump]
      PROVE  Same
    BY <1>0, <1>g DEF Goto, TasksTypeOK
<1>i. ASSUME NEW p \in Tasks, NEW s, NEW g, NEW t, NEW owner, SendInterrupt(p, s, g, t, owner) PROVE Same
  <2>1. CASE Return(p)
    BY <1>r, <2>1
  <2>2. CASE ~Return(p)
    <3>1. Goto(p, "interrupting") /\ \E j : job' = [job EXCEPT ![p] = j]
      BY <1>i, <2>2 DEF SendInterrupt
    <3>2. p = Pump \/ job'[Pump] = job[Pump]
      BY <1>0, <3>1 DEF TasksTypeOK
    <3> QED
      BY <1>g, <3>1, <3>2
  <2> QED
    BY <2>1, <2>2
<1> HIDE DEF Same, Watched
<1>1. CASE TransportStep \/ \E t \in Turns : ServerStep(t)
  <2>1. UNCHANGED engine
    BY <1>1
       DEF TransportStep, TransportMoves, AnnounceLoss, ServerStep, ReplyTurnStart, NotifyStarted, NotifyCompleted
  <2> QED
    BY <1>a, <1>b, <2>1 DEF engine, tasks, seen
<1>2. ASSUME NEW r \in Runs, BeginRun(r) \/ RunStep(r) PROVE Same /\ Watched /\ UNCHANGED outcome
  <2>1. r \in Tasks /\ r # Pump
    BY <1>0 DEF Tasks
  <2>2. UNCHANGED <<watchdogs, outcome>>
    BY <1>2, Zenon
       DEF BeginRun, RunStep, RunFails, Prepare, ReadStatus, LoadThread, BindThread, RecordResumed, InsertStart,
           SendTurnStart, ReceiveTurn, Activate, Refuse, FailUntouched, seen
  <2>3. Same
    <3>1. CASE Return(r)
      BY <1>r, <2>1, <3>1
    <3>2. CASE ~Return(r)
      <4>1. \E label \in {"prepare", "done", "status", "threadStart", "ready", "resume", "resumed", "bind",
                          "threadStarted", "turnStart", "turnWait", "persist"} : Goto(r, label)
        BY <1>2, <2>1, <3>2
           DEF BeginRun, RunStep, RunFails, Prepare, ReadStatus, LoadThread, BindThread, RecordResumed,
               InsertStart, SendTurnStart, ReceiveTurn, Activate, Refuse, Fail
      <4>2. UNCHANGED job \/ \E j : job' = [job EXCEPT ![r] = j]
        BY <1>2, <2>1, <3>2
           DEF BeginRun, RunStep, RunFails, Prepare, ReadStatus, LoadThread, BindThread, RecordResumed,
               InsertStart, SendTurnStart, ReceiveTurn, Activate, Refuse, Fail
      <4>3. job'[Pump] = job[Pump]
        BY <1>0, <2>1, <4>2 DEF TasksTypeOK
      <4> QED
        BY <1>g, <2>1, <4>1, <4>3
    <3> QED
      BY <3>1, <3>2
  <2> QED
    BY <1>b, <2>2, <2>3
<1>3. ASSUME NEW p \in Tasks, WaitStep(p) PROVE Same /\ Watched /\ UNCHANGED outcome
  <2>1. UNCHANGED outcome
    BY <1>3 DEF WaitStep, PublishTurn, PersistFails, Refuse, FailUntouched, InterruptAccepted, InterruptFails, seen
  <2>2. Watched
    BY <1>3
       DEF WaitStep, PublishTurn, PersistFails, Refuse, FailUntouched, InterruptAccepted, InterruptFails, Watched
  <2>3. Return(p) \/ \E s, g, t, owner : SendInterrupt(p, s, g, t, owner)
    <3>1. PersistFails(p) => Return(p)
      BY DEF PersistFails, Refuse, Fail
    <3>2. PublishTurn(p) => Return(p) \/ \E s, g, t, owner : SendInterrupt(p, s, g, t, owner)
      BY Zenon DEF PublishTurn
    <3> QED
      BY <1>3, <3>1, <3>2 DEF WaitStep, InterruptAccepted, InterruptFails
  <2> QED
    BY <1>i, <1>r, <2>1, <2>2, <2>3
<1>4. ASSUME NEW i \in Stops, NEW s \in Sessions, Stop(i, s) PROVE Same /\ Watched /\ UNCHANGED outcome
  <2>1. i \in Tasks /\ UNCHANGED <<watchdogs, outcome>>
    BY <1>4 DEF Stop, Tasks
  <2>2. Return(i) \/ SendInterrupt(i, s, active[s].gen, active[s].turn, active[s])
    BY <1>4 DEF Stop
  <2> QED
    BY <1>b, <1>i, <1>r, <2>1, <2>2
<1>5. CASE PumpStep
  <2>1. UNCHANGED watchdogs
    BY <1>5, Zenon
       DEF PumpStep, PumpIgnores, HandleStarted, HandleCompleted, HandleClosed, CompleteTurn, TerminalUnsaved,
           TerminalDropped, engine, tasks
  <2>2. UNCHANGED outcome \/ CompleteTurn \/ TerminalUnsaved
    BY <1>5, Zenon
       DEF PumpStep, PumpIgnores, HandleStarted, HandleCompleted, HandleClosed, TerminalDropped, engine, seen
  <2>3. HandleCompleted \/ Same
    <3>1. PumpIgnores \/ HandleClosed => Same
      BY <1>a DEF PumpIgnores, HandleClosed, engine, tasks
    <3>2. CompleteTurn \/ TerminalUnsaved \/ TerminalDropped => Same
      BY <1>0, <1>r DEF CompleteTurn, TerminalUnsaved, TerminalDropped
    <3>3. HandleStarted => UNCHANGED <<pc, job>> \/ Goto(Pump, "persist")
      BY DEF HandleStarted
    <3>4. HandleStarted => Same
      BY <1>0, <1>a, <1>g, <3>3
    <3> QED
      BY <1>5, <3>1, <3>2, <3>4 DEF PumpStep
  <2> QED
    BY <1>b, <2>1, <2>2, <2>3 DEF Same, Watched
<1>6. ASSUME NEW w \in watchdogs, WatchdogStep(w)
      PROVE  Same /\ Watched /\ (UNCHANGED outcome \/ WatchdogCancels(w))
  <2>1. UNCHANGED <<pc, job>> /\ (UNCHANGED outcome \/ WatchdogCancels(w))
    BY <1>6 DEF WatchdogStep, WatchdogWakes, WatchdogChecks, WatchdogCancels, WatchdogAppendFails, seen
  <2>2. Watched
    <3>1. CASE WatchdogCancels(w) \/ WatchdogAppendFails(w)
      BY <3>1 DEF WatchdogCancels, WatchdogAppendFails, Watched
    <3>2. CASE WatchdogWakes(w)
      <4>1. \A v \in watchdogs' : v \in watchdogs \/ v.stage = "woken"
        BY <1>0, <3>2 DEF WatchdogWakes, Become, TasksTypeOK, WatchdogType
      <4> QED
        BY <4>1 DEF Watched
    <3>3. CASE WatchdogChecks(w)
      <4>1. \/ watchdogs' = watchdogs \ {w}
            \/ /\ active[SessionOf[w.turn]] = [run |-> w.run, gen |-> w.gen, turn |-> w.turn]
               /\ Become(w, "append")
        BY <3>3 DEF WatchdogChecks
      <4>2. UNCHANGED active
        BY <3>3 DEF WatchdogChecks
      <4>3. LET v == [w EXCEPT !.stage = "append"] IN v.run = w.run /\ v.gen = w.gen /\ v.turn = w.turn
        BY <1>0 DEF TasksTypeOK, WatchdogType
      <4> QED
        BY <4>1, <4>2, <4>3 DEF Watched, Become
    <3> QED
      BY <1>6, <3>1, <3>2, <3>3 DEF WatchdogStep
  <2> QED
    BY <1>a, <2>1, <2>2
<1>7. CASE ShutdownStep \/ UNCHANGED vars
  <2>1. UNCHANGED <<watchdogs, outcome>>
    BY <1>7 DEF ShutdownStep, CloseTransport, DrainRuns, FinishShutdown, vars, engine, tasks, seen
  <2>2. UNCHANGED <<pc, job>> \/ Goto(Pump, "done")
    BY <1>7 DEF ShutdownStep, CloseTransport, DrainRuns, FinishShutdown, vars, engine, tasks
  <2>3. Goto(Pump, "done") => Same
    BY <1>0, <1>g
  <2> QED
    BY <1>a, <1>b, <2>1, <2>2, <2>3 DEF Same, Watched
<1> HIDE DEF TurnAssumption
<1> QED
    BY <1>1, <1>2, <1>3, <1>4, <1>5, <1>6, <1>7, Zenon DEF Next, Same, Watched

\* What was ended has lost its session, and what is being ended is what was decided.
LEMMA EndsStep ==
    ASSUME TurnAssumption, TypeInv, KnownInv, StartInv, EndsInv, [Next]_vars
    PROVE  EndsInv'
<1> USE TurnAssumption DEF TurnAssumption
<1>0. /\ MapsTypeOK /\ TasksTypeOK /\ SeenTypeOK /\ JobsInv
      /\ Pump \in Tasks /\ Pump \notin Runs /\ NoActive.run = NoRun
      /\ \A t \in Turns : t \in Runs /\ t # NoRun /\ SessionOf[t] \in Sessions
    BY TypeParts DEF TypeInv, Tasks, Turns, NoActive
\* A turn with a trace does not come back to a session, and keeps what it has.
<1>a. ASSUME NEW s \in Sessions, NEW t \in Turns, Known(t), active'[s].run = t
      PROVE  active[s].run = t /\ (active[s].turn # NoRun => active'[s] = active[s])
  <2>1. pc[t] \in Started
    BY <1>a DEF KnownInv
  <2> QED
    BY <1>0, <1>a, <2>1, SessionStep
<1>b. ASSUME NEW s \in Sessions, active[s].run # NoRun PROVE SessionOf[active[s].run] = s
    BY <1>b DEF StartInv
<1>1. ASSUME NEW t \in Turns, outcome'[t] # "none" PROVE active'[SessionOf[t]].run # t
  <2> DEFINE s == SessionOf[t]
  <2>1. CASE outcome[t] # "none"
    BY <1>0, <1>a, <2>1 DEF EndsInv, Known
  <2>2. CASE outcome[t] = "none" /\ (CompleteTurn \/ TerminalUnsaved)
    <3>1. /\ pc[Pump] = "complete" /\ job[Pump].turn \in Turns
          /\ \E ending : EndExactTurn(job[Pump].gen, job[Pump].turn, job[Pump].exact, ending)
      BY <1>0, <2>2 DEF CompleteTurn, TerminalUnsaved, JobsInv
    <3>2. t = job[Pump].turn /\ job[Pump].exact
      BY <1>0, <1>1, <2>2, <3>1 DEF EndExactTurn, SeenTypeOK
    <3>3. active[s].run = t => active[s].turn = t /\ active[s].gen = job[Pump].gen
      BY <1>0, <3>1, <3>2 DEF EndsInv
    <3> QED
      BY <1>0, <3>1, <3>2, <3>3 DEF EndExactTurn, MapsTypeOK
  <2>3. ASSUME NEW w \in watchdogs, outcome[t] = "none", WatchdogCancels(w) PROVE active'[s].run # t
    <3>1. t = w.turn /\ w.stage = "append"
      BY <1>0, <1>1, <2>3 DEF WatchdogCancels, SeenTypeOK
    <3>2. active[s].run = t => active[s] = [run |-> w.run, gen |-> w.gen, turn |-> w.turn]
      BY <1>0, <3>1 DEF EndsInv
    <3> QED
      BY <1>0, <2>3, <3>1, <3>2 DEF WatchdogCancels, MapsTypeOK
  <2> QED
    BY <1>1, <2>1, <2>2, <2>3, DecidesStep
<1>2. ASSUME pc'[Pump] = "complete", job'[Pump].exact, NEW s \in Sessions, active'[s].run = job'[Pump].turn
      PROVE  active'[s].turn = job'[Pump].turn /\ active'[s].gen = job'[Pump].gen
  <2>1. CASE HandleCompleted
    <3> DEFINE e == Head(events)
               z == SessionOf[e.turn]
               exact == /\ activeThread[z] = [gen |-> e.gen, turn |-> e.turn]
                        /\ active[z].gen = e.gen /\ active[z].turn = e.turn
               j == [NoJob EXCEPT !.gen = e.gen, !.turn = e.turn, !.owner = (projected[e.turn] = e.gen),
                        !.exact = exact]
    <3>1. UNCHANGED active /\ e.turn \in Turns
      BY <2>1, PumpReadsType DEF HandleCompleted, maps
    <3>2. job' = [job EXCEPT ![Pump] = j]
      BY <2>1 DEF HandleCompleted
    <3>3. job'[Pump] = j
      BY <1>0, <3>2 DEF TasksTypeOK
    <3>4. j.exact = exact /\ j.turn = e.turn /\ j.gen = e.gen
      BY DEF NoJob
    <3>5. active[z].gen = e.gen /\ active[z].turn = e.turn
      BY <1>2, <3>3, <3>4
    <3> HIDE DEF j, z
    <3>6. s = z
      <4>1. active[s].run = e.turn
        BY <1>2, <3>1, <3>3, <3>4
      <4> QED
        BY <1>0, <1>b, <3>1, <4>1 DEF z
    <3> QED
      BY <3>1, <3>3, <3>4, <3>5, <3>6
  <2>2. CASE pc[Pump] = "complete" /\ job'[Pump] = job[Pump]
    <3>1. job[Pump].turn \in Turns /\ Known(job[Pump].turn)
      BY <1>0, <2>2 DEF JobsInv, Known
    <3>2. active[s].run = job[Pump].turn /\ (active[s].turn # NoRun => active'[s] = active[s])
      BY <1>2, <1>a, <2>2, <3>1
    <3>3. active[s].turn = job[Pump].turn /\ active[s].gen = job[Pump].gen
      BY <1>2, <2>2, <3>2 DEF EndsInv
    <3> QED
      BY <1>0, <2>2, <3>1, <3>2, <3>3
  <2> QED
    BY <1>2, <2>1, <2>2, DecidesStep
<1>3. ASSUME NEW w \in watchdogs', w.stage = "append", NEW s \in Sessions, active'[s].run = w.turn
      PROVE  active'[s] = [run |-> w.run, gen |-> w.gen, turn |-> w.turn]
  <2>1. CASE /\ active[SessionOf[w.turn]] = [run |-> w.run, gen |-> w.gen, turn |-> w.turn]
             /\ UNCHANGED active
    <3>1. w.turn \in Turns
      BY <1>3, TypeStep, TypeParts DEF TypeInv, TasksTypeOK, WatchdogType
    <3>2. SessionOf[w.turn] = s
      BY <1>0, <1>3, <1>b, <2>1, <3>1
    <3> QED
      BY <2>1, <3>2
  <2>2. CASE w \in watchdogs
    <3>1. w.turn \in Turns /\ Known(w.turn)
      BY <1>0, <2>2 DEF TasksTypeOK, WatchdogType, Known
    <3>2. active[s].run = w.turn /\ (active[s].turn # NoRun => active'[s] = active[s])
      BY <1>3, <1>a, <3>1
    <3>3. active[s] = [run |-> w.run, gen |-> w.gen, turn |-> w.turn]
      BY <1>3, <2>2, <3>2 DEF EndsInv
    <3> QED
      BY <1>0, <3>1, <3>2, <3>3
  <2> QED
    BY <1>3, <2>1, <2>2, DecidesStep
<1> QED
  BY <1>1, <1>2, <1>3 DEF EndsInv

\* No session keeps or takes a generation whose loss was handled.
LEMMA ReleasableStep ==
    ASSUME TurnAssumption, TypeInv, GensInv, StartInv, OwnersAreReleasable, [Next]_vars
    PROVE  OwnersAreReleasable'
<1>0. /\ current \notin announced
      /\ \A g \in Handled : g # NoGeneration /\ g # current
      /\ \A g \in Handled' : g # NoGeneration
    BY TypeStep, TypeParts DEF TypeInv, GensInv, TransportTypeOK, Handled, Generations, NoGeneration
<1> SUFFICES ASSUME NEW s \in Sessions, active'[s].gen \in Handled' PROVE FALSE
    BY DEF OwnersAreReleasable
<1>1. active'[s] = active[s] \/ active'[s].gen \in {NoGeneration, active[s].gen, current}
    BY SessionStep DEF NoActive
<1>2. active[s].gen \notin Handled
    BY DEF OwnersAreReleasable
<1>3. CASE active'[s].gen \in Handled
    BY <1>0, <1>1, <1>2, <1>3
<1>4. CASE active'[s].gen \notin Handled
  <2>1. HandleClosed /\ active'[s].gen = Head(events).gen
    BY <1>4, HandledStep
  <2>2. active'[s] = IF active[s].gen = Head(events).gen THEN NoActive ELSE active[s]
    BY <2>1 DEF HandleClosed, Expired
  <2>3. active'[s].gen = NoGeneration
    BY <2>1, <2>2 DEF NoActive
  <2> QED
    BY <1>0, <2>3
<1> QED
    BY <1>3, <1>4

\* The invariant holds initially.
LEMMA InitOverlapInv == ASSUME TurnAssumption, Init PROVE OverlapInv
<1> USE TurnAssumption DEF TurnAssumption, Init, NoActive, NoStart, NoJob, NoTurn
<1>1. TypeInv
    BY InitType
<1>2. /\ current = 0 /\ spawned = 0 /\ owed = {} /\ announced = {} /\ Queued = {}
    BY DEF TransportInit, NoGeneration, Queued
<1>3. GensInv
    BY <1>2 DEF GensInv, NoGeneration
<1>4. KnownInv
    BY DEF KnownInv, Known, Turns
<1>5. StartInv /\ EndsInv
    BY DEF StartInv, EndsInv, Tasks
<1>6. OwnersAreReleasable
    BY <1>2 DEF OwnersAreReleasable, Handled
<1> QED
    BY <1>1, <1>3, <1>4, <1>5, <1>6 DEF OverlapInv

\* The invariant holds of every execution.
LEMMA OverlapInvariance == Spec => []OverlapInv
<1>1. Init => OverlapInv
    BY TurnAssumption, InitOverlapInv
<1>2. OverlapInv /\ [Next]_vars => OverlapInv'
  <2> SUFFICES ASSUME OverlapInv, [Next]_vars PROVE OverlapInv'
    OBVIOUS
  <2>1. \A r \in Runs : pc[r] = "turnStart" => server[r].phase = "none"
    BY DEF OverlapInv, KnownInv, Known, Started, Turns
  <2>2. TypeInv' /\ GensInv'
    BY <2>1, TurnAssumption, TypeStep, GensStep DEF OverlapInv
  <2>3. KnownInv' /\ StartInv' /\ EndsInv' /\ OwnersAreReleasable'
    BY TurnAssumption, KnownStep, StartStep, EndsStep, ReleasableStep DEF OverlapInv
  <2> QED
    BY <2>2, <2>3 DEF OverlapInv
<1> QED
    BY <1>1, <1>2, PTL DEF Spec

\* However the runs of a session overlap, none is held under a generation whose loss
\* the pump has dealt with (run_turn, activate_pending_turn,
\* handle_transport_closed).
THEOREM OwnersAlwaysReleasable == Spec => []OwnersAreReleasable
<1>1. OverlapInv => OwnersAreReleasable
    BY DEF OverlapInv
<1> QED
    BY <1>1, OverlapInvariance, PTL

\* A known turn leaves its session for one of four reasons.
Leaves(old) ==
    \/ outcome[old.turn] = "none" /\ outcome'[old.turn] # "none"
    \/ ClosesNow(old.gen)
    \/ pc[old.run] # "done" /\ pc'[old.run] = "done"
    \/ gate' = "down"

\* A run that fails gives up what it owns.
LEMMA RefuseLeaves ==
    ASSUME TurnAssumption, TypeInv, NEW p \in Tasks, pc[p] # "done", Refuse(p), NEW s \in Sessions
    PROVE  active'[s] = active[s] \/ Leaves(active[s])
<1>0. MapsTypeOK /\ TasksTypeOK
    BY TypeParts DEF TypeInv
<1>1. CASE p \in Runs /\ Fail(p) /\ UNCHANGED FailUntouched
  <2>1. p # Pump /\ pc'[p] = "done" /\ SessionOf[p] \in Sessions
    BY <1>0, <1>1, ReturnType DEF Fail, TurnAssumption
  <2>2. active'[s] = active[s] \/ active[s].run = p
    BY <1>0, <1>1, <2>1 DEF Fail, Owns, MapsTypeOK
  <2> QED
    BY <2>1, <2>2 DEF Leaves
<1>2. CASE p = Pump /\ UNCHANGED active
    BY <1>2
<1> QED
    BY <1>1, <1>2 DEF Refuse


\* A session that runs its owner's own turn only loses it by what is about that turn.
LEMMA OwnLeavesStep ==
    ASSUME TurnAssumption, OverlapInv, [Next]_vars, NEW s \in Sessions,
           active[s].turn # NoRun, active[s].turn = active[s].run
    PROVE  active'[s] = active[s] \/ Leaves(active[s])
<1> USE TurnAssumption DEF TurnAssumption, OverlapInv
<1> DEFINE t == active[s].turn
<1>0. /\ MapsTypeOK /\ TasksTypeOK /\ SeenTypeOK /\ JobsInv /\ Pump \in Tasks
      /\ t \in Turns /\ Known(t) /\ pc[t] \in Started /\ SessionOf[t] = s
      /\ outcome[t] = "none"
  <2>1. MapsTypeOK /\ TasksTypeOK /\ SeenTypeOK /\ JobsInv /\ Pump \in Tasks
    BY TypeParts DEF TypeInv, Tasks
  <2>2. t \in Turns /\ Known(t)
    BY <2>1 DEF MapsTypeOK, ActiveType, MaybeRun, Turns, Known
  <2>3. SessionOf[t] = s
    BY <2>2 DEF StartInv
  <2>4. pc[t] \in Started /\ outcome[t] = "none"
    BY <2>1, <2>2, <2>3 DEF KnownInv, EndsInv, SeenTypeOK
  <2> QED
    BY <2>1, <2>2, <2>3, <2>4
<1>1. active'[s] = active[s] \/ active'[s] = NoActive
    BY <1>0, SessionStep
<1> HIDE DEF t
<1>2. ASSUME NEW p \in Tasks, pc[p] # "done", Refuse(p) PROVE active'[s] = active[s] \/ Leaves(active[s])
    BY <1>2, RefuseLeaves
<1>3. CASE TransportStep \/ \E u \in Turns : ServerStep(u)
    BY <1>3, OuterSteps DEF Outer, engine, maps
<1>4. ASSUME NEW r \in Runs,
             \/ BeginRun(r) \/ Prepare(r) \/ ReadStatus(r) \/ LoadThread(r) \/ BindThread(r)
             \/ RecordResumed(r) \/ InsertStart(r) \/ SendTurnStart(r)
      PROVE  active'[s] = active[s]
  <2>1. active'[s].run = active[s].run \/ (active[s].run = NoRun /\ active'[s].run = r)
    BY <1>0, <1>4
       DEF BeginRun, Prepare, ReadStatus, LoadThread, BindThread, RecordResumed, InsertStart, SendTurnStart,
           Adopt, Owns, maps, MapsTypeOK, ActiveType, NoActive
  <2> QED
    BY <1>0, <1>1, <2>1 DEF NoActive, t
<1>5. ASSUME NEW r \in Runs, RunFails(r) PROVE active'[s] = active[s] \/ Leaves(active[s])
  <2>1. r \in Tasks /\ pc[r] # "done" /\ Refuse(r)
    BY <1>5 DEF RunFails, Refuse, Tasks
  <2> QED
    BY <1>2, <2>1
<1>6. ASSUME NEW r \in Runs, ReceiveTurn(r) PROVE active'[s] = active[s] \/ Leaves(active[s])
  <2>1. r \in Tasks /\ pc[r] # "done" /\ Activate(r, job[r].gen, r)
    BY <1>6 DEF ReceiveTurn, Tasks
  <2>2. Refuse(r) \/ UNCHANGED active
    BY <2>1, Zenon DEF Activate
  <2> QED
    BY <1>2, <2>1, <2>2
<1>7. ASSUME NEW p \in Tasks, PersistFails(p) PROVE active'[s] = active[s] \/ Leaves(active[s])
    BY <1>2, <1>7 DEF PersistFails
<1>8. ASSUME NEW p \in Tasks, PublishTurn(p) PROVE active'[s] = active[s]
  <2>1. active'[s].run = active[s].run
    BY <1>0, <1>8 DEF PublishTurn, MapsTypeOK
  <2> QED
    BY <1>0, <1>1, <2>1 DEF NoActive, t
<1>9. ASSUME NEW p \in Tasks, InterruptAccepted(p) \/ InterruptFails(p) PROVE UNCHANGED active
    BY <1>9 DEF InterruptAccepted, InterruptFails
<1>10. ASSUME NEW i \in Stops, NEW z \in Sessions, Stop(i, z) PROVE UNCHANGED active
    BY <1>10 DEF Stop
<1>11. CASE PumpIgnores \/ HandleStarted \/ HandleCompleted \/ TerminalDropped
    BY <1>11 DEF PumpIgnores, HandleStarted, HandleCompleted, TerminalDropped, maps, engine
<1>12. CASE HandleClosed
  <2> DEFINE g == Head(events).gen
  <2>1. /\ PumpReads("closed")
        /\ active' = [z \in Sessions |-> IF Expired(active[z].gen, g) THEN NoActive ELSE active[z]]
    BY <1>12 DEF HandleClosed
  <2>2. active'[s] = active[s] \/ active[s].gen = g
    BY <2>1 DEF Expired
  <2> QED
    BY <2>1, <2>2 DEF Leaves, ClosesNow, PumpReads
<1>13. CASE CompleteTurn \/ TerminalUnsaved
  <2> DEFINE u == job[Pump].turn
             exact == job[Pump].exact
  <2>1. PICK ending \in {"completed", "unsaved"} : EndExactTurn(job[Pump].gen, u, exact, ending)
    BY <1>13 DEF CompleteTurn, TerminalUnsaved
  <2>2. u \in Turns /\ SessionOf[u] \in Sessions
    BY <1>0, <1>13 DEF CompleteTurn, TerminalUnsaved, JobsInv, Turns
  <2>3. active'[s] = active[s] \/ (exact /\ t = u)
    BY <1>0, <2>1, <2>2 DEF EndExactTurn, MapsTypeOK, t
  <2>4. exact => outcome'[u] = ending
    BY <1>0, <2>1, <2>2 DEF EndExactTurn, SeenTypeOK
  <2>5. ending # "none"
    OBVIOUS
  <2> HIDE DEF u, exact
  <2> QED
    BY <1>0, <2>3, <2>4, <2>5 DEF Leaves, t
<1>14. ASSUME NEW w \in watchdogs, WatchdogStep(w) PROVE active'[s] = active[s] \/ Leaves(active[s])
  <2>1. CASE WatchdogWakes(w) \/ WatchdogChecks(w) \/ WatchdogAppendFails(w)
    BY <2>1 DEF WatchdogWakes, WatchdogChecks, WatchdogAppendFails, maps
  <2>2. CASE WatchdogCancels(w)
    <3>1. w.turn \in Turns /\ SessionOf[w.turn] \in Sessions
      BY <1>0 DEF TasksTypeOK, WatchdogType, Turns
    <3>2. active'[s] = active[s] \/ t = w.turn
      BY <1>0, <2>2, <3>1 DEF WatchdogCancels, MapsTypeOK, t
    <3>3. outcome'[w.turn] = "cancelled"
      BY <1>0, <2>2, <3>1 DEF WatchdogCancels, SeenTypeOK
    <3> QED
      BY <1>0, <3>2, <3>3 DEF Leaves, t
  <2> QED
    BY <1>14, <2>1, <2>2 DEF WatchdogStep
<1>15. CASE ShutdownStep
    BY <1>15 DEF ShutdownStep, CloseTransport, DrainRuns, FinishShutdown, maps, Leaves
<1>16. CASE UNCHANGED vars
    BY <1>16 DEF vars, engine, maps
<1> HIDE DEF TurnAssumption, OverlapInv
<1>17. ASSUME NEW r \in Runs, BeginRun(r) \/ RunStep(r) PROVE active'[s] = active[s] \/ Leaves(active[s])
    BY <1>4, <1>5, <1>6, <1>17, Zenon DEF RunStep
<1>18. ASSUME NEW p \in Tasks, WaitStep(p) PROVE active'[s] = active[s] \/ Leaves(active[s])
    BY <1>7, <1>8, <1>9, <1>18 DEF WaitStep
<1>19. CASE PumpStep
    BY <1>11, <1>12, <1>13, <1>19, Zenon DEF PumpStep
<1> QED
    BY <1>3, <1>10, <1>14, <1>15, <1>16, <1>17, <1>18, <1>19 DEF Next

\* A session that runs the turn its owner asked for loses it only by what is about
\* that turn, however the runs of the session overlap (run_turn,
\* activate_pending_turn, complete_turn, handle_interrupt_watchdog,
\* handle_transport_closed).
THEOREM OwnTurnsSurvive == Spec => OwnTurnSurvives
<1> DEFINE Survives == \A s \in Sessions :
                           LET old == active[s]
                           IN old.turn # NoRun /\ old.turn = old.run /\ active'[s] # old =>
                                \/ outcome[old.turn] = "none" /\ outcome'[old.turn] # "none"
                                \/ ClosesNow(old.gen)
                                \/ pc[old.run] # "done" /\ pc'[old.run] = "done"
                                \/ gate' = "down"
<1>1. ASSUME OverlapInv, [Next]_vars PROVE [Survives]_vars
  <2>1. \A s \in Sessions : active[s].turn # NoRun /\ active[s].turn = active[s].run =>
            active'[s] = active[s] \/ Leaves(active[s])
    BY <1>1, TurnAssumption, OwnLeavesStep
  <2> QED
    BY <2>1 DEF Leaves
<1>2. Spec => [][Survives]_vars
    BY <1>1, OverlapInvariance, PTL DEF Spec
<1> QED
    BY <1>2 DEF OwnTurnSurvives

\* Runs that overlap leave every session to what may end its turn, and to nothing
\* else (run_turn, activate_pending_turn, complete_turn, handle_interrupt_watchdog,
\* handle_transport_closed).
THEOREM OwnersAlwaysStand == Spec => OwnersStand
<1> QED
    BY OwnersAlwaysReleasable, OwnTurnsSurvive, PTL DEF OwnersStand

-----------------------------------------------------------------------------
(* The invariant *)

\* The invariant holds initially.
LEMMA InitIInv == ASSUME TurnAssumption, Init PROVE IInv
<1> USE TurnAssumption DEF TurnAssumption, Init, NoActive, NoStart, NoThreadTurn, NoInterrupt, NoJob, NoTurn
<1>1. TypeInv
    BY InitType
<1>2. /\ current = 0 /\ spawned = 0 /\ owed = {} /\ announced = {} /\ Queued = {}
    BY DEF TransportInit, NoGeneration, Queued
<1>3. GensInv
    BY <1>2 DEF GensInv, NoGeneration
<1>4. \A p \in Tasks : pc[p] = "idle" /\ job[p] = NoJob
    OBVIOUS
<1>5. \A r \in Runs : r \in Tasks /\ ~Busy(r) /\ ~Late(r) /\ SessionOf[r] \in Sessions /\ r # NoRun
    BY <1>2, <1>4 DEF Busy, Late, StartQueued, Turns, Tasks
<1>6. RunInv
    BY <1>4, <1>5 DEF RunInv, Turns
<1>7. LateInv
    BY <1>5 DEF LateInv
<1>8. PersistInv /\ LiveInv /\ MapsAgree
    BY <1>4, <1>5 DEF PersistInv, LiveInv, MapsAgree
<1>9. EndInv
    BY <1>4 DEF EndInv, PumpEnds, WatchdogsKnow, OneEnding, EndedIsOver, Tasks
<1>10. InterruptInv /\ SentIsGuarded
    BY <1>4 DEF InterruptInv, SentIsGuarded
<1> QED
    BY <1>1, <1>3, <1>6, <1>7, <1>8, <1>9, <1>10 DEF IInv

\* Every step keeps it.
LEMMA IInvStep ==
    ASSUME TurnAssumption, OneAtATime, IInv, [Next]_vars
    PROVE  IInv'
<1>1. TypeInv' /\ GensInv'
  <2>1. \A r \in Runs : pc[r] = "turnStart" => server[r].phase = "none"
    BY DEF IInv, RunInv
  <2> QED
    BY <2>1, TypeStep, GensStep DEF IInv
<1>2. RunInv' /\ LateInv' /\ PersistInv' /\ LiveInv' /\ \A u \in Turns : Past(u) => Past(u)'
    BY OwnersStep
<1>3. MapsAgree' /\ EndInv' /\ InterruptInv' /\ SentIsGuarded'
  <2>1. CASE QuietStep
    <3>1. Quiet
      BY <2>1, QuietSteps
    <3> QED
      BY <1>2, <3>1, QuietKeeps
  <2>2. CASE LoudStep
    BY <1>2, <2>2, MapsStep, PumpEndsStep, WatchdogsStep, OneEndingStep, EndedStep, InterruptStep, SentStep
       DEF EndInv
  <2> QED
    BY <2>1, <2>2, QuietOrLoud
<1> QED
    BY <1>1, <1>2, <1>3 DEF IInv

\* The inductive invariant holds of every execution in which a session has one run
\* under way at a time.
LEMMA Invariance == ASSUME OneAtATime PROVE Spec => []IInv
<1>1. TurnAssumption /\ OneAtATime
    BY TurnAssumption
<1>2. Init => IInv
    BY <1>1, InitIInv
<1>3. IInv /\ [Next]_vars => IInv'
    BY <1>1, IInvStep
<1> QED
    BY <1>2, <1>3, PTL DEF Spec

\* active_by_session, active_by_thread and turns agree on every live turn, and an
\* interrupt that was sent has its watchdog (activate_pending_turn, complete_turn,
\* send_session_interrupt).
LEMMA OwnersAgreeAlways == ASSUME OneAtATime PROVE Spec => []OwnersAgree
<1>1. IInv => OwnersAgree
    BY DEF IInv, TypeInv, OwnersAgree
<1> QED
    BY <1>1, Invariance, PTL

\* A session whose run returned is owned by a known turn that a loss still releases
\* (run_turn, handle_transport_closed).
LEMMA OwnedSessionsAreReleasable == ASSUME OneAtATime PROVE Spec => []OwnedSessionIsReleasable
<1>1. ASSUME IInv, OwnersAreReleasable PROVE OwnedSessionIsReleasable
  <2> SUFFICES ASSUME NEW s \in Sessions, active[s].run # NoRun, pc[active[s].run] = "done"
               PROVE  active[s].turn # NoRun /\ active[s].gen \notin Handled
    BY DEF OwnedSessionIsReleasable
  <2>1. active[s].run \in Runs
    BY <1>1, TypeParts DEF IInv, TypeInv, MapsTypeOK, ActiveType, MaybeRun
  <2>2. SessionOf[active[s].run] = s
    BY <1>1 DEF IInv, RunInv
  <2>3. active[s].turn = active[s].run
    BY <1>1, <2>1, <2>2 DEF IInv, LiveInv
  <2> QED
    BY <1>1, <2>3 DEF OwnersAreReleasable
<1> QED
    BY <1>1, Invariance, OwnersAlwaysReleasable, PTL

\* A live turn is only taken from its session by what is about itself.
LEMMA LeavesStep ==
    ASSUME TurnAssumption, IInv, OneAtATime, [Next]_vars, NEW s \in Sessions, active[s].turn # NoRun
    PROVE  active'[s] = active[s] \/ Leaves(active[s])
<1> USE TurnAssumption DEF TurnAssumption, IInv
<1>0. /\ MapsTypeOK /\ TasksTypeOK /\ SeenTypeOK /\ JobsInv /\ Pump \in Tasks
      /\ active[s].turn \in Turns /\ Past(active[s].turn) /\ active[s].run = active[s].turn
      /\ active[s].run # NoRun /\ SessionOf[active[s].turn] = s
    BY TypeParts DEF TypeInv, Tasks, MapsTypeOK, ActiveType, MaybeRun, Turns, LiveInv, RunInv
<1>1. CASE TransportStep \/ \E t \in Turns : ServerStep(t)
    BY <1>1, OuterSteps DEF Outer, engine, maps
<1>2. ASSUME NEW r \in Runs, BeginRun(r) PROVE active'[s] = active[s]
  <2>1. Begun(r)
    BY <1>2, BeginFacts
  <2> QED
    BY <1>0, <2>1 DEF Begun
<1>3. ASSUME NEW r \in Runs, Prepares(r), ~BeginRun(r) PROVE active'[s] = active[s]
  <2>1. Advances(r)
    BY <1>3, AdvancesFacts
  <2> QED
    BY <2>1 DEF Advances
<1>4. ASSUME NEW r \in Runs, RunFails(r) PROVE active'[s] = active[s] \/ Leaves(active[s])
  <2>1. r \in Tasks /\ pc[r] # "done" /\ Refuse(r)
    BY <1>4 DEF RunFails, Refuse, Tasks
  <2> QED
    BY <2>1, RefuseLeaves
<1>5. ASSUME NEW r \in Runs, ReceiveTurn(r) PROVE active'[s] = active[s] \/ Leaves(active[s])
  <2>1. r \in Tasks /\ pc[r] # "done" /\ Activate(r, job[r].gen, r)
    BY <1>5 DEF ReceiveTurn, Tasks
  <2>2. Refuse(r) \/ UNCHANGED active
    BY <2>1, Zenon DEF Activate
  <2> QED
    BY <2>1, <2>2, RefuseLeaves
<1>6. ASSUME NEW p \in Tasks, PersistFails(p) PROVE active'[s] = active[s] \/ Leaves(active[s])
  <2>1. pc[p] # "done" /\ Refuse(p)
    BY <1>6 DEF PersistFails
  <2> QED
    BY <2>1, RefuseLeaves
<1>7. ASSUME NEW p \in Tasks, PublishTurn(p) PROVE active'[s] = active[s]
  <2>1. PICK u \in Turns : u = job[p].turn /\ Publishes(p, u)
    BY <1>7, PublishEffect
  <2>2. Published(p, u) /\ pc[p] = "persist" /\ job[p].turn = u
    BY <2>1, PublishesFacts DEF Publishes
  <2>3. active[s].turn # u
    BY <1>0, <2>2 DEF Past
  <2> QED
    BY <1>0, <2>2, <2>3 DEF Published
<1>8. ASSUME NEW p \in Tasks, InterruptAccepted(p) \/ InterruptFails(p) PROVE UNCHANGED active
    BY <1>8 DEF InterruptAccepted, InterruptFails
<1>9. ASSUME NEW i \in Stops, NEW z \in Sessions, Stop(i, z) PROVE UNCHANGED active
    BY <1>9 DEF Stop
<1>10. CASE PumpIgnores \/ HandleStarted \/ HandleCompleted \/ TerminalDropped
    BY <1>10 DEF PumpIgnores, HandleStarted, HandleCompleted, TerminalDropped, maps, engine
<1>11. CASE HandleClosed
  <2> DEFINE g == Head(events).gen
  <2>1. /\ PumpReads("closed")
        /\ active' = [z \in Sessions |-> IF Expired(active[z].gen, g) THEN NoActive ELSE active[z]]
    BY <1>11 DEF HandleClosed
  <2>2. active'[s] = active[s] \/ active[s].gen = g
    BY <2>1 DEF Expired
  <2> QED
    BY <2>1, <2>2 DEF Leaves, ClosesNow, PumpReads
<1>12. CASE CompleteTurn \/ TerminalUnsaved
  <2> DEFINE t == job[Pump].turn
             g == job[Pump].gen
             exact == job[Pump].exact
  <2>1. PICK ending \in {"completed", "unsaved"} : EndExactTurn(g, t, exact, ending)
    BY <1>12 DEF CompleteTurn, TerminalUnsaved
  <2>2. t \in Turns /\ SessionOf[t] \in Sessions /\ pc[Pump] = "complete"
    BY <1>0, <1>12 DEF CompleteTurn, TerminalUnsaved, JobsInv, Turns
  <2>3. active'[s] = active[s] \/ (exact /\ active[s].turn = t)
    BY <1>0, <2>1, <2>2 DEF EndExactTurn, MapsTypeOK
  <2>4. exact => outcome[t] = "none" /\ outcome'[t] = ending
    BY <1>0, <2>1, <2>2 DEF EndExactTurn, SeenTypeOK, EndInv, EndedIsOver
  <2>5. ending # "none"
    OBVIOUS
  <2> HIDE DEF t, exact
  <2> QED
    BY <2>3, <2>4, <2>5 DEF Leaves
<1>13. ASSUME NEW w \in watchdogs, WatchdogStep(w) PROVE active'[s] = active[s] \/ Leaves(active[s])
  <2>1. CASE WatchdogWakes(w) \/ WatchdogChecks(w) \/ WatchdogAppendFails(w)
    BY <2>1 DEF WatchdogWakes, WatchdogChecks, WatchdogAppendFails, maps
  <2>2. CASE WatchdogCancels(w)
    <3>1. w.turn \in Turns /\ SessionOf[w.turn] \in Sessions /\ w.stage = "append"
      BY <1>0, <2>2 DEF WatchdogCancels, TasksTypeOK, WatchdogType, Turns
    <3>2. active'[s] = active[s] \/ active[s].turn = w.turn
      BY <1>0, <2>2, <3>1 DEF WatchdogCancels, MapsTypeOK
    <3>3. outcome[w.turn] = "none" /\ outcome'[w.turn] = "cancelled"
      BY <1>0, <2>2, <3>1 DEF WatchdogCancels, EndInv, EndedIsOver, SeenTypeOK
    <3> QED
      BY <3>2, <3>3 DEF Leaves
  <2> QED
    BY <1>13, <2>1, <2>2 DEF WatchdogStep
<1>14. CASE ShutdownStep
    BY <1>14 DEF ShutdownStep, CloseTransport, DrainRuns, FinishShutdown, maps, Leaves
<1>15. CASE UNCHANGED vars
    BY <1>15 DEF vars, engine, maps
<1>16. ASSUME NEW r \in Runs, RunStep(r) PROVE Prepares(r) \/ RunFails(r) \/ ReceiveTurn(r)
    BY <1>16 DEF RunStep, Prepares
<1> QED
    BY <1>1, <1>2, <1>3, <1>4, <1>5, <1>6, <1>7, <1>8, <1>9, <1>10, <1>11, <1>12, <1>13, <1>14, <1>15, <1>16
       DEF Next, WaitStep, PumpStep

\* How a turn was ended for the user stands, and a stale terminal, watchdog or
\* TransportClosed does not take a newer turn from its session (complete_turn,
\* handle_interrupt_watchdog, handle_transport_closed).
LEMMA EndingsAlwaysStand == ASSUME OneAtATime PROVE Spec => EndingsStand
<1> DEFINE Final == \A t \in Turns : outcome[t] # "none" => outcome'[t] = outcome[t]
           Survives == \A s \in Sessions :
                           LET old == active[s]
                           IN old.turn # NoRun /\ active'[s] # old =>
                                \/ outcome[old.turn] = "none" /\ outcome'[old.turn] # "none"
                                \/ ClosesNow(old.gen)
                                \/ pc[old.run] # "done" /\ pc'[old.run] = "done"
                                \/ gate' = "down"
<1>1. TurnAssumption /\ OneAtATime
    BY TurnAssumption
<1>2. ASSUME IInv, [Next]_vars PROVE [Final]_vars
  <2>1. CASE QuietStep
    BY <1>1, <1>2, <2>1, QuietSteps DEF Quiet
  <2>2. CASE LoudStep
    <3>1. \A u \in Turns : Past(u) => Past(u)'
      BY <1>1, <1>2, OwnersStep
    <3> QED
      BY <1>1, <1>2, <2>2, <3>1, EndedStep
  <2> QED
    BY <1>2, <2>1, <2>2, QuietOrLoud
<1>3. ASSUME IInv, [Next]_vars PROVE [Survives]_vars
  <2>1. \A s \in Sessions : active[s].turn # NoRun => active'[s] = active[s] \/ Leaves(active[s])
    BY <1>1, <1>3, LeavesStep
  <2> QED
    BY <2>1 DEF Leaves
<1>4. Spec => [][Final]_vars /\ [][Survives]_vars
    BY <1>2, <1>3, Invariance, PTL DEF Spec
<1> QED
    BY <1>4 DEF EndingsStand, OutcomeIsFinal, NewerTurnSurvives

=============================================================================
