------------------------------ MODULE Approvals ------------------------------
(***************************************************************************)
(* Requests of the app-server that wait for the user (approvals and        *)
(* structured questions) in src-tauri/src/codex_engine.rs: they are        *)
(* accepted for the turn that is active, claimed by an answer, and retired *)
(* by every terminal, all under request_lifecycle.                         *)
(*                                                                         *)
(* One session with a root thread, which runs one turn at a time, and one  *)
(* child thread.  TurnLifecycle models in full how a turn becomes and      *)
(* stays the active one; here it is reduced to what a request depends on.  *)
(* A step runs from one slow wait to the next: request_lifecycle, a        *)
(* database write, the write of a response frame.                          *)
(***************************************************************************)
EXTENDS Transport, Sequences, FiniteSets

CONSTANTS
    Turns,           \* turns the app-server may run
    Children,        \* those of the child thread
    Calls,           \* calls of resolve_approval and resolve_codex_request
    Remote,          \* those made for a phone: its disconnection drops the call
    Pump,            \* the task that consumes the transport's events
    NoTurn,
    MaxAsked,        \* how many requests the app-server makes
    MaxQueued,       \* how many events the pump may be behind
    ShutsDown,       \* whether shutdown is called
    StorageFails     \* whether writes to the database may fail

ASSUME ApprovalsAssumption ==
    /\ MaxGeneration \in Nat
    /\ MaxAsked \in Nat
    /\ MaxQueued \in Nat
    /\ Children \subseteq Turns
    /\ Remote \subseteq Calls
    /\ NoTurn \notin Turns
    /\ {ShutsDown, StorageFails} \subseteq BOOLEAN
    /\ Pump \notin Calls \cup Turns
    /\ Calls \cap Turns = {}
    /\ "free" \notin Calls \cup Turns \cup {Pump}

VARIABLES
    events,        \* the transport's broadcast events not yet handled
    server,        \* the app-server's side of each turn
    asked,         \* the requests it made
    settled,       \* those it no longer waits for
    route,         \* routes: the generation each thread is routed under
    activeThread,  \* active_by_thread
    session,       \* active_by_session, with turns and the run behind it
    pending,       \* pending_requests
    lifecycle,     \* who holds request_lifecycle across a slow wait
    handling,      \* the event the pump is in the middle of
    pc,            \* where each call is
    target,        \* the request each call answers
    down,          \* whether shutdown is over
    shown,         \* requests the user was shown
    dropped,       \* requests dropped: not saved, or the refusal not written
    answers        \* how many responses were sent for each request

outside == <<events, server, asked, settled>>
owners == <<route, activeThread, session>>
calls == <<pc, target>>
seen == <<shown, dropped, answers>>
engine == <<owners, pending, lifecycle, handling, calls, down, seen>>
vars == <<transportVars, outside, engine>>

Threads == {"root", "child"}
ThreadOf(t) == IF t \in Children THEN "child" ELSE "root"
Gens == Generations \cup {NoGeneration}
MaybeTurn == Turns \cup {NoTurn}

\* A JSON-RPC id is unique within a generation only.
Ids == [gen : Generations, rpc : 1 .. MaxAsked]
Requests == [gen : Generations, rpc : 1 .. MaxAsked, turn : Turns]
IdOf(a) == [gen |-> a.gen, rpc |-> a.rpc]
RequestOf(e) == [gen |-> e.gen, rpc |-> e.rpc, turn |-> e.turn]
NoId == [gen |-> NoGeneration, rpc |-> 0]

NoThreadTurn == [gen |-> NoGeneration, turn |-> NoTurn]
NoSession == [gen |-> NoGeneration, turn |-> NoTurn, at |-> "none"]
NoEvent == [kind |-> "none", gen |-> NoGeneration, turn |-> NoTurn, rpc |-> 0]
NotRunning == [gen |-> NoGeneration, phase |-> "none"]

Events == [kind : {"started", "request", "resolved", "completed", "closed"},
           gen : Generations, turn : MaybeTurn, rpc : 0 .. MaxAsked]

TypeOK ==
    /\ TransportTypeOK
    /\ events \in Seq(Events)
    /\ server \in [Turns -> [gen : Gens, phase : {"none", "running", "done"}]]
    /\ asked \subseteq Requests
    /\ settled \subseteq asked
    /\ route \in [Threads -> Gens]
    /\ activeThread \in [Threads -> [gen : Gens, turn : MaybeTurn]]
    /\ session \in [gen : Gens, turn : MaybeTurn,
                    at : {"none", "expected", "awaited", "refused", "taken", "orphaned", "live"}]
    /\ pending \subseteq [gen : Generations, rpc : 1 .. MaxAsked, turn : Turns, claimed : BOOLEAN]
    /\ lifecycle \in {"free", Pump} \cup Calls \cup Turns
    /\ handling \in Events \cup {NoEvent}
    /\ pc \in [Calls -> {"idle", "claimed", "sending", "done"}]
    /\ target \in [Calls -> Ids \cup {NoId}]
    /\ down \in BOOLEAN
    /\ shown \subseteq asked
    /\ dropped \subseteq asked
    /\ answers \in [Ids -> Nat]

Init ==
    /\ TransportInit
    /\ events = <<>>
    /\ server = [t \in Turns |-> NotRunning]
    /\ asked = {}
    /\ settled = {}
    /\ route = [th \in Threads |-> NoGeneration]
    /\ activeThread = [th \in Threads |-> NoThreadTurn]
    /\ session = NoSession
    /\ pending = {}
    /\ lifecycle = "free"
    /\ handling = NoEvent
    /\ pc = [r \in Calls |-> "idle"]
    /\ target = [r \in Calls |-> NoId]
    /\ down = FALSE
    /\ shown = {}
    /\ dropped = {}
    /\ answers = [i \in Ids |-> 0]

-----------------------------------------------------------------------------
(* The transport and the app-server behind it *)

\* A generation is launched, becomes ready, or stops being the current one.
TransportMoves ==
    /\ \/ Start /\ ~halted
       \/ BecomeReady
       \/ AbandonStart
       \/ Lose
       \/ ShutsDown /\ ~halted /\ Halt
       \/ Release
    /\ UNCHANGED <<outside, engine>>

Broadcast(kind, g, t, rpc) ==
    /\ Len(events) < MaxQueued
    /\ events' = Append(events, [kind |-> kind, gen |-> g, turn |-> t, rpc |-> rpc])

AnnounceLoss(g) ==
    /\ Announce(g)
    /\ Broadcast("closed", g, NoTurn, 0)
    /\ UNCHANGED <<server, asked, settled, engine>>

Serving == current # NoGeneration /\ ready /\ ~halted

\* The start of an earlier root turn is handled before the session's next run
\* and before a watchdog's delay is over (KeepsUp of TurnLifecycle).
StartsHandled ==
    \A i \in DOMAIN events : events[i].kind = "started" => events[i].turn \in Children

\* A run of the free session, whose previous run returned, has asked for turn t,
\* which its generation accepts.
BeginTurn(t) ==
    /\ t \notin Children
    /\ server[t].phase = "none"
    /\ session = NoSession
    /\ Serving
    /\ ~down
    /\ StartsHandled
    /\ server' = [server EXCEPT ![t] = [gen |-> current, phase |-> "running"]]
    /\ session' = [gen |-> current, turn |-> t, at |-> "expected"]
    /\ route' = [route EXCEPT !["root"] = current]
    /\ Broadcast("started", current, t, 0)
    /\ UNCHANGED <<transportVars, asked, settled, activeThread, pending, lifecycle, handling,
                   calls, down, seen>>

\* A root turn has the app-server start a turn of the child thread, which the
\* pump has routed.
BeginChild(t) ==
    /\ t \in Children
    /\ server[t].phase = "none"
    /\ \A c \in Children : server[c] # [gen |-> current, phase |-> "running"]
    /\ Serving
    /\ \E p \in Turns \ Children : server[p] = [gen |-> current, phase |-> "running"]
    /\ server' = [server EXCEPT ![t] = [gen |-> current, phase |-> "running"]]
    /\ route' = [route EXCEPT !["child"] = current]
    /\ Broadcast("started", current, t, 0)
    /\ UNCHANGED <<transportVars, asked, settled, activeThread, session, pending, lifecycle,
                   handling, calls, down, seen>>

\* The requests made under generation g.
AskedOf(g) == {a \in asked : a.gen = g}

\* A running turn needs the user.  Frames of a lost process that its reader
\* still holds are broadcast too.
Ask(t) ==
    LET g == server[t].gen
        rpc == 1 + Cardinality(AskedOf(g))
    IN /\ server[t].phase = "running"
       /\ Cardinality(asked) < MaxAsked
       /\ asked' = asked \cup {[gen |-> g, rpc |-> rpc, turn |-> t]}
       /\ Broadcast("request", g, t, rpc)
       /\ UNCHANGED <<transportVars, server, settled, engine>>

\* The app-server stops waiting for a request on its own account.
Resolve(a) ==
    /\ a \notin settled
    /\ server[a.turn].phase = "running"
    /\ settled' = settled \cup {a}
    /\ Broadcast("resolved", a.gen, a.turn, a.rpc)
    /\ UNCHANGED <<transportVars, server, asked, engine>>

Complete(t) ==
    /\ server[t].phase = "running"
    /\ server' = [server EXCEPT ![t].phase = "done"]
    /\ settled' = settled \cup {a \in asked : a.turn = t}
    /\ Broadcast("completed", server[t].gen, t, 0)
    /\ UNCHANGED <<transportVars, asked, engine>>

\* The response to the request with this id reaches the app-server.
Respond(id) ==
    /\ answers' = [answers EXCEPT ![id] = @ + 1]
    /\ settled' = settled \cup {a \in asked : IdOf(a) = id}

-----------------------------------------------------------------------------
(* Which turn a request may belong to *)

\* Mutant: nobody waits for request_lifecycle.
LifecycleIgnored == TRUE

LifecycleFree == lifecycle = "free"

NamedByThread(g, t) == activeThread[ThreadOf(t)] = [gen |-> g, turn |-> t]

NamedBySession(g, t) ==
    session.gen = g /\ session.turn = t /\ session.at \in {"awaited", "live"}

\* exact_request_owner_is_active.  A root turn is also in turns exactly while
\* its session knows it.
OwnerIsActive(g, t) == NamedByThread(g, t) /\ (t \in Children \/ NamedBySession(g, t))

Routed(e) == route[ThreadOf(e.turn)] = e.gen

\* Mutant: a claimed request is left to the call that claimed it.
OpenOf(g, t) == {p \in pending : p.gen = g /\ p.turn = t /\ ~p.claimed}

\* What retire_exact_turn_requests_locked drops.
RetiredWith(g, t) == {p \in pending : p.gen = g /\ p.turn = t}

\* The thread, and for a root turn the session, are given back if they are still
\* its own.
ReleaseTurn(g, t) ==
    /\ activeThread' = [activeThread EXCEPT ![ThreadOf(t)] =
           IF @ = [gen |-> g, turn |-> t] THEN NoThreadTurn ELSE @]
    /\ session' = IF t \notin Children /\ NamedBySession(g, t) THEN NoSession ELSE session

-----------------------------------------------------------------------------
(* run_turn, as far as requests depend on it *)

\* The run is told its turn before the pump handles turn/started, and saves the
\* user message.
RunTakesTurn ==
    /\ session.at = "expected"
    /\ session' = [session EXCEPT !.at = "taken"]
    /\ UNCHANGED <<transportVars, outside, route, activeThread, pending, lifecycle, handling,
                   calls, down, seen>>

\* The thread gets its turn even if the generation was lost meanwhile and the
\* session released.
RunPublishesTurn ==
    /\ session.at \in {"taken", "orphaned"}
    /\ session' = IF session.at = "taken" THEN [session EXCEPT !.at = "live"] ELSE NoSession
    /\ activeThread' = [activeThread EXCEPT !["root"] =
                            [gen |-> session.gen, turn |-> session.turn]]
    /\ UNCHANGED <<transportVars, outside, route, pending, lifecycle, handling, calls, down, seen>>

\* The generation was lost before turn/start was answered, the user message was
\* not saved, or another activation had taken the start: the run releases its
\* session, without request_lifecycle.
RunGivesUp ==
    /\ \/ session.at \in {"expected", "awaited"} /\ session.gen # current
       \/ session.at \in {"taken", "orphaned"} /\ StorageFails
       \/ session.at = "refused"
    /\ session' = NoSession
    /\ UNCHANGED <<transportVars, outside, route, activeThread, pending, lifecycle, handling,
                   calls, down, seen>>

-----------------------------------------------------------------------------
(* The event pump *)

PumpReads(kind) ==
    /\ ~down
    /\ handling = NoEvent
    /\ events # <<>>
    /\ Head(events).kind = kind
    /\ events' = Tail(events)

\* The thread is not routed under the event's generation, or a notification
\* cannot be saved: the handler returns before it changes anything.
PumpIgnores ==
    LET e == Head(events)
    IN /\ PumpReads(e.kind)
       /\ e.kind # "closed"
       /\ \/ ~Routed(e)
          \/ StorageFails /\ e.kind # "request"
       /\ UNCHANGED <<transportVars, server, asked, settled, engine>>

\* The thread has a turn.  A root turn whose start was not taken is published,
\* or the run will find it taken: the user message could not be saved, or the run
\* was told its turn while it was being saved.
HandleStarted ==
    LET e == Head(events)
        awaited == e.turn \notin Children /\ session.at = "expected" /\ session.gen = e.gen
    IN /\ PumpReads("started")
       /\ Routed(e)
       /\ activeThread' = [activeThread EXCEPT ![ThreadOf(e.turn)] =
                               [gen |-> e.gen, turn |-> e.turn]]
       /\ \/ awaited /\ \E at \in {"awaited", "refused"} : session' = [session EXCEPT !.at = at]
          \/ ~awaited /\ UNCHANGED session
       /\ UNCHANGED <<transportVars, server, asked, settled, route, pending, lifecycle, handling,
                      calls, down, seen>>

\* The request is for the active turn: its activity is saved next.
AdmitRequest ==
    LET e == Head(events)
    IN /\ PumpReads("request")
       /\ Routed(e)
       /\ LifecycleFree
       /\ OwnerIsActive(e.gen, e.turn)
       /\ lifecycle' = Pump
       /\ handling' = e
       /\ UNCHANGED <<transportVars, server, asked, settled, owners, pending, calls, down, seen>>

\* It is not: the app-server gets an error, unless its generation is gone or the
\* write fails.
RefuseRequest ==
    LET e == Head(events)
    IN /\ PumpReads("request")
       /\ Routed(e)
       /\ LifecycleFree
       /\ ~OwnerIsActive(e.gen, e.turn)
       /\ \/ /\ e.gen = current /\ ready
             /\ Respond(IdOf(e))
             /\ UNCHANGED dropped
          \/ /\ dropped' = dropped \cup {RequestOf(e)}
             /\ UNCHANGED <<answers, settled>>
       /\ UNCHANGED <<transportVars, server, asked, owners, pending, lifecycle, handling,
                      calls, down, shown>>

EndHandling ==
    /\ lifecycle' = "free"
    /\ handling' = NoEvent

\* The activity is saved: the request waits for the user, unless one with its
\* JSON-RPC id already does.
AcceptRequest ==
    /\ handling.kind = "request"
    /\ IF \E p \in pending : IdOf(p) = IdOf(handling)
       THEN UNCHANGED <<pending, shown>>
       ELSE /\ pending' = pending \cup {[gen |-> handling.gen, rpc |-> handling.rpc,
                                         turn |-> handling.turn, claimed |-> FALSE]}
            /\ shown' = shown \cup {RequestOf(handling)}
    /\ EndHandling
    /\ UNCHANGED <<transportVars, outside, owners, calls, down, dropped, answers>>

\* It is not saved: the request is dropped, and nobody answers it.
RequestUnsaved ==
    /\ handling.kind = "request"
    /\ StorageFails
    /\ dropped' = dropped \cup {RequestOf(handling)}
    /\ EndHandling
    /\ UNCHANGED <<transportVars, outside, owners, pending, calls, down, shown, answers>>

\* Mutant: JSON-RPC ids are taken to be unique for ever.
SameRpcId(p, e) == p.rpc = e.rpc

SameRequest(p, e) == IdOf(p) = IdOf(e)

\* serverRequest/resolved.  It need not name a thread, so a lost generation's
\* gets here too.
HandleResolved ==
    LET e == Head(events)
    IN /\ PumpReads("resolved")
       /\ LifecycleFree
       /\ pending' = {p \in pending : ~SameRequest(p, e)}
       /\ UNCHANGED <<transportVars, server, asked, settled, owners, lifecycle, handling,
                      calls, down, seen>>

\* complete_turn retires the requests of a root turn before its terminal is
\* saved; a child's terminal was saved before.
HandleCompleted ==
    LET e == Head(events)
    IN /\ PumpReads("completed")
       /\ Routed(e)
       /\ LifecycleFree
       /\ pending' = pending \ RetiredWith(e.gen, e.turn)
       /\ \/ /\ e.turn \in Children
             /\ ReleaseTurn(e.gen, e.turn)
             /\ UNCHANGED <<lifecycle, handling>>
          \/ /\ e.turn \notin Children
             /\ lifecycle' = Pump
             /\ handling' = e
             /\ UNCHANGED <<activeThread, session>>
       /\ UNCHANGED <<transportVars, server, asked, settled, route, calls, down, seen>>

\* The terminal of a root turn, or the record that it could not be saved, is in
\* the database: the turn is released if it was the active one.
CompleteTurn ==
    /\ handling.kind = "completed"
    /\ IF OwnerIsActive(handling.gen, handling.turn)
       THEN ReleaseTurn(handling.gen, handling.turn)
       ELSE UNCHANGED <<activeThread, session>>
    /\ EndHandling
    /\ UNCHANGED <<transportVars, outside, route, pending, calls, down, seen>>

TerminalDropped ==
    /\ handling.kind = "completed"
    /\ StorageFails
    /\ EndHandling
    /\ UNCHANGED <<transportVars, outside, owners, pending, calls, down, seen>>

\* Everything of the lost generation is dropped.
HandleClosed ==
    LET g == Head(events).gen
    IN /\ PumpReads("closed")
       /\ LifecycleFree
       /\ pending' = {p \in pending : p.gen # g}
       /\ activeThread' = [th \in Threads |->
               IF activeThread[th].gen = g THEN NoThreadTurn ELSE activeThread[th]]
       /\ route' = [th \in Threads |-> IF route[th] = g THEN NoGeneration ELSE route[th]]
       /\ session' = IF session.gen # g THEN session
                     ELSE IF session.at = "taken" THEN [session EXCEPT !.at = "orphaned"]
                     ELSE NoSession
       /\ UNCHANGED <<transportVars, server, asked, settled, lifecycle, handling,
                      calls, down, seen>>

-----------------------------------------------------------------------------
(* resolve_approval and resolve_codex_request *)

IsClaimed(id) == \E p \in pending : IdOf(p) = id /\ p.claimed
IsOpen(id) == \E p \in pending : IdOf(p) = id /\ ~p.claimed

SetClaim(id, claim) ==
    pending' = {IF IdOf(p) = id THEN [p EXCEPT !.claimed = claim] ELSE p : p \in pending}

\* The user answers something that is, or was, on the screen: it is claimed, or
\* it is gone, is claimed already, or cannot take this answer.
Claim(r, a) ==
    LET id == IdOf(a)
    IN /\ pc[r] = "idle"
       /\ \/ /\ IsOpen(id)
             /\ SetClaim(id, TRUE)
             /\ target' = [target EXCEPT ![r] = id]
             /\ pc' = [pc EXCEPT ![r] = "claimed"]
          \/ /\ pc' = [pc EXCEPT ![r] = "done"]
             /\ UNCHANGED <<pending, target>>
       /\ UNCHANGED <<transportVars, outside, owners, lifecycle, handling, down, seen>>

Return(r) ==
    /\ pc' = [pc EXCEPT ![r] = "done"]
    /\ target' = [target EXCEPT ![r] = NoId]

\* Under request_lifecycle the request has to be there still.
TakeLifecycle(r) ==
    /\ pc[r] = "claimed"
    /\ LifecycleFree
    /\ \/ /\ IsClaimed(target[r])
          /\ lifecycle' = r
          /\ pc' = [pc EXCEPT ![r] = "sending"]
          /\ UNCHANGED target
       \/ /\ ~IsClaimed(target[r])
          /\ Return(r)
          /\ UNCHANGED lifecycle
    /\ UNCHANGED <<transportVars, outside, owners, pending, handling, down, seen>>

\* Mutant: a sent response leaves the request open.
ReopenClaim(id) == SetClaim(id, FALSE)

\* finish_request_claim
FinishClaim(id) == pending' = {p \in pending : ~(IdOf(p) = id /\ p.claimed)}

\* restore_request_claim
RestoreClaim(id) == SetClaim(id, FALSE)

\* The whole frame is written to the generation that asked.
SendSucceeds(r) ==
    /\ pc[r] = "sending"
    /\ target[r].gen = current
    /\ ready
    /\ Respond(target[r])
    /\ FinishClaim(target[r])
    /\ lifecycle' = "free"
    /\ Return(r)
    /\ UNCHANGED <<transportVars, events, server, asked, owners, handling, down, shown, dropped>>

\* Mutant: the mutex is not given back.
FailKeepsLifecycle(r) ==
    /\ pc[r] = "sending"
    /\ RestoreClaim(target[r])
    /\ Return(r)
    /\ UNCHANGED <<transportVars, outside, owners, lifecycle, handling, down, seen>>

\* The generation is stale, or the write fails or takes too long.
SendFails(r) ==
    /\ pc[r] = "sending"
    /\ RestoreClaim(target[r])
    /\ lifecycle' = "free"
    /\ Return(r)
    /\ UNCHANGED <<transportVars, outside, owners, handling, down, seen>>

\* serve_connection aborts the phone's command task when live forwarding ends:
\* the call is dropped where it waits, and with it its guard.
DropCall(r) ==
    /\ r \in Remote
    /\ pc[r] \in {"claimed", "sending"}
    /\ lifecycle' = IF lifecycle = r THEN "free" ELSE lifecycle
    /\ Return(r)
    /\ UNCHANGED <<transportVars, outside, owners, pending, handling, down, seen>>

-----------------------------------------------------------------------------
(* The interrupt watchdogs of root and child turns *)

\* An interrupt of the active turn was sent and its delay is over.
WatchdogChecks(t) ==
    LET g == server[t].gen
    IN /\ LifecycleFree
       /\ StartsHandled
       /\ g # NoGeneration
       /\ OwnerIsActive(g, t)
       /\ lifecycle' = t
       /\ UNCHANGED <<transportVars, outside, owners, pending, handling, calls, down, seen>>

\* The synthetic terminal is saved: the turn and its requests end.
WatchdogCancels(t) ==
    LET g == server[t].gen
    IN /\ lifecycle = t
       /\ pending' = pending \ RetiredWith(g, t)
       /\ ReleaseTurn(g, t)
       /\ lifecycle' = "free"
       /\ UNCHANGED <<transportVars, outside, route, handling, calls, down, seen>>

WatchdogUnsaved(t) ==
    /\ lifecycle = t
    /\ StorageFails
    /\ lifecycle' = "free"
    /\ UNCHANGED <<transportVars, outside, owners, pending, handling, calls, down, seen>>

-----------------------------------------------------------------------------
(* shutdown, once the transport is closed and every run returned *)

\* The pump is aborted wherever it is; request_lifecycle is not taken.
FinishShutdown ==
    /\ halted
    /\ current = NoGeneration
    /\ session.at \in {"none", "live"}
    /\ ~down
    /\ down' = TRUE
    /\ handling' = NoEvent
    /\ lifecycle' = IF lifecycle = Pump THEN "free" ELSE lifecycle
    /\ pending' = {}
    /\ activeThread' = [th \in Threads |-> NoThreadTurn]
    /\ session' = NoSession
    /\ UNCHANGED <<transportVars, outside, route, calls, seen>>

-----------------------------------------------------------------------------

TransportStep == TransportMoves \/ \E g \in Generations : AnnounceLoss(g)

ServerStep ==
    \/ \E t \in Turns : BeginTurn(t) \/ BeginChild(t) \/ Ask(t) \/ Complete(t)
    \/ \E a \in asked : Resolve(a)

RunStep == RunTakesTurn \/ RunPublishesTurn \/ RunGivesUp

PumpStep ==
    \/ events # <<>> /\ PumpIgnores
    \/ events # <<>> /\ HandleStarted
    \/ events # <<>> /\ AdmitRequest
    \/ events # <<>> /\ RefuseRequest
    \/ events # <<>> /\ HandleResolved
    \/ events # <<>> /\ HandleCompleted
    \/ events # <<>> /\ HandleClosed
    \/ AcceptRequest \/ RequestUnsaved \/ CompleteTurn \/ TerminalDropped

CallStep(r) == TakeLifecycle(r) \/ SendSucceeds(r) \/ SendFails(r)

WatchdogStep(t) == WatchdogCancels(t) \/ WatchdogUnsaved(t)

Next ==
    \/ TransportStep
    \/ ServerStep
    \/ RunStep
    \/ PumpStep
    \/ \E r \in Calls : CallStep(r) \/ DropCall(r) \/ \E a \in shown : Claim(r, a)
    \/ \E t \in Turns : WatchdogChecks(t) \/ WatchdogStep(t)
    \/ FinishShutdown

Spec == Init /\ [][Next]_vars

\* Tasks that can go on do, and the queue of request_lifecycle is fair: the pump
\* and a call that keep finding it free get it.
Fairness ==
    /\ SF_vars(PumpStep)
    /\ \A r \in Calls : SF_vars(TakeLifecycle(r)) /\ WF_vars(CallStep(r))
    /\ \A t \in Turns : WF_vars(WatchdogStep(t))

FairSpec == Spec /\ Fairness

-----------------------------------------------------------------------------
(* Properties *)

\* A request waits for the user only while its exact turn is the active one, or
\* its whole generation is lost and about to be dropped: no terminal path
\* (complete_turn, both watchdogs) leaves a request of an ended turn behind, and
\* none is accepted while one is on its way (handle_server_request).  One does
\* leave them: the terminal of a child turn that cannot be saved is not handled,
\* and its requests are still there when the thread's next turn starts.
PendingIsOwned ==
    \A p \in pending :
        \/ OwnerIsActive(p.gen, p.turn)
        \/ p.gen # current
        \/ StorageFails /\ p.turn \in Children /\ server[p.turn].phase = "done"

\* While a response is being written its request has not been retired: response
\* transmission and every terminal path but shutdown are serialized by
\* request_lifecycle (resolve_approval, retire_exact_turn_requests_locked).
SendingIsPending ==
    \A r \in Calls : pc[r] = "sending" /\ ~down => IsClaimed(target[r])

\* The app-server gets at most one response to a request, however many answers
\* race, fail and are tried again (finish_request_claim, restore_request_claim).
AnsweredOnce == \A id \in Ids : answers[id] <= 1

\* What the user was shown and the app-server still waits for can be answered
\* while its turn is active: nothing of another turn or of a lost generation
\* that used the same JSON-RPC id retires it (clear_resolved_request).
ShownIsAnswerable ==
    \A a \in shown \ settled :
        a.gen = current /\ ready /\ OwnerIsActive(a.gen, a.turn) =>
            \E p \in pending : IdOf(p) = IdOf(a)

\* Every call that claimed a request returns, whoever holds request_lifecycle
\* when it gets there (resolve_approval, resolve_codex_request).
CallsReturn == \A r \in Calls : pc[r] = "claimed" ~> pc[r] = "done"

\* Every request is shown to the user or answered with an error, unless it could
\* not be saved, the error could not be written, or its generation or the engine
\* is gone (handle_server_request).
RequestsAreTaken ==
    \A id \in Ids :
        (\E a \in asked : IdOf(a) = id) ~>
            \/ \E a \in shown \cup settled \cup dropped : IdOf(a) = id
            \/ id.gen # current
            \/ down

\* Neither a request nor the answer to one is lost on its way.
NothingHangs == CallsReturn /\ RequestsAreTaken
=============================================================================
