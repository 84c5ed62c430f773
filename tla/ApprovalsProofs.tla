--------------------------- MODULE ApprovalsProofs ---------------------------
(***************************************************************************)
(* Proofs about the requests that wait for the user, for any number of     *)
(* turns, calls, requests, generations and queued events.                  *)
(***************************************************************************)
EXTENDS Approvals, FiniteSetTheorems, TLAPS

PendingRecords == [gen : Generations, rpc : 1 .. MaxAsked, turn : Turns, claimed : BOOLEAN]

\* A call that sends holds request_lifecycle, and so does the pump in the middle
\* of an event.  Nothing is current once shutdown is over.  A turn that began has
\* a generation.
HoldersInv ==
    /\ \A r \in Calls : pc[r] = "sending" => lifecycle = r
    /\ handling # NoEvent => lifecycle = Pump /\ ~down
    /\ handling.kind \in {"none", "request", "completed"}
    /\ \A r \in Calls : pc[r] \in {"claimed", "sending"} => target[r] \in Ids
    /\ down => halted /\ current = NoGeneration
    /\ \A t \in Turns : server[t].phase # "none" => server[t].gen \in Generations

\* The JSON-RPC ids of a generation are given out in order.
AskedInv ==
    /\ IsFiniteSet(asked)
    /\ \A a \in asked : a.rpc <= Cardinality(AskedOf(a.gen))

\* A request that the pump has not read is known nowhere else.
QueueInv ==
    /\ \A i \in DOMAIN events : events[i].kind = "request" =>
           /\ RequestOf(events[i]) \in asked
           /\ answers[IdOf(events[i])] = 0
           /\ \A p \in pending : IdOf(p) # IdOf(events[i])
           /\ handling.kind = "request" => IdOf(handling) # IdOf(events[i])
    /\ \A i, j \in DOMAIN events :
           /\ events[i].kind = "request"
           /\ events[j].kind = "request"
           /\ IdOf(events[i]) = IdOf(events[j])
           => i = j

\* One that is being accepted or waits for the user is not answered.
OpenInv ==
    /\ handling.kind = "request" =>
           RequestOf(handling) \in asked /\ answers[IdOf(handling)] = 0
    /\ \A p \in pending : answers[IdOf(p)] = 0 /\ \E a \in asked : IdOf(a) = IdOf(p)
    /\ \A p, q \in pending : IdOf(p) = IdOf(q) => p = q
    /\ \A id \in Ids : answers[id] > 0 => \E a \in asked : IdOf(a) = id

IInv ==
    /\ TypeOK
    /\ HoldersInv
    /\ AskedInv
    /\ QueueInv
    /\ OpenInv
    /\ SendingIsPending
    /\ AnsweredOnce

\* The queue, seen from its ends.
LEMMA QueueEnds ==
    ASSUME NEW S, NEW q \in Seq(S), NEW x \in S
    PROVE  /\ Append(q, x) \in Seq(S)
           /\ DOMAIN Append(q, x) = 1 .. Len(q) + 1
           /\ DOMAIN q = 1 .. Len(q)
           /\ Len(q) \in Nat
           /\ Append(q, x)[Len(q) + 1] = x
           /\ \A i \in DOMAIN q : Append(q, x)[i] = q[i]
           /\ q # <<>> =>
                  /\ Head(q) \in S
                  /\ Head(q) = q[1]
                  /\ 1 \in DOMAIN q
                  /\ Tail(q) \in Seq(S)
                  /\ \A i \in DOMAIN Tail(q) : i + 1 \in DOMAIN q /\ Tail(q)[i] = q[i + 1]
OBVIOUS

\* Setting a claim touches the requests of one id, and only their claim.
LEMMA ClaimsSet ==
    ASSUME NEW id, NEW claim \in BOOLEAN, pending \subseteq PendingRecords, SetClaim(id, claim)
    PROVE  /\ pending' \subseteq PendingRecords
           /\ \A p \in pending' : \E q \in pending :
                  /\ IdOf(p) = IdOf(q)
                  /\ p = IF IdOf(q) = id THEN [q EXCEPT !.claimed = claim] ELSE q
           /\ \A q \in pending : \E p \in pending' :
                  /\ IdOf(p) = IdOf(q)
                  /\ p = IF IdOf(q) = id THEN [q EXCEPT !.claimed = claim] ELSE q
<1> DEFINE Set(q) == IF IdOf(q) = id THEN [q EXCEPT !.claimed = claim] ELSE q
<1>1. \A q \in pending : Set(q) \in PendingRecords /\ IdOf(Set(q)) = IdOf(q)
    BY DEF PendingRecords, IdOf
<1>2. pending' = {Set(q) : q \in pending}
    BY DEF SetClaim
<1> QED
    BY <1>1, <1>2

\* What the pump reads is an event of its queue.
LEMMA Reads ==
    ASSUME TypeOK, HoldersInv, QueueInv, NEW kind, PumpReads(kind)
    PROVE  /\ events \in Seq(Events)
           /\ events # <<>>
           /\ Head(events) \in Events
           /\ Head(events) = events[1]
           /\ 1 \in DOMAIN events
           /\ events' \in Seq(Events)
           /\ Head(events).gen \in Generations
           /\ Head(events).rpc \in 0 .. MaxAsked
           /\ kind = "request" => RequestOf(Head(events)) \in asked
           /\ kind = "request" => IdOf(Head(events)) \in Ids
<1>1. /\ events \in Seq(Events)
      /\ events # <<>>
      /\ events' = Tail(events)
      /\ Head(events).kind = kind
    BY DEF PumpReads, TypeOK
<1>2. /\ Head(events) \in Events
      /\ Head(events) = events[1]
      /\ 1 \in DOMAIN events
      /\ events' \in Seq(Events)
    BY <1>1, QueueEnds
<1>3. /\ Head(events).gen \in Generations
      /\ Head(events).rpc \in 0 .. MaxAsked
    BY <1>2 DEF Events
<1>4. kind = "request" => RequestOf(Head(events)) \in asked
    BY <1>1, <1>2 DEF QueueInv
<1>5. ASSUME kind = "request" PROVE IdOf(Head(events)) \in Ids
  <2>1. RequestOf(Head(events)) \in Requests
    BY <1>4, <1>5 DEF TypeOK
  <2>2. Head(events).rpc \in 1 .. MaxAsked
    BY <2>1 DEF RequestOf, Requests
  <2> QED
    BY <1>3, <2>2 DEF IdOf, Ids
<1> QED
    BY <1>1, <1>2, <1>3, <1>4, <1>5

\* A broadcast event joins the queue.
LEMMA Broadcasts ==
    ASSUME events \in Seq(Events), NEW kind \in {"started", "request", "resolved", "completed", "closed"},
           NEW g \in Generations, NEW t \in MaybeTurn, NEW rpc \in 0 .. MaxAsked,
           Broadcast(kind, g, t, rpc)
    PROVE  events' \in Seq(Events)
<1>1. [kind |-> kind, gen |-> g, turn |-> t, rpc |-> rpc] \in Events
    BY DEF Events
<1> QED
    BY <1>1, QueueEnds DEF Broadcast

\* The next JSON-RPC id of a generation was not given out before.
LEMMA NextRpc ==
    ASSUME TypeOK, AskedInv, Cardinality(asked) < MaxAsked, NEW g
    PROVE  /\ 1 + Cardinality(AskedOf(g)) \in 1 .. MaxAsked
           /\ \A a \in asked : a.gen = g => a.rpc < 1 + Cardinality(AskedOf(g))
<1>1. /\ IsFiniteSet(AskedOf(g))
      /\ Cardinality(AskedOf(g)) \in Nat
      /\ Cardinality(asked) \in Nat
      /\ Cardinality(AskedOf(g)) <= Cardinality(asked)
  <2>1. AskedOf(g) \subseteq asked
    BY DEF AskedOf
  <2> QED
    BY <2>1, FS_Subset, FS_CardinalityType DEF AskedInv
<1>2. 1 + Cardinality(AskedOf(g)) \in 1 .. MaxAsked
    BY <1>1, ApprovalsAssumption
<1>3. ASSUME NEW a \in asked, a.gen = g PROVE a.rpc < 1 + Cardinality(AskedOf(g))
  <2>1. a.rpc <= Cardinality(AskedOf(g))
    BY <1>3 DEF AskedInv
  <2>2. a.rpc \in Nat
    BY DEF TypeOK, Requests
  <2> QED
    BY <1>1, <2>1, <2>2
<1> QED
    BY <1>2, <1>3

\* The supervisor's variables keep their types.
LEMMA TransportType ==
    ASSUME TransportTypeOK, TransportMoves
    PROVE  TransportTypeOK'
<1> USE ApprovalsAssumption DEF TransportTypeOK
<1>1. CASE Start
    BY <1>1 DEF Start
<1>2. CASE BecomeReady
    BY <1>2 DEF BecomeReady
<1>3. CASE AbandonStart
    BY <1>3 DEF AbandonStart
<1>4. CASE Lose
    BY <1>4 DEF Lose
<1>5. CASE Halt
    BY <1>5 DEF Halt
<1>6. CASE Release
    BY <1>6 DEF Release
<1> QED
    BY <1>1, <1>2, <1>3, <1>4, <1>5, <1>6 DEF TransportMoves

\* Every variable keeps its type: steps outside the engine.
LEMMA OutsideType ==
    ASSUME IInv, TransportStep \/ ServerStep
    PROVE  TypeOK'
<1> USE ApprovalsAssumption
    DEF IInv, TypeOK, TransportTypeOK, transportVars, outside, engine, owners, calls, seen
<1>1. CASE TransportMoves
  <2>1. TransportTypeOK'
    BY <1>1, TransportType
  <2> QED
    BY <1>1, <2>1 DEF TransportMoves
<1>2. ASSUME NEW g \in Generations, AnnounceLoss(g) PROVE TypeOK'
  <2>1. events' \in Seq(Events)
    BY <1>2, Broadcasts DEF AnnounceLoss, MaybeTurn
  <2> QED
    BY <1>2, <2>1 DEF AnnounceLoss, Announce
<1>3. ASSUME NEW t \in Turns, BeginTurn(t) PROVE TypeOK'
  <2>1. current \in Generations
    BY <1>3 DEF BeginTurn, Serving
  <2>2. events' \in Seq(Events)
    BY <1>3, <2>1, Broadcasts DEF BeginTurn, MaybeTurn
  <2>3. /\ server' \in [Turns -> [gen : Gens, phase : {"none", "running", "done"}]]
        /\ route' \in [Threads -> Gens]
        /\ session' \in [gen : Gens, turn : MaybeTurn,
               at : {"none", "expected", "awaited", "refused", "taken", "orphaned", "live"}]
    BY <1>3, <2>1 DEF BeginTurn, Gens, MaybeTurn
  <2> QED
    BY <1>3, <2>2, <2>3 DEF BeginTurn
<1>4. ASSUME NEW t \in Turns, BeginChild(t) PROVE TypeOK'
  <2>1. current \in Generations
    BY <1>4 DEF BeginChild, Serving
  <2>2. events' \in Seq(Events)
    BY <1>4, <2>1, Broadcasts DEF BeginChild, MaybeTurn
  <2>3. /\ server' \in [Turns -> [gen : Gens, phase : {"none", "running", "done"}]]
        /\ route' \in [Threads -> Gens]
    BY <1>4, <2>1 DEF BeginChild, Gens
  <2> QED
    BY <1>4, <2>2, <2>3 DEF BeginChild
<1>5. ASSUME NEW t \in Turns, Ask(t) PROVE TypeOK'
  <2> DEFINE g == server[t].gen
             rpc == 1 + Cardinality(AskedOf(g))
  <2>1. g \in Generations
    BY <1>5 DEF Ask, HoldersInv
  <2>2. rpc \in 1 .. MaxAsked
    BY <1>5, NextRpc DEF Ask
  <2>3. [gen |-> g, rpc |-> rpc, turn |-> t] \in Requests
    BY <2>1, <2>2 DEF Requests
  <2>4. events' \in Seq(Events)
    BY <1>5, <2>1, <2>2, Broadcasts DEF Ask, MaybeTurn
  <2> QED
    BY <1>5, <2>3, <2>4 DEF Ask
<1>6. ASSUME NEW t \in Turns, Complete(t) PROVE TypeOK'
  <2>1. server[t].gen \in Generations
    BY <1>6 DEF Complete, HoldersInv
  <2>2. events' \in Seq(Events)
    BY <1>6, <2>1, Broadcasts DEF Complete, MaybeTurn
  <2> QED
    BY <1>6, <2>2 DEF Complete
<1>7. ASSUME NEW a \in asked, Resolve(a) PROVE TypeOK'
  <2>1. a.gen \in Generations /\ a.rpc \in 0 .. MaxAsked /\ a.turn \in MaybeTurn
    BY DEF Requests, MaybeTurn
  <2>2. events' \in Seq(Events)
    BY <1>7, <2>1, Broadcasts DEF Resolve
  <2> QED
    BY <1>7, <2>2 DEF Resolve
<1> QED
    BY <1>1, <1>2, <1>3, <1>4, <1>5, <1>6, <1>7 DEF TransportStep, ServerStep

\* Every variable keeps its type: the run and the pump.
LEMMA PumpType ==
    ASSUME IInv, RunStep \/ PumpStep
    PROVE  TypeOK'
<1> USE ApprovalsAssumption
    DEF TypeOK, transportVars, outside, engine, owners, calls, seen
<1>0. TypeOK /\ HoldersInv /\ QueueInv /\ OpenInv
    BY DEF IInv
<1> DEFINE SessionType == [gen : Gens, turn : MaybeTurn,
               at : {"none", "expected", "awaited", "refused", "taken", "orphaned", "live"}]
           ThreadType == [gen : Gens, turn : MaybeTurn]
<1> HIDE DEF TypeOK
<1>a. /\ NoSession \in SessionType
      /\ NoThreadTurn \in ThreadType
      /\ NoGeneration \in Gens
    BY DEF NoSession, NoThreadTurn, Gens, MaybeTurn
<1>b. session \in SessionType /\ activeThread \in [Threads -> ThreadType]
    BY <1>0 DEF TypeOK
<1>c. ASSUME NEW g, NEW t, ReleaseTurn(g, t)
      PROVE  session' \in SessionType /\ activeThread' \in [Threads -> ThreadType]
  <2>1. session' \in SessionType
    BY <1>a, <1>b, <1>c DEF ReleaseTurn
  <2>2. ThreadOf(t) \in Threads
    BY DEF ThreadOf, Threads
  <2>3. activeThread[ThreadOf(t)] \in ThreadType
    BY <1>b, <2>2
  <2> HIDE DEF ThreadType
  <2>4. activeThread' \in [Threads -> ThreadType]
    BY <1>a, <1>b, <1>c, <2>2, <2>3 DEF ReleaseTurn
  <2> QED
    BY <2>1, <2>4
<1> HIDE DEF SessionType, ThreadType
<1>1. CASE RunTakesTurn
  <2>1. session' \in SessionType
    BY <1>1, <1>b DEF RunTakesTurn, SessionType
  <2> QED
    BY <1>0, <1>1, <2>1 DEF TypeOK, RunTakesTurn, SessionType, TransportTypeOK
<1>2. CASE RunPublishesTurn
  <2>1. session' \in SessionType
    BY <1>2, <1>a, <1>b DEF RunPublishesTurn, SessionType
  <2>2. [gen |-> session.gen, turn |-> session.turn] \in ThreadType
    BY <1>b DEF SessionType, ThreadType
  <2>3. activeThread' \in [Threads -> ThreadType]
    BY <1>2, <1>b, <2>2 DEF RunPublishesTurn
  <2> QED
    BY <1>0, <1>2, <2>1, <2>3 DEF TypeOK, RunPublishesTurn, SessionType, ThreadType, TransportTypeOK
<1>3. CASE RunGivesUp
    BY <1>0, <1>3, <1>a DEF TypeOK, RunGivesUp, SessionType, TransportTypeOK
<1>4. CASE PumpIgnores
  <2>1. events' \in Seq(Events)
    BY <1>0, <1>4, Reads DEF PumpIgnores
  <2> QED
    BY <1>0, <1>4, <2>1 DEF TypeOK, PumpIgnores, TransportTypeOK
<1>5. CASE HandleStarted
  <2> DEFINE e == Head(events)
  <2>1. events' \in Seq(Events) /\ e \in Events /\ e.gen \in Gens /\ e.turn \in MaybeTurn
    BY <1>0, <1>5, Reads DEF HandleStarted, Events, Gens
  <2>2. session' \in SessionType
    BY <1>5, <1>b DEF HandleStarted, SessionType
  <2>3. [gen |-> e.gen, turn |-> e.turn] \in ThreadType
    BY <2>1 DEF ThreadType
  <2>4. activeThread' \in [Threads -> ThreadType]
    BY <1>5, <1>b, <2>3 DEF HandleStarted
  <2> QED
    BY <1>0, <1>5, <2>1, <2>2, <2>4 DEF TypeOK, HandleStarted, SessionType, ThreadType, TransportTypeOK
<1>6. CASE AdmitRequest
  <2>1. events' \in Seq(Events) /\ Head(events) \in Events
    BY <1>0, <1>6, Reads DEF AdmitRequest
  <2> QED
    BY <1>0, <1>6, <2>1 DEF TypeOK, AdmitRequest, TransportTypeOK
<1>7. CASE RefuseRequest
  <2>1. /\ events' \in Seq(Events)
        /\ RequestOf(Head(events)) \in asked
        /\ IdOf(Head(events)) \in Ids
    BY <1>0, <1>7, Reads DEF RefuseRequest
  <2>2. settled' \subseteq asked
    BY <1>0, <1>7 DEF RefuseRequest, Respond, TypeOK
  <2>3. answers' \in [Ids -> Nat]
    <3>1. answers \in [Ids -> Nat]
      BY <1>0 DEF TypeOK
    <3> QED
      BY <1>7, <2>1, <3>1 DEF RefuseRequest, Respond
  <2>4. dropped' \subseteq asked
    BY <1>0, <1>7, <2>1 DEF RefuseRequest, TypeOK
  <2> QED
    BY <1>0, <1>7, <2>1, <2>2, <2>3, <2>4 DEF TypeOK, RefuseRequest, TransportTypeOK
<1>8. CASE AcceptRequest
  <2>1. RequestOf(handling) \in Requests /\ RequestOf(handling) \in asked
    BY <1>0, <1>8 DEF AcceptRequest, OpenInv, TypeOK
  <2>2. [gen |-> handling.gen, rpc |-> handling.rpc, turn |-> handling.turn, claimed |-> FALSE]
            \in PendingRecords
    BY <2>1 DEF RequestOf, Requests, PendingRecords
  <2>3. pending' \subseteq PendingRecords /\ shown' \subseteq asked
    <3>1. pending \subseteq PendingRecords /\ shown \subseteq asked
      BY <1>0 DEF TypeOK, PendingRecords
    <3> QED
      BY <1>8, <2>1, <2>2, <3>1 DEF AcceptRequest
  <2> QED
    BY <1>0, <1>8, <2>3 DEF TypeOK, AcceptRequest, EndHandling, PendingRecords, TransportTypeOK
<1>9. CASE RequestUnsaved
  <2>1. RequestOf(handling) \in asked
    BY <1>0, <1>9 DEF RequestUnsaved, OpenInv
  <2> QED
    BY <1>0, <1>9, <2>1 DEF TypeOK, RequestUnsaved, EndHandling, TransportTypeOK
<1>10. CASE HandleResolved
  <2>1. events' \in Seq(Events)
    BY <1>0, <1>10, Reads DEF HandleResolved
  <2> QED
    BY <1>0, <1>10, <2>1 DEF TypeOK, HandleResolved, TransportTypeOK
<1>11. CASE HandleCompleted
  <2> DEFINE e == Head(events)
  <2>1. events' \in Seq(Events) /\ e \in Events /\ e.gen \in Gens
    BY <1>0, <1>11, Reads DEF HandleCompleted, Gens
  <2>2. session' \in SessionType /\ activeThread' \in [Threads -> ThreadType]
    BY <1>11, <1>b, <1>c, <2>1 DEF HandleCompleted
  <2>3. pending' \subseteq pending /\ lifecycle' \in {lifecycle, Pump} /\ handling' \in Events \cup {NoEvent}
    BY <1>0, <1>11, <2>1 DEF HandleCompleted, TypeOK
  <2> QED
    BY <1>0, <1>11, <2>1, <2>2, <2>3
       DEF TypeOK, HandleCompleted, SessionType, ThreadType, TransportTypeOK
<1>12. CASE CompleteTurn
  <2>2. session' \in SessionType /\ activeThread' \in [Threads -> ThreadType]
    BY <1>12, <1>b, <1>c DEF CompleteTurn
  <2> QED
    BY <1>0, <1>12, <2>2
       DEF TypeOK, CompleteTurn, EndHandling, SessionType, ThreadType, TransportTypeOK
<1>13. CASE TerminalDropped
    BY <1>0, <1>13 DEF TypeOK, TerminalDropped, EndHandling, TransportTypeOK
<1>14. CASE HandleClosed
  <2>1. events' \in Seq(Events)
    BY <1>0, <1>14, Reads DEF HandleClosed
  <2>2. session' \in SessionType
    BY <1>14, <1>a, <1>b DEF HandleClosed, SessionType
  <2>3. activeThread' \in [Threads -> ThreadType] /\ route' \in [Threads -> Gens]
    BY <1>0, <1>14, <1>a, <1>b DEF HandleClosed, TypeOK
  <2> QED
    BY <1>0, <1>14, <2>1, <2>2, <2>3 DEF TypeOK, HandleClosed, SessionType, ThreadType, TransportTypeOK
<1> QED
    BY <1>1, <1>2, <1>3, <1>4, <1>5, <1>6, <1>7, <1>8, <1>9, <1>10, <1>11, <1>12, <1>13, <1>14
       DEF RunStep, PumpStep

\* Every variable keeps its type: calls, watchdogs and shutdown.
LEMMA CallType ==
    ASSUME IInv,
           \/ \E r \in Calls : CallStep(r) \/ DropCall(r) \/ \E a \in shown : Claim(r, a)
           \/ \E t \in Turns : WatchdogChecks(t) \/ WatchdogStep(t)
           \/ FinishShutdown
    PROVE  TypeOK'
<1> USE ApprovalsAssumption
    DEF transportVars, outside, engine, owners, calls, seen
<1>0. TypeOK /\ HoldersInv /\ pending \subseteq PendingRecords
    BY DEF IInv, TypeOK, PendingRecords
<1>1. ASSUME NEW r \in Calls, TakeLifecycle(r) PROVE TypeOK'
    BY <1>0, <1>1 DEF TypeOK, TakeLifecycle, Return, TransportTypeOK
<1>2. ASSUME NEW r \in Calls, SendSucceeds(r) PROVE TypeOK'
  <2>1. answers' \in [Ids -> Nat] /\ settled' \subseteq asked /\ pending' \subseteq pending
    BY <1>0, <1>2 DEF TypeOK, HoldersInv, SendSucceeds, Respond, FinishClaim
  <2> QED
    BY <1>0, <1>2, <2>1 DEF TypeOK, SendSucceeds, Return, TransportTypeOK
<1>3. ASSUME NEW r \in Calls, SendFails(r) PROVE TypeOK'
  <2>1. pending' \subseteq PendingRecords
    BY <1>0, <1>3, ClaimsSet DEF SendFails, RestoreClaim
  <2> QED
    BY <1>0, <1>3, <2>1 DEF TypeOK, SendFails, Return, PendingRecords, TransportTypeOK
<1>4. ASSUME NEW r \in Calls, DropCall(r) PROVE TypeOK'
    BY <1>0, <1>4 DEF TypeOK, DropCall, Return, TransportTypeOK
<1>5. ASSUME NEW r \in Calls, NEW a \in shown, Claim(r, a) PROVE TypeOK'
  <2>1. IdOf(a) \in Ids
    BY <1>0 DEF TypeOK, Requests, IdOf, Ids
  <2>2. pending' \subseteq PendingRecords
    BY <1>0, <1>5, ClaimsSet DEF Claim
  <2>3. pc' \in [Calls -> {"idle", "claimed", "sending", "done"}] /\ target' \in [Calls -> Ids \cup {NoId}]
    <3>1. pc \in [Calls -> {"idle", "claimed", "sending", "done"}] /\ target \in [Calls -> Ids \cup {NoId}]
      BY <1>0 DEF TypeOK
    <3>2. \/ /\ pc' = [pc EXCEPT ![r] = "claimed"]
             /\ target' = [target EXCEPT ![r] = IdOf(a)]
          \/ /\ pc' = [pc EXCEPT ![r] = "done"]
             /\ target' = target
      BY <1>5 DEF Claim
    <3> QED
      BY <2>1, <3>1, <3>2
  <2>4. UNCHANGED <<transportVars, outside, owners, lifecycle, handling, down, seen>>
    BY <1>5 DEF Claim
  <2> QED
    BY <1>0, <2>2, <2>3, <2>4 DEF TypeOK, PendingRecords, TransportTypeOK
<1>6. ASSUME NEW t \in Turns, WatchdogChecks(t) PROVE TypeOK'
    BY <1>0, <1>6 DEF TypeOK, WatchdogChecks, TransportTypeOK
<1>7. ASSUME NEW t \in Turns, WatchdogCancels(t) PROVE TypeOK'
  <2>1. /\ session' \in [gen : Gens, turn : MaybeTurn,
               at : {"none", "expected", "awaited", "refused", "taken", "orphaned", "live"}]
        /\ activeThread' \in [Threads -> [gen : Gens, turn : MaybeTurn]]
    BY <1>0, <1>7
       DEF TypeOK, WatchdogCancels, ReleaseTurn, NoSession, NoThreadTurn, Gens, MaybeTurn
  <2> QED
    BY <1>0, <1>7, <2>1 DEF TypeOK, WatchdogCancels, TransportTypeOK
<1>8. ASSUME NEW t \in Turns, WatchdogUnsaved(t) PROVE TypeOK'
    BY <1>0, <1>8 DEF TypeOK, WatchdogUnsaved, TransportTypeOK
<1>9. CASE FinishShutdown
  <2>1. /\ session' \in [gen : Gens, turn : MaybeTurn,
               at : {"none", "expected", "awaited", "refused", "taken", "orphaned", "live"}]
        /\ activeThread' \in [Threads -> [gen : Gens, turn : MaybeTurn]]
    BY <1>9 DEF FinishShutdown, NoSession, NoThreadTurn, Gens, MaybeTurn
  <2> QED
    BY <1>0, <1>9, <2>1 DEF TypeOK, FinishShutdown, TransportTypeOK
<1> QED
    BY <1>1, <1>2, <1>3, <1>4, <1>5, <1>6, <1>7, <1>8, <1>9 DEF CallStep, WatchdogStep

\* The type of every variable is kept by every step.
LEMMA TypeStep ==
    ASSUME IInv, [Next]_vars
    PROVE  TypeOK'
<1>1. CASE UNCHANGED vars
    BY <1>1 DEF IInv, TypeOK, TransportTypeOK, vars, transportVars, outside, engine, owners,
                calls, seen
<1>2. CASE Next
    BY <1>2, OutsideType, PumpType, CallType DEF Next
<1> QED
    BY <1>1, <1>2

\* Who holds request_lifecycle, and that shutdown is over for good.
LEMMA HoldersStep ==
    ASSUME IInv, [Next]_vars
    PROVE  HoldersInv'
<1> USE ApprovalsAssumption DEF vars, transportVars, outside, engine, owners, calls, seen
<1>0. /\ HoldersInv
      /\ pc \in [Calls -> {"idle", "claimed", "sending", "done"}]
      /\ target \in [Calls -> Ids \cup {NoId}]
      /\ current \in Generations \cup {NoGeneration}
      /\ server \in [Turns -> [gen : Gens, phase : {"none", "running", "done"}]]
      /\ asked \subseteq Requests
      /\ shown \subseteq asked
    BY DEF IInv, TypeOK, TransportTypeOK
<1>1. CASE UNCHANGED vars
    BY <1>0, <1>1 DEF HoldersInv
<1>2. CASE TransportMoves
    BY <1>0, <1>2 DEF HoldersInv, TransportMoves, Start, BecomeReady, AbandonStart, Lose, Halt,
                      Release, NoGeneration
<1>3. ASSUME NEW g \in Generations, AnnounceLoss(g) PROVE HoldersInv'
    BY <1>0, <1>3 DEF HoldersInv, AnnounceLoss, Announce
<1>4. ASSUME NEW t \in Turns, BeginTurn(t) PROVE HoldersInv'
  <2>1. current \in Generations
    BY <1>0, <1>4 DEF BeginTurn, Serving
  <2> QED
    BY <1>0, <1>4, <2>1 DEF HoldersInv, BeginTurn
<1>5. ASSUME NEW t \in Turns, BeginChild(t) PROVE HoldersInv'
  <2>1. current \in Generations
    BY <1>0, <1>5 DEF BeginChild, Serving
  <2> QED
    BY <1>0, <1>5, <2>1 DEF HoldersInv, BeginChild
<1>6. ASSUME NEW t \in Turns, Ask(t) PROVE HoldersInv'
    BY <1>0, <1>6 DEF HoldersInv, Ask
<1>7. ASSUME NEW t \in Turns, Complete(t) PROVE HoldersInv'
    BY <1>0, <1>7 DEF HoldersInv, Complete
<1>8. ASSUME NEW a \in asked, Resolve(a) PROVE HoldersInv'
    BY <1>0, <1>8 DEF HoldersInv, Resolve
<1>9. CASE RunStep
    BY <1>0, <1>9 DEF HoldersInv, RunStep, RunTakesTurn, RunPublishesTurn, RunGivesUp
<1>10. CASE PumpIgnores \/ HandleStarted \/ HandleResolved \/ HandleClosed \/ RefuseRequest
    BY <1>0, <1>10
       DEF HoldersInv, PumpIgnores, HandleStarted, HandleResolved, HandleClosed, RefuseRequest
<1>11. CASE AdmitRequest \/ HandleCompleted
    BY <1>0, <1>11
       DEF HoldersInv, AdmitRequest, HandleCompleted, PumpReads, LifecycleFree, ReleaseTurn
<1>12. CASE AcceptRequest \/ RequestUnsaved \/ CompleteTurn \/ TerminalDropped
    BY <1>0, <1>12
       DEF HoldersInv, AcceptRequest, RequestUnsaved, CompleteTurn, TerminalDropped, EndHandling,
           NoEvent
<1>13. ASSUME NEW r \in Calls, CallStep(r) \/ DropCall(r) PROVE HoldersInv'
    BY <1>0, <1>13
       DEF HoldersInv, CallStep, TakeLifecycle, SendSucceeds, SendFails, DropCall, Return,
           LifecycleFree
<1>14. ASSUME NEW r \in Calls, NEW a \in shown, Claim(r, a) PROVE HoldersInv'
  <2>1. IdOf(a) \in Ids
    BY <1>0 DEF Requests, IdOf, Ids
  <2> QED
    BY <1>0, <1>14, <2>1 DEF HoldersInv, Claim
<1>15. ASSUME NEW t \in Turns, WatchdogChecks(t) \/ WatchdogStep(t) PROVE HoldersInv'
    BY <1>0, <1>15
       DEF HoldersInv, WatchdogChecks, WatchdogStep, WatchdogCancels, WatchdogUnsaved,
           LifecycleFree
<1>16. CASE FinishShutdown
    BY <1>0, <1>16 DEF HoldersInv, FinishShutdown, NoEvent
<1> QED
    BY <1>1, <1>2, <1>3, <1>4, <1>5, <1>6, <1>7, <1>8, <1>9, <1>10, <1>11, <1>12, <1>13, <1>14,
       <1>15, <1>16
       DEF Next, TransportStep, ServerStep, PumpStep

\* The ids of a generation stay in order.
LEMMA AskedStep ==
    ASSUME IInv, [Next]_vars
    PROVE  AskedInv'
<1>0. TypeOK /\ HoldersInv /\ AskedInv
    BY DEF IInv
<1>1. CASE UNCHANGED asked
    BY <1>0, <1>1 DEF AskedInv, AskedOf
<1>2. ASSUME NEW t \in Turns, Ask(t) PROVE AskedInv'
  <2> DEFINE g == server[t].gen
             rpc == 1 + Cardinality(AskedOf(g))
             new == [gen |-> g, rpc |-> rpc, turn |-> t]
  <2>1. asked' = asked \cup {new} /\ Cardinality(asked) < MaxAsked
    BY <1>2 DEF Ask
  <2>2. /\ rpc \in 1 .. MaxAsked
        /\ \A a \in asked : a.gen = g => a.rpc < rpc
    BY <1>0, <2>1, NextRpc
  <2>3. IsFiniteSet(AskedOf(g)) /\ new \notin AskedOf(g)
    <3>1. AskedOf(g) \subseteq asked
      BY DEF AskedOf
    <3>2. IsFiniteSet(AskedOf(g))
      BY <1>0, <3>1, FS_Subset DEF AskedInv
    <3>3. new \notin asked
      BY <2>2
    <3> QED
      BY <3>1, <3>2, <3>3
  <2>4. IsFiniteSet(asked')
    BY <1>0, <2>1, FS_AddElement DEF AskedInv
  <2>5. ASSUME NEW h
        PROVE  AskedOf(h)' = IF h = g THEN AskedOf(h) \cup {new} ELSE AskedOf(h)
    BY <2>1 DEF AskedOf
  <2>6. ASSUME NEW h, h = g PROVE Cardinality(AskedOf(h)') = rpc /\ rpc \in Nat
    <3> HIDE DEF new, g
    <3>1. Cardinality(AskedOf(g)) \in Nat
      BY <2>3, FS_CardinalityType
    <3>2. Cardinality(AskedOf(g) \cup {new}) = Cardinality(AskedOf(g)) + 1
      BY <2>3, FS_AddElement
    <3>3. AskedOf(h)' = AskedOf(g) \cup {new}
      BY <2>5, <2>6
    <3> QED
      BY <3>1, <3>2, <3>3
  <2>8. ASSUME NEW a \in asked' PROVE a.rpc <= Cardinality(AskedOf(a.gen)')
    <3>1. CASE a.gen # g
      BY <1>0, <2>1, <2>5, <3>1 DEF AskedInv
    <3>2. CASE a.gen = g /\ a \in asked
      <4>1. a.rpc \in Nat
        BY <1>0, <3>2 DEF TypeOK, Requests
      <4>2. Cardinality(AskedOf(a.gen)') = rpc /\ rpc \in Nat
        BY <2>6, <3>2
      <4>3. a.rpc < rpc
        BY <2>2, <3>2
      <4> HIDE DEF rpc
      <4> QED
        BY <4>1, <4>2, <4>3
    <3>3. CASE a = new
      <4>1. a.gen = g /\ a.rpc = rpc
        BY <3>3
      <4>2. Cardinality(AskedOf(a.gen)') = rpc /\ rpc \in Nat
        BY <2>6, <4>1
      <4> HIDE DEF rpc, g, new
      <4> QED
        BY <4>1, <4>2
    <3> QED
      BY <2>1, <3>1, <3>2, <3>3
  <2> QED
    BY <2>4, <2>8 DEF AskedInv, AskedOf
<1>3. [Next]_vars => UNCHANGED asked \/ \E t \in Turns : Ask(t)
  <2>1. TransportStep \/ RunStep => UNCHANGED asked
    BY DEF TransportStep, TransportMoves, AnnounceLoss, RunStep, RunTakesTurn, RunPublishesTurn,
           RunGivesUp, outside
  <2>2. ServerStep => UNCHANGED asked \/ \E t \in Turns : Ask(t)
    BY DEF ServerStep, BeginTurn, BeginChild, Complete, Resolve
  <2>3. PumpStep => UNCHANGED asked
    BY DEF PumpStep, PumpIgnores, HandleStarted, AdmitRequest, RefuseRequest, AcceptRequest,
           RequestUnsaved, HandleResolved, HandleCompleted, CompleteTurn, TerminalDropped,
           HandleClosed, outside
  <2>4. ASSUME NEW r \in Calls, CallStep(r) \/ DropCall(r) \/ \E a \in shown : Claim(r, a)
        PROVE  UNCHANGED asked
    BY <2>4 DEF CallStep, TakeLifecycle, SendSucceeds, SendFails, DropCall, Claim, outside
  <2>5. ASSUME NEW t \in Turns, WatchdogChecks(t) \/ WatchdogStep(t) PROVE UNCHANGED asked
    BY <2>5 DEF WatchdogChecks, WatchdogStep, WatchdogCancels, WatchdogUnsaved, outside
  <2>6. FinishShutdown \/ UNCHANGED vars => UNCHANGED asked
    BY DEF FinishShutdown, vars, outside
  <2> QED
    BY <2>1, <2>2, <2>3, <2>4, <2>5, <2>6 DEF Next
<1> QED
    BY <1>1, <1>2, <1>3

\* What a sending call needs is there while it sends.
LEMMA SendingStep ==
    ASSUME IInv, [Next]_vars
    PROVE  SendingIsPending'
<1>0. /\ HoldersInv /\ SendingIsPending
      /\ pending \subseteq PendingRecords
      /\ pc \in [Calls -> {"idle", "claimed", "sending", "done"}]
      /\ target \in [Calls -> Ids \cup {NoId}]
    BY DEF IInv, TypeOK, PendingRecords
<1>1. CASE UNCHANGED <<pending, pc, target, down>>
    BY <1>0, <1>1 DEF SendingIsPending, IsClaimed
\* Steps that need request_lifecycle: no call sends.
<1>2. ASSUME \A r \in Calls : pc[r] # "sending", UNCHANGED <<pc, target>> PROVE SendingIsPending'
    BY <1>2 DEF SendingIsPending
<1>3. CASE HandleResolved \/ HandleCompleted \/ HandleClosed
  <2>1. LifecycleFree /\ UNCHANGED <<pc, target>>
    BY <1>3 DEF HandleResolved, HandleCompleted, HandleClosed, calls
  <2>2. \A r \in Calls : pc[r] # "sending"
    BY <1>0, <2>1, ApprovalsAssumption DEF HoldersInv, LifecycleFree
  <2> QED
    BY <1>2, <2>1, <2>2
<1>4. ASSUME NEW t \in Turns, WatchdogCancels(t) PROVE SendingIsPending'
  <2>1. lifecycle = t /\ UNCHANGED <<pc, target>>
    BY <1>4 DEF WatchdogCancels, calls
  <2>2. \A r \in Calls : pc[r] # "sending"
    BY <1>0, <2>1, ApprovalsAssumption DEF HoldersInv
  <2> QED
    BY <1>2, <2>1, <2>2
<1>5. CASE AcceptRequest
  <2>1. lifecycle = Pump /\ UNCHANGED <<pc, target>>
    BY <1>0, <1>5 DEF AcceptRequest, HoldersInv, NoEvent, calls
  <2>2. \A r \in Calls : pc[r] # "sending"
    BY <1>0, <2>1, ApprovalsAssumption DEF HoldersInv
  <2> QED
    BY <1>2, <2>1, <2>2
<1>6. ASSUME NEW r \in Calls, TakeLifecycle(r) PROVE SendingIsPending'
  <2>1. \A q \in Calls : pc[q] # "sending"
    BY <1>0, <1>6, ApprovalsAssumption DEF HoldersInv, TakeLifecycle, LifecycleFree
  <2>2. ASSUME NEW q \in Calls, pc'[q] = "sending" PROVE IsClaimed(target[q])' /\ q = r
    <3>1. q = r
      BY <1>0, <1>6, <2>1, <2>2 DEF TakeLifecycle, Return
    <3> QED
      BY <1>0, <1>6, <2>2, <3>1 DEF TakeLifecycle, Return, IsClaimed
  <2> QED
    BY <2>2 DEF SendingIsPending
<1>7. ASSUME NEW r \in Calls, SendSucceeds(r) \/ SendFails(r) PROVE SendingIsPending'
  <2>1. \A q \in Calls : pc'[q] # "sending"
    BY <1>0, <1>7 DEF HoldersInv, SendSucceeds, SendFails, Return
  <2> QED
    BY <2>1 DEF SendingIsPending
<1>8. ASSUME NEW r \in Calls, DropCall(r) PROVE SendingIsPending'
    BY <1>0, <1>8 DEF SendingIsPending, DropCall, Return, IsClaimed
<1>9. ASSUME NEW r \in Calls, NEW a \in shown, Claim(r, a) PROVE SendingIsPending'
  <2>1. ASSUME NEW id, IsClaimed(id) PROVE IsClaimed(id)'
    <3>1. CASE UNCHANGED pending
      BY <2>1, <3>1 DEF IsClaimed
    <3>2. CASE SetClaim(IdOf(a), TRUE)
      <4>1. PICK q \in pending : IdOf(q) = id /\ q.claimed
        BY <2>1 DEF IsClaimed
      <4>2. PICK p \in pending' : /\ IdOf(p) = IdOf(q)
                                  /\ p = IF IdOf(q) = IdOf(a) THEN [q EXCEPT !.claimed = TRUE] ELSE q
        BY <1>0, <3>2, ClaimsSet
      <4>3. p.claimed
        BY <1>0, <4>1, <4>2 DEF PendingRecords
      <4> QED
        BY <4>1, <4>2, <4>3 DEF IsClaimed
    <3> QED
      BY <1>9, <3>1, <3>2 DEF Claim
  <2>2. \A q \in Calls : pc'[q] = "sending" => pc[q] = "sending" /\ target'[q] = target[q]
    BY <1>0, <1>9 DEF Claim
  <2>3. down' = down
    BY <1>9 DEF Claim
  <2>4. ASSUME NEW q \in Calls, pc'[q] = "sending", ~down' PROVE IsClaimed(target[q])'
    <3>1. IsClaimed(target[q])
      BY <1>0, <2>2, <2>3, <2>4 DEF SendingIsPending
    <3>2. target'[q] = target[q]
      BY <2>2, <2>4
    <3> QED
      BY <2>1, <3>1, <3>2 DEF IsClaimed
  <2> QED
    BY <2>4 DEF SendingIsPending
<1>10. CASE FinishShutdown
    BY <1>10 DEF SendingIsPending, FinishShutdown
<1>11. CASE TransportStep \/ ServerStep \/ RunStep \/ UNCHANGED vars
  <2>1. UNCHANGED <<pending, pc, target, down>>
    BY <1>11 DEF TransportStep, TransportMoves, AnnounceLoss, ServerStep, BeginTurn, BeginChild,
                 Ask, Complete, Resolve, RunStep, RunTakesTurn, RunPublishesTurn, RunGivesUp,
                 vars, engine, calls
  <2> QED
    BY <1>1, <2>1
<1>12. CASE \/ PumpIgnores \/ HandleStarted \/ AdmitRequest \/ RefuseRequest \/ RequestUnsaved
            \/ CompleteTurn \/ TerminalDropped
            \/ \E t \in Turns : WatchdogChecks(t) \/ WatchdogUnsaved(t)
  <2>1. UNCHANGED <<pending, pc, target, down>>
    BY <1>12 DEF PumpIgnores, HandleStarted, AdmitRequest, RefuseRequest, RequestUnsaved,
                 CompleteTurn, TerminalDropped, WatchdogChecks, WatchdogUnsaved, engine, calls
  <2> QED
    BY <1>1, <2>1
<1> QED
    BY <1>3, <1>4, <1>5, <1>6, <1>7, <1>8, <1>9, <1>10, <1>11, <1>12
       DEF Next, PumpStep, CallStep, WatchdogStep

\* A response that is written is the first one.
LEMMA FirstResponse ==
    ASSUME IInv, NEW r \in Calls, SendSucceeds(r)
    PROVE  /\ target[r] \in Ids
           /\ answers[target[r]] = 0
           /\ \E p \in pending : IdOf(p) = target[r] /\ p.claimed
           /\ handling.kind # "request"
<1>1. pc[r] = "sending" /\ target[r].gen = current
    BY DEF SendSucceeds
<1>2. target[r] \in Ids /\ lifecycle = r
    BY <1>1 DEF IInv, HoldersInv
<1>3. ~down
  <2>1. target[r].gen \in Generations
    BY <1>2 DEF Ids
  <2>2. target[r].gen # NoGeneration
    BY <2>1 DEF Generations, NoGeneration
  <2> QED
    BY <1>1, <2>2 DEF IInv, HoldersInv
<1>4. PICK p \in pending : IdOf(p) = target[r] /\ p.claimed
    BY <1>1, <1>3 DEF IInv, SendingIsPending, IsClaimed
<1>5. answers[target[r]] = 0
    BY <1>4 DEF IInv, OpenInv
<1>6. handling = NoEvent
    BY <1>2, ApprovalsAssumption DEF IInv, HoldersInv
<1> QED
    BY <1>2, <1>4, <1>5, <1>6 DEF NoEvent

\* The same of a refusal.
LEMMA FirstRefusal ==
    ASSUME IInv, RefuseRequest
    PROVE  /\ IdOf(Head(events)) \in Ids
           /\ RequestOf(Head(events)) \in asked
           /\ answers[IdOf(Head(events))] = 0
           /\ \A p \in pending : IdOf(p) # IdOf(Head(events))
           /\ handling.kind # "request"
<1>1. PumpReads("request")
    BY DEF RefuseRequest
<1>2. TypeOK /\ HoldersInv /\ QueueInv
    BY DEF IInv
<1>3. /\ Head(events) = events[1]
      /\ 1 \in DOMAIN events
      /\ events[1].kind = "request"
      /\ IdOf(Head(events)) \in Ids
    BY <1>1, <1>2, Reads DEF PumpReads
<1> QED
    BY <1>1, <1>2, <1>3 DEF QueueInv, PumpReads, NoEvent

\* At most one response is sent.
LEMMA AnsweredStep ==
    ASSUME IInv, [Next]_vars
    PROVE  AnsweredOnce'
<1>0. AnsweredOnce /\ answers \in [Ids -> Nat]
    BY DEF IInv, TypeOK
<1>1. CASE UNCHANGED answers
    BY <1>0, <1>1 DEF AnsweredOnce
<1>2. ASSUME NEW id \in Ids, answers[id] = 0, answers' = [answers EXCEPT ![id] = @ + 1]
      PROVE  AnsweredOnce'
    BY <1>0, <1>2 DEF AnsweredOnce
<1>3. ASSUME NEW r \in Calls, SendSucceeds(r) PROVE AnsweredOnce'
    BY <1>2, <1>3, FirstResponse DEF SendSucceeds, Respond
<1>4. CASE RefuseRequest
  <2> DEFINE id == IdOf(Head(events))
  <2>1. id \in Ids /\ answers[id] = 0
    BY <1>4, FirstRefusal
  <2>2. UNCHANGED answers \/ answers' = [answers EXCEPT ![id] = @ + 1]
    BY <1>4 DEF RefuseRequest, Respond
  <2> QED
    BY <1>1, <1>2, <2>1, <2>2
<1>5. CASE TransportStep \/ ServerStep \/ RunStep \/ UNCHANGED vars
    BY <1>1, <1>5
       DEF TransportStep, TransportMoves, AnnounceLoss, ServerStep, BeginTurn, BeginChild,
           Ask, Complete, Resolve, RunStep, RunTakesTurn, RunPublishesTurn, RunGivesUp,
           vars, engine, seen
<1>6. CASE \/ PumpIgnores \/ HandleStarted \/ AdmitRequest \/ RequestUnsaved \/ AcceptRequest
           \/ CompleteTurn \/ TerminalDropped \/ HandleResolved \/ HandleCompleted \/ HandleClosed
           \/ FinishShutdown
    BY <1>1, <1>6
       DEF PumpIgnores, HandleStarted, AdmitRequest, RequestUnsaved, AcceptRequest,
           CompleteTurn, TerminalDropped, HandleResolved, HandleCompleted, HandleClosed,
           FinishShutdown, engine, seen
<1>7. ASSUME NEW r \in Calls,
             TakeLifecycle(r) \/ SendFails(r) \/ DropCall(r) \/ \E a \in shown : Claim(r, a)
      PROVE  AnsweredOnce'
    BY <1>1, <1>7 DEF TakeLifecycle, SendFails, DropCall, Claim, seen
<1>8. ASSUME NEW t \in Turns, WatchdogChecks(t) \/ WatchdogStep(t) PROVE AnsweredOnce'
    BY <1>1, <1>8 DEF WatchdogChecks, WatchdogStep, WatchdogCancels, WatchdogUnsaved, seen
<1> QED
    BY <1>3, <1>4, <1>5, <1>6, <1>7, <1>8 DEF Next, PumpStep, CallStep

\* Steps that leave the queue alone.
LEMMA QueueKept ==
    ASSUME QueueInv, UNCHANGED <<events, asked, answers>>,
           \A p \in pending' : \E q \in pending : IdOf(p) = IdOf(q),
           handling' = handling \/ handling'.kind # "request"
    PROVE  QueueInv'
BY DEF QueueInv

\* An event joins the queue that is no request.
LEMMA QueueAppended ==
    ASSUME QueueInv, events \in Seq(Events), NEW e \in Events, e.kind # "request",
           events' = Append(events, e), UNCHANGED <<asked, answers, pending, handling>>
    PROVE  QueueInv'
<1>1. /\ DOMAIN events = 1 .. Len(events)
      /\ DOMAIN events' = 1 .. Len(events) + 1
      /\ Len(events) \in Nat
      /\ events'[Len(events) + 1] = e
      /\ \A i \in DOMAIN events : events'[i] = events[i]
    BY QueueEnds
<1>2. \A i \in DOMAIN events' :
          events'[i].kind = "request" => i \in DOMAIN events /\ events'[i] = events[i]
    BY <1>1
<1> HIDE DEF Events
<1> QED
    BY <1>2 DEF QueueInv

\* The pump reads the head of the queue, and may answer it.
LEMMA QueueRead ==
    ASSUME TypeOK, HoldersInv, QueueInv, NEW kind, PumpReads(kind), UNCHANGED asked,
           \/ UNCHANGED answers
           \/ kind = "request" /\ answers' = [answers EXCEPT ![IdOf(Head(events))] = @ + 1],
           \A p \in pending' : \E q \in pending : IdOf(p) = IdOf(q),
           handling'.kind = "request" => kind = "request" /\ handling' = Head(events)
    PROVE  QueueInv'
<1>1. /\ Head(events) = events[1]
      /\ 1 \in DOMAIN events
      /\ \A i \in DOMAIN events' : /\ i \in Nat \ {0}
                                   /\ i + 1 \in DOMAIN events
                                   /\ events'[i] = events[i + 1]
  <2>1. events \in Seq(Events) /\ events # <<>> /\ events' = Tail(events)
    BY DEF TypeOK, PumpReads
  <2>2. DOMAIN events' \subseteq Nat \ {0}
    BY <2>1, QueueEnds
  <2> QED
    BY <2>1, <2>2, QueueEnds
<1>2. Head(events).kind = kind
    BY DEF PumpReads
<1>3. ASSUME NEW i \in DOMAIN events', events'[i].kind = "request"
      PROVE  /\ i + 1 \in DOMAIN events /\ i + 1 # 1
             /\ events'[i] = events[i + 1]
             /\ kind = "request" => IdOf(events'[i]) # IdOf(Head(events))
    BY <1>1, <1>2, <1>3 DEF QueueInv
<1>4. ASSUME NEW i \in DOMAIN events', events'[i].kind = "request"
      PROVE  /\ RequestOf(events'[i]) \in asked'
             /\ answers'[IdOf(events'[i])] = 0
             /\ \A p \in pending' : IdOf(p) # IdOf(events'[i])
             /\ handling'.kind = "request" => IdOf(handling') # IdOf(events'[i])
  <2>1. /\ RequestOf(events'[i]) \in asked
        /\ answers[IdOf(events'[i])] = 0
        /\ \A p \in pending : IdOf(p) # IdOf(events'[i])
    BY <1>3, <1>4 DEF QueueInv
  <2>2. answers'[IdOf(events'[i])] = answers[IdOf(events'[i])]
    <3>1. IdOf(events'[i]) \in Ids
      <4>1. RequestOf(events'[i]) \in Requests
        BY <2>1 DEF TypeOK
      <4> QED
        BY <4>1 DEF RequestOf, Requests, IdOf, Ids
    <3>2. answers \in [Ids -> Nat]
      BY DEF TypeOK
    <3> QED
      BY <1>3, <1>4, <3>1, <3>2
  <2> QED
    BY <1>3, <1>4, <2>1, <2>2
<1>5. ASSUME NEW i \in DOMAIN events', NEW j \in DOMAIN events',
             events'[i].kind = "request", events'[j].kind = "request",
             IdOf(events'[i]) = IdOf(events'[j])
      PROVE  i = j
  <2>1. i + 1 = j + 1
    BY <1>3, <1>5 DEF QueueInv
  <2> QED
    BY <1>1, <2>1
<1> QED
    BY <1>4, <1>5 DEF QueueInv

\* The request that joins the queue is new.
LEMMA AskQueue ==
    ASSUME IInv, NEW t \in Turns, Ask(t)
    PROVE  QueueInv' /\ OpenInv'
<1> DEFINE g == server[t].gen
           rpc == 1 + Cardinality(AskedOf(g))
           new == [gen |-> g, rpc |-> rpc, turn |-> t]
           e == [kind |-> "request", gen |-> g, turn |-> t, rpc |-> rpc]
<1>0. TypeOK /\ HoldersInv /\ AskedInv /\ QueueInv /\ OpenInv
    BY DEF IInv
<1>1. /\ asked' = asked \cup {new}
      /\ events' = Append(events, e)
      /\ Cardinality(asked) < MaxAsked
      /\ server[t].phase = "running"
      /\ UNCHANGED <<pending, handling, answers>>
    BY DEF Ask, Broadcast, engine, seen
<1>2. g \in Generations /\ rpc \in 1 .. MaxAsked
    BY <1>0, <1>1, NextRpc DEF HoldersInv
<1>3. \A a \in asked : IdOf(a) # IdOf(new)
  <2>1. \A a \in asked : a.gen = g => a.rpc < rpc /\ a.rpc \in Nat
    BY <1>0, <1>1, NextRpc DEF TypeOK, Requests
  <2>2. rpc \in Nat
    BY <1>2
  <2> HIDE DEF g, rpc
  <2> QED
    BY <2>1, <2>2 DEF IdOf
<1>4. IdOf(new) \in Ids /\ RequestOf(e) = new /\ IdOf(e) = IdOf(new)
    BY <1>2 DEF IdOf, Ids, RequestOf
<1>5. e \in Events
    BY <1>2 DEF Events, MaybeTurn
<1> HIDE DEF new, e, g, rpc
<1>6. e.kind = "request"
    BY DEF e
<1>7. answers[IdOf(new)] = 0
  <2>1. answers[IdOf(new)] \in Nat
    BY <1>0, <1>4 DEF TypeOK
  <2> QED
    BY <1>0, <1>3, <1>4, <2>1 DEF OpenInv
<1>8. /\ \A p \in pending : IdOf(p) # IdOf(new)
      /\ handling.kind = "request" => IdOf(handling) # IdOf(new)
      /\ \A i \in DOMAIN events : events[i].kind = "request" => IdOf(events[i]) # IdOf(new)
  <2>1. \A x : IdOf(RequestOf(x)) = IdOf(x)
    BY DEF IdOf, RequestOf
  <2> QED
    BY <1>0, <1>3, <2>1 DEF OpenInv, QueueInv
<1>9. /\ DOMAIN events = 1 .. Len(events)
      /\ DOMAIN events' = 1 .. Len(events) + 1
      /\ Len(events) \in Nat
      /\ events'[Len(events) + 1] = e
      /\ \A i \in DOMAIN events : events'[i] = events[i]
    BY <1>0, <1>1, <1>5, QueueEnds DEF TypeOK
<1>10. \A i \in DOMAIN events' :
           \/ i \in DOMAIN events /\ events'[i] = events[i]
           \/ i = Len(events) + 1 /\ events'[i] = e
    BY <1>9
<1>11. QueueInv'
    BY <1>0, <1>1, <1>4, <1>7, <1>8, <1>10 DEF QueueInv
<1>12. OpenInv'
    BY <1>0, <1>1 DEF OpenInv
<1> QED
    BY <1>11, <1>12

\* A request that the pump has not read is known nowhere else.
LEMMA QueueStep ==
    ASSUME IInv, [Next]_vars
    PROVE  QueueInv'
<1>0. /\ TypeOK /\ HoldersInv /\ QueueInv
      /\ pending \subseteq PendingRecords
      /\ events \in Seq(Events)
    BY DEF IInv, TypeOK, PendingRecords
<1>1. CASE TransportMoves \/ RunStep \/ UNCHANGED vars
  <2>1. UNCHANGED <<events, asked, answers, pending, handling>>
    BY <1>1 DEF TransportMoves, RunStep, RunTakesTurn, RunPublishesTurn, RunGivesUp, vars,
                outside, engine, seen
  <2> QED
    BY <1>0, <2>1, QueueKept
<1>2. ASSUME NEW kind \in {"started", "resolved", "completed", "closed"},
             NEW g \in Generations, NEW t \in MaybeTurn, NEW rpc \in 0 .. MaxAsked,
             Broadcast(kind, g, t, rpc), UNCHANGED <<asked, answers, pending, handling>>
      PROVE  QueueInv'
  <2> DEFINE e == [kind |-> kind, gen |-> g, turn |-> t, rpc |-> rpc]
  <2>1. e \in Events /\ e.kind # "request"
    BY DEF Events
  <2>2. events' = Append(events, e)
    BY <1>2 DEF Broadcast
  <2> HIDE DEF e
  <2> QED
    BY <1>0, <1>2, <2>1, <2>2, QueueAppended
<1>3. ASSUME NEW g \in Generations, AnnounceLoss(g) PROVE QueueInv'
  <2>1. NoTurn \in MaybeTurn /\ 0 \in 0 .. MaxAsked
    BY ApprovalsAssumption DEF MaybeTurn
  <2> QED
    BY <1>2, <1>3, <2>1 DEF AnnounceLoss, engine, seen
<1>4. ASSUME NEW t \in Turns, BeginTurn(t) \/ BeginChild(t) PROVE QueueInv'
  <2>1. t \in MaybeTurn /\ 0 \in 0 .. MaxAsked /\ current \in Generations
    BY <1>0, <1>4, ApprovalsAssumption
       DEF MaybeTurn, BeginTurn, BeginChild, Serving, TypeOK, TransportTypeOK
  <2> QED
    BY <1>2, <1>4, <2>1 DEF BeginTurn, BeginChild, seen
<1>5. ASSUME NEW t \in Turns, Complete(t) PROVE QueueInv'
  <2>1. t \in MaybeTurn /\ 0 \in 0 .. MaxAsked /\ server[t].gen \in Generations
    BY <1>0, <1>5, ApprovalsAssumption DEF MaybeTurn, Complete, HoldersInv
  <2> QED
    BY <1>2, <1>5, <2>1 DEF Complete, engine, seen
<1>6. ASSUME NEW a \in asked, Resolve(a) PROVE QueueInv'
  <2>1. a.turn \in MaybeTurn /\ a.rpc \in 0 .. MaxAsked /\ a.gen \in Generations
    BY <1>0, ApprovalsAssumption DEF MaybeTurn, TypeOK, Requests
  <2> QED
    BY <1>2, <1>6, <2>1 DEF Resolve, engine, seen
<1>7. CASE PumpIgnores
    BY <1>0, <1>7, QueueRead DEF PumpIgnores, engine, seen, PumpReads, NoEvent
<1>8. CASE HandleStarted
    BY <1>0, <1>8, QueueRead DEF HandleStarted, seen, PumpReads, NoEvent
<1>9. CASE AdmitRequest
    BY <1>0, <1>9, QueueRead DEF AdmitRequest, seen
<1>10. CASE RefuseRequest
  <2>1. UNCHANGED answers \/ answers' = [answers EXCEPT ![IdOf(Head(events))] = @ + 1]
    BY <1>10 DEF RefuseRequest, Respond
  <2> QED
    BY <1>0, <1>10, <2>1, QueueRead DEF RefuseRequest, PumpReads, NoEvent
<1>11. CASE HandleResolved
    BY <1>0, <1>11, QueueRead DEF HandleResolved, seen, PumpReads, NoEvent
<1>12. CASE HandleCompleted
  <2>1. PumpReads("completed") /\ UNCHANGED <<asked, answers>> /\ pending' \subseteq pending
    BY <1>12 DEF HandleCompleted, seen
  <2>2. handling'.kind # "request"
    BY <1>12 DEF HandleCompleted, PumpReads, NoEvent
  <2> QED
    BY <1>0, <2>1, <2>2, QueueRead
<1>13. CASE HandleClosed
    BY <1>0, <1>13, QueueRead DEF HandleClosed, seen, PumpReads, NoEvent
<1>14. CASE AcceptRequest
  <2>1. UNCHANGED <<events, asked, answers>> /\ handling' = NoEvent /\ handling.kind = "request"
    BY <1>14 DEF AcceptRequest, EndHandling, outside
  <2>2. \A p \in pending' : p \in pending \/ IdOf(p) = IdOf(handling)
    <3> DEFINE new == [gen |-> handling.gen, rpc |-> handling.rpc, turn |-> handling.turn,
                       claimed |-> FALSE]
    <3>1. pending' = pending \/ pending' = pending \cup {new}
      BY <1>14 DEF AcceptRequest
    <3>2. IdOf(new) = IdOf(handling)
      BY DEF IdOf
    <3> HIDE DEF new
    <3> QED
      BY <3>1, <3>2
  <2> QED
    BY <1>0, <2>1, <2>2 DEF QueueInv, NoEvent
<1>15. CASE RequestUnsaved \/ CompleteTurn \/ TerminalDropped
    BY <1>0, <1>15, QueueKept
       DEF RequestUnsaved, CompleteTurn, TerminalDropped, EndHandling, outside, seen, NoEvent
<1>16. ASSUME NEW r \in Calls, TakeLifecycle(r) \/ DropCall(r) PROVE QueueInv'
    BY <1>0, <1>16, QueueKept DEF TakeLifecycle, DropCall, outside, seen
<1>17. ASSUME NEW id, NEW claim \in BOOLEAN, SetClaim(id, claim),
              UNCHANGED <<events, asked, answers, handling>>
       PROVE  QueueInv'
    BY <1>0, <1>17, ClaimsSet, QueueKept
<1>18. ASSUME NEW r \in Calls, SendFails(r) PROVE QueueInv'
    BY <1>17, <1>18 DEF SendFails, RestoreClaim, outside, seen
<1>19. ASSUME NEW r \in Calls, NEW a \in shown, Claim(r, a) PROVE QueueInv'
  <2>1. UNCHANGED <<events, asked, answers, handling>>
    BY <1>19 DEF Claim, outside, seen
  <2>2. UNCHANGED pending \/ SetClaim(IdOf(a), TRUE)
    BY <1>19 DEF Claim
  <2> QED
    BY <1>0, <1>17, <2>1, <2>2, QueueKept
<1>20. ASSUME NEW r \in Calls, SendSucceeds(r) PROVE QueueInv'
  <2>1. /\ UNCHANGED <<events, asked, handling>>
        /\ answers' = [answers EXCEPT ![target[r]] = @ + 1]
        /\ pending' \subseteq pending
    BY <1>20 DEF SendSucceeds, Respond, FinishClaim
  <2>2. /\ \A i \in DOMAIN events : events[i].kind = "request" => IdOf(events[i]) # target[r]
        /\ handling.kind # "request"
    BY <1>0, <1>20, FirstResponse DEF QueueInv
  <2>3. \A id : id # target[r] => answers'[id] = answers[id]
    BY <1>0, <2>1 DEF TypeOK
  <2> QED
    BY <1>0, <2>1, <2>2, <2>3 DEF QueueInv
<1>21. ASSUME NEW t \in Turns, WatchdogChecks(t) \/ WatchdogStep(t) PROVE QueueInv'
    BY <1>0, <1>21, QueueKept
       DEF WatchdogChecks, WatchdogStep, WatchdogCancels, WatchdogUnsaved, outside, seen
<1>22. CASE FinishShutdown
    BY <1>0, <1>22, QueueKept DEF FinishShutdown, outside, seen, NoEvent
<1> QED
    BY <1>1, <1>3, <1>4, <1>5, <1>6, <1>7, <1>8, <1>9, <1>10, <1>11, <1>12, <1>13, <1>14,
       <1>15, <1>16, <1>18, <1>19, <1>20, <1>21, <1>22, AskQueue
       DEF Next, TransportStep, ServerStep, PumpStep, CallStep

\* One that is being accepted or waits for the user is not answered.
LEMMA OpenStep ==
    ASSUME IInv, [Next]_vars
    PROVE  OpenInv'
<1>0. /\ TypeOK /\ HoldersInv /\ QueueInv /\ OpenInv
      /\ pending \subseteq PendingRecords
    BY DEF IInv, TypeOK, PendingRecords
<1>1. ASSUME UNCHANGED <<asked, answers>>, pending' \subseteq pending,
             handling' = handling \/ handling'.kind # "request"
      PROVE  OpenInv'
    BY <1>0, <1>1 DEF OpenInv
<1>2. CASE TransportStep \/ RunStep \/ UNCHANGED vars
  <2>1. UNCHANGED <<asked, answers, pending, handling>>
    BY <1>2 DEF TransportStep, TransportMoves, AnnounceLoss, RunStep, RunTakesTurn,
                RunPublishesTurn, RunGivesUp, vars, outside, engine, seen
  <2> QED
    BY <1>1, <2>1
<1>3. ASSUME NEW t \in Turns, BeginTurn(t) \/ BeginChild(t) \/ Complete(t) PROVE OpenInv'
    BY <1>1, <1>3 DEF BeginTurn, BeginChild, Complete, engine, seen
<1>4. ASSUME NEW a \in asked, Resolve(a) PROVE OpenInv'
    BY <1>1, <1>4 DEF Resolve, engine, seen
<1>5. CASE PumpIgnores \/ HandleStarted \/ HandleResolved \/ HandleClosed
    BY <1>1, <1>5
       DEF PumpIgnores, HandleStarted, HandleResolved, HandleClosed, engine, seen
<1>6. CASE AdmitRequest
  <2>1. UNCHANGED <<asked, answers, pending>> /\ handling' = Head(events)
    BY <1>6 DEF AdmitRequest, seen
  <2>2. /\ Head(events) = events[1]
        /\ 1 \in DOMAIN events
        /\ events[1].kind = "request"
    BY <1>0, <1>6, Reads DEF AdmitRequest, PumpReads
  <2>3. RequestOf(Head(events)) \in asked /\ answers[IdOf(Head(events))] = 0
    BY <1>0, <2>2 DEF QueueInv
  <2> QED
    BY <1>0, <2>1, <2>3 DEF OpenInv
<1>7. ASSUME NEW id \in Ids, answers' = [answers EXCEPT ![id] = @ + 1], UNCHANGED asked,
             pending' \subseteq pending, \A p \in pending' : IdOf(p) # id,
             handling'.kind # "request", \E a \in asked : IdOf(a) = id
      PROVE  OpenInv'
  <2>1. \A i : i # id => answers'[i] = answers[i]
    BY <1>0, <1>7 DEF TypeOK
  <2> QED
    BY <1>0, <1>7, <2>1 DEF OpenInv
<1>8. CASE RefuseRequest
  <2> DEFINE id == IdOf(Head(events))
  <2>1. /\ id \in Ids
        /\ \A p \in pending : IdOf(p) # id
        /\ RequestOf(Head(events)) \in asked
        /\ handling.kind # "request"
    BY <1>8, FirstRefusal
  <2>2. \E a \in asked : IdOf(a) = id
    BY <2>1 DEF IdOf, RequestOf
  <2>3. UNCHANGED <<asked, pending, handling>>
    BY <1>8 DEF RefuseRequest
  <2>4. UNCHANGED answers \/ answers' = [answers EXCEPT ![id] = @ + 1]
    BY <1>8 DEF RefuseRequest, Respond
  <2> HIDE DEF id
  <2> QED
    BY <1>1, <1>7, <2>1, <2>2, <2>3, <2>4
<1>9. ASSUME NEW r \in Calls, SendSucceeds(r) PROVE OpenInv'
  <2>1. PICK p \in pending : IdOf(p) = target[r] /\ p.claimed
    BY <1>9, FirstResponse
  <2>2. /\ UNCHANGED <<asked, handling>>
        /\ answers' = [answers EXCEPT ![target[r]] = @ + 1]
        /\ pending' = {q \in pending : ~(IdOf(q) = target[r] /\ q.claimed)}
    BY <1>9 DEF SendSucceeds, Respond, FinishClaim
  <2>3. \A q \in pending' : IdOf(q) # target[r]
    BY <1>0, <2>1, <2>2 DEF OpenInv
  <2>4. \E a \in asked : IdOf(a) = target[r]
    BY <1>0, <2>1 DEF OpenInv
  <2>5. target[r] \in Ids /\ handling'.kind # "request"
    BY <1>9, <2>2, FirstResponse
  <2>6. pending' \subseteq pending
    BY <2>2
  <2> QED
    BY <1>7, <2>2, <2>3, <2>4, <2>5, <2>6
<1>10. CASE HandleCompleted
  <2>1. handling'.kind # "request"
    BY <1>10 DEF HandleCompleted, PumpReads, NoEvent
  <2>2. UNCHANGED <<asked, answers>> /\ pending' \subseteq pending
    BY <1>10 DEF HandleCompleted, seen
  <2> QED
    BY <1>1, <2>1, <2>2
<1>11. CASE AcceptRequest
  <2> DEFINE new == [gen |-> handling.gen, rpc |-> handling.rpc, turn |-> handling.turn,
                     claimed |-> FALSE]
  <2>1. UNCHANGED <<asked, answers>> /\ handling' = NoEvent /\ handling.kind = "request"
    BY <1>11 DEF AcceptRequest, EndHandling, outside
  <2>2. \/ pending' = pending
        \/ /\ pending' = pending \cup {new}
           /\ \A p \in pending : IdOf(p) # IdOf(handling)
    BY <1>11 DEF AcceptRequest
  <2>3. IdOf(new) = IdOf(handling) /\ IdOf(RequestOf(handling)) = IdOf(handling)
    BY DEF IdOf, RequestOf
  <2> HIDE DEF new
  <2>4. CASE pending' = pending
    BY <1>1, <2>1, <2>4 DEF NoEvent
  <2>5. CASE /\ pending' = pending \cup {new}
             /\ \A p \in pending : IdOf(p) # IdOf(handling)
    BY <1>0, <2>1, <2>3, <2>5 DEF OpenInv, NoEvent
  <2> QED
    BY <2>2, <2>4, <2>5
<1>12. CASE RequestUnsaved \/ CompleteTurn \/ TerminalDropped
    BY <1>1, <1>12
       DEF RequestUnsaved, CompleteTurn, TerminalDropped, EndHandling, outside, seen, NoEvent
<1>13. ASSUME NEW r \in Calls, TakeLifecycle(r) \/ DropCall(r) PROVE OpenInv'
    BY <1>1, <1>13 DEF TakeLifecycle, DropCall, outside, seen
<1>14. ASSUME NEW id, NEW claim \in BOOLEAN, SetClaim(id, claim),
              UNCHANGED <<asked, answers, handling>>
       PROVE  OpenInv'
  <2> DEFINE Set(q) == IF IdOf(q) = id THEN [q EXCEPT !.claimed = claim] ELSE q
  <2>1. \A p \in pending' : \E q \in pending : IdOf(p) = IdOf(q) /\ p = Set(q)
    BY <1>0, <1>14, ClaimsSet
  <2> HIDE DEF Set
  <2>2. \A p, q \in pending' : IdOf(p) = IdOf(q) => p = q
    BY <1>0, <2>1 DEF OpenInv
  <2>3. \A p \in pending' : answers'[IdOf(p)] = 0 /\ \E a \in asked' : IdOf(a) = IdOf(p)
    BY <1>0, <1>14, <2>1 DEF OpenInv
  <2> QED
    BY <1>0, <1>14, <2>2, <2>3 DEF OpenInv
<1>15. ASSUME NEW r \in Calls, SendFails(r) PROVE OpenInv'
    BY <1>14, <1>15 DEF SendFails, RestoreClaim, outside, seen
<1>16. ASSUME NEW r \in Calls, NEW a \in shown, Claim(r, a) PROVE OpenInv'
  <2>1. UNCHANGED <<asked, answers, handling>>
    BY <1>16 DEF Claim, outside, seen
  <2>2. UNCHANGED pending \/ SetClaim(IdOf(a), TRUE)
    BY <1>16 DEF Claim
  <2> QED
    BY <1>1, <1>14, <2>1, <2>2
<1>17. ASSUME NEW t \in Turns, WatchdogChecks(t) \/ WatchdogStep(t) PROVE OpenInv'
    BY <1>1, <1>17
       DEF WatchdogChecks, WatchdogStep, WatchdogCancels, WatchdogUnsaved, outside, seen
<1>18. CASE FinishShutdown
    BY <1>1, <1>18 DEF FinishShutdown, outside, seen, NoEvent
<1> QED
    BY <1>2, <1>3, <1>4, <1>5, <1>6, <1>8, <1>9, <1>10, <1>11, <1>12, <1>13, <1>15, <1>16, <1>17,
       <1>18, AskQueue
       DEF Next, ServerStep, PumpStep, CallStep

\* The invariant holds initially.
LEMMA InitIInv == Init => IInv
<1> SUFFICES ASSUME Init PROVE IInv
    OBVIOUS
<1> USE ApprovalsAssumption DEF Init, TransportInit
<1>1. TypeOK
  <2>1. TransportTypeOK
    BY DEF TransportTypeOK, NoGeneration
  <2>2. /\ server \in [Turns -> [gen : Gens, phase : {"none", "running", "done"}]]
        /\ route \in [Threads -> Gens]
    BY DEF Gens, NotRunning
  <2>3. activeThread \in [Threads -> [gen : Gens, turn : MaybeTurn]]
    BY DEF Gens, MaybeTurn, NoThreadTurn
  <2>4. session \in [gen : Gens, turn : MaybeTurn,
               at : {"none", "expected", "awaited", "refused", "taken", "orphaned", "live"}]
    BY DEF Gens, MaybeTurn, NoSession
  <2>5. events \in Seq(Events)
    OBVIOUS
  <2>6. /\ pc \in [Calls -> {"idle", "claimed", "sending", "done"}]
        /\ target \in [Calls -> Ids \cup {NoId}]
        /\ answers \in [Ids -> Nat]
        /\ down \in BOOLEAN
        /\ lifecycle \in {"free", Pump} \cup Calls \cup Turns
        /\ handling \in Events \cup {NoEvent}
    OBVIOUS
  <2>7. asked = {} /\ settled = {} /\ pending = {} /\ shown = {} /\ dropped = {}
    OBVIOUS
  <2> QED
    BY <2>1, <2>2, <2>3, <2>4, <2>5, <2>6, <2>7 DEF TypeOK
<1>2. HoldersInv
    BY DEF HoldersInv, NoEvent, NotRunning
<1>3. AskedInv
    BY FS_EmptySet DEF AskedInv
<1>4. QueueInv /\ OpenInv
    BY DEF QueueInv, OpenInv, NoEvent
<1>5. SendingIsPending /\ AnsweredOnce
    BY DEF SendingIsPending, AnsweredOnce
<1> QED
    BY <1>1, <1>2, <1>3, <1>4, <1>5 DEF IInv

\* The invariant holds in every state the engine can be in.
THEOREM Invariance == Spec => []IInv
<1>1. IInv /\ [Next]_vars => IInv'
    BY TypeStep, HoldersStep, AskedStep, QueueStep, OpenStep, SendingStep, AnsweredStep DEF IInv
<1> QED
    BY InitIInv, <1>1, PTL DEF Spec

\* Every variable keeps its type, whatever the app-server sends and in whatever
\* order calls, pump, watchdogs and shutdown run.
THEOREM TypeCorrect == Spec => []TypeOK
<1>1. IInv => TypeOK
    BY DEF IInv
<1> QED
    BY Invariance, <1>1, PTL

\* resolve_approval and resolve_codex_request only ever write a response to a
\* request that no terminal path has retired.
THEOREM SendingSafe == Spec => []SendingIsPending
<1>1. IInv => SendingIsPending
    BY DEF IInv
<1> QED
    BY Invariance, <1>1, PTL

\* No request gets two responses, whoever answers it and however often a write
\* failed before (finish_request_claim, restore_request_claim, the refusal of
\* handle_server_request).
THEOREM AnsweredSafe == Spec => []AnsweredOnce
<1>1. IInv => AnsweredOnce
    BY DEF IInv
<1> QED
    BY Invariance, <1>1, PTL

-----------------------------------------------------------------------------
(* Requests and the turns they are for *)

\* t began under generation g.
Began(g, t) == t \in Turns /\ server[t].phase # "none" /\ server[t].gen = g

StartQueued(t) == \E i \in DOMAIN events : events[i].kind = "started" /\ events[i].turn = t
EndQueued(t) == \E i \in DOMAIN events : events[i].kind = "completed" /\ events[i].turn = t

\* Generations come in order, and a child's is routed as long as it is the
\* current one.
GensInv ==
    /\ current <= spawned
    /\ \A g \in owed : g <= spawned /\ g # current
    /\ \A t \in Turns : server[t].gen <= spawned
    /\ \A i \in DOMAIN events : events[i].kind = "closed" =>
           events[i].gen <= spawned /\ events[i].gen # current
    /\ \A t \in Children : Began(current, t) => route["child"] = current

\* A request is known by its id, and settled when its turn is done.
RequestsInv ==
    /\ \A a \in asked : Began(a.gen, a.turn)
    /\ \A a \in asked : server[a.turn].phase = "done" => a \in settled
    /\ \A a, b \in asked : IdOf(a) = IdOf(b) => a = b
    /\ \A p \in pending : RequestOf(p) \in asked

\* What an event says has happened.
EventTrue(e) ==
    /\ e.kind # "closed" => Began(e.gen, e.turn)
    /\ e.kind = "completed" => server[e.turn].phase = "done"
    /\ e.kind = "resolved" => \E a \in settled : IdOf(a) = IdOf(e)

\* A turn starts once.
StartsOnce ==
    \A i, j \in DOMAIN events :
        events[i].kind = "started" /\ events[j].kind = "started" /\ events[i].turn = events[j].turn
        => i = j

\* Seen from the start of a child's turn, another turn of its generation starts
\* later, or it is over and its end does not come later.
ChildrenInOrder ==
    \A i \in DOMAIN events, t \in Children :
        /\ events[i].kind = "started"
        /\ events[i].turn \in Children
        /\ events[i].turn # t
        /\ Began(events[i].gen, t)
        => \/ \E j \in DOMAIN events : j > i /\ events[j].kind = "started" /\ events[j].turn = t
           \/ /\ server[t].phase = "done"
              /\ \A j \in DOMAIN events : j > i => ~(events[j].kind = "completed" /\ events[j].turn = t)

\* The end of a turn comes after its requests.
EndsAfterRequests ==
    \A i \in DOMAIN events :
        events[i].kind = "request" /\ server[events[i].turn].phase = "done" =>
            \E j \in DOMAIN events :
                j > i /\ events[j].kind = "completed" /\ events[j].turn = events[i].turn

EventsInv ==
    /\ \A i \in DOMAIN events : EventTrue(events[i])
    /\ StartsOnce
    /\ ChildrenInOrder
    /\ EndsAfterRequests

\* The session and the child thread name turns that began; the start of a root
\* turn is handled while the session is still its own.
SessionInv ==
    /\ session.at # "none" => session.turn \notin Children /\ Began(session.gen, session.turn)
    /\ session.at = "none" => session.turn = NoTurn
    /\ \A t \in Turns \ Children : StartQueued(t) => session.turn \in {t, NoTurn}
    /\ \A t \in Turns : activeThread["child"].turn = t =>
           t \in Children /\ Began(activeThread["child"].gen, t) /\ ~StartQueued(t)

\* A watchdog and the end of a root turn are about one that was active.
HoldingInv ==
    /\ \A t \in Turns : lifecycle = t =>
           /\ server[t].phase # "none"
           /\ ~StartQueued(t)
           /\ t \in Children \/ session.turn # t \/ NamedBySession(server[t].gen, t)
    /\ handling.kind = "completed" =>
           handling.turn \in Turns \ Children /\ RetiredWith(handling.gen, handling.turn) = {}

\* A request of t waits for the user or is about to.
Waits(g, t) ==
    \/ \E p \in pending : p.gen = g /\ p.turn = t
    \/ handling.kind = "request" /\ handling.gen = g /\ handling.turn = t

\* What PendingIsOwned says of one request.
Owned(g, t) ==
    \/ OwnerIsActive(g, t)
    \/ g # current
    \/ StorageFails /\ t \in Children /\ server[t].phase = "done"

\* The start of its turn was handled; the end of a child's turn will be before
\* the thread's next turn starts.
WaitInv ==
    \A g \in Generations, t \in Turns : Waits(g, t) =>
        /\ Owned(g, t)
        /\ Began(g, t)
        /\ t \in Children => ~StartQueued(t)
        /\ t \in Children /\ server[t].phase = "done" /\ g = current /\ ~StorageFails => EndQueued(t)

\* Nothing can make t the active turn again.
Ended(t) ==
    /\ ~StartQueued(t)
    /\ t \in Children => activeThread["child"].turn # t
    /\ t \notin Children => session.turn # t

\* What the user was shown still waits, unless its turn is over.
ShownInv ==
    \A a \in shown \ settled : a.gen = current =>
        (\E p \in pending : IdOf(p) = IdOf(a)) \/ Ended(a.turn)

OwnersInv ==
    /\ GensInv
    /\ RequestsInv
    /\ EventsInv
    /\ SessionInv
    /\ HoldingInv
    /\ WaitInv
    /\ ShownInv

\* The queue when an event has joined it.
LEMMA Joined ==
    ASSUME events \in Seq(Events), NEW e \in Events, events' = Append(events, e)
    PROVE  \E n \in Nat :
               /\ n \in DOMAIN events'
               /\ n \notin DOMAIN events
               /\ events'[n] = e
               /\ \A i \in DOMAIN events : /\ i \in Nat /\ i < n
                                           /\ i \in DOMAIN events'
                                           /\ events'[i] = events[i]
               /\ \A i \in DOMAIN events' : i \in DOMAIN events \/ i = n
<1>1. /\ DOMAIN events = 1 .. Len(events)
      /\ DOMAIN events' = 1 .. Len(events) + 1
      /\ Len(events) \in Nat
      /\ events'[Len(events) + 1] = e
      /\ \A i \in DOMAIN events : events'[i] = events[i]
    BY QueueEnds
<1>2. Len(events) + 1 \in Nat
    BY <1>1
<1> QED
    BY <1>1, <1>2

\* The queue when its head was read.
LEMMA Shifted ==
    ASSUME events \in Seq(Events), events # <<>>, events' = Tail(events)
    PROVE  /\ 1 \in DOMAIN events
           /\ Head(events) = events[1]
           /\ \A i \in DOMAIN events' : /\ i \in Nat
                                        /\ i + 1 \in DOMAIN events
                                        /\ i + 1 > 1
                                        /\ events'[i] = events[i + 1]
           /\ \A i \in DOMAIN events : /\ i \in Nat
                                       /\ i = 1 \/ (i - 1 \in DOMAIN events'
                                                    /\ events'[i - 1] = events[i])
<1>1. /\ DOMAIN events = 1 .. Len(events)
      /\ Len(events) \in Nat
      /\ Head(events) = events[1]
      /\ 1 \in DOMAIN events
      /\ \A i \in DOMAIN Tail(events) : Tail(events)[i] = events[i + 1]
    BY QueueEnds
<1>2. DOMAIN Tail(events) = 1 .. (Len(events) - 1)
    OBVIOUS
<1> QED
    BY <1>1, <1>2

\* The pump reads, or the queue stays; the app-server only hears answers.
Listens ==
    /\ UNCHANGED <<server, asked>>
    /\ settled \subseteq settled'
    /\ UNCHANGED events \/ (events # <<>> /\ events' = Tail(events))

\* Every other step of the system than these five is of that kind.
LEMMA SortedStep ==
    ASSUME [Next]_vars
    PROVE  \/ Listens
           \/ \E g \in Generations : AnnounceLoss(g)
           \/ \E t \in Turns : BeginTurn(t) \/ BeginChild(t) \/ Ask(t) \/ Complete(t)
           \/ \E a \in asked : Resolve(a)
<1> USE DEF outside, engine
<1>1. CASE TransportMoves \/ UNCHANGED vars
    BY <1>1 DEF TransportMoves, Listens, vars
<1>2. CASE RunStep
    BY <1>2 DEF RunStep, RunTakesTurn, RunPublishesTurn, RunGivesUp, Listens
<1>3. CASE PumpIgnores \/ HandleStarted \/ AdmitRequest
    BY <1>3 DEF PumpIgnores, HandleStarted, AdmitRequest, PumpReads, Listens
<1>4. CASE RefuseRequest
    BY <1>4 DEF RefuseRequest, PumpReads, Respond, Listens
<1>5. CASE HandleResolved \/ HandleCompleted \/ HandleClosed
    BY <1>5 DEF HandleResolved, HandleCompleted, HandleClosed, PumpReads, Listens
<1>6. CASE AcceptRequest \/ RequestUnsaved \/ CompleteTurn \/ TerminalDropped
    BY <1>6 DEF AcceptRequest, RequestUnsaved, CompleteTurn, TerminalDropped, Listens
<1>7. ASSUME NEW r \in Calls, TakeLifecycle(r) \/ SendSucceeds(r) \/ SendFails(r) \/ DropCall(r)
      PROVE  Listens
    BY <1>7 DEF TakeLifecycle, SendSucceeds, SendFails, DropCall, Respond, Listens
<1>8. ASSUME NEW r \in Calls, NEW a \in shown, Claim(r, a) PROVE Listens
    BY <1>8 DEF Claim, Listens
<1>9. ASSUME NEW t \in Turns, WatchdogChecks(t) \/ WatchdogCancels(t) \/ WatchdogUnsaved(t)
      PROVE  Listens
    BY <1>9 DEF WatchdogChecks, WatchdogCancels, WatchdogUnsaved, Listens
<1>10. CASE FinishShutdown
    BY <1>10 DEF FinishShutdown, Listens
<1> QED
    BY <1>1, <1>2, <1>3, <1>4, <1>5, <1>6, <1>7, <1>8, <1>9, <1>10
    DEF Next, TransportStep, ServerStep, PumpStep, CallStep, WatchdogStep

\* What the app-server has done stays done.
Progresses ==
    /\ \A t \in Turns : server[t].phase # "none" =>
           /\ server'[t].phase # "none"
           /\ server'[t].gen = server[t].gen
           /\ server[t].phase = "done" => server'[t].phase = "done"
    /\ asked \subseteq asked'
    /\ settled \subseteq settled'
    /\ \A t \in Turns : server[t].phase # "none" /\ ~StartQueued(t) => ~StartQueued(t)'

\* An event that is not the start of t leaves it so.
LEMMA NoStart ==
    ASSUME events \in Seq(Events), NEW t, NEW e \in Events, events' = Append(events, e),
           ~(e.kind = "started" /\ e.turn = t)
    PROVE  StartQueued(t)' <=> StartQueued(t)
<1>1. PICK n \in Nat :
          /\ events'[n] = e
          /\ \A i \in DOMAIN events : i \in DOMAIN events' /\ events'[i] = events[i]
          /\ \A i \in DOMAIN events' : i \in DOMAIN events \/ i = n
    BY Joined
<1> HIDE DEF Events
<1> QED
    BY <1>1 DEF StartQueued

\* The types of what the app-server keeps.
ServerType == [Turns -> [gen : Gens, phase : {"none", "running", "done"}]]

\* No step undoes what the app-server did.
LEMMA ProgressStep ==
    ASSUME IInv, [Next]_vars
    PROVE  Progresses
<1>0. events \in Seq(Events) /\ server \in ServerType /\ asked \subseteq Requests
    BY DEF IInv, TypeOK, ServerType
<1>a. /\ \A t \in Turns : server[t].phase # "none" => server[t].gen \in Generations
      /\ 0 \in 0 .. MaxAsked
      /\ NoTurn \in MaybeTurn /\ NoTurn \notin Turns
    BY ApprovalsAssumption DEF IInv, HoldersInv, MaybeTurn
<1>b. ASSUME NEW kind \in {"request", "resolved", "completed", "closed"},
             NEW g \in Generations, NEW t \in MaybeTurn, NEW rpc \in 0 .. MaxAsked,
             Broadcast(kind, g, t, rpc)
      PROVE  \A u : StartQueued(u)' <=> StartQueued(u)
  <2> DEFINE e == [kind |-> kind, gen |-> g, turn |-> t, rpc |-> rpc]
  <2>1. e \in Events /\ e.kind # "started" /\ events' = Append(events, e)
    BY <1>b DEF Events, Broadcast
  <2> HIDE DEF e
  <2> QED
    BY <1>0, <2>1, NoStart
<1>c. ASSUME NEW g \in Generations, NEW t \in Turns, Broadcast("started", g, t, 0)
      PROVE  \A u : u # t => (StartQueued(u)' <=> StartQueued(u))
  <2> DEFINE e == [kind |-> "started", gen |-> g, turn |-> t, rpc |-> 0]
  <2>1. e \in Events /\ e.turn = t /\ events' = Append(events, e)
    BY <1>a, <1>c DEF Events, Broadcast, MaybeTurn
  <2> HIDE DEF e
  <2> QED
    BY <1>0, <2>1, NoStart
<1>1. CASE Listens
  <2>1. \A t : StartQueued(t)' => StartQueued(t)
    <3>1. CASE UNCHANGED events
      BY <3>1 DEF StartQueued
    <3>2. CASE events # <<>> /\ events' = Tail(events)
      <4>1. \A i \in DOMAIN events' : i + 1 \in DOMAIN events /\ events'[i] = events[i + 1]
        BY <1>0, <3>2, Shifted
      <4> QED
        BY <4>1 DEF StartQueued
    <3> QED
      BY <1>1, <3>1, <3>2 DEF Listens
  <2> QED
    BY <1>1, <2>1 DEF Listens, Progresses
<1>2. ASSUME NEW g \in Generations, AnnounceLoss(g) PROVE Progresses
  <2>1. \A u : StartQueued(u)' <=> StartQueued(u)
    BY <1>2, <1>a, <1>b DEF AnnounceLoss
  <2> QED
    BY <1>2, <2>1 DEF AnnounceLoss, Progresses
<1>3. ASSUME NEW t \in Turns, BeginTurn(t) \/ BeginChild(t) PROVE Progresses
  <2>1. current \in Generations
    BY <1>3 DEF BeginTurn, BeginChild, Serving, IInv, TypeOK, TransportTypeOK
  <2>2. \A u : u # t => (StartQueued(u)' <=> StartQueued(u))
    BY <1>3, <1>c, <2>1 DEF BeginTurn, BeginChild
  <2>3. server[t].phase = "none" /\ UNCHANGED <<asked, settled>>
    BY <1>3 DEF BeginTurn, BeginChild
  <2>4. \A u \in Turns : u # t => server'[u] = server[u]
    BY <1>0, <1>3 DEF BeginTurn, BeginChild, ServerType
  <2> QED
    BY <2>2, <2>3, <2>4 DEF Progresses
<1>4. ASSUME NEW t \in Turns, Ask(t) PROVE Progresses
  <2> DEFINE g == server[t].gen
             rpc == 1 + Cardinality(AskedOf(g))
  <2>1. g \in Generations /\ rpc \in 1 .. MaxAsked /\ t \in MaybeTurn
    BY <1>4, <1>a, NextRpc DEF Ask, IInv, MaybeTurn
  <2>2. Broadcast("request", g, t, rpc)
    BY <1>4 DEF Ask
  <2>3. \A u : StartQueued(u)' <=> StartQueued(u)
    <3>1. rpc \in 0 .. MaxAsked
      BY <2>1
    <3> HIDE DEF g, rpc
    <3> QED
      BY <1>b, <2>1, <2>2, <3>1
  <2> QED
    BY <1>4, <2>3 DEF Ask, Progresses
<1>5. ASSUME NEW t \in Turns, Complete(t) PROVE Progresses
  <2>1. server[t].gen \in Generations /\ t \in MaybeTurn
    BY <1>5, <1>a DEF Complete, MaybeTurn
  <2>2. \A u : StartQueued(u)' <=> StartQueued(u)
    BY <1>5, <1>a, <1>b, <2>1 DEF Complete
  <2>3. \A u \in Turns : u # t => server'[u] = server[u]
    BY <1>0, <1>5 DEF Complete, ServerType
  <2>4. server'[t].phase = "done" /\ server'[t].gen = server[t].gen
    BY <1>0, <1>5 DEF Complete, ServerType
  <2> QED
    BY <1>5, <2>2, <2>3, <2>4 DEF Complete, Progresses
<1>6. ASSUME NEW a \in asked, Resolve(a) PROVE Progresses
  <2>1. a.gen \in Generations /\ a.turn \in MaybeTurn /\ a.rpc \in 0 .. MaxAsked
    BY <1>0 DEF Requests, MaybeTurn
  <2>2. \A u : StartQueued(u)' <=> StartQueued(u)
    BY <1>6, <1>b, <2>1 DEF Resolve
  <2> QED
    BY <1>6, <2>2 DEF Resolve, Progresses
<1> QED
    BY <1>1, <1>2, <1>3, <1>4, <1>5, <1>6, SortedStep

\* What began has begun.
LEMMA StillBegan ==
    ASSUME Progresses, NEW g, NEW t, Began(g, t)
    PROVE  Began(g, t)' /\ (server[t].phase = "done" => server'[t].phase = "done")
BY DEF Progresses, Began

\* What an event says stays true.
LEMMA StillTrue ==
    ASSUME Progresses, NEW e, EventTrue(e)
    PROVE  EventTrue(e)'
<1>1. e.kind # "closed" => Began(e.gen, e.turn)'
    BY StillBegan DEF EventTrue
<1>2. e.kind = "completed" => server'[e.turn].phase = "done"
    BY StillBegan DEF EventTrue
<1>3. e.kind = "resolved" => \E a \in settled' : IdOf(a) = IdOf(e)
    BY DEF EventTrue, Progresses
<1> QED
    BY <1>1, <1>2, <1>3 DEF EventTrue

\* A turn is done only by Complete.
LEMMA EventsListen ==
    ASSUME events \in Seq(Events), EventsInv, Progresses, Listens
    PROVE  EventsInv'
<1>0. UNCHANGED server
    BY DEF Listens
<1>1. CASE UNCHANGED events
  <2>1. \A i \in DOMAIN events' : EventTrue(events[i])'
    BY <1>1, StillTrue DEF EventsInv
  <2>2. (StartsOnce /\ ChildrenInOrder /\ EndsAfterRequests)'
    BY <1>0, <1>1 DEF EventsInv, StartsOnce, ChildrenInOrder, EndsAfterRequests, Began
  <2> QED
    BY <2>1, <2>2 DEF EventsInv
<1>2. CASE events # <<>> /\ events' = Tail(events)
  <2>1. /\ \A i \in DOMAIN events' : /\ i \in Nat
                                     /\ i + 1 \in DOMAIN events
                                     /\ i + 1 > 1
                                     /\ events'[i] = events[i + 1]
        /\ \A i \in DOMAIN events : /\ i \in Nat
                                    /\ i = 1 \/ (i - 1 \in DOMAIN events'
                                                 /\ events'[i - 1] = events[i])
    BY <1>2, Shifted
  <2>2. \A i \in DOMAIN events' : EventTrue(events[i])'
    BY <2>1, StillTrue DEF EventsInv
  <2>3. StartsOnce'
    <3>1. ASSUME NEW i \in DOMAIN events', NEW j \in DOMAIN events',
                 events'[i].kind = "started", events'[j].kind = "started",
                 events'[i].turn = events'[j].turn
          PROVE  i = j
      <4>1. i + 1 = j + 1
        BY <2>1, <3>1 DEF EventsInv, StartsOnce
      <4> QED
        BY <2>1, <4>1
    <3> QED
      BY <3>1 DEF StartsOnce
  \* What comes after the event at i + 1 is in the queue still.
  <2>4. ASSUME NEW i \in DOMAIN events', NEW j \in DOMAIN events, j > i + 1
        PROVE  j - 1 \in DOMAIN events' /\ j - 1 > i /\ events'[j - 1] = events[j]
    BY <2>1, <2>4
  <2>5. ASSUME NEW i \in DOMAIN events', NEW j \in DOMAIN events', j > i
        PROVE  j + 1 \in DOMAIN events /\ j + 1 > i + 1 /\ events'[j] = events[j + 1]
    BY <2>1, <2>5
  <2>6. ChildrenInOrder'
    <3>1. ASSUME NEW i \in DOMAIN events', NEW t \in Children,
                 events'[i].kind = "started",
                 events'[i].turn \in Children,
                 events'[i].turn # t,
                 Began(events[i].gen, t)'
          PROVE  \/ \E j \in DOMAIN events' : j > i /\ events'[j].kind = "started" /\ events'[j].turn = t
                 \/ /\ server'[t].phase = "done"
                    /\ \A j \in DOMAIN events' :
                           j > i => ~(events'[j].kind = "completed" /\ events'[j].turn = t)
      <4>1. /\ i + 1 \in DOMAIN events
            /\ events'[i] = events[i + 1]
            /\ Began(events[i + 1].gen, t)
        BY <1>0, <2>1, <3>1 DEF Began
      <4>2. \/ \E j \in DOMAIN events : j > i + 1 /\ events[j].kind = "started" /\ events[j].turn = t
            \/ /\ server[t].phase = "done"
               /\ \A j \in DOMAIN events :
                      j > i + 1 => ~(events[j].kind = "completed" /\ events[j].turn = t)
        BY <3>1, <4>1 DEF EventsInv, ChildrenInOrder
      <4> QED
        BY <1>0, <2>4, <2>5, <4>2
    <3> QED
      BY <3>1 DEF ChildrenInOrder
  <2>7. EndsAfterRequests'
    <3>1. ASSUME NEW i \in DOMAIN events',
                 events'[i].kind = "request", server'[events'[i].turn].phase = "done"
          PROVE  \E j \in DOMAIN events' :
                     j > i /\ events'[j].kind = "completed" /\ events'[j].turn = events'[i].turn
      <4>1. i + 1 \in DOMAIN events /\ events'[i] = events[i + 1]
        BY <2>1
      <4>2. \E j \in DOMAIN events :
                j > i + 1 /\ events[j].kind = "completed" /\ events[j].turn = events[i + 1].turn
        BY <1>0, <3>1, <4>1 DEF EventsInv, EndsAfterRequests
      <4> QED
        BY <2>4, <4>1, <4>2
    <3> QED
      BY <3>1 DEF EndsAfterRequests
  <2> QED
    BY <2>2, <2>3, <2>6, <2>7 DEF EventsInv
<1> QED
    BY <1>1, <1>2 DEF Listens

\* What an event that joins the queue says, of itself and of those before it.
JoinsWell(e) ==
    /\ EventTrue(e)'
    /\ e.kind = "started" => ~StartQueued(e.turn)
    /\ e.kind = "started" /\ e.turn \in Children =>
           \A t \in Children \ {e.turn} : Began(e.gen, t)' => server'[t].phase = "done"
    /\ e.kind = "completed" => server[e.turn].phase # "done"
    /\ \A t \in Turns :
           \/ server'[t] = server[t]
           \/ e.kind = "started" /\ e.turn = t /\ server[t].phase = "none"
           \/ e.kind = "completed" /\ e.turn = t /\ server'[t].gen = server[t].gen /\ server[t].phase # "none"
    /\ e.kind = "request" => server'[e.turn].phase # "done"

\* An event joins the queue.
LEMMA EventsJoin ==
    ASSUME events \in Seq(Events), EventsInv, Progresses,
           NEW e \in Events, events' = Append(events, e), JoinsWell(e)
    PROVE  EventsInv'
<1>1. PICK n \in Nat :
          /\ n \in DOMAIN events'
          /\ n \notin DOMAIN events
          /\ events'[n] = e
          /\ \A i \in DOMAIN events : /\ i \in Nat /\ i < n
                                      /\ i \in DOMAIN events'
                                      /\ events'[i] = events[i]
          /\ \A i \in DOMAIN events' : i \in DOMAIN events \/ i = n
    BY Joined
<1> HIDE DEF Events
<1>a. /\ EventTrue(e)'
      /\ e.kind = "started" => ~StartQueued(e.turn)
      /\ e.kind = "started" /\ e.turn \in Children =>
             \A t \in Children \ {e.turn} : Began(e.gen, t)' => server'[t].phase = "done"
      /\ e.kind = "completed" => server[e.turn].phase # "done"
      /\ \A t \in Turns :
             \/ server'[t] = server[t]
             \/ e.kind = "started" /\ e.turn = t /\ server[t].phase = "none"
             \/ e.kind = "completed" /\ e.turn = t /\ server'[t].gen = server[t].gen /\ server[t].phase # "none"
      /\ e.kind = "request" => server'[e.turn].phase # "done"
    BY DEF JoinsWell
<1>2. \A i \in DOMAIN events' : EventTrue(events[i])'
    BY <1>1, <1>a, StillTrue DEF EventsInv
<1>3. StartsOnce'
    BY <1>1, <1>a DEF EventsInv, StartsOnce, StartQueued
<1>4. ChildrenInOrder'
  <2>1. ASSUME NEW i \in DOMAIN events', NEW t \in Children,
               events'[i].kind = "started",
               events'[i].turn \in Children,
               events'[i].turn # t,
               Began(events[i].gen, t)'
        PROVE  \/ \E j \in DOMAIN events' : j > i /\ events'[j].kind = "started" /\ events'[j].turn = t
               \/ /\ server'[t].phase = "done"
                  /\ \A j \in DOMAIN events' :
                         j > i => ~(events'[j].kind = "completed" /\ events'[j].turn = t)
    <3>1. CASE i = n
      <4>1. server'[t].phase = "done"
        BY <1>1, <1>a, <2>1, <3>1
      <4>2. \A j \in DOMAIN events' : ~(j > i)
        BY <1>1, <3>1
      <4> QED
        BY <4>1, <4>2
    <3>2. CASE i \in DOMAIN events /\ e.kind = "started" /\ e.turn = t
      BY <1>1, <3>2
    <3>3. CASE i \in DOMAIN events /\ ~(e.kind = "started" /\ e.turn = t)
      <4>1. t \in Turns /\ Began(events[i].gen, t)
        BY <1>1, <1>a, <2>1, <3>3, ApprovalsAssumption DEF Began
      <4>2. \/ \E j \in DOMAIN events : j > i /\ events[j].kind = "started" /\ events[j].turn = t
            \/ /\ server[t].phase = "done"
               /\ \A j \in DOMAIN events :
                      j > i => ~(events[j].kind = "completed" /\ events[j].turn = t)
        BY <1>1, <2>1, <3>3, <4>1 DEF EventsInv, ChildrenInOrder
      <4>3. CASE \E j \in DOMAIN events : j > i /\ events[j].kind = "started" /\ events[j].turn = t
        BY <1>1, <4>3
      <4>4. CASE /\ server[t].phase = "done"
                 /\ \A j \in DOMAIN events :
                        j > i => ~(events[j].kind = "completed" /\ events[j].turn = t)
        <5>1. ~(e.kind = "completed" /\ e.turn = t)
          BY <1>a, <4>4
        <5>2. server'[t].phase = "done"
          BY <4>1, <4>4 DEF Progresses
        <5> QED
          BY <1>1, <4>4, <5>1, <5>2
      <4> QED
        BY <4>2, <4>3, <4>4
    <3> QED
      BY <1>1, <3>1, <3>2, <3>3
  <2> QED
    BY <2>1 DEF ChildrenInOrder
<1>5. EndsAfterRequests'
  <2>1. ASSUME NEW i \in DOMAIN events',
               events'[i].kind = "request", server'[events'[i].turn].phase = "done"
        PROVE  \E j \in DOMAIN events' :
                   j > i /\ events'[j].kind = "completed" /\ events'[j].turn = events'[i].turn
    <3>1. i \in DOMAIN events /\ events'[i] = events[i] /\ i < n
      BY <1>1, <1>a, <2>1
    <3>2. Began(events[i].gen, events[i].turn)
      BY <2>1, <3>1 DEF EventsInv, EventTrue
    <3>3. CASE server[events[i].turn].phase = "done"
      <4>1. PICK j \in DOMAIN events :
                j > i /\ events[j].kind = "completed" /\ events[j].turn = events[i].turn
        BY <2>1, <3>1, <3>3 DEF EventsInv, EndsAfterRequests
      <4> QED
        BY <1>1, <3>1, <4>1
    <3>4. CASE server[events[i].turn].phase # "done"
      <4>1. e.kind = "completed" /\ e.turn = events[i].turn
        BY <1>a, <2>1, <3>1, <3>2, <3>4 DEF Began
      <4> QED
        BY <1>1, <3>1, <4>1
    <3> QED
      BY <3>3, <3>4
  <2> QED
    BY <2>1 DEF EndsAfterRequests
<1> QED
    BY <1>2, <1>3, <1>4, <1>5 DEF EventsInv

\* The queue is in order after every step.
LEMMA EventsStep ==
    ASSUME IInv, EventsInv, RequestsInv, [Next]_vars
    PROVE  EventsInv'
<1>0. events \in Seq(Events) /\ server \in ServerType /\ asked \subseteq Requests
    BY DEF IInv, TypeOK, ServerType
<1>a. /\ \A t \in Turns : server[t].phase # "none" => server[t].gen \in Generations
      /\ 0 \in 0 .. MaxAsked
      /\ NoTurn \in MaybeTurn
      /\ \A t \in Turns : t \in MaybeTurn
    BY ApprovalsAssumption DEF IInv, HoldersInv, MaybeTurn
<1>p. Progresses
    BY ProgressStep
<1>1. CASE Listens
    BY <1>0, <1>1, <1>p, EventsListen
<1>2. ASSUME NEW g \in Generations, AnnounceLoss(g) PROVE EventsInv'
  <2>1. PICK e \in Events : e = [kind |-> "closed", gen |-> g, turn |-> NoTurn, rpc |-> 0]
    BY <1>a DEF Events
  <2>2. events' = Append(events, e) /\ UNCHANGED server
    BY <1>2, <2>1 DEF AnnounceLoss, Broadcast
  <2>3. EventTrue(e)'
    BY <2>1 DEF EventTrue
  <2>4. JoinsWell(e)
    BY <2>1, <2>2, <2>3 DEF JoinsWell
  <2> HIDE DEF Events
  <2> QED
    BY <1>0, <1>p, <2>2, <2>4, EventsJoin
<1>3. ASSUME NEW t \in Turns, BeginTurn(t) \/ BeginChild(t) PROVE EventsInv'
  <2>1. current \in Generations
    BY <1>3 DEF BeginTurn, BeginChild, Serving, IInv, TypeOK, TransportTypeOK
  <2>2. PICK e \in Events : e = [kind |-> "started", gen |-> current, turn |-> t, rpc |-> 0]
    BY <1>a, <2>1 DEF Events
  <2>3. events' = Append(events, e)
    BY <1>3, <2>2 DEF BeginTurn, BeginChild, Broadcast
  <2>4. /\ server[t].phase = "none"
        /\ server'[t] = [gen |-> current, phase |-> "running"]
        /\ \A u \in Turns : u # t => server'[u] = server[u]
    BY <1>0, <1>3 DEF BeginTurn, BeginChild, ServerType
  <2>5. EventTrue(e)'
    BY <2>2, <2>4 DEF EventTrue, Began
  <2>6. ~StartQueued(t)
    BY <2>4 DEF StartQueued, EventsInv, EventTrue, Began
  <2>7. ASSUME t \in Children, NEW u \in Children \ {t}, Began(e.gen, u)'
        PROVE  server'[u].phase = "done"
    <3>1. \A c \in Children : server[c] # [gen |-> current, phase |-> "running"]
      BY <1>3, <2>7 DEF BeginTurn, BeginChild
    <3>2. u \in Turns /\ server'[u] = server[u]
      BY <2>4, <2>7, ApprovalsAssumption
    <3>3. server[u].gen = current /\ server[u].phase # "none"
      BY <2>2, <2>7, <3>2 DEF Began
    <3>4. server[u].phase # "running"
      BY <1>0, <2>7, <3>1, <3>2, <3>3 DEF ServerType
    <3> QED
      BY <1>0, <3>2, <3>3, <3>4 DEF ServerType
  <2>8. JoinsWell(e)
    BY <2>2, <2>4, <2>5, <2>6, <2>7 DEF JoinsWell
  <2> HIDE DEF Events
  <2> QED
    BY <1>0, <1>p, <2>3, <2>8, EventsJoin
<1>4. ASSUME NEW t \in Turns, Ask(t) PROVE EventsInv'
  <2> DEFINE rpc == 1 + Cardinality(AskedOf(server[t].gen))
  <2>1. server[t].gen \in Generations /\ rpc \in 0 .. MaxAsked
    <3>1. rpc \in 1 .. MaxAsked
      BY <1>4, NextRpc DEF Ask, IInv
    <3> QED
      BY <1>4, <1>a, <3>1 DEF Ask
  <2>2. PICK e \in Events : e = [kind |-> "request", gen |-> server[t].gen, turn |-> t, rpc |-> rpc]
    <3> HIDE DEF rpc
    <3> QED
      BY <1>a, <2>1 DEF Events
  <2>3. events' = Append(events, e) /\ UNCHANGED server /\ server[t].phase = "running"
    BY <1>4, <2>2 DEF Ask, Broadcast
  <2>4. EventTrue(e)' /\ e.kind = "request" /\ e.turn = t
    BY <2>2, <2>3 DEF EventTrue, Began
  <2>5. JoinsWell(e)
    BY <2>3, <2>4 DEF JoinsWell
  <2> HIDE DEF Events, rpc
  <2> QED
    BY <1>0, <1>p, <2>3, <2>5, EventsJoin
<1>5. ASSUME NEW t \in Turns, Complete(t) PROVE EventsInv'
  <2>1. PICK e \in Events : e = [kind |-> "completed", gen |-> server[t].gen, turn |-> t, rpc |-> 0]
    BY <1>5, <1>a DEF Complete, Events
  <2>2. /\ events' = Append(events, e)
        /\ server[t].phase = "running"
        /\ server'[t].gen = server[t].gen /\ server'[t].phase = "done"
        /\ \A u \in Turns : u # t => server'[u] = server[u]
    BY <1>0, <1>5, <2>1 DEF Complete, Broadcast, ServerType
  <2>3. EventTrue(e)' /\ e.kind = "completed" /\ e.turn = t
    BY <2>1, <2>2 DEF EventTrue, Began
  <2>4. JoinsWell(e)
    BY <2>2, <2>3 DEF JoinsWell
  <2> HIDE DEF Events
  <2> QED
    BY <1>0, <1>p, <2>2, <2>4, EventsJoin
<1>6. ASSUME NEW a \in asked, Resolve(a) PROVE EventsInv'
  <2>1. a.gen \in Generations /\ a.turn \in MaybeTurn /\ a.rpc \in 0 .. MaxAsked
    BY <1>0 DEF Requests, MaybeTurn
  <2>2. PICK e \in Events : e = [kind |-> "resolved", gen |-> a.gen, turn |-> a.turn, rpc |-> a.rpc]
    BY <2>1 DEF Events
  <2>3. events' = Append(events, e) /\ UNCHANGED server /\ a \in settled'
    BY <1>6, <2>2 DEF Resolve, Broadcast
  <2>4. EventTrue(e)' /\ e.kind = "resolved"
    <3>1. Began(a.gen, a.turn) /\ IdOf(a) = IdOf(e)
      BY <2>2 DEF RequestsInv, IdOf
    <3> QED
      BY <2>2, <2>3, <3>1 DEF EventTrue, Began
  <2>5. JoinsWell(e)
    BY <2>3, <2>4 DEF JoinsWell
  <2> HIDE DEF Events
  <2> QED
    BY <1>0, <1>p, <2>3, <2>5, EventsJoin
<1> QED
    BY <1>1, <1>2, <1>3, <1>4, <1>5, <1>6, SortedStep

\* What waits for the user was waiting, or the pump has just saved it.
LEMMA PendingFrom ==
    ASSUME IInv, [Next]_vars, NEW p \in pending'
    PROVE  \/ \E q \in pending : RequestOf(q) = RequestOf(p)
           \/ AcceptRequest /\ RequestOf(p) = RequestOf(handling)
<1>0. pending \subseteq PendingRecords
    BY DEF IInv, TypeOK, PendingRecords
<1>a. ASSUME NEW id, NEW claim \in BOOLEAN, SetClaim(id, claim)
      PROVE  \E q \in pending : RequestOf(q) = RequestOf(p)
  <2>1. PICK q \in pending : p = IF IdOf(q) = id THEN [q EXCEPT !.claimed = claim] ELSE q
    BY <1>0, <1>a, ClaimsSet
  <2>2. q \in PendingRecords
    BY <1>0
  <2>3. RequestOf(p) = RequestOf(q)
    BY <2>1, <2>2 DEF RequestOf, PendingRecords
  <2> QED
    BY <2>3
<1> USE DEF engine
<1>1. CASE pending' \subseteq pending
    BY <1>1
<1>2. CASE AcceptRequest
    BY <1>2 DEF AcceptRequest, RequestOf
<1>3. ASSUME NEW r \in Calls, NEW a \in shown, Claim(r, a)
      PROVE  \E q \in pending : RequestOf(q) = RequestOf(p)
    BY <1>a, <1>3 DEF Claim
<1>4. ASSUME NEW r \in Calls, SendFails(r)
      PROVE  \E q \in pending : RequestOf(q) = RequestOf(p)
    BY <1>a, <1>4 DEF SendFails, RestoreClaim
<1>5. ASSUME NEW r \in Calls, TakeLifecycle(r) \/ SendSucceeds(r) \/ DropCall(r)
      PROVE  pending' \subseteq pending
    BY <1>5 DEF TakeLifecycle, SendSucceeds, FinishClaim, DropCall
<1>6. ASSUME NEW t \in Turns, WatchdogChecks(t) \/ WatchdogCancels(t) \/ WatchdogUnsaved(t)
      PROVE  pending' \subseteq pending
    BY <1>6 DEF WatchdogChecks, WatchdogCancels, WatchdogUnsaved
<1>7. CASE TransportStep \/ ServerStep \/ RunStep \/ FinishShutdown \/ UNCHANGED vars
    BY <1>7, <1>1 DEF TransportStep, TransportMoves, AnnounceLoss, ServerStep, BeginTurn, BeginChild, Ask,
       Complete, Resolve, RunStep, RunTakesTurn, RunPublishesTurn, RunGivesUp, FinishShutdown, vars
<1>8. CASE \/ PumpIgnores \/ HandleStarted \/ AdmitRequest \/ RefuseRequest
           \/ HandleResolved \/ HandleCompleted \/ HandleClosed
           \/ RequestUnsaved \/ CompleteTurn \/ TerminalDropped
    BY <1>8, <1>1 DEF PumpIgnores, HandleStarted, AdmitRequest, RefuseRequest, HandleResolved,
       HandleCompleted, HandleClosed, RequestUnsaved, CompleteTurn, TerminalDropped
<1> QED
    BY <1>1, <1>2, <1>3, <1>4, <1>5, <1>6, <1>7, <1>8
    DEF Next, PumpStep, CallStep, WatchdogStep

\* A request is known by its id.
LEMMA RequestsStep ==
    ASSUME IInv, RequestsInv, [Next]_vars
    PROVE  RequestsInv'
<1>0. server \in ServerType /\ asked \subseteq Requests
    BY DEF IInv, TypeOK, ServerType
<1>p. Progresses
    BY ProgressStep
<1>1. \A p \in pending' : RequestOf(p) \in asked'
  <2>1. ASSUME NEW p \in pending' PROVE RequestOf(p) \in asked
    <3>1. CASE \E q \in pending : RequestOf(q) = RequestOf(p)
      BY <3>1 DEF RequestsInv
    <3>2. CASE AcceptRequest /\ RequestOf(p) = RequestOf(handling)
      BY <3>2 DEF AcceptRequest, IInv, OpenInv
    <3> QED
      BY <3>1, <3>2, PendingFrom
  <2> QED
    BY <2>1, <1>p DEF Progresses
<1>a. \A a \in asked : Began(a.gen, a.turn)'
    BY <1>p, StillBegan DEF RequestsInv
<1>2. CASE UNCHANGED <<server, asked>>
    BY <1>1, <1>2, <1>a, <1>p DEF RequestsInv, Progresses
<1>3. ASSUME NEW t \in Turns, BeginTurn(t) \/ BeginChild(t) PROVE RequestsInv'
  <2>1. UNCHANGED asked /\ \A a \in asked : server'[a.turn] = server[a.turn]
    BY <1>0, <1>3 DEF BeginTurn, BeginChild, RequestsInv, Began, ServerType
  <2> QED
    BY <1>1, <1>a, <1>p, <2>1 DEF RequestsInv, Progresses
<1>4. ASSUME NEW t \in Turns, Ask(t) PROVE RequestsInv'
  <2> DEFINE g == server[t].gen
             rpc == 1 + Cardinality(AskedOf(g))
  <2>a. rpc \in 1 .. MaxAsked /\ \A a \in asked : a.gen = g => a.rpc < rpc
    BY <1>4, NextRpc DEF Ask, IInv
  <2>b. g \in Generations
    BY <1>4 DEF Ask, IInv, HoldersInv
  <2>1. PICK new \in Requests : new = [gen |-> g, rpc |-> rpc, turn |-> t]
    <3> HIDE DEF g, rpc
    <3> QED
      BY <2>a, <2>b DEF Requests
  <2>2. /\ asked' = asked \cup {new}
        /\ server[t].phase = "running"
        /\ UNCHANGED <<server, settled>>
    BY <1>4, <2>1 DEF Ask
  <2>3. \A a \in asked : IdOf(a) # IdOf(new)
    <3>1. rpc \in Nat
      BY <2>a
    <3> HIDE DEF g, rpc
    <3> QED
      BY <2>1, <2>a, <3>1 DEF IdOf
  <2>4. Began(new.gen, new.turn)' /\ server'[new.turn].phase = "running"
    BY <2>1, <2>2 DEF Began
  <2>6. \A a \in asked' : a \in asked \/ a = new
    BY <2>2
  <2>7. \A a \in asked' : Began(a.gen, a.turn)'
    BY <2>4, <2>6, <1>a
  <2>8. \A a \in asked' : server'[a.turn].phase = "done" => a \in settled'
    BY <2>2, <2>4, <2>6 DEF RequestsInv
  <2>9. \A a, b \in asked' : IdOf(a) = IdOf(b) => a = b
    BY <2>3, <2>6 DEF RequestsInv
  <2> QED
    BY <1>1, <2>7, <2>8, <2>9 DEF RequestsInv
<1>5. ASSUME NEW t \in Turns, Complete(t) PROVE RequestsInv'
  <2>1. /\ UNCHANGED asked
        /\ settled' = settled \cup {a \in asked : a.turn = t}
        /\ \A u \in Turns : u # t => server'[u] = server[u]
    BY <1>0, <1>5 DEF Complete, ServerType
  <2>2. \A a \in asked : server'[a.turn].phase = "done" => a \in settled'
    BY <2>1 DEF RequestsInv, Began
  <2> QED
    BY <1>1, <1>a, <2>1, <2>2 DEF RequestsInv
<1>6. (\E g \in Generations : AnnounceLoss(g)) \/ (\E a \in asked : Resolve(a)) \/ Listens
      => UNCHANGED <<server, asked>>
    BY DEF AnnounceLoss, Resolve, Listens
<1> QED
    BY <1>2, <1>3, <1>4, <1>5, <1>6, SortedStep

\* Only the broadcast of a loss queues one.
LEMMA ClosedFrom ==
    ASSUME IInv, [Next]_vars, NEW i \in DOMAIN events', events'[i].kind = "closed"
    PROVE  \/ \E j \in DOMAIN events : events'[i] = events[j]
           \/ \E g \in Generations : AnnounceLoss(g) /\ events'[i].gen = g
<1>0. events \in Seq(Events)
    BY DEF IInv, TypeOK
<1>1. CASE Listens
  <2>1. CASE events # <<>> /\ events' = Tail(events)
    BY <1>0, <2>1, Shifted
  <2> QED
    BY <1>1, <2>1 DEF Listens
<1>2. ASSUME NEW e, events' = Append(events, e)
      PROVE  (\E j \in DOMAIN events : events'[i] = events[j]) \/ events'[i] = e
    BY <1>0, <1>2
<1>3. ASSUME NEW kind \in {"started", "request", "resolved", "completed"},
             NEW g, NEW t, NEW rpc, Broadcast(kind, g, t, rpc)
      PROVE  \E j \in DOMAIN events : events'[i] = events[j]
    BY <1>2, <1>3 DEF Broadcast
<1>4. ASSUME NEW g \in Generations, AnnounceLoss(g)
      PROVE  (\E j \in DOMAIN events : events'[i] = events[j]) \/ events'[i].gen = g
    BY <1>2, <1>4 DEF AnnounceLoss, Broadcast
<1>5. ASSUME NEW t \in Turns, BeginTurn(t) \/ BeginChild(t) \/ Ask(t) \/ Complete(t)
      PROVE  \E j \in DOMAIN events : events'[i] = events[j]
    BY <1>3, <1>5 DEF BeginTurn, BeginChild, Ask, Complete
<1>6. ASSUME NEW a \in asked, Resolve(a)
      PROVE  \E j \in DOMAIN events : events'[i] = events[j]
    BY <1>3, <1>6 DEF Resolve
<1> QED
    BY <1>1, <1>4, <1>5, <1>6, SortedStep

\* Every step but these leaves the transport alone.
LEMMA TransportKept ==
    ASSUME [Next]_vars
    PROVE  \/ TransportMoves
           \/ UNCHANGED transportVars
           \/ \E g \in Generations : AnnounceLoss(g)
<1>1. CASE ServerStep \/ RunStep \/ FinishShutdown \/ UNCHANGED vars
    BY <1>1 DEF ServerStep, BeginTurn, BeginChild, Ask, Complete, Resolve, RunStep, RunTakesTurn,
       RunPublishesTurn, RunGivesUp, FinishShutdown, vars
<1>2. CASE PumpStep
    BY <1>2 DEF PumpStep, PumpIgnores, HandleStarted, AdmitRequest, RefuseRequest, HandleResolved,
       HandleCompleted, HandleClosed, AcceptRequest, RequestUnsaved, CompleteTurn, TerminalDropped
<1>3. ASSUME NEW r \in Calls, CallStep(r) \/ DropCall(r) \/ \E a \in shown : Claim(r, a)
      PROVE  UNCHANGED transportVars
    BY <1>3 DEF CallStep, TakeLifecycle, SendSucceeds, SendFails, DropCall, Claim
<1>4. ASSUME NEW t \in Turns, WatchdogChecks(t) \/ WatchdogStep(t) PROVE UNCHANGED transportVars
    BY <1>4 DEF WatchdogChecks, WatchdogStep, WatchdogCancels, WatchdogUnsaved
<1> QED
    BY <1>1, <1>2, <1>3, <1>4 DEF Next, TransportStep

\* Every step but these leaves the routes alone.
LEMMA RouteKept ==
    ASSUME [Next]_vars
    PROVE  \/ UNCHANGED route
           \/ \E t \in Turns : BeginTurn(t) \/ BeginChild(t)
           \/ HandleClosed
<1> USE DEF engine, owners
<1>1. CASE RunStep \/ FinishShutdown \/ UNCHANGED vars \/ TransportStep
    BY <1>1 DEF RunStep, RunTakesTurn, TransportStep, TransportMoves, AnnounceLoss,
       RunPublishesTurn, RunGivesUp, FinishShutdown, vars
<1>2. CASE PumpStep
    BY <1>2 DEF PumpStep, PumpIgnores, HandleStarted, AdmitRequest, RefuseRequest, HandleResolved,
       HandleCompleted, AcceptRequest, RequestUnsaved, CompleteTurn, TerminalDropped
<1>3. ASSUME NEW r \in Calls, CallStep(r) \/ DropCall(r) \/ \E a \in shown : Claim(r, a)
      PROVE  UNCHANGED route
    BY <1>3 DEF CallStep, TakeLifecycle, SendSucceeds, SendFails, DropCall, Claim
<1>4. ASSUME NEW t \in Turns, WatchdogChecks(t) \/ WatchdogStep(t) PROVE UNCHANGED route
    BY <1>4 DEF WatchdogChecks, WatchdogStep, WatchdogCancels, WatchdogUnsaved
<1>5. CASE ServerStep
    BY <1>5 DEF ServerStep, Ask, Complete, Resolve
<1> QED
    BY <1>1, <1>2, <1>3, <1>4, <1>5 DEF Next

\* A turn begins under the current generation.
LEMMA BeganFrom ==
    ASSUME IInv, [Next]_vars, NEW g, NEW t, Began(g, t)'
    PROVE  \/ Began(g, t)
           \/ /\ BeginTurn(t) \/ BeginChild(t)
              /\ g = current
<1>0. server \in ServerType
    BY DEF IInv, TypeOK, ServerType
<1>1. CASE UNCHANGED server
    BY <1>1 DEF Began
<1>2. ASSUME NEW u \in Turns, BeginTurn(u) \/ BeginChild(u)
      PROVE  Began(g, t) \/ ((BeginTurn(t) \/ BeginChild(t)) /\ g = current)
  <2>1. /\ server'[u] = [gen |-> current, phase |-> "running"]
        /\ \A v \in Turns : v # u => server'[v] = server[v]
    BY <1>0, <1>2 DEF BeginTurn, BeginChild, ServerType
  <2> QED
    BY <1>2, <2>1 DEF Began
<1>3. ASSUME NEW u \in Turns, Complete(u) PROVE Began(g, t)
  <2>1. /\ server'[u].gen = server[u].gen
        /\ server[u].phase = "running"
        /\ \A v \in Turns : v # u => server'[v] = server[v]
    BY <1>0, <1>3 DEF Complete, ServerType
  <2> QED
    BY <2>1 DEF Began
<1>4. Listens \/ (\E v \in Generations : AnnounceLoss(v)) \/ (\E v \in Turns : Ask(v))
      \/ (\E a \in asked : Resolve(a)) => UNCHANGED server
    BY DEF Listens, AnnounceLoss, Ask, Resolve
<1> QED
    BY <1>1, <1>2, <1>3, <1>4, SortedStep

\* Generations are launched in order, and one that is lost is not the current one
\* again.
LEMMA CountersStep ==
    ASSUME IInv, GensInv, [Next]_vars
    PROVE  /\ spawned' \in Nat /\ current' \in Nat
           /\ spawned <= spawned'
           /\ current' <= spawned'
           /\ current' = current \/ current' > spawned \/ current' = NoGeneration
           /\ \A g \in owed' : g \in Generations /\ g <= spawned' /\ g # current'
<1>0. /\ current \in Nat /\ spawned \in Nat
      /\ owed \subseteq Generations
      /\ \A g \in Generations : g \in Nat /\ g # NoGeneration
    BY ApprovalsAssumption DEF IInv, TypeOK, TransportTypeOK, Generations, NoGeneration
<1>1. CASE TransportMoves
  <2> USE <1>0 DEF GensInv, NoGeneration, Generations
  <2>1. CASE Start
    <3>1. /\ spawned' = spawned + 1
          /\ current' = spawned + 1
          /\ owed' = owed
      BY <2>1 DEF Start
    <3>2. \A g \in owed : g \in Nat /\ g <= spawned
      OBVIOUS
    <3> QED
      BY <3>1, <3>2
  <2>2. CASE BecomeReady
    BY <2>2 DEF BecomeReady
  <2>3. CASE AbandonStart
    BY <2>3 DEF AbandonStart
  <2>4. CASE Lose
    <3>1. current \in Generations
      BY <2>4 DEF Lose, IInv, TypeOK, TransportTypeOK
    <3> QED
      BY <2>4, <3>1 DEF Lose
  <2>5. CASE Halt
    <3>1. UNCHANGED <<current, spawned, owed>>
      BY <2>5 DEF Halt
    <3>2. \A g \in owed : g \in Generations /\ g <= spawned /\ g # current
      OBVIOUS
    <3> QED
      BY <3>1, <3>2
  <2>6. CASE Release
    BY <2>6 DEF Release
  <2> QED
    BY <1>1, <2>1, <2>2, <2>3, <2>4, <2>5, <2>6 DEF TransportMoves
<1>2. ASSUME NEW g \in Generations, AnnounceLoss(g)
      PROVE  UNCHANGED <<current, spawned>> /\ owed' \subseteq owed
    BY <1>2 DEF AnnounceLoss, Announce
<1> QED
    BY <1>0, <1>1, <1>2, TransportKept DEF GensInv, transportVars

\* Generations come in order.
LEMMA GensStep ==
    ASSUME IInv, GensInv, [Next]_vars
    PROVE  GensInv'
<1>0. /\ server \in ServerType
      /\ current \in Nat /\ spawned \in Nat
      /\ owed \subseteq Generations
      /\ route \in [Threads -> Gens]
      /\ \A t \in Turns : server[t].phase # "none" => server[t].gen \in Generations
      /\ \A t \in Turns : server[t].gen \in Nat
      /\ \A g \in Generations : g \in Nat /\ g # NoGeneration
    BY ApprovalsAssumption DEF IInv, TypeOK, TransportTypeOK, ServerType, HoldersInv, Gens, Generations, NoGeneration
<1>a. \A i \in DOMAIN events : events[i].kind = "closed" =>
          events[i].gen \in Generations /\ events[i].gen <= spawned /\ events[i].gen # current
  <2>1. \A i \in DOMAIN events : events[i] \in Events
    BY DEF IInv, TypeOK
  <2>2. \A i \in DOMAIN events : events[i].gen \in Generations
    BY <2>1 DEF Events
  <2> QED
    BY <2>2 DEF GensInv
\* The counters.
<1>1. /\ spawned' \in Nat /\ current' \in Nat
      /\ spawned <= spawned'
      /\ current' <= spawned'
      /\ current' = current \/ current' > spawned \/ current' = NoGeneration
      /\ \A g \in owed' : g \in Generations /\ g <= spawned' /\ g # current'
    BY CountersStep
<1>2. ASSUME NEW t \in Turns PROVE server'[t].gen <= spawned'
  <2>1. CASE server'[t].gen = server[t].gen
    BY <1>0, <1>1, <2>1 DEF GensInv
  <2>2. CASE server'[t].phase # "none"
    <3>2. \E g : g = server'[t].gen
      OBVIOUS
    <3>3. ASSUME NEW g, g = server'[t].gen PROVE g = server[t].gen \/ g = current
      <4>1. Began(g, t)'
        BY <2>2, <3>3 DEF Began
      <4> QED
        BY <4>1, BeganFrom DEF Began
    <3> QED
      BY <1>0, <1>1, <3>2, <3>3 DEF GensInv
  <2>3. CASE server'[t].phase = "none"
    <3>1. server[t].phase = "none"
      BY <2>3, ProgressStep DEF Progresses
    <3>2. server'[t] = server[t]
      <4>1. ASSUME NEW u \in Turns, BeginTurn(u) \/ BeginChild(u) \/ Complete(u)
            PROVE  server'[t] = server[t]
        BY <1>0, <2>3, <4>1 DEF BeginTurn, BeginChild, Complete, ServerType
      <4> QED
        BY <4>1, SortedStep DEF Listens, AnnounceLoss, Ask, Resolve
    <3> QED
      BY <2>1, <3>2
  <2> QED
    BY <2>2, <2>3
<1>3. ASSUME NEW i \in DOMAIN events', events'[i].kind = "closed"
      PROVE  events'[i].gen <= spawned' /\ events'[i].gen # current'
  <2>1. CASE \E j \in DOMAIN events : events'[i] = events[j]
    BY <1>0, <1>1, <1>3, <1>a, <2>1
  <2>2. ASSUME NEW g \in Generations, AnnounceLoss(g), events'[i].gen = g
        PROVE  events'[i].gen <= spawned' /\ events'[i].gen # current'
    BY <2>2 DEF AnnounceLoss, Announce, GensInv
  <2> QED
    BY <1>3, <2>1, <2>2, ClosedFrom
<1>4. ASSUME NEW t \in Children, Began(current, t)' PROVE route'["child"] = current'
  <2>0. t \in Turns /\ server'[t].gen = current' /\ "child" \in Threads /\ "child" # "root"
    BY <1>4, ApprovalsAssumption DEF Began, Threads
  <2>1. CASE UNCHANGED server /\ UNCHANGED route
    <3>1. server[t].phase # "none" /\ server[t].gen = current'
      BY <1>4, <2>1 DEF Began
    <3>2. server[t].gen <= spawned /\ server[t].gen # NoGeneration
      BY <1>0, <2>0, <3>1 DEF GensInv
    <3>3. current' = current
      BY <1>0, <1>1, <3>1, <3>2
    <3> QED
      BY <2>0, <2>1, <3>1, <3>3 DEF GensInv, Began
  <2>2. ASSUME UNCHANGED current, UNCHANGED server \/ Began(current, t)
        PROVE  Began(current, t)
    BY <1>4, <2>2 DEF Began
  <2>3. ASSUME NEW u \in Turns, BeginTurn(u) PROVE route'["child"] = current'
    <3>1. UNCHANGED current /\ route'["child"] = route["child"] /\ u \notin Children
      BY <1>0, <2>0, <2>3 DEF BeginTurn, transportVars
    <3>2. server'[t] = server[t]
      BY <1>0, <2>0, <2>3, <3>1, <1>4 DEF BeginTurn, ServerType
    <3> QED
      BY <1>4, <3>1, <3>2 DEF GensInv, Began
  <2>4. ASSUME NEW u \in Turns, BeginChild(u) PROVE route'["child"] = current'
    BY <1>0, <2>0, <2>4 DEF BeginChild, transportVars
  <2>5. CASE HandleClosed
    <3>1. UNCHANGED <<current, server>>
      BY <2>5 DEF HandleClosed, transportVars
    <3>2. route["child"] = current
      BY <1>4, <3>1 DEF GensInv, Began
    <3>3. Head(events).gen # current
      <4>1. events \in Seq(Events) /\ events # <<>> /\ Head(events).kind = "closed"
        BY <2>5 DEF HandleClosed, PumpReads, IInv, TypeOK
      <4>2. 1 \in DOMAIN events /\ Head(events) = events[1]
        BY <4>1, QueueEnds
      <4> QED
        BY <1>a, <4>1, <4>2
    <3> QED
      BY <2>0, <2>5, <3>1, <3>2, <3>3 DEF HandleClosed
  <2>6. ASSUME NEW u \in Turns, Complete(u) PROVE route'["child"] = current'
    <3>1. UNCHANGED <<current, route>>
      BY <2>6 DEF Complete, transportVars, engine, owners
    <3>2. server[t].phase # "none" /\ server[t].gen = server'[t].gen
      BY <1>0, <1>4, <2>0, <2>6 DEF Complete, ServerType, Began
    <3> QED
      BY <1>4, <2>0, <3>1, <3>2 DEF GensInv, Began
  <2>7. CASE UNCHANGED route
    <3>1. UNCHANGED server \/ (\E u \in Turns : BeginTurn(u) \/ BeginChild(u) \/ Complete(u))
      BY SortedStep DEF Listens, AnnounceLoss, Ask, Resolve
    <3> QED
      BY <2>1, <2>3, <2>4, <2>6, <2>7, <3>1
  <2> QED
    BY <2>3, <2>4, <2>5, <2>7, RouteKept
<1>5. \A t \in Children : Began(current, t)' => route'["child"] = current'
    BY <1>4
<1> QED
    BY <1>1, <1>2, <1>3, <1>5 DEF GensInv

\* A start is queued when its turn begins.
LEMMA StartFrom ==
    ASSUME IInv, EventsInv, EventsInv', [Next]_vars, NEW t, StartQueued(t)'
    PROVE  StartQueued(t) \/ BeginTurn(t) \/ BeginChild(t)
<1>1. PICK i \in DOMAIN events' : events'[i].kind = "started" /\ events'[i].turn = t
    BY DEF StartQueued
<1>2. PICK g : g = events'[i].gen
    OBVIOUS
<1>3. Began(g, t)'
    BY <1>1, <1>2 DEF EventsInv, EventTrue, Began
<1>4. CASE Began(g, t)
  <2>1. t \in Turns /\ server[t].phase # "none"
    BY <1>4 DEF Began
  <2> QED
    BY <2>1, ProgressStep DEF Progresses
<1> QED
    BY <1>3, <1>4, BeganFrom

\* The start that is handled is queued no more.
LEMMA StartHandled ==
    ASSUME IInv, EventsInv, NEW t, PumpReads("started"), Head(events).turn = t
    PROVE  ~StartQueued(t)'
<1>1. events \in Seq(Events) /\ events # <<>> /\ events' = Tail(events) /\ Head(events).kind = "started"
    BY DEF PumpReads, IInv, TypeOK
<1>2. /\ 1 \in DOMAIN events
      /\ Head(events) = events[1]
      /\ \A i \in DOMAIN events' : i + 1 \in DOMAIN events /\ i + 1 > 1 /\ events'[i] = events[i + 1]
    BY <1>1, Shifted
<1> QED
    BY <1>1, <1>2 DEF EventsInv, StartsOnce, StartQueued

\* What the pump reads is true.
LEMMA HeadTrue ==
    ASSUME IInv, EventsInv, NEW kind, PumpReads(kind)
    PROVE  /\ EventTrue(Head(events))
           /\ Head(events).kind = kind
           /\ Head(events).gen \in Generations
           /\ 1 \in DOMAIN events
           /\ Head(events) = events[1]
<1>1. events \in Seq(Events) /\ events # <<>>
    BY DEF PumpReads, IInv, TypeOK
<1>2. 1 \in DOMAIN events /\ Head(events) = events[1] /\ Head(events) \in Events
    BY <1>1, QueueEnds
<1>3. Head(events).gen \in Generations
    BY <1>2 DEF Events
<1> QED
    BY <1>2, <1>3 DEF EventsInv, PumpReads

\* Every step but these leaves the owners alone.
LEMMA OwnersKept ==
    ASSUME [Next]_vars
    PROVE  \/ UNCHANGED <<activeThread, session>>
           \/ RunTakesTurn \/ RunPublishesTurn \/ RunGivesUp
           \/ HandleStarted \/ HandleCompleted \/ CompleteTurn \/ HandleClosed
           \/ FinishShutdown
           \/ \E t \in Turns : BeginTurn(t) \/ WatchdogCancels(t)
<1> USE DEF engine, owners
<1>1. CASE TransportStep \/ ServerStep \/ UNCHANGED vars
    BY <1>1 DEF TransportStep, TransportMoves, AnnounceLoss, vars, ServerStep, BeginChild, Ask, Complete,
       Resolve
<1>2. CASE PumpStep
    BY <1>2 DEF PumpStep, PumpIgnores, AdmitRequest, RefuseRequest, HandleResolved,
       AcceptRequest, RequestUnsaved, TerminalDropped
<1>3. ASSUME NEW r \in Calls, CallStep(r) \/ DropCall(r) \/ \E a \in shown : Claim(r, a)
      PROVE  UNCHANGED <<activeThread, session>>
    BY <1>3 DEF CallStep, TakeLifecycle, SendSucceeds, SendFails, DropCall, Claim
<1>4. ASSUME NEW t \in Turns, WatchdogChecks(t) \/ WatchdogUnsaved(t)
      PROVE  UNCHANGED <<activeThread, session>>
    BY <1>4 DEF WatchdogChecks, WatchdogUnsaved
<1> QED
    BY <1>1, <1>2, <1>3, <1>4 DEF Next, RunStep, WatchdogStep

SessionRecords == [gen : Gens, turn : MaybeTurn,
    at : {"none", "expected", "awaited", "refused", "taken", "orphaned", "live"}]
ThreadRecords == [gen : Gens, turn : MaybeTurn]

\* How the session changes hands.
LEMMA SessionMoves ==
    ASSUME IInv, [Next]_vars
    PROVE  \/ UNCHANGED session
           \/ session' = NoSession
           \/ /\ session.at \in {"expected", "taken"}
              /\ session'.at # "none"
              /\ session'.turn = session.turn
              /\ session'.gen = session.gen
           \/ \E t \in Turns : BeginTurn(t)
<1>0. session \in SessionRecords
    BY DEF IInv, TypeOK, SessionRecords
<1> USE DEF SessionRecords
<1>1. CASE RunTakesTurn
    BY <1>0, <1>1 DEF RunTakesTurn
<1>2. CASE RunPublishesTurn
    BY <1>0, <1>2 DEF RunPublishesTurn
<1>3. CASE RunGivesUp \/ FinishShutdown
    BY <1>3 DEF RunGivesUp, FinishShutdown
<1>4. CASE HandleStarted
    BY <1>0, <1>4 DEF HandleStarted
<1>5. CASE HandleCompleted \/ CompleteTurn
    BY <1>5 DEF HandleCompleted, CompleteTurn, ReleaseTurn
<1>6. CASE HandleClosed
    BY <1>0, <1>6 DEF HandleClosed
<1>7. ASSUME NEW t \in Turns, WatchdogCancels(t)
      PROVE  session' = session \/ session' = NoSession
    BY <1>7 DEF WatchdogCancels, ReleaseTurn
<1> QED
    BY <1>1, <1>2, <1>3, <1>4, <1>5, <1>6, <1>7, OwnersKept

\* The child thread gets a turn when its start is handled.
LEMMA ChildMoves ==
    ASSUME IInv, [Next]_vars
    PROVE  \/ activeThread'["child"] = activeThread["child"]
           \/ activeThread'["child"] = NoThreadTurn
           \/ /\ HandleStarted
              /\ Head(events).turn \in Children
              /\ activeThread'["child"] = [gen |-> Head(events).gen, turn |-> Head(events).turn]
<1>0. activeThread \in [Threads -> ThreadRecords] /\ "child" \in Threads /\ "child" # "root"
    BY DEF IInv, TypeOK, ThreadRecords, Threads
<1>a. ASSUME NEW g, NEW t, ReleaseTurn(g, t)
      PROVE  activeThread'["child"] \in {activeThread["child"], NoThreadTurn}
    BY <1>0, <1>a DEF ReleaseTurn
<1>1. CASE RunTakesTurn \/ RunGivesUp
    BY <1>1 DEF RunTakesTurn, RunGivesUp
<1>2. CASE RunPublishesTurn
    BY <1>0, <1>2 DEF RunPublishesTurn
<1>3. CASE FinishShutdown \/ HandleClosed
    BY <1>0, <1>3 DEF HandleClosed, FinishShutdown
<1>4. CASE HandleStarted
  <2>1. activeThread' = [activeThread EXCEPT ![ThreadOf(Head(events).turn)] =
                             [gen |-> Head(events).gen, turn |-> Head(events).turn]]
    BY <1>4 DEF HandleStarted
  <2>2. CASE Head(events).turn \in Children
    BY <1>0, <1>4, <2>1, <2>2 DEF ThreadOf
  <2>3. CASE Head(events).turn \notin Children
    BY <1>0, <2>1, <2>3 DEF ThreadOf
  <2> QED
    BY <2>2, <2>3
<1>5. CASE HandleCompleted \/ CompleteTurn
    BY <1>5, <1>a DEF HandleCompleted, CompleteTurn
<1>6. ASSUME NEW t \in Turns, BeginTurn(t) \/ WatchdogCancels(t)
      PROVE  activeThread'["child"] \in {activeThread["child"], NoThreadTurn}
    BY <1>6, <1>a DEF WatchdogCancels, BeginTurn
<1> QED
    BY <1>1, <1>2, <1>3, <1>4, <1>5, <1>6, OwnersKept

\* The session and the child thread name turns that began.
LEMMA SessionStep ==
    ASSUME IInv, EventsInv, EventsInv', SessionInv, [Next]_vars
    PROVE  SessionInv'
<1>0. /\ NoTurn \notin Turns
      /\ server \in ServerType
      /\ NoSession.at = "none" /\ NoSession.turn = NoTurn /\ NoThreadTurn.turn = NoTurn
    BY ApprovalsAssumption DEF IInv, TypeOK, ServerType, NoSession, NoThreadTurn
<1>p. Progresses
    BY ProgressStep
<1>b. ASSUME NEW t \in Turns, BeginTurn(t)
      PROVE  /\ session' = [gen |-> current, turn |-> t, at |-> "expected"]
             /\ t \notin Children
             /\ \A u \in Turns \ Children : ~StartQueued(u)
  <2>1. /\ session' = [gen |-> current, turn |-> t, at |-> "expected"]
        /\ t \notin Children
        /\ StartsHandled
        /\ server'[t] = [gen |-> current, phase |-> "running"]
    BY <1>0, <1>b DEF BeginTurn, ServerType
  <2> QED
    BY <2>1 DEF StartsHandled, StartQueued
<1>1. /\ session'.at # "none" => session'.turn \notin Children /\ Began(session.gen, session.turn)'
      /\ session'.at = "none" => session'.turn = NoTurn
  <2>1. CASE UNCHANGED session
    BY <1>p, <2>1, StillBegan DEF SessionInv, Began
  <2>2. CASE session' = NoSession
    BY <1>0, <2>2
  <2>3. CASE /\ session.at \in {"expected", "taken"}
             /\ session'.at # "none"
             /\ session'.turn = session.turn
             /\ session'.gen = session.gen
    <3>1. session.turn \notin Children /\ Began(session.gen, session.turn)
      BY <2>3 DEF SessionInv
    <3>2. server'[session.turn].phase # "none" /\ server'[session.turn].gen = server[session.turn].gen
      BY <1>p, <3>1 DEF Progresses, Began
    <3> QED
      BY <2>3, <3>1, <3>2 DEF Began
  <2>4. ASSUME NEW t \in Turns, BeginTurn(t)
        PROVE  session'.turn \notin Children /\ Began(session.gen, session.turn)' /\ session'.at # "none"
    <3>1. server'[t] = [gen |-> current, phase |-> "running"]
      BY <1>0, <2>4 DEF BeginTurn, ServerType
    <3> QED
      BY <2>4, <1>b, <3>1 DEF Began
  <2> QED
    BY <2>1, <2>2, <2>3, <2>4, SessionMoves
<1>2. ASSUME NEW t \in Turns \ Children, StartQueued(t)'
      PROVE  session'.turn \in {t, NoTurn}
  <2>1. ASSUME NEW u \in Turns, BeginTurn(u) PROVE session'.turn \in {t, NoTurn}
    <3>1. BeginTurn(t) \/ BeginChild(t)
      BY <1>2, <1>b, <2>1, StartFrom
    <3>2. BeginTurn(t)
      BY <3>1, <1>2 DEF BeginChild
    <3> QED
      BY <1>b, <3>2
  <2>2. CASE StartQueued(t) /\ ~\E u \in Turns : BeginTurn(u)
    <3>1. session.turn \in {t, NoTurn}
      BY <2>2 DEF SessionInv
    <3> QED
      BY <1>0, <2>2, <3>1, SessionMoves
  <2> QED
    BY <1>2, <2>1, <2>2, StartFrom DEF BeginChild
<1>3. ASSUME NEW t \in Turns, activeThread'["child"].turn = t
      PROVE  t \in Children /\ Began(activeThread["child"].gen, t)' /\ ~StartQueued(t)'
  <2>1. CASE activeThread'["child"] = activeThread["child"]
    <3>1. t \in Children /\ Began(activeThread["child"].gen, t) /\ ~StartQueued(t)
      BY <1>3, <2>1 DEF SessionInv
    <3> QED
      BY <1>p, <2>1, <3>1 DEF Progresses, Began
  <2>2. CASE activeThread'["child"] = NoThreadTurn
    BY <1>0, <1>3, <2>2
  <2>3. CASE /\ HandleStarted
             /\ Head(events).turn \in Children
             /\ activeThread'["child"] = [gen |-> Head(events).gen, turn |-> Head(events).turn]
    <3>1. PumpReads("started") /\ Head(events).turn = t /\ UNCHANGED server
      BY <1>3, <2>3 DEF HandleStarted
    <3>2. Began(Head(events).gen, t)
      BY <3>1, HeadTrue DEF EventTrue
    <3>3. ~StartQueued(t)'
      BY <3>1, StartHandled
    <3> QED
      BY <1>3, <2>3, <3>1, <3>2, <3>3 DEF Began
  <2> QED
    BY <2>1, <2>2, <2>3, ChildMoves
<1>4. \A t \in Turns \ Children : StartQueued(t)' => session'.turn \in {t, NoTurn}
    BY <1>2
<1>5. \A t \in Turns : activeThread'["child"].turn = t =>
          t \in Children /\ Began(activeThread["child"].gen, t)' /\ ~StartQueued(t)'
    BY <1>3
<1> QED
    BY <1>1, <1>4, <1>5 DEF SessionInv

\* request_lifecycle is given to a watchdog by its check alone.
LEMMA LifecycleFrom ==
    ASSUME IInv, [Next]_vars, NEW t \in Turns, lifecycle' = t
    PROVE  lifecycle = t \/ WatchdogChecks(t)
<1>0. /\ Pump \notin Turns /\ "free" \notin Turns
      /\ \A r \in Calls : r \notin Turns
    BY ApprovalsAssumption
<1> USE DEF engine
<1>1. CASE TransportStep \/ ServerStep \/ RunStep \/ UNCHANGED vars
    BY <1>1 DEF TransportStep, TransportMoves, AnnounceLoss, vars, ServerStep, BeginTurn, BeginChild, Ask,
       Complete, Resolve, RunStep, RunTakesTurn, RunPublishesTurn, RunGivesUp
<1>2. CASE PumpIgnores \/ HandleStarted \/ RefuseRequest \/ HandleResolved \/ HandleClosed
    BY <1>2 DEF PumpIgnores, HandleStarted, RefuseRequest, HandleResolved, HandleClosed
<1>3. CASE AdmitRequest \/ HandleCompleted
    BY <1>0, <1>3 DEF AdmitRequest, HandleCompleted
<1>4. CASE AcceptRequest \/ RequestUnsaved \/ CompleteTurn \/ TerminalDropped
    BY <1>0, <1>4 DEF AcceptRequest, RequestUnsaved, CompleteTurn, TerminalDropped, EndHandling
<1>5. ASSUME NEW r \in Calls, CallStep(r) \/ DropCall(r) \/ \E a \in shown : Claim(r, a)
      PROVE  lifecycle = t
    BY <1>0, <1>5 DEF CallStep, TakeLifecycle, SendSucceeds, SendFails, DropCall, Claim
<1>6. ASSUME NEW u \in Turns, WatchdogChecks(u) \/ WatchdogStep(u)
      PROVE  lifecycle = t \/ WatchdogChecks(t)
    BY <1>0, <1>6 DEF WatchdogChecks, WatchdogStep, WatchdogCancels, WatchdogUnsaved
<1>7. CASE FinishShutdown
    BY <1>0, <1>7 DEF FinishShutdown
<1> QED
    BY <1>1, <1>2, <1>3, <1>4, <1>5, <1>6, <1>7 DEF Next, PumpStep

\* The pump gets into the middle of an event by reading it.
LEMMA HandlingFrom ==
    ASSUME [Next]_vars
    PROVE  \/ UNCHANGED handling
           \/ handling' = NoEvent
           \/ AdmitRequest
           \/ HandleCompleted
<1> USE DEF engine
<1>1. CASE TransportStep \/ ServerStep \/ RunStep \/ UNCHANGED vars
    BY <1>1 DEF TransportStep, TransportMoves, AnnounceLoss, vars, ServerStep, BeginTurn, BeginChild, Ask,
       Complete, Resolve, RunStep, RunTakesTurn, RunPublishesTurn, RunGivesUp
<1>2. CASE PumpIgnores \/ HandleStarted \/ RefuseRequest \/ HandleResolved \/ HandleClosed
    BY <1>2 DEF PumpIgnores, HandleStarted, RefuseRequest, HandleResolved, HandleClosed
<1>4. CASE AcceptRequest \/ RequestUnsaved \/ CompleteTurn \/ TerminalDropped
    BY <1>4 DEF AcceptRequest, RequestUnsaved, CompleteTurn, TerminalDropped, EndHandling
<1>5. ASSUME NEW r \in Calls, CallStep(r) \/ DropCall(r) \/ \E a \in shown : Claim(r, a)
      PROVE  UNCHANGED handling
    BY <1>5 DEF CallStep, TakeLifecycle, SendSucceeds, SendFails, DropCall, Claim
<1>6. ASSUME NEW u \in Turns, WatchdogChecks(u) \/ WatchdogStep(u)
      PROVE  UNCHANGED handling
    BY <1>6 DEF WatchdogChecks, WatchdogStep, WatchdogCancels, WatchdogUnsaved
<1>7. CASE FinishShutdown
    BY <1>7 DEF FinishShutdown
<1> QED
    BY <1>1, <1>2, <1>4, <1>5, <1>6, <1>7 DEF Next, PumpStep

\* A watchdog and the end of a root turn are about one that was active.
LEMMA HoldingStep ==
    ASSUME IInv, EventsInv, SessionInv, HoldingInv, [Next]_vars
    PROVE  HoldingInv'
<1>0. /\ NoTurn \notin Turns
      /\ server \in ServerType
      /\ NoSession.turn = NoTurn
    BY ApprovalsAssumption DEF IInv, TypeOK, ServerType, NoSession
<1>p. Progresses
    BY ProgressStep
<1>1. ASSUME NEW t \in Turns, lifecycle' = t
      PROVE  /\ server'[t].phase # "none"
             /\ ~StartQueued(t)'
             /\ t \in Children \/ session'.turn # t \/ NamedBySession(server[t].gen, t)'
  <2>1. CASE lifecycle = t
    <3>1. /\ server[t].phase # "none"
          /\ ~StartQueued(t)
          /\ t \in Children \/ session.turn # t \/ NamedBySession(server[t].gen, t)
      BY <2>1 DEF HoldingInv
    <3>2. /\ server'[t].phase # "none" /\ server'[t].gen = server[t].gen
          /\ ~StartQueued(t)'
      BY <1>p, <3>1 DEF Progresses
    <3>3. t \in Children \/ session'.turn # t \/ NamedBySession(server[t].gen, t)'
      <4>1. CASE UNCHANGED session
        BY <3>1, <3>2, <4>1 DEF NamedBySession
      <4>2. CASE session' = NoSession
        BY <1>0, <4>2
      <4>3. CASE /\ session.at \in {"expected", "taken"}
                 /\ session'.turn = session.turn
        BY <3>1, <4>3 DEF NamedBySession
      <4>4. ASSUME NEW u \in Turns, BeginTurn(u) PROVE session'.turn # t
        BY <3>1, <4>4 DEF BeginTurn
      <4> QED
        BY <4>1, <4>2, <4>3, <4>4, SessionMoves
    <3> QED
      BY <3>2, <3>3
  <2>2. CASE WatchdogChecks(t)
    <3>1. /\ StartsHandled
          /\ OwnerIsActive(server[t].gen, t)
          /\ UNCHANGED <<events, server, session>>
      BY <2>2 DEF WatchdogChecks, outside, owners
    <3>2. CASE t \in Children
      <4>1. activeThread["child"] = [gen |-> server[t].gen, turn |-> t]
        BY <3>1, <3>2 DEF OwnerIsActive, NamedByThread, ThreadOf
      <4>2. Began(activeThread["child"].gen, t) /\ ~StartQueued(t)
        BY <4>1 DEF SessionInv
      <4> QED
        BY <3>1, <3>2, <4>2 DEF Began, StartQueued
    <3>3. CASE t \notin Children
      <4>1. NamedBySession(server[t].gen, t)
        BY <3>1, <3>3 DEF OwnerIsActive
      <4>2. Began(session.gen, session.turn) /\ session.turn = t
        BY <4>1 DEF NamedBySession, SessionInv
      <4>3. ~StartQueued(t)
        BY <3>1, <3>3 DEF StartsHandled, StartQueued
      <4> QED
        BY <3>1, <4>1, <4>2, <4>3 DEF Began, StartQueued, NamedBySession
    <3> QED
      BY <3>2, <3>3
  <2> QED
    BY <1>1, <2>1, <2>2, LifecycleFrom
<1>2. ASSUME handling'.kind = "completed"
      PROVE  /\ handling'.turn \in Turns \ Children
             /\ RetiredWith(handling.gen, handling.turn)' = {}
  <2>1. CASE UNCHANGED handling
    <3>1. handling.turn \in Turns \ Children /\ RetiredWith(handling.gen, handling.turn) = {}
      BY <1>2, <2>1 DEF HoldingInv
    <3>2. ~AcceptRequest
      BY <1>2, <2>1 DEF AcceptRequest
    <3>3. ASSUME NEW p \in pending' PROVE ~(p.gen = handling.gen /\ p.turn = handling.turn)
      <4>1. PICK q \in pending : RequestOf(q) = RequestOf(p)
        BY <3>2, PendingFrom
      <4>2. q.gen = p.gen /\ q.turn = p.turn
        BY <4>1 DEF RequestOf
      <4> QED
        BY <3>1, <4>2 DEF RetiredWith
    <3> QED
      BY <2>1, <3>1, <3>3 DEF RetiredWith
  <2>2. CASE handling' = NoEvent \/ AdmitRequest
    BY <1>2, <2>2 DEF NoEvent, AdmitRequest, PumpReads
  <2>3. CASE HandleCompleted
    <3>1. /\ PumpReads("completed")
          /\ pending' = pending \ RetiredWith(Head(events).gen, Head(events).turn)
          /\ handling' = Head(events) /\ Head(events).turn \notin Children
      <4>1. handling = NoEvent
        BY <2>3 DEF HandleCompleted, PumpReads
      <4> QED
        BY <1>2, <2>3, <4>1 DEF HandleCompleted, NoEvent
    <3>2. Head(events).turn \in Turns
      BY <3>1, HeadTrue DEF EventTrue, Began
    <3>3. \A p \in pending' : ~(p.gen = handling'.gen /\ p.turn = handling'.turn)
      BY <3>1 DEF RetiredWith
    <3> QED
      BY <3>1, <3>2, <3>3 DEF RetiredWith
  <2> QED
    BY <2>1, <2>2, <2>3, HandlingFrom
<1>3. \A t \in Turns : lifecycle' = t =>
          /\ server'[t].phase # "none"
          /\ ~StartQueued(t)'
          /\ t \in Children \/ session'.turn # t \/ NamedBySession(server[t].gen, t)'
    BY <1>1
<1> QED
    BY <1>2, <1>3 DEF HoldingInv

\* An event that is read leaves the queue, the others stay.
LEMMA QueueMoves ==
    ASSUME IInv, [Next]_vars
    PROVE  \/ \A i \in DOMAIN events : i \in DOMAIN events' /\ events'[i] = events[i]
           \/ PumpIgnores \/ HandleStarted \/ AdmitRequest \/ RefuseRequest
           \/ HandleResolved \/ HandleCompleted \/ HandleClosed
<1>0. events \in Seq(Events)
    BY DEF IInv, TypeOK
<1> DEFINE Kept == \A i \in DOMAIN events : i \in DOMAIN events' /\ events'[i] = events[i]
<1>a. ASSUME NEW kind, NEW g, NEW t, NEW rpc, Broadcast(kind, g, t, rpc) PROVE Kept
    BY <1>0, <1>a DEF Broadcast
<1>b. UNCHANGED events => Kept
    OBVIOUS
<1> HIDE DEF Kept
<1> USE DEF engine, outside
<1>1. ASSUME TransportStep \/ ServerStep PROVE Kept
    BY <1>1, <1>a, <1>b DEF TransportStep, TransportMoves, AnnounceLoss, ServerStep, BeginTurn, BeginChild, Ask,
       Complete, Resolve
<1>2. ASSUME RunStep \/ FinishShutdown \/ UNCHANGED vars PROVE Kept
    BY <1>2, <1>b DEF RunStep, RunTakesTurn, RunPublishesTurn, RunGivesUp, FinishShutdown, vars
<1>3. ASSUME AcceptRequest \/ RequestUnsaved \/ CompleteTurn \/ TerminalDropped PROVE Kept
    BY <1>3, <1>b DEF AcceptRequest, RequestUnsaved, CompleteTurn, TerminalDropped
<1>4. ASSUME NEW r \in Calls, CallStep(r) \/ DropCall(r) \/ \E a \in shown : Claim(r, a)
      PROVE  Kept
    BY <1>4, <1>b DEF CallStep, TakeLifecycle, SendSucceeds, SendFails, DropCall, Claim
<1>5. ASSUME NEW t \in Turns, WatchdogChecks(t) \/ WatchdogStep(t) PROVE Kept
    BY <1>5, <1>b DEF WatchdogChecks, WatchdogStep, WatchdogCancels, WatchdogUnsaved
<1>6. Kept \/ PumpIgnores \/ HandleStarted \/ AdmitRequest \/ RefuseRequest
           \/ HandleResolved \/ HandleCompleted \/ HandleClosed
    BY <1>1, <1>2, <1>3, <1>4, <1>5 DEF Next, PumpStep
<1> QED
    BY <1>6 DEF Kept

\* What waits was waiting, or has just been admitted.
LEMMA WaitsFrom ==
    ASSUME IInv, [Next]_vars, NEW g, NEW t, Waits(g, t)'
    PROVE  Waits(g, t) \/ (AdmitRequest /\ Head(events).gen = g /\ Head(events).turn = t)
<1>1. ASSUME NEW p \in pending', p.gen = g, p.turn = t PROVE Waits(g, t)
  <2>1. CASE \E q \in pending : RequestOf(q) = RequestOf(p)
    BY <1>1, <2>1 DEF RequestOf, Waits
  <2>2. CASE AcceptRequest /\ RequestOf(p) = RequestOf(handling)
    BY <1>1, <2>2 DEF AcceptRequest, RequestOf, Waits
  <2> QED
    BY <2>1, <2>2, PendingFrom
<1>2. ASSUME handling'.kind = "request", handling'.gen = g, handling'.turn = t
      PROVE  Waits(g, t) \/ (AdmitRequest /\ Head(events).gen = g /\ Head(events).turn = t)
  <2>1. CASE UNCHANGED handling
    BY <1>2, <2>1 DEF Waits
  <2>2. CASE handling' = NoEvent
    BY <1>2, <2>2 DEF NoEvent
  <2>3. CASE AdmitRequest
    BY <1>2, <2>3 DEF AdmitRequest
  <2>4. CASE HandleCompleted
    BY <1>2, <2>4 DEF HandleCompleted, PumpReads, Waits
  <2> QED
    BY <2>1, <2>2, <2>3, <2>4, HandlingFrom
<1> QED
    BY <1>1, <1>2 DEF Waits

\* An owner that is active is so until its turn is released, its thread's next
\* turn starts or its generation is dropped.
LEMMA OwnerStep ==
    ASSUME IInv, GensInv, EventsInv, SessionInv, HoldingInv, WaitInv, [Next]_vars,
           NEW g \in Generations, NEW t \in Turns,
           Waits(g, t), Waits(g, t)', OwnerIsActive(g, t), g = current, g = current'
    PROVE  Owned(g, t)'
<1>0. /\ NoTurn \notin Turns
      /\ activeThread \in [Threads -> ThreadRecords]
      /\ session \in SessionRecords
      /\ ThreadOf(t) \in Threads /\ "child" \in Threads /\ "root" \in Threads /\ "child" # "root"
      /\ ThreadOf(t) = "child" <=> t \in Children
      /\ ThreadOf(t) \in {"root", "child"}
    BY ApprovalsAssumption DEF IInv, TypeOK, ThreadRecords, SessionRecords, Threads, ThreadOf
<1>1. /\ activeThread[ThreadOf(t)] = [gen |-> g, turn |-> t]
      /\ t \notin Children => session.gen = g /\ session.turn = t /\ session.at \in {"awaited", "live"}
    BY DEF OwnerIsActive, NamedByThread, NamedBySession
<1>2. /\ Began(g, t)
      /\ t \in Children => ~StartQueued(t)
      /\ t \in Children /\ server[t].phase = "done" /\ ~StorageFails => EndQueued(t)
    BY DEF WaitInv
<1>a. ASSUME activeThread'[ThreadOf(t)] = activeThread[ThreadOf(t)],
             t \notin Children => session' = session
      PROVE  Owned(g, t)'
    BY <1>1, <1>a DEF Owned, OwnerIsActive, NamedByThread, NamedBySession
\* The release of another turn.
<1>b. ASSUME NEW h, NEW u \in Turns, ReleaseTurn(h, u), ~(h = g /\ u = t),
             u \notin Children => OwnerIsActive(h, u)
      PROVE  Owned(g, t)'
  <2>1. [gen |-> g, turn |-> t] # [gen |-> h, turn |-> u]
    BY <1>b
  <2>2. activeThread'[ThreadOf(t)] = activeThread[ThreadOf(t)]
    BY <1>0, <1>1, <1>b, <2>1 DEF ReleaseTurn
  <2>3. ASSUME t \notin Children PROVE session' = session
    <3>1. CASE u \in Children
      BY <1>b, <3>1 DEF ReleaseTurn
    <3>2. CASE u \notin Children
      <4>1. activeThread["root"] = [gen |-> h, turn |-> u]
        BY <1>b, <3>2 DEF OwnerIsActive, NamedByThread, ThreadOf
      <4>2. activeThread["root"] = [gen |-> g, turn |-> t]
        BY <1>0, <1>1, <2>3
      <4> QED
        BY <2>1, <4>1, <4>2
    <3> QED
      BY <3>1, <3>2
  <2> QED
    BY <1>a, <2>2, <2>3
<1>3. CASE RunTakesTurn \/ RunPublishesTurn
  <2>1. session.at \notin {"awaited", "live"}
    BY <1>3 DEF RunTakesTurn, RunPublishesTurn
  <2>2. t \in Children /\ ThreadOf(t) = "child"
    BY <1>0, <1>1, <2>1
  <2>3. activeThread'["child"] = activeThread["child"]
    BY <1>0, <1>3 DEF RunTakesTurn, RunPublishesTurn
  <2> QED
    BY <1>a, <2>2, <2>3
<1>4. CASE RunGivesUp
  <2>1. t \in Children
    BY <1>1, <1>4 DEF RunGivesUp
  <2> QED
    BY <1>4, <1>a, <2>1 DEF RunGivesUp
<1>5. CASE HandleStarted
  <2> DEFINE e == Head(events)
  <2>1. /\ PumpReads("started")
        /\ route[ThreadOf(e.turn)] = e.gen
        /\ activeThread' = [activeThread EXCEPT ![ThreadOf(e.turn)] = [gen |-> e.gen, turn |-> e.turn]]
        /\ session' = session \/ session.at = "expected"
        /\ UNCHANGED server
    BY <1>5 DEF HandleStarted, Routed
  <2>2. /\ Began(e.gen, e.turn)
        /\ e.kind = "started"
        /\ 1 \in DOMAIN events /\ e = events[1]
    BY <2>1, HeadTrue DEF EventTrue
  <2>3. CASE t \notin Children
    <3>1. session' = session
      BY <1>1, <2>1, <2>3
    <3>2. CASE e.turn \in Children
      BY <1>0, <1>a, <2>1, <2>3, <3>1, <3>2 DEF ThreadOf
    <3>3. CASE e.turn \notin Children
      <4>1. StartQueued(e.turn) /\ e.turn \in Turns
        BY <2>2 DEF StartQueued, Began
      <4>2. e.turn = t
        BY <1>0, <1>1, <2>3, <3>3, <4>1 DEF SessionInv
      <4>3. e.gen = g
        BY <1>2, <2>2, <4>2 DEF Began
      <4> QED
        BY <1>0, <1>1, <1>a, <2>1, <3>1, <4>2, <4>3
    <3> QED
      BY <3>2, <3>3
  <2>4. CASE t \in Children /\ e.turn \notin Children
    BY <1>0, <1>a, <2>1, <2>4 DEF ThreadOf
  <2>5. CASE t \in Children /\ e.turn \in Children
    <3>1. e.turn # t
      BY <1>2, <2>2, <2>5 DEF StartQueued
    <3>2. route["child"] = e.gen
      BY <2>1, <2>5 DEF ThreadOf
    <3>3. e.gen = g
      BY <1>2, <2>5, <3>2 DEF GensInv
    <3>4. \/ \E j \in DOMAIN events : j > 1 /\ events[j].kind = "started" /\ events[j].turn = t
          \/ /\ server[t].phase = "done"
             /\ \A j \in DOMAIN events : j > 1 => ~(events[j].kind = "completed" /\ events[j].turn = t)
      BY <1>2, <2>2, <2>5, <3>1, <3>3 DEF EventsInv, ChildrenInOrder
    <3>5. /\ server[t].phase = "done"
          /\ \A j \in DOMAIN events : j > 1 => ~(events[j].kind = "completed" /\ events[j].turn = t)
      BY <1>2, <2>5, <3>4 DEF StartQueued
    <3>6. ~EndQueued(t)
      <4>1. \A j \in DOMAIN events : j = 1 \/ j > 1
        BY DEF IInv, TypeOK
      <4> QED
        BY <2>2, <3>5, <4>1 DEF EndQueued
    <3>7. StorageFails \in BOOLEAN
      BY ApprovalsAssumption
    <3> QED
      BY <1>2, <2>1, <2>5, <3>5, <3>6, <3>7 DEF Owned
  <2> QED
    BY <2>3, <2>4, <2>5
<1>6. CASE HandleCompleted
  <2> DEFINE e == Head(events)
  <2>1. /\ PumpReads("completed")
        /\ pending' = pending \ RetiredWith(e.gen, e.turn)
        /\ \/ e.turn \in Children /\ ReleaseTurn(e.gen, e.turn) /\ UNCHANGED handling
           \/ e.turn \notin Children /\ UNCHANGED <<activeThread, session>>
    BY <1>6 DEF HandleCompleted
  <2>2. CASE e.turn \notin Children
    BY <1>a, <2>1, <2>2
  <2>3. CASE e.turn \in Children
    <3>1. e.turn \in Turns
      BY <2>3, ApprovalsAssumption
    <3>2. handling' = NoEvent
      BY <2>1, <2>3 DEF PumpReads
    <3>3. ~(e.gen = g /\ e.turn = t)
      BY <2>1, <3>2 DEF Waits, RetiredWith, NoEvent
    <3>4. ReleaseTurn(e.gen, e.turn)
      BY <2>1, <2>3
    <3> HIDE DEF e
    <3> QED
      BY <1>b, <2>3, <3>1, <3>3, <3>4
  <2> QED
    BY <2>2, <2>3
<1>7. CASE CompleteTurn
  <2>1. CASE UNCHANGED <<activeThread, session>>
    BY <1>a, <2>1
  <2>2. CASE OwnerIsActive(handling.gen, handling.turn) /\ ReleaseTurn(handling.gen, handling.turn)
    <3>1. handling.kind = "completed" /\ UNCHANGED pending /\ handling' = NoEvent
      BY <1>7 DEF CompleteTurn, EndHandling
    <3>2. handling.turn \in Turns /\ RetiredWith(handling.gen, handling.turn) = {}
      BY <3>1 DEF HoldingInv
    <3>3. ~(handling.gen = g /\ handling.turn = t)
      BY <3>1, <3>2 DEF Waits, RetiredWith, NoEvent
    <3>4. PICK h, u : h = handling.gen /\ u = handling.turn
      OBVIOUS
    <3> QED
      BY <1>b, <2>2, <3>2, <3>3, <3>4
  <2> QED
    BY <1>7, <2>1, <2>2 DEF CompleteTurn
<1>8. CASE HandleClosed
  <2>1. /\ PumpReads("closed")
        /\ activeThread' = [th \in Threads |->
               IF activeThread[th].gen = Head(events).gen THEN NoThreadTurn ELSE activeThread[th]]
        /\ session.gen # Head(events).gen => session' = session
    BY <1>8 DEF HandleClosed
  <2>2. Head(events).gen # g
    BY <2>1, HeadTrue DEF GensInv
  <2>3. activeThread'[ThreadOf(t)] = activeThread[ThreadOf(t)]
    BY <1>0, <1>1, <2>1, <2>2
  <2>4. t \notin Children => session' = session
    BY <1>1, <2>1, <2>2
  <2> QED
    BY <1>a, <2>3, <2>4
<1>9. CASE FinishShutdown
    BY <1>9 DEF FinishShutdown, Waits, NoEvent
<1>10. ASSUME NEW u \in Turns, BeginTurn(u) PROVE Owned(g, t)'
  <2>1. session.at = "none" /\ UNCHANGED activeThread
    BY <1>10 DEF BeginTurn, NoSession
  <2> QED
    BY <1>1, <1>a, <2>1
<1>11. ASSUME NEW u \in Turns, WatchdogCancels(u) PROVE Owned(g, t)'
  <2>1. PICK h : h = server[u].gen
    OBVIOUS
  <2>2. /\ lifecycle = u
        /\ pending' = pending \ RetiredWith(h, u)
        /\ ReleaseTurn(h, u)
        /\ UNCHANGED handling
    BY <1>11, <2>1 DEF WatchdogCancels
  <2>3. handling.kind # "request"
    BY <2>2, ApprovalsAssumption DEF IInv, HoldersInv, NoEvent
  <2>4. ~(h = g /\ u = t)
    BY <2>2, <2>3 DEF Waits, RetiredWith
  <2>5. CASE u \in Children \/ OwnerIsActive(h, u)
    BY <1>b, <2>2, <2>4, <2>5
  <2>6. CASE u \notin Children /\ ~OwnerIsActive(h, u)
    <3>1. [gen |-> g, turn |-> t] # [gen |-> h, turn |-> u]
      BY <2>4
    <3>2. activeThread'[ThreadOf(t)] = activeThread[ThreadOf(t)]
      BY <1>0, <1>1, <2>2, <3>1 DEF ReleaseTurn
    <3>3. ASSUME t \notin Children PROVE session' = session
      <4>1. ~NamedBySession(h, u)
        BY <1>1, <2>4, <3>3 DEF NamedBySession
      <4> QED
        BY <2>2, <4>1 DEF ReleaseTurn
    <3> QED
      BY <1>a, <3>2, <3>3
  <2> QED
    BY <2>5, <2>6
<1>12. CASE UNCHANGED <<activeThread, session>>
    BY <1>12, <1>a
<1> QED
    BY <1>3, <1>4, <1>5, <1>6, <1>7, <1>8, <1>9, <1>10, <1>11, <1>12, OwnersKept

\* A turn is done by its end.
LEMMA DoneFrom ==
    ASSUME IInv, [Next]_vars, NEW t \in Turns, server'[t].phase = "done"
    PROVE  server[t].phase = "done" \/ Complete(t)
<1>0. server \in ServerType
    BY DEF IInv, TypeOK, ServerType
<1>1. ASSUME NEW u \in Turns, BeginTurn(u) \/ BeginChild(u) PROVE server[t].phase = "done"
    BY <1>0, <1>1 DEF BeginTurn, BeginChild, ServerType
<1>2. ASSUME NEW u \in Turns, Complete(u) PROVE server[t].phase = "done" \/ u = t
    BY <1>0, <1>2 DEF Complete, ServerType
<1>3. Listens \/ (\E v \in Generations : AnnounceLoss(v)) \/ (\E v \in Turns : Ask(v))
      \/ (\E a \in asked : Resolve(a)) => UNCHANGED server
    BY DEF Listens, AnnounceLoss, Ask, Resolve
<1> QED
    BY <1>1, <1>2, <1>3, SortedStep

\* The end of a child's turn stays queued as long as a request of it waits.
LEMMA EndStep ==
    ASSUME IInv, GensInv, EventsInv, WaitInv, [Next]_vars,
           NEW g \in Generations, NEW t \in Children, Waits(g, t)',
           server'[t].phase = "done", g = current', g = current, Began(g, t), ~StorageFails
    PROVE  EndQueued(t)'
<1>0. /\ events \in Seq(Events)
      /\ t \in Turns
    BY ApprovalsAssumption DEF IInv, TypeOK
<1>1. CASE Complete(t)
  <2>1. events' = Append(events, [kind |-> "completed", gen |-> server[t].gen, turn |-> t, rpc |-> 0])
    BY <1>1 DEF Complete, Broadcast
  <2>2. /\ Len(events) + 1 \in DOMAIN events'
        /\ events'[Len(events) + 1] = [kind |-> "completed", gen |-> server[t].gen, turn |-> t, rpc |-> 0]
    BY <1>0, <2>1
  <2>3. events'[Len(events) + 1].kind = "completed" /\ events'[Len(events) + 1].turn = t
    BY <2>2
  <2> QED
    BY <2>2, <2>3 DEF EndQueued
\* It is queued behind the head, which the pump reads.
<1>a. ASSUME events # <<>>, events' = Tail(events),
             NEW j \in DOMAIN events, j # 1, events[j].kind = "completed", events[j].turn = t
      PROVE  EndQueued(t)'
  <2>1. j - 1 \in DOMAIN events' /\ events'[j - 1] = events[j]
    BY <1>0, <1>a, Shifted
  <2> QED
    BY <1>a, <2>1 DEF EndQueued
<1>2. CASE server[t].phase = "done" /\ AdmitRequest /\ Head(events).gen = g /\ Head(events).turn = t
  <2>1. /\ events # <<>> /\ events' = Tail(events)
        /\ 1 \in DOMAIN events
        /\ events[1].kind = "request" /\ events[1].turn = t
    BY <1>2, HeadTrue DEF AdmitRequest, PumpReads
  <2>2. PICK j \in DOMAIN events : j > 1 /\ events[j].kind = "completed" /\ events[j].turn = t
    BY <1>2, <2>1 DEF EventsInv, EndsAfterRequests
  <2>3. j # 1
    BY <1>0, <2>2
  <2> QED
    BY <1>a, <2>1, <2>2, <2>3
<1>3. CASE server[t].phase = "done" /\ Waits(g, t)
  <2>1. PICK j \in DOMAIN events : events[j].kind = "completed" /\ events[j].turn = t
    BY <1>0, <1>3 DEF WaitInv, EndQueued
  <2>2. CASE j \in DOMAIN events' /\ events'[j] = events[j]
    BY <2>1, <2>2 DEF EndQueued
  <2>3. ASSUME NEW kind, PumpReads(kind), kind # "completed" PROVE EndQueued(t)'
    <3>1. events # <<>> /\ events' = Tail(events) /\ events[1].kind # "completed"
      BY <2>3, HeadTrue DEF PumpReads
    <3> QED
      BY <1>a, <2>1, <3>1
  <2>4. ASSUME PumpReads("completed"), j # 1 PROVE EndQueued(t)'
    <3>1. events # <<>> /\ events' = Tail(events)
      BY <2>4 DEF PumpReads
    <3> QED
      BY <1>a, <2>1, <2>4, <3>1
  <2>5. ASSUME PumpReads("completed"), j = 1
        PROVE  Head(events).gen = g /\ Head(events).turn = t /\ Routed(Head(events))
    <3>1. Began(Head(events).gen, t) /\ Head(events).turn = t
      BY <2>1, <2>5, HeadTrue DEF EventTrue
    <3>2. Head(events).gen = g
      BY <3>1 DEF Began
    <3>3. route["child"] = g
      BY DEF GensInv
    <3> QED
      BY <3>1, <3>2, <3>3 DEF Routed, ThreadOf
  <2>6. CASE PumpIgnores
    <3>1. PICK kind : kind = Head(events).kind
      OBVIOUS
    <3>2. PumpReads(kind) /\ (~Routed(Head(events)) \/ StorageFails)
      BY <1>0, <2>6, <3>1 DEF PumpIgnores
    <3> QED
      BY <2>3, <2>4, <2>5, <3>2
  <2>7. CASE HandleCompleted
    <3>1. /\ PumpReads("completed")
          /\ pending' = pending \ RetiredWith(Head(events).gen, Head(events).turn)
          /\ Head(events).turn \in Children => UNCHANGED handling
          /\ handling = NoEvent
      BY <2>7 DEF HandleCompleted, PumpReads
    <3>2. ~(Head(events).gen = g /\ Head(events).turn = t)
      BY <3>1 DEF Waits, RetiredWith, NoEvent
    <3> QED
      BY <2>4, <2>5, <3>1, <3>2
  <2>8. CASE HandleStarted \/ AdmitRequest \/ RefuseRequest \/ HandleResolved \/ HandleClosed
    <3>1. PumpReads("started") \/ PumpReads("request") \/ PumpReads("resolved") \/ PumpReads("closed")
      BY <2>8 DEF HandleStarted, AdmitRequest, RefuseRequest, HandleResolved, HandleClosed
    <3> QED
      BY <2>3, <3>1
  <2> QED
    BY <2>1, <2>2, <2>6, <2>7, <2>8, QueueMoves
<1> QED
    BY <1>0, <1>1, <1>2, <1>3, DoneFrom, WaitsFrom

\* What waits for the user is owned.
LEMMA WaitStep ==
    ASSUME IInv, GensInv, EventsInv, SessionInv, HoldingInv, WaitInv, [Next]_vars
    PROVE  WaitInv'
<1>p. Progresses
    BY ProgressStep
<1>1. ASSUME NEW g \in Generations, NEW t \in Turns, Waits(g, t)'
      PROVE  /\ Owned(g, t)'
             /\ Began(g, t)'
             /\ t \in Children => ~StartQueued(t)'
             /\ t \in Children /\ server'[t].phase = "done" /\ g = current' /\ ~StorageFails => EndQueued(t)'
  <2>1. /\ Began(g, t)
        /\ t \in Children => ~StartQueued(t)
    <3>1. CASE Waits(g, t)
      BY <3>1 DEF WaitInv
    <3>2. CASE AdmitRequest /\ Head(events).gen = g /\ Head(events).turn = t
      <4>1. PumpReads("request") /\ OwnerIsActive(g, t)
        BY <3>2 DEF AdmitRequest
      <4>2. Began(g, t)
        BY <3>2, <4>1, HeadTrue DEF EventTrue
      <4>3. t \in Children => activeThread["child"].turn = t
        BY <4>1 DEF OwnerIsActive, NamedByThread, ThreadOf
      <4> QED
        BY <4>2, <4>3 DEF SessionInv
    <3> QED
      BY <1>1, <3>1, <3>2, WaitsFrom
  <2>2. Began(g, t)' /\ (t \in Children => ~StartQueued(t)')
    BY <1>p, <2>1, StillBegan DEF Progresses, Began
  <2>3. g = current' => g = current
    <3>1. g \in Nat /\ g <= spawned /\ g # NoGeneration /\ spawned \in Nat
      BY <2>1, ApprovalsAssumption
      DEF Began, GensInv, Generations, NoGeneration, IInv, TypeOK, TransportTypeOK
    <3> QED
      BY <3>1, CountersStep
  <2>4. Owned(g, t)'
    <3>1. CASE g # current'
      BY <3>1 DEF Owned
    <3>2. CASE g = current' /\ Waits(g, t)
      <4>1. CASE OwnerIsActive(g, t)
        BY <1>1, <2>3, <3>2, <4>1, OwnerStep
      <4>2. CASE StorageFails /\ t \in Children /\ server[t].phase = "done"
        BY <1>p, <4>2 DEF Owned, Progresses
      <4> QED
        BY <2>3, <3>2, <4>1, <4>2 DEF WaitInv, Owned
    <3>3. CASE AdmitRequest /\ Head(events).gen = g /\ Head(events).turn = t
      <4>1. OwnerIsActive(g, t) /\ UNCHANGED <<activeThread, session>>
        BY <3>3 DEF AdmitRequest, owners
      <4>2. OwnerIsActive(g, t)'
        BY <4>1 DEF OwnerIsActive, NamedByThread, NamedBySession
      <4> QED
        BY <4>2 DEF Owned
    <3> QED
      BY <1>1, <3>1, <3>2, <3>3, WaitsFrom
  <2>5. t \in Children /\ server'[t].phase = "done" /\ g = current' /\ ~StorageFails => EndQueued(t)'
    BY <1>1, <2>1, <2>3, EndStep
  <2> QED
    BY <2>2, <2>4, <2>5
<1> QED
    BY <1>1 DEF WaitInv

\* What the user is shown was accepted.
LEMMA ShownFrom ==
    ASSUME [Next]_vars
    PROVE  \/ UNCHANGED shown
           \/ /\ shown' = shown \cup {RequestOf(handling)}
              /\ \E p \in pending' : IdOf(p) = IdOf(RequestOf(handling))
<1> USE DEF engine, seen
<1>1. CASE TransportStep \/ ServerStep
    BY <1>1 DEF TransportStep, TransportMoves, AnnounceLoss, ServerStep, BeginTurn, BeginChild, Ask,
       Complete, Resolve
<1>2. CASE RunStep \/ FinishShutdown \/ UNCHANGED vars
    BY <1>2 DEF RunStep, RunTakesTurn, RunPublishesTurn, RunGivesUp, FinishShutdown, vars
<1>3. CASE AcceptRequest
    BY <1>3 DEF AcceptRequest, IdOf, RequestOf
<1>4. CASE PumpStep /\ ~AcceptRequest
    BY <1>4 DEF PumpStep, PumpIgnores, HandleStarted, AdmitRequest, RefuseRequest, HandleResolved,
       HandleCompleted, HandleClosed, RequestUnsaved, CompleteTurn, TerminalDropped
<1>5. ASSUME NEW r \in Calls, CallStep(r) \/ DropCall(r) \/ \E a \in shown : Claim(r, a)
      PROVE  UNCHANGED shown
    BY <1>5 DEF CallStep, TakeLifecycle, SendSucceeds, SendFails, DropCall, Claim
<1>6. ASSUME NEW t \in Turns, WatchdogChecks(t) \/ WatchdogStep(t) PROVE UNCHANGED shown
    BY <1>6 DEF WatchdogChecks, WatchdogStep, WatchdogCancels, WatchdogUnsaved
<1> QED
    BY <1>1, <1>2, <1>3, <1>4, <1>5, <1>6 DEF Next

\* A request waits until one of these retires it.
LEMMA PendingKept ==
    ASSUME IInv, [Next]_vars, NEW q \in pending
    PROVE  \/ \E p \in pending' : IdOf(p) = IdOf(q)
           \/ HandleResolved \/ HandleCompleted \/ HandleClosed \/ FinishShutdown
           \/ \E r \in Calls : SendSucceeds(r)
           \/ \E t \in Turns : WatchdogCancels(t)
<1>0. pending \subseteq PendingRecords
    BY DEF IInv, TypeOK, PendingRecords
<1>a. ASSUME NEW id, NEW claim \in BOOLEAN, SetClaim(id, claim)
      PROVE  \E p \in pending' : IdOf(p) = IdOf(q)
    BY <1>0, <1>a, ClaimsSet
<1> USE DEF engine
<1>1. CASE TransportStep \/ ServerStep
    BY <1>1 DEF TransportStep, TransportMoves, AnnounceLoss, ServerStep, BeginTurn, BeginChild, Ask,
       Complete, Resolve
<1>2. CASE RunStep \/ UNCHANGED vars
    BY <1>2 DEF RunStep, RunTakesTurn, RunPublishesTurn, RunGivesUp, vars
<1>3. CASE PumpStep /\ ~HandleResolved /\ ~HandleCompleted /\ ~HandleClosed
    BY <1>3 DEF PumpStep, PumpIgnores, HandleStarted, AdmitRequest, RefuseRequest,
       AcceptRequest, RequestUnsaved, CompleteTurn, TerminalDropped
<1>4. ASSUME NEW r \in Calls, SendFails(r) \/ \E a \in shown : Claim(r, a)
      PROVE  \E p \in pending' : IdOf(p) = IdOf(q)
    BY <1>4, <1>a DEF SendFails, RestoreClaim, Claim
<1>5. ASSUME NEW r \in Calls, TakeLifecycle(r) \/ DropCall(r) PROVE UNCHANGED pending
    BY <1>5 DEF TakeLifecycle, DropCall
<1>6. ASSUME NEW t \in Turns, WatchdogChecks(t) \/ WatchdogUnsaved(t) PROVE UNCHANGED pending
    BY <1>6 DEF WatchdogChecks, WatchdogUnsaved
<1> QED
    BY <1>1, <1>2, <1>3, <1>4, <1>5, <1>6 DEF Next, CallStep, WatchdogStep

\* What is over stays over.
LEMMA EndedStays ==
    ASSUME IInv, EventsInv, SessionInv, [Next]_vars,
           NEW t \in Turns, server[t].phase # "none", Ended(t)
    PROVE  Ended(t)'
<1>0. NoTurn \notin Turns /\ NoSession.turn = NoTurn /\ NoThreadTurn.turn = NoTurn
    BY ApprovalsAssumption DEF NoSession, NoThreadTurn
<1>1. ~StartQueued(t)'
    BY ProgressStep DEF Ended, Progresses
<1>2. ASSUME t \notin Children PROVE session'.turn # t
  <2>1. session.turn # t
    BY <1>2 DEF Ended
  <2>2. ASSUME NEW u \in Turns, BeginTurn(u) PROVE session'.turn # t
    BY <2>2 DEF BeginTurn
  <2> QED
    BY <1>0, <2>1, <2>2, SessionMoves
<1>3. ASSUME t \in Children PROVE activeThread'["child"].turn # t
  <2>1. activeThread["child"].turn # t
    BY <1>3 DEF Ended
  <2>2. ASSUME HandleStarted PROVE Head(events).turn # t
    <3>1. Head(events).kind = "started" /\ 1 \in DOMAIN events /\ Head(events) = events[1]
      BY <2>2, HeadTrue DEF HandleStarted
    <3> QED
      BY <3>1 DEF Ended, StartQueued
  <2> QED
    BY <1>0, <2>1, <2>2, ChildMoves
<1> QED
    BY <1>1, <1>2, <1>3 DEF Ended

\* What the user was shown still waits, unless its turn is over.
LEMMA ShownStep ==
    ASSUME IInv, GensInv, RequestsInv, EventsInv, SessionInv, HoldingInv, ShownInv, [Next]_vars
    PROVE  ShownInv'
<1>p. Progresses
    BY ProgressStep
<1>0. shown \subseteq asked /\ asked \subseteq Requests /\ NoTurn \notin Turns
    BY ApprovalsAssumption DEF IInv, TypeOK
<1>1. ASSUME NEW a \in shown, a \notin settled', a.gen = current'
      PROVE  (\E p \in pending' : IdOf(p) = IdOf(a)) \/ Ended(a.turn)'
  <2>1. a \notin settled /\ a \in asked /\ Began(a.gen, a.turn) /\ a.gen \in Generations
    BY <1>0, <1>1, <1>p DEF Progresses, RequestsInv, Requests
  <2>2. a.gen = current
    <3>1. a.gen \in Nat /\ a.gen <= spawned /\ a.gen # NoGeneration /\ spawned \in Nat
      BY <2>1, ApprovalsAssumption
      DEF Began, GensInv, Generations, NoGeneration, IInv, TypeOK, TransportTypeOK
    <3> QED
      BY <1>1, <3>1, CountersStep
  <2>3. a.turn \in Turns /\ server[a.turn].phase # "none" /\ server[a.turn].gen = a.gen
    BY <2>1 DEF Began
  <2>4. CASE Ended(a.turn)
    BY <2>3, <2>4, EndedStays
  <2>5. ASSUME NEW q \in pending, IdOf(q) = IdOf(a)
        PROVE  (\E p \in pending' : IdOf(p) = IdOf(a)) \/ Ended(a.turn)'
    <3>1. RequestOf(q) = a /\ q.gen = a.gen /\ q.turn = a.turn
      <4>1. RequestOf(q) \in asked /\ IdOf(RequestOf(q)) = IdOf(q)
        BY DEF RequestsInv, RequestOf, IdOf
      <4>2. RequestOf(q) = a
        BY <2>1, <2>5, <4>1 DEF RequestsInv
      <4> QED
        BY <4>2 DEF RequestOf
    <3>2. CASE \E p \in pending' : IdOf(p) = IdOf(q)
      BY <2>5, <3>2
    <3>3. CASE HandleResolved
      <4>1. /\ PumpReads("resolved")
            /\ pending' = {p \in pending : ~SameRequest(p, Head(events))}
        BY <3>3 DEF HandleResolved
      <4>2. \E b \in settled : IdOf(b) = IdOf(Head(events))
        BY <4>1, HeadTrue DEF EventTrue
      <4>3. IdOf(a) # IdOf(Head(events))
        BY <2>1, <4>2 DEF RequestsInv, IInv, TypeOK
      <4>4. q \in pending'
        BY <2>5, <4>1, <4>3 DEF SameRequest
      <4> QED
        BY <2>5, <4>4
    <3>4. CASE HandleCompleted
      <4>1. /\ PumpReads("completed")
            /\ pending' = pending \ RetiredWith(Head(events).gen, Head(events).turn)
        BY <3>4 DEF HandleCompleted
      <4>2. server[Head(events).turn].phase = "done"
        BY <4>1, HeadTrue DEF EventTrue
      <4>3. Head(events).turn # a.turn
        BY <2>1, <4>2 DEF RequestsInv
      <4>4. q \in pending'
        BY <3>1, <4>1, <4>3 DEF RetiredWith
      <4> QED
        BY <2>5, <4>4
    <3>5. CASE HandleClosed
      <4>1. PumpReads("closed") /\ pending' = {p \in pending : p.gen # Head(events).gen}
        BY <3>5 DEF HandleClosed
      <4>2. Head(events).gen # current
        BY <4>1, HeadTrue DEF GensInv
      <4>3. q \in pending'
        BY <2>2, <3>1, <4>1, <4>2
      <4> QED
        BY <2>5, <4>3
    <3>6. CASE FinishShutdown
      BY <2>1, <2>2, <3>6 DEF FinishShutdown, Generations, NoGeneration
    <3>7. ASSUME NEW r \in Calls, SendSucceeds(r) PROVE \E p \in pending' : IdOf(p) = IdOf(a)
      <4>1. /\ settled' = settled \cup {b \in asked : IdOf(b) = target[r]}
            /\ pending' = {p \in pending : ~(IdOf(p) = target[r] /\ p.claimed)}
        BY <3>7 DEF SendSucceeds, Respond, FinishClaim
      <4>2. IdOf(a) # target[r]
        BY <1>1, <2>1, <4>1
      <4>3. q \in pending'
        BY <2>5, <4>1, <4>2
      <4> QED
        BY <2>5, <4>3
    <3>8. ASSUME NEW t \in Turns, WatchdogCancels(t)
          PROVE  (\E p \in pending' : IdOf(p) = IdOf(a)) \/ Ended(a.turn)'
      <4>1. PICK h : h = server[t].gen
        OBVIOUS
      <4>2. /\ lifecycle = t
            /\ pending' = pending \ RetiredWith(h, t)
            /\ ReleaseTurn(h, t)
            /\ UNCHANGED events
        BY <3>8, <4>1 DEF WatchdogCancels, outside
      <4>3. CASE a.turn # t
        <5>1. q \in pending'
          BY <3>1, <4>2, <4>3 DEF RetiredWith
        <5> QED
          BY <2>5, <5>1
      <4>4. CASE a.turn = t
        <5>1. /\ ~StartQueued(t)
              /\ t \in Children \/ session.turn # t \/ NamedBySession(h, t)
          BY <4>1, <4>2 DEF HoldingInv
        <5>2. ~StartQueued(t)'
          BY <4>2, <5>1 DEF StartQueued
        <5>3. ASSUME t \notin Children PROVE session'.turn # t
          BY <1>0, <4>2, <5>1, <5>3 DEF ReleaseTurn, NoSession
        <5>4. ASSUME t \in Children PROVE activeThread'["child"].turn # t
          <6>1. activeThread \in [Threads -> ThreadRecords] /\ "child" \in Threads
            BY DEF IInv, TypeOK, ThreadRecords, Threads
          <6>2. CASE activeThread["child"].turn # t
            BY <1>0, <4>2, <5>4, <6>1, <6>2 DEF ReleaseTurn, ThreadOf, NoThreadTurn
          <6>3. CASE activeThread["child"].turn = t
            <7>1. activeThread["child"].gen = h
              BY <4>1, <6>3 DEF SessionInv, Began
            <7>2. activeThread["child"] = [gen |-> h, turn |-> t]
              BY <6>1, <6>3, <7>1 DEF ThreadRecords
            <7>3. activeThread'["child"] = NoThreadTurn
              BY <4>2, <5>4, <6>1, <7>2 DEF ReleaseTurn, ThreadOf
            <7> QED
              BY <1>0, <7>3 DEF NoThreadTurn
          <6> QED
            BY <6>2, <6>3
        <5> QED
          BY <4>4, <5>2, <5>3, <5>4 DEF Ended
      <4> QED
        BY <4>3, <4>4
    <3> QED
      BY <3>2, <3>3, <3>4, <3>5, <3>6, <3>7, <3>8, PendingKept
  <2> QED
    BY <1>1, <2>1, <2>2, <2>4, <2>5 DEF ShownInv
<1>2. ASSUME NEW a \in shown' \ settled', a.gen = current'
      PROVE  (\E p \in pending' : IdOf(p) = IdOf(a)) \/ Ended(a.turn)'
  <2>1. CASE a \in shown
    BY <1>1, <1>2, <2>1
  <2>2. CASE a \notin shown
    BY <2>2, ShownFrom
  <2> QED
    BY <2>1, <2>2
<1> QED
    BY <1>2 DEF ShownInv

\* The owners' invariant holds initially.
LEMMA InitOwners == Init => OwnersInv
<1> SUFFICES ASSUME Init PROVE OwnersInv
    OBVIOUS
<1> USE ApprovalsAssumption DEF Init, TransportInit
<1>0. /\ \A t \in Turns : server[t] = NotRunning
      /\ NotRunning.phase = "none" /\ NotRunning.gen = NoGeneration
      /\ DOMAIN events = {}
      /\ activeThread["child"].turn = NoTurn
      /\ Children \subseteq Turns
    BY DEF NotRunning, NoThreadTurn, Threads
<1>1. GensInv
    BY <1>0 DEF GensInv, Began, NoGeneration
<1>2. RequestsInv
    BY DEF RequestsInv
<1>3. EventsInv
    BY <1>0 DEF EventsInv, StartsOnce, ChildrenInOrder, EndsAfterRequests
<1>4. SessionInv
    BY <1>0 DEF SessionInv, NoSession, StartQueued
<1>5. HoldingInv
    BY DEF HoldingInv, NoEvent
<1>6. WaitInv
    BY DEF WaitInv, Waits, NoEvent
<1>7. ShownInv
    BY DEF ShownInv
<1> QED
    BY <1>1, <1>2, <1>3, <1>4, <1>5, <1>6, <1>7 DEF OwnersInv

\* Whatever waits for the user is owned, in every state the engine can be in.
THEOREM OwnersInvariance == Spec => []OwnersInv
<1>1. IInv /\ OwnersInv /\ [Next]_vars => OwnersInv'
    BY GensStep, EventsStep, RequestsStep, SessionStep, HoldingStep, WaitStep, ShownStep DEF OwnersInv
<1> QED
    BY InitOwners, Invariance, <1>1, PTL DEF Spec

\* No request of an ended turn is left to the user: complete_turn, both
\* watchdogs, a lost generation and shutdown retire what the turn asked, and none
\* is accepted while one of them is on its way (handle_server_request).
THEOREM PendingAlwaysOwned == Spec => []PendingIsOwned
<1>1. IInv /\ OwnersInv => PendingIsOwned
  <2> SUFFICES ASSUME IInv, OwnersInv, NEW p \in pending
               PROVE  \/ OwnerIsActive(p.gen, p.turn)
                      \/ p.gen # current
                      \/ StorageFails /\ p.turn \in Children /\ server[p.turn].phase = "done"
    BY DEF PendingIsOwned
  <2>1. p.gen \in Generations /\ p.turn \in Turns
    BY DEF IInv, TypeOK
  <2>2. Waits(p.gen, p.turn)
    BY DEF Waits
  <2> QED
    BY <2>1, <2>2 DEF OwnersInv, WaitInv, Owned
<1> QED
    BY Invariance, OwnersInvariance, <1>1, PTL

\* What the user was shown and the app-server waits for can be answered while
\* its turn is active, whatever other generations and turns did with its JSON-RPC
\* id (clear_resolved_request, retire_exact_turn_requests_locked).
THEOREM ShownAlwaysAnswerable == Spec => []ShownIsAnswerable
<1>1. IInv /\ OwnersInv => ShownIsAnswerable
  <2> SUFFICES ASSUME IInv, OwnersInv,
                      NEW a \in shown \ settled, a.gen = current, OwnerIsActive(a.gen, a.turn)
               PROVE  \E p \in pending : IdOf(p) = IdOf(a)
    BY DEF ShownIsAnswerable
  <2>1. CASE Ended(a.turn)
    <3>1. a.turn \in Children => activeThread["child"].turn = a.turn
      BY DEF OwnerIsActive, NamedByThread, ThreadOf
    <3>2. a.turn \notin Children => session.turn = a.turn
      BY DEF OwnerIsActive, NamedBySession
    <3> QED
      BY <2>1, <3>1, <3>2 DEF Ended
  <2> QED
    BY <2>1 DEF OwnersInv, ShownInv
<1> QED
    BY Invariance, OwnersInvariance, <1>1, PTL
=============================================================================
