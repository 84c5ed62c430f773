------------------------------ MODULE PhoneSyncProofs ------------------------------
(***************************************************************************)
(* PhoneSync is sound for every scenario: the desktop (types, pairing, the *)
(* hub, the list of sessions) and the phones (the native slot, the web     *)
(* session).  The invariants of the two sides are about different          *)
(* variables and are proved apart.                                         *)
(***************************************************************************)
EXTENDS PhoneSync, TLAPS

Servings ==
    [stage : HostStages, prologue : Nat, decision : {"none", "accept", "reject"},
     hello : BOOLEAN, torn : BOOLEAN, next : Nat,
     live : {"idle", "running", "ended"}, cmds : {"idle", "running", "creating", "ended"}]
Attempts ==
    [stage : ClientStages, placed : BOOLEAN, aborted : BOOLEAN,
     recv : {"idle", "running", "ended"}, send : {"idle", "running", "ended"},
     queue : Nat, previous : Conns \cup {NoConn}, overtaken : BOOLEAN]
Channels == [up : Seq(Frames), prologue : Nat, phone : Ends, host : Ends]
Gates == [nonce : Nat, lapsed : BOOLEAN, pending : SUBSET Conns]

\* The types that the steps need; TypeOK relates some of the variables besides.
HostTypes ==
    /\ host \in [Conns -> Servings]
    /\ gate \in Gates
    /\ trusted \subseteq Devices
    /\ confirms \in [Conns -> {"idle", "answered", "stored"}]
    /\ codes \in Nat /\ stored \in Nat /\ published \in Nat /\ sessions \in Nat
    /\ frames \in Seq(Nat)
    /\ creating \in Conns \cup {NoConn}
    /\ sent \in [Conns -> SUBSET Nat]
ClientTypes ==
    /\ client \in [Conns -> Attempts]
    /\ slot \in Conns \cup {NoConn}
    /\ current \in Conns \cup {NoConn}
    /\ given \in Nat
TypeInv ==
    /\ scenario \in Scenarios
    /\ link \in [Conns -> Channels]
    /\ HostTypes
    /\ ClientTypes

\* The links stay links whatever either side does.
LEMMA LinksStay ==
    ASSUME TypeInv, NEW c \in Conns, NEW frame \in Frames
    PROVE  /\ HostCloses(c) \in [Conns -> Channels]
           /\ PhoneCloses(c) \in [Conns -> Channels]
           /\ Up(c, frame) \in [Conns -> Channels]
<1> DEFINE L == [Conns -> Channels]
<1>1. link \in L /\ link[c] \in Channels
    BY DEF TypeInv
<1>2. Append(link[c].up, frame) \in Seq(Frames) /\ <<>> \in Seq(Frames)
    BY <1>1 DEF Channels
<1>3. HostCloses(c) \in L
    BY <1>1, <1>2 DEF HostCloses, Channels, Ends
<1>4. PhoneCloses(c) \in L
    BY <1>1 DEF PhoneCloses, Channels, Ends
<1>5. Up(c, frame) \in L
    BY <1>1, <1>2 DEF Up, Channels
<1> QED
    BY <1>3, <1>4, <1>5

\* Reading a frame leaves a link.
LEMMA ReadingStays ==
    ASSUME TypeInv, NEW c \in Conns, link[c].up # <<>>
    PROVE  [link EXCEPT ![c].up = Tail(@)] \in [Conns -> Channels]
<1>1. link \in [Conns -> Channels] /\ link[c] \in Channels
    BY DEF TypeInv
<1>2. Tail(link[c].up) \in Seq(Frames)
    BY <1>1 DEF Channels
<1> QED
    BY <1>1, <1>2 DEF Channels

\* The gate stays a gate.
LEMMA GatesStay ==
    ASSUME TypeInv, NEW nonce \in Nat
    PROVE  /\ WindowRead(gate) \in Gates
           /\ \A c \in Conns : /\ RegisterPending(WindowRead(gate), c) \in Gates
                              /\ WithoutPending(gate, c) \in Gates
           /\ CloseWindow(gate) \in Gates /\ Lapse(gate) \in Gates
           /\ OpenWindow(gate, nonce) \in Gates
           /\ ActiveNonce(gate) \in Nat
BY DEF TypeInv, HostTypes, Gates, WindowRead, RegisterPending, WithoutPending, CloseWindow, Lapse,
       OpenWindow, ActiveNonce, NoNonce

\* A message broadcast is a frame of the hub.
LEMMA HubStays ==
    ASSUME TypeInv, NEW frame \in Nat, Broadcast(frame)
    PROVE  frames' \in Seq(Nat)
BY DEF TypeInv, HostTypes, Broadcast

\* A connection that is over is one.
LEMMA OverStays ==
    ASSUME TypeInv, NEW c \in Conns, Drops(c)
    PROVE  /\ host' \in [Conns -> Servings]
           /\ link' \in [Conns -> Channels]
BY LinksStay DEF TypeInv, HostTypes, Drops, Over, Idle, Servings, HostStages, NoNonce, Frames

\* What the steps write into a connection's record.
LEMMA ServingMoves ==
    ASSUME NEW s \in Servings
    PROVE  /\ \A stage \in HostStages : [s EXCEPT !.stage = stage] \in Servings
           /\ \A stage \in HostStages, n \in Nat : [s EXCEPT !.stage = stage, !.prologue = n] \in Servings
           /\ \A stage \in HostStages, n \in Nat : [s EXCEPT !.stage = stage, !.next = n] \in Servings
           /\ \A stage \in HostStages, torn \in BOOLEAN : [s EXCEPT !.stage = stage, !.torn = torn] \in Servings
           /\ [s EXCEPT !.stage = "live", !.live = "running", !.cmds = "running"] \in Servings
           /\ [s EXCEPT !.hello = TRUE] \in Servings
           /\ \A n \in Nat : [s EXCEPT !.next = n] \in Servings
           /\ \A d \in {"none", "accept", "reject"} : [s EXCEPT !.decision = d] \in Servings
           /\ [s EXCEPT !.live = "ended"] \in Servings
           /\ \A cmds \in {"idle", "running", "creating", "ended"} : [s EXCEPT !.cmds = cmds] \in Servings
<1>1. \A stage \in HostStages : [s EXCEPT !.stage = stage] \in Servings
    BY DEF Servings
<1>2. \A stage \in HostStages, n \in Nat : [s EXCEPT !.stage = stage, !.prologue = n] \in Servings
    BY DEF Servings
<1>3. \A stage \in HostStages, n \in Nat : [s EXCEPT !.stage = stage, !.next = n] \in Servings
    BY DEF Servings
<1>4. \A stage \in HostStages, torn \in BOOLEAN : [s EXCEPT !.stage = stage, !.torn = torn] \in Servings
    BY DEF Servings
<1>5. [s EXCEPT !.stage = "live", !.live = "running", !.cmds = "running"] \in Servings
    BY DEF Servings, HostStages
<1>6. [s EXCEPT !.hello = TRUE] \in Servings
    BY DEF Servings
<1>7. \A n \in Nat : [s EXCEPT !.next = n] \in Servings
    BY DEF Servings
<1>8. \A d \in {"none", "accept", "reject"} : [s EXCEPT !.decision = d] \in Servings
    BY DEF Servings
<1>9. [s EXCEPT !.live = "ended"] \in Servings
    BY DEF Servings
<1>10. \A cmds \in {"idle", "running", "creating", "ended"} : [s EXCEPT !.cmds = cmds] \in Servings
    BY DEF Servings
<1> QED
    BY <1>1, <1>2, <1>3, <1>4, <1>5, <1>6, <1>7, <1>8, <1>9, <1>10, Zenon

\* The same among the other connections.
LEMMA ServingsStay ==
    ASSUME NEW c \in Conns, host \in [Conns -> Servings]
    PROVE  LET S == [Conns -> Servings]
           IN  /\ \A stage \in HostStages : [host EXCEPT ![c].stage = stage] \in S
               /\ \A stage \in HostStages, n \in Nat : [host EXCEPT ![c].stage = stage, ![c].prologue = n] \in S
               /\ \A stage \in HostStages, n \in Nat : [host EXCEPT ![c].stage = stage, ![c].next = n] \in S
               /\ \A stage \in HostStages, torn \in BOOLEAN : [host EXCEPT ![c].stage = stage, ![c].torn = torn] \in S
               /\ [host EXCEPT ![c].stage = "live", ![c].live = "running", ![c].cmds = "running"] \in S
               /\ [host EXCEPT ![c].hello = TRUE] \in S
               /\ \A n \in Nat : [host EXCEPT ![c].next = n] \in S
               /\ \A d \in {"none", "accept", "reject"} : [host EXCEPT ![c].decision = d] \in S
               /\ [host EXCEPT ![c].live = "ended"] \in S
               /\ \A cmds \in {"idle", "running", "creating", "ended"} : [host EXCEPT ![c].cmds = cmds] \in S
<1>1. host[c] \in Servings
    OBVIOUS
<1>2. \A s \in Servings : [host EXCEPT ![c] = s] \in [Conns -> Servings]
    OBVIOUS
<1> QED
    BY <1>1, <1>2, ServingMoves, Zenon

\* Every step of a connection's server keeps the types.
LEMMA ServeTypes ==
    ASSUME TypeInv, NEW c \in Conns, UNCHANGED clientVars,
           ServeStep(c) \/ DecisionTimesOut(c)
    PROVE  TypeInv'
<1> USE DEF pairing, hub, catalogue, clientVars
<1> DEFINE S == [Conns -> Servings]
           L == [Conns -> Channels]
<1>0. /\ host \in S /\ link \in L /\ gate \in Gates
      /\ host[c] \in Servings
      /\ link[c] \in Channels
      /\ DeviceOf(c) \in Devices
      /\ Len(frames) \in Nat /\ stored \in Nat
      /\ sent \in [Conns -> SUBSET Nat]
    BY ScenariosAssumption DEF DeviceOf, TypeInv, HostTypes
<1>a. Drops(c) => host' \in S /\ link' \in L
    BY OverStays
<1>b. \A stage \in HostStages :
          /\ [host EXCEPT ![c].stage = stage] \in S
          /\ \A n \in Nat : /\ [host EXCEPT ![c].stage = stage, ![c].prologue = n] \in S
                            /\ [host EXCEPT ![c].stage = stage, ![c].next = n] \in S
          /\ \A torn \in BOOLEAN : [host EXCEPT ![c].stage = stage, ![c].torn = torn] \in S
    BY <1>0, ServingsStay, ZenonT(30)
<1>c. {"handshake", "paired", "asked", "admitted", "subscribed", "caughtup"} \subseteq HostStages
    BY DEF HostStages
<1>d. WindowRead(gate) \in Gates /\ RegisterPending(WindowRead(gate), c) \in Gates
      /\ Forgotten(c) \in Gates /\ ActiveNonce(gate) \in Nat
    BY GatesStay DEF Forgotten
<1>e. link[c].up # <<>> => [link EXCEPT ![c].up = Tail(@)] \in L
    BY ReadingStays
<1>f. /\ [host EXCEPT ![c].stage = "live", ![c].live = "running", ![c].cmds = "running"] \in S
      /\ \A n \in Nat : [host EXCEPT ![c].next = n] \in S
      /\ [host EXCEPT ![c].live = "ended"] \in S
      /\ \A cmds \in {"idle", "running", "creating", "ended"} : [host EXCEPT ![c].cmds = cmds] \in S
    BY <1>0, ServingsStay, Zenon
<1> HIDE DEF S, L
<1>1. CASE Accept(c)
  <2>1. host' \in S
    BY <1>b, <1>c, <1>d, <1>1 DEF Accept
  <2> QED
    BY <1>1, <2>1, <1>d DEF Accept, TypeInv, HostTypes, ClientTypes, S
<1>2. CASE Handshake(c)
  <2>1. host' \in S
    BY <1>a, <1>b, <1>c, <1>2 DEF Handshake, Moves
  <2>2. [link EXCEPT ![c].phone = "open", ![c].host = "open"] \in L
    BY <1>0 DEF L, Channels, Ends
  <2>3. link' \in L
    BY <1>a, <1>2, <2>2 DEF Handshake
  <2> QED
    BY <1>2, <2>1, <2>3 DEF Handshake, TypeInv, HostTypes, ClientTypes, S, L
<1>3. CASE Decide(c)
  <2>0. /\ \/ UNCHANGED link /\ host' = [host EXCEPT ![c].stage = "admitted"] /\ gate' = WindowRead(gate)
           \/ UNCHANGED link /\ host' = [host EXCEPT ![c].stage = "asked"]
              /\ gate' = RegisterPending(WindowRead(gate), c)
           \/ Drops(c) /\ gate' = WindowRead(gate)
        /\ trusted' = trusted
        /\ UNCHANGED <<scenario, confirms, codes, hub, catalogue, sent>>
    BY <1>3 DEF Decide, ServeDecision, Moves
  <2>1. host' \in S /\ link' \in L /\ gate' \in Gates
    BY <1>0, <1>a, <1>b, <1>c, <1>d, <2>0
  <2> QED
    BY <2>0, <2>1 DEF TypeInv, HostTypes, ClientTypes, S, L
<1>4. CASE TakeDecision(c)
  <2>1. \A torn \in {FALSE, May("split") /\ link[c].up # <<>>} : torn \in BOOLEAN
    OBVIOUS
  <2>2. host' \in S
    BY <1>a, <1>b, <1>c, <1>4, <2>1 DEF TakeDecision
  <2>3. link' \in L
    BY <1>0, <1>a, <1>4 DEF TakeDecision
  <2> QED
    BY <1>4, <2>2, <2>3 DEF TakeDecision, TypeInv, HostTypes, ClientTypes, S, L
<1>5. CASE HearWhileAsked(c) \/ LoseWhileAsked(c) \/ DecisionTimesOut(c)
  <2>1. [host EXCEPT ![c].hello = TRUE] \in S
    BY <1>0, ServingsStay, Zenon DEF S
  <2>2. host' \in S /\ link' \in L /\ gate' \in Gates
    BY <1>0, <1>a, <1>d, <1>e, <1>5, <2>1 DEF HearWhileAsked, LoseWhileAsked, DecisionTimesOut
  <2> QED
    BY <1>5, <2>2, SMTT(30)
    DEF HearWhileAsked, LoseWhileAsked, DecisionTimesOut, TypeInv, HostTypes, ClientTypes, S, L
<1>6. CASE Subscribe(c)
  <2>1. host' \in S
    BY <1>0, <1>b, <1>c, <1>6 DEF Subscribe
  <2> QED
    BY <1>6, <2>1 DEF Subscribe, TypeInv, HostTypes, ClientTypes, S
<1>7. CASE CatchUp(c)
  <2>1. host' \in S
    BY <1>b, <1>c, <1>7 DEF CatchUp, Moves
  <2>2. link' \in L
    BY <1>0, <1>e, <1>7 DEF CatchUp
  <2>3. sent' \in [Conns -> SUBSET Nat]
    BY <1>0, <1>7 DEF CatchUp
  <2> QED
    BY <1>7, <2>1, <2>2, <2>3 DEF CatchUp, TypeInv, HostTypes, ClientTypes, S, L
<1>8. CASE CatchUpFails(c) \/ Disconnect(c)
    BY <1>8, <1>a DEF CatchUpFails, Disconnect, TypeInv, HostTypes, ClientTypes, S, L
<1>9. CASE GoLive(c) \/ IntakeEnds(c)
  <2>1. host' \in S
    BY <1>f, <1>9 DEF GoLive, IntakeEnds
  <2> QED
    BY <1>9, <2>1 DEF GoLive, IntakeEnds, TypeInv, HostTypes, ClientTypes, S
<1>10. CASE Forward(c)
  <2>1. Behind(c) > 0 => frames[host[c].next + 1] \in Nat /\ host[c].next + 1 \in Nat
    BY DEF Behind, Servings, TypeInv, HostTypes
  <2>2. host' \in S
    BY <1>f, <1>10, <2>1 DEF Forward
  <2>3. sent' \in [Conns -> SUBSET Nat]
    BY <1>0, <1>10, <2>1 DEF Forward
  <2> QED
    BY <1>10, <2>2, <2>3 DEF Forward, TypeInv, HostTypes, ClientTypes, S
<1>11. CASE CreateChecks(c) \/ CreateInserts(c)
  <2>1. host' \in S
    BY <1>0, <1>f, <1>11 DEF CreateChecks, CreateInserts
  <2>2. link' \in L
    BY <1>0, <1>e, <1>11 DEF CreateChecks, CreateInserts
  <2>3. frames' \in Seq(Nat)
    BY <1>11, HubStays DEF CreateChecks, CreateInserts, SessionFrame, TypeInv, HostTypes
  <2> QED
    BY <1>11, <2>1, <2>2, <2>3 DEF CreateChecks, CreateInserts, TypeInv, HostTypes, ClientTypes, S, L
<1> QED
    BY <1>1, <1>2, <1>3, <1>4, <1>5, <1>6, <1>7, <1>8, <1>9, <1>10, <1>11 DEF ServeStep

\* So does what the desktop's user and its engine do.
LEMMA DesktopTypes ==
    ASSUME TypeInv, UNCHANGED clientVars,
           \/ \E c \in Conns : ConfirmStep(c) \/ ConfirmPairing(c) \/ RejectPairing(c)
           \/ \E d \in Devices : Unpair(d)
           \/ ShowCode \/ WindowLapses \/ Store \/ Publish
    PROVE  TypeInv'
<1> USE DEF pairing, hub, catalogue, clientVars, TypeInv, HostTypes, ClientTypes
<1>1. ASSUME NEW c \in Conns, ConfirmStep(c) PROVE TypeInv'
  <2>1. DeviceOf(c) \in Devices
    BY ScenariosAssumption DEF DeviceOf
  <2> QED
    BY <1>1, <2>1, GatesStay DEF ConfirmStep, ConfirmStores, ConfirmUnsaved, ConfirmCloses
<1>2. ASSUME NEW c \in Conns, ConfirmPairing(c) \/ RejectPairing(c) PROVE TypeInv'
  <2>1. \A d \in {"accept", "reject"} : [host EXCEPT ![c].decision = d] \in [Conns -> Servings]
    BY ServingsStay, Zenon
  <2>2. host' \in [Conns -> Servings]
    BY <1>2, <2>1 DEF ConfirmPairing, RejectPairing
  <2> QED
    BY <1>2, <2>2, GatesStay, SMTT(30) DEF ConfirmPairing, RejectPairing
<1>3. CASE \/ \E d \in Devices : Unpair(d)
           \/ ShowCode \/ WindowLapses \/ Store
    BY <1>3, GatesStay DEF Unpair, ShowCode, WindowLapses, Store
<1>4. CASE Publish
  <2>1. frames' \in Seq(Nat)
    BY <1>4, HubStays, SMTT(30) DEF Publish
  <2> QED
    BY <1>4, <2>1 DEF Publish
<1> QED
    BY <1>1, <1>2, <1>3, <1>4

\* What the steps write into a phone's attempt.
LEMMA AttemptMoves ==
    ASSUME NEW s \in Attempts
    PROVE  /\ \A stage \in ClientStages : [s EXCEPT !.stage = stage] \in Attempts
           /\ \A stage \in ClientStages, d \in Conns \cup {NoConn} :
                 [s EXCEPT !.stage = stage, !.previous = d] \in Attempts
           /\ [s EXCEPT !.stage = "running", !.recv = "running", !.send = "running"] \in Attempts
           /\ [s EXCEPT !.stage = "done", !.recv = "idle", !.send = "idle", !.queue = 0,
                        !.aborted = FALSE] \in Attempts
           /\ [s EXCEPT !.placed = TRUE] \in Attempts
           /\ [s EXCEPT !.aborted = TRUE] \in Attempts
           /\ [s EXCEPT !.overtaken = TRUE] \in Attempts
           /\ [s EXCEPT !.previous = NoConn] \in Attempts
           /\ [s EXCEPT !.recv = "ended"] \in Attempts
           /\ [s EXCEPT !.send = "ended"] \in Attempts
           /\ \A n \in Nat, send \in {"running", "ended"} :
                 [s EXCEPT !.queue = n, !.send = send] \in Attempts
           /\ \A n \in Nat : [s EXCEPT !.queue = n] \in Attempts
<1>1. \A stage \in ClientStages : [s EXCEPT !.stage = stage] \in Attempts
    BY DEF Attempts
<1>2. \A stage \in ClientStages, d \in Conns \cup {NoConn} :
         [s EXCEPT !.stage = stage, !.previous = d] \in Attempts
    BY DEF Attempts
<1>3. [s EXCEPT !.stage = "running", !.recv = "running", !.send = "running"] \in Attempts
    BY DEF Attempts, ClientStages
<1>4. [s EXCEPT !.stage = "done", !.recv = "idle", !.send = "idle", !.queue = 0,
                !.aborted = FALSE] \in Attempts
    BY DEF Attempts, ClientStages
<1>5. [s EXCEPT !.placed = TRUE] \in Attempts
    BY DEF Attempts
<1>6. [s EXCEPT !.aborted = TRUE] \in Attempts
    BY DEF Attempts
<1>7. [s EXCEPT !.overtaken = TRUE] \in Attempts
    BY DEF Attempts
<1>8. [s EXCEPT !.previous = NoConn] \in Attempts
    BY DEF Attempts
<1>9. [s EXCEPT !.recv = "ended"] \in Attempts
    BY DEF Attempts
<1>10. [s EXCEPT !.send = "ended"] \in Attempts
    BY DEF Attempts
<1>11. \A n \in Nat, send \in {"running", "ended"} : [s EXCEPT !.queue = n, !.send = send] \in Attempts
    BY Zenon DEF Attempts
<1>12. \A n \in Nat : [s EXCEPT !.queue = n] \in Attempts
    BY DEF Attempts
<1> QED
    BY <1>1, <1>2, <1>3, <1>4, <1>5, <1>6, <1>7, <1>8, <1>9, <1>10, <1>11, <1>12, Zenon

\* Every step of the phones keeps the types.
LEMMA PhoneTypes ==
    ASSUME TypeInv, PhoneStep
    PROVE  TypeInv'
<1> USE DEF hostVars, pairing, hub, catalogue
<1> DEFINE A == [Conns -> Attempts]
           L == [Conns -> Channels]
<1>0. /\ client \in A /\ link \in L
      /\ \A c \in Conns : client[c] \in Attempts /\ link[c] \in Channels
      /\ slot \in Conns \cup {NoConn} /\ current \in Conns \cup {NoConn}
      /\ given \in Nat
    BY DEF TypeInv, ClientTypes
<1>a. \A c \in Conns, s \in Attempts : [client EXCEPT ![c] = s] \in A
    BY <1>0
<1>b. \A c \in Conns :
          /\ PhoneCloses(c) \in L
          /\ Up(c, "Hello") \in L /\ Up(c, "Command") \in L /\ Up(c, "PairingReject") \in L
    BY LinksStay DEF Frames
<1>c. {"dialing", "gated", "running", "tail", "web", "done", "failed"} \subseteq ClientStages
    BY DEF ClientStages
<1>d. \A c \in Conns : Gone(c) \in Attempts
    BY <1>0, AttemptMoves, Zenon DEF Gone
<1>e. ASSUME client' \in A, link' \in L, slot' \in Conns \cup {NoConn}, current' \in Conns \cup {NoConn},
             given' \in Nat, UNCHANGED scenario
      PROVE  TypeInv'
    BY <1>e DEF TypeInv, HostTypes, ClientTypes, PhoneStep
<1> HIDE DEF A, L
<1>1. ASSUME NEW c \in Conns, NEW p \in Prologues(c), Dial(c, p) PROVE TypeInv'
  <2>1. p \in Nat
    BY DEF Prologues, NoNonce, TypeInv, HostTypes
  <2>2. link' \in L
    BY <1>0, <1>1, <2>1, ZenonT(30) DEF Dial, L, Channels, Ends
  <2>3. \A d \in Conns \cup {NoConn} :
           [client[c] EXCEPT !.stage = "dialing", !.previous = d] \in Attempts
    BY <1>0, <1>c, AttemptMoves, Zenon
  <2>4. \A d \in Conns \cup {NoConn} :
           [client EXCEPT ![c].stage = "dialing", ![c].previous = d] \in A
    BY <1>a, <2>3, Zenon
  <2>5. client' \in A
    BY <1>0, <1>1, <2>4 DEF Dial
  <2> QED
    BY <1>0, <1>1, <1>e, <2>2, <2>5 DEF Dial
<1>2. ASSUME NEW c \in Conns, TaskStep(c) PROVE TypeInv'
  <2>1. CASE DialFails(c)
    <3>1. [client[c] EXCEPT !.stage = "failed", !.previous = NoConn] \in Attempts
      BY <1>0, <1>c, AttemptMoves, Zenon
    <3>2. client' \in A /\ link' \in L
      BY <1>a, <1>b, <2>1, <3>1, ZenonT(30) DEF DialFails
    <3> QED
      BY <1>0, <1>e, <2>1, <3>2, SMTT(30) DEF DialFails
  <2>2. CASE Spawn(c) \/ Joins(c)
    <3>1. \A stage \in {"gated", "tail"} : [client[c] EXCEPT !.stage = stage] \in Attempts
      BY <1>0, <1>c, AttemptMoves, Zenon
    <3>2. client' \in A
      BY <1>a, <2>2, <3>1 DEF Spawn, Joins, Goes
    <3> QED
      BY <1>0, <1>e, <2>2, <3>2 DEF Spawn, Joins
  <2>3. CASE Install(c)
    <3>1. \A d \in Conns : /\ [client[d] EXCEPT !.placed = TRUE] \in Attempts
                           /\ [client[d] EXCEPT !.aborted = TRUE] \in Attempts
      BY <1>0, AttemptMoves, Zenon
    <3>2. client' \in A
      BY <1>0, <2>3, <3>1, Zenon DEF Install, A
    <3> QED
      BY <1>0, <1>e, <2>3, <3>2 DEF Install
  <2>4. CASE Release(c) \/ RecvEnds(c) \/ SendDrained(c)
    <3>1. /\ [client[c] EXCEPT !.stage = "running", !.recv = "running", !.send = "running"] \in Attempts
          /\ [client[c] EXCEPT !.recv = "ended"] \in Attempts
          /\ [client[c] EXCEPT !.send = "ended"] \in Attempts
      BY <1>0, AttemptMoves, Zenon
    <3>2. [client EXCEPT ![c].stage = "running", ![c].recv = "running", ![c].send = "running"] \in A
      BY <1>0, <3>1 DEF A
    <3>3. [client EXCEPT ![c].recv = "ended"] \in A /\ [client EXCEPT ![c].send = "ended"] \in A
      BY <1>a, <3>1
    <3>4. client' \in A
      BY <2>4, <3>2, <3>3 DEF Release, RecvEnds, SendDrained
    <3> QED
      BY <1>0, <1>e, <2>4, <3>4 DEF Release, RecvEnds, SendDrained
  <2>5. CASE SendNext(c)
    <3>1. client[c].queue - 1 \in Nat
      BY <1>0, <2>5, SMTT(30) DEF SendNext, Attempts
    <3>2. [client[c] EXCEPT !.queue = client[c].queue - 1, !.send = AfterSend(c)] \in Attempts
      BY <1>0, <3>1, AttemptMoves, Zenon DEF AfterSend
    <3>3. client' \in A /\ link' \in L
      BY <1>a, <1>b, <2>5, <3>2, ZenonT(30) DEF SendNext
    <3> QED
      BY <1>0, <1>e, <2>5, <3>3 DEF SendNext
  <2>6. CASE ClearsSlot(c) \/ TaskStops(c)
    <3>1. client' \in A /\ link' \in L
      BY <1>a, <1>b, <1>d, <2>6 DEF ClearsSlot, TaskStops, Finishes
    <3> QED
      BY <1>0, <1>e, <2>6, <3>1 DEF ClearsSlot, TaskStops
  <2>7. CASE WebConnects(c)
    <3>1. \A d \in Conns : /\ [client[d] EXCEPT !.stage = "web"] \in Attempts
                           /\ [client[d] EXCEPT !.overtaken = TRUE] \in Attempts
      BY <1>0, <1>c, AttemptMoves, Zenon
    <3>2. client' \in A /\ link' \in L
      BY <1>0, <1>b, <2>7, <3>1, Zenon DEF WebConnects, A
    <3> QED
      BY <1>0, <1>e, <2>7, <3>2 DEF WebConnects
  <2>8. CASE WebReplaces(c)
    <3>1. \A d \in Conns : /\ [client[d] EXCEPT !.previous = NoConn] \in Attempts
                           /\ [client[d] EXCEPT !.stage = "done"] \in Attempts
      BY <1>0, <1>c, AttemptMoves, Zenon
    <3>2. client[c].previous \in Conns
      BY <1>0, <2>8 DEF WebReplaces, Attempts
    <3>3. client' \in A /\ link' \in L
      BY <1>0, <1>b, <2>8, <3>1, <3>2, Zenon DEF WebReplaces, Replaced, A
    <3> QED
      BY <1>0, <1>e, <2>8, <3>3 DEF WebReplaces
  <2> QED
    BY <1>2, <2>1, <2>2, <2>3, <2>4, <2>5, <2>6, <2>7, <2>8 DEF TaskStep
<1>3. ASSUME PhoneUserStep PROVE TypeInv'
  <2>1. CASE SendCommand \/ DisconnectPhone
    <3>0. slot \in Conns
      BY <1>0, <2>1 DEF SendCommand, DisconnectPhone
    <3>1. client[slot].queue + 1 \in Nat
      BY <1>0, <3>0 DEF Attempts
    <3>2. /\ [client[slot] EXCEPT !.queue = client[slot].queue + 1] \in Attempts
          /\ [client[slot] EXCEPT !.aborted = TRUE] \in Attempts
      BY <1>0, <3>0, <3>1, AttemptMoves, Zenon
    <3>3. client' \in A
      BY <1>a, <2>1, <3>0, <3>2, Zenon DEF SendCommand, DisconnectPhone
    <3> QED
      BY <1>0, <1>e, <2>1, <3>3 DEF SendCommand, DisconnectPhone
  <2>2. CASE WebCommand
    <3>1. link' \in L
      BY <1>0, <1>b, <2>2 DEF WebCommand
    <3> QED
      BY <1>0, <1>e, <2>2, <3>1 DEF WebCommand
  <2>3. CASE WebRejects \/ WebDisconnects
    <3>0. current \in Conns
      BY <1>0, <2>3 DEF WebRejects, WebDisconnects
    <3>1. [client[current] EXCEPT !.stage = "done"] \in Attempts
      BY <1>0, <1>c, <3>0, AttemptMoves, Zenon
    <3>2. client' \in A
      BY <1>0, <1>a, <2>3, <3>0, <3>1 DEF WebRejects, WebDisconnects, Goes
    <3>3. \A l \in L : [l EXCEPT ![current].phone = "closed"] \in L
      BY <3>0 DEF L, Channels, Ends
    <3>4. link' \in L
      BY <1>0, <1>b, <2>3, <3>0, <3>3 DEF WebRejects, WebDisconnects
    <3> QED
      BY <1>0, <1>e, <2>3, <3>2, <3>4 DEF WebRejects, WebDisconnects
  <2> QED
    BY <1>3, <2>1, <2>2, <2>3 DEF PhoneUserStep
<1> QED
    BY <1>1, <1>2, <1>3 DEF PhoneStep

-----------------------------------------------------------------------------
(* Whom the desktop serves *)

\* Before the prompt nothing was decided, a key is about to be kept only for who was
\* accepted, and the two live tasks run only when the connection is live.
StageInv ==
    \A c \in Conns :
        /\ host[c].stage \in {"none", "handshake", "paired"} => host[c].decision = "none"
        /\ confirms[c] # "idle" => host[c].decision = "accept"
        /\ host[c].stage # "live" => host[c].live = "idle" /\ host[c].cmds = "idle"
PairInv == StageInv /\ ServedIsAccepted /\ PendingIsAwaited

\* Who is accepted stays accepted.
LEMMA AcceptedStays ==
    ASSUME UNCHANGED scenario, \A c \in Conns : host[c].decision = "accept" => host'[c].decision = "accept",
           NEW d, Accepted(d)
    PROVE  Accepted(d)'
BY DEF Accepted, DeviceOf

\* A step that touches one connection, no prompt and no key.
LEMMA PairKept ==
    ASSUME PairInv, NEW c \in Conns, UNCHANGED <<scenario, trusted, confirms>>,
           gate'.pending = gate.pending,
           \A d \in Conns \ {c} : host'[d] = host[d],
           host'[c].decision = host[c].decision,
           host'[c].stage # "asked", ~(In(c, "asked") /\ host[c].decision = "none"),
           host'[c].stage \in {"none", "handshake", "paired"} => host[c].decision = "none",
           IsServed(c)' => Accepted(DeviceOf(c)),
           host'[c].stage # "live" => host'[c].live = "idle" /\ host'[c].cmds = "idle"
    PROVE  PairInv'
<1>1. \A d \in Conns : host'[d].decision = host[d].decision
    OBVIOUS
<1>2. \A d : Accepted(d) => Accepted(d)'
    BY <1>1, AcceptedStays
<1>3. StageInv'
    BY DEF PairInv, StageInv
<1>4. ServedIsAccepted'
  <2>1. \A d \in trusted' : Accepted(d)'
    BY <1>2 DEF PairInv, ServedIsAccepted
  <2>2. ASSUME NEW d \in Conns, IsServed(d)' PROVE Accepted(DeviceOf(d))'
    <3>1. Accepted(DeviceOf(d))
      BY <2>2 DEF PairInv, ServedIsAccepted, IsServed
    <3>2. DeviceOf(d)' = DeviceOf(d)
      BY DEF DeviceOf
    <3> QED
      BY <1>2, <3>1, <3>2
  <2> QED
    BY <2>1, <2>2 DEF ServedIsAccepted
<1>5. PendingIsAwaited'
    BY DEF PairInv, PendingIsAwaited, In
<1> QED
    BY <1>3, <1>4, <1>5 DEF PairInv

\* The steps of a connection's server.
LEMMA ServePairs ==
    ASSUME TypeInv, PairInv, NEW c \in Conns, UNCHANGED clientVars,
           ServeStep(c) \/ DecisionTimesOut(c)
    PROVE  PairInv'
<1> USE DEF pairing, hub, catalogue
<1>0. /\ host \in [Conns -> Servings]
      /\ host[c] \in Servings
    BY DEF TypeInv, HostTypes
<1>a. /\ \A d \in Conns \ {c} : [host EXCEPT ![c] = Over(c)][d] = host[d]
      /\ [host EXCEPT ![c] = Over(c)][c] = Over(c)
      /\ Over(c).stage = "done" /\ Over(c).live = "idle" /\ Over(c).cmds = "idle"
      /\ Over(c).decision = host[c].decision
    BY <1>0 DEF Over, Idle
<1>b. ASSUME Drops(c)
      PROVE  /\ \A d \in Conns \ {c} : host'[d] = host[d]
             /\ host'[c].stage = "done" /\ host'[c].live = "idle" /\ host'[c].cmds = "idle"
             /\ host'[c].decision = host[c].decision
    BY <1>a, <1>b DEF Drops
<1>c. /\ WindowRead(gate).pending = gate.pending
      /\ RegisterPending(WindowRead(gate), c).pending = gate.pending \cup {c}
      /\ Forgotten(c).pending = gate.pending \ {c}
    BY DEF WindowRead, CloseWindow, RegisterPending, Forgotten, WithoutPending, TypeInv, HostTypes, Gates
<1>d. ASSUME NEW stage, Moves(c, stage)
      PROVE  /\ \A d \in Conns \ {c} : host'[d] = host[d]
             /\ host'[c].stage = stage /\ host'[c].live = host[c].live /\ host'[c].cmds = host[c].cmds
             /\ host'[c].decision = host[c].decision
    BY <1>0, <1>d DEF Moves, Servings
\* A step of a connection that is not asked before or after.
<1>e. ASSUME UNCHANGED <<scenario, trusted, confirms>>, gate'.pending = gate.pending,
             \A d \in Conns \ {c} : host'[d] = host[d],
             host'[c].decision = host[c].decision,
             ~In(c, "asked") \/ host[c].decision # "none",
             host'[c].stage # "asked",
             host'[c].stage \in {"none", "handshake", "paired"} => host[c].decision = "none",
             IsServed(c)' => Accepted(DeviceOf(c)),
             host'[c].stage # "live" => host'[c].live = "idle" /\ host'[c].cmds = "idle"
      PROVE  PairInv'
    BY <1>e, PairKept
<1>1. CASE Accept(c)
  <2>1. /\ \A d \in Conns \ {c} : host'[d] = host[d]
        /\ host'[c].stage = "handshake" /\ host'[c].live = host[c].live /\ host'[c].cmds = host[c].cmds
        /\ host'[c].decision = host[c].decision
    BY <1>0, <1>1 DEF Accept, Servings
  <2> QED
    BY <1>1, <1>c, <1>e, <2>1 DEF Accept, PairInv, StageInv, IsServed, In
<1>2. CASE Handshake(c)
  <2>1. CASE Moves(c, "paired")
    BY <1>2, <1>d, <1>e, <2>1 DEF Handshake, PairInv, StageInv, IsServed, In
  <2>2. CASE Drops(c)
    BY <1>2, <1>b, <1>e, <2>2 DEF Handshake, PairInv, StageInv, IsServed, In
  <2> QED
    BY <1>2, <2>1, <2>2 DEF Handshake
<1>3. CASE Decide(c)
  <2>0. /\ In(c, "paired") /\ UNCHANGED <<scenario, trusted, confirms>>
        /\ \/ DeviceOf(c) \in trusted /\ Moves(c, "admitted") /\ gate' = WindowRead(gate)
           \/ Moves(c, "asked") /\ gate' = RegisterPending(WindowRead(gate), c)
           \/ Drops(c) /\ gate' = WindowRead(gate)
    BY <1>3 DEF Decide, ServeDecision
  <2>1. CASE DeviceOf(c) \in trusted /\ Moves(c, "admitted") /\ gate' = WindowRead(gate)
    <3>1. Accepted(DeviceOf(c))
      BY <2>1 DEF PairInv, ServedIsAccepted
    <3> QED
      BY <1>c, <1>d, <1>e, <2>0, <2>1, <3>1 DEF PairInv, StageInv, In
  <2>2. CASE Drops(c) /\ gate' = WindowRead(gate)
    BY <1>b, <1>c, <1>e, <2>0, <2>2 DEF PairInv, StageInv, IsServed, In
  <2>3. CASE Moves(c, "asked") /\ gate' = RegisterPending(WindowRead(gate), c)
    <3>1. /\ \A d \in Conns \ {c} : host'[d] = host[d]
          /\ host'[c].stage = "asked" /\ host'[c].live = host[c].live /\ host'[c].cmds = host[c].cmds
          /\ host'[c].decision = host[c].decision /\ host[c].decision = "none"
      BY <1>d, <2>0, <2>3 DEF PairInv, StageInv, In
    <3>2. StageInv'
      BY <2>0, <3>1 DEF PairInv, StageInv, In
    <3>3. PendingIsAwaited'
      BY <1>c, <2>3, <3>1 DEF PairInv, PendingIsAwaited, In
    <3>4. ServedIsAccepted'
      <4>1. \A d : Accepted(d) => Accepted(d)'
        BY <2>0, <3>1, AcceptedStays
      <4>2. \A d \in Conns : IsServed(d)' => IsServed(d) /\ DeviceOf(d)' = DeviceOf(d)
        BY <2>0, <3>1 DEF IsServed, DeviceOf
      <4> QED
        BY <2>0, <4>1, <4>2 DEF PairInv, ServedIsAccepted
    <3> QED
      BY <3>2, <3>3, <3>4 DEF PairInv
  <2> QED
    BY <2>0, <2>1, <2>2, <2>3
<1>4. CASE TakeDecision(c)
  <2>1. CASE host[c].decision = "accept"
    <3>1. /\ \A d \in Conns \ {c} : host'[d] = host[d]
          /\ host'[c].stage = "admitted" /\ host'[c].live = host[c].live /\ host'[c].cmds = host[c].cmds
          /\ host'[c].decision = host[c].decision
      BY <1>0, <1>4, <2>1 DEF TakeDecision, Servings
    <3>2. Accepted(DeviceOf(c))
      BY <2>1 DEF Accepted
    <3> QED
      BY <1>4, <1>e, <2>1, <3>1, <3>2 DEF TakeDecision, PairInv, StageInv, In
  <2>2. CASE Drops(c)
    BY <1>4, <1>b, <1>e, <2>2 DEF TakeDecision, PairInv, StageInv, IsServed, In
  <2> QED
    BY <1>4, <2>1, <2>2 DEF TakeDecision
<1>5. CASE HearWhileAsked(c) /\ Head(link[c].up) = "Hello"
  <2>0. host' = [host EXCEPT ![c].hello = TRUE]
    BY <1>5 DEF HearWhileAsked
  <2>1. \A d \in Conns : /\ host'[d].decision = host[d].decision /\ host'[d].stage = host[d].stage
                         /\ host'[d].live = host[d].live /\ host'[d].cmds = host[d].cmds
    BY <1>0, <2>0 DEF Servings
  <2>2. UNCHANGED <<scenario, gate, trusted, confirms>>
    BY <1>5 DEF HearWhileAsked
  <2>3. \A d : Accepted(d) => Accepted(d)'
    BY <2>1, <2>2, AcceptedStays
  <2>4. StageInv' /\ PendingIsAwaited'
    BY <2>1, <2>2 DEF PairInv, StageInv, PendingIsAwaited, In
  <2>5. ServedIsAccepted'
    BY <2>1, <2>2, <2>3 DEF PairInv, ServedIsAccepted, IsServed, DeviceOf
  <2> QED
    BY <2>4, <2>5 DEF PairInv
<1>6. CASE \/ HearWhileAsked(c) /\ Head(link[c].up) # "Hello"
           \/ LoseWhileAsked(c) \/ DecisionTimesOut(c)
  <2>1. /\ In(c, "asked") /\ Drops(c) /\ UNCHANGED <<scenario, trusted, confirms>>
        /\ gate' = Forgotten(c)
    BY <1>6 DEF HearWhileAsked, LoseWhileAsked, DecisionTimesOut
  <2>2. /\ \A d \in Conns \ {c} : host'[d] = host[d]
        /\ host'[c].stage = "done" /\ host'[c].live = "idle" /\ host'[c].cmds = "idle"
        /\ host'[c].decision = host[c].decision
    BY <1>b, <2>1
  <2>3. StageInv' /\ PendingIsAwaited'
    BY <1>c, <2>1, <2>2 DEF PairInv, StageInv, PendingIsAwaited, In
  <2>4. ServedIsAccepted'
    <3>1. \A d : Accepted(d) => Accepted(d)'
      BY <2>1, <2>2, AcceptedStays
    <3>2. \A d \in Conns : IsServed(d)' => IsServed(d) /\ DeviceOf(d)' = DeviceOf(d)
      BY <2>1, <2>2 DEF IsServed, DeviceOf
    <3> QED
      BY <2>1, <3>1, <3>2 DEF PairInv, ServedIsAccepted
  <2> QED
    BY <2>3, <2>4 DEF PairInv
\* From here on the connection is one that is served, before and, unless it is over, after.
<1>f. ASSUME IsServed(c), UNCHANGED <<scenario, gate, trusted, confirms>>,
             \A d \in Conns \ {c} : host'[d] = host[d],
             host'[c].decision = host[c].decision,
             host'[c].stage \in {"subscribed", "caughtup", "live", "done"},
             host'[c].stage # "live" => host'[c].live = "idle" /\ host'[c].cmds = "idle"
      PROVE  PairInv'
    BY <1>e, <1>f DEF IsServed, In, PairInv, ServedIsAccepted
<1>7. CASE Subscribe(c)
  <2>1. /\ \A d \in Conns \ {c} : host'[d] = host[d]
        /\ host'[c].stage = "subscribed" /\ host'[c].live = host[c].live /\ host'[c].cmds = host[c].cmds
        /\ host'[c].decision = host[c].decision
    BY <1>0, <1>7 DEF Subscribe, Servings
  <2> QED
    BY <1>f, <1>7, <2>1 DEF Subscribe, IsServed, In, PairInv, StageInv
<1>8. CASE CatchUp(c)
    BY <1>d, <1>f, <1>8 DEF CatchUp, IsServed, In, PairInv, StageInv
<1>9. CASE CatchUpFails(c) \/ Disconnect(c)
    BY <1>b, <1>f, <1>9 DEF CatchUpFails, Disconnect, IsServed, In
<1>10. CASE GoLive(c)
  <2>1. /\ \A d \in Conns \ {c} : host'[d] = host[d]
        /\ host'[c].stage = "live" /\ host'[c].decision = host[c].decision
    BY <1>0, <1>10 DEF GoLive, Servings
  <2> QED
    BY <1>f, <1>10, <2>1 DEF GoLive, IsServed, In
<1>11. CASE Forward(c) \/ CreateChecks(c) \/ CreateInserts(c) \/ IntakeEnds(c)
  <2>0. In(c, "live")
    BY <1>11 DEF Forward, CreateChecks, CreateInserts, IntakeEnds, In, PairInv, StageInv
  <2>1. /\ \A d \in Conns \ {c} : host'[d] = host[d]
        /\ host'[c].stage = host[c].stage /\ host'[c].decision = host[c].decision
    BY <1>0, <1>11 DEF Forward, CreateChecks, CreateInserts, IntakeEnds, Servings
  <2>2. UNCHANGED <<scenario, gate, trusted, confirms>>
    BY <1>11 DEF Forward, CreateChecks, CreateInserts, IntakeEnds
  <2> QED
    BY <1>f, <2>0, <2>1, <2>2 DEF IsServed, In
<1> QED
    BY <1>1, <1>2, <1>3, <1>4, <1>5, <1>6, <1>7, <1>8, <1>9, <1>10, <1>11 DEF ServeStep

\* What the desktop's user and its engine do.
LEMMA DesktopPairs ==
    ASSUME TypeInv, PairInv, UNCHANGED clientVars,
           \/ \E c \in Conns : ConfirmStep(c) \/ ConfirmPairing(c) \/ RejectPairing(c)
           \/ \E d \in Devices : Unpair(d)
           \/ ShowCode \/ WindowLapses \/ Store \/ Publish
    PROVE  PairInv'
<1> USE DEF pairing, hub, catalogue
<1>0. /\ host \in [Conns -> Servings] /\ gate \in Gates
      /\ confirms \in [Conns -> {"idle", "answered", "stored"}]
    BY DEF TypeInv, HostTypes
\* The servers stay where they are, and so do the prompts.
<1>a. ASSUME UNCHANGED <<scenario, host>>, gate'.pending = gate.pending,
             \A e \in Conns : confirms'[e] # "idle" => confirms[e] # "idle",
             \A e \in trusted' : e \in trusted \/ Accepted(e)
      PROVE  PairInv'
  <2>1. \A e : Accepted(e) => Accepted(e)'
    BY <1>a, AcceptedStays
  <2>2. StageInv' /\ PendingIsAwaited'
    BY <1>a DEF PairInv, StageInv, PendingIsAwaited, In
  <2>3. ServedIsAccepted'
    BY <1>a, <2>1 DEF PairInv, ServedIsAccepted, IsServed, DeviceOf
  <2> QED
    BY <2>2, <2>3 DEF PairInv
<1>1. ASSUME NEW c \in Conns, ConfirmStep(c) PROVE PairInv'
  <2>1. confirms[c] # "idle" => Accepted(DeviceOf(c))
    BY DEF PairInv, StageInv, Accepted
  <2>2. CloseWindow(gate).pending = gate.pending
    BY <1>0 DEF CloseWindow, Gates
  <2>3. /\ UNCHANGED <<scenario, host>> /\ gate'.pending = gate.pending
        /\ \A e \in Conns : confirms'[e] # "idle" => confirms[e] # "idle"
    BY <1>0, <1>1, <2>2 DEF ConfirmStep, ConfirmStores, ConfirmUnsaved, ConfirmCloses
  <2>4. \A e \in trusted' : e \in trusted \/ Accepted(e)
    BY <1>1, <2>1 DEF ConfirmStep, ConfirmStores, ConfirmUnsaved, ConfirmCloses
  <2> QED
    BY <1>a, <2>3, <2>4
<1>2. ASSUME NEW c \in Conns, ConfirmPairing(c) \/ RejectPairing(c) PROVE PairInv'
  <2>1. In(c, "asked") /\ host[c].decision = "none"
    BY <1>2 DEF ConfirmPairing, RejectPairing, PairInv, PendingIsAwaited
  <2>2. PICK decision \in {"accept", "reject"} : host' = [host EXCEPT ![c].decision = decision]
    BY <1>2 DEF ConfirmPairing, RejectPairing
  <2>3. /\ \A e \in Conns \ {c} : host'[e] = host[e]
        /\ host'[c].stage = host[c].stage /\ host'[c].live = host[c].live
        /\ host'[c].cmds = host[c].cmds /\ host'[c].decision = decision
    BY <1>0, <2>2 DEF Servings
  <2>4. /\ UNCHANGED <<scenario, trusted>> /\ gate'.pending = gate.pending \ {c}
        /\ \A e \in Conns \ {c} : confirms'[e] = confirms[e]
    BY <1>0, <1>2 DEF ConfirmPairing, RejectPairing, WithoutPending, Gates
  <2>5. confirms'[c] # "idle" => decision = "accept"
    <3>1. CASE ConfirmPairing(c)
      <4>1. host'[c].decision = "accept"
        BY <1>0, <3>1 DEF ConfirmPairing, Servings
      <4> QED
        BY <2>3, <4>1
    <3>2. CASE RejectPairing(c)
      BY <2>1, <3>2 DEF RejectPairing, PairInv, StageInv
    <3> QED
      BY <1>2, <3>1, <3>2
  <2>6. StageInv'
    BY <2>1, <2>3, <2>4, <2>5 DEF PairInv, StageInv, In
  <2>7. PendingIsAwaited'
    BY <2>3, <2>4 DEF PairInv, PendingIsAwaited, In
  <2>8. ServedIsAccepted'
    <3>1. \A e : Accepted(e) => Accepted(e)'
      BY <2>1, <2>3, <2>4, AcceptedStays
    <3> QED
      BY <2>3, <2>4, <3>1 DEF PairInv, ServedIsAccepted, IsServed, DeviceOf
  <2> QED
    BY <2>6, <2>7, <2>8 DEF PairInv
<1>3. CASE \/ \E d \in Devices : Unpair(d)
           \/ ShowCode \/ WindowLapses \/ Store \/ Publish
  <2>1. /\ UNCHANGED <<scenario, host, confirms>> /\ gate'.pending = gate.pending
        /\ trusted' \subseteq trusted
    BY <1>0, <1>3 DEF Unpair, ShowCode, WindowLapses, Store, Publish, OpenWindow, Lapse, Gates
  <2> QED
    BY <1>a, <2>1
<1> QED
    BY <1>1, <1>2, <1>3

-----------------------------------------------------------------------------
(* What a phone is sent *)

\* A connection whose receiver has to have everything from now on.
Follows(c) == In(c, "caughtup") \/ host[c].live = "running"

\* Everything published is stored, the hub has nothing else than that, and who follows
\* has each message or finds it ahead in the hub.
HubInv ==
    /\ published <= stored
    /\ \A i \in 1 .. Len(frames) : frames[i] = SessionFrame \/ frames[i] \in 1 .. published
    /\ \A c \in Conns :
        /\ host[c].next <= Len(frames)
        /\ sent[c] \subseteq 1 .. stored
        /\ Follows(c) => \A m \in 1 .. published :
                            m \in sent[c] \/ \E i \in host[c].next + 1 .. Len(frames) : frames[i] = m

\* What a step does to a connection that was caught up before, if it was.
StaysBehind(c) ==
    /\ host'[c].next <= Len(frames)
    /\ Follows(c)' => Follows(c) /\ host'[c].next = host[c].next

\* A step that neither publishes nor sends.
LEMMA HubKept ==
    ASSUME HubInv, UNCHANGED <<stored, published, frames, sent>>, \A c \in Conns : StaysBehind(c)
    PROVE  HubInv'
BY DEF HubInv, StaysBehind

\* A frame is broadcast to who receives; who follows does.
LEMMA HubGrows ==
    ASSUME TypeInv, HubInv, NEW frame \in Nat, Broadcast(frame), UNCHANGED <<stored, sent>>,
           \A c \in Conns : Follows(c)' => Follows(c),
           \A c \in Conns : host'[c].next = host[c].next,
           \/ frame = SessionFrame /\ published' = published
           \/ frame = published + 1 /\ published' = published + 1 /\ published' <= stored
    PROVE  HubInv'
<1> DEFINE n == Len(frames)
<1>0. /\ frames \in Seq(Nat) /\ published \in Nat /\ n \in Nat
      /\ \A c \in Conns : host[c].next \in Nat
    BY DEF TypeInv, HostTypes, Servings
<1>1. \/ Receivers = {} /\ frames' = frames
      \/ frames' = Append(frames, frame)
    BY DEF Broadcast
<1>2. \A c \in Conns : Follows(c) => c \in Receivers
    BY DEF Follows, Receivers, In
<1>3. /\ Len(frames') \in Nat /\ n <= Len(frames')
      /\ \A i \in 1 .. n : frames'[i] = frames[i]
      /\ \A i \in 1 .. Len(frames') : i \in 1 .. n \/ frames'[i] = frame
  <2>1. CASE frames' = frames
    BY <1>0, <2>1
  <2>2. CASE frames' = Append(frames, frame)
    <3>1. Len(frames') = n + 1 /\ frames'[n + 1] = frame
      BY <1>0, <2>2
    <3>2. \A i \in 1 .. n : frames'[i] = frames[i]
      BY <1>0, <2>2
    <3> QED
      BY <1>0, <3>1, <3>2
  <2> QED
    BY <1>1, <2>1, <2>2
<1>4. \A i \in 1 .. Len(frames') : frames'[i] = SessionFrame \/ frames'[i] \in 1 .. published'
    BY <1>0, <1>3 DEF HubInv
<1>5. ASSUME NEW c \in Conns, Follows(c)', NEW m \in 1 .. published'
      PROVE  m \in sent'[c] \/ \E i \in host'[c].next + 1 .. Len(frames') : frames'[i] = m
  <2>1. c \in Receivers /\ Follows(c) /\ frames' = Append(frames, frame)
    BY <1>1, <1>2, <1>5
  <2>2. CASE m \in 1 .. published
    <3>1. CASE m \in sent[c]
      BY <3>1
    <3>2. ASSUME NEW i \in host[c].next + 1 .. n, frames[i] = m
          PROVE  i \in host'[c].next + 1 .. Len(frames') /\ frames'[i] = m
      BY <1>0, <1>3, <3>2, SMTT(30)
    <3> QED
      BY <2>1, <2>2, <3>1, <3>2 DEF HubInv
  <2>3. CASE m = frame
    <3>1. n + 1 \in host'[c].next + 1 .. Len(frames') /\ frames'[n + 1] = m
      BY <1>0, <2>1, <2>3, SMTT(30) DEF HubInv
    <3> QED
      BY <3>1
  <2> QED
    BY <1>0, <2>2, <2>3
<1>6. \A c \in Conns : host'[c].next <= Len(frames') /\ sent'[c] \subseteq 1 .. stored'
    BY <1>0, <1>3 DEF HubInv
<1> QED
    BY <1>4, <1>5, <1>6 DEF HubInv

\* Catch-up sends what is stored, whatever was published on the way.
LEMMA HubCaughtUp ==
    ASSUME TypeInv, HubInv, NEW c \in Conns, CatchUp(c)
    PROVE  HubInv'
<1>1. /\ host \in [Conns -> Servings] /\ sent \in [Conns -> SUBSET Nat]
      /\ published \in Nat /\ stored \in Nat
    BY DEF TypeInv, HostTypes
<1>2. /\ UNCHANGED <<stored, published, frames>>
      /\ sent' = [sent EXCEPT ![c] = @ \cup 1 .. stored]
      /\ host' = [host EXCEPT ![c].stage = "caughtup"]
    BY DEF CatchUp, hub, Moves
<1>3. \A d \in Conns : host'[d].next = host[d].next /\ (d # c => host'[d] = host[d] /\ sent'[d] = sent[d])
    BY <1>1, <1>2 DEF Servings
<1>4. sent'[c] = sent[c] \cup 1 .. stored
    BY <1>1, <1>2
<1>5. 1 .. published \subseteq sent'[c] /\ sent'[c] \subseteq 1 .. stored
    BY <1>1, <1>4 DEF HubInv
<1> QED
    BY <1>2, <1>3, <1>5 DEF HubInv, Follows, In

\* A frame is forwarded to the phone it was ahead of.
LEMMA HubForwards ==
    ASSUME TypeInv, HubInv, NEW c \in Conns, Forward(c), In(c, "live")
    PROVE  HubInv'
<1> DEFINE n == host[c].next
           frame == frames[n + 1]
<1>1. /\ host \in [Conns -> Servings] /\ sent \in [Conns -> SUBSET Nat]
      /\ published \in Nat /\ stored \in Nat /\ frames \in Seq(Nat) /\ n \in Nat
    BY DEF TypeInv, HostTypes, Servings
<1>2. UNCHANGED <<stored, published, frames>> /\ n + 1 \in 1 .. Len(frames)
    BY <1>1 DEF Forward, hub, Behind
<1>3. CASE host' = [host EXCEPT ![c].live = "ended"] /\ UNCHANGED sent
  <2>1. \A d \in Conns : StaysBehind(d)
    BY <1>1, <1>3 DEF StaysBehind, Follows, In, HubInv, Servings
  <2> QED
    BY <1>2, <1>3, <2>1, HubKept
<1>4. CASE /\ host' = [host EXCEPT ![c].next = n + 1]
           /\ sent' = [sent EXCEPT ![c] = @ \cup ({frame} \ {SessionFrame})]
  <2>1. \A d \in Conns \ {c} : host'[d] = host[d] /\ sent'[d] = sent[d]
    BY <1>1, <1>4
  <2>2. host'[c].next = n + 1 /\ sent'[c] = sent[c] \cup ({frame} \ {SessionFrame})
    BY <1>1, <1>4 DEF Servings
  <2>3. Follows(c)
    BY DEF Follows, Forward
  <2>4. frame = SessionFrame \/ frame \in 1 .. stored
    BY <1>1, <1>2 DEF HubInv
  <2>5. ASSUME NEW m \in 1 .. published
        PROVE  m \in sent'[c] \/ \E i \in n + 2 .. Len(frames) : frames[i] = m
    <3>1. m # SessionFrame
      BY DEF SessionFrame
    <3>2. CASE m \in sent[c] \/ m = frame
      BY <2>2, <3>1, <3>2
    <3>3. ASSUME NEW i \in n + 1 .. Len(frames), frames[i] = m, i # n + 1
          PROVE  i \in n + 2 .. Len(frames)
      BY <1>1, <3>3
    <3> QED
      BY <2>3, <3>2, <3>3 DEF HubInv
  <2>6. host'[c].next <= Len(frames) /\ sent'[c] \subseteq 1 .. stored
    BY <1>1, <1>2, <2>2, <2>4 DEF HubInv
  <2>7. host'[c].next + 1 = n + 2
    BY <1>1, <2>2
  <2>8. \A d \in Conns \ {c} : Follows(d)' => Follows(d)
    BY <2>1 DEF Follows, In
  <2>9. \A d \in Conns :
          /\ host'[d].next <= Len(frames)
          /\ sent'[d] \subseteq 1 .. stored
          /\ Follows(d)' => \A m \in 1 .. published :
                            m \in sent'[d] \/ \E i \in host'[d].next + 1 .. Len(frames) : frames[i] = m
    <3>1. ASSUME NEW d \in Conns, d # c
          PROVE  /\ host'[d].next <= Len(frames)
                 /\ sent'[d] \subseteq 1 .. stored
                 /\ Follows(d)' => \A m \in 1 .. published :
                       m \in sent'[d] \/ \E i \in host'[d].next + 1 .. Len(frames) : frames[i] = m
      BY <2>1, <2>8, <3>1 DEF HubInv
    <3> QED
      BY <2>5, <2>6, <2>7, <3>1
  <2> QED
    BY <1>2, <2>9 DEF HubInv
<1> QED
    BY <1>3, <1>4 DEF Forward

\* Every step of the desktop.
LEMMA HubStep ==
    ASSUME TypeInv, PairInv, HubInv, HostStep
    PROVE  HubInv'
<1> USE DEF pairing, hub, catalogue
<1>0. /\ host \in [Conns -> Servings] /\ published \in Nat /\ stored \in Nat
      /\ sent \in [Conns -> SUBSET Nat]
      /\ Len(frames) \in Nat
    BY DEF TypeInv, HostTypes
<1>a. ASSUME UNCHANGED <<stored, published, frames, sent>>, NEW c \in Conns,
             \A d \in Conns \ {c} : host'[d] = host[d],
             host'[c].next <= Len(frames),
             Follows(c)' => Follows(c) /\ host'[c].next = host[c].next
      PROVE  HubInv'
  <2>1. \A d \in Conns : StaysBehind(d)
    BY <1>a DEF StaysBehind, Follows, In, HubInv
  <2> QED
    BY <1>a, <2>1, HubKept
<1>b. ASSUME NEW c \in Conns, Drops(c), UNCHANGED <<stored, published, frames, sent>> PROVE HubInv'
  <2>1. /\ \A d \in Conns \ {c} : host'[d] = host[d]
        /\ host'[c].next = 0 /\ ~Follows(c)'
    BY <1>0, <1>b DEF Drops, Over, Idle, Follows, In
  <2> QED
    BY <1>0, <1>a, <1>b, <2>1
<1>c. ASSUME UNCHANGED <<stored, published, frames, sent, host>> PROVE HubInv'
  <2>1. \A d \in Conns : StaysBehind(d)
    BY <1>c DEF StaysBehind, Follows, In, HubInv
  <2> QED
    BY <1>c, <2>1, HubKept
<1>1. ASSUME NEW c \in Conns, ServeStep(c) \/ DecisionTimesOut(c) PROVE HubInv'
  <2>0. host[c].next <= Len(frames)
    BY DEF HubInv
  <2>a. host[c].live = "running" => In(c, "live")
    BY DEF PairInv, StageInv, In
  <2>b. ASSUME NEW stage, stage \notin {"caughtup"}, Moves(c, stage),
               UNCHANGED <<stored, published, frames, sent>>
        PROVE  HubInv'
    <3>1. /\ \A d \in Conns \ {c} : host'[d] = host[d]
          /\ host'[c].next = host[c].next /\ host'[c].live = host[c].live /\ host'[c].stage = stage
      BY <1>0, <2>b DEF Moves, Servings
    <3> QED
      BY <1>a, <2>0, <2>b, <3>1 DEF Follows, In
  <2>1. CASE Accept(c)
    <3>1. /\ \A d \in Conns \ {c} : host'[d] = host[d]
          /\ host'[c].next = host[c].next /\ host'[c].live = host[c].live /\ host'[c].stage = "handshake"
      BY <1>0, <2>1 DEF Accept, Servings
    <3> QED
      BY <1>a, <2>0, <2>1, <3>1 DEF Accept, Follows, In
  <2>2. CASE Handshake(c) \/ Decide(c)
    <3>1. Moves(c, "paired") \/ Moves(c, "admitted") \/ Moves(c, "asked") \/ Drops(c)
      BY <2>2 DEF Handshake, Decide, ServeDecision
    <3> QED
      BY <1>b, <2>2, <2>b, <3>1 DEF Handshake, Decide
  <2>3. CASE TakeDecision(c)
    <3>1. CASE Drops(c)
      BY <1>b, <2>3, <3>1 DEF TakeDecision
    <3>2. CASE ~Drops(c)
      <4>1. /\ \A d \in Conns \ {c} : host'[d] = host[d]
            /\ host'[c].next = host[c].next /\ host'[c].live = host[c].live /\ host'[c].stage = "admitted"
        BY <1>0, <2>3, <3>2 DEF TakeDecision, Servings
      <4> QED
        BY <1>a, <2>0, <2>3, <4>1 DEF TakeDecision, Follows, In
    <3> QED
      BY <3>1, <3>2
  <2>4. CASE HearWhileAsked(c) \/ LoseWhileAsked(c) \/ DecisionTimesOut(c)
    <3>1. CASE host' = [host EXCEPT ![c].hello = TRUE]
      <4>1. /\ \A d \in Conns \ {c} : host'[d] = host[d]
            /\ host'[c].next = host[c].next /\ host'[c].live = host[c].live /\ host'[c].stage = host[c].stage
        BY <1>0, <3>1 DEF Servings
      <4> QED
        BY <1>a, <2>0, <2>4, <4>1 DEF HearWhileAsked, LoseWhileAsked, DecisionTimesOut, Follows, In
    <3> QED
      BY <1>b, <2>4, <3>1 DEF HearWhileAsked, LoseWhileAsked, DecisionTimesOut
  <2>5. CASE Subscribe(c)
    <3>1. /\ \A d \in Conns \ {c} : host'[d] = host[d]
          /\ host'[c].next = Len(frames) /\ host'[c].live = host[c].live /\ host'[c].stage = "subscribed"
      BY <1>0, <2>5 DEF Subscribe, Servings
    <3>2. ~Follows(c)'
      BY <2>5, <2>a, <3>1 DEF Subscribe, Follows, In
    <3> QED
      BY <1>0, <1>a, <2>5, <3>1, <3>2 DEF Subscribe
  <2>6. CASE CatchUp(c)
    BY <2>6, HubCaughtUp
  <2>7. CASE CatchUpFails(c) \/ Disconnect(c)
    BY <1>b, <2>7 DEF CatchUpFails, Disconnect
  <2>8. CASE GoLive(c)
    <3>1. /\ \A d \in Conns \ {c} : host'[d] = host[d]
          /\ host'[c].next = host[c].next
      BY <1>0, <2>8 DEF GoLive, Servings
    <3> QED
      BY <1>a, <2>0, <2>8, <3>1 DEF GoLive, Follows, In
  <2>9. CASE Forward(c)
    BY <2>9, <2>a, HubForwards DEF Forward
  <2>10. CASE CreateChecks(c) \/ CreateInserts(c) \/ IntakeEnds(c)
    <3>1. \A d \in Conns : /\ host'[d].next = host[d].next /\ host'[d].live = host[d].live
                           /\ host'[d].stage = host[d].stage
      <4>1. CASE \E cmds : host' = [host EXCEPT ![c].cmds = cmds]
        BY <1>0, <4>1 DEF Servings
      <4>2. CASE host' = host
        BY <4>2
      <4> QED
        BY <2>10, <4>1, <4>2 DEF CreateChecks, CreateInserts, IntakeEnds
    <3>2. \A d \in Conns : StaysBehind(d)
      BY <3>1 DEF StaysBehind, HubInv, Follows, In
    <3>3. UNCHANGED <<stored, published, sent>> /\ (frames' = frames \/ Broadcast(SessionFrame))
      BY <2>10 DEF CreateChecks, CreateInserts, IntakeEnds
    <3>4. CASE frames' = frames
      BY <3>2, <3>3, <3>4, HubKept
    <3>5. CASE Broadcast(SessionFrame)
      BY <3>1, <3>3, <3>5, HubGrows DEF SessionFrame, Follows, In
    <3> QED
      BY <3>3, <3>4, <3>5
  <2> QED
    BY <1>1, <2>1, <2>2, <2>3, <2>4, <2>5, <2>6, <2>7, <2>8, <2>9, <2>10 DEF ServeStep
<1>2. ASSUME NEW c \in Conns, ConfirmPairing(c) \/ RejectPairing(c) PROVE HubInv'
  <2>1. \A d \in Conns : /\ host'[d].next = host[d].next /\ host'[d].live = host[d].live
                         /\ host'[d].stage = host[d].stage
    <3>1. PICK decision : host' = [host EXCEPT ![c].decision = decision]
      BY <1>2 DEF ConfirmPairing, RejectPairing
    <3> QED
      BY <1>0, <3>1 DEF Servings
  <2>2. \A d \in Conns : StaysBehind(d)
    BY <2>1 DEF StaysBehind, HubInv, Follows, In
  <2> QED
    BY <1>2, <2>2, HubKept DEF ConfirmPairing, RejectPairing
<1>3. ASSUME NEW c \in Conns, ConfirmStep(c) PROVE HubInv'
    BY <1>3, <1>c DEF ConfirmStep, ConfirmStores, ConfirmUnsaved, ConfirmCloses
<1>4. ASSUME \/ \E d \in Devices : Unpair(d)
             \/ ShowCode \/ WindowLapses
      PROVE  HubInv'
    BY <1>4, <1>c DEF Unpair, ShowCode, WindowLapses
<1>5. CASE Store
    BY <1>0, <1>5 DEF Store, HubInv, Follows, In
<1>6. CASE Publish
  <2>1. \A c \in Conns : Follows(c)' => Follows(c)
    BY <1>6 DEF Publish, Follows, In
  <2>2. published + 1 \in Nat /\ published + 1 <= stored
    BY <1>0, <1>6 DEF Publish, IsStored
  <2> QED
    BY <1>6, <2>1, <2>2, HubGrows DEF Publish
<1> QED
    BY <1>1, <1>2, <1>3, <1>4, <1>5, <1>6 DEF HostStep

-----------------------------------------------------------------------------
(* Sessions that phones create *)

\* Who is between the check and the insertion holds the lock, and there is room.
CreateInv ==
    /\ \A c \in Conns : host[c].cmds = "creating" => creating = c
    /\ creating # NoConn => sessions < ListBudget
    /\ sessions <= ListBudget

\* Nobody else comes to be creating.
LEMMA CreateStep ==
    ASSUME TypeInv, PairInv, CreateInv, HostStep
    PROVE  CreateInv'
<1> USE DEF pairing, hub
<1>0. /\ host \in [Conns -> Servings] /\ sessions \in Nat /\ ListBudget \in Nat
      /\ creating \in Conns \cup {NoConn} /\ NoConn \notin Conns
    BY ScenariosAssumption, LinkAssumption DEF TypeInv, HostTypes
<1>a. ASSUME UNCHANGED catalogue, \A c \in Conns : host'[c].cmds = "creating" => host[c].cmds = "creating"
      PROVE  CreateInv'
    BY <1>a DEF CreateInv, catalogue
<1>b. ASSUME NEW c \in Conns, Drops(c), UNCHANGED catalogue PROVE CreateInv'
    BY <1>0, <1>a, <1>b DEF Drops, Over, Idle
<1>c. ASSUME UNCHANGED catalogue, UNCHANGED host PROVE CreateInv'
    BY <1>a, <1>c
<1>d. ASSUME NEW c \in Conns, NEW stage, Moves(c, stage), UNCHANGED catalogue PROVE CreateInv'
    BY <1>0, <1>a, <1>d DEF Moves, Servings
<1>1. ASSUME NEW c \in Conns, ServeStep(c) \/ DecisionTimesOut(c) PROVE CreateInv'
  <2>1. CASE Accept(c) \/ Subscribe(c)
    <3>1. \A d \in Conns : host'[d].cmds = host[d].cmds
      <4>1. CASE Accept(c)
        BY <1>0, <4>1 DEF Accept, Servings
      <4>2. CASE Subscribe(c)
        BY <1>0, <4>2 DEF Subscribe, Servings
      <4> QED
        BY <2>1, <4>1, <4>2
    <3> QED
      BY <1>a, <2>1, <3>1 DEF Accept, Subscribe
  <2>2. CASE Handshake(c) \/ Decide(c) \/ CatchUp(c)
    <3>1. Moves(c, "paired") \/ Moves(c, "admitted") \/ Moves(c, "asked") \/ Moves(c, "caughtup") \/ Drops(c)
      BY <2>2 DEF Handshake, Decide, ServeDecision, CatchUp
    <3> QED
      BY <1>b, <1>d, <2>2, <3>1 DEF Handshake, Decide, CatchUp
  <2>3. CASE TakeDecision(c)
    <3>1. CASE Drops(c)
      BY <1>b, <2>3, <3>1 DEF TakeDecision
    <3>2. CASE ~Drops(c)
      <4>0. PICK torn : host' = [host EXCEPT ![c].stage = "admitted", ![c].torn = torn]
        BY <2>3, <3>2 DEF TakeDecision
      <4>1. \A d \in Conns : host'[d].cmds = host[d].cmds
        BY <1>0, <4>0 DEF Servings
      <4> QED
        BY <1>a, <2>3, <4>1 DEF TakeDecision
    <3> QED
      BY <3>1, <3>2
  <2>4. CASE HearWhileAsked(c) \/ LoseWhileAsked(c) \/ DecisionTimesOut(c)
    <3>1. CASE host' = [host EXCEPT ![c].hello = TRUE]
      <4>1. \A d \in Conns : host'[d].cmds = host[d].cmds
        BY <1>0, <3>1 DEF Servings
      <4> QED
        BY <1>a, <2>4, <4>1 DEF HearWhileAsked, LoseWhileAsked, DecisionTimesOut
    <3> QED
      BY <1>b, <2>4, <3>1 DEF HearWhileAsked, LoseWhileAsked, DecisionTimesOut
  <2>5. CASE CatchUpFails(c) \/ Disconnect(c)
    BY <1>b, <2>5 DEF CatchUpFails, Disconnect
  <2>6. CASE GoLive(c) \/ Forward(c) \/ IntakeEnds(c)
    <3>1. \A d \in Conns : host'[d].cmds = "creating" => host[d].cmds = "creating"
      BY <1>0, <2>6, ZenonT(30) DEF GoLive, Forward, IntakeEnds, Servings
    <3> QED
      BY <1>a, <2>6, <3>1 DEF GoLive, Forward, IntakeEnds
  <2>7. CASE CreateChecks(c)
    <3>1. CASE sessions < ListBudget
      <4>1. /\ creating = NoConn /\ creating' = c /\ sessions' = sessions
            /\ host' = [host EXCEPT ![c].cmds = "creating"]
        BY <2>7, <3>1 DEF CreateChecks, CreateIsFree
      <4>2. \A d \in Conns \ {c} : host'[d] = host[d]
        BY <1>0, <4>1
      <4>3. \A d \in Conns : host[d].cmds # "creating"
        BY <1>0, <4>1 DEF CreateInv
      <4> QED
        BY <1>0, <3>1, <4>1, <4>2, <4>3 DEF CreateInv
    <3>2. CASE ~(sessions < ListBudget)
      BY <1>c, <2>7, <3>2 DEF CreateChecks, catalogue
    <3> QED
      BY <3>1, <3>2
  <2>8. CASE CreateInserts(c)
    <3>1. creating = c /\ sessions < ListBudget
      BY <1>0, <2>8 DEF CreateInserts, CreateInv
    <3>2. /\ creating' = NoConn /\ sessions' = sessions + 1
          /\ host' = [host EXCEPT ![c].cmds = "running"]
      BY <2>8 DEF CreateInserts
    <3>3. host'[c].cmds = "running" /\ \A d \in Conns \ {c} : host'[d] = host[d]
      BY <1>0, <3>2 DEF Servings
    <3>4. \A d \in Conns : host'[d].cmds # "creating"
      BY <3>1, <3>3 DEF CreateInv
    <3> QED
      BY <1>0, <3>1, <3>2, <3>4 DEF CreateInv
  <2> QED
    BY <1>1, <2>1, <2>2, <2>3, <2>4, <2>5, <2>6, <2>7, <2>8 DEF ServeStep
<1>2. ASSUME NEW c \in Conns, ConfirmPairing(c) \/ RejectPairing(c) PROVE CreateInv'
  <2>1. PICK decision : host' = [host EXCEPT ![c].decision = decision]
    BY <1>2 DEF ConfirmPairing, RejectPairing
  <2>2. \A d \in Conns : host'[d].cmds = host[d].cmds
    BY <1>0, <2>1 DEF Servings
  <2> QED
    BY <1>2, <1>a, <2>2 DEF ConfirmPairing, RejectPairing
<1>3. ASSUME NEW c \in Conns, ConfirmStep(c) PROVE CreateInv'
    BY <1>3, <1>c DEF ConfirmStep, ConfirmStores, ConfirmUnsaved, ConfirmCloses
<1>4. ASSUME \/ \E d \in Devices : Unpair(d)
             \/ ShowCode \/ WindowLapses \/ Store \/ Publish
      PROVE  CreateInv'
    BY <1>4, <1>c DEF Unpair, ShowCode, WindowLapses, Store, Publish
<1> QED
    BY <1>1, <1>2, <1>3, <1>4 DEF HostStep

-----------------------------------------------------------------------------
(* Codes *)

\* Only a code that was shown is scanned or accepted.
CodesInv == gate.nonce <= codes /\ \A c \in Conns : link[c].prologue <= codes

\* No step names a code that was not shown.
LEMMA CodesStep ==
    ASSUME TypeInv, CodesInv, [Next]_vars
    PROVE  CodesInv'
<1> USE DEF pairing, hub, catalogue, hostVars, clientVars
<1>0. /\ gate \in Gates /\ codes \in Nat /\ link \in [Conns -> Channels]
      /\ slot \in Conns \cup {NoConn} /\ current \in Conns \cup {NoConn}
    BY DEF TypeInv, HostTypes, ClientTypes
\* Prologues stay, and the window is the same, a new one or none.
<1>a. ASSUME \A c \in Conns : link'[c].prologue = link[c].prologue,
             \/ gate'.nonce \in {gate.nonce, NoNonce} /\ codes' = codes
             \/ gate'.nonce = codes + 1 /\ codes' = codes + 1
      PROVE  CodesInv'
  <2>1. gate.nonce \in Nat /\ \A c \in Conns : link[c].prologue \in Nat
    BY <1>0 DEF Gates, Channels
  <2>2. gate'.nonce <= codes'
    BY <1>0, <1>a, <2>1 DEF CodesInv, NoNonce
  <2>3. codes <= codes' /\ codes' \in Nat
    BY <1>0, <1>a
  <2>4. \A c \in Conns : link'[c].prologue <= codes'
    BY <1>0, <1>a, <2>1, <2>3 DEF CodesInv
  <2> QED
    BY <2>2, <2>4 DEF CodesInv
<1>b. /\ WindowRead(gate).nonce \in {gate.nonce, NoNonce}
      /\ \A c : RegisterPending(WindowRead(gate), c).nonce \in {gate.nonce, NoNonce}
      /\ \A c : WithoutPending(gate, c).nonce = gate.nonce
      /\ CloseWindow(gate).nonce = NoNonce /\ Lapse(gate).nonce = gate.nonce
      /\ OpenWindow(gate, codes + 1).nonce = codes + 1
    BY <1>0 DEF WindowRead, CloseWindow, RegisterPending, WithoutPending, Lapse, OpenWindow, Gates
\* What becomes of the links leaves their prologues alone.
<1>c. ASSUME NEW c \in Conns,
             \/ link' = link
             \/ link' = [link EXCEPT ![c].host = "closed", ![c].up = <<>>]
             \/ link' = [link EXCEPT ![c].phone = "closed"]
             \/ link' = [link EXCEPT ![c].up = Tail(link[c].up)]
             \/ link' = [link EXCEPT ![c].phone = "open", ![c].host = "open"]
             \/ \E frame : link' = Up(c, frame)
             \/ \E frame : link' = [Up(c, frame) EXCEPT ![c].phone = "closed"]
      PROVE  \A d \in Conns : link'[d].prologue = link[d].prologue
  <2>1. ASSUME NEW d \in Conns
        PROVE  /\ [link EXCEPT ![c].host = "closed", ![c].up = <<>>][d].prologue = link[d].prologue
               /\ [link EXCEPT ![c].phone = "closed"][d].prologue = link[d].prologue
               /\ [link EXCEPT ![c].up = Tail(link[c].up)][d].prologue = link[d].prologue
               /\ [link EXCEPT ![c].phone = "open", ![c].host = "open"][d].prologue = link[d].prologue
    <3>1. CASE d = c
      BY <1>0, <3>1 DEF Channels
    <3>2. CASE d # c
      BY <1>0, <3>2
    <3> QED
      BY <3>1, <3>2
  <2>2. ASSUME NEW d \in Conns, NEW frame
        PROVE  /\ Up(c, frame)[d].prologue = link[d].prologue
               /\ [Up(c, frame) EXCEPT ![c].phone = "closed"][d].prologue = link[d].prologue
    BY <1>0 DEF Up, Channels
  <2>3. CASE \/ link' = [link EXCEPT ![c].host = "closed", ![c].up = <<>>]
             \/ link' = [link EXCEPT ![c].phone = "closed"]
             \/ link' = [link EXCEPT ![c].up = Tail(link[c].up)]
             \/ link' = [link EXCEPT ![c].phone = "open", ![c].host = "open"]
    BY <2>1, <2>3
  <2>4. CASE \/ \E frame : link' = Up(c, frame)
             \/ \E frame : link' = [Up(c, frame) EXCEPT ![c].phone = "closed"]
    BY <2>2, <2>4, ZenonT(30)
  <2> QED
    BY <1>c, <2>3, <2>4
<1>1. ASSUME HostStep PROVE CodesInv'
  <2>1. ASSUME NEW c \in Conns, ServeStep(c) \/ DecisionTimesOut(c) PROVE CodesInv'
    <3>a. ASSUME codes' = codes, gate'.nonce \in {gate.nonce, NoNonce},
                 \/ link' = link \/ Drops(c)
                 \/ link' = [link EXCEPT ![c].up = Tail(link[c].up)]
                 \/ link' = [link EXCEPT ![c].phone = "open", ![c].host = "open"]
          PROVE  CodesInv'
      <4>1. \A d \in Conns : link'[d].prologue = link[d].prologue
        BY <1>c, <3>a DEF Drops, HostCloses
      <4> QED
        BY <1>a, <3>a, <4>1
    <3>1. CASE Accept(c) \/ Decide(c)
      <4>1. gate' = WindowRead(gate) \/ gate' = RegisterPending(WindowRead(gate), c)
        BY <3>1 DEF Accept, Decide, ServeDecision
      <4>2. gate'.nonce \in {gate.nonce, NoNonce}
        BY <1>b, <4>1
      <4>3. codes' = codes /\ (link' = link \/ Drops(c))
        BY <3>1 DEF Accept, Decide, ServeDecision
      <4> QED
        BY <3>a, <4>2, <4>3
    <3>2. CASE HearWhileAsked(c) \/ LoseWhileAsked(c) \/ DecisionTimesOut(c)
      BY <1>b, <3>2, <3>a DEF HearWhileAsked, LoseWhileAsked, DecisionTimesOut, Forgotten
    <3>3. CASE Handshake(c) \/ TakeDecision(c) \/ Subscribe(c) \/ GoLive(c) \/ CatchUpFails(c)
      BY <3>3, <3>a DEF Handshake, TakeDecision, Subscribe, GoLive, CatchUpFails
    <3>4. CASE CatchUp(c) \/ Forward(c) \/ CreateChecks(c) \/ CreateInserts(c)
      BY <3>4, <3>a DEF CatchUp, Forward, CreateChecks, CreateInserts
    <3>5. CASE IntakeEnds(c) \/ Disconnect(c)
      BY <3>5, <3>a DEF IntakeEnds, Disconnect
    <3> QED
      BY <2>1, <3>1, <3>2, <3>3, <3>4, <3>5 DEF ServeStep
  <2>2. ASSUME NEW c \in Conns, ConfirmStep(c) \/ ConfirmPairing(c) \/ RejectPairing(c) PROVE CodesInv'
    BY <1>a, <1>b, <2>2
    DEF ConfirmStep, ConfirmPairing, RejectPairing, ConfirmStores, ConfirmUnsaved, ConfirmCloses
  <2>3. ASSUME \/ \E d \in Devices : Unpair(d)
               \/ ShowCode \/ WindowLapses \/ Store \/ Publish
        PROVE  CodesInv'
    BY <1>a, <1>b, <2>3 DEF Unpair, ShowCode, WindowLapses, Store, Publish
  <2> QED
    BY <1>1, <2>1, <2>2, <2>3 DEF HostStep
<1>2. ASSUME PhoneStep PROVE CodesInv'
  <2>0. UNCHANGED <<gate, codes>>
    BY <1>2 DEF PhoneStep
  <2>1. ASSUME NEW c \in Conns, NEW p \in Prologues(c), Dial(c, p) PROVE CodesInv'
    <3>1. p <= codes
      BY <1>0 DEF Prologues, NoNonce
    <3> QED
      BY <1>0, <2>0, <2>1, <3>1 DEF Dial, CodesInv, Channels
  <2>2. ASSUME NEW c \in Conns, TaskStep(c) PROVE CodesInv'
    <3>1. \/ link' \in {link, PhoneCloses(c), Up(c, "Command"), Up(c, "Hello")}
          \/ WebReplaces(c)
      BY <2>2 DEF TaskStep, DialFails, Spawn, Install, Release, RecvEnds, SendNext, SendDrained, Joins,
              ClearsSlot, TaskStops, WebConnects, Finishes
    <3>2. CASE WebReplaces(c)
      <4>1. client[c].previous \in Conns
        BY <3>2 DEF WebReplaces, TypeInv, ClientTypes, Attempts
      <4>2. \A d \in Conns : link'[d].prologue = link[d].prologue
        BY <1>c, <3>2, <4>1 DEF WebReplaces, Replaced, PhoneCloses
      <4> QED
        BY <1>a, <2>0, <4>2
    <3>3. CASE link' \in {link, PhoneCloses(c), Up(c, "Command"), Up(c, "Hello")}
      <4>1. \A d \in Conns : link'[d].prologue = link[d].prologue
        BY <1>c, <3>3 DEF PhoneCloses
      <4> QED
        BY <1>a, <2>0, <4>1
    <3> QED
      BY <3>1, <3>2, <3>3
  <2>3. ASSUME PhoneUserStep PROVE CodesInv'
    <3>1. \/ link' = link
          \/ current \in Conns /\ link' \in {Up(current, "Command"), PhoneCloses(current),
                                             [Up(current, "PairingReject") EXCEPT ![current].phone = "closed"]}
      BY <1>0, <2>3 DEF PhoneUserStep, SendCommand, DisconnectPhone, WebCommand, WebRejects, WebDisconnects
    <3>2. \A d \in Conns : link'[d].prologue = link[d].prologue
      BY <1>c, <3>1 DEF PhoneCloses
    <3> QED
      BY <1>a, <2>0, <3>2
  <2> QED
    BY <1>2, <2>1, <2>2, <2>3 DEF PhoneStep
<1>3. CASE UNCHANGED vars
    BY <1>3 DEF vars, CodesInv
<1> QED
    BY <1>1, <1>2, <1>3 DEF Next

-----------------------------------------------------------------------------
(* The phones' sessions *)

\* The installed session is one of the native phone, placed and not aborted; a session
\* is aborted only after it was placed, and stays where it is until it is placed.
NativeInv ==
    /\ slot # NoConn => Native(slot) /\ client[slot].placed /\ ~client[slot].aborted
    /\ \A c \in Conns :
        /\ client[c].stage \in {"gated", "running", "tail"} => Native(c)
        /\ Native(c) /\ ~client[c].placed => client[c].stage \in {"none", "dialing", "failed", "gated"}
        /\ client[c].placed => client[c].stage \notin {"none", "dialing", "failed"}
        /\ client[c].aborted => client[c].placed
    /\ SlotIsLive
    /\ NoOrphan

\* What was current when a dial began is another session of the web phone, which was
\* open by then.
WebInv ==
    /\ current # NoConn => Web(current) /\ client[current].stage \in {"web", "done"}
    /\ \A c \in Conns :
        /\ At(c, "web") => Web(c)
        /\ client[c].previous # NoConn =>
            /\ ~At(c, "none")
            /\ Web(client[c].previous)
            /\ client[c].previous # c
            /\ client[client[c].previous].stage \in {"web", "done"}
    /\ WebIsReachable

\* A step of the native phone, as the web phone's invariant sees it.
LEMMA WebKept ==
    ASSUME TypeInv, WebInv, UNCHANGED <<scenario, current>>,
           \A c \in Conns :
              /\ client'[c].previous = client[c].previous /\ client'[c].overtaken = client[c].overtaken
              /\ \/ client'[c].stage = client[c].stage
                 \/ /\ client[c].stage \in {"dialing", "gated", "running", "tail"}
                    /\ client'[c].stage \in {"gated", "running", "tail", "done"}
    PROVE  WebInv'
<1>0. \A c \in Conns : client[c].previous \in Conns \cup {NoConn}
    BY DEF TypeInv, ClientTypes, Attempts
<1>1. current \in Conns \cup {NoConn}
    BY DEF TypeInv, ClientTypes
<1>2. \A c : Web(c)' = Web(c)
    BY DEF Web
<1>3. WebIsReachable'
  <2>1. ASSUME NEW c \in Conns, At(c, "web")', ~client'[c].overtaken, current' # c
        PROVE  \E d \in Conns : client'[d].previous = c /\ current' # c /\ ~At(d, "dialing")'
    <3>1. At(c, "web") /\ ~client[c].overtaken
      BY <2>1 DEF At
    <3>2. PICK d \in Conns : client[d].previous = c /\ current # c /\ ~At(d, "dialing")
      BY <2>1, <3>1 DEF WebInv, WebIsReachable
    <3>3. client'[d].previous = c /\ ~At(d, "dialing")'
      BY <3>2 DEF At
    <3> QED
      BY <2>1, <3>3
  <2> QED
    BY <2>1 DEF WebIsReachable
<1>4. \A c \in Conns :
        /\ At(c, "web")' => Web(c)'
        /\ client'[c].previous # NoConn =>
            /\ ~At(c, "none")'
            /\ Web(client[c].previous)'
            /\ client'[c].previous # c
            /\ client'[client'[c].previous].stage \in {"web", "done"}
  <2>1. ASSUME NEW c \in Conns
        PROVE  /\ At(c, "web")' => Web(c)'
               /\ ~At(c, "none") => ~At(c, "none")'
    BY <1>2 DEF WebInv, At
  <2>2. ASSUME NEW c \in Conns, client'[c].previous # NoConn
        PROVE  /\ ~At(c, "none")
               /\ Web(client[c].previous)
               /\ client[c].previous # c
               /\ client'[client[c].previous].stage \in {"web", "done"}
    BY <1>0, <2>2 DEF WebInv
  <2>3. \A c \in Conns : Web(client[c].previous) => Web(client[c].previous)'
    BY DEF Web
  <2> QED
    BY <2>1, <2>2, <2>3
<1> QED
    BY <1>1, <1>2, <1>3, <1>4 DEF WebInv

\* A step of the web phone, or of a dial, as the native phone's invariant sees it.
LEMMA NativeKept ==
    ASSUME TypeInv, NativeInv, UNCHANGED <<scenario, slot>>,
           \A c \in Conns :
              /\ client'[c].placed = client[c].placed /\ client'[c].aborted = client[c].aborted
              /\ \/ client'[c].stage = client[c].stage
                 \/ client[c].stage \in {"none", "dialing"} /\ client'[c].stage \in {"dialing", "failed"}
                 \/ Web(c) /\ client'[c].stage \in {"web", "done"}
    PROVE  NativeInv'
<1>1. slot \in Conns \cup {NoConn}
    BY DEF TypeInv, ClientTypes
<1>2. \A c : Native(c)' = Native(c) /\ (Native(c) => ~Web(c))
    BY DEF Native, Web
<1>3. slot # NoConn => client'[slot].stage = client[slot].stage
    BY <1>1, <1>2 DEF NativeInv, SlotIsLive
<1>4. SlotIsLive' /\ NoOrphan'
    BY <1>1, <1>3 DEF NativeInv, SlotIsLive, NoOrphan
<1>5. \A c \in Conns :
        /\ client'[c].stage \in {"gated", "running", "tail"} => Native(c)'
        /\ Native(c)' /\ ~client'[c].placed => client'[c].stage \in {"none", "dialing", "failed", "gated"}
        /\ client'[c].placed => client'[c].stage \notin {"none", "dialing", "failed"}
        /\ client'[c].aborted => client'[c].placed
    BY <1>2 DEF NativeInv
<1> QED
    BY <1>1, <1>2, <1>4, <1>5 DEF NativeInv

\* The steps of the native phone.
LEMMA NativeStep ==
    ASSUME TypeInv, NativeInv, WebInv, NEW c \in Conns,
           \/ Spawn(c) \/ Install(c) \/ Release(c) \/ RecvEnds(c) \/ SendNext(c) \/ SendDrained(c)
           \/ Joins(c) \/ ClearsSlot(c) \/ TaskStops(c)
           \/ SendCommand \/ DisconnectPhone
    PROVE  NativeInv' /\ WebInv'
<1>0. /\ client \in [Conns -> Attempts] /\ slot \in Conns \cup {NoConn} /\ NoConn \notin Conns
      /\ \A d \in Conns : client[d] \in Attempts
    BY LinkAssumption DEF TypeInv, ClientTypes
<1>a. UNCHANGED <<scenario, current>>
    BY DEF Spawn, Install, Release, RecvEnds, SendNext, SendDrained, Joins, ClearsSlot, TaskStops,
           SendCommand, DisconnectPhone
<1>b. \A d : Native(d)' = Native(d)
    BY <1>a DEF Native
\* A step of one session that changes no slot and no flag.
<1>c. ASSUME UNCHANGED slot, \A d \in Conns \ {c} : client'[d] = client[d],
             client'[c].placed = client[c].placed, client'[c].aborted = client[c].aborted,
             client'[c].previous = client[c].previous, client'[c].overtaken = client[c].overtaken,
             \/ client'[c].stage = client[c].stage
             \/ Native(c) /\ client[c].stage = "dialing" /\ client'[c].stage = "gated"
             \/ client[c].stage = "gated" /\ client[c].placed /\ client'[c].stage = "running"
             \/ client[c].stage = "running" /\ client'[c].stage = "tail"
      PROVE  NativeInv' /\ WebInv'
  <2>1. WebInv'
    BY <1>a, <1>c, WebKept
  <2>2. SlotIsLive'
    BY <1>0, <1>c DEF NativeInv, SlotIsLive
  <2>3. NoOrphan'
    BY <1>c DEF NativeInv, NoOrphan
  <2>4. \A d \in Conns :
          /\ client'[d].stage \in {"gated", "running", "tail"} => Native(d)'
          /\ Native(d)' /\ ~client'[d].placed => client'[d].stage \in {"none", "dialing", "failed", "gated"}
          /\ client'[d].placed => client'[d].stage \notin {"none", "dialing", "failed"}
          /\ client'[d].aborted => client'[d].placed
    BY <1>b, <1>c DEF NativeInv
  <2>5. slot' # NoConn => Native(slot)' /\ client'[slot'].placed /\ ~client'[slot'].aborted
    BY <1>0, <1>a, <1>c DEF NativeInv, Native
  <2> QED
    BY <2>1, <2>2, <2>3, <2>4, <2>5 DEF NativeInv
<1>1. CASE Spawn(c) \/ Joins(c)
  <2>1. PICK stage \in {"gated", "tail"} :
           /\ client' = [client EXCEPT ![c].stage = stage]
           /\ \/ stage = "gated" /\ Native(c) /\ client[c].stage = "dialing"
              \/ stage = "tail" /\ client[c].stage = "running"
    BY <1>1 DEF Spawn, Joins, Goes, At
  <2>2. /\ \A d \in Conns \ {c} : client'[d] = client[d]
        /\ client'[c].placed = client[c].placed /\ client'[c].aborted = client[c].aborted
        /\ client'[c].previous = client[c].previous /\ client'[c].overtaken = client[c].overtaken
        /\ client'[c].stage = stage
    BY <1>0, <2>1 DEF Attempts
  <2>3. UNCHANGED slot
    BY <1>1 DEF Spawn, Joins
  <2> QED
    BY <1>c, <2>1, <2>2, <2>3
<1>2. CASE Release(c) \/ RecvEnds(c) \/ SendNext(c) \/ SendDrained(c)
  <2>0. /\ UNCHANGED slot
        /\ \/ /\ client' = [client EXCEPT ![c].stage = "running", ![c].recv = "running", ![c].send = "running"]
              /\ client[c].stage = "gated" /\ client[c].placed
           \/ client' = [client EXCEPT ![c].recv = "ended"]
           \/ \E n, send : client' = [client EXCEPT ![c].queue = n, ![c].send = send]
           \/ client' = [client EXCEPT ![c].send = "ended"]
    BY <1>2 DEF Release, IsReleased, RecvEnds, SendNext, SendDrained, At
  <2>1. /\ \A d \in Conns \ {c} : client'[d] = client[d]
        /\ client'[c].placed = client[c].placed /\ client'[c].aborted = client[c].aborted
        /\ client'[c].previous = client[c].previous /\ client'[c].overtaken = client[c].overtaken
        /\ \/ client'[c].stage = client[c].stage
           \/ client[c].stage = "gated" /\ client[c].placed /\ client'[c].stage = "running"
    <3>1. CASE /\ client' = [client EXCEPT ![c].stage = "running", ![c].recv = "running",
                                          ![c].send = "running"]
               /\ client[c].stage = "gated" /\ client[c].placed
      BY <1>0, <3>1 DEF Attempts
    <3>2. CASE client' = [client EXCEPT ![c].recv = "ended"] \/ client' = [client EXCEPT ![c].send = "ended"]
      BY <1>0, <3>2 DEF Attempts
    <3>3. ASSUME NEW n, NEW send, client' = [client EXCEPT ![c].queue = n, ![c].send = send]
          PROVE  /\ \A d \in Conns \ {c} : client'[d] = client[d]
                 /\ client'[c].placed = client[c].placed /\ client'[c].aborted = client[c].aborted
                 /\ client'[c].previous = client[c].previous /\ client'[c].overtaken = client[c].overtaken
                 /\ client'[c].stage = client[c].stage
      BY <1>0, <3>3 DEF Attempts
    <3> QED
      BY <2>0, <3>1, <3>2, <3>3
  <2> QED
    BY <1>c, <2>0, <2>1
<1>3. CASE SendCommand
  <2>0. slot \in Conns /\ UNCHANGED slot /\ client' = [client EXCEPT ![slot].queue = @ + 1]
    BY <1>0, <1>3 DEF SendCommand
  <2>1. \A d \in Conns :
          /\ client'[d].placed = client[d].placed /\ client'[d].aborted = client[d].aborted
          /\ client'[d].previous = client[d].previous /\ client'[d].overtaken = client[d].overtaken
          /\ client'[d].stage = client[d].stage
    BY <1>0, <2>0 DEF Attempts
  <2>2. WebInv'
    BY <1>a, <2>1, WebKept
  <2>3. NativeInv'
    BY <1>a, <2>0, <2>1, NativeKept
  <2> QED
    BY <2>2, <2>3
<1>4. CASE DisconnectPhone
  <2>0. slot \in Conns /\ slot' = NoConn /\ client' = [client EXCEPT ![slot].aborted = TRUE]
    BY <1>0, <1>4 DEF DisconnectPhone
  <2>1. /\ \A d \in Conns \ {slot} : client'[d] = client[d]
        /\ client'[slot].placed = client[slot].placed /\ client'[slot].aborted
        /\ client'[slot].previous = client[slot].previous
        /\ client'[slot].overtaken = client[slot].overtaken
        /\ client'[slot].stage = client[slot].stage
    BY <1>0, <2>0 DEF Attempts
  <2>2. WebInv'
    BY <1>a, <2>1, WebKept
  <2>3. SlotIsLive' /\ NoOrphan'
    BY <1>0, <2>0, <2>1 DEF NativeInv, SlotIsLive, NoOrphan
  <2>4. NativeInv'
    BY <1>0, <1>b, <2>0, <2>1, <2>3 DEF NativeInv
  <2> QED
    BY <2>2, <2>4
<1>5. CASE Install(c)
  <2>0. /\ Native(c) /\ ~client[c].placed /\ slot' = c
        /\ client[c].stage \notin {"none", "dialing", "failed"}
        /\ client' = [d \in Conns |->
                        IF d = c THEN [client[c] EXCEPT !.placed = TRUE]
                        ELSE IF d = slot THEN [client[d] EXCEPT !.aborted = TRUE]
                        ELSE client[d]]
    BY <1>5 DEF Install
  <2>1. client[c].stage = "gated" /\ ~client[c].aborted /\ slot # c
    BY <1>0, <2>0 DEF NativeInv
  <2>2. /\ client'[c].placed /\ ~client'[c].aborted
        /\ client'[c].previous = client[c].previous
        /\ client'[c].overtaken = client[c].overtaken
        /\ client'[c].stage = client[c].stage
    BY <1>0, <2>0, <2>1 DEF Attempts
  <2>3. slot # NoConn =>
           /\ client'[slot].placed = client[slot].placed /\ client'[slot].aborted
           /\ client'[slot].previous = client[slot].previous
           /\ client'[slot].overtaken = client[slot].overtaken
           /\ client'[slot].stage = client[slot].stage
    BY <1>0, <2>0, <2>1 DEF Attempts
  <2>4. \A d \in Conns : d # c /\ d # slot => client'[d] = client[d]
    BY <2>0
  <2>5. WebInv'
    BY <1>0, <1>a, <2>2, <2>3, <2>4, WebKept
  <2>6. SlotIsLive' /\ NoOrphan'
    BY <1>0, <2>0, <2>1, <2>2, <2>3, <2>4 DEF NativeInv, SlotIsLive, NoOrphan
  <2>7. \A d \in Conns :
          /\ client'[d].stage \in {"gated", "running", "tail"} => Native(d)'
          /\ Native(d)' /\ ~client'[d].placed => client'[d].stage \in {"none", "dialing", "failed", "gated"}
          /\ client'[d].placed => client'[d].stage \notin {"none", "dialing", "failed"}
          /\ client'[d].aborted => client'[d].placed
    BY <1>0, <1>b, <2>0, <2>1, <2>2, <2>3, <2>4 DEF NativeInv
  <2> QED
    BY <1>b, <2>0, <2>2, <2>5, <2>6, <2>7 DEF NativeInv
<1>6. CASE ClearsSlot(c) \/ TaskStops(c)
  <2>0. /\ client' = [client EXCEPT ![c] = Gone(c)]
        /\ slot' = IF slot = c THEN NoConn ELSE slot
        /\ client[c].stage \in {"gated", "running", "tail"}
    <3>1. CASE ClearsSlot(c)
      BY <3>1 DEF ClearsSlot, Finishes, IsInstalled, At
    <3>2. CASE TaskStops(c)
      BY <1>0, <3>2 DEF TaskStops, Finishes, NativeInv
    <3> QED
      BY <1>6, <3>1, <3>2
  <2>1. /\ \A d \in Conns \ {c} : client'[d] = client[d]
        /\ client'[c].placed = client[c].placed /\ ~client'[c].aborted
        /\ client'[c].previous = client[c].previous
        /\ client'[c].overtaken = client[c].overtaken
        /\ client'[c].stage = "done"
    BY <1>0, <2>0 DEF Attempts, Gone
  <2>2. WebInv'
    BY <1>a, <2>0, <2>1, WebKept
  <2>3. SlotIsLive' /\ NoOrphan'
    BY <1>0, <2>0, <2>1 DEF NativeInv, SlotIsLive, NoOrphan
  <2>4. slot' # c /\ slot' \in {slot, NoConn}
    BY <1>0, <2>0
  <2>5. Native(c) => client[c].placed
    BY <1>6, <2>0 DEF NativeInv, ClearsSlot, TaskStops, At
  <2>6. \A d \in Conns :
          /\ client'[d].stage \in {"gated", "running", "tail"} => Native(d)'
          /\ Native(d)' /\ ~client'[d].placed => client'[d].stage \in {"none", "dialing", "failed", "gated"}
          /\ client'[d].placed => client'[d].stage \notin {"none", "dialing", "failed"}
          /\ client'[d].aborted => client'[d].placed
    BY <1>b, <2>1, <2>5 DEF NativeInv
  <2>7. slot' # NoConn => Native(slot)' /\ client'[slot'].placed /\ ~client'[slot'].aborted
    BY <1>0, <1>a, <2>1, <2>4 DEF NativeInv, Native
  <2> QED
    BY <2>2, <2>3, <2>6, <2>7 DEF NativeInv
<1> QED
    BY <1>1, <1>2, <1>3, <1>4, <1>5, <1>6

\* A dial, and the steps of the web phone.
LEMMA WebStep ==
    ASSUME TypeInv, NativeInv, WebInv, NEW c \in Conns,
           \/ \E p : Dial(c, p)
           \/ DialFails(c) \/ WebConnects(c) \/ WebReplaces(c)
           \/ WebCommand \/ WebRejects \/ WebDisconnects
    PROVE  NativeInv' /\ WebInv'
<1>0. /\ client \in [Conns -> Attempts] /\ current \in Conns \cup {NoConn} /\ NoConn \notin Conns
      /\ \A d \in Conns : client[d] \in Attempts /\ client[d].previous \in Conns \cup {NoConn}
    BY LinkAssumption DEF TypeInv, ClientTypes, Attempts
<1>a. UNCHANGED <<scenario, slot>>
    BY DEF Dial, DialFails, WebConnects, WebReplaces, WebCommand, WebRejects, WebDisconnects
<1>b. \A d : Web(d)' = Web(d)
    BY <1>a DEF Web
<1>c. ASSUME current' # NoConn => Web(current') /\ client'[current'].stage \in {"web", "done"},
             WebIsReachable',
             \A d \in Conns :
                /\ client'[d].stage = "web" => Web(d)
                /\ client'[d].previous # NoConn =>
                    /\ client'[d].stage # "none"
                    /\ Web(client'[d].previous)
                    /\ client'[d].previous # d
                    /\ client'[client'[d].previous].stage \in {"web", "done"}
      PROVE  WebInv'
    BY <1>a, <1>c DEF WebInv, Web, At
\* What WebIsReachable comes to after the step.
<1>d. ASSUME \A d \in Conns : client'[d].stage = "web" /\ ~client'[d].overtaken /\ current' # d =>
                \E e \in Conns : client'[e].previous = d /\ client'[e].stage # "dialing"
      PROVE  WebIsReachable'
    BY <1>d DEF WebIsReachable, At
<1>1. CASE \E p : Dial(c, p)
  <2>0. PICK previous \in {current, NoConn} :
           /\ client[c].stage = "none" /\ (previous # NoConn => Web(c))
           /\ client' = [client EXCEPT ![c].stage = "dialing", ![c].previous = previous]
    BY <1>1 DEF Dial, At
  <2>1. UNCHANGED current
    BY <1>1 DEF Dial
  <2>2. /\ \A d \in Conns \ {c} : client'[d] = client[d]
        /\ client'[c].placed = client[c].placed /\ client'[c].aborted = client[c].aborted
        /\ client'[c].previous = previous /\ client'[c].overtaken = client[c].overtaken
        /\ client'[c].stage = "dialing"
    BY <1>0, <2>0 DEF Attempts
  <2>3. NativeInv'
    BY <1>a, <2>0, <2>2, NativeKept
  <2>4. client[c].previous = NoConn
    BY <1>0, <2>0 DEF WebInv, At
  <2>5. WebIsReachable'
    <3>1. ASSUME NEW d \in Conns, client'[d].stage = "web", ~client'[d].overtaken, current # d
          PROVE  \E e \in Conns : client'[e].previous = d /\ client'[e].stage # "dialing"
      <4>1. d # c /\ At(d, "web") /\ ~client[d].overtaken
        BY <2>2, <3>1 DEF At
      <4>2. PICK e \in Conns : client[e].previous = d /\ ~At(e, "dialing")
        BY <3>1, <4>1 DEF WebInv, WebIsReachable
      <4>3. e # c
        BY <1>0, <2>4, <4>2
      <4> QED
        BY <2>2, <4>2, <4>3 DEF At
    <3> QED
      BY <1>d, <2>1, <3>1
  <2>6. current # NoConn => Web(current) /\ client'[current].stage \in {"web", "done"} /\ current # c
    BY <1>0, <2>0, <2>2 DEF WebInv
  <2>7. ASSUME NEW d \in Conns
        PROVE  /\ client'[d].stage = "web" => Web(d)
               /\ client'[d].previous # NoConn =>
                   /\ client'[d].stage # "none"
                   /\ Web(client'[d].previous)
                   /\ client'[d].previous # d
                   /\ client'[client'[d].previous].stage \in {"web", "done"}
    <3>1. CASE d = c
      BY <2>0, <2>2, <2>6, <3>1
    <3>2. CASE d # c
      BY <1>0, <2>0, <2>2, <3>2 DEF WebInv, At
    <3> QED
      BY <3>1, <3>2
  <2> QED
    BY <1>c, <2>1, <2>3, <2>5, <2>6, <2>7
<1>2. CASE DialFails(c)
  <2>0. /\ client[c].stage = "dialing" /\ UNCHANGED current
        /\ client' = [client EXCEPT ![c].stage = "failed", ![c].previous = NoConn]
    BY <1>2 DEF DialFails, At
  <2>1. /\ \A d \in Conns \ {c} : client'[d] = client[d]
        /\ client'[c].placed = client[c].placed /\ client'[c].aborted = client[c].aborted
        /\ client'[c].previous = NoConn /\ client'[c].overtaken = client[c].overtaken
        /\ client'[c].stage = "failed"
    BY <1>0, <2>0 DEF Attempts
  <2>2. NativeInv'
    BY <1>a, <2>0, <2>1, NativeKept
  <2>3. WebIsReachable'
    <3>1. ASSUME NEW d \in Conns, client'[d].stage = "web", ~client'[d].overtaken, current # d
          PROVE  \E e \in Conns : client'[e].previous = d /\ client'[e].stage # "dialing"
      <4>1. PICK e \in Conns : client[e].previous = d /\ client[e].stage # "dialing"
        BY <2>1, <3>1 DEF WebInv, WebIsReachable, At
      <4> QED
        BY <2>0, <2>1, <4>1
    <3> QED
      BY <1>d, <2>0, <3>1
  <2>4. current # NoConn => Web(current) /\ client'[current].stage \in {"web", "done"}
    BY <1>0, <2>0, <2>1 DEF WebInv
  <2>5. ASSUME NEW d \in Conns
        PROVE  /\ client'[d].stage = "web" => Web(d)
               /\ client'[d].previous # NoConn =>
                   /\ client'[d].stage # "none"
                   /\ Web(client'[d].previous)
                   /\ client'[d].previous # d
                   /\ client'[client'[d].previous].stage \in {"web", "done"}
    BY <1>0, <2>0, <2>1 DEF WebInv, At
  <2> QED
    BY <1>c, <2>0, <2>2, <2>3, <2>4, <2>5
<1>3. CASE WebConnects(c)
  <2>0. /\ Web(c) /\ client[c].stage = "dialing" /\ current' = c
        /\ client' = [d \in Conns |->
                        IF d = c THEN [client[c] EXCEPT !.stage = "web"]
                        ELSE IF d = current /\ d # client[c].previous
                             THEN [client[d] EXCEPT !.overtaken = TRUE]
                        ELSE client[d]]
    BY <1>3 DEF WebConnects, At
  <2>1. /\ client'[c].placed = client[c].placed /\ client'[c].aborted = client[c].aborted
        /\ client'[c].previous = client[c].previous /\ client'[c].overtaken = client[c].overtaken
        /\ client'[c].stage = "web"
    BY <1>0, <2>0 DEF Attempts
  <2>2. \A d \in Conns \ {c} :
          /\ client'[d].placed = client[d].placed /\ client'[d].aborted = client[d].aborted
          /\ client'[d].previous = client[d].previous
          /\ client'[d].stage = client[d].stage
          /\ client'[d].overtaken = (client[d].overtaken \/ (d = current /\ d # client[c].previous))
    <3>1. ASSUME NEW d \in Conns, d # c
          PROVE  /\ client'[d].placed = client[d].placed /\ client'[d].aborted = client[d].aborted
                 /\ client'[d].previous = client[d].previous
                 /\ client'[d].stage = client[d].stage
                 /\ client'[d].overtaken = (client[d].overtaken \/ (d = current /\ d # client[c].previous))
      <4>1. CASE d = current /\ d # client[c].previous
        BY <1>0, <2>0, <3>1, <4>1 DEF Attempts
      <4>2. CASE ~(d = current /\ d # client[c].previous)
        BY <1>0, <2>0, <3>1, <4>2 DEF Attempts
      <4> QED
        BY <4>1, <4>2
    <3> QED
      BY <3>1
  <2>3. NativeInv'
    BY <1>a, <2>0, <2>1, <2>2, NativeKept
  <2>4. WebIsReachable'
    <3>1. ASSUME NEW d \in Conns, client'[d].stage = "web", ~client'[d].overtaken, d # c
          PROVE  \E e \in Conns : client'[e].previous = d /\ client'[e].stage # "dialing"
      <4>1. client[d].stage = "web" /\ ~client[d].overtaken
        BY <2>2, <3>1
      <4>2. CASE d = client[c].previous
        BY <2>1, <4>2
      <4>3. CASE d # client[c].previous
        <5>0. d # current
          BY <2>2, <3>1, <4>3
        <5>1. PICK e \in Conns : client[e].previous = d /\ client[e].stage # "dialing"
          BY <4>1, <5>0 DEF WebInv, WebIsReachable, At
        <5> QED
          BY <2>0, <2>1, <2>2, <5>1
      <4> QED
        BY <4>2, <4>3
    <3> QED
      BY <1>d, <2>0, <3>1
  <2>5. ASSUME NEW d \in Conns
        PROVE  /\ client'[d].stage = "web" => Web(d)
               /\ client'[d].previous # NoConn =>
                   /\ client'[d].stage # "none"
                   /\ Web(client'[d].previous)
                   /\ client'[d].previous # d
                   /\ client'[client'[d].previous].stage \in {"web", "done"}
    <3>1. \A e \in Conns : client[e].stage \in {"web", "done"} => client'[e].stage \in {"web", "done"}
      BY <2>0, <2>1, <2>2
    <3>2. client'[d].previous = client[d].previous
      BY <2>1, <2>2
    <3>3. client'[d].stage = "web" => Web(d)
      BY <2>0, <2>2 DEF WebInv, At
    <3>4. client[d].stage # "none" => client'[d].stage # "none"
      BY <2>1, <2>2
    <3> QED
      BY <1>0, <3>1, <3>2, <3>3, <3>4 DEF WebInv, At
  <2> QED
    BY <1>c, <2>0, <2>1, <2>3, <2>4, <2>5
<1>4. CASE WebReplaces(c)
  <2> DEFINE old == client[c].previous
  <2>0. /\ old # NoConn /\ client[c].stage \notin {"none", "dialing"} /\ UNCHANGED current
        /\ client' = [d \in Conns |->
                        IF d = c THEN [client[c] EXCEPT !.previous = NoConn]
                        ELSE IF d = old THEN [client[d] EXCEPT !.stage = "done"]
                        ELSE client[d]]
    BY <1>4 DEF WebReplaces, Replaced
  <2>1. old \in Conns /\ old # c /\ Web(old) /\ client[old].stage \in {"web", "done"}
    BY <1>0, <2>0 DEF WebInv
  <2>2. /\ client'[c].placed = client[c].placed /\ client'[c].aborted = client[c].aborted
        /\ client'[c].previous = NoConn /\ client'[c].overtaken = client[c].overtaken
        /\ client'[c].stage = client[c].stage
    BY <1>0, <2>0 DEF Attempts
  <2>3. /\ client'[old].placed = client[old].placed /\ client'[old].aborted = client[old].aborted
        /\ client'[old].previous = client[old].previous /\ client'[old].overtaken = client[old].overtaken
        /\ client'[old].stage = "done"
    BY <1>0, <2>0, <2>1 DEF Attempts
  <2>4. \A d \in Conns : d # c /\ d # old => client'[d] = client[d]
    BY <2>0
  <2>5. NativeInv'
    BY <1>a, <2>1, <2>2, <2>3, <2>4, NativeKept
  <2>6. WebIsReachable'
    <3>1. ASSUME NEW d \in Conns, client'[d].stage = "web", ~client'[d].overtaken, current # d
          PROVE  \E e \in Conns : client'[e].previous = d /\ client'[e].stage # "dialing"
      <4>1. d # old /\ client[d].stage = "web" /\ ~client[d].overtaken
        BY <2>2, <2>3, <2>4, <3>1
      <4>2. PICK e \in Conns : client[e].previous = d /\ client[e].stage # "dialing"
        BY <3>1, <4>1 DEF WebInv, WebIsReachable, At
      <4>3. e # c
        BY <4>1, <4>2
      <4>4. client'[e].previous = d /\ client'[e].stage # "dialing"
        BY <2>3, <2>4, <4>2, <4>3
      <4> QED
        BY <4>4
    <3> QED
      BY <1>d, <2>0, <3>1
  <2>7. \A e \in Conns : client[e].stage \in {"web", "done"} => client'[e].stage \in {"web", "done"}
    BY <2>2, <2>3, <2>4
  <2>8. ASSUME NEW d \in Conns
        PROVE  /\ client'[d].stage = "web" => Web(d)
               /\ client'[d].previous # NoConn =>
                   /\ client'[d].stage # "none"
                   /\ Web(client'[d].previous)
                   /\ client'[d].previous # d
                   /\ client'[client'[d].previous].stage \in {"web", "done"}
    <3>1. client'[d].previous \in {client[d].previous, NoConn}
      BY <2>2, <2>3, <2>4
    <3>2. client'[d].stage \in {client[d].stage, "done"}
      BY <2>2, <2>3, <2>4
    <3> QED
      BY <1>0, <2>7, <3>1, <3>2 DEF WebInv, At
  <2>9. current # NoConn => Web(current) /\ client'[current].stage \in {"web", "done"}
    BY <1>0, <2>7 DEF WebInv
  <2> QED
    BY <1>c, <2>0, <2>5, <2>6, <2>8, <2>9
<1>5. CASE WebCommand
  <2>1. UNCHANGED <<client, current>>
    BY <1>5 DEF WebCommand
  <2> QED
    BY <1>a, <2>1, NativeKept, WebKept
<1>6. CASE WebRejects \/ WebDisconnects
  <2>0. /\ current \in Conns /\ current' = NoConn
        /\ \/ client' = client /\ client[current].stage # "web"
           \/ client' = [client EXCEPT ![current].stage = "done"] /\ client[current].stage = "web"
    BY <1>0, <1>6 DEF WebRejects, WebDisconnects, Goes, At
  <2>1. \A d \in Conns :
          /\ client'[d].placed = client[d].placed /\ client'[d].aborted = client[d].aborted
          /\ client'[d].previous = client[d].previous /\ client'[d].overtaken = client[d].overtaken
          /\ client'[d].stage = IF d = current /\ client[d].stage = "web" THEN "done" ELSE client[d].stage
    <3>1. CASE client' = client /\ client[current].stage # "web"
      BY <3>1
    <3>2. CASE client' = [client EXCEPT ![current].stage = "done"] /\ client[current].stage = "web"
      BY <1>0, <2>0, <3>2 DEF Attempts
    <3> QED
      BY <2>0, <3>1, <3>2
  <2>2. Web(current)
    BY <1>0, <2>0 DEF WebInv
  <2>3. NativeInv'
    BY <1>a, <2>1, <2>2, NativeKept
  <2>4. WebIsReachable'
    <3>1. ASSUME NEW d \in Conns, client'[d].stage = "web", ~client'[d].overtaken
          PROVE  \E e \in Conns : client'[e].previous = d /\ client'[e].stage # "dialing"
      <4>1. d # current /\ client[d].stage = "web" /\ ~client[d].overtaken
        BY <2>1, <3>1
      <4>2. PICK e \in Conns : client[e].previous = d /\ client[e].stage # "dialing"
        BY <4>1 DEF WebInv, WebIsReachable, At
      <4> QED
        BY <2>1, <4>2
    <3> QED
      BY <1>d, <3>1
  <2>5. ASSUME NEW d \in Conns
        PROVE  /\ client'[d].stage = "web" => Web(d)
               /\ client'[d].previous # NoConn =>
                   /\ client'[d].stage # "none"
                   /\ Web(client'[d].previous)
                   /\ client'[d].previous # d
                   /\ client'[client'[d].previous].stage \in {"web", "done"}
    BY <1>0, <2>1 DEF WebInv, At
  <2> QED
    BY <1>c, <2>0, <2>3, <2>4, <2>5
<1> QED
    BY <1>1, <1>2, <1>3, <1>4, <1>5, <1>6

-----------------------------------------------------------------------------
(* Both sides together *)

\* The inductive invariant: types, whom the desktop serves, what the hub has and who
\* follows it, the lock of the session list, the codes, and the phones' two sessions.
IInv ==
    /\ TypeInv
    /\ PairInv
    /\ HubInv
    /\ CreateInv
    /\ CodesInv
    /\ NativeInv
    /\ WebInv

\* Nobody is connected at the start.
LEMMA InitIsSound == Init => IInv
<1> SUFFICES ASSUME Init PROVE IInv
    OBVIOUS
<1> USE DEF Init, HostInit, ClientInit
<1>0. /\ scenario \in Scenarios /\ scenario.trusted \subseteq Devices
      /\ \A c \in Conns : host[c] = Idle /\ client[c] = NoClient /\ link[c] = NoLink /\ confirms[c] = "idle"
      /\ slot = NoConn /\ current = NoConn /\ frames = <<>> /\ published = 0 /\ stored = 0
      /\ \A c \in Conns : sent[c] = {}
      /\ gate = ClosedGate
    BY ScenariosAssumption
<1>1. Idle \in Servings /\ NoClient \in Attempts /\ NoLink \in Channels /\ ClosedGate \in Gates
    BY DEF Idle, Servings, HostStages, NoNonce, NoClient, Attempts, ClientStages, NoLink, Channels,
           Ends, ClosedGate, Gates
<1>2. TypeInv
  <2>1. <<>> \in Seq(Nat)
    OBVIOUS
  <2> QED
    BY <1>0, <1>1, <2>1 DEF TypeInv, HostTypes, ClientTypes
<1>3. PairInv
    BY <1>0 DEF PairInv, StageInv, ServedIsAccepted, PendingIsAwaited, Idle, IsServed, Accepted, In,
                ClosedGate
<1>4. HubInv
  <2>1. \A c \in Conns : ~Follows(c) /\ host[c].next = 0
    BY <1>0 DEF Follows, In, Idle
  <2>2. Len(<<>>) = 0
    OBVIOUS
  <2> QED
    BY <1>0, <2>1, <2>2 DEF HubInv
<1>5. CreateInv
    BY <1>0, ScenariosAssumption DEF CreateInv, Idle
<1>6. CodesInv
    BY <1>0 DEF CodesInv, ClosedGate, NoLink, NoNonce
<1>7. NativeInv
    BY <1>0 DEF NativeInv, SlotIsLive, NoOrphan, NoClient
<1>8. WebInv
    BY <1>0 DEF WebInv, WebIsReachable, NoClient, At
<1> QED
    BY <1>2, <1>3, <1>4, <1>5, <1>6, <1>7, <1>8 DEF IInv

\* A step of the phones leaves the desktop's variables and keeps their own invariants.
LEMMA PhoneStays ==
    ASSUME IInv, PhoneStep
    PROVE  IInv'
<1>1. TypeInv'
    BY PhoneTypes, SMTT(30) DEF IInv
<1>2. UNCHANGED <<scenario, hostVars>>
    BY ZenonT(30) DEF PhoneStep, Dial, TaskStep, DialFails, Spawn, Install, Release, RecvEnds, SendNext,
           SendDrained, Joins, ClearsSlot, TaskStops, WebConnects, WebReplaces, PhoneUserStep,
           SendCommand, DisconnectPhone, WebCommand, WebRejects, WebDisconnects
<1>3. PairInv'
  <2>1. UNCHANGED <<scenario, host, gate, trusted, confirms>>
    BY <1>2 DEF hostVars, pairing
  <2> QED
    BY <2>1 DEF IInv, PairInv, StageInv, ServedIsAccepted, PendingIsAwaited, IsServed, Accepted,
                DeviceOf, In
<1>4. HubInv' /\ CreateInv'
    BY <1>2 DEF hostVars, hub, catalogue, IInv, HubInv, CreateInv, Follows, In
<1>5. CodesInv'
    BY CodesStep DEF IInv, Next
<1>6. NativeInv' /\ WebInv'
  <2>1. CASE \E c \in Conns : TaskStep(c) \/ \E p \in Prologues(c) : Dial(c, p)
    BY <2>1, NativeStep, WebStep DEF IInv, TaskStep
  <2>2. CASE PhoneUserStep
    <3>1. PICK c \in Conns : c = slot \/ c = current
      BY <2>2 DEF IInv, TypeInv, ClientTypes, PhoneUserStep, SendCommand, DisconnectPhone,
                  WebCommand, WebRejects, WebDisconnects
    <3> QED
      BY <2>2, NativeStep, WebStep DEF IInv, PhoneUserStep
  <2> QED
    BY <2>1, <2>2 DEF PhoneStep
<1> QED
    BY <1>1, <1>3, <1>4, <1>5, <1>6 DEF IInv

\* A step of the desktop leaves the phones' variables and keeps its own invariants.
LEMMA HostStays ==
    ASSUME IInv, HostStep
    PROVE  IInv'
<1>0. UNCHANGED <<scenario, clientVars>>
    BY ZenonT(30) DEF HostStep, ServeStep, Accept, Handshake, Decide, TakeDecision, HearWhileAsked, LoseWhileAsked,
           Subscribe, CatchUp, GoLive, CatchUpFails, Forward, CreateChecks, CreateInserts, IntakeEnds,
           Disconnect, DecisionTimesOut, ConfirmStep, ConfirmStores, ConfirmUnsaved, ConfirmCloses,
           ConfirmPairing, RejectPairing, Unpair, ShowCode, WindowLapses, Store, Publish
<1>1. TypeInv' /\ PairInv'
  <2>1. ASSUME NEW c \in Conns, ServeStep(c) \/ DecisionTimesOut(c) PROVE TypeInv' /\ PairInv'
    BY <1>0, <2>1, ServeTypes, ServePairs DEF IInv
  <2>2. ASSUME \/ \E c \in Conns : ConfirmStep(c) \/ ConfirmPairing(c) \/ RejectPairing(c)
               \/ \E d \in Devices : Unpair(d)
               \/ ShowCode \/ WindowLapses \/ Store \/ Publish
        PROVE  TypeInv' /\ PairInv'
    BY <1>0, <2>2, DesktopTypes, DesktopPairs DEF IInv
  <2> QED
    BY <2>1, <2>2 DEF HostStep
<1>2. HubInv' /\ CreateInv'
    BY HubStep, CreateStep DEF IInv
<1>3. CodesInv'
    BY CodesStep DEF IInv, Next
<1>4. NativeInv' /\ WebInv'
    BY <1>0 DEF clientVars, IInv, NativeInv, WebInv, SlotIsLive, NoOrphan, WebIsReachable, Native, Web, At
<1> QED
    BY <1>1, <1>2, <1>3, <1>4 DEF IInv

\* IInv holds whoever connects, and whatever the two users do, for any number of
\* connections, codes, messages and commands (PhoneHost, PhoneClient).
THEOREM Invariance == Spec => []IInv
<1>1. Init => IInv
    BY InitIsSound
<1>2. IInv /\ [Next]_vars => IInv'
  <2> SUFFICES ASSUME IInv, [Next]_vars PROVE IInv'
    OBVIOUS
  <2>1. CASE UNCHANGED vars
    BY <2>1
    DEF vars, hostVars, clientVars, pairing, hub, catalogue, IInv, TypeInv, HostTypes, ClientTypes,
        PairInv, StageInv, ServedIsAccepted, PendingIsAwaited, IsServed, Accepted, DeviceOf, HubInv,
        CreateInv, CodesInv, NativeInv, WebInv, SlotIsLive, NoOrphan, WebIsReachable, Native, Web,
        At, In, Follows
  <2> QED
    BY <2>1, PhoneStays, HostStays DEF Next
<1> QED
    BY <1>1, <1>2, PTL DEF Spec

\* The desktop serves only devices whose request its user accepted or that were trusted
\* from the start, every prompt that can be answered is waited for and the other way
\* round, and the sessions that phones create at once fit into the list they are sent
\* (serve_connection, confirm_pairing, forget_pending, create_remote_session).
THEOREM HostAlwaysSound == Spec => []HostIsSound
<1>1. IInv => HostIsSound
  <2> SUFFICES ASSUME IInv PROVE HostIsSound
    OBVIOUS
  <2>0. /\ \A c \in Conns : host[c] \in Servings /\ client[c] \in Attempts /\ link[c] \in Channels
        /\ gate \in Gates /\ published \in Nat /\ codes \in Nat
    BY DEF IInv, TypeInv, HostTypes, ClientTypes
  <2>1. \A c \in Conns :
          /\ link[c].phone \in Ends /\ link[c].host \in Ends
          /\ link[c].prologue \in 0 .. codes
    BY <2>0 DEF IInv, CodesInv, Channels
  <2>2. \A c \in Conns :
          /\ host[c].stage \in HostStages /\ client[c].stage \in ClientStages
          /\ host[c].next \in 0 .. Len(frames)
    BY <2>0 DEF IInv, HubInv, TypeInv, HostTypes, Servings, Attempts
  <2>3. \A c \in Conns : sent[c] \subseteq Catalogued /\ confirms[c] \in {"idle", "answered", "stored"}
    BY DEF IInv, HubInv, TypeInv, HostTypes, Catalogued
  <2>4. gate.nonce \in 0 .. codes /\ gate.pending \subseteq Conns
    BY <2>0 DEF IInv, CodesInv, Gates
  <2>5. published \in 0 .. stored /\ \A i \in 1 .. Len(frames) : frames[i] \in {SessionFrame} \cup 1 .. published
    BY <2>0 DEF IInv, HubInv, TypeInv, HostTypes
  <2>6. TypeOK
    BY <2>1, <2>2, <2>3, <2>4, <2>5 DEF TypeOK, IInv, TypeInv, HostTypes, ClientTypes
  <2> QED
    BY <2>6 DEF HostIsSound, IInv, PairInv, CreateInv, RemoteListFits
<1> QED
    BY <1>1, Invariance, PTL

\* A phone that is forwarded messages has each one that was published, or it is still
\* ahead of the phone in the hub: nothing falls between catch-up and the live feed
\* (serve_catch_up, forward_live).
THEOREM NothingIsMissed == Spec => []NoHole
<1>1. IInv => NoHole
    BY DEF IInv, HubInv, Follows, NoHole, In
<1> QED
    BY <1>1, Invariance, PTL

\* However dials, ends and disconnects overlap, the slot never holds a session that is
\* over, a running session is the installed one or aborted, and an open web session is
\* the current one or about to be closed (run_client_session, webPhoneSyncConnect).
THEOREM ClientAlwaysSound == Spec => []ClientIsSound
<1>1. IInv => ClientIsSound
    BY DEF IInv, NativeInv, WebInv, ClientIsSound
<1> QED
    BY <1>1, Invariance, PTL

====================================================================================
