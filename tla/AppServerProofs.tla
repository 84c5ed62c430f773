-------------------------- MODULE AppServerProofs --------------------------
(***************************************************************************)
(* Proofs about the supervisor, for any number of clients, responders,     *)
(* generations and request ids.                                            *)
(***************************************************************************)
EXTENDS AppServer, TLAPS

Sending == {"check", "write", "await"}
Connected == Handshake \cup {"run", "abort", "respond", "respondWrite", "lost", "purge",
    "announce", "abandon", "release"}

\* Which labels each kind of task can be at.
LabelsInv ==
    /\ \A c \in Clients : pc[c] \in Handshake \cup LossPc \cup AbandonPc \cup {"idle", "ensure",
        "resolve", "abort"}
    /\ \A r \in Responders : pc[r] \in LossPc \cup {"idle", "respond", "respondWrite"}
    /\ \A t \in Tasks : pc[t] \in LossPc \cup {"off", "run", "done"}
    /\ pc[Stopper] \in AbandonPc \cup {"idle", "take", "done"}

\* A task that acts on a connection holds a generation already handed out, and
\* a client that sends holds an id.
LocalsInv ==
    /\ \A p \in Procs : pc[p] \in Connected => conn[p] \in Generations
    /\ \A p \in Procs : pc[p] # "off" => conn[p] < nextGeneration
    /\ \A c \in Clients : pc[c] \in Sending => req[c] \in RequestIds

\* The tasks of a generation only ever act on it.
TasksInv == \A g \in Generations : conn[<<"reader", g>>] = g /\ conn[<<"waiter", g>>] = g

\* The mutex is held exactly across a startup, by the client that runs it, and
\* protects the generation it started.
MutexInv ==
    /\ \A c \in Clients : pc[c] \in {"resolve", "initialized", "abort"} => lock = c
    /\ lock # NoClient => pc[lock] \in Handshake \cup {"resolve", "abort"}
    /\ lock # NoClient /\ pc[lock] = "resolve" => running = NoGeneration
    /\ lock # NoClient /\ pc[lock] # "resolve" => running = conn[lock]

\* A generation number that was not handed out yet has no history.
FreshInv ==
    /\ running < nextGeneration
    /\ \A g \in Generations :
          g >= nextGeneration => child[g] = "none" /\ closedEvents[g] = 0

\* Shutdown raised the flag before it took the mutex.
ClosedInv ==
    /\ pc[Stopper] # "idle" => closed
    /\ pc[Stopper] \in AbandonPc \cup {"done"} => running = NoGeneration /\ lock = NoClient

IInv ==
    /\ TypeOK
    /\ LabelsInv
    /\ LocalsInv
    /\ TasksInv
    /\ MutexInv
    /\ FreshInv
    /\ ClosedInv
    /\ SingleTeardown
    /\ AnnouncedOnce
    /\ NoUnsupervisedChild

\* The part of the invariant that does not speak of teardowns.
BaseInv == TypeOK /\ LabelsInv /\ LocalsInv /\ TasksInv /\ MutexInv /\ FreshInv /\ ClosedInv

\* The effect of Return(p), task by task.
Returned(p) ==
           /\ pc' \in [Procs -> Labels]
           /\ conn' \in [Procs -> Generations \cup {NoGeneration}]
           /\ req' \in [Clients -> RequestIds \cup {NoRequest}]
           /\ reply' \in [Clients -> {"none", "result", "rpcError", "failed"}]
           /\ pc'[p] = IF p \in Callers THEN "idle" ELSE "done"
           /\ conn'[p] = IF p \in Callers THEN NoGeneration ELSE conn[p]
           /\ \A q \in Procs : q # p => pc'[q] = pc[q] /\ conn'[q] = conn[q]
           /\ \A c \in Clients : c # p => req'[c] = req[c] /\ reply'[c] = reply[c]

\* The kinds of task are disjoint, and each generation has its two.
LEMMA ProcKinds ==
    /\ \A t \in Tasks : t \in Procs /\ t \notin Callers /\ t # Stopper
    /\ \A c \in Callers : c \in Procs /\ c # Stopper
    /\ \A c \in Clients : c \in Procs /\ c \in Callers /\ c \notin Responders /\ c # NoClient
    /\ \A r \in Responders : r \in Procs /\ r \in Callers
    /\ Stopper \in Procs /\ Stopper \notin Callers
    /\ \A g \in Generations : /\ <<"reader", g>> \in Tasks
                              /\ <<"waiter", g>> \in Tasks
                              /\ <<"waiter", g>> # <<"reader", g>>
<1>1. \A g \in Generations : /\ <<"reader", g>> \in Tasks
                              /\ <<"waiter", g>> \in Tasks
                              /\ <<"waiter", g>> # <<"reader", g>>
    BY DEF Tasks
<1> QED
    BY <1>1, ProcsAssumption DEF Procs, Callers

\* The invariant holds initially.
LEMMA InitIInv == Init => IInv
<1> SUFFICES ASSUME Init PROVE IInv
    OBVIOUS
<1> USE BoundsAssumption DEF Init
<1>0. /\ \A p \in Procs : pc[p] = IF p \in Tasks THEN "off" ELSE "idle"
      /\ \A c \in Callers \cup {Stopper} : conn[c] = NoGeneration
      /\ TasksInv
    BY ProcKinds DEF TasksInv, Procs
<1>1. TypeOK
  <2>1. \A t \in Tasks : t[2] \in Generations
    BY DEF Tasks
  <2>2. conn \in [Procs -> Generations \cup {NoGeneration}]
    BY <2>1
  <2>3. pc \in [Procs -> Labels]
    BY DEF Labels, ClientPc
  <2>4. /\ torn \in [Generations -> BOOLEAN]
        /\ stop \in [Generations -> BOOLEAN]
    OBVIOUS
  <2>5. /\ running \in Generations \cup {NoGeneration}
        /\ lock \in Clients \cup {NoClient}
        /\ nextGeneration \in Nat \ {0}
        /\ nextRequestId \in Nat \ {0}
        /\ pending \subseteq Entry
        /\ req \in [Clients -> RequestIds \cup {NoRequest}]
        /\ reply \in [Clients -> {"none", "result", "rpcError", "failed"}]
        /\ child \in [Generations -> {"none", "alive", "dead"}]
        /\ inbox \in [Generations -> SUBSET RequestIds]
        /\ stdout \in [Generations -> SUBSET (RequestIds \X {"result", "rpcError"})]
        /\ closedEvents \in [Generations -> Nat]
    OBVIOUS
  <2> QED
    BY <2>2, <2>3, <2>4, <2>5 DEF TypeOK
<1>2. LabelsInv
    BY <1>0, ProcKinds DEF LabelsInv, LossPc, AbandonPc
<1>3. LocalsInv
    BY <1>0, ProcKinds DEF LocalsInv, Connected, Sending, Handshake, NoGeneration, Procs
<1>4. MutexInv
    BY <1>0, ProcKinds DEF MutexInv
<1>5. FreshInv
    BY DEF FreshInv, Generations, NoGeneration
<1>6. ClosedInv
    BY <1>0, ProcKinds DEF ClosedInv, AbandonPc
<1>7. SingleTeardown /\ AnnouncedOnce /\ NoUnsupervisedChild
  <2>1. \A p \in Procs : ~Tearing(p)
    BY <1>0 DEF Tearing
  <2> QED
    BY <2>1 DEF SingleTeardown, AnnouncedOnce, NoUnsupervisedChild, TornDown
<1> QED
    BY <1>0, <1>1, <1>2, <1>3, <1>4, <1>5, <1>6, <1>7 DEF IInv

\* What a returning task leaves behind.
LEMMA ReturnFacts ==
    ASSUME NEW p \in Procs, TypeOK, Return(p)
    PROVE  Returned(p)
<1> USE DEF TypeOK, Return, Goto
<1>1. pc' \in [Procs -> Labels] /\ conn' \in [Procs -> Generations \cup {NoGeneration}]
    BY DEF Labels, ClientPc
<1>2. req' \in [Clients -> RequestIds \cup {NoRequest}]
    OBVIOUS
<1>3. reply' \in [Clients -> {"none", "result", "rpcError", "failed"}]
    OBVIOUS
<1>4. /\ pc'[p] = IF p \in Callers THEN "idle" ELSE "done"
      /\ conn'[p] = IF p \in Callers THEN NoGeneration ELSE conn[p]
      /\ \A q \in Procs : q # p => pc'[q] = pc[q] /\ conn'[q] = conn[q]
    OBVIOUS
<1>5. \A c \in Clients : c # p => req'[c] = req[c] /\ reply'[c] = reply[c]
    OBVIOUS
<1> QED
    BY <1>1, <1>2, <1>3, <1>4, <1>5 DEF Returned

\* A returning task leaves the labels and the locals in order.
LEMMA ReturnLocals ==
    ASSUME NEW p \in Procs, BaseInv, Return(p), pc[p] # "off",
           nextGeneration' \in Nat, nextGeneration' >= nextGeneration
    PROVE  LabelsInv' /\ LocalsInv' /\ TasksInv'
<1>1. Returned(p)
    BY ReturnFacts DEF BaseInv
<1>2. LabelsInv'
    BY <1>1, ProcKinds DEF BaseInv, Returned, LabelsInv, LossPc, AbandonPc
<1>3. LocalsInv'
  <2>1. LocalsInv /\ nextGeneration \in Nat \ {0} /\ conn \in [Procs -> Generations \cup {NoGeneration}]
    BY DEF BaseInv, TypeOK
  <2>2. ASSUME NEW q \in Procs, pc'[q] \in Connected PROVE conn'[q] \in Generations
    BY <2>1, <2>2, <1>1 DEF LocalsInv, Returned, Connected, Handshake
  <2>3. ASSUME NEW q \in Procs, pc'[q] # "off" PROVE conn'[q] < nextGeneration'
    <3>1. conn[q] < nextGeneration \/ conn'[q] = NoGeneration
      BY <2>1, <2>3, <1>1, ProcKinds DEF LocalsInv, Returned, BaseInv, LabelsInv
    <3> QED
      BY <3>1, <2>1, <2>3, <1>1 DEF Returned, NoGeneration, Generations
  <2>4. ASSUME NEW c \in Clients, pc'[c] \in Sending PROVE req'[c] \in RequestIds
    BY <2>1, <2>4, <1>1, ProcKinds DEF LocalsInv, Returned, Sending
  <2> QED
    BY <2>2, <2>3, <2>4 DEF LocalsInv
<1>4. TasksInv'
    BY <1>1, ProcKinds DEF BaseInv, Returned, TasksInv
<1> QED
    BY <1>2, <1>3, <1>4

\* Every step of a client but Spawn keeps the base invariant.
LEMMA ClientBase ==
    ASSUME NEW c \in Clients, BaseInv,
           \/ BeginRequest(c) \/ EnsureRejected(c) \/ EnsureReuses(c) \/ EnsureStarts(c)
           \/ ResolveFails(c) \/ SendInitialized(c) \/ InitializedBroken(c) \/ CancelHandshake(c)
           \/ AbortStartup(c) \/ InsertPending(c) \/ InsertExhausted(c) \/ CheckClosed(c)
           \/ CheckOpen(c) \/ WriteRequest(c) \/ WriteBroken(c) \/ ReceiveReply(c)
           \/ ReceiveInitialize(c) \/ ReceiveFailure(c) \/ RequestTimeout(c)
    PROVE  BaseInv'
<1> USE BoundsAssumption, ProcKinds
    DEF BaseInv, Handshake, LossPc, AbandonPc, Connected, Sending, Goto, OnError, Forget,
        TearFrame, HoldMutex, ClosedUnderMutex, Exhausted,
        supervisor, requests, process, Generations, NoGeneration, NoRequest
<1>1. CASE BeginRequest(c)
  <2> USE <1>1 DEF BeginRequest
  <2>1. TypeOK'
    BY DEF TypeOK, LocalsInv, Labels, ClientPc, Entry
  <2>2. LabelsInv' /\ LocalsInv' /\ TasksInv'
    BY DEF TypeOK, LabelsInv, LocalsInv, TasksInv
  <2>3. MutexInv' /\ FreshInv' /\ ClosedInv'
    BY DEF TypeOK, LabelsInv, LocalsInv, TasksInv, MutexInv, FreshInv, ClosedInv
  <2> QED
    BY <2>1, <2>2, <2>3
<1>2. CASE EnsureRejected(c)
  <2> USE <1>2 DEF EnsureRejected
  <2>a. Returned(c)
    BY ReturnFacts
  <2>b. pc[c] # "off" /\ nextGeneration' \in Nat /\ nextGeneration' >= nextGeneration
    BY DEF TypeOK
  <2>1. TypeOK'
    BY <2>a DEF TypeOK, LocalsInv, Labels, ClientPc, Entry, Returned
  <2>2. LabelsInv' /\ LocalsInv' /\ TasksInv'
    BY <2>a, <2>b, ReturnLocals
  <2>3. MutexInv' /\ FreshInv' /\ ClosedInv'
    BY <2>a DEF TypeOK, LabelsInv, LocalsInv, TasksInv, MutexInv, FreshInv, ClosedInv, Returned
  <2> QED
    BY <2>1, <2>2, <2>3
<1>3. CASE EnsureReuses(c)
  <2> USE <1>3 DEF EnsureReuses
  <2>0. running \in Generations /\ running < nextGeneration
      BY DEF TypeOK, FreshInv
  <2>1. TypeOK'
      BY DEF TypeOK, LocalsInv, Labels, ClientPc, Entry
  <2>2. LabelsInv' /\ LocalsInv' /\ TasksInv'
      BY <2>0 DEF LocalsInv, LabelsInv, TasksInv, TypeOK
  <2>3. MutexInv' /\ FreshInv' /\ ClosedInv'
    BY DEF TypeOK, LabelsInv, LocalsInv, TasksInv, MutexInv, FreshInv, ClosedInv
  <2> QED
    BY <2>1, <2>2, <2>3
<1>4. CASE EnsureStarts(c)
  <2> USE <1>4 DEF EnsureStarts
  <2>1. TypeOK'
    BY DEF TypeOK, LocalsInv, Labels, ClientPc, Entry
  <2>2. LabelsInv' /\ LocalsInv' /\ TasksInv'
    BY DEF TypeOK, LabelsInv, LocalsInv, TasksInv
  <2>3. MutexInv' /\ FreshInv' /\ ClosedInv'
    BY DEF TypeOK, LabelsInv, LocalsInv, TasksInv, MutexInv, FreshInv, ClosedInv
  <2> QED
    BY <2>1, <2>2, <2>3
<1>5. CASE ResolveFails(c)
  <2> USE <1>5 DEF ResolveFails
  <2>a. Returned(c)
    BY ReturnFacts
  <2>b. pc[c] # "off" /\ nextGeneration' \in Nat /\ nextGeneration' >= nextGeneration
    BY DEF TypeOK
  <2>1. TypeOK'
    BY <2>a DEF TypeOK, LocalsInv, Labels, ClientPc, Entry, Returned
  <2>2. LabelsInv' /\ LocalsInv' /\ TasksInv'
    BY <2>a, <2>b, ReturnLocals
  <2>3. MutexInv' /\ FreshInv' /\ ClosedInv'
    <3>1. FreshInv'
      BY DEF FreshInv, TypeOK
    <3>2. MutexInv'
      BY <2>a DEF MutexInv, Returned
    <3> QED
      BY <2>a, <3>1, <3>2 DEF ClosedInv, Returned
  <2> QED
    BY <2>1, <2>2, <2>3
<1>6. CASE SendInitialized(c)
  <2> USE <1>6 DEF SendInitialized
  <2>1. TypeOK'
    BY DEF TypeOK, LocalsInv, Labels, ClientPc, Entry
  <2>2. LabelsInv' /\ LocalsInv' /\ TasksInv'
    BY DEF TypeOK, LabelsInv, LocalsInv, TasksInv
  <2>3. MutexInv' /\ FreshInv' /\ ClosedInv'
    BY DEF TypeOK, LabelsInv, LocalsInv, TasksInv, MutexInv, FreshInv, ClosedInv
  <2> QED
    BY <2>1, <2>2, <2>3
<1>7. CASE InitializedBroken(c)
  <2> USE <1>7 DEF InitializedBroken
  <2>1. TypeOK'
    BY DEF TypeOK, LocalsInv, Labels, ClientPc, Entry
  <2>2. LabelsInv' /\ LocalsInv' /\ TasksInv'
    BY DEF TypeOK, LabelsInv, LocalsInv, TasksInv
  <2>3. MutexInv' /\ FreshInv' /\ ClosedInv'
    BY DEF TypeOK, LabelsInv, LocalsInv, TasksInv, MutexInv, FreshInv, ClosedInv
  <2> QED
    BY <2>1, <2>2, <2>3
<1>8. CASE CancelHandshake(c)
  <2> USE <1>8 DEF CancelHandshake
  <2>1. TypeOK'
    BY DEF TypeOK, LocalsInv, Labels, ClientPc, Entry
  <2>2. LabelsInv' /\ LocalsInv' /\ TasksInv'
    BY DEF TypeOK, LabelsInv, LocalsInv, TasksInv
  <2>3. MutexInv' /\ FreshInv' /\ ClosedInv'
    BY DEF TypeOK, LabelsInv, LocalsInv, TasksInv, MutexInv, FreshInv, ClosedInv
  <2> QED
    BY <2>1, <2>2, <2>3
<1>9. CASE AbortStartup(c)
  <2> USE <1>9 DEF AbortStartup
  <2>1. TypeOK'
    BY DEF TypeOK, LocalsInv, Labels, ClientPc, Entry
  <2>2. LabelsInv' /\ LocalsInv' /\ TasksInv'
    BY DEF TypeOK, LabelsInv, LocalsInv, TasksInv
  <2>3. MutexInv' /\ FreshInv' /\ ClosedInv'
    BY DEF TypeOK, LabelsInv, LocalsInv, TasksInv, MutexInv, FreshInv, ClosedInv
  <2> QED
    BY <2>1, <2>2, <2>3
<1>10. CASE InsertPending(c)
  <2> USE <1>10 DEF InsertPending
  <2>0. nextRequestId \in RequestIds /\ conn[c] \in Generations
      BY DEF TypeOK, LocalsInv, RequestIds
  <2>1. TypeOK'
    <3>1. pending' \subseteq Entry
      BY <2>0 DEF TypeOK, Entry
    <3> QED
      BY <3>1, <2>0 DEF TypeOK, Labels, ClientPc
  <2>2. LabelsInv' /\ LocalsInv' /\ TasksInv'
      BY <2>0 DEF LocalsInv, LabelsInv, TasksInv, TypeOK
  <2>3. MutexInv' /\ FreshInv' /\ ClosedInv'
    BY DEF TypeOK, LabelsInv, LocalsInv, TasksInv, MutexInv, FreshInv, ClosedInv
  <2> QED
    BY <2>1, <2>2, <2>3
<1>11. CASE InsertExhausted(c)
  <2> USE <1>11 DEF InsertExhausted
  <2>1. TypeOK'
    BY DEF TypeOK, LocalsInv, Labels, ClientPc, Entry
  <2>2. LabelsInv' /\ LocalsInv' /\ TasksInv'
    BY DEF TypeOK, LabelsInv, LocalsInv, TasksInv
  <2>3. MutexInv' /\ FreshInv' /\ ClosedInv'
    BY DEF TypeOK, LabelsInv, LocalsInv, TasksInv, MutexInv, FreshInv, ClosedInv
  <2> QED
    BY <2>1, <2>2, <2>3
<1>12. CASE CheckClosed(c)
  <2> USE <1>12 DEF CheckClosed
  <2>1. TypeOK'
    BY DEF TypeOK, LocalsInv, Labels, ClientPc, Entry
  <2>2. LabelsInv' /\ LocalsInv' /\ TasksInv'
    BY DEF TypeOK, LabelsInv, LocalsInv, TasksInv
  <2>3. MutexInv' /\ FreshInv' /\ ClosedInv'
    BY DEF TypeOK, LabelsInv, LocalsInv, TasksInv, MutexInv, FreshInv, ClosedInv
  <2> QED
    BY <2>1, <2>2, <2>3
<1>13. CASE CheckOpen(c)
  <2> USE <1>13 DEF CheckOpen
  <2>1. TypeOK'
    BY DEF TypeOK, LocalsInv, Labels, ClientPc, Entry
  <2>2. LabelsInv' /\ LocalsInv' /\ TasksInv'
    BY DEF TypeOK, LabelsInv, LocalsInv, TasksInv
  <2>3. MutexInv' /\ FreshInv' /\ ClosedInv'
    BY DEF TypeOK, LabelsInv, LocalsInv, TasksInv, MutexInv, FreshInv, ClosedInv
  <2> QED
    BY <2>1, <2>2, <2>3
<1>14. CASE WriteRequest(c)
  <2> USE <1>14 DEF WriteRequest
  <2>1. TypeOK'
    BY DEF TypeOK, LocalsInv, Labels, ClientPc, Entry
  <2>2. LabelsInv' /\ LocalsInv' /\ TasksInv'
    BY DEF TypeOK, LabelsInv, LocalsInv, TasksInv
  <2>3. MutexInv' /\ FreshInv' /\ ClosedInv'
    BY DEF TypeOK, LabelsInv, LocalsInv, TasksInv, MutexInv, FreshInv, ClosedInv
  <2> QED
    BY <2>1, <2>2, <2>3
<1>15. CASE WriteBroken(c)
  <2> USE <1>15 DEF WriteBroken
  <2>1. TypeOK'
    BY DEF TypeOK, LocalsInv, Labels, ClientPc, Entry
  <2>2. LabelsInv' /\ LocalsInv' /\ TasksInv'
    BY DEF TypeOK, LabelsInv, LocalsInv, TasksInv
  <2>3. MutexInv' /\ FreshInv' /\ ClosedInv'
    BY DEF TypeOK, LabelsInv, LocalsInv, TasksInv, MutexInv, FreshInv, ClosedInv
  <2> QED
    BY <2>1, <2>2, <2>3
<1>16. CASE ReceiveReply(c)
  <2> USE <1>16 DEF ReceiveReply
  <2>a. Returned(c)
    BY ReturnFacts
  <2>b. pc[c] # "off" /\ nextGeneration' \in Nat /\ nextGeneration' >= nextGeneration
    BY DEF TypeOK
  <2>1. TypeOK'
    BY <2>a DEF TypeOK, LocalsInv, Labels, ClientPc, Entry, Returned
  <2>2. LabelsInv' /\ LocalsInv' /\ TasksInv'
    BY <2>a, <2>b, ReturnLocals
  <2>3. MutexInv' /\ FreshInv' /\ ClosedInv'
    BY <2>a DEF TypeOK, LabelsInv, LocalsInv, TasksInv, MutexInv, FreshInv, ClosedInv, Returned
  <2> QED
    BY <2>1, <2>2, <2>3
<1>17. CASE ReceiveInitialize(c)
  <2> USE <1>17 DEF ReceiveInitialize
  <2>1. TypeOK'
    BY DEF TypeOK, LocalsInv, Labels, ClientPc, Entry
  <2>2. LabelsInv' /\ LocalsInv' /\ TasksInv'
    BY DEF TypeOK, LabelsInv, LocalsInv, TasksInv
  <2>3. MutexInv' /\ FreshInv' /\ ClosedInv'
    BY DEF TypeOK, LabelsInv, LocalsInv, TasksInv, MutexInv, FreshInv, ClosedInv
  <2> QED
    BY <2>1, <2>2, <2>3
<1>18. CASE ReceiveFailure(c)
  <2> USE <1>18 DEF ReceiveFailure
  <2>1. TypeOK'
    BY DEF TypeOK, LocalsInv, Labels, ClientPc, Entry
  <2>2. LabelsInv' /\ LocalsInv' /\ TasksInv'
    BY DEF TypeOK, LabelsInv, LocalsInv, TasksInv
  <2>3. MutexInv' /\ FreshInv' /\ ClosedInv'
    BY DEF TypeOK, LabelsInv, LocalsInv, TasksInv, MutexInv, FreshInv, ClosedInv
  <2> QED
    BY <2>1, <2>2, <2>3
<1>19. CASE RequestTimeout(c)
  <2> USE <1>19 DEF RequestTimeout
  <2>1. TypeOK'
    BY DEF TypeOK, LocalsInv, Labels, ClientPc, Entry
  <2>2. LabelsInv' /\ LocalsInv' /\ TasksInv'
    BY DEF TypeOK, LabelsInv, LocalsInv, TasksInv
  <2>3. MutexInv' /\ FreshInv' /\ ClosedInv'
    BY DEF TypeOK, LabelsInv, LocalsInv, TasksInv, MutexInv, FreshInv, ClosedInv
  <2> QED
    BY <2>1, <2>2, <2>3
<1> QED
    BY <1>1, <1>2, <1>3, <1>4, <1>5, <1>6, <1>7, <1>8, <1>9, <1>10, <1>11, <1>12, <1>13, <1>14,
        <1>15, <1>16, <1>17, <1>18, <1>19

\* Every step of a responder keeps the base invariant.
LEMMA ResponderBase ==
    ASSUME NEW r \in Responders, BaseInv,
           \/ LookUpConnection(r) \/ StaleResponse(r) \/ WriteResponse(r) \/ ResponseBroken(r)
           \/ ResponseTimeout(r)
    PROVE  BaseInv'
<1> USE BoundsAssumption, ProcKinds
    DEF BaseInv, Handshake, LossPc, AbandonPc, Connected, Sending, Goto, TearFrame,
        supervisor, requests, process, Generations, NoGeneration, NoRequest
<1>1. CASE LookUpConnection(r)
  <2> USE <1>1 DEF LookUpConnection
  <2>1. TypeOK'
    BY DEF TypeOK, LocalsInv, Labels, ClientPc, Entry
  <2>2. LabelsInv' /\ LocalsInv' /\ TasksInv'
    BY DEF TypeOK, LabelsInv, LocalsInv, TasksInv
  <2>3. MutexInv' /\ FreshInv' /\ ClosedInv'
    BY DEF TypeOK, LabelsInv, LocalsInv, TasksInv, MutexInv, FreshInv, ClosedInv
  <2> QED
    BY <2>1, <2>2, <2>3
<1>2. CASE StaleResponse(r)
  <2> USE <1>2 DEF StaleResponse
  <2>a. Returned(r)
    BY ReturnFacts
  <2>b. pc[r] # "off" /\ nextGeneration' \in Nat /\ nextGeneration' >= nextGeneration
    BY DEF TypeOK
  <2>1. TypeOK'
    BY <2>a DEF TypeOK, LocalsInv, Labels, ClientPc, Entry, Returned
  <2>2. LabelsInv' /\ LocalsInv' /\ TasksInv'
    BY <2>a, <2>b, ReturnLocals
  <2>3. MutexInv' /\ FreshInv' /\ ClosedInv'
    BY <2>a DEF TypeOK, LabelsInv, LocalsInv, TasksInv, MutexInv, FreshInv, ClosedInv, Returned
  <2> QED
    BY <2>1, <2>2, <2>3
<1>3. CASE WriteResponse(r)
  <2> USE <1>3 DEF WriteResponse
  <2>a. Returned(r)
    BY ReturnFacts
  <2>b. pc[r] # "off" /\ nextGeneration' \in Nat /\ nextGeneration' >= nextGeneration
    BY DEF TypeOK
  <2>1. TypeOK'
    BY <2>a DEF TypeOK, LocalsInv, Labels, ClientPc, Entry, Returned
  <2>2. LabelsInv' /\ LocalsInv' /\ TasksInv'
    BY <2>a, <2>b, ReturnLocals
  <2>3. MutexInv' /\ FreshInv' /\ ClosedInv'
    BY <2>a DEF TypeOK, LabelsInv, LocalsInv, TasksInv, MutexInv, FreshInv, ClosedInv, Returned
  <2> QED
    BY <2>1, <2>2, <2>3
<1>4. CASE ResponseBroken(r)
  <2> USE <1>4 DEF ResponseBroken
  <2>1. TypeOK'
    BY DEF TypeOK, LocalsInv, Labels, ClientPc, Entry
  <2>2. LabelsInv' /\ LocalsInv' /\ TasksInv'
    BY DEF TypeOK, LabelsInv, LocalsInv, TasksInv
  <2>3. MutexInv' /\ FreshInv' /\ ClosedInv'
    BY DEF TypeOK, LabelsInv, LocalsInv, TasksInv, MutexInv, FreshInv, ClosedInv
  <2> QED
    BY <2>1, <2>2, <2>3
<1>5. CASE ResponseTimeout(r)
  <2> USE <1>5 DEF ResponseTimeout
  <2>a. Returned(r)
    BY ReturnFacts
  <2>b. pc[r] # "off" /\ nextGeneration' \in Nat /\ nextGeneration' >= nextGeneration
    BY DEF TypeOK
  <2>1. TypeOK'
    BY <2>a DEF TypeOK, LocalsInv, Labels, ClientPc, Entry, Returned
  <2>2. LabelsInv' /\ LocalsInv' /\ TasksInv'
    BY <2>a, <2>b, ReturnLocals
  <2>3. MutexInv' /\ FreshInv' /\ ClosedInv'
    BY <2>a DEF TypeOK, LabelsInv, LocalsInv, TasksInv, MutexInv, FreshInv, ClosedInv, Returned
  <2> QED
    BY <2>1, <2>2, <2>3
<1> QED
    BY <1>1, <1>2, <1>3, <1>4, <1>5

\* Every step of connection_lost and of the teardowns keeps the base invariant.
LEMMA TeardownBase ==
    ASSUME NEW p \in Procs, BaseInv,
           \/ TakeLost(p) \/ LostAlready(p) \/ PurgeLost(p) \/ AnnounceLost(p)
           \/ PurgeAbandoned(p) \/ ReleaseAbandoned(p)
    PROVE  BaseInv'
<1> USE BoundsAssumption, ProcKinds
    DEF BaseInv, Handshake, LossPc, AbandonPc, Connected, Sending, Goto, OwnsRunning,
        TakeRunning, FailPendingGeneration,
        supervisor, requests, process, Generations, NoGeneration, NoRequest
<1>1. CASE TakeLost(p)
  <2> USE <1>1 DEF TakeLost
  <2>1. TypeOK'
    BY DEF TypeOK, LocalsInv, Labels, ClientPc, Entry
  <2>2. LabelsInv' /\ LocalsInv' /\ TasksInv'
    BY DEF TypeOK, LabelsInv, LocalsInv, TasksInv
  <2>3. MutexInv' /\ FreshInv' /\ ClosedInv'
    BY DEF TypeOK, LabelsInv, LocalsInv, TasksInv, MutexInv, FreshInv, ClosedInv
  <2> QED
    BY <2>1, <2>2, <2>3
<1>2. CASE LostAlready(p)
  <2> USE <1>2 DEF LostAlready
  <2>a. Returned(p)
    BY ReturnFacts
  <2>b. pc[p] # "off" /\ nextGeneration' \in Nat /\ nextGeneration' >= nextGeneration
    BY DEF TypeOK
  <2>1. TypeOK'
    BY <2>a DEF TypeOK, LocalsInv, Labels, ClientPc, Entry, Returned
  <2>2. LabelsInv' /\ LocalsInv' /\ TasksInv'
    BY <2>a, <2>b, ReturnLocals
  <2>3. MutexInv' /\ FreshInv' /\ ClosedInv'
    BY <2>a DEF TypeOK, LabelsInv, LocalsInv, TasksInv, MutexInv, FreshInv, ClosedInv, Returned
  <2> QED
    BY <2>1, <2>2, <2>3
<1>3. CASE PurgeLost(p)
  <2> USE <1>3 DEF PurgeLost
  <2>1. TypeOK'
    BY DEF TypeOK, LocalsInv, Labels, ClientPc, Entry
  <2>2. LabelsInv' /\ LocalsInv' /\ TasksInv'
    BY DEF TypeOK, LabelsInv, LocalsInv, TasksInv
  <2>3. MutexInv' /\ FreshInv' /\ ClosedInv'
    BY DEF TypeOK, LabelsInv, LocalsInv, TasksInv, MutexInv, FreshInv, ClosedInv
  <2> QED
    BY <2>1, <2>2, <2>3
<1>4. CASE AnnounceLost(p)
  <2> USE <1>4 DEF AnnounceLost
  <2>a. Returned(p)
    BY ReturnFacts
  <2>b. pc[p] # "off" /\ nextGeneration' \in Nat /\ nextGeneration' >= nextGeneration
    BY DEF TypeOK
  <2>1. TypeOK'
    BY <2>a DEF TypeOK, LocalsInv, Labels, ClientPc, Entry, Returned
  <2>2. LabelsInv' /\ LocalsInv' /\ TasksInv'
    BY <2>a, <2>b, ReturnLocals
  <2>3. MutexInv' /\ FreshInv' /\ ClosedInv'
    <3>1. conn[p] < nextGeneration
      BY DEF LocalsInv
    <3>2. FreshInv'
      BY <3>1 DEF FreshInv, TypeOK
    <3> QED
      BY <2>a, <3>2 DEF MutexInv, LabelsInv, TypeOK, ClosedInv, Returned
  <2> QED
    BY <2>1, <2>2, <2>3
<1>5. CASE PurgeAbandoned(p)
  <2> USE <1>5 DEF PurgeAbandoned
  <2>1. TypeOK'
    BY DEF TypeOK, LocalsInv, Labels, ClientPc, Entry
  <2>2. LabelsInv' /\ LocalsInv' /\ TasksInv'
    BY DEF TypeOK, LabelsInv, LocalsInv, TasksInv
  <2>3. MutexInv' /\ FreshInv' /\ ClosedInv'
    BY DEF TypeOK, LabelsInv, LocalsInv, TasksInv, MutexInv, FreshInv, ClosedInv
  <2> QED
    BY <2>1, <2>2, <2>3
<1>6. CASE ReleaseAbandoned(p)
  <2> USE <1>6 DEF ReleaseAbandoned
  <2>a. Returned(p)
    BY ReturnFacts
  <2>b. pc[p] # "off" /\ nextGeneration' \in Nat /\ nextGeneration' >= nextGeneration
    BY DEF TypeOK
  <2>1. TypeOK'
    BY <2>a DEF TypeOK, LocalsInv, Labels, ClientPc, Entry, Returned
  <2>2. LabelsInv' /\ LocalsInv' /\ TasksInv'
    BY <2>a, <2>b, ReturnLocals
  <2>3. MutexInv' /\ FreshInv' /\ ClosedInv'
    BY <2>a DEF TypeOK, LabelsInv, LocalsInv, TasksInv, MutexInv, FreshInv, ClosedInv, Returned
  <2> QED
    BY <2>1, <2>2, <2>3
<1> QED
    BY <1>1, <1>2, <1>3, <1>4, <1>5, <1>6

\* Every step of a process and of its two tasks keeps the base invariant.
LEMMA ProcessBase ==
    ASSUME NEW g \in Generations, BaseInv,
           \/ ReadResponse(g) \/ ReadEof(g) \/ ReadFails(g) \/ ReapChild(g)
           \/ ChildAnswers(g) \/ ChildExits(g)
    PROVE  BaseInv'
<1> USE BoundsAssumption, ProcKinds
    DEF BaseInv, Handshake, LossPc, AbandonPc, Connected, Sending, Goto, Die,
        supervisor, requests, process, Generations, NoGeneration, NoRequest
<1>1. CASE ReadResponse(g)
  <2> USE <1>1 DEF ReadResponse
  <2>1. TypeOK'
    BY DEF TypeOK, LocalsInv, Labels, ClientPc, Entry
  <2>2. LabelsInv' /\ LocalsInv' /\ TasksInv'
    BY DEF TypeOK, LabelsInv, LocalsInv, TasksInv
  <2>3. MutexInv' /\ FreshInv' /\ ClosedInv'
    BY DEF TypeOK, LabelsInv, LocalsInv, TasksInv, MutexInv, FreshInv, ClosedInv
  <2> QED
    BY <2>1, <2>2, <2>3
<1>2. CASE ReadEof(g)
  <2> USE <1>2 DEF ReadEof
  <2>0. PICK t \in Tasks : /\ pc[t] = "run"
                            /\ pc' = [pc EXCEPT ![t] = "lost"]
                            /\ conn[t] = g
      BY DEF TasksInv
  <2>1. TypeOK'
    BY DEF TypeOK, LocalsInv, Labels, ClientPc, Entry
  <2>2. LabelsInv' /\ LocalsInv' /\ TasksInv'
    <3>1. UNCHANGED <<conn, req, nextGeneration>>
      OBVIOUS
    <3> HIDE DEF ReadEof
    <3> QED
      BY <2>0, <3>1 DEF LabelsInv, LocalsInv, TasksInv, TypeOK
  <2>3. MutexInv' /\ FreshInv' /\ ClosedInv'
    <3>1. UNCHANGED <<supervisor, conn, closedEvents>>
      OBVIOUS
    <3>2. g < nextGeneration /\ (child' = child \/ child' = [child EXCEPT ![g] = "dead"])
      BY <2>0 DEF LocalsInv
    <3> HIDE DEF ReadEof
    <3> QED
      BY <2>0, <3>1, <3>2 DEF MutexInv, LabelsInv, TypeOK, FreshInv, ClosedInv
  <2> QED
    BY <2>1, <2>2, <2>3
<1>3. CASE ReadFails(g)
  <2> USE <1>3 DEF ReadFails
  <2>0. PICK t \in Tasks : /\ pc[t] = "run"
                            /\ pc' = [pc EXCEPT ![t] = "lost"]
                            /\ conn[t] = g
      BY DEF TasksInv
  <2>1. TypeOK'
    BY DEF TypeOK, LocalsInv, Labels, ClientPc, Entry
  <2>2. LabelsInv' /\ LocalsInv' /\ TasksInv'
    <3>1. UNCHANGED <<conn, req, nextGeneration>>
      OBVIOUS
    <3> HIDE DEF ReadFails
    <3> QED
      BY <2>0, <3>1 DEF LabelsInv, LocalsInv, TasksInv, TypeOK
  <2>3. MutexInv' /\ FreshInv' /\ ClosedInv'
    <3>1. UNCHANGED <<supervisor, conn, closedEvents>>
      OBVIOUS
    <3>2. g < nextGeneration /\ (child' = child \/ child' = [child EXCEPT ![g] = "dead"])
      BY <2>0 DEF LocalsInv
    <3> HIDE DEF ReadFails
    <3> QED
      BY <2>0, <3>1, <3>2 DEF MutexInv, LabelsInv, TypeOK, FreshInv, ClosedInv
  <2> QED
    BY <2>1, <2>2, <2>3
<1>4. CASE ReapChild(g)
  <2> USE <1>4 DEF ReapChild
  <2>0. PICK t \in Tasks : /\ pc[t] = "run"
                            /\ pc' = [pc EXCEPT ![t] = "lost"]
                            /\ conn[t] = g
      BY DEF TasksInv
  <2>1. TypeOK'
    BY DEF TypeOK, LocalsInv, Labels, ClientPc, Entry
  <2>2. LabelsInv' /\ LocalsInv' /\ TasksInv'
    <3>1. UNCHANGED <<conn, req, nextGeneration>>
      OBVIOUS
    <3> HIDE DEF ReapChild
    <3> QED
      BY <2>0, <3>1 DEF LabelsInv, LocalsInv, TasksInv, TypeOK
  <2>3. MutexInv' /\ FreshInv' /\ ClosedInv'
    <3>1. UNCHANGED <<supervisor, conn, closedEvents>>
      OBVIOUS
    <3>2. g < nextGeneration /\ (child' = child \/ child' = [child EXCEPT ![g] = "dead"])
      BY <2>0 DEF LocalsInv
    <3> HIDE DEF ReapChild
    <3> QED
      BY <2>0, <3>1, <3>2 DEF MutexInv, LabelsInv, TypeOK, FreshInv, ClosedInv
  <2> QED
    BY <2>1, <2>2, <2>3
<1>5. CASE ChildAnswers(g)
  <2> USE <1>5 DEF ChildAnswers
  <2>1. TypeOK'
    BY DEF TypeOK, LocalsInv, Labels, ClientPc, Entry
  <2>2. LabelsInv' /\ LocalsInv' /\ TasksInv'
    BY DEF TypeOK, LabelsInv, LocalsInv, TasksInv
  <2>3. MutexInv' /\ FreshInv' /\ ClosedInv'
    BY DEF TypeOK, LabelsInv, LocalsInv, TasksInv, MutexInv, FreshInv, ClosedInv
  <2> QED
    BY <2>1, <2>2, <2>3
<1>6. CASE ChildExits(g)
  <2> USE <1>6 DEF ChildExits
  <2>1. TypeOK'
    BY DEF TypeOK, LocalsInv, Labels, ClientPc, Entry
  <2>2. LabelsInv' /\ LocalsInv' /\ TasksInv'
    BY DEF TypeOK, LabelsInv, LocalsInv, TasksInv
  <2>3. MutexInv' /\ FreshInv' /\ ClosedInv'
    BY DEF TypeOK, LabelsInv, LocalsInv, TasksInv, MutexInv, FreshInv, ClosedInv
  <2> QED
    BY <2>1, <2>2, <2>3
<1> QED
    BY <1>1, <1>2, <1>3, <1>4, <1>5, <1>6

\* Starting a process keeps the base invariant.
LEMMA SpawnBase == \A c \in Clients : BaseInv /\ Spawn(c) => BaseInv'
<1> SUFFICES ASSUME NEW c \in Clients, BaseInv, Spawn(c) PROVE BaseInv'
    OBVIOUS
<1> DEFINE g == nextGeneration
<1>1. /\ g \in Generations /\ c \in Procs /\ lock = c
      /\ pc[c] = "resolve" /\ running' = g /\ nextGeneration' = g + 1
      /\ child' = [child EXCEPT ![g] = "alive"]
      /\ conn' = [conn EXCEPT ![c] = g]
      /\ UNCHANGED <<lock, closed, nextRequestId, requests, inbox, stdout, torn, stop,
          closedEvents>>
    BY ProcKinds, BoundsAssumption DEF BaseInv, TypeOK, MutexInv, Spawn, Generations, Exhausted
<1>2. PICK r \in Tasks, w \in Tasks : r = <<"reader", g>> /\ w = <<"waiter", g>> /\ r # w
    BY <1>1, ProcKinds
<1>3. pc' = [pc EXCEPT ![c] = "insert", ![r] = "run", ![w] = "run"] /\ conn[r] = g /\ conn[w] = g
    BY <1>1, <1>2 DEF Spawn, BaseInv, TasksInv
<1>4. /\ pc' \in [Procs -> Labels]
      /\ \A q \in Procs \ {c, r, w} : pc'[q] = pc[q]
      /\ pc'[c] = "insert" /\ pc'[r] = "run" /\ pc'[w] = "run"
    BY <1>1, <1>2, <1>3, ProcKinds DEF BaseInv, TypeOK, Labels, ClientPc, Handshake
<1>5. /\ conn' \in [Procs -> Generations \cup {NoGeneration}]
      /\ conn'[c] = g
      /\ \A q \in Procs : q # c => conn'[q] = conn[q]
    BY <1>1 DEF BaseInv, TypeOK
<1>6. TypeOK'
    BY <1>1, <1>4, <1>5 DEF BaseInv, TypeOK, requests
<1>7. LabelsInv'
    BY <1>4, ProcKinds DEF BaseInv, LabelsInv, Handshake, LossPc
<1>8. LocalsInv'
  <2>1. ASSUME NEW q \in Procs, pc'[q] \in Connected PROVE conn'[q] \in Generations
    <3>1. CASE q \in {c, r, w}
      BY <3>1, <1>1, <1>3, <1>5, <1>2, ProcKinds
    <3>2. CASE q \notin {c, r, w}
      BY <3>2, <2>1, <1>4, <1>5 DEF BaseInv, LocalsInv
    <3> QED
      BY <3>1, <3>2
  <2>2. ASSUME NEW q \in Procs, pc'[q] # "off" PROVE conn'[q] < nextGeneration'
    <3>1. CASE q \in {c, r, w}
      BY <3>1, <1>1, <1>3, <1>5, <1>2, ProcKinds DEF Generations
    <3>2. CASE q \notin {c, r, w}
      <4>1. conn'[q] = conn[q] /\ conn[q] < g
        BY <3>2, <2>2, <1>4, <1>5 DEF BaseInv, LocalsInv
      <4> QED
        BY <4>1, <1>1 DEF BaseInv, TypeOK, Generations, NoGeneration
    <3> QED
      BY <3>1, <3>2
  <2>3. ASSUME NEW d \in Clients, pc'[d] \in Sending PROVE req'[d] \in RequestIds
    BY <2>3, <1>1, <1>2, <1>4, ProcKinds DEF BaseInv, LocalsInv, Sending, requests
  <2> QED
    BY <2>1, <2>2, <2>3 DEF LocalsInv
<1>9. TasksInv'
  <2>1. \A t \in Tasks : conn'[t] = conn[t]
    BY <1>5, ProcKinds
  <2> QED
    BY <2>1, ProcKinds DEF BaseInv, TasksInv
<1>10. MutexInv'
    BY <1>1, <1>2, <1>4, <1>5, ProcKinds DEF BaseInv, MutexInv, Handshake
<1>11. FreshInv'
    BY <1>1 DEF BaseInv, TypeOK, FreshInv, Generations
<1>12. ClosedInv'
    BY <1>1, <1>2, <1>4, ProcKinds DEF BaseInv, ClosedInv, AbandonPc
<1> QED
    BY <1>6, <1>7, <1>8, <1>9, <1>10, <1>11, <1>12 DEF BaseInv

\* Receiving a request of the app-server keeps the base invariant.
LEMMA BeginResponseBase ==
    \A r \in Responders, g \in Generations : BaseInv /\ BeginResponse(r, g) => BaseInv'
<1> SUFFICES ASSUME NEW r \in Responders, NEW g \in Generations, BaseInv, BeginResponse(r, g)
             PROVE  BaseInv'
    OBVIOUS
<1> USE BoundsAssumption, ProcKinds DEF BaseInv, BeginResponse, supervisor, requests, process, Goto
<1>1. TypeOK'
    BY DEF TypeOK, Labels, ClientPc
<1>2. g < nextGeneration
    BY DEF FreshInv, TypeOK, Generations
<1>3. LabelsInv' /\ LocalsInv' /\ TasksInv'
    BY <1>2 DEF LabelsInv, LocalsInv, TasksInv, TypeOK, Connected, Sending, Handshake, LossPc,
        AbandonPc
<1>4. MutexInv' /\ FreshInv' /\ ClosedInv'
    BY ProcsAssumption DEF MutexInv, LabelsInv, TypeOK, Handshake, FreshInv, ClosedInv, AbandonPc
<1> QED
    BY <1>1, <1>3, <1>4

\* Both steps of shutdown keep the base invariant.
LEMMA ShutdownBase == BaseInv /\ (BeginShutdown \/ TakeShutdown) => BaseInv'
<1> USE BoundsAssumption, ProcKinds DEF BaseInv, supervisor, requests, process, Goto
<1>1. ASSUME BaseInv, BeginShutdown PROVE BaseInv'
  <2> USE <1>1 DEF BeginShutdown
  <2>1. TypeOK'
    BY DEF TypeOK, Labels
  <2>2. LabelsInv' /\ LocalsInv' /\ TasksInv'
    BY DEF LabelsInv, LocalsInv, TasksInv, TypeOK, Connected, Sending, Handshake, LossPc, AbandonPc
  <2>3. MutexInv' /\ FreshInv' /\ ClosedInv'
    BY DEF MutexInv, LabelsInv, TypeOK, Handshake, FreshInv, ClosedInv, AbandonPc
  <2> QED
    BY <2>1, <2>2, <2>3
<1>2. ASSUME BaseInv, TakeShutdown PROVE BaseInv'
  <2> USE <1>2 DEF TakeShutdown
  <2>1. TypeOK'
    BY DEF TypeOK, Labels, AbandonPc
  <2>2. LabelsInv' /\ LocalsInv' /\ TasksInv'
    BY DEF LabelsInv, LocalsInv, TasksInv, FreshInv, TypeOK, Connected, Sending, Handshake,
        LossPc, AbandonPc
  <2>3. MutexInv' /\ FreshInv' /\ ClosedInv'
    BY DEF MutexInv, LabelsInv, TypeOK, Handshake, FreshInv, ClosedInv, AbandonPc, NoGeneration
  <2> QED
    BY <2>1, <2>2, <2>3
<1> QED
    BY <1>1, <1>2
-----------------------------------------------------------------------------
(* Ownership of the teardown *)

OwnInv == SingleTeardown /\ AnnouncedOnce /\ NoUnsupervisedChild

\* A step that neither starts nor ends a teardown.
LEMMA QuietStep ==
    ASSUME OwnInv,
           UNCHANGED <<running, closedEvents, stop>>,
           \A q \in Procs : Tearing(q)' <=> Tearing(q),
           \A q \in Procs : Tearing(q) => conn'[q] = conn[q],
           \A g \in Generations : child'[g] = "alive" => child[g] = "alive"
    PROVE  OwnInv'
<1>1. SingleTeardown'
    BY DEF OwnInv, SingleTeardown, TornDown
<1>2. \A g \in Generations : TornDown(g)' <=> TornDown(g)
    BY DEF TornDown
<1>3. AnnouncedOnce' /\ NoUnsupervisedChild'
    BY <1>2 DEF OwnInv, AnnouncedOnce, NoUnsupervisedChild
<1> QED
    BY <1>1, <1>3 DEF OwnInv

\* A task takes the running generation and starts its teardown.
LEMMA TakeStep ==
    ASSUME OwnInv, NEW p \in Procs,
           running \in Generations, running' = NoGeneration,
           UNCHANGED <<closedEvents, stop, child>>,
           ~Tearing(p), conn'[p] = running, Tearing(p)',
           \A q \in Procs : q # p => (Tearing(q)' <=> Tearing(q)) /\ conn'[q] = conn[q],
           \A q \in Procs : Tearing(q) => conn[q] \in Generations
    PROVE  OwnInv'
<1>1. \A q \in Procs : q # p /\ Tearing(q)' => conn'[q] \in Generations \ {running}
    BY DEF OwnInv, SingleTeardown, TornDown
<1>2. SingleTeardown'
    BY <1>1 DEF OwnInv, SingleTeardown, TornDown, Generations, NoGeneration
<1>3. \A g \in Generations : TornDown(g)' <=> TornDown(g) \/ g = running
    BY DEF TornDown
<1>4. AnnouncedOnce'
    BY <1>3 DEF OwnInv, AnnouncedOnce, Generations, NoGeneration
<1>5. NoUnsupervisedChild'
    BY <1>3 DEF OwnInv, NoUnsupervisedChild
<1> QED
    BY <1>2, <1>4, <1>5 DEF OwnInv

\* The owner of a teardown ends it: the process is told to stop and its loss
\* may be announced.
LEMMA FinishStep ==
    ASSUME TypeOK, OwnInv, NEW p \in Procs,
           Tearing(p), ~Tearing(p)', conn[p] \in Generations,
           UNCHANGED <<running, child>>,
           stop' = [stop EXCEPT ![conn[p]] = TRUE],
           \/ closedEvents' = closedEvents
           \/ closedEvents' = [closedEvents EXCEPT ![conn[p]] = @ + 1],
           \A q \in Procs : q # p => (Tearing(q)' <=> Tearing(q)) /\ conn'[q] = conn[q]
    PROVE  OwnInv'
<1>1. /\ stop \in [Generations -> BOOLEAN]
      /\ closedEvents \in [Generations -> Nat]
    BY DEF TypeOK
<1>2. \A g \in Generations : TornDown(g)' <=> TornDown(g) /\ g # conn[p]
    BY DEF TornDown, OwnInv, SingleTeardown
<1>3. SingleTeardown'
    BY DEF OwnInv, SingleTeardown, TornDown
<1>4. TornDown(conn[p]) /\ running # conn[p]
    BY DEF TornDown, OwnInv, SingleTeardown
<1>5. closedEvents[conn[p]] = 0
    BY <1>1, <1>4 DEF OwnInv, AnnouncedOnce
<1>6. AnnouncedOnce'
    BY <1>1, <1>2, <1>4, <1>5 DEF OwnInv, AnnouncedOnce
<1>7. NoUnsupervisedChild'
    BY <1>1, <1>2 DEF OwnInv, NoUnsupervisedChild
<1> QED
    BY <1>3, <1>6, <1>7 DEF OwnInv

\* No other step of a client touches a teardown.
LEMMA ClientOwn ==
    ASSUME NEW c \in Clients, BaseInv, OwnInv,
           \/ BeginRequest(c) \/ EnsureRejected(c) \/ EnsureReuses(c) \/ EnsureStarts(c)
           \/ ResolveFails(c) \/ SendInitialized(c) \/ InitializedBroken(c)
           \/ CancelHandshake(c) \/ InsertPending(c) \/ InsertExhausted(c) \/ CheckClosed(c)
           \/ CheckOpen(c) \/ WriteRequest(c) \/ WriteBroken(c) \/ ReceiveReply(c)
           \/ ReceiveInitialize(c) \/ ReceiveFailure(c) \/ RequestTimeout(c)
    PROVE  OwnInv'
<1> USE ProcKinds DEF BaseInv, TypeOK, Tearing, supervisor, requests, process, Goto, Return, OnError
<1>1. CASE BeginRequest(c)
    BY <1>1, QuietStep DEF BeginRequest, Handshake
<1>2. CASE EnsureRejected(c)
    BY <1>2, QuietStep DEF EnsureRejected, Handshake
<1>3. CASE EnsureReuses(c)
    BY <1>3, QuietStep DEF EnsureReuses, Handshake
<1>4. CASE EnsureStarts(c)
    BY <1>4, QuietStep DEF EnsureStarts, Handshake
<1>5. CASE ResolveFails(c)
    BY <1>5, QuietStep DEF ResolveFails, Handshake
<1>6. CASE SendInitialized(c)
    BY <1>6, QuietStep DEF SendInitialized, Handshake
<1>7. CASE InitializedBroken(c)
    BY <1>7, QuietStep DEF InitializedBroken, Handshake
<1>8. CASE CancelHandshake(c)
    BY <1>8, QuietStep DEF CancelHandshake, Handshake
<1>9. CASE InsertPending(c)
    BY <1>9, QuietStep DEF InsertPending, Handshake
<1>10. CASE InsertExhausted(c)
    BY <1>10, QuietStep DEF InsertExhausted, Handshake
<1>11. CASE CheckClosed(c)
    BY <1>11, QuietStep DEF CheckClosed, Handshake
<1>12. CASE CheckOpen(c)
    BY <1>12, QuietStep DEF CheckOpen, Handshake
<1>13. CASE WriteRequest(c)
    BY <1>13, QuietStep DEF WriteRequest, Handshake
<1>14. CASE WriteBroken(c)
    BY <1>14, QuietStep DEF WriteBroken, Handshake
<1>15. CASE ReceiveReply(c)
    BY <1>15, QuietStep DEF ReceiveReply, Handshake
<1>16. CASE ReceiveInitialize(c)
    BY <1>16, QuietStep DEF ReceiveInitialize, Handshake
<1>17. CASE ReceiveFailure(c)
    BY <1>17, QuietStep DEF ReceiveFailure, Handshake
<1>18. CASE RequestTimeout(c)
    BY <1>18, QuietStep DEF RequestTimeout, Handshake
<1> QED
    BY <1>1, <1>2, <1>3, <1>4, <1>5, <1>6, <1>7, <1>8, <1>9, <1>10, <1>11, <1>12, <1>13, <1>14,
        <1>15, <1>16, <1>17, <1>18

\* A responder never tears anything down.
LEMMA ResponderOwn ==
    ASSUME NEW r \in Responders, BaseInv, OwnInv,
           \/ LookUpConnection(r) \/ StaleResponse(r) \/ WriteResponse(r) \/ ResponseBroken(r)
           \/ ResponseTimeout(r)
    PROVE  OwnInv'
<1> USE ProcKinds DEF BaseInv, TypeOK, Tearing, supervisor, requests, process, Goto, Return, OnError
<1>1. CASE LookUpConnection(r)
    BY <1>1, QuietStep DEF LookUpConnection
<1>2. CASE StaleResponse(r)
    BY <1>2, QuietStep DEF StaleResponse
<1>3. CASE WriteResponse(r)
    BY <1>3, QuietStep DEF WriteResponse
<1>4. CASE ResponseBroken(r)
    BY <1>4, QuietStep DEF ResponseBroken
<1>5. CASE ResponseTimeout(r)
    BY <1>5, QuietStep DEF ResponseTimeout
<1> QED
    BY <1>1, <1>2, <1>3, <1>4, <1>5

\* Reporting a loss too late and failing the requests leave the ownership.
LEMMA TeardownOwn ==
    ASSUME NEW p \in Procs, BaseInv, OwnInv,
           LostAlready(p) \/ PurgeLost(p) \/ PurgeAbandoned(p)
    PROVE  OwnInv'
<1> USE ProcKinds DEF BaseInv, TypeOK, Tearing, supervisor, requests, process, Goto, Return, OnError
<1>1. CASE LostAlready(p)
    BY <1>1, QuietStep DEF LostAlready
<1>2. CASE PurgeLost(p)
    BY <1>2, QuietStep DEF PurgeLost
<1>3. CASE PurgeAbandoned(p)
    BY <1>3, QuietStep DEF PurgeAbandoned
<1> QED
    BY <1>1, <1>2, <1>3

\* Nothing a process or its tasks read changes the ownership.
LEMMA ProcessOwn ==
    ASSUME NEW g \in Generations, BaseInv, OwnInv,
           \/ ReadResponse(g) \/ ReadEof(g) \/ ReadFails(g) \/ ReapChild(g) \/ ChildAnswers(g)
           \/ ChildExits(g)
    PROVE  OwnInv'
<1> USE ProcKinds DEF BaseInv, TypeOK, Tearing, supervisor, requests, process, Goto, Return, OnError
<1>1. CASE ReadResponse(g)
    BY <1>1, QuietStep DEF ReadResponse, Die
<1>2. CASE ReadEof(g)
    BY <1>2, QuietStep DEF ReadEof, Die
<1>3. CASE ReadFails(g)
    BY <1>3, QuietStep DEF ReadFails, Die
<1>4. CASE ReapChild(g)
    BY <1>4, QuietStep DEF ReapChild, Die
<1>5. CASE ChildAnswers(g)
    BY <1>5, QuietStep DEF ChildAnswers, Die
<1>6. CASE ChildExits(g)
    BY <1>6, QuietStep DEF ChildExits, Die
<1> QED
    BY <1>1, <1>2, <1>3, <1>4, <1>5, <1>6

\* A new generation has no history and nobody tears it down.
LEMMA SpawnOwn ==
    ASSUME NEW c \in Clients, BaseInv, OwnInv, Spawn(c)
    PROVE  OwnInv'
<1> DEFINE g == nextGeneration
<1>1. /\ g \in Generations /\ c \in Procs /\ pc[c] = "resolve"
      /\ running = NoGeneration /\ running' = g
      /\ child' = [child EXCEPT ![g] = "alive"]
      /\ conn' = [conn EXCEPT ![c] = g]
      /\ UNCHANGED <<stop, closedEvents>>
    BY ProcKinds, BoundsAssumption DEF BaseInv, TypeOK, MutexInv, Spawn, Generations, Exhausted
<1>2. PICK r \in Tasks, w \in Tasks : r = <<"reader", g>> /\ w = <<"waiter", g>>
    BY <1>1, ProcKinds
<1>3. pc' = [pc EXCEPT ![c] = "insert", ![r] = "run", ![w] = "run"]
    BY <1>2 DEF Spawn
<1>4. pc[r] = "off" /\ pc[w] = "off"
    BY <1>1, <1>2, ProcKinds DEF BaseInv, TypeOK, LocalsInv, TasksInv, Generations
<1>5. \A q \in Procs : (Tearing(q)' <=> Tearing(q)) /\ (Tearing(q) => conn'[q] = conn[q])
    BY <1>1, <1>2, <1>3, <1>4, ProcKinds DEF BaseInv, TypeOK, Tearing
<1>6. \A q \in Procs : Tearing(q) => conn[q] \in Generations /\ conn[q] < g
    BY DEF BaseInv, LocalsInv, Tearing, Connected
<1>7. ~TornDown(g)
    BY <1>6, <1>1 DEF TornDown, Generations
<1>8. \A h \in Generations \cup {NoGeneration} : TornDown(h)' <=> TornDown(h)
    BY <1>5 DEF TornDown
<1>9. SingleTeardown'
    BY <1>1, <1>5, <1>7, <1>8 DEF OwnInv, SingleTeardown
<1>10. AnnouncedOnce'
  <2>1. closedEvents[g] = 0
    BY <1>1 DEF BaseInv, FreshInv, TypeOK, Generations
  <2> QED
    BY <2>1, <1>1, <1>8 DEF OwnInv, AnnouncedOnce
<1>11. NoUnsupervisedChild'
    BY <1>1, <1>8 DEF OwnInv, NoUnsupervisedChild, BaseInv, TypeOK, NoGeneration, Generations
<1> QED
    BY <1>9, <1>10, <1>11 DEF OwnInv

\* Three steps take the running generation away.
LEMMA TakeOwn ==
    ASSUME BaseInv, OwnInv,
           \/ \E c \in Clients : AbortStartup(c)
           \/ \E p \in Procs : TakeLost(p)
           \/ TakeShutdown
    PROVE  OwnInv'
<1> USE ProcKinds DEF BaseInv, supervisor, requests, process, Goto
<1>1. \A q \in Procs : Tearing(q) => conn[q] \in Generations
    BY DEF LocalsInv, Tearing, Connected
<1>2. ASSUME NEW c \in Clients, AbortStartup(c) PROVE OwnInv'
  <2>1. running = conn[c] /\ running \in Generations
    BY <1>2 DEF AbortStartup, MutexInv, LocalsInv, Connected
  <2> QED
    BY <1>1, <1>2, <2>1, TakeStep DEF AbortStartup, TypeOK, Tearing
<1>3. ASSUME NEW p \in Procs, TakeLost(p) PROVE OwnInv'
  <2>1. running = conn[p] /\ running \in Generations
    BY <1>3 DEF TakeLost, OwnsRunning, LocalsInv, Connected
  <2> QED
    BY <1>1, <1>3, <2>1, TakeStep DEF TakeLost, TakeRunning, TypeOK, Tearing
<1>4. CASE TakeShutdown /\ running # NoGeneration
  <2>1. running \in Generations
    BY <1>4 DEF TypeOK
  <2> QED
    BY <1>1, <1>4, <2>1, TakeStep DEF TakeShutdown, TypeOK, Tearing
<1>5. CASE TakeShutdown /\ running = NoGeneration
    BY <1>5, QuietStep DEF TakeShutdown, TypeOK, Tearing
<1> QED
    BY <1>2, <1>3, <1>4, <1>5

\* Two steps end a teardown.
LEMMA FinishOwn ==
    ASSUME BaseInv, OwnInv, NEW p \in Procs, AnnounceLost(p) \/ ReleaseAbandoned(p)
    PROVE  OwnInv'
<1>1. Returned(p)
    BY ReturnFacts DEF BaseInv, AnnounceLost, ReleaseAbandoned
<1>2. Tearing(p) /\ ~Tearing(p)'
    BY <1>1 DEF Returned, Tearing, AnnounceLost, ReleaseAbandoned
<1>3. conn[p] \in Generations
    BY <1>2 DEF BaseInv, LocalsInv, Tearing, Connected
<1>4. \A q \in Procs : q # p => (Tearing(q)' <=> Tearing(q)) /\ conn'[q] = conn[q]
    BY <1>1 DEF Returned, Tearing
<1> QED
    BY <1>2, <1>3, <1>4, FinishStep DEF BaseInv, AnnounceLost, ReleaseAbandoned, supervisor, process

\* The first steps of shutdown and of a response leave the ownership.
LEMMA BeginOwn ==
    ASSUME BaseInv, OwnInv,
           BeginShutdown \/ \E r \in Responders, g \in Generations : BeginResponse(r, g)
    PROVE  OwnInv'
<1> USE ProcKinds DEF BaseInv, TypeOK, Tearing, supervisor, requests, process, Goto
<1>1. CASE BeginShutdown
    BY <1>1, QuietStep DEF BeginShutdown
<1>2. ASSUME NEW r \in Responders, NEW g \in Generations, BeginResponse(r, g) PROVE OwnInv'
    BY <1>2, QuietStep DEF BeginResponse
<1> QED
    BY <1>1, <1>2

-----------------------------------------------------------------------------
(* The theorems *)

\* The invariant is inductive.
LEMMA NextIInv == IInv /\ [Next]_vars => IInv'
<1> SUFFICES ASSUME BaseInv, OwnInv, [Next]_vars PROVE BaseInv' /\ OwnInv'
    BY DEF IInv, BaseInv, OwnInv
<1>1. ASSUME NEW c \in Clients, BeginRequest(c) \/ ClientStep(c) PROVE BaseInv' /\ OwnInv'
  <2>1. BaseInv'
    BY <1>1, ClientBase, SpawnBase DEF ClientStep, EnsureRunning
  <2>2. OwnInv'
    BY <1>1, ClientOwn, SpawnOwn, TakeOwn DEF ClientStep, EnsureRunning
  <2> QED
    BY <2>1, <2>2
<1>2. ASSUME NEW r \in Responders, ResponderStep(r) PROVE BaseInv' /\ OwnInv'
    BY <1>2, ResponderOwn, ResponderBase DEF ResponderStep
<1>3. ASSUME NEW r \in Responders, NEW g \in Generations, BeginResponse(r, g)
      PROVE  BaseInv' /\ OwnInv'
    BY <1>3, BeginResponseBase, BeginOwn
<1>4. ASSUME NEW p \in Procs, TeardownStep(p) PROVE BaseInv' /\ OwnInv'
  <2>1. BaseInv'
    BY <1>4, TeardownBase DEF TeardownStep
  <2>2. OwnInv'
    BY <1>4, TeardownOwn, TakeOwn, FinishOwn DEF TeardownStep
  <2> QED
    BY <2>1, <2>2
<1>5. ASSUME NEW g \in Generations, ProcessNext(g) PROVE BaseInv' /\ OwnInv'
    BY <1>5, ProcessOwn, ProcessBase DEF ProcessNext
<1>6. CASE BeginShutdown \/ TakeShutdown
    BY <1>6, ShutdownBase, BeginOwn, TakeOwn
<1>7. CASE UNCHANGED vars
  <2>1. BaseInv'
    BY <1>7 DEF BaseInv, TypeOK, LabelsInv, LocalsInv, TasksInv, MutexInv, FreshInv, ClosedInv,
        vars, supervisor, requests, process
  <2>2. OwnInv'
    BY <1>7, QuietStep DEF Tearing, vars, supervisor, process
  <2> QED
    BY <2>1, <2>2
<1> QED
    BY <1>1, <1>2, <1>3, <1>4, <1>5, <1>6, <1>7 DEF Next

\* Every behaviour of the supervisor stays within the invariant.
THEOREM Invariance == Spec => []IInv
<1> QED
    BY InitIInv, NextIInv, PTL DEF Spec

\* Every variable of the supervisor keeps its type.
THEOREM TypeCorrect == Spec => []TypeOK
<1>1. IInv => TypeOK
    BY DEF IInv
<1> QED
    BY <1>1, Invariance, PTL

\* A generation is torn down by one task only and announced at most once,
\* whoever reports its loss and in whatever order.
THEOREM TeardownSafety == Spec => [](SingleTeardown /\ AnnouncedOnce)
<1>1. IInv => SingleTeardown /\ AnnouncedOnce
    BY DEF IInv
<1> QED
    BY <1>1, Invariance, PTL

\* No Codex process outlives its supervision, nothing runs and nothing starts
\* once shutdown has returned.
THEOREM ChildrenSupervised == Spec => []ProcessesSupervised
<1>1. IInv => NoUnsupervisedChild
    BY DEF IInv
<1>2. IInv => ShutdownIsFinal
    BY DEF IInv, ClosedInv, ShutdownIsFinal
<1>3. IInv => ProcessesSupervised
    BY <1>1, <1>2 DEF ProcessesSupervised
<1> QED
    BY <1>3, Invariance, PTL

-----------------------------------------------------------------------------
(* Requests and the pending table *)

EntryOf(c) == [id |-> req[c], gen |-> conn[c]]

\* A client whose request is registered and that was told nothing is in the table,
\* under an id of its own.
ReachInv ==
    /\ \A c \in Clients : pc[c] \in Sending /\ reply[c] = "none" => EntryOf(c) \in pending
    /\ \A c \in Clients : pc[c] \in Sending => req[c] < nextRequestId
    /\ \A c, d \in Clients : pc[c] \in Sending /\ pc[d] \in Sending /\ req[c] = req[d] => c = d

\* What a step that registers nothing does to a client that goes on sending.
Carries(c) ==
    pc'[c] \in Sending =>
        /\ pc[c] \in Sending
        /\ req'[c] = req[c]
        /\ conn'[c] = conn[c]
        /\ reply'[c] = "none" => reply[c] = "none" /\ (EntryOf(c) \in pending => EntryOf(c) \in pending')

\* Such a step keeps everybody reachable.
LEMMA ReachKept ==
    ASSUME ReachInv, UNCHANGED nextRequestId, \A c \in Clients : Carries(c)
    PROVE  ReachInv'
<1>1. ASSUME NEW c \in Clients, pc'[c] \in Sending
      PROVE  /\ reply'[c] = "none" => [id |-> req'[c], gen |-> conn'[c]] \in pending'
             /\ req'[c] < nextRequestId'
             /\ pc[c] \in Sending
             /\ req'[c] = req[c]
    BY <1>1 DEF Carries, ReachInv, EntryOf
<1> QED
    BY <1>1 DEF ReachInv, EntryOf

\* One task moves, and the table and what was answered stay.
LEMMA OneMoves ==
    ASSUME NEW p \in Procs, UNCHANGED requests,
           \A q \in Procs : q # p => pc'[q] = pc[q] /\ conn'[q] = conn[q],
           pc'[p] \in Sending => pc[p] \in Sending /\ conn'[p] = conn[p]
    PROVE  \A c \in Clients : Carries(c)
BY ProcKinds DEF Carries, requests

\* One task returns.
LEMMA OneReturns ==
    ASSUME NEW p \in Procs, TypeOK, UNCHANGED pending, Return(p)
    PROVE  \A c \in Clients : Carries(c)
<1>1. Returned(p)
    BY ReturnFacts
<1>2. pc'[p] \notin Sending
    BY <1>1 DEF Returned, Sending
<1> QED
    BY <1>1, <1>2, ProcKinds DEF Carries, Returned

\* A request is given up by its own future.
LEMMA OneForgets ==
    ASSUME NEW c \in Clients, TypeOK, ReachInv, pc[c] \in Sending, Forget(req[c]),
           UNCHANGED <<req, reply, conn>>, Goto(c, OnError(c))
    PROVE  \A d \in Clients : Carries(d)
<1>1. ASSUME NEW d \in Clients, pc'[d] \in Sending PROVE Carries(d)
  <2>1. d # c /\ pc'[d] = pc[d]
    BY <1>1, ProcKinds DEF Goto, OnError, TypeOK, Sending
  <2>2. req[d] # req[c]
    BY <1>1, <2>1 DEF ReachInv
  <2>3. EntryOf(d) \in pending => EntryOf(d) \in pending'
    BY <2>2 DEF Forget, EntryOf
  <2> QED
    BY <1>1, <2>1, <2>3 DEF Carries
<1> QED
    BY <1>1 DEF Carries

\* The requests of a generation fail together: each is told.
LEMMA OneFails ==
    ASSUME NEW p \in Procs, NEW g, NEW label \in {"announce", "release"}, TypeOK,
           FailPendingGeneration(g), Goto(p, label), UNCHANGED <<req, conn>>
    PROVE  \A c \in Clients : Carries(c)
<1>1. ASSUME NEW c \in Clients, pc'[c] \in Sending PROVE Carries(c)
  <2>1. pc'[c] = pc[c]
    BY <1>1, ProcKinds DEF Goto, TypeOK, Sending
  <2>2. reply'[c] = IF [id |-> req[c], gen |-> g] \in pending THEN "failed" ELSE reply[c]
    BY DEF FailPendingGeneration
  <2>3. ASSUME reply'[c] = "none", EntryOf(c) \in pending PROVE EntryOf(c) \in pending'
    <3>1. conn[c] # g
      BY <2>2, <2>3 DEF EntryOf
    <3> QED
      BY <2>3, <3>1 DEF FailPendingGeneration, EntryOf
  <2>4. reply'[c] = "none" => reply[c] = "none"
    BY <2>2
  <2> QED
    BY <1>1, <2>1, <2>3, <2>4 DEF Carries
<1> QED
    BY <1>1 DEF Carries

\* An answer is delivered to the request whose entry it takes away.
LEMMA OneIsAnswered ==
    ASSUME NEW g \in Generations, TypeOK, ReadResponse(g)
    PROVE  \A c \in Clients : Carries(c)
<1>1. PICK r \in stdout[g] :
          /\ pending' = pending \ {[id |-> r[1], gen |-> g]}
          /\ reply' = [c \in Clients |->
                          IF req[c] = r[1] /\ [id |-> r[1], gen |-> g] \in pending
                          THEN r[2] ELSE reply[c]]
    BY DEF ReadResponse
<1>2. r[2] \in {"result", "rpcError"}
    BY DEF TypeOK
<1>3. UNCHANGED <<req, pc, conn>>
    BY DEF ReadResponse
<1>4. ASSUME NEW c \in Clients PROVE Carries(c)
  <2>1. reply'[c] = IF req[c] = r[1] /\ [id |-> r[1], gen |-> g] \in pending THEN r[2] ELSE reply[c]
    BY <1>1
  <2>2. ASSUME reply'[c] = "none", EntryOf(c) \in pending PROVE EntryOf(c) \in pending'
    <3>1. EntryOf(c) # [id |-> r[1], gen |-> g]
      BY <1>2, <2>1, <2>2 DEF EntryOf
    <3> QED
      BY <1>1, <2>2, <3>1
  <2>3. reply'[c] = "none" => reply[c] = "none"
    BY <1>2, <2>1
  <2> QED
    BY <1>3, <2>2, <2>3 DEF Carries
<1> QED
    BY <1>4

\* A new id is nobody else's.
LEMMA OneRegisters ==
    ASSUME NEW c \in Clients, IInv, ReachInv, InsertPending(c)
    PROVE  ReachInv'
<1>0. TypeOK /\ LocalsInv /\ c \in Procs
    BY ProcKinds DEF IInv
<1>1. /\ nextRequestId' = nextRequestId + 1
      /\ req' = [req EXCEPT ![c] = nextRequestId]
      /\ reply' = [reply EXCEPT ![c] = "none"]
      /\ pending' = pending \cup {[id |-> nextRequestId, gen |-> conn[c]]}
      /\ pc' = [pc EXCEPT ![c] = "check"]
      /\ UNCHANGED conn
    BY DEF InsertPending, Goto
<1>2. nextRequestId \in Nat /\ req'[c] = nextRequestId /\ req'[c] < nextRequestId'
    BY <1>0, <1>1 DEF TypeOK
<1>3. EntryOf(c)' \in pending'
    BY <1>1, <1>2 DEF EntryOf
<1>4. ASSUME NEW d \in Clients, d # c, pc'[d] \in Sending
      PROVE  /\ pc[d] \in Sending
             /\ req'[d] = req[d] /\ req[d] < nextRequestId /\ req[d] \in Nat
             /\ reply'[d] = "none" => EntryOf(d)' \in pending'
  <2>1. /\ pc'[d] = pc[d] /\ req'[d] = req[d] /\ reply'[d] = reply[d]
    BY <1>0, <1>1, <1>4, ProcKinds DEF TypeOK
  <2>2. req[d] \in Nat
    BY <1>0, <1>4, <2>1, BoundsAssumption DEF LocalsInv, RequestIds
  <2>3. reply'[d] = "none" => EntryOf(d) \in pending
    BY <1>4, <2>1 DEF ReachInv
  <2> QED
    BY <1>1, <1>4, <2>1, <2>2, <2>3 DEF ReachInv, EntryOf
<1>5. \A d \in Clients : pc'[d] \in Sending /\ d # c => req'[d] # req'[c] /\ req'[d] < nextRequestId'
    BY <1>1, <1>2, <1>4
<1>6. \A d, e \in Clients : pc'[d] \in Sending /\ pc'[e] \in Sending /\ req'[d] = req'[e] => d = e
  <2>1. ASSUME NEW d \in Clients, NEW e \in Clients, pc'[d] \in Sending, pc'[e] \in Sending,
               req'[d] = req'[e]
        PROVE  d = e
    <3>1. CASE d = c \/ e = c
      BY <1>5, <2>1, <3>1
    <3>2. CASE d # c /\ e # c
      BY <1>4, <2>1, <3>2 DEF ReachInv
    <3> QED
      BY <3>1, <3>2
  <2> QED
    BY <2>1
<1> QED
    BY <1>2, <1>3, <1>4, <1>5, <1>6 DEF ReachInv

\* Every step keeps everybody reachable.
LEMMA ReachStep ==
    ASSUME IInv, ReachInv, [Next]_vars
    PROVE  ReachInv'
<1>0. TypeOK
    BY DEF IInv
<1> USE DEF supervisor, process
<1>a. pc \in [Procs -> Labels] /\ conn \in [Procs -> Generations \cup {NoGeneration}]
    BY <1>0 DEF TypeOK
\* A task goes somewhere it does not send from, or goes on sending.
<1>b. ASSUME NEW p \in Procs, NEW label, Goto(p, label), UNCHANGED <<requests, nextRequestId>>,
             \A q \in Procs : q # p => conn'[q] = conn[q],
             label \notin Sending \/ (pc[p] \in Sending /\ UNCHANGED conn)
      PROVE  ReachInv'
  <2>1. \A c \in Clients : Carries(c)
    BY <1>a, <1>b, OneMoves DEF Goto
  <2> QED
    BY <1>b, <2>1, ReachKept
<1>c. ASSUME NEW p \in Procs, Return(p), UNCHANGED <<pending, nextRequestId>> PROVE ReachInv'
    BY <1>0, <1>c, OneReturns, ReachKept
<1>1. ASSUME NEW c \in Clients, BeginRequest(c) \/ ClientStep(c) PROVE ReachInv'
  <2>0. c \in Procs
    BY ProcKinds
  <2>1. CASE EnsureRejected(c) \/ ResolveFails(c) \/ ReceiveReply(c)
    BY <1>c, <2>0, <2>1 DEF EnsureRejected, ResolveFails, ReceiveReply
  <2>2. CASE BeginRequest(c) \/ EnsureStarts(c) \/ SendInitialized(c) \/ InitializedBroken(c)
    BY <1>b, <2>0, <2>2 DEF BeginRequest, EnsureStarts, SendInitialized, InitializedBroken, Sending
  <2>3. CASE EnsureReuses(c)
    <3>1. \A q \in Procs : q # c => conn'[q] = conn[q]
      BY <1>a, <2>3 DEF EnsureReuses
    <3> QED
      BY <1>b, <2>0, <2>3, <3>1 DEF EnsureReuses, Sending
  <2>4. CASE CancelHandshake(c) \/ AbortStartup(c)
    BY <1>b, <2>0, <2>4 DEF CancelHandshake, AbortStartup, Sending
  <2>5. CASE ReceiveInitialize(c) \/ RequestTimeout(c)
    BY <1>b, <2>0, <2>5 DEF ReceiveInitialize, RequestTimeout, Sending
  <2>6. CASE InsertExhausted(c) \/ ReceiveFailure(c)
    <3>1. OnError(c) \notin Sending
      BY DEF OnError, Sending
    <3> QED
      BY <1>b, <2>0, <2>6, <3>1 DEF InsertExhausted, ReceiveFailure
  <2>7. CASE CheckOpen(c) \/ WriteRequest(c)
    BY <1>b, <2>0, <2>7 DEF CheckOpen, WriteRequest, Sending
  <2>8. CASE CheckClosed(c) \/ WriteBroken(c)
    <3>1. pc[c] \in Sending
      BY <2>8 DEF CheckClosed, WriteBroken, Sending
    <3>2. \A d \in Clients : Carries(d)
      BY <1>0, <2>8, <3>1, OneForgets DEF CheckClosed, WriteBroken
    <3> QED
      BY <2>8, <3>2, ReachKept DEF CheckClosed, WriteBroken
  <2>9. CASE InsertPending(c)
    BY <2>9, OneRegisters
  <2>10. CASE Spawn(c)
    <3>1. /\ UNCHANGED <<requests, nextRequestId>>
          /\ pc' = [pc EXCEPT ![c] = "insert",
                              ![<<"reader", nextGeneration>>] = "run",
                              ![<<"waiter", nextGeneration>>] = "run"]
          /\ conn' = [conn EXCEPT ![c] = nextGeneration]
      BY <2>10 DEF Spawn
    <3>2. ASSUME NEW d \in Clients, pc'[d] \in Sending PROVE d # c /\ pc'[d] = pc[d] /\ conn'[d] = conn[d]
      BY <1>a, <3>1, <3>2, ProcKinds DEF Sending
    <3>3. \A d \in Clients : Carries(d)
      BY <3>1, <3>2 DEF Carries, requests
    <3> QED
      BY <3>1, <3>3, ReachKept
  <2> QED
    BY <1>1, <2>1, <2>2, <2>3, <2>4, <2>5, <2>6, <2>7, <2>8, <2>9, <2>10 DEF ClientStep, EnsureRunning
<1>2. ASSUME NEW r \in Responders, ResponderStep(r) PROVE ReachInv'
  <2>0. r \in Procs
    BY ProcKinds
  <2>1. CASE StaleResponse(r) \/ WriteResponse(r) \/ ResponseTimeout(r)
    BY <1>c, <2>0, <2>1 DEF StaleResponse, WriteResponse, ResponseTimeout, requests
  <2>2. CASE LookUpConnection(r) \/ ResponseBroken(r)
    BY <1>b, <2>0, <2>2 DEF LookUpConnection, ResponseBroken, Sending
  <2> QED
    BY <1>2, <2>1, <2>2 DEF ResponderStep
<1>3. ASSUME NEW r \in Responders, NEW g \in Generations, BeginResponse(r, g) PROVE ReachInv'
  <2>1. \A q \in Procs : q # r => conn'[q] = conn[q]
    BY <1>a, <1>3 DEF BeginResponse
  <2> QED
    BY <1>b, <1>3, <2>1, ProcKinds DEF BeginResponse, Sending
<1>4. ASSUME NEW p \in Procs, TeardownStep(p) PROVE ReachInv'
  <2>1. CASE TakeLost(p)
    BY <1>b, <2>1 DEF TakeLost, Sending
  <2>2. CASE LostAlready(p) \/ AnnounceLost(p) \/ ReleaseAbandoned(p)
    BY <1>c, <2>2 DEF LostAlready, AnnounceLost, ReleaseAbandoned
  <2>3. CASE PurgeLost(p) \/ PurgeAbandoned(p)
    <3>1. PICK g : g = conn[p]
      OBVIOUS
    <3>2. PICK label \in {"announce", "release"} : Goto(p, label)
      BY <2>3 DEF PurgeLost, PurgeAbandoned
    <3>3. FailPendingGeneration(g) /\ UNCHANGED <<req, conn, nextRequestId>>
      BY <2>3, <3>1 DEF PurgeLost, PurgeAbandoned
    <3>4. \A c \in Clients : Carries(c)
      BY <1>0, <3>2, <3>3, OneFails
    <3> QED
      BY <3>3, <3>4, ReachKept
  <2> QED
    BY <1>4, <2>1, <2>2, <2>3 DEF TeardownStep
<1>5. ASSUME NEW g \in Generations, ProcessNext(g) PROVE ReachInv'
  <2>1. CASE ReadResponse(g)
    BY <1>0, <2>1, OneIsAnswered, ReachKept DEF ReadResponse
  <2>2. CASE ReadEof(g) \/ ReadFails(g) \/ ReapChild(g)
    <3>1. <<"reader", g>> \in Procs /\ <<"waiter", g>> \in Procs
      BY ProcKinds
    <3> QED
      BY <1>b, <2>2, <3>1 DEF ReadEof, ReadFails, ReapChild, Sending
  <2>3. CASE ChildAnswers(g) \/ ChildExits(g)
    <3>1. UNCHANGED <<requests, pc, conn, nextRequestId>>
      BY <2>3 DEF ChildAnswers, ChildExits
    <3>2. \A c \in Clients : Carries(c)
      BY <3>1 DEF Carries, requests
    <3> QED
      BY <3>1, <3>2, ReachKept
  <2> QED
    BY <1>5, <2>1, <2>2, <2>3 DEF ProcessNext
<1>6. CASE BeginShutdown
    BY <1>b, <1>6, ProcKinds DEF BeginShutdown, Sending
<1>7. CASE TakeShutdown
  <2>1. \A q \in Procs : q # Stopper => conn'[q] = conn[q]
    BY <1>a, <1>7 DEF TakeShutdown
  <2>2. PICK label \in {"done", "abandon"} : Goto(Stopper, label)
    BY <1>7 DEF TakeShutdown
  <2> QED
    BY <1>b, <1>7, <2>1, <2>2, ProcKinds DEF TakeShutdown, Sending
<1>8. CASE UNCHANGED vars
  <2>1. \A c \in Clients : Carries(c)
    BY <1>8 DEF Carries, vars, requests
  <2> QED
    BY <1>8, <2>1, ReachKept DEF vars
<1> QED
    BY <1>1, <1>2, <1>3, <1>4, <1>5, <1>6, <1>7, <1>8 DEF Next

\* No request waits on the running generation that neither a response nor the
\* loss of the connection would find, however often other requests time out, are
\* torn down or take ids (send_request_on, fail_pending_generation, handle_frame).
THEOREM AwaitedAlwaysReachable == Spec => []AwaitedIsReachable
<1>1. Init => ReachInv
    BY ProcsAssumption DEF Init, ReachInv, Sending, Procs, Callers
<1>2. IInv /\ ReachInv /\ [Next]_vars => ReachInv'
    BY ReachStep
<1>3. ReachInv => AwaitedIsReachable
    BY DEF ReachInv, AwaitedIsReachable, EntryOf, Sending
<1> QED
    BY <1>1, <1>2, <1>3, Invariance, PTL DEF Spec

-----------------------------------------------------------------------------
(***************************************************************************)
(* The supervisor implements the contract of module Transport: each step   *)
(* of the detailed specification is a step of the abstract one, or leaves  *)
(* the abstract state alone.                                               *)
(***************************************************************************)

Owing(p) == pc[p] \in {"purge", "announce"}

\* A step that leaves the generations and the announcements alone.
LEMMA QuietMap ==
    ASSUME UNCHANGED <<running, closed, nextGeneration, closedEvents>>,
           Ready' <=> Ready,
           \A q \in Procs : Owing(q)' <=> Owing(q),
           \A q \in Procs : Owing(q) => conn'[q] = conn[q]
    PROVE  UNCHANGED T!transportVars
<1>1. Owed' = Owed
    BY DEF Owed, Owing
<1>2. Announced' = Announced
    BY DEF Announced
<1>3. Ready' = Ready
    BY DEF Ready
<1> QED
    BY <1>1, <1>2, <1>3 DEF T!transportVars

\* Most steps of a client are invisible to the consumers of its events.
LEMMA ClientMap ==
    ASSUME NEW c \in Clients, IInv,
           \/ BeginRequest(c) \/ EnsureRejected(c) \/ EnsureReuses(c) \/ EnsureStarts(c)
           \/ InitializedBroken(c) \/ CancelHandshake(c) \/ InsertPending(c) \/ InsertExhausted(c)
           \/ CheckClosed(c) \/ CheckOpen(c) \/ WriteRequest(c) \/ WriteBroken(c)
           \/ ReceiveReply(c) \/ ReceiveInitialize(c) \/ ReceiveFailure(c) \/ RequestTimeout(c)
    PROVE  UNCHANGED T!transportVars
<1> USE ProcKinds
    DEF IInv, TypeOK, Owing, Ready, Handshake, supervisor, requests, process,
        Goto, Return, OnError, HoldMutex
<1>1. CASE BeginRequest(c)
    BY <1>1, QuietMap DEF BeginRequest
<1>2. CASE EnsureRejected(c)
    BY <1>2, QuietMap DEF EnsureRejected
<1>3. CASE EnsureReuses(c)
    BY <1>3, QuietMap DEF EnsureReuses
<1>4. CASE EnsureStarts(c)
    BY <1>4, QuietMap DEF EnsureStarts
<1>5. CASE InitializedBroken(c)
    BY <1>5, QuietMap DEF InitializedBroken
<1>6. CASE CancelHandshake(c)
    BY <1>6, QuietMap DEF CancelHandshake
<1>7. CASE InsertPending(c)
    BY <1>7, QuietMap DEF InsertPending
<1>8. CASE InsertExhausted(c)
    BY <1>8, QuietMap DEF InsertExhausted
<1>9. CASE CheckClosed(c)
    BY <1>9, QuietMap DEF CheckClosed
<1>10. CASE CheckOpen(c)
    BY <1>10, QuietMap DEF CheckOpen
<1>11. CASE WriteRequest(c)
    BY <1>11, QuietMap DEF WriteRequest
<1>12. CASE WriteBroken(c)
    BY <1>12, QuietMap DEF WriteBroken
<1>13. CASE ReceiveReply(c)
    BY <1>13, QuietMap DEF ReceiveReply
<1>14. CASE ReceiveInitialize(c)
    BY <1>14, QuietMap DEF ReceiveInitialize
<1>15. CASE ReceiveFailure(c)
    BY <1>15, QuietMap DEF ReceiveFailure
<1>16. CASE RequestTimeout(c)
    BY <1>16, QuietMap DEF RequestTimeout
<1> QED
    BY <1>1, <1>2, <1>3, <1>4, <1>5, <1>6, <1>7, <1>8, <1>9, <1>10, <1>11, <1>12, <1>13, <1>14, <1>15, <1>16

\* Responses to the app-server are invisible too.
LEMMA ResponderMap ==
    ASSUME NEW r \in Responders, IInv,
           \/ LookUpConnection(r) \/ StaleResponse(r) \/ WriteResponse(r) \/ ResponseBroken(r)
           \/ ResponseTimeout(r)
    PROVE  UNCHANGED T!transportVars
<1> USE ProcKinds
    DEF IInv, TypeOK, Owing, Ready, Handshake, supervisor, requests, process,
        Goto, Return
<1>1. CASE LookUpConnection(r)
    BY <1>1, QuietMap DEF LookUpConnection
<1>2. CASE StaleResponse(r)
    BY <1>2, QuietMap DEF StaleResponse
<1>3. CASE WriteResponse(r)
    BY <1>3, QuietMap DEF WriteResponse
<1>4. CASE ResponseBroken(r)
    BY <1>4, QuietMap DEF ResponseBroken
<1>5. CASE ResponseTimeout(r)
    BY <1>5, QuietMap DEF ResponseTimeout
<1> QED
    BY <1>1, <1>2, <1>3, <1>4, <1>5

\* So are a loss reported too late, failing requests and ending a failed startup.
LEMMA TeardownMap ==
    ASSUME NEW p \in Procs, IInv,
           \/ LostAlready(p) \/ PurgeLost(p) \/ PurgeAbandoned(p) \/ ReleaseAbandoned(p)
    PROVE  UNCHANGED T!transportVars
<1> USE ProcKinds
    DEF IInv, TypeOK, Owing, Ready, Handshake, supervisor, requests, process,
        Goto, Return
<1>1. CASE LostAlready(p)
    BY <1>1, QuietMap DEF LostAlready
<1>2. CASE PurgeLost(p)
    BY <1>2, QuietMap DEF PurgeLost
<1>3. CASE PurgeAbandoned(p)
    BY <1>3, QuietMap DEF PurgeAbandoned
<1>4. CASE ReleaseAbandoned(p)
    BY <1>4, QuietMap DEF ReleaseAbandoned
<1> QED
    BY <1>1, <1>2, <1>3, <1>4

\* What a process and its tasks do on their own announces nothing.
LEMMA ProcessMap ==
    ASSUME NEW g \in Generations, IInv,
           \/ ReadResponse(g) \/ ReadEof(g) \/ ReadFails(g) \/ ReapChild(g)
           \/ ChildAnswers(g) \/ ChildExits(g)
    PROVE  UNCHANGED T!transportVars
<1> USE ProcKinds
    DEF IInv, TypeOK, Owing, Ready, Handshake, supervisor, requests, process,
        Goto, Return
<1>1. CASE ReadResponse(g)
    BY <1>1, QuietMap DEF ReadResponse
<1>2. CASE ReadEof(g)
    BY <1>2, QuietMap DEF ReadEof
<1>3. CASE ReadFails(g)
    BY <1>3, QuietMap DEF ReadFails
<1>4. CASE ReapChild(g)
    BY <1>4, QuietMap DEF ReapChild
<1>5. CASE ChildAnswers(g)
    BY <1>5, QuietMap DEF ChildAnswers
<1>6. CASE ChildExits(g)
    BY <1>6, QuietMap DEF ChildExits
<1> QED
    BY <1>1, <1>2, <1>3, <1>4, <1>5, <1>6

\* Taking a generation number with or without a process.
LEMMA StartMap ==
    ASSUME NEW c \in Clients, IInv, ResolveFails(c) \/ Spawn(c)
    PROVE  T!Start \/ T!Skip \/ UNCHANGED T!transportVars
<1>1. /\ lock = c /\ c # NoClient /\ running = NoGeneration /\ ~Ready
      /\ nextGeneration \in Nat \ {0} /\ pc[c] = "resolve" /\ c \in Procs
    BY ProcKinds DEF IInv, TypeOK, MutexInv, Ready, ResolveFails, Spawn
<1>2. CASE ResolveFails(c)
  <2>1. /\ ~Ready' /\ UNCHANGED <<running, closed, closedEvents>>
        /\ \A q \in Procs : Owing(q)' <=> Owing(q)
        /\ \A q \in Procs : Owing(q) => conn'[q] = conn[q]
    BY <1>1, <1>2 DEF ResolveFails, Ready, Return, Goto, Owing, IInv, TypeOK
  <2>2. CASE UNCHANGED nextGeneration
    BY <1>1, <2>1, <2>2, QuietMap
  <2>3. CASE nextGeneration' = nextGeneration + 1
    <3>1. Owed' = Owed /\ Announced' = Announced /\ Ready' = Ready
      BY <1>1, <2>1 DEF Owed, Owing, Announced, Ready
    <3> QED
      BY <1>1, <2>1, <2>3, <3>1 DEF T!Skip, T!NoGeneration, NoGeneration
  <2> QED
    BY <1>2, <2>2, <2>3 DEF ResolveFails
<1>3. CASE Spawn(c)
  <2> DEFINE g == nextGeneration
  <2>1. /\ g \in Generations /\ running' = g /\ nextGeneration' = g + 1 /\ ~Ready'
        /\ conn' = [conn EXCEPT ![c] = g]
        /\ UNCHANGED <<closed, closedEvents>>
    BY <1>1, <1>3, BoundsAssumption DEF Spawn, Ready, Exhausted, Generations, IInv, TypeOK
  <2>2. PICK r \in Tasks, w \in Tasks : r = <<"reader", g>> /\ w = <<"waiter", g>>
    BY <2>1, ProcKinds
  <2>3. pc' = [pc EXCEPT ![c] = "insert", ![r] = "run", ![w] = "run"]
    BY <1>3, <2>2 DEF Spawn
  <2>4. pc[r] = "off" /\ pc[w] = "off"
    BY <2>1, <2>2, ProcKinds DEF IInv, TypeOK, LocalsInv, TasksInv, Generations
  <2>5. \A q \in Procs : (Owing(q)' <=> Owing(q)) /\ (Owing(q) => conn'[q] = conn[q])
    BY <1>1, <2>1, <2>3, <2>4, ProcKinds DEF IInv, TypeOK, Owing
  <2>6. Owed' = Owed /\ Announced' = Announced /\ Ready' = Ready
    BY <1>1, <2>1, <2>5 DEF Owed, Owing, Announced, Ready
  <2> QED
    BY <1>1, <2>1, <2>6 DEF T!Start, T!NoGeneration, T!Generations, NoGeneration, Generations
<1> QED
    BY <1>2, <1>3

\* The end of a handshake, whichever way it ends.
LEMMA HandshakeMap ==
    ASSUME NEW c \in Clients, IInv, SendInitialized(c) \/ AbortStartup(c)
    PROVE  T!BecomeReady \/ T!AbandonStart
<1>1. /\ lock = c /\ c # NoClient /\ running \in Generations /\ ~Ready
      /\ UNCHANGED <<closed, nextGeneration, closedEvents, conn>>
    BY ProcKinds
    DEF IInv, TypeOK, MutexInv, LocalsInv, Connected, Handshake, Ready, SendInitialized, AbortStartup
<1>2. Owed' = Owed /\ Announced' = Announced
  <2>1. \A q \in Procs : Owing(q)' <=> Owing(q)
    BY ProcKinds DEF IInv, TypeOK, Owing, Goto, SendInitialized, AbortStartup
  <2> QED
    BY <1>1, <2>1 DEF Owed, Owing, Announced
<1>3. CASE SendInitialized(c)
  <2>1. Ready' = TRUE /\ running' = running
    BY <1>1, <1>3 DEF SendInitialized, Ready, Generations, NoGeneration
  <2> QED
    BY <1>1, <1>2, <2>1 DEF T!BecomeReady, T!NoGeneration, Generations
<1>4. CASE AbortStartup(c)
  <2>1. Ready' = Ready /\ running' = NoGeneration
    BY <1>1, <1>4 DEF AbortStartup, Ready
  <2> QED
    BY <1>1, <1>2, <2>1 DEF T!AbandonStart, T!NoGeneration, NoGeneration, Generations
<1> QED
    BY <1>3, <1>4

\* The loss of a generation callers may hold, and its one announcement.
LEMMA LossMap ==
    ASSUME NEW p \in Procs, IInv, TakeLost(p) \/ AnnounceLost(p)
    PROVE  T!Lose \/ \E g \in Generations : T!Announce(g)
<1>1. conn[p] \in Generations /\ UNCHANGED <<closed, nextGeneration>>
    BY DEF IInv, LocalsInv, Connected, TakeLost, AnnounceLost, supervisor
<1>2. CASE TakeLost(p)
  <2>1. /\ running = conn[p] /\ running' = NoGeneration /\ Ready /\ ~Ready'
        /\ pc[p] = "lost" /\ UNCHANGED <<conn, closedEvents>>
        /\ pc' = [pc EXCEPT ![p] = "purge"]
    BY <1>1, <1>2 DEF TakeLost, OwnsRunning, TakeRunning, Ready, Goto, Generations, NoGeneration
  <2>2. \A q \in Procs : Owing(q)' <=> Owing(q) \/ q = p
    BY <2>1 DEF IInv, TypeOK, Owing
  <2>3. Owed' = Owed \cup {running} /\ Announced' = Announced
    BY <2>1, <2>2 DEF Owed, Owing, Announced
  <2>4. Ready = TRUE /\ Ready' = FALSE
    BY <2>1 DEF Ready
  <2> QED
    BY <1>1, <2>1, <2>3, <2>4 DEF T!Lose, T!NoGeneration, NoGeneration, Generations
<1>3. CASE AnnounceLost(p)
  <2>1. Returned(p)
    BY <1>3, ReturnFacts DEF IInv, AnnounceLost
  <2>2. /\ Owing(p) /\ ~Owing(p)'
        /\ \A q \in Procs : q # p => (Owing(q)' <=> Owing(q)) /\ conn'[q] = conn[q]
    BY <1>3, <2>1 DEF AnnounceLost, Owing, Returned
  <2>3. \A q \in Procs : q # p /\ Owing(q) => conn[q] # conn[p]
    BY <2>2 DEF IInv, SingleTeardown, Tearing, Owing
  <2>4. conn[p] \in Owed /\ Owed' = Owed \ {conn[p]}
    BY <2>2, <2>3 DEF Owed, Owing
  <2>5. Announced' = Announced \cup {conn[p]}
    BY <1>1, <1>3 DEF AnnounceLost, Announced, IInv, TypeOK
  <2>6. Ready' = Ready /\ running' = running
    BY <1>3 DEF AnnounceLost, Ready, supervisor
  <2> QED
    BY <1>1, <2>4, <2>5, <2>6 DEF T!Announce
<1> QED
    BY <1>2, <1>3

\* Closing for good: the flag first, the generation after.
LEMMA ShutdownMap ==
    ASSUME IInv, BeginShutdown \/ TakeShutdown
    PROVE  T!Halt \/ T!Release \/ UNCHANGED T!transportVars
<1>1. \A q \in Procs : Owing(q)' <=> Owing(q)
    BY ProcKinds DEF IInv, TypeOK, Owing, Goto, BeginShutdown, TakeShutdown
<1>2. \A q \in Procs : Owing(q) => conn'[q] = conn[q]
    BY ProcKinds DEF IInv, TypeOK, Owing, BeginShutdown, TakeShutdown
<1>3. Owed' = Owed /\ Announced' = Announced /\ UNCHANGED <<nextGeneration, closedEvents>>
    BY <1>1, <1>2 DEF Owed, Owing, Announced, BeginShutdown, TakeShutdown
<1>4. CASE BeginShutdown
    BY <1>3, <1>4 DEF BeginShutdown, T!Halt, Ready
<1>5. CASE TakeShutdown /\ running = NoGeneration
  <2>1. UNCHANGED <<running, closed>> /\ (Ready' <=> Ready)
    BY <1>5 DEF TakeShutdown, Ready
  <2> QED
    BY <1>1, <1>2, <1>3, <2>1, QuietMap
<1>6. CASE TakeShutdown /\ running # NoGeneration
  <2>1. /\ closed /\ Ready = TRUE /\ Ready' = FALSE
        /\ running' = NoGeneration /\ UNCHANGED closed
    BY <1>6 DEF TakeShutdown, Ready, IInv, ClosedInv
  <2> QED
    BY <1>3, <1>6, <2>1 DEF T!Release, T!NoGeneration, NoGeneration
<1> QED
    BY <1>4, <1>5, <1>6

\* Every step of the supervisor is a step of the contract or a stutter.
LEMMA StepMap == IInv /\ [Next]_vars => [T!TransportNext]_(T!transportVars)
<1> SUFFICES ASSUME IInv, [Next]_vars PROVE T!TransportNext \/ UNCHANGED T!transportVars
    OBVIOUS
<1> USE DEF T!TransportNext, T!Generations, Generations
<1>1. ASSUME NEW c \in Clients, BeginRequest(c) \/ ClientStep(c)
      PROVE  T!TransportNext \/ UNCHANGED T!transportVars
    BY <1>1, ClientMap, StartMap, HandshakeMap DEF ClientStep, EnsureRunning
<1>2. ASSUME NEW r \in Responders, ResponderStep(r) PROVE UNCHANGED T!transportVars
    BY <1>2, ResponderMap DEF ResponderStep
<1>3. ASSUME NEW r \in Responders, NEW g \in Generations, BeginResponse(r, g)
      PROVE  UNCHANGED T!transportVars
    BY <1>3, QuietMap, ProcKinds
    DEF BeginResponse, IInv, TypeOK, Owing, Ready, Goto, supervisor
<1>4. ASSUME NEW p \in Procs, TeardownStep(p)
      PROVE  T!TransportNext \/ UNCHANGED T!transportVars
    BY <1>4, TeardownMap, LossMap DEF TeardownStep
<1>5. ASSUME NEW g \in Generations, ProcessNext(g) PROVE UNCHANGED T!transportVars
    BY <1>5, ProcessMap DEF ProcessNext
<1>6. CASE BeginShutdown \/ TakeShutdown
    BY <1>6, ShutdownMap
<1>7. CASE UNCHANGED vars
    BY <1>7, QuietMap DEF vars, supervisor, Ready, Owing
<1> QED
    BY <1>1, <1>2, <1>3, <1>4, <1>5, <1>6, <1>7 DEF Next

\* The supervisor keeps the promise of module Transport: one generation at a
\* time, numbered upwards, each lost one announced exactly once, none after a
\* failed startup or shutdown.
THEOREM Refinement == Spec => ImplementsTransport
<1>1. Init => T!TransportInit
  <2> SUFFICES ASSUME Init PROVE T!TransportInit
      OBVIOUS
  <2>1. Owed = {}
    BY ProcKinds DEF Init, Owed, Procs
  <2>2. Announced = {} /\ Ready = FALSE
    BY DEF Init, Announced, Ready
  <2> QED
    BY <2>1, <2>2 DEF Init, T!TransportInit, T!NoGeneration, NoGeneration
<1> QED
    BY <1>1, StepMap, Invariance, PTL DEF Spec, ImplementsTransport, T!TransportSpec
=============================================================================
