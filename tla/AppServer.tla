----------------------------- MODULE AppServer -----------------------------
(***************************************************************************)
(* The supervisor of one Codex app-server process                          *)
(* (src-tauri/src/codex_app_server.rs): lazy start behind the state mutex, *)
(* requests with a pending table keyed by id and process generation, the   *)
(* reader and waiter tasks of each generation, replies to server requests, *)
(* loss of a connection and permanent shutdown.                            *)
(*                                                                         *)
(* A step runs from one await of the code to the next.  The state mutex is *)
(* held across the whole startup, so it is a variable; the pending mutex   *)
(* is only held for one statement and needs none.                          *)
(***************************************************************************)
EXTENDS Naturals

CONSTANTS
    Clients,          \* tasks that call request()
    Responders,       \* tasks that answer requests of the app-server
    Stopper,          \* the task that calls shutdown()
    NoClient,         \* the state mutex is free
    MaxGeneration,    \* the value at which the generation counter is exhausted
    MaxRequestId      \* the value at which the request id counter is exhausted

NoGeneration == 0
NoRequest == 0
Generations == 1 .. MaxGeneration
RequestIds == 1 .. MaxRequestId
Tasks == {"reader", "waiter"} \X Generations
Callers == Clients \cup Responders
Procs == Callers \cup Tasks \cup {Stopper}

ASSUME BoundsAssumption == MaxGeneration \in Nat /\ MaxRequestId \in Nat
ASSUME ProcsAssumption ==
    /\ NoClient \notin Clients
    /\ Clients \cap Responders = {}
    /\ Callers \cap Tasks = {}
    /\ Stopper \notin Callers \cup Tasks

VARIABLES
    running,         \* state.running: the generation of the live connection
    lock,            \* the client that holds the state mutex across awaits
    closed,          \* closed, and shutdown_signal, which is raised with it
    nextGeneration,  \* next_generation
    nextRequestId,   \* next_request_id
    pending,         \* pending: the ids with a responder, and their generation
    pc,              \* where each task is between two awaits
    conn,            \* the generation each task acts on
    req,             \* the request id each client waits for
    reply,           \* what that id's responder was sent
    child,           \* the process of each generation
    inbox,           \* requests a live process received and has not answered
    stdout,          \* answers a process wrote and the reader has not read
    torn,            \* generations whose stdin holds half a frame
    stop,            \* generations whose child-owner task was told to kill
    closedEvents     \* TransportClosed events broadcast for each generation

supervisor == <<running, lock, closed, nextGeneration, nextRequestId>>
requests == <<pending, req, reply>>
process == <<child, inbox, stdout, torn>>
vars == <<supervisor, requests, pc, conn, process, stop, closedEvents>>

Entry == [id : RequestIds, gen : Generations]
Handshake == {"insert", "check", "write", "await", "initialized"}
ClientPc == Handshake \cup {"idle", "ensure", "resolve", "abort", "respond", "respondWrite"}
LossPc == {"lost", "purge", "announce"}
AbandonPc == {"abandon", "release"}
Labels == ClientPc \cup LossPc \cup AbandonPc \cup {"off", "run", "take", "done"}

TypeOK ==
    /\ running \in Generations \cup {NoGeneration}
    /\ lock \in Clients \cup {NoClient}
    /\ closed \in BOOLEAN
    /\ nextGeneration \in Nat \ {0}
    /\ nextRequestId \in Nat \ {0}
    /\ pending \subseteq Entry
    /\ reply \in [Clients -> {"none", "result", "rpcError", "failed"}]
    /\ pc \in [Procs -> Labels]
    /\ conn \in [Procs -> Generations \cup {NoGeneration}]
    /\ req \in [Clients -> RequestIds \cup {NoRequest}]
    /\ child \in [Generations -> {"none", "alive", "dead"}]
    /\ inbox \in [Generations -> SUBSET RequestIds]
    /\ stdout \in [Generations -> SUBSET (RequestIds \X {"result", "rpcError"})]
    /\ torn \in [Generations -> BOOLEAN]
    /\ stop \in [Generations -> BOOLEAN]
    /\ closedEvents \in [Generations -> Nat]

Init ==
    /\ running = NoGeneration
    /\ lock = NoClient
    /\ closed = FALSE
    /\ nextGeneration = 1
    /\ nextRequestId = 1
    /\ pending = {}
    /\ reply = [c \in Clients |-> "none"]
    /\ pc = [p \in Procs |-> IF p \in Tasks THEN "off" ELSE "idle"]
    /\ conn = [p \in Procs |-> IF p \in Tasks THEN p[2] ELSE NoGeneration]
    /\ req = [c \in Clients |-> NoRequest]
    /\ child = [g \in Generations |-> "none"]
    /\ inbox = [g \in Generations |-> {}]
    /\ stdout = [g \in Generations |-> {}]
    /\ torn = [g \in Generations |-> FALSE]
    /\ stop = [g \in Generations |-> FALSE]
    /\ closedEvents = [g \in Generations |-> 0]

\* next_monotonic: a counter that reached its limit is never wrapped.
WrappingCounter(counter, limit) == FALSE
Exhausted(counter, limit) == counter >= limit

Goto(p, label) == pc' = [pc EXCEPT ![p] = label]

\* The entry of id is removed by its own future, which then reports an error.
Forget(id) == pending' = {e \in pending : e.id # id}

\* A cancelled write may leave half a frame in the pipe of a live process.
TearFrame(g) ==
    \/ UNCHANGED torn
    \/ child[g] = "alive" /\ torn' = [torn EXCEPT ![g] = TRUE]

\* Where a failed send_request_on continues: startup gives up the generation
\* it holds the mutex for, an ordinary request reports the connection lost.
OnError(c) == IF lock = c THEN "abort" ELSE "lost"

\* The task returns to its caller, or ends: a caller's locals are gone.
Return(p) ==
    /\ Goto(p, IF p \in Callers THEN "idle" ELSE "done")
    /\ conn' = [conn EXCEPT ![p] = IF p \in Callers THEN NoGeneration ELSE @]
    /\ req' = [c \in Clients |-> IF c = p THEN NoRequest ELSE req[c]]
    /\ reply' = [c \in Clients |-> IF c = p THEN "none" ELSE reply[c]]

-----------------------------------------------------------------------------
(* ensure_running *)

\* First check of the closed flag, before the mutex.
BeginRequest(c) ==
    /\ pc[c] = "idle"
    /\ ~closed
    /\ Goto(c, "ensure")
    /\ UNCHANGED <<supervisor, requests, conn, process, stop, closedEvents>>

\* The closed flag as ensure_running rechecks it under the mutex.
ClosedUnchecked == FALSE
ClosedUnderMutex == closed

\* A startup keeps the mutex until its handshake ends.
StartUnlocked(c) == UNCHANGED lock
HoldMutex(c) == lock' = c

\* The mutex is free: recheck closed, reuse the connection or keep the mutex.
EnsureRejected(c) ==
    /\ pc[c] = "ensure"
    /\ lock = NoClient
    /\ ClosedUnderMutex
    /\ Return(c)
    /\ UNCHANGED <<supervisor, pending, process, stop, closedEvents>>

EnsureReuses(c) ==
    /\ pc[c] = "ensure"
    /\ lock = NoClient
    /\ ~ClosedUnderMutex
    /\ running # NoGeneration
    /\ conn' = [conn EXCEPT ![c] = running]
    /\ Goto(c, "insert")
    /\ UNCHANGED <<supervisor, requests, process, stop, closedEvents>>

EnsureStarts(c) ==
    /\ pc[c] = "ensure"
    /\ lock = NoClient
    /\ ~ClosedUnderMutex
    /\ running = NoGeneration
    /\ HoldMutex(c)
    /\ Goto(c, "resolve")
    /\ UNCHANGED <<running, closed, nextGeneration, nextRequestId, requests, conn, process, stop, closedEvents>>

EnsureRunning(c) == EnsureRejected(c) \/ EnsureReuses(c) \/ EnsureStarts(c)

\* No usable executable, the shutdown signal, an exhausted counter, or a
\* launch that fails after its generation number was taken.
ResolveFails(c) ==
    /\ pc[c] = "resolve"
    /\ \/ UNCHANGED nextGeneration
       \/ ~Exhausted(nextGeneration, MaxGeneration) /\ nextGeneration' = nextGeneration + 1
    /\ lock' = NoClient
    /\ Return(c)
    /\ UNCHANGED <<running, closed, nextRequestId, pending, process, stop, closedEvents>>

\* The process is spawned, its tasks start and it becomes the running one.
Spawn(c) ==
    /\ pc[c] = "resolve"
    /\ ~Exhausted(nextGeneration, MaxGeneration)
    /\ nextGeneration' = nextGeneration + 1
    /\ running' = nextGeneration
    /\ conn' = [conn EXCEPT ![c] = nextGeneration]
    /\ child' = [child EXCEPT ![nextGeneration] = "alive"]
    /\ pc' = [pc EXCEPT ![c] = "insert",
                        ![<<"reader", nextGeneration>>] = "run",
                        ![<<"waiter", nextGeneration>>] = "run"]
    /\ UNCHANGED <<lock, closed, nextRequestId, requests, inbox, stdout, torn, stop, closedEvents>>

\* The initialized notification is written and the mutex released: the caller
\* goes on with its own request; a dead process makes the write fail.
SendInitialized(c) ==
    /\ pc[c] = "initialized"
    /\ child[conn[c]] = "alive"
    /\ lock' = NoClient
    /\ Goto(c, "insert")
    /\ UNCHANGED <<running, closed, nextGeneration, nextRequestId, requests, conn, process, stop, closedEvents>>

InitializedBroken(c) ==
    /\ pc[c] = "initialized"
    /\ child[conn[c]] = "dead"
    /\ Goto(c, "abort")
    /\ UNCHANGED <<supervisor, requests, conn, process, stop, closedEvents>>

\* The shutdown signal or a startup timeout cancels the handshake.
CancelHandshake(c) ==
    /\ lock = c
    /\ \/ closed /\ pc[c] \in Handshake
       \/ pc[c] \in {"write", "initialized"}
       \/ pc[c] = "await" /\ reply[c] = "none"
    /\ Goto(c, "abort")
    /\ UNCHANGED <<supervisor, requests, conn, process, stop, closedEvents>>

\* Mutant: a failed startup takes connection_lost's way out.
AbortAnnounced(c) ==
    /\ pc[c] = "abort"
    /\ running' = NoGeneration
    /\ lock' = NoClient
    /\ Goto(c, "purge")
    /\ UNCHANGED <<closed, nextGeneration, nextRequestId, requests, conn, process, stop, closedEvents>>

\* A failed startup takes the running state and releases the mutex.
AbortStartup(c) ==
    /\ pc[c] = "abort"
    /\ running' = NoGeneration
    /\ lock' = NoClient
    /\ Goto(c, "abandon")
    /\ UNCHANGED <<closed, nextGeneration, nextRequestId, requests, conn, process, stop, closedEvents>>

-----------------------------------------------------------------------------
(* send_request_on and request_with_timeout *)

\* An id is taken and its responder registered; an exhausted counter fails.
InsertPending(c) ==
    /\ pc[c] = "insert"
    /\ ~Exhausted(nextRequestId, MaxRequestId)
    /\ nextRequestId' = nextRequestId + 1
    /\ req' = [req EXCEPT ![c] = nextRequestId]
    /\ reply' = [reply EXCEPT ![c] = "none"]
    /\ pending' = pending \cup {[id |-> nextRequestId, gen |-> conn[c]]}
    /\ Goto(c, "check")
    /\ UNCHANGED <<running, lock, closed, nextGeneration, conn, process, stop, closedEvents>>

InsertExhausted(c) ==
    /\ pc[c] = "insert"
    /\ Exhausted(nextRequestId, MaxRequestId)
    /\ Goto(c, OnError(c))
    /\ UNCHANGED <<supervisor, requests, conn, process, stop, closedEvents>>

\* The closed flag is read after the insertion.
CheckClosed(c) ==
    /\ pc[c] = "check"
    /\ closed
    /\ Forget(req[c])
    /\ Goto(c, OnError(c))
    /\ UNCHANGED <<supervisor, req, reply, conn, process, stop, closedEvents>>

CheckOpen(c) ==
    /\ pc[c] = "check"
    /\ ~closed
    /\ Goto(c, "write")
    /\ UNCHANGED <<supervisor, requests, conn, process, stop, closedEvents>>

\* The frame reaches the process unless it follows half a frame; a dead
\* process breaks the pipe.
WriteRequest(c) ==
    /\ pc[c] = "write"
    /\ child[conn[c]] = "alive"
    /\ inbox' = [inbox EXCEPT ![conn[c]] = IF torn[conn[c]] THEN @ ELSE @ \cup {req[c]}]
    /\ Goto(c, "await")
    /\ UNCHANGED <<supervisor, requests, conn, child, stdout, torn, stop, closedEvents>>

WriteBroken(c) ==
    /\ pc[c] = "write"
    /\ child[conn[c]] = "dead"
    /\ Forget(req[c])
    /\ Goto(c, OnError(c))
    /\ UNCHANGED <<supervisor, req, reply, conn, process, stop, closedEvents>>

\* The responder was used: a JSON-RPC error leaves the connection alone.
ReceiveReply(c) ==
    /\ pc[c] = "await"
    /\ lock # c
    /\ reply[c] \in {"result", "rpcError"}
    /\ Return(c)
    /\ UNCHANGED <<supervisor, pending, process, stop, closedEvents>>

ReceiveInitialize(c) ==
    /\ pc[c] = "await"
    /\ lock = c
    /\ reply[c] = "result"
    /\ Goto(c, "initialized")
    /\ UNCHANGED <<supervisor, requests, conn, process, stop, closedEvents>>

ReceiveFailure(c) ==
    /\ pc[c] = "await"
    /\ reply[c] = "failed" \/ (reply[c] = "rpcError" /\ lock = c)
    /\ Goto(c, OnError(c))
    /\ UNCHANGED <<supervisor, requests, conn, process, stop, closedEvents>>

\* Mutant: only the write is bounded, the response may take for ever.
WriteTimeoutOnly(c) ==
    /\ lock # c
    /\ pc[c] = "write"
    /\ TearFrame(conn[c])
    /\ Goto(c, "lost")
    /\ UNCHANGED <<supervisor, requests, conn, child, inbox, stdout, stop, closedEvents>>

\* The request's own timeout drops the future: its pending entry stays, and a
\* cancelled write may leave half a frame in the pipe.
RequestTimeout(c) ==
    /\ lock # c
    /\ \/ /\ pc[c] = "await"
          /\ reply[c] = "none"
          /\ UNCHANGED torn
       \/ /\ pc[c] = "write"
          /\ TearFrame(conn[c])
    /\ Goto(c, "lost")
    /\ UNCHANGED <<supervisor, requests, conn, child, inbox, stdout, stop, closedEvents>>

-----------------------------------------------------------------------------
(* send_server_response *)

\* A responder answers a server request that generation g made.
BeginResponse(r, g) ==
    /\ pc[r] = "idle"
    /\ child[g] # "none"
    /\ conn' = [conn EXCEPT ![r] = g]
    /\ Goto(r, "respond")
    /\ UNCHANGED <<supervisor, requests, process, stop, closedEvents>>

\* The response is only written to the generation that asked.
LookUpConnection(r) ==
    /\ pc[r] = "respond"
    /\ lock = NoClient
    /\ running = conn[r]
    /\ Goto(r, "respondWrite")
    /\ UNCHANGED <<supervisor, requests, conn, process, stop, closedEvents>>

StaleResponse(r) ==
    /\ pc[r] = "respond"
    /\ lock = NoClient
    /\ running # conn[r]
    /\ Return(r)
    /\ UNCHANGED <<supervisor, pending, process, stop, closedEvents>>

WriteResponse(r) ==
    /\ pc[r] = "respondWrite"
    /\ child[conn[r]] = "alive"
    /\ Return(r)
    /\ UNCHANGED <<supervisor, pending, process, stop, closedEvents>>

ResponseBroken(r) ==
    /\ pc[r] = "respondWrite"
    /\ child[conn[r]] = "dead"
    /\ Goto(r, "lost")
    /\ UNCHANGED <<supervisor, requests, conn, process, stop, closedEvents>>

\* The timeout returns before connection_lost is reached.
ResponseTimeout(r) ==
    /\ pc[r] = "respondWrite"
    /\ TearFrame(conn[r])
    /\ Return(r)
    /\ UNCHANGED <<supervisor, pending, child, inbox, stdout, stop, closedEvents>>

-----------------------------------------------------------------------------
(* connection_lost and fail_pending_generation *)

\* connection_lost only concerns the generation that is still running.
OwnsAnyGeneration(p) == running # NoGeneration
OwnsRunning(p) == running = conn[p]

\* state.running.take()
PeekRunning == UNCHANGED running
TakeRunning == running' = NoGeneration

\* Only the running generation is taken, by the task that reports its loss.
TakeLost(p) ==
    /\ pc[p] = "lost"
    /\ lock = NoClient
    /\ OwnsRunning(p)
    /\ TakeRunning
    /\ Goto(p, "purge")
    /\ UNCHANGED <<lock, closed, nextGeneration, nextRequestId, requests, conn, process, stop, closedEvents>>

LostAlready(p) ==
    /\ pc[p] = "lost"
    /\ lock = NoClient
    /\ ~OwnsRunning(p)
    /\ Return(p)
    /\ UNCHANGED <<supervisor, pending, process, stop, closedEvents>>

\* Mutant: the whole table is drained, the responders of others are dropped.
DrainPending(g) ==
    /\ pending' = {}
    /\ reply' = [c \in Clients |->
                    IF [id |-> req[c], gen |-> g] \in pending THEN "failed" ELSE reply[c]]

\* Every responder of generation g is removed and sent the error.
FailPendingGeneration(g) ==
    /\ pending' = {e \in pending : e.gen # g}
    /\ reply' = [c \in Clients |->
                    IF [id |-> req[c], gen |-> g] \in pending THEN "failed" ELSE reply[c]]

PurgeLost(p) ==
    /\ pc[p] = "purge"
    /\ FailPendingGeneration(conn[p])
    /\ Goto(p, "announce")
    /\ UNCHANGED <<supervisor, req, conn, process, stop, closedEvents>>

\* The child-owner task is told to kill and TransportClosed is broadcast.
AnnounceLost(p) ==
    /\ pc[p] = "announce"
    /\ stop' = [stop EXCEPT ![conn[p]] = TRUE]
    /\ closedEvents' = [closedEvents EXCEPT ![conn[p]] = @ + 1]
    /\ Return(p)
    /\ UNCHANGED <<supervisor, pending, process>>

\* A failed startup or shutdown fails the generation's requests ...
PurgeAbandoned(p) ==
    /\ pc[p] = "abandon"
    /\ FailPendingGeneration(conn[p])
    /\ Goto(p, "release")
    /\ UNCHANGED <<supervisor, req, conn, process, stop, closedEvents>>

\* ... and asks for the child's end, waiting a bounded time for it.
ReleaseAbandoned(p) ==
    /\ pc[p] = "release"
    /\ stop' = [stop EXCEPT ![conn[p]] = TRUE]
    /\ Return(p)
    /\ UNCHANGED <<supervisor, pending, process, closedEvents>>

-----------------------------------------------------------------------------
(* shutdown *)

BeginShutdown ==
    /\ pc[Stopper] = "idle"
    /\ closed' = TRUE
    /\ Goto(Stopper, "take")
    /\ UNCHANGED <<running, lock, nextGeneration, nextRequestId, requests, conn, process, stop, closedEvents>>

TakeShutdown ==
    /\ pc[Stopper] = "take"
    /\ lock = NoClient
    /\ running' = NoGeneration
    /\ conn' = [conn EXCEPT ![Stopper] = running]
    /\ Goto(Stopper, IF running = NoGeneration THEN "done" ELSE "abandon")
    /\ UNCHANGED <<lock, closed, nextGeneration, nextRequestId, requests, process, stop, closedEvents>>

-----------------------------------------------------------------------------
(* The reader and waiter tasks of each generation, and the process itself *)

\* handle_frame: an answer reaches the future that still waits for it, if the
\* entry under its id belongs to the reader's generation.
ReadResponse(g) ==
    /\ pc[<<"reader", g>>] = "run"
    /\ \E r \in stdout[g] :
          /\ stdout' = [stdout EXCEPT ![g] = @ \ {r}]
          /\ pending' = pending \ {[id |-> r[1], gen |-> g]}
          /\ reply' = [c \in Clients |->
                          IF req[c] = r[1] /\ [id |-> r[1], gen |-> g] \in pending
                          THEN r[2] ELSE reply[c]]
    /\ UNCHANGED <<supervisor, req, pc, conn, child, inbox, torn, stop, closedEvents>>

\* End of file after the last frame of a dead process.
ReadEof(g) ==
    /\ pc[<<"reader", g>>] = "run"
    /\ child[g] = "dead"
    /\ stdout[g] = {}
    /\ Goto(<<"reader", g>>, "lost")
    /\ UNCHANGED <<supervisor, requests, conn, process, stop, closedEvents>>

\* A read error, an oversized frame or malformed JSON: the rest is not read.
ReadFails(g) ==
    /\ pc[<<"reader", g>>] = "run"
    /\ Goto(<<"reader", g>>, "lost")
    /\ stdout' = [stdout EXCEPT ![g] = {}]
    /\ UNCHANGED <<supervisor, requests, conn, child, inbox, torn, stop, closedEvents>>

\* The process ends and its standard input with it.
Die(g) ==
    /\ child' = [child EXCEPT ![g] = "dead"]
    /\ inbox' = [inbox EXCEPT ![g] = {}]
    /\ torn' = [torn EXCEPT ![g] = FALSE]

\* The child-owner task sees the exit, or kills and reaps on request.
ReapChild(g) ==
    /\ pc[<<"waiter", g>>] = "run"
    /\ child[g] = "dead" \/ stop[g]
    /\ Die(g)
    /\ Goto(<<"waiter", g>>, "lost")
    /\ UNCHANGED <<supervisor, requests, conn, stdout, stop, closedEvents>>

\* The process answers a request it received, while its output is read ...
ChildAnswers(g) ==
    /\ child[g] = "alive"
    /\ pc[<<"reader", g>>] = "run"
    /\ \E i \in inbox[g], kind \in {"result", "rpcError"} :
          /\ inbox' = [inbox EXCEPT ![g] = @ \ {i}]
          /\ stdout' = [stdout EXCEPT ![g] = @ \cup {<<i, kind>>}]
    /\ UNCHANGED <<supervisor, requests, pc, conn, child, torn, stop, closedEvents>>

\* ... or exits by itself.
ChildExits(g) ==
    /\ child[g] = "alive"
    /\ Die(g)
    /\ UNCHANGED <<supervisor, requests, pc, conn, stdout, stop, closedEvents>>

-----------------------------------------------------------------------------

TeardownStep(p) ==
    \/ TakeLost(p) \/ LostAlready(p) \/ PurgeLost(p) \/ AnnounceLost(p)
    \/ PurgeAbandoned(p) \/ ReleaseAbandoned(p)

ClientStep(c) ==
    \/ EnsureRunning(c) \/ ResolveFails(c) \/ Spawn(c)
    \/ SendInitialized(c) \/ InitializedBroken(c) \/ CancelHandshake(c) \/ AbortStartup(c)
    \/ InsertPending(c) \/ InsertExhausted(c) \/ CheckClosed(c) \/ CheckOpen(c)
    \/ WriteRequest(c) \/ WriteBroken(c)
    \/ ReceiveReply(c) \/ ReceiveInitialize(c) \/ ReceiveFailure(c) \/ RequestTimeout(c)

ResponderStep(r) ==
    \/ LookUpConnection(r) \/ StaleResponse(r)
    \/ WriteResponse(r) \/ ResponseBroken(r) \/ ResponseTimeout(r)

ProcessNext(g) ==
    \/ ReadResponse(g) \/ ReadEof(g) \/ ReadFails(g)
    \/ ReapChild(g) \/ ChildAnswers(g) \/ ChildExits(g)

Next ==
    \/ \E c \in Clients : BeginRequest(c) \/ ClientStep(c)
    \/ \E r \in Responders : ResponderStep(r) \/ \E g \in Generations : BeginResponse(r, g)
    \/ \E p \in Procs : TeardownStep(p)
    \/ \E g \in Generations : ProcessNext(g)
    \/ BeginShutdown
    \/ TakeShutdown

Spec == Init /\ [][Next]_vars

(***************************************************************************)
(* Fairness.  Every future is polled when it can progress, every bound on  *)
(* a wait elapses, and the state mutex is a FIFO tokio mutex: a task whose *)
(* next step is possible again and again takes one.  Nothing is assumed of *)
(* the process, which may never answer and never exit by itself, of the    *)
(* frames that are read, or of callers beginning anything.                 *)
(***************************************************************************)
Fairness ==
    /\ \A c \in Clients : SF_vars(ClientStep(c) \/ TeardownStep(c))
    /\ \A r \in Responders : SF_vars(ResponderStep(r) \/ TeardownStep(r))
    /\ \A g \in Generations :
          /\ SF_vars(ReadEof(g) \/ TeardownStep(<<"reader", g>>))
          /\ SF_vars(ReapChild(g) \/ TeardownStep(<<"waiter", g>>))
    /\ SF_vars(TakeShutdown \/ TeardownStep(Stopper))

FairSpec == Spec /\ Fairness

-----------------------------------------------------------------------------
(* What the supervisor must guarantee *)

Tearing(p) == pc[p] \in {"purge", "announce", "abandon", "release"}
TornDown(g) == \E p \in Procs : Tearing(p) /\ conn[p] = g

\* Whatever mix of readers, waiters, timed-out requests, failed startups and
\* shutdown reports the loss of a generation, exactly one of them takes it
\* down, and none does while it is still the running one (connection_lost,
\* ensure_running's startup failure, shutdown).
SingleTeardown ==
    /\ \A p, q \in Procs :
          Tearing(p) /\ Tearing(q) /\ conn[p] = conn[q] => p = q
    /\ ~TornDown(running)

\* TransportClosed is broadcast at most once per generation, and when it is
\* the generation is neither running nor still being taken down.
AnnouncedOnce ==
    \A g \in Generations :
        /\ closedEvents[g] <= 1
        /\ closedEvents[g] = 1 => running # g /\ ~TornDown(g) /\ stop[g]

\* No Codex process escapes supervision: a live process is the running one,
\* or was told to stop, or some task is about to tell it.
NoUnsupervisedChild ==
    \A g \in Generations :
        child[g] = "alive" => running = g \/ stop[g] \/ TornDown(g)

\* Once shutdown has returned nothing runs and no startup is under way: the
\* closed flag is rechecked under the mutex, so no late caller can start a
\* process behind shutdown's back.
ShutdownIsFinal ==
    pc[Stopper] = "done" => running = NoGeneration /\ lock = NoClient

\* From its start to the end of shutdown a process is supervised by somebody, in
\* whatever order its exit, a failed startup and shutdown are noticed.
ProcessesSupervised == NoUnsupervisedChild /\ ShutdownIsFinal

\* A request that waits on the running generation without an answer is in the
\* pending table, where a response or the loss of the connection finds it.
AwaitedIsReachable ==
    \A c \in Clients :
        /\ pc[c] \in {"write", "await"}
        /\ running = conn[c]
        /\ reply[c] = "none"
        => [id |-> req[c], gen |-> conn[c]] \in pending

\* Every call returns to its caller: neither the mutex held across startup nor
\* a silent process can keep a request or a response waiting for ever.
CallsReturn == \A c \in Callers : pc[c] # "idle" ~> pc[c] = "idle"

\* A process that died does not stay the running generation.
DeadIsRetired ==
    \A g \in Generations : running = g /\ child[g] = "dead" ~> running # g

\* Neither a caller nor the generation of a dead process stays where it is.
NothingHangs == CallsReturn /\ DeadIsRetired

Ready == running # NoGeneration /\ lock = NoClient
Owed == {conn[p] : p \in {q \in Procs : pc[q] \in {"purge", "announce"}}}
Announced == {g \in Generations : closedEvents[g] > 0}

\* The supervisor implements the contract its consumers rely on.
T == INSTANCE Transport WITH
        current <- running,
        ready <- Ready,
        spawned <- nextGeneration - 1,
        owed <- Owed,
        announced <- Announced,
        halted <- closed

ImplementsTransport == T!TransportSpec
=============================================================================
