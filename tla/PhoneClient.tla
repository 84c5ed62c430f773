------------------------------- MODULE PhoneClient -------------------------------
(***************************************************************************)
(* The phones' side of Phone Sync.  The native app: phone_sync_connect and *)
(* its two fellows (src-tauri/src/lib.rs) and the session task             *)
(* (sync/client.rs), which share the slot of the installed connection.     *)
(* The web app: Session of crates/portcode-wasm/src/lib.rs, and the        *)
(* current session of src/lib/webSession.ts.                               *)
(*                                                                         *)
(* Left out: a desktop that presents another key than the code's, a web    *)
(* phone that reconnects (it asks for a handshake the desktop does not     *)
(* speak), and what a phone does with the frames it gets.                  *)
(***************************************************************************)
EXTENDS PhoneLink

VARIABLES
    client,      \* each attempt on the phone
    slot,        \* AppState.phone_client of the native phone
    current,     \* webSession's current session
    given        \* commands given so far

clientVars == <<client, slot, current, given>>

NoClient == [stage |-> "none", placed |-> FALSE, aborted |-> FALSE, recv |-> "idle",
             send |-> "idle", queue |-> 0, previous |-> NoConn, overtaken |-> FALSE]
Native(c) == scenario.peers[c] = "native"
Web(c) == scenario.peers[c] = "web"
At(c, stage) == client[c].stage = stage
Goes(c, stage) == client' = [client EXCEPT ![c].stage = stage]
\* What an ended task held is gone.
Gone(c) == [client[c] EXCEPT !.stage = "done", !.recv = "idle", !.send = "idle",
                            !.queue = 0, !.aborted = FALSE]
Finishes(c) == client' = [client EXCEPT ![c] = Gone(c)] /\ link' = PhoneCloses(c)

(***************************************************************************)
(* Dialing, with the nonce of a code, or with none to reconnect.           *)
(***************************************************************************)
Dial(c, prologue) ==
    /\ scenario.peers[c] # "none"
    /\ At(c, "none")
    /\ client' = [client EXCEPT ![c].stage = "dialing",
                                ![c].previous = IF Web(c) THEN current ELSE NoConn]
    /\ link' = [link EXCEPT ![c].phone = "dialing", ![c].prologue = prologue]
    /\ UNCHANGED <<scenario, slot, current, given>>

DialFails(c) ==
    /\ At(c, "dialing")
    /\ link[c].host = "closed"
    /\ client' = [client EXCEPT ![c].stage = "failed", ![c].previous = NoConn]
    /\ link' = PhoneCloses(c)
    /\ UNCHANGED <<scenario, slot, current, given>>

\* The task is spawned and waits until it is installed.
Spawn(c) ==
    /\ Native(c)
    /\ At(c, "dialing")
    /\ link[c].phone = "open"
    /\ Goes(c, "gated")
    /\ UNCHANGED <<scenario, link, slot, current, given>>

(***************************************************************************)
(* The native phone.                                                       *)
(***************************************************************************)
\* The connection that was installed is aborted under the same lock.
Install(c) ==
    /\ Native(c)
    /\ client[c].stage \notin {"none", "dialing", "failed"}
    /\ ~client[c].placed
    /\ slot' = c
    /\ client' = [d \in Conns |->
                    IF d = c THEN [client[c] EXCEPT !.placed = TRUE]
                    ELSE IF d = slot THEN [client[d] EXCEPT !.aborted = TRUE]
                    ELSE client[d]]
    /\ UNCHANGED <<scenario, link, current, given>>

\* Mutant: the task does not wait until it is installed.
IsSpawned(c) == TRUE
IsReleased(c) == client[c].placed

\* ready_tx is sent: the task splits its channel and runs.
Release(c) ==
    /\ At(c, "gated")
    /\ IsReleased(c)
    /\ client' = [client EXCEPT ![c].stage = "running", ![c].recv = "running",
                                ![c].send = "running"]
    /\ UNCHANGED <<scenario, link, slot, current, given>>

RecvEnds(c) ==
    /\ At(c, "running")
    /\ client[c].recv = "running"
    /\ link[c].host = "closed"
    /\ client' = [client EXCEPT ![c].recv = "ended"]
    /\ UNCHANGED <<scenario, link, slot, current, given>>

\* Mutant: the loop goes on after a command it could not send.
SendGoesOn(c) == "running"
AfterSend(c) == IF IsOpen(c) THEN "running" ELSE "ended"

SendNext(c) ==
    /\ At(c, "running")
    /\ client[c].send = "running"
    /\ client[c].queue > 0
    /\ client' = [client EXCEPT ![c].queue = @ - 1, ![c].send = AfterSend(c)]
    /\ link' = Up(c, "Command")
    /\ UNCHANGED <<scenario, slot, current, given>>

\* The slot held the sender of the queue.
SendDrained(c) ==
    /\ At(c, "running")
    /\ client[c].send = "running"
    /\ client[c].queue = 0
    /\ slot # c
    /\ client' = [client EXCEPT ![c].send = "ended"]
    /\ UNCHANGED <<scenario, link, slot, current, given>>

\* join! returns when both have ended; no await follows.
Joins(c) ==
    /\ At(c, "running")
    /\ client[c].recv = "ended"
    /\ client[c].send = "ended"
    /\ Goes(c, "tail")
    /\ UNCHANGED <<scenario, link, slot, current, given>>

IsInstalled(c) == slot = c

\* Only the installed session clears the slot and tells the UI.
ClearsSlot(c) ==
    /\ At(c, "tail")
    /\ slot' = IF IsInstalled(c) THEN NoConn ELSE slot
    /\ Finishes(c)
    /\ UNCHANGED <<scenario, current, given>>

\* An aborted task ends at its next await; until then it may still move on.
TaskStops(c) ==
    /\ client[c].aborted
    /\ client[c].stage \in {"gated", "running"}
    /\ Finishes(c)
    /\ UNCHANGED <<scenario, slot, current, given>>

SendCommand ==
    /\ slot # NoConn
    /\ given < scenario.commands
    /\ given' = given + 1
    /\ client' = [client EXCEPT ![slot].queue = @ + 1]
    /\ UNCHANGED <<scenario, link, slot, current>>

DisconnectPhone ==
    /\ "leave" \in scenario.may
    /\ slot # NoConn
    /\ slot' = NoConn
    /\ client' = [client EXCEPT ![slot].aborted = TRUE]
    /\ UNCHANGED <<scenario, link, current, given>>

(***************************************************************************)
(* The web phone.                                                          *)
(***************************************************************************)
\* Session.connect sends the Hello before anybody has compared the code words; then
\* the session is the current one, whichever was by now.
WebConnects(c) ==
    /\ Web(c)
    /\ At(c, "dialing")
    /\ link[c].phone = "open"
    /\ link' = Up(c, "Hello")
    /\ current' = c
    /\ client' = [d \in Conns |->
                    IF d = c THEN [client[c] EXCEPT !.stage = "web"]
                    ELSE IF d = current /\ d # client[c].previous
                         THEN [client[d] EXCEPT !.overtaken = TRUE]
                    ELSE client[d]]
    /\ UNCHANGED <<scenario, slot, given>>

Replaced(c) == client[c].previous

\* The session that was current when the dial began is closed.
WebReplaces(c) ==
    /\ client[c].previous # NoConn
    /\ client[c].stage \notin {"none", "dialing"}
    /\ client' = [d \in Conns |->
                    IF d = c THEN [client[c] EXCEPT !.previous = NoConn]
                    ELSE IF d = Replaced(c) THEN [client[d] EXCEPT !.stage = "done"]
                    ELSE client[d]]
    /\ link' = IF Replaced(c) = NoConn THEN link ELSE PhoneCloses(Replaced(c))
    /\ UNCHANGED <<scenario, slot, current, given>>

WebCommand ==
    /\ current # NoConn
    /\ given < scenario.commands
    /\ given' = given + 1
    /\ link' = Up(current, "Command")
    /\ UNCHANGED <<scenario, client, slot, current>>

\* reject sends its frame before it lets go of the channel.
WebRejects ==
    /\ "decline" \in scenario.may
    /\ current # NoConn
    /\ current' = NoConn
    /\ IF At(current, "web")
       THEN /\ Goes(current, "done")
            /\ link' = [Up(current, "PairingReject") EXCEPT ![current].phone = "closed"]
       ELSE UNCHANGED <<client, link>>
    /\ UNCHANGED <<scenario, slot, given>>

WebDisconnects ==
    /\ "leave" \in scenario.may
    /\ current # NoConn
    /\ current' = NoConn
    /\ IF At(current, "web")
       THEN Goes(current, "done") /\ link' = PhoneCloses(current)
       ELSE UNCHANGED <<client, link>>
    /\ UNCHANGED <<scenario, slot, given>>

ClientInit ==
    /\ client = [c \in Conns |-> NoClient]
    /\ slot = NoConn
    /\ current = NoConn
    /\ given = 0

TaskStep(c) ==
    \/ DialFails(c) \/ Spawn(c) \/ Install(c) \/ Release(c)
    \/ RecvEnds(c) \/ SendNext(c) \/ SendDrained(c) \/ Joins(c) \/ ClearsSlot(c) \/ TaskStops(c)
    \/ WebConnects(c) \/ WebReplaces(c)
PhoneUserStep == SendCommand \/ DisconnectPhone \/ WebCommand \/ WebRejects \/ WebDisconnects
==================================================================================
