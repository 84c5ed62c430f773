------------------------------- MODULE PhoneHost -------------------------------
(***************************************************************************)
(* The desktop's side of Phone Sync: the accept loop, the gate in front of *)
(* a connection, catch-up, the live hub, and the commands of a phone       *)
(* (src-tauri/src/lib.rs, sync/mod.rs, sync/session.rs, sync/server.rs,    *)
(* crates/portcode-sync/src/session.rs).                                   *)
(*                                                                         *)
(* A step runs from one slow wait to the next.  The catalogue is one       *)
(* session's messages, numbered as they are stored, and a count of         *)
(* sessions.  Left out: text that is held back until it can be redacted,   *)
(* the commands that only call the engine, history pages.                  *)
(***************************************************************************)
EXTENDS PhoneLink

CONSTANTS
    HubCapacity,     \* HUB_CAPACITY
    ListBudget       \* sessions that fit into a session list

VARIABLES
    gate,            \* AppState.pairing_gate
    trusted,         \* devices stored as confirmed
    confirms,        \* confirm_pairing of each request
    codes,           \* pairing codes shown so far
    host,            \* serve_connection of each connection
    stored,          \* messages in the database
    published,       \* messages that were published
    frames,          \* what the hub has broadcast
    sessions,        \* sessions in the database
    creating,        \* who holds REMOTE_CREATE_LOCK
    sent             \* messages each phone was sent

pairing == <<gate, trusted, confirms, codes>>
hub == <<stored, published, frames>>
catalogue == <<sessions, creating>>
hostVars == <<pairing, host, hub, catalogue, sent>>

Idle == [stage |-> "none", prologue |-> NoNonce, decision |-> "none", hello |-> FALSE,
         torn |-> FALSE, next |-> 0, live |-> "idle", cmds |-> "idle"]
SessionFrame == 0

May(happen) == happen \in scenario.may
In(c, stage) == host[c].stage = stage
Moves(c, stage) == host' = [host EXCEPT ![c].stage = stage]
Over(c) == [Idle EXCEPT !.stage = "done", !.decision = host[c].decision]
Drops(c) == host' = [host EXCEPT ![c] = Over(c)] /\ link' = HostCloses(c)
Receivers == {c \in Conns : \/ host[c].stage \in {"subscribed", "caughtup"}
                             \/ host[c].live = "running"}

(***************************************************************************)
(* accept_and_pair, one connection at a time.                              *)
(***************************************************************************)
\* The window's nonce is read when a phone has connected.
Accept(c) ==
    /\ link[c].phone = "dialing"
    /\ In(c, "none")
    /\ \A d \in Conns : ~In(d, "handshake")
    /\ host' = [host EXCEPT ![c].stage = "handshake", ![c].prologue = ActiveNonce(gate)]
    /\ gate' = WindowRead(gate)
    /\ UNCHANGED <<scenario, link, trusted, confirms, codes, hub, catalogue, sent>>

Handshake(c) ==
    /\ In(c, "handshake")
    /\ IF link[c].phone = "dialing" /\ link[c].prologue = host[c].prologue
       THEN /\ Moves(c, "paired")
            /\ link' = [link EXCEPT ![c].phone = "open", ![c].host = "open"]
       ELSE Drops(c)
    /\ UNCHANGED <<scenario, pairing, hub, catalogue, sent>>

(***************************************************************************)
(* serve_connection up to the user's decision.                             *)
(***************************************************************************)
\* The window is read again: the decision to prompt is not the one that accepted the
\* handshake.
Decide(c) ==
    LET decision == ServeDecision(DeviceOf(c) \in trusted, WindowIsOpen(gate))
        read     == WindowRead(gate)
    IN  /\ In(c, "paired")
        /\ CASE decision = "Serve" -> Moves(c, "admitted") /\ gate' = read /\ UNCHANGED link
             [] decision = "Prompt" -> /\ Moves(c, "asked")
                                       /\ gate' = RegisterPending(read, c)
                                       /\ UNCHANGED link
             [] decision = "Drop" -> Drops(c) /\ gate' = read
        /\ UNCHANGED <<scenario, trusted, confirms, codes, hub, catalogue, sent>>

\* The select may take the decision while a frame has arrived in part: what was read
\* of it is gone.
TakeDecision(c) ==
    /\ In(c, "asked")
    /\ host[c].decision # "none"
    /\ IF host[c].decision = "accept"
       THEN /\ \E torn \in {FALSE, May("split") /\ link[c].up # <<>>} :
                   host' = [host EXCEPT ![c].stage = "admitted", ![c].torn = torn]
            /\ UNCHANGED link
       ELSE Drops(c)
    /\ UNCHANGED <<scenario, pairing, hub, catalogue, sent>>

Forgotten(c) == WithoutPending(gate, c)

\* An answer may still come between the timer and forget_pending.
DecisionTimesOut(c) ==
    /\ May("expire")
    /\ In(c, "asked")
    /\ Drops(c)
    /\ gate' = Forgotten(c)
    /\ UNCHANGED <<scenario, trusted, confirms, codes, hub, catalogue, sent>>

\* The phone's early Hello is kept for catch-up; any other frame, and the end of the
\* channel, end the connection.
HearWhileAsked(c) ==
    /\ In(c, "asked")
    /\ link[c].up # <<>>
    /\ IF Head(link[c].up) = "Hello"
       THEN /\ host' = [host EXCEPT ![c].hello = TRUE]
            /\ link' = [link EXCEPT ![c].up = Tail(@)]
            /\ UNCHANGED gate
       ELSE Drops(c) /\ gate' = Forgotten(c)
    /\ UNCHANGED <<scenario, trusted, confirms, codes, hub, catalogue, sent>>

LoseWhileAsked(c) ==
    /\ In(c, "asked")
    /\ link[c].phone = "closed"
    /\ Drops(c)
    /\ gate' = Forgotten(c)
    /\ UNCHANGED <<scenario, trusted, confirms, codes, hub, catalogue, sent>>

(***************************************************************************)
(* The desktop's user.                                                     *)
(***************************************************************************)
ShowCode ==
    /\ codes < scenario.codes
    /\ codes' = codes + 1
    /\ gate' = OpenWindow(gate, codes')
    /\ UNCHANGED <<scenario, link, trusted, confirms, host, hub, catalogue, sent>>

WindowLapses ==
    /\ May("lapse")
    /\ WindowIsOpen(gate)
    /\ gate' = Lapse(gate)
    /\ UNCHANGED <<scenario, link, trusted, confirms, codes, host, hub, catalogue, sent>>

\* confirm_pairing first answers the connection, then stores the key, then closes the
\* window, whichever window that is by now.
ConfirmPairing(c) ==
    /\ c \in gate.pending
    /\ gate' = WithoutPending(gate, c)
    /\ host' = [host EXCEPT ![c].decision = "accept"]
    /\ confirms' = [confirms EXCEPT ![c] = "answered"]
    /\ UNCHANGED <<scenario, link, trusted, codes, hub, catalogue, sent>>

ConfirmStores(c) ==
    /\ confirms[c] = "answered"
    /\ trusted' = trusted \cup {DeviceOf(c)}
    /\ confirms' = [confirms EXCEPT ![c] = "stored"]
    /\ UNCHANGED <<scenario, link, gate, codes, host, hub, catalogue, sent>>

\* The command returns the error and leaves the window open.
ConfirmUnsaved(c) ==
    /\ May("fail")
    /\ confirms[c] = "answered"
    /\ confirms' = [confirms EXCEPT ![c] = "idle"]
    /\ UNCHANGED <<scenario, link, gate, trusted, codes, host, hub, catalogue, sent>>

ConfirmCloses(c) ==
    /\ confirms[c] = "stored"
    /\ gate' = CloseWindow(gate)
    /\ confirms' = [confirms EXCEPT ![c] = "idle"]
    /\ UNCHANGED <<scenario, link, trusted, codes, host, hub, catalogue, sent>>

RejectPairing(c) ==
    /\ May("reject")
    /\ c \in gate.pending
    /\ gate' = WithoutPending(gate, c)
    /\ host' = [host EXCEPT ![c].decision = "reject"]
    /\ UNCHANGED <<scenario, link, trusted, confirms, codes, hub, catalogue, sent>>

\* A connection that is being served stays.
Unpair(device) ==
    /\ May("unpair")
    /\ device \in trusted
    /\ trusted' = trusted \ {device}
    /\ UNCHANGED <<scenario, link, gate, confirms, codes, host, hub, catalogue, sent>>

(***************************************************************************)
(* Catch-up.                                                               *)
(***************************************************************************)
\* A receiver gets what is broadcast after it subscribed.
Subscribe(c) ==
    /\ In(c, "admitted")
    /\ host' = [host EXCEPT ![c].stage = "subscribed", ![c].next = Len(frames)]
    /\ UNCHANGED <<scenario, link, pairing, hub, catalogue, sent>>

HelloIsHeard(c) == host[c].hello

\* serve_catch_up reads the Hello unless it was heard before, then sends the list of
\* sessions and what is stored of each.
CatchUp(c) ==
    /\ In(c, "subscribed")
    /\ ~host[c].torn
    /\ \/ HelloIsHeard(c) /\ UNCHANGED link
       \/ /\ ~HelloIsHeard(c)
          /\ link[c].up # <<>>
          /\ Head(link[c].up) = "Hello"
          /\ link' = [link EXCEPT ![c].up = Tail(@)]
    /\ link[c].phone = "open"
    /\ sent' = [sent EXCEPT ![c] = @ \cup 1 .. stored]
    /\ Moves(c, "caughtup")
    /\ UNCHANGED <<scenario, pairing, hub, catalogue>>

CatchUpFails(c) ==
    /\ In(c, "subscribed")
    /\ \/ host[c].torn
       \/ ~HelloIsHeard(c) /\ link[c].up # <<>> /\ Head(link[c].up) # "Hello"
       \/ link[c].phone = "closed"
    /\ Drops(c)
    /\ UNCHANGED <<scenario, pairing, hub, catalogue, sent>>

\* Mutant: the receiver is made when the live tasks are.
GoLiveSubscribed(c) ==
    /\ In(c, "caughtup")
    /\ host' = [host EXCEPT ![c].stage = "live", ![c].live = "running", ![c].cmds = "running",
                            ![c].next = Len(frames)]
    /\ UNCHANGED <<scenario, link, pairing, hub, catalogue, sent>>

GoLive(c) ==
    /\ In(c, "caughtup")
    /\ host' = [host EXCEPT ![c].stage = "live", ![c].live = "running", ![c].cmds = "running"]
    /\ UNCHANGED <<scenario, link, pairing, hub, catalogue, sent>>

(***************************************************************************)
(* The live connection: forward_live and handle_commands, two tasks.       *)
(***************************************************************************)
Behind(c) == Len(frames) - host[c].next
Forward(c) ==
    LET frame == frames[host[c].next + 1]
    IN  /\ host[c].live = "running"
        /\ Behind(c) > 0
        /\ IF Behind(c) <= HubCapacity /\ link[c].phone = "open"
           THEN /\ host' = [host EXCEPT ![c].next = @ + 1]
                /\ sent' = [sent EXCEPT ![c] = @ \cup ({frame} \ {SessionFrame})]
           ELSE /\ host' = [host EXCEPT ![c].live = "ended"]
                /\ UNCHANGED sent
        /\ UNCHANGED <<scenario, link, pairing, hub, catalogue>>

Broadcast(frame) == frames' = IF Receivers = {} THEN frames ELSE Append(frames, frame)

\* Mutant: without the lock.
CreateIsUnlocked == TRUE
CreateIsFree == creating = NoConn

\* create_remote_session: room in the list is checked and the session inserted under
\* REMOTE_CREATE_LOCK; the phone is told over the hub either way.
CreateChecks(c) ==
    /\ host[c].cmds = "running"
    /\ link[c].up # <<>>
    /\ Head(link[c].up) = "Command"
    /\ CreateIsFree
    /\ link' = [link EXCEPT ![c].up = Tail(@)]
    /\ IF sessions < ListBudget
       THEN /\ creating' = c
            /\ host' = [host EXCEPT ![c].cmds = "creating"]
            /\ UNCHANGED frames
       ELSE Broadcast(SessionFrame) /\ UNCHANGED <<creating, host>>
    /\ UNCHANGED <<scenario, pairing, stored, published, sessions, sent>>

CreateInserts(c) ==
    /\ host[c].cmds = "creating"
    /\ sessions' = sessions + 1
    /\ creating' = NoConn
    /\ Broadcast(SessionFrame)
    /\ host' = [host EXCEPT ![c].cmds = "running"]
    /\ UNCHANGED <<scenario, link, pairing, stored, published, sent>>

\* Another frame, or the end of the channel, ends the intake.
IntakeEnds(c) ==
    /\ host[c].cmds = "running"
    /\ \/ link[c].up # <<>> /\ Head(link[c].up) # "Command"
       \/ link[c].phone = "closed"
    /\ host' = [host EXCEPT ![c].cmds = "ended"]
    /\ UNCHANGED <<scenario, link, pairing, hub, catalogue, sent>>

OneEnded(c) == "ended" \in {host[c].live, host[c].cmds}

\* The survivor is aborted at its next await; a command is handled without one.
Disconnect(c) ==
    /\ In(c, "live")
    /\ OneEnded(c)
    /\ host[c].cmds # "creating"
    /\ Drops(c)
    /\ UNCHANGED <<scenario, pairing, hub, catalogue, sent>>

(***************************************************************************)
(* The engine stores a message, then emits it (sync::emit_event).          *)
(***************************************************************************)
Store ==
    /\ stored < scenario.messages
    /\ stored' = stored + 1
    /\ UNCHANGED <<scenario, link, pairing, host, published, frames, catalogue, sent>>

IsStored == published < stored

Publish ==
    /\ IsStored
    /\ published' = published + 1
    /\ Broadcast(published')
    /\ UNCHANGED <<scenario, link, pairing, host, stored, catalogue, sent>>

HostInit ==
    /\ gate = ClosedGate
    /\ trusted = scenario.trusted
    /\ confirms = [c \in Conns |-> "idle"]
    /\ codes = 0
    /\ host = [c \in Conns |-> Idle]
    /\ stored = 0
    /\ published = 0
    /\ frames = <<>>
    /\ sessions = 1
    /\ creating = NoConn
    /\ sent = [c \in Conns |-> {}]

ServeStep(c) ==
    \/ Accept(c) \/ Handshake(c)
    \/ Decide(c) \/ TakeDecision(c) \/ HearWhileAsked(c) \/ LoseWhileAsked(c)
    \/ Subscribe(c) \/ CatchUp(c) \/ GoLive(c)
    \/ CatchUpFails(c)
    \/ Forward(c) \/ CreateChecks(c) \/ CreateInserts(c) \/ IntakeEnds(c) \/ Disconnect(c)
ConfirmStep(c) == ConfirmStores(c) \/ ConfirmUnsaved(c) \/ ConfirmCloses(c)
================================================================================
