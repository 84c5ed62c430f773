-------------------------------- MODULE PhoneSync --------------------------------
(***************************************************************************)
(* Phones and a desktop: PhoneClient and PhoneHost over the same links.    *)
(*                                                                         *)
(* A scenario has `peers` [Conns -> {"none", "native", "web"}] and their   *)
(* `device` [Conns -> Devices]; the devices `trusted` when the desktop     *)
(* starts; the number of `codes` it shows, of `commands` the phones' users *)
(* give and of `messages` the engine stores; and what `may` happen         *)
(* besides: a window lapses ("lapse"), a prompt expires ("expire"), the        *)
(* desktop's user rejects ("reject") or unpairs ("unpair"), the phone's    *)
(* declines ("decline") or disconnects ("leave"), a key cannot be stored   *)
(* ("fail"), a frame arrives in parts ("split"), a native phone dials      *)
(* without a code ("reconnect").                                           *)
(***************************************************************************)
EXTENDS PhoneHost, PhoneClient

Happenings == {"lapse", "expire", "reject", "unpair", "decline", "leave", "fail", "split",
               "reconnect"}

\* The session that the desktop starts with fits into a list.
ASSUME ScenariosAssumption ==
    /\ Scenarios \subseteq
          [peers : [Conns -> {"none", "native", "web"}], device : [Conns -> Devices],
           trusted : SUBSET Devices, codes : Nat, commands : Nat, messages : Nat,
           may : SUBSET Happenings]
    /\ ListBudget \in Nat \ {0}

vars == <<scenario, link, hostVars, clientVars>>

Init ==
    /\ scenario \in Scenarios
    /\ link = [c \in Conns |-> NoLink]
    /\ HostInit
    /\ ClientInit

\* A code can be scanned while it is shown and after.
Prologues(c) ==
    1 .. codes \cup {n \in {NoNonce} : Native(c) /\ May("reconnect")}

HostStep ==
    /\ UNCHANGED clientVars
    /\ \/ \E c \in Conns :
            \/ ServeStep(c) \/ DecisionTimesOut(c)
            \/ ConfirmStep(c) \/ ConfirmPairing(c) \/ RejectPairing(c)
       \/ \E d \in Devices : Unpair(d)
       \/ ShowCode \/ WindowLapses \/ Store \/ Publish

PhoneStep ==
    /\ UNCHANGED hostVars
    /\ \/ \E c \in Conns : TaskStep(c) \/ \E p \in Prologues(c) : Dial(c, p)
       \/ PhoneUserStep

Next == HostStep \/ PhoneStep
Spec == Init /\ [][Next]_vars

\* Tasks run and timers fire; neither user has to do anything, and a phone's Hello
\* arrives.
Fairness ==
    \A c \in Conns :
        /\ WF_vars(UNCHANGED clientVars /\ (ServeStep(c) \/ DecisionTimesOut(c)))
        /\ WF_vars(UNCHANGED hostVars /\ TaskStep(c))
FairSpec == Spec /\ Fairness

-----------------------------------------------------------------------------
(***************************************************************************)
(* Safety.                                                                 *)
(***************************************************************************)
HostStages == {"none", "handshake", "paired", "asked", "admitted",
               "subscribed", "caughtup", "live", "done"}
ClientStages == {"none", "dialing", "gated", "running", "tail", "web", "done", "failed"}
Catalogued == 1 .. stored

\* Every variable has its type; a phone holds only messages that were stored, and the
\* hub has broadcast only messages that were published.
TypeOK ==
    /\ \A c \in Conns :
        /\ link[c].phone \in Ends /\ link[c].host \in Ends
        /\ link[c].prologue \in 0 .. codes
        /\ host[c].stage \in HostStages /\ client[c].stage \in ClientStages
        /\ host[c].next \in 0 .. Len(frames)
        /\ sent[c] \subseteq Catalogued
        /\ confirms[c] \in {"idle", "answered", "stored"}
    /\ gate.nonce \in 0 .. codes /\ gate.pending \subseteq Conns
    /\ trusted \subseteq Devices
    /\ published \in 0 .. stored
    /\ \A i \in 1 .. Len(frames) : frames[i] \in {SessionFrame} \cup 1 .. published
    /\ slot \in Conns \cup {NoConn} /\ current \in Conns \cup {NoConn}

Accepted(device) ==
    \/ device \in scenario.trusted
    \/ \E c \in Conns : DeviceOf(c) = device /\ host[c].decision = "accept"
IsServed(c) == host[c].stage \in {"admitted", "subscribed", "caughtup", "live"}

\* Nobody is served, and no key is kept, unless the desktop's user has accepted a
\* request of that very device (serve_connection, confirm_pairing).
ServedIsAccepted ==
    /\ \A c \in Conns : IsServed(c) => Accepted(DeviceOf(c))
    /\ \A d \in trusted : Accepted(d)

\* What the user can still answer is waited for, and what waits undecided can be
\* answered, whatever ended the wait (register_pending, forget_pending).
PendingIsAwaited ==
    \A c \in Conns : c \in gate.pending <=> In(c, "asked") /\ host[c].decision = "none"

\* While messages are forwarded to a phone it has every one that was published, or the
\* hub still holds it for the phone: subscribing before catch-up leaves no hole.
NoHole ==
    \A c \in Conns :
        In(c, "live") /\ host[c].live = "running" =>
            1 .. published \subseteq
                sent[c] \cup {frames[i] : i \in host[c].next + 1 .. Len(frames)}

\* Sessions that phones create at once still fit into the list phones are sent
\* (create_remote_session).
RemoteListFits == sessions <= ListBudget

\* The desktop serves, asks about and lists what it should, whoever connects at once.
HostIsSound == TypeOK /\ ServedIsAccepted /\ PendingIsAwaited /\ RemoteListFits

\* The slot never holds a session whose task is over: there is no phantom "connected"
\* (run_client_session's gate and its tail).
SlotIsLive == slot # NoConn => client[slot].stage \in {"gated", "running", "tail"}

\* A session that runs is the installed one, or has been aborted: clearing the slot never
\* orphans the session that replaced this one.
NoOrphan ==
    \A c \in Conns :
        client[c].stage \in {"gated", "running"} /\ client[c].placed =>
            slot = c \/ client[c].aborted

\* A web session that is open is the current one or is about to be closed, unless the
\* dial that replaced it had begun before it was current (webPhoneSyncConnect).
WebIsReachable ==
    \A c \in Conns :
        At(c, "web") /\ ~client[c].overtaken =>
            \/ current = c
            \/ \E d \in Conns : client[d].previous = c /\ current # c /\ ~At(d, "dialing")

\* A session of the phone is the one its user sees, however dials and ends overlap.
ClientIsSound == SlotIsLive /\ NoOrphan /\ WebIsReachable

(***************************************************************************)
(* Liveness.                                                               *)
(***************************************************************************)
\* What the desktop owes a connection: an end to the prompt (an answer, the phone or
\* PAIRING_CONFIRM_TIMEOUT brings it), catch-up and the live session to a web phone
\* that is admitted, whose Hello may have come during the prompt, and to let go of a
\* phone that is gone, idle or not (serve_connection).
IsOwed(c) ==
    \/ May("expire") /\ In(c, "asked")
    \/ Web(c) /\ host[c].stage \in {"admitted", "subscribed", "caughtup"}
    \/ In(c, "live") /\ link[c].phone = "closed"

\* The desktop owes a connection nothing for ever.
HostServes == []<>(\A c \in Conns : ~IsOwed(c))

\* A native phone whose user gives a command over a dead connection finds out.
DeadSessionIsFound ==
    \A c \in Conns :
        slot = c /\ link[c].host = "closed" /\ client[c].queue > 0 ~> slot # c

\* Neither side waits for ever for the other: not the desktop, whatever the phone
\* does, and not the phone once the connection is dead.
ConnectionsEnd == HostServes /\ DeadSessionIsFound
================================================================================
