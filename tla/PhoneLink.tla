------------------------------- MODULE PhoneLink -------------------------------
(***************************************************************************)
(* Connections between a phone and the desktop, as both sides of Phone     *)
(* Sync see them (crates/portcode-sync/src/transport_native.rs): an        *)
(* encrypted channel once the handshake is over, which either side ends by *)
(* dropping its half.                                                      *)
(*                                                                         *)
(* `up` is what the phone has sent and the desktop has not read.  Of what  *)
(* the desktop sends only the messages matter; `sent` of PhoneHost has     *)
(* them.                                                                   *)
(***************************************************************************)
EXTENDS Naturals, Sequences, FiniteSets, PairingGate

CONSTANTS
    Conns,        \* connection attempts
    NoConn,
    Devices,      \* phones, by their long-term key
    Scenarios     \* what happens around the two sides, see PhoneSync

ASSUME LinkAssumption ==
    /\ IsFiniteSet(Conns) /\ NoConn \notin Conns
    /\ IsFiniteSet(Devices)

VARIABLES
    scenario,
    link         \* each attempt's channel

Frames == {"Hello", "PairingReject", "Command"}
Ends == {"none", "dialing", "open", "closed"}
NoLink == [up |-> <<>>, prologue |-> NoNonce, phone |-> "none", host |-> "none"]

DeviceOf(c) == scenario.device[c]
IsOpen(c) == link[c].phone = "open" /\ link[c].host = "open"
Up(c, frame) == [link EXCEPT ![c].up = IF IsOpen(c) THEN Append(@, frame) ELSE @]
PhoneCloses(c) == [link EXCEPT ![c].phone = "closed"]
\* What was not read is lost.
HostCloses(c) == [link EXCEPT ![c].host = "closed", ![c].up = <<>>]
================================================================================
