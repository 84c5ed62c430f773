----------------------------- MODULE Transport -----------------------------
(***************************************************************************)
(* What the supervisor of src-tauri/src/codex_app_server.rs promises the   *)
(* engine that consumes its broadcast channel: at most one process         *)
(* generation is owned at a time, generations only grow, and a generation  *)
(* that was handed to callers and then lost is announced by exactly one    *)
(* TransportClosed, after it stopped being the running one.                *)
(***************************************************************************)
EXTENDS Naturals

CONSTANT MaxGeneration     \* the last value of the generation counter

NoGeneration == 0
Generations == 1 .. MaxGeneration

VARIABLES
    current,     \* the generation owned by the supervisor, or NoGeneration
    ready,       \* whether current completed its handshake
    spawned,     \* the newest generation ever taken from the counter
    owed,        \* lost generations whose TransportClosed is not broadcast yet
    announced,   \* generations whose TransportClosed was broadcast
    halted       \* whether the supervisor was permanently closed

transportVars == <<current, ready, spawned, owed, announced, halted>>

TransportTypeOK ==
    /\ current \in Generations \cup {NoGeneration}
    /\ ready \in BOOLEAN
    /\ spawned \in Nat
    /\ owed \subseteq Generations
    /\ announced \subseteq Generations
    /\ halted \in BOOLEAN

TransportInit ==
    /\ current = NoGeneration
    /\ ready = FALSE
    /\ spawned = 0
    /\ owed = {}
    /\ announced = {}
    /\ halted = FALSE

\* A new process is spawned under the next generation number.
Start ==
    /\ current = NoGeneration
    /\ spawned + 1 \in Generations
    /\ spawned' = spawned + 1
    /\ current' = spawned + 1
    /\ UNCHANGED <<ready, owed, announced, halted>>

\* A generation number is consumed by a launch that failed.
Skip ==
    /\ current = NoGeneration
    /\ spawned' = spawned + 1
    /\ UNCHANGED <<current, ready, owed, announced, halted>>

\* The handshake of the current generation completes.
BecomeReady ==
    /\ current # NoGeneration
    /\ ~ready
    /\ ready' = TRUE
    /\ UNCHANGED <<current, spawned, owed, announced, halted>>

\* A startup that failed: nobody was given the generation, nothing is owed.
AbandonStart ==
    /\ current # NoGeneration
    /\ ~ready
    /\ current' = NoGeneration
    /\ UNCHANGED <<ready, spawned, owed, announced, halted>>

\* A generation callers may hold is lost: its announcement is now owed.
Lose ==
    /\ current # NoGeneration
    /\ ready
    /\ current' = NoGeneration
    /\ ready' = FALSE
    /\ owed' = owed \cup {current}
    /\ UNCHANGED <<spawned, announced, halted>>

\* The owed TransportClosed of g is broadcast.
Announce(g) ==
    /\ g \in owed
    /\ owed' = owed \ {g}
    /\ announced' = announced \cup {g}
    /\ UNCHANGED <<current, ready, spawned, halted>>

\* The supervisor is closed for good.
Halt ==
    /\ halted' = TRUE
    /\ UNCHANGED <<current, ready, spawned, owed, announced>>

\* A closed supervisor gives up its current generation without announcing it.
Release ==
    /\ halted
    /\ current # NoGeneration
    /\ ready
    /\ current' = NoGeneration
    /\ ready' = FALSE
    /\ UNCHANGED <<spawned, owed, announced, halted>>

TransportNext ==
    \/ Start \/ Skip \/ BecomeReady \/ AbandonStart \/ Lose \/ Halt \/ Release
    \/ \E g \in Generations : Announce(g)

TransportSpec == TransportInit /\ [][TransportNext]_transportVars
=============================================================================
