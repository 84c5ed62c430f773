------------------------------ MODULE Secrets ------------------------------
(***************************************************************************)
(* The two identities of Phone Sync in the secret store (secrets.rs,       *)
(* sync/pairing.rs): each is made when it is first asked for.  The store   *)
(* is one file, secrets.json, that a write replaces whole; on Windows the  *)
(* entries are apart.  The credentials of earlier builds, which nothing    *)
(* reads any more, are left out.                                           *)
(***************************************************************************)
EXTENDS Naturals

CONSTANTS
    Callers,
    Wishes,         \* the entry each caller asks for
    MaxFaults,      \* bound on the changes of the file's state
    MaxRestarts

Entries == {"device", "iroh"}
Absent == 0
Empty == [e \in Entries |-> Absent]

VARIABLES
    wants,
    file,       \* the key in each entry of the file
    durable,    \* what a power loss leaves of it
    access,     \* "open", "locked" (it cannot be read now), "corrupt" (it is no JSON now)
    lock,       \* the call that holds STORE_COMMIT_LOCK, or "free"
    call,       \* each call: pc, key, map
    handed,     \* the keys the program went on with
    made,       \* how many keys were made
    exempt,     \* the entries two calls made at once, or that could not be read when they were asked for, or lost
    faults, restarts

vars == <<wants, file, durable, access, lock, call, handed, made, exempt, faults, restarts>>

Idle == [pc |-> "idle", key |-> Absent, map |-> Empty]

\* read_map_in: what cannot be read is an error
ReadMap(c) == [ok |-> access = "open", map |-> file]

CanLock(c) == lock = "free"

Making(e) == {d \in Callers : wants[d] = e /\ call[d].pc \in {"stores", "renames"}}

-----------------------------------------------------------------------------
Init ==
    /\ wants \in Wishes
    /\ file = Empty /\ durable = Empty
    /\ access = "open" /\ lock = "free"
    /\ call = [c \in Callers |-> Idle]
    /\ handed = [e \in Entries |-> {}]
    /\ made = 0 /\ exempt = {} /\ faults = 0 /\ restarts = 0

HandOut(c, key) == handed' = [handed EXCEPT ![wants[c]] = @ \cup {key}]
Finish(c) == call' = [call EXCEPT ![c].pc = "done"]

\* backend::get, under the lock
Get(c) ==
    /\ call[c].pc = "idle" /\ CanLock(c)
    /\ LET e == wants[c]
           make == /\ made' = made + 1
                   /\ call' = [call EXCEPT ![c].pc = "stores", ![c].key = made + 1]
                   /\ UNCHANGED handed
       IN  \/ /\ ReadMap(c).ok /\ ReadMap(c).map[e] # Absent
              /\ HandOut(c, ReadMap(c).map[e]) /\ Finish(c)
              /\ UNCHANGED <<made, exempt>>
           \/ /\ ReadMap(c).ok /\ ReadMap(c).map[e] = Absent
              /\ make
              /\ exempt' = IF Making(e) # {} THEN exempt \cup {e} ELSE exempt
           \/ /\ ~ReadMap(c).ok /\ e = "device"     \* get_device_key: any error is None
              /\ make
              /\ exempt' = exempt \cup {e}
           \/ /\ ~ReadMap(c).ok /\ e = "iroh"       \* get_or_create_iroh_key returns it
              /\ Finish(c)
              /\ UNCHANGED <<made, handed, exempt>>
    /\ UNCHANGED <<wants, file, durable, access, lock, faults, restarts>>

\* set_in: lock and read
Store(c) ==
    /\ call[c].pc = "stores" /\ CanLock(c)
    /\ IF ReadMap(c).ok
       THEN /\ lock' = c
            /\ call' = [call EXCEPT ![c].pc = "renames", ![c].map = [ReadMap(c).map EXCEPT ![wants[c]] = call[c].key]]
       ELSE Finish(c) /\ UNCHANGED lock
    /\ UNCHANGED <<wants, file, durable, access, handed, made, exempt, faults, restarts>>

\* write_map_in: the temporary file is written beside the store, synchronized, and
\* replaces it; whether the directory is synchronized is not looked at.
Rename(c) ==
    /\ call[c].pc = "renames"
    /\ file' = call[c].map /\ access' = "open"
    /\ durable' \in {durable, call[c].map}
    /\ lock' = "free"
    /\ HandOut(c, call[c].key) /\ Finish(c)
    /\ UNCHANGED <<wants, made, exempt, faults, restarts>>

\* Any step of it fails: the temporary file goes, the caller is told.
Fail(c) ==
    /\ call[c].pc = "renames"
    /\ lock' = "free"
    /\ Finish(c)
    /\ UNCHANGED <<wants, file, durable, access, handed, made, exempt, faults, restarts>>

\* The file becomes unreadable, or readable again, behind the program's back.
Fault(state) ==
    /\ access # state /\ faults < MaxFaults
    /\ access' = state /\ faults' = faults + 1
    /\ UNCHANGED <<wants, file, durable, lock, call, handed, made, exempt, restarts>>

\* The program ends, and the machine with it or not.
Restart ==
    /\ restarts < MaxRestarts
    /\ restarts' = restarts + 1
    /\ file' \in {file, durable} /\ durable' = file'
    /\ exempt' = exempt \cup {e \in Entries : file'[e] # file[e]}
    /\ lock' = "free"
    /\ call' = [c \in Callers |-> Idle]
    /\ UNCHANGED <<wants, access, handed, made, faults>>

Next ==
    \/ \E c \in Callers : Get(c) \/ Store(c) \/ Rename(c) \/ Fail(c)
    \/ \E state \in {"open", "locked", "corrupt"} : Fault(state)
    \/ Restart

Spec == Init /\ [][Next]_vars

-----------------------------------------------------------------------------
\* The identity a phone was paired with is the one in the store: neither a write
\* of the other entry at the same time, nor a file that could not be read, nor a
\* write that was cut off replaces it (backend::set_in, get_or_create_iroh_key).
\* Excepted are the entries in `exempt`.
IdentityStays == \A e \in Entries \ exempt : \A key \in handed[e] : file[e] = key
=============================================================================
