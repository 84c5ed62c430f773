------------------------------- MODULE Account -------------------------------
(***************************************************************************)
(* Signing in to Codex (codex_engine.rs and the account commands of        *)
(* lib.rs): Codex owns the account; the program begins a login, opens the  *)
(* browser, and looks every half second whether its login has ended or an  *)
(* account is there, until a deadline.  Other windows sign in, with a key  *)
(* too, or out meanwhile; the process may be lost, and its logins with it. *)
(***************************************************************************)
EXTENDS Naturals, Sequences, FiniteSets

CONSTANTS
    Callers,
    Wishes,       \* what the callers ask for: "login", "key" or "logout"
    MaxLosses     \* bound on the losses of the process

VARIABLES
    account,    \* Codex's: "none", "chatgpt" or "key"
    login,      \* the login of a caller, as Codex has it: "no", "open", "succeeded", "failed", "cancelled"
    notes,      \* the account/login/completed that the pump has not handled
    results,    \* login_results: the logins that succeeded and that failed
    call,       \* each caller: pc, wish, whether it found an account when it began, its answer
    losses

vars == <<account, login, notes, results, call, losses>>

Note(c, success) == [of |-> c, success |-> success]
Caller(wish) == [pc |-> "idle", wish |-> wish, had |-> FALSE, answer |-> "none"]

Init ==
    /\ account \in {"none", "chatgpt"}
    /\ login = [c \in Callers |-> "no"]
    /\ notes = <<>> /\ results = {}
    /\ \E wish \in Wishes : call = [c \in Callers |-> Caller(wish[c])]
    /\ losses = 0

Answer(c, answer) == call' = [call EXCEPT ![c].pc = "done", ![c].answer = answer]

(* start_chatgpt_login, and opening the browser, which may fail *)
StartLogin(c) ==
    /\ call[c].pc = "idle" /\ call[c].wish = "login"
    /\ \/ /\ login' = [login EXCEPT ![c] = "open"]
          /\ \E opens \in BOOLEAN :
               call' = [call EXCEPT ![c].pc = IF opens THEN "waits" ELSE "done", ![c].had = account # "none",
                                    ![c].answer = IF opens THEN "none" ELSE "not_begun"]
       \/ Answer(c, "not_begun") /\ UNCHANGED login
    /\ UNCHANGED <<account, notes, results, losses>>

(* wait_for_login: first the result of this login, then the account *)
\* Mutant: the result of any login is taken.
AnyResult(c) == results
OwnResult(c) == {r \in results : r.of = c}

TakeResult(c) ==
    /\ call[c].pc = "waits"
    /\ results' = results \ OwnResult(c)
    /\ IF \E r \in OwnResult(c) : ~r.success THEN Answer(c, "failed")
       ELSE call' = [call EXCEPT ![c].pc = "reads"]
    /\ UNCHANGED <<account, login, notes, losses>>

ReadAccount(c) ==
    /\ call[c].pc = "reads"
    /\ \/ account # "none" /\ Answer(c, "signed_in")
       \/ account = "none" /\ call[c].wish = "key" /\ Answer(c, "signed_out")
       \/ /\ account = "none" /\ call[c].wish = "login"
          /\ \E next \in {"waits", "cancels"} :                               \* the deadline is over or not
               call' = [call EXCEPT ![c].pc = next]
       \/ Answer(c, "unavailable")                                           \* account/read fails
    /\ UNCHANGED <<account, login, notes, results, losses>>

Cancelled(c) == IF login[c] = "open" THEN [login EXCEPT ![c] = "cancelled"] ELSE login

Cancel(c) ==
    /\ call[c].pc = "cancels"
    /\ \/ login' = Cancelled(c) /\ Answer(c, "timed_out")
       \/ UNCHANGED login /\ Answer(c, "timed_out_alone")                    \* account/login/cancel fails
    /\ UNCHANGED <<account, notes, results, losses>>

(* login_api_key and logout *)
LoginKey(c) ==
    /\ call[c].pc = "idle" /\ call[c].wish = "key"
    /\ \/ account' = "key" /\ call' = [call EXCEPT ![c].pc = "reads", ![c].had = TRUE]
       \/ UNCHANGED account /\ Answer(c, "failed_key")
    /\ UNCHANGED <<login, notes, results, losses>>

Logout(c) ==
    /\ call[c].pc = "idle" /\ call[c].wish = "logout"
    /\ account' = "none" /\ Answer(c, "signed_out")
    /\ UNCHANGED <<login, notes, results, losses>>

(* Codex ends a login, and the pump hears of it *)
EndLogin(c, success) ==
    /\ login[c] = "open"
    /\ login' = [login EXCEPT ![c] = IF success THEN "succeeded" ELSE "failed"]
    /\ account' = IF success THEN "chatgpt" ELSE account
    /\ notes' = Append(notes, Note(c, success))
    /\ UNCHANGED <<results, call, losses>>

HearLogin ==
    /\ notes # <<>>
    /\ notes' = Tail(notes) /\ results' = results \cup {Head(notes)}
    /\ UNCHANGED <<account, login, call, losses>>

LoseProcess ==
    /\ losses < MaxLosses /\ losses' = losses + 1
    /\ login' = [c \in Callers |-> IF login[c] = "open" THEN "failed" ELSE login[c]]
    /\ UNCHANGED <<account, notes, results, call>>

Next ==
    \/ \E c \in Callers :
         \/ StartLogin(c) \/ TakeResult(c) \/ ReadAccount(c) \/ Cancel(c) \/ LoginKey(c) \/ Logout(c)
         \/ \E success \in BOOLEAN : EndLogin(c, success)
    \/ HearLogin \/ LoseProcess

Spec == Init /\ [][Next]_vars

-----------------------------------------------------------------------------
\* A window is told of its own login, of two that sign in at once: that it failed
\* only if it did, that it is signed in, where no account was, only if a login or
\* a key succeeded, and a login that was given up cannot sign in any more
\* (wait_for_login, login_results).
LoginIsItsOwn ==
    \A c \in Callers :
        /\ call[c].answer = "failed" => login[c] = "failed"
        /\ call[c].answer = "timed_out" => login[c] # "open"
        /\ call[c].answer = "signed_in" /\ ~call[c].had =>
             \E d \in Callers : login[d] = "succeeded" \/ (call[d].wish = "key" /\ call[d].pc # "idle")
=============================================================================
