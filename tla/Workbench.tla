------------------------------ MODULE Workbench ------------------------------
(***************************************************************************)
(* The services of the desktop that stand for themselves: each keeps its   *)
(* own state and none calls another, so that a behaviour of them together  *)
(* is one of each.  A behaviour here is about one of them, its part, and   *)
(* the variables of the others rest; the state space is the sum of theirs  *)
(* and not their product.                                                  *)
(***************************************************************************)
EXTENDS Naturals, Sequences, FiniteSets

CONSTANTS
    \* Migrations
    Databases, MaxOpens, MaxSaves,
    \* Attachments
    Askers, Files, MaxAttachments, MaxFile, MaxTotal, MaxCandidates, MaxIssues, Permits,
    Scenes, MaxForeignWrites,
    \* Marketplace
    PluginCalls, Wants, Catalogs,
    \* Projection
    Turns, Conversations, MaxRetained, MaxFailures, MaxRepeats,
    \* Settings
    Calls, Requests, Edits, MaxEdits, MaxRestarts,
    \* Secrets
    Callers, SecretWishes, MaxFaults,
    \* Telemetry
    Processes, MaxChanges, MaxReports,
    \* Account
    Wishes, MaxLosses

VARIABLES
    part,   \* the service this behaviour is about
    db, at, before, opens, saves,
    wants, disk, writes, pc, next, prepared, issues, active, sent, codex, abandoned,
    marketWants, changes, installed, routes, marketCall, answer, floor,
    spoken, spokenSoFar, current, turns, failed, billed, usage, heard, record, saved,
    captured, view, shown, unsaved, repeats,
    running, memory, file, durable, lock, call, expected, doubt, edits, restarts,
    secretWants, secretFile, secretDurable, access, secretLock, secretCall, handed,
    made, exempt, faults, secretRestarts,
    consent, writing, answered, stuck, alive, seen, report, reportsSent, consentChanges,
    reports,
    account, login, notes, results, accountCall, losses

Parts == {"Migrations", "Attachments", "Marketplace", "Projection", "Settings", "Secrets",
          "Telemetry", "Account"}

Migrations == INSTANCE Migrations
Attachments == INSTANCE Attachments WITH Callers <- Askers,
    MaxWrites <- MaxForeignWrites
Marketplace == INSTANCE Marketplace WITH wants <- marketWants, call <- marketCall,
    Calls <- PluginCalls
Projection == INSTANCE Projection WITH script <- spoken, said <- spokenSoFar,
    failures <- unsaved
Settings == INSTANCE Settings
Secrets == INSTANCE Secrets WITH wants <- secretWants, file <- secretFile,
    durable <- secretDurable, lock <- secretLock, call <- secretCall,
    restarts <- secretRestarts, Wishes <- SecretWishes
Telemetry == INSTANCE Telemetry WITH sent <- reportsSent, changes <- consentChanges
Account == INSTANCE Account WITH call <- accountCall

vars == <<part, Migrations!vars, Attachments!vars, Marketplace!vars, Projection!vars,
          Settings!vars, Secrets!vars, Telemetry!vars, Account!vars>>

\* The variables of a service that is not the behaviour's part.
AtRest(p) ==
    CASE p = "Migrations" -> db = 0 /\ at = 0 /\ before = 0 /\ opens = 0 /\ saves = 0
      [] p = "Attachments" -> wants = 0 /\ disk = 0 /\ writes = 0 /\ pc = 0 /\
           next = 0 /\ prepared = 0 /\ issues = 0 /\ active = 0 /\ sent = 0 /\ codex = 0 /\ abandoned = 0
      [] p = "Marketplace" -> marketWants = 0 /\ changes = 0 /\ installed = 0 /\
           routes = 0 /\ marketCall = 0 /\ answer = 0 /\ floor = 0
      [] p = "Projection" -> spoken = 0 /\ spokenSoFar = 0 /\ current = 0 /\
           turns = 0 /\ failed = 0 /\ billed = 0 /\ usage = 0 /\ heard = 0 /\
           record = 0 /\ saved = 0 /\ captured = 0 /\ view = 0 /\ shown = 0 /\
           unsaved = 0 /\ repeats = 0
      [] p = "Settings" -> running = 0 /\ memory = 0 /\ file = 0 /\ durable = 0 /\
           lock = 0 /\ call = 0 /\ expected = 0 /\ doubt = 0 /\ edits = 0 /\
           restarts = 0
      [] p = "Secrets" -> secretWants = 0 /\ secretFile = 0 /\ secretDurable = 0 /\
           access = 0 /\ secretLock = 0 /\ secretCall = 0 /\ handed = 0 /\ made = 0 /\
           exempt = 0 /\ faults = 0 /\ secretRestarts = 0
      [] p = "Telemetry" -> consent = 0 /\ writing = 0 /\ answered = 0 /\ stuck = 0 /\
           alive = 0 /\ seen = 0 /\ report = 0 /\ reportsSent = 0 /\
           consentChanges = 0 /\ reports = 0
      [] p = "Account" -> account = 0 /\ login = 0 /\ notes = 0 /\ results = 0 /\
           accountCall = 0 /\ losses = 0

Untouched(p) ==
    CASE p = "Migrations" -> UNCHANGED <<db, at, before, opens, saves>>
      [] p = "Attachments" -> UNCHANGED <<wants, disk, writes, pc, next, prepared,
           issues, active, sent, codex, abandoned>>
      [] p = "Marketplace" -> UNCHANGED <<marketWants, changes, installed, routes,
           marketCall, answer, floor>>
      [] p = "Projection" -> UNCHANGED <<spoken, spokenSoFar, current, turns, failed,
           billed, usage, heard, record, saved, captured, view, shown, unsaved, repeats>>
      [] p = "Settings" -> UNCHANGED <<running, memory, file, durable, lock, call,
           expected, doubt, edits, restarts>>
      [] p = "Secrets" -> UNCHANGED <<secretWants, secretFile, secretDurable, access,
           secretLock, secretCall, handed, made, exempt, faults, secretRestarts>>
      [] p = "Telemetry" -> UNCHANGED <<consent, writing, answered, stuck, alive, seen,
           report, reportsSent, consentChanges, reports>>
      [] p = "Account" -> UNCHANGED <<account, login, notes, results, accountCall,
           losses>>

OthersRest(p) == \A q \in Parts \ {p} : AtRest(q)
OthersStay(p) == \A q \in Parts \ {p} : Untouched(q)

Init ==
    \/ part = "Migrations" /\ Migrations!Init /\ OthersRest("Migrations")
    \/ part = "Attachments" /\ Attachments!Init /\ OthersRest("Attachments")
    \/ part = "Marketplace" /\ Marketplace!Init /\ OthersRest("Marketplace")
    \/ part = "Projection" /\ Projection!Init /\ OthersRest("Projection")
    \/ part = "Settings" /\ Settings!Init /\ OthersRest("Settings")
    \/ part = "Secrets" /\ Secrets!Init /\ OthersRest("Secrets")
    \/ part = "Telemetry" /\ Telemetry!Init /\ OthersRest("Telemetry")
    \/ part = "Account" /\ Account!Init /\ OthersRest("Account")

MigrationsStep == part = "Migrations" /\ Migrations!Next /\ UNCHANGED part /\ OthersStay("Migrations")
AttachmentsStep == part = "Attachments" /\ Attachments!Next /\ UNCHANGED part /\ OthersStay("Attachments")
MarketplaceStep == part = "Marketplace" /\ Marketplace!Next /\ UNCHANGED part /\ OthersStay("Marketplace")
ProjectionStep == part = "Projection" /\ Projection!Next /\ UNCHANGED part /\ OthersStay("Projection")
SettingsStep == part = "Settings" /\ Settings!Next /\ UNCHANGED part /\ OthersStay("Settings")
SecretsStep == part = "Secrets" /\ Secrets!Next /\ UNCHANGED part /\ OthersStay("Secrets")
TelemetryStep == part = "Telemetry" /\ Telemetry!Next /\ UNCHANGED part /\ OthersStay("Telemetry")
AccountStep == part = "Account" /\ Account!Next /\ UNCHANGED part /\ OthersStay("Account")

Next == MigrationsStep \/ AttachmentsStep \/ MarketplaceStep \/ ProjectionStep \/
    SettingsStep \/ SecretsStep \/ TelemetryStep \/ AccountStep

Spec == Init /\ [][Next]_vars

-----------------------------------------------------------------------------
\* What is asked of the services, as their modules read it
ASSUME WishesAreKnown ==
    /\ Wishes \subseteq [Callers -> {"login", "key", "logout"}]
    /\ SecretWishes \subseteq [Callers -> {"device", "iroh"}]

\* Nobody is called as a lock that is free; what is written into the settings is a
\* model and a mode, and does not say that it cannot be read.
IsPolicy(s) == s = [model |-> s.model, mode |-> s.mode] /\ s.mode # "unreadable"
ASSUME CallersAreNamed == "free" \notin Calls \cup Callers
ASSUME PoliciesAreRead ==
    /\ \A request \in Requests : \A c \in Calls : IsPolicy(request[c])
    /\ \A bytes \in Edits : IsPolicy(bytes)

\* A list as the program has it.
IsList(s) == Len(s) \in Nat /\ s = [i \in 1 .. Len(s) |-> s[i]]

\* What is not in a database cannot be told: a session without a model, a receipt
\* without a state, no receipt without its table; a later message is not older.
IsReceipt(r, states) ==
    /\ r = [state |-> r.state, status |-> r.status, anchor |-> r.anchor, started |-> r.started]
    /\ r.anchor \in Nat \cup {Migrations!Null} /\ r.started \in Nat /\ r.state \in states
IsDatabase(d) ==
    /\ d = [tables |-> d.tables, columns |-> d.columns, confirmed |-> d.confirmed,
            session |-> d.session, messages |-> d.messages, receipts |-> d.receipts]
    /\ d.session = [model |-> d.session.model, account |-> d.session.account]
    /\ {d.tables, d.confirmed} \subseteq BOOLEAN
    /\ "model" \notin d.columns => d.session.model = "untold"
    /\ ~d.tables => DOMAIN d.receipts = {}
    /\ IsList(d.messages)
    /\ \A i \in DOMAIN d.messages :
         d.messages[i].time \in Nat /\ \A j \in 1 .. i : d.messages[j].time <= d.messages[i].time
    /\ d.receipts = [t \in DOMAIN d.receipts |-> d.receipts[t]]
    /\ \A t \in DOMAIN d.receipts :
         IsReceipt(d.receipts[t], IF "terminal" \in d.columns THEN {"pending", "known", "terminal"} ELSE {"untold"})
ASSUME DatabasesAreOld == \A d \in Databases : IsDatabase(d)

\* Turns are numbered, and what Codex says of an item fits: it is a text or a tool,
\* and nothing is streamed of a text after its final words.
Fits(e, f) ==
    e.item = f.item /\ "usage" \notin {e.kind, f.kind} =>
        /\ e.kind \in {"delta", "text"} <=> f.kind \in {"delta", "text"}
        /\ ~(e.kind = "text" /\ f.kind = "delta")
IsEvent(e) ==
    /\ e = [kind |-> e.kind, item |-> e.item, text |-> e.text]
    /\ e.kind \in {"delta", "text", "started", "tool", "usage"} /\ e.item \in Nat /\ e.text \in Seq(Nat)
ASSUME TurnsAreNumbered ==
    /\ Turns \subseteq Nat \ {0} /\ IsFiniteSet(Turns)
    /\ MaxRetained \in Nat \ {0} /\ MaxRepeats \in Nat
ASSUME ItemsFit ==
    \A talk \in Conversations :
        /\ DOMAIN talk = Turns
        /\ \A t \in Turns : IsList(talk[t])
        /\ \A t \in Turns : \A n \in DOMAIN talk[t] :
             IsEvent(talk[t][n]) /\ \A m \in 1 .. n - 1 : Fits(talk[t][m], talk[t][n])

\* There is an offer, which may change.
ASSUME SomethingIsOffered == Len(Catalogs) \in Nat \ {0}

\* Files on a disk, each with a name, and paths that lead to them or to nothing; the
\* limits are numbers, and an issue is counted.
IsFile(r) ==
    /\ r = [kind |-> r.kind, size |-> r.size, sound |-> r.sound, version |-> r.version, name |-> r.name]
    /\ {r.size, r.version} \subseteq Nat /\ IsList(r.name)
ASSUME ScenesAreKnown ==
    /\ {MaxAttachments, MaxFile, MaxTotal} \subseteq Nat /\ MaxIssues \in Nat \ {0}
    /\ "nobody" \notin Askers
    /\ \A scene \in Scenes :
         /\ scene.disk = [f \in Files |-> scene.disk[f]] /\ \A f \in Files : IsFile(scene.disk[f])
         /\ \A c \in Askers :
              /\ IsList(scene.wants[c].paths) /\ IsList(scene.wants[c].names)
              /\ \A i \in DOMAIN scene.wants[c].paths : scene.wants[c].paths[i] \in Files \cup {"missing"}

-----------------------------------------------------------------------------
\* A start that gets through its migrations, after any number that were cut off,
\* leaves what the earlier build or the last run meant (Db::open).
OpenKeeps == [][part = "Migrations" => Migrations!StartKeeps]_vars

\* A turn goes out with all of its files, and Codex reads what was checked of them,
\* whatever is written to them meanwhile (prepare_turn, PreparedTurn).
AttachmentsAreWhatWasChecked ==
    part = "Attachments" => Attachments!TurnIsWhole /\ Attachments!CodexReadsWhatWasChecked

\* An install was confirmed and goes by an entry of a list that is not outdated,
\* however lists overlap (marketplace_plugin_install).
RoutesAreCurrent == part = "Marketplace" => Marketplace!RoutesAreCurrent

\* Of a turn its answer, its usage and what a window shows of it agree with the
\* events that were recorded, though terminals come twice and writes fail
\* (complete_turn, retain_failed_root_projection, project_usage).
AnswerIsSaved ==
    part = "Projection" => /\ Projection!AnswerIsSaved /\ Projection!FailedIsKept
                           /\ Projection!UsageCountsOnce /\ Projection!LiveIsReloaded

\* Settings and identities that were told or handed out are those a restart finds,
\* though calls overlap, files are edited or unreadable and machines lose power
\* (Settings::save_with, backend::set_in).
FilesKeepWhatWasTold ==
    /\ [](part = "Settings" => Settings!PolicyIsAsTold)
    /\ [][part = "Settings" => Settings!StartFindsIt]_vars
    /\ [](part = "Secrets" => Secrets!IdentityStays)

\* No report goes that the user did not agree to, and none holds anything private
\* (consent_is_live, before_send).
ReportsAreAsked == part = "Telemetry" => Telemetry!ReportsAreAsked

\* A window is told of its own login, of two that sign in at once (wait_for_login).
LoginIsItsOwn == part = "Account" => Account!LoginIsItsOwn
=============================================================================
