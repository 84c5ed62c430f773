# A verification of Portcode

Portcode is a desktop application (Tauri: Rust core, React UI) that drives the OpenAI Codex
`app-server`, a child process that speaks JSON-RPC over stdio, and lets phones follow and steer its
sessions. This directory holds TLA+ models of the Rust core, the TLC configurations that check
them on small instances, and theorems with TLAPS proofs. `PROJECT.json` maps every definition to
the lines it models and lists the hazards each property is for.

## 1. Inventory

Paths are relative to the repository; "engine" is `src-tauri/src/codex_engine.rs`. "Hard" names
what tests of this code hardly reach.

| Component | State | Operations | Hard | Modules |
|---|---|---|---|---|
| Supervisor of the app-server, `src-tauri/src/codex_app_server.rs` | `state.running`, `pending`, `closed` and its signal, two counters; a reader and a waiter task per generation | `request`, `send_response_*`, `status`, `shutdown`, reports of loss | concurrent first use, several reporters of one loss, failed startup, shutdown anywhere, cut frames | `Transport`, `AppServer` |
| Root turns, engine | `active_by_session`, `pending_starts`, `turns`, `active_by_thread`, `routes`, `session_interrupts`, `request_lifecycle`, `shutdown_gate` | `run_turn`, `interrupt_session`, the pump, watchdogs, `shutdown` | a turn's events race its activation; stale generations; two deciders of one outcome | `TurnLifecycle` |
| Requests to the user, engine 1481-1641, 2429-2598 | `pending_requests`, claims | accept, resolve, restore, retire | two answers, retirement while one is sent, reused ids | `Approvals` |
| Child agents, engine 1262-1480, 1937-2092, 2797-3113, 3560-3664 | child routes, `subagent_*`, `agent_interrupts`, retention orders | route, interrupt, watchdog, terminals, pruning | a late truth after a synthetic terminal, room that must come back | `Subagents` |
| Deferred events, engine 144-190, 2098-2213, 3970-4110 | `deferred_by_thread`, four limits | defer, evict, drain | overflow keeps terminals | `DeferredQueue` |
| Live projection, engine 2704-2797, 3205-3400 | `turns`, `failed_root_retention_order` | fold items, save at the end, reload | a terminal twice, or unsaved | `Projection` |
| Sanitizing, engine 4300-4800 | - | bounded copies of events | what is cut is routed afterwards | `Sanitizer` |
| Account and marketplace, engine 424-760, `codex_marketplace.rs` | `login_results`, routes of plugins | login, wait, logout; list, install | two windows | `Account`, `Marketplace` |
| Database, `src-tauri/src/db.rs` | the SQLite tables | append and prune, page, restore, receipts, delete, migrate | transaction boundaries, kills | `ActivityLog`, `Receipts`, `SessionStore`, `Transcript`, `Migrations` |
| Phone Sync host, `sync/*`, `lib.rs` 1360-1700, `crates/portcode-sync/src/session.rs` | pairing gate, hub, connections | pair, serve, catch up, forward, create | expiry against confirmation, lag | `PairingGate`, `PhoneLink`, `PhoneHost` |
| Phones, `sync/client.rs`, `lib.rs` 1801-1940, `crates/portcode-wasm`, `webSession.ts` | slot, current session | connect, send, disconnect | a session that ends while it is replaced | `PhoneClient`, `PhoneSync` |
| Public projection, `sync/public.rs`, `sync/mod.rs` | text held back per session | redact, cut, subscribe, page | credentials across a cut | `PublicStream`, `PublicView`, `PhoneHistory` |
| Git review, `git_review.rs` | files of the user | manifest, patch, capture | an editor writes meanwhile | `GitReview` |
| Attachments, `attachments.rs` | private copies of images | validate, prepare, release | files change after the check | `Attachments` |
| Settings, `settings.rs`; secrets, `secrets.rs`, `sync/pairing.rs` | one file each, a copy in memory | load, save; get or make | a replacement that half fails | `Settings`, `Secrets` |
| Consent and reports, `consent.rs`, `telemetry.rs`, `scrub.rs` | a file read by two processes | enable, withdraw, report | withdrawn on the way | `Telemetry` |
| UI store, React UI, `workspace.rs`, `update.rs`, wire codecs, relay | - | - | - | section 11 |

What makes each correct, in a line: the supervisor takes every lost generation down once and leaves
nobody waiting; a root turn has one owner and one outcome; a request is pending for a live turn and
answered once; deferral loses diagnostics before terminals; an agent keeps its provenance and
finishes once; an answer is saved as it was streamed; the log stays in its bounds, and what proves
an end goes last; a phone is served after a decision and sees every message, and no credential; a
client has one session; a file that was read, confirmed or promised is the one that is used.

How they interact: the UI and Phone Sync call the engine; the engine calls the supervisor
(`request`, `status`, `send_response_*`) and subscribes to its broadcast channel; the reader task
of a generation broadcasts notifications, server requests and, through `connection_lost`, one
`TransportClosed`; the engine's single pump task sanitizes and consumes them, writes the database,
and emits stream events to the UI and, through the public projection, to the hub of Phone Sync.
Which modules compose: `TurnLifecycle` and `Approvals` extend `Transport`, which `AppServer`
implements; `Subagents` extends `DeferredQueue`; `PhoneSync` is `PhoneHost` and `PhoneClient` over
`PhoneLink`; `SessionStore` extends `ActivityLog` and `Receipts`, which `Migrations` extends too;
`Workbench` puts the services of section 8 side by side, `MCWorkbench` the readers beside them.

A property named in a run may be a conjunction; the conjuncts are named where it is defined.

## 2. The supervisor: `Transport`, `AppServer`

`Transport` is the abstract specification: a current generation that is started, becomes ready,
is abandoned, lost or released; generation numbers that only grow; and for each generation that
became ready and was lost exactly one announcement, owed from the loss until it is broadcast. A
startup that failed and a shutdown owe none.

`AppServer` is the code. One step runs from one await to the next. `lock` is the state mutex,
which `ensure_running` holds across the whole handshake; `pending`, `reply` and `req` are the
pending table and the oneshot responders; `pc` and `conn` are each task's place and the
generation it acts on; `child`, `inbox`, `stdout`, `torn`, `stop` are the process, what it has
received and not answered, what it has written and the reader has not read, whether its stdin
holds half a frame (a write cut off by a timeout), and whether its owner task was told to kill.
The pending mutex is only held for one statement and needs no variable. `closed` stands for the
flag and the watch channel that are raised together; a caller may see the flag before the signal
cancels it, because `CancelHandshake` is a step of its own.

| Run | Instance | Question |
|---|---|---|
| `appserver_safety` | 2 clients, 3 generations, 3 request ids; 608,972 states | `TypeOK`, `AwaitedIsReachable`, `ProcessesSupervised` (no process is left to itself, and shutdown is final), `SingleTeardown`, `ImplementsTransport` |
| `appserver_liveness` | 1 client, 1 responder, 2 generations, 3 ids; 15,280 states | `NothingHangs`: every call returns, a dead process is retired |

Two clients are enough for both to race one startup, to share a connection and to report its
loss; each generation has its own reader and waiter besides. Three generations let stale reports
of two old ones meet a third. The counters end at `MaxGeneration` and `MaxRequestId`, the code's
`u64::MAX`, so exhaustion is part of every run. Responders are only in the liveness run: they add
one more reporter of a loss. Deadlock is not checked: a supervisor whose callers are idle stops.

Fairness: tokio polls a ready task, every timeout elapses, and tokio's mutex is first in first
out, so a caller that can proceed again and again does (strong fairness per task). Nothing is
assumed of the process: it may never answer and never exit.

## 3. Root turns: `TurnLifecycle`

`TurnLifecycle` EXTENDS `Transport` and uses its actions as the supervisor's part: what is proved
of `AppServer` (it implements `Transport`) is what the engine's model relies on. A step runs from
one slow wait to the next (an app-server request, a database write, `request_lifecycle`, a timer,
the state mutex); the engine's maps are locked for one statement each and are no scheduling
points. A session has one thread, and a run starts at most one turn, so a thread is named by its
session and a turn by the run that asked for it: `pendingStart`, `activeThread`, `route` and
`resumed` are indexed by session, `projected[t]` is the generation of `turns[t]`.

| Code | Model |
|---|---|
| `run_turn` | `BeginRun`, `RunFails`, and `Prepare`, `ReadStatus`, `LoadThread`, `BindThread`, `RecordResumed`, `InsertStart`, `SendTurnStart`, `ReceiveTurn` for `run_turn_inner` |
| `activate_pending_turn` | `Activate` up to the database write, `PublishTurn` or `PersistFails` after it; called by the run (`ReceiveTurn`) and by the pump (`HandleStarted`) |
| `send_session_interrupt` | `SendInterrupt`, then `InterruptAccepted` or `InterruptFails` |
| `interrupt_session` | `Stop` |
| `handle_interrupt_watchdog` | `WatchdogWakes`, `WatchdogChecks`, `WatchdogCancels`, `WatchdogAppendFails` |
| the pump | `HandleStarted`, `HandleCompleted` with `CompleteTurn`, `TerminalUnsaved`, `TerminalDropped`, `HandleClosed`, and `PumpIgnores` for its early returns |
| `shutdown` | `CloseTransport`, `DrainRuns`, `FinishShutdown` |
| the app-server (external) | `ReplyTurnStart`, `NotifyStarted`, `NotifyCompleted`; it accepts `turn/start` only for a thread its process has loaded |

`shown`, `outcome`, `wanted` and `sent` are observations: what a listener of the session's channel
sees running, how each turn was ended, which runs the user stopped, which turns an interrupt was
sent for.

| Run | Instance | Question |
|---|---|---|
| `turn_safety` | 2 runs (interchangeable: symmetry), 1 stop, 2 generations, storage may fail; 1,001,739 states | `OwnersAgree` (`TypeOK`; the maps name one live turn, `MapsAgree`; a sent interrupt has its watchdog, `SentIsGuarded`), `OwnedSessionIsReleasable`, `EndingsStand` (`OutcomeIsFinal`, `NewerTurnSurvives`) |
| `turn_liveness` | 2 runs that may overlap, 1 stop, 1 generation, shutdown; 94,092 states | `OwnersStand` (`OwnersAreReleasable`: nobody is held under a generation whose loss was dealt with; `OwnTurnSurvives`: the turn an owner asked for is not taken by another run, a stale ending or another generation's loss), `InterruptResolves`, `EngineLetsGo` (`LostGenerationReleases`, `ShutdownCompletes`, `ShutdownLeavesNothing`) |
| `turn_wanted`, `turn_stuck` | 2 runs | violations, section 10 |

Two runs of one session are the old turn and the newer one that stale events must spare; two
generations are the lost process and its replacement. A second session shares nothing with the
first but `request_lifecycle` and the pump, and both are taken by every event of one session.

Named assumptions of these runs:

- `KeepsUp` (TRUE): the start of a turn is handled before the session's next run begins and
  before a watchdog's 15 s delay is over. Without it `OutcomeIsFinal` fails: a `turn/started`
  handled after its turn was cancelled takes the next run's pending start
  (`activate_pending_turn` compares the thread and the generation only).
- `Overlaps` (FALSE in `turn_safety` and `turn_wanted`): a session's next run begins only after
  the previous call of `run_turn` returned. The code does not ensure it; `turn_stuck` has it TRUE
  and shows what happens. What holds all the same is `OwnersStand`: a
  session may then be owned by a run whose turn another one asked for, and only such a one can be
  taken from it. `turn_liveness` checks it with `Overlaps` TRUE, where one generation leaves few
  ways to overlap; for any number of generations, and without `KeepsUp`, it is a theorem (section 9).
- `StorageFails`, `ShutsDown`: whether database writes may fail, whether `shutdown` is called.

Left out: the deferral of events without a route (section 5), the lag of the broadcast channel (the
mutant of `EngineLetsGo` drops an event and breaks it), the eviction of the oldest of 16 retained
failed projections (`Projection` has it), and generation numbers consumed by a launch that failed.

Fairness: as above; the database answers, requests time out, a lost generation is announced (the
supervisor's promise), watchdogs run. Nothing is assumed of completions: the app-server may never
finish a turn. With `KeepsUp` it reports the start of a turn it accepted. Deadlock is not
checked: an idle engine stops.

## 4. Requests to the user: `Approvals`

`Approvals` EXTENDS `Transport` too and reduces `TurnLifecycle` to what a request depends on: one
session with a root thread, one child thread, and for the root turn a `session` record that says
how far its activation is (`expected`, then `awaited` if the pump took the start or `taken` if
the run did, `live` once published; `refused` and `orphaned` when the start was taken by nobody
who could publish it, or the generation was lost in the middle). `pending` is `pending_requests`;
`lifecycle` is who holds `request_lifecycle` across a slow wait; `handling` is the event the pump
is in the middle of. A request is identified by generation and JSON-RPC id: the code's random key
never meets a second request, and `has_same_acceptance` compares no less.

| Code | Model |
|---|---|
| `handle_server_request` | `AdmitRequest` or `RefuseRequest`, then `AcceptRequest` or `RequestUnsaved` |
| `resolve_approval`, `resolve_codex_request` | `Claim`, `TakeLifecycle`, then `SendSucceeds` (`finish_request_claim`) or `SendFails` (`restore_request_claim`) |
| `serve_connection` aborting a phone's commands | `DropCall` |
| `clear_resolved_request` | `HandleResolved` |
| `complete_turn` | `HandleCompleted`, then `CompleteTurn` or `TerminalDropped` |
| both watchdogs | `WatchdogChecks`, then `WatchdogCancels` or `WatchdogUnsaved` |
| `handle_transport_closed`, `shutdown` | `HandleClosed`, `FinishShutdown` |
| the app-server (external) | `BeginTurn`, `BeginChild`, `Ask`, `Resolve`, `Complete`, `Respond` |

`shown`, `dropped`, `answers` and `settled` are observations: what the user was shown, what the
code gave up, how many responses left for each request, and what the app-server no longer
waits for.

| Run | Instance | Question |
|---|---|---|
| `approvals_safety` | 2 root turns (interchangeable: symmetry), 1 call, 2 requests, 2 generations; 1,146,556 states | `PendingIsOwned`, `ShownIsAnswerable`; `TypeOK` is proved (section 9) |
| `approvals_liveness` | a root and a child turn, a desktop's and a phone's call, 1 request, shutdown, failing storage; 151,743 states | `SendingIsPending`, `AnsweredOnce`, `NothingHangs` (`CallsReturn`, `RequestsAreTaken`) |

Bounds: `MaxAsked` requests and `MaxQueued` events the pump may be behind. Two requests with two
generations are the least that reuse a JSON-RPC id; two calls race one request or answer one
each; a queue of two holds a request and the terminal behind it, or the terminal of a turn and
the start of the next. `Turns`, `Calls` and `Pump` name
the holders of `request_lifecycle`.

A watchdog may fire for any active turn: which turns were interrupted is `TurnLifecycle`'s
matter. A session's next run begins after the previous one returned, and the start of a root turn
is handled before the session's next run and before a watchdog's delay is over (`StartsHandled`,
the `KeepsUp` of section 3).

Fairness: the queue of `request_lifecycle` is first in first out, so the pump and a call that find
it free again and again get it (strong fairness of the pump and of `TakeLifecycle`); a write ends,
with success or not; the database answers. Nothing is assumed of the app-server or the user.
Deadlock is not checked: an idle engine stops.

`PendingIsOwned` has one exception, which the code makes: when storage fails, the terminal of a
child turn that cannot be recorded is not handled (`PumpIgnores`), and the requests of that turn
are still pending when the thread's next turn starts.

Left out: the deferral of events without a route, a lagging receiver (it loses a request for
good), methods that are answered or refused at once whatever the turn, which answers a method
allows (one rejection in `Claim`), and a write that times out although its frame arrives.

## 5. Child agents and deferred events: `DeferredQueue`, `Subagents`

`DeferredQueue` is the table of queues of threads without a route: operators over a function from
threads to sequences, with the four limits as constants. `Subagents` EXTENDS it and adds the
registry. `kept` is what the engine keeps of children (`route` with generation, parent and launch
turn, `current`, `terminals`, `order`, `turnOrder`, `interrupt`), `active` is `active_by_thread`,
`table` the queues, `agenda` the event the pump handles followed by those it drained, `server` the
app-server's side of each agent.

| Code | Model |
|---|---|
| the pump: `handle_incoming`, `handle_bounded_incoming`, `dispatch_incoming`, `drain_deferred` | `HandleNext`, `Handle` of each kind of event, `DeferEvent`, `Drained` |
| `establish_child_route`, `make_room_for_completed_subagent`, `prune_subagent_*` | `Establish`, `IsAdmissible`, `MakeRoom`, `Evict`, `KeepTurn`, `KeepAgent` |
| `project_collab_status`, `project_subagent_activity`, `register_collab_routes` | `CollabStatus`, `AgentActivity`, `CollabItem` |
| `complete_turn` of a child | `CompleteTurn` |
| `interrupt_agent` and its answer | `Interrupt`; `InterruptAccepted`, `InterruptFails` |
| `handle_agent_interrupt_watchdog` | `WatchdogChecks`, then `WatchdogCancels` or `WatchdogUnsaved` |
| `handle_transport_closed`, `register_root_route` | `HandleClosed`, `RegisterRoot` |
| the app-server (external) | `Spawn`, the `Send...` actions |

`shown` is an observation: how each turn of an agent was shown ended. `overtaken` marks the turns
whose truth was recorded while the watchdog, past its checks, was writing its own record
(codex_engine.rs:1437 overwrites it); only those are exempt from `TruthStays`.

| Run | Instance | Question |
|---|---|---|
| `subagents` | 3 agents, 2 turns each, 2 generations, 2 attempts, in five scenarios; 323,970 states | `RetentionIsSound` (bounded, and a finished agent can give way), `RegistryAgrees` (no cycle of parents, the active turn is unfinished, a sent interrupt is watched), `HistoryStands` (provenance and truth stay), `InterruptResolves` |

A scenario says how much room there is, which kinds of events come, how many turns each agent runs,
who spawns, how many processes there are, and whether writes fail and stale events are delivered:
`Retention` (two agents, room for one), `Nesting` (an agent that spawns), `Descent` (three agents
that name each other as parents), `Interrupts` (two turns, two attempts, a second process, failing
writes) and `Mixed`. Each is the least in which its case happens; their product is too large to
explore and mixes nothing that shares state. Queues of 2 events and 2 threads overflow at once. Every
event has size 1, so the two limits by bytes never bind before those by count: how they displace is
left to `DeferThins` (section 9).

`AnswersInTime` (TRUE): an interrupt is answered before the next turn of the agent is interrupted.
Without it `SentIsWatched` fails, because the answer is settled by the attempt number alone
(1304, 1311), which restarts with every turn.

Fairness: an interrupt is answered or times out, a watchdog's delay passes, a write ends. Nothing is
asked of the pump or the app-server.

Left out: `announced_agents`, the results shown of an agent (`subagent_results`), other sessions,
and the drains of a root thread's queue.

## 6. Phone Sync: `PairingGate`, `PhoneLink`, `PhoneHost`, `PhoneClient`, `PhoneSync`

`PairingGate` is the window and the pending requests as pure operators, `PhoneLink` a connection
with its two ends, `PhoneHost` the desktop, `PhoneClient` the native and the web phone; `PhoneSync`
composes them: a step of one side leaves the other's variables alone and both share `link`.

| Code | Model |
|---|---|
| `phone_sync_begin_pairing`, `PairingGate::active_nonce` | `ShowCode`, `WindowLapses` |
| `start_listener`, `serve_connection` | `ServeStep`, one action per await: `Accept`, `Handshake`, `Decide`, `TakeDecision`, `HearWhileAsked`, `LoseWhileAsked`, `Subscribe`, `HelloIsHeard`, `CatchUp`, `GoLive`, `OneEnded`; `DecisionTimesOut` |
| `confirm_pairing`, `reject_pairing`, `phone_sync_unpair` | `ConfirmPairing`, then `ConfirmStores` or `ConfirmUnsaved`, `ConfirmCloses`; `RejectPairing`; `Unpair` |
| `emit_event`, `SyncHub`, `forward_live` | `Publish`, `Broadcast`, `Forward`, `Behind` |
| `handle_commands`, `create_remote_session` | `IntakeEnds`, `CreateChecks`, `CreateInserts` |
| `phone_sync_connect`, `run_client_session` | `Dial`, `DialFails`, `Spawn`, `Install`; `Release`, `RecvEnds`, `SendNext`, `SendDrained`, `Joins`, `ClearsSlot`, `TaskStops` |
| `phone_sync_send_command`, `phone_sync_disconnect` | `SendCommand`, `DisconnectPhone` |
| `webPhoneSyncConnect`, wasm `Session` | `WebConnects`, `WebReplaces`, `WebCommand`, `WebRejects`, `WebDisconnects` |

| Run | Instance | Question |
|---|---|---|
| `phone_sync` | 2 connections, 2 devices, in five scenarios; 156,941 states | `HostIsSound` (served only after a decision for that device, pending is awaited, the session list fits), `NoHole` (subscribing before catch-up leaves no message out), `ClientIsSound` (the slot is live, no session is orphaned, an open web session can be reached), `ConnectionsEnd` (the desktop owes nothing for ever, a dead session is found) |

Scenarios: `Pairing` (two phones, two codes), `Returns` (a trusted phone comes twice and is
forgotten in between), `Live` (messages come while one phone is prompted and served; the window
lapses, the prompt expires, the user rejects, the key cannot be stored, a frame arrives in parts),
`Creating` (two phones create sessions), `Sessions` (the native phone connects over itself). A hub of
one frame lags as soon as two messages are published.

Fairness: weak, per connection, of the desktop's tasks with their timers and of the phone's tasks.
The users do nothing they do not want to; a web phone's Hello arrives.

`overtaken` exempts a web session whose replacement had begun to dial before it was current: two
overlapping dials do leak one (webSession.ts:442).

## 7. The database under its callers: `ActivityLog`, `Receipts`, `SessionStore`

Every call of `Db` holds the connection's mutex and is one step; between the calls of one caller
anything may happen, and `Kill` may come at any time and leaves only the tables. `ActivityLog` and
`Receipts` are the rules of two tables as pure operators (`Within` is the result of the prune of
one scope; `Written` that of an upsert with its WHERE); `SessionStore` has the callers.

| Code | Model |
|---|---|
| `record_raw`, `append_codex_activity_with_messages` with its prunes | `Record`, and `Commit` or `Rollback` in every caller |
| `run_turn_inner`, `reconcile_resumed_thread` | `Reserve`, `LoadSession`, `BindThread`, `RestoreTurn`, `RestoreEnds` |
| `activate_pending_turn`, `complete_turn` | `Activate`; `Terminal` |
| `save_turn_receipt_state` and its fast form | `WriteReceipt` |
| a killed process; `Db::open` with `recover_pending_turn_receipts` | `Kill` |
| `update_session_model`, `pin_session_openai_account` | `ReadConfig`, then `UpdateModel` or `SelectAccount` |
| `get_codex_activity` | `ReadPage` |
| `delete_session` | `CheckInactive`, `DeleteRuns` statement by statement |
| Codex (external) | `CodexStarts` (with its answer awaited by the engine), `CodexAnswers`, `ServerLost` |

| Run | Instance | Question |
|---|---|---|
| `store` | 3 turns, 3 threads of 2 sessions, limits of 2 to 4 rows, 2 kills, in eight scenarios; 1,191,794 states | `ActivityIsSound` (bounds, one row per sequence, pages without a hole), `TranscriptIsSound` (each turn once, nothing left of a deleted session), `HistoryIsRestored`, `FactsStay` (account, proof of ends, receipts, restart), `DeletionIsWhole` (the row goes last of all, and what is gone is not begun again) |

The three limits differ, so that each scope is the one that prunes; rows of one or two bytes make
the byte budget bite before the row budget and after. Six appends fill the widest scope and prune
it twice. Deadlock is checked: a run ends in `Finished` only when all that was to happen has.

`HistoryIsRestored` counts a turn as restored if any row of it exists, as the code does: a turn whose
user row was written before its process died keeps no more than that row, because reconciliation
skips a turn that has any message. `raced` exempts a deletion during which a turn began: the check
(lib.rs:813) and the statements are separate, and the turn goes on to write rows of a session that
is gone. `DeletedIsGone` speaks of the scenarios in which nothing is written of a turn that is over.
Where it is (`LateDeleting`, with receipts and repeated ends), a late receipt or answer stays behind,
because the code writes it without a look at the session (db.rs, `write_turn_receipt_state`), and only
`DeletionIsWhole` holds: a deletion is complete when the row goes, and nothing of the session is started or
restored afterwards. Lost servers are left out there: a history restored, deleted in part and restored
again would add sequences without end.

## 8. Services and readers: `Workbench` and fourteen modules

Around the engine stand services that keep their own state and do not call one another. Each is a
module with its Init, Next and properties; `Workbench` instantiates eight of them. A behaviour is
about one, its `part`, chosen in Init, and the variables of the others rest at 0: the state space is
the sum of theirs, and nothing is lost because no step of one reads a variable of another.
`MCWorkbench` gives the services their inputs, each many initial worlds (`SomeScripts`,
`SomeWorlds`, ...) listed with what they are for, and puts six more modules beside them, the readers
of what others write: `Transcript`, `GitReview`, `PublicStream`, `PublicView`, `PhoneHistory` and
`Sanitizer`. These fold and filter sequences or have recursive operators, so they are not part of what
section 9 proves about, and apart from `Workbench` they do not burden its proofs.

| Module | Models | Bounds | Property of run `services` (660,089 states) |
|---|---|---|---|
| `Migrations` | `Db::open`, one statement at a time, cut off anywhere and begun again | 2 opens, 1 save, the tables of earlier builds | `OpenKeeps` |
| `Attachments` | check, copy, prepare, and the life of the copies through every way the session's entry goes | 2 callers, 4 files, limits of 2 to 4, 1 foreign write | `AttachmentsAreWhatWasChecked` |
| `Marketplace` | lists, their routes, read and install | 3 calls | `RoutesAreCurrent` |
| `Projection` | a root turn's items to message, live bubble, usage and every end | 2 turns, 1 failed write, 1 repeat, 1 retained | `AnswerIsSaved` |
| `Settings` | load and save with every failure of a replacement | 2 calls, 1 edit, 1 restart | `FilesKeepWhatWasTold` |
| `Secrets` | the two identities, made when first asked for | 2 callers, 2 faults, 1 restart | `FilesKeepWhatWasTold` |
| `Telemetry` | consent, gate, scrub, and sending later | 2 processes, 3 changes, 3 reports | `ReportsAreAsked` |
| `Account` | login, wait, key, logout, loss of the process | 2 callers, 1 loss | `LoginIsItsOwn` |
| `Transcript` | messages and receipts folded to bubbles, read whole or in pages while rows are added | pages of 1 and 2 | `PagesAreTheView` |
| `GitReview` | manifest, snapshot id, patch and captures, command by command, against a writer | 2 files, 2 tasks, 2 writes | `ReviewIsOfOneMoment` |
| `PublicStream` | text held back, redacted by label, by home directory and by length, and cut for the phones at white space or after any character outside ASCII | 2 phones, 2 sessions, cuts every 3 or 4 characters | `OnlyTheSessionGoesOut` (`StreamIsTheTalk`) |
| `PublicView` | the public form of events, sessions and rows, and the bubble of each | 5 events | `OnlyTheSessionGoesOut` (`ViewsAgree`) |
| `PhoneHistory` | catch-up and pages within a frame, and the phone's list | 6 rows, frame 3, page 3 | `OnlyTheSessionGoesOut` (`HistoryHasNoHole`) |
| `Sanitizer` | the bounded copy of an event, twice | depth 4, 7 fields, 2 items | `OnlyTheSessionGoesOut` (`ActivityIsSafe`) |

What the services are asked is assumed in `Workbench`, and TLC evaluates it on the inputs of the run:
`WishesAreKnown` (which calls there are), `CallersAreNamed` and `PoliciesAreRead` (settings are a model
and a mode that can be read), `DatabasesAreOld` (a column that is missing tells nothing, and a later
message is not older), `SomethingIsOffered`, `ScenesAreKnown` (limits are numbers; a path leads
to a file or to nothing), `TurnsAreNumbered` (`current` is 0 when there is none) and `ItemsFit`. The last
is about Codex: an id is of a text or of a tool, and `item/completed` is the last that is said of a
text. The engine does not check this. It takes the text of `item/completed` as final
(codex_engine.rs:2737-2752); a delta of the item after that would be appended to the final text,
and the snapshot the window is given would lack it.

The pure parts are checked against a reference definition: `Transcript` compares the pages with one
fold of all rows, `PublicStream` the pieces with the redaction of the whole text, `PublicView` the
bubble folded from events with the one read from the row, `Sanitizer` the copy with what may be
kept of the tree, `PhoneHistory` the phone's list with the rows.

The constants of the code (256 fields, 8 KiB, 64 blocks, pages of 100 rows) are small numbers here,
chosen so that each limit is met by the smallest input that can meet it. No fairness is assumed:
these are safety properties. Deadlock is not checked: a service whose callers are done stops.

What a property exempts, because the code does it, is a variable of the module and named in
section 10: `disturbed`, `clipped`, `torn` (`PublicStream`), `abandoned` (`Attachments`), `stale` (`PublicView`), `crossed`
(`PhoneHistory`), `stuck` (`Telemetry`), `PutBack` (`GitReview`), `exempt` (`Secrets`: keys that two
callers made at once, or of a file that could not be read).

The id of a `GitReview` snapshot is a digest of the status and of what `git diff --numstat` printed. What an
untracked file has is read for the list only (git_review.rs:1265-1274), so two manifests that differ in
the counts of such a file, or in its being binary, have one id. `PatchIsOfSnapshot` therefore says of a
delivered patch that at one moment the files listed were those of the manifest and the patch was of them; a
patch may also be empty where the file was binary at some moment.

Of the redaction, `PublicStream` leaves out mail and network addresses, and what the passes ask of the
character before a secret.

## 9. Proofs

TLAPS proves the following for every set of clients and responders and every counter limit,
from `BoundsAssumption` and `ProcsAssumption` (the tasks are distinct, the limits are numbers).

`AppServerProofs`: `Invariance` is the inductive invariant `IInv`. `TypeOK` and the safety
properties are not inductive by themselves; the conjuncts added are
`LabelsInv` (which labels a kind of task can have), `LocalsInv` (a task past `ensure_running`
holds a generation that was spawned), `TasksInv` (reader and waiter of a generation act on it),
`MutexInv` (who holds the state mutex and where it is), `FreshInv` (nothing mentions a generation
that was not spawned), `ClosedInv` (the flag and shutdown's place), and then `SingleTeardown`,
`AnnouncedOnce` and `NoUnsupervisedChild`. Steps are grouped by what they disturb: `QuietStep`
covers those that leave ownership alone, `TakeStep` those that take the running generation,
`FinishStep` those that end a teardown. From it follow `TypeCorrect`, `TeardownSafety`
and `ChildrenSupervised` (no process unsupervised, shutdown final). `AwaitedAlwaysReachable` adds
`ReachInv`: a request that is being sent has an id of its own, smaller than the next one, and while
it was told nothing its entry is in the table; `Carries` is what every step but a registration does
to the requests that stay on their way, `ReachKept` that it keeps the invariant.

`Refinement` of `AppServerProofs`: the supervisor implements `Transport` under
`current <- running`, `ready <- Ready`, `spawned <- nextGeneration - 1`, `owed <- Owed`,
`announced <- Announced`, `halted <- closed`. `StepMap` sorts the actions into those that map to
a stutter and those that map to one abstract action.

`ApprovalsProofs` proves, from `ApprovalsAssumption` and for any number of turns, calls,
requests, generations and queued events, that `IInv` is inductive (`Invariance`), and from it
`TypeCorrect`, `SendingSafe` and `AnsweredSafe`. `SendingIsPending` needs `HoldersInv` (a call that
sends, and the pump in the middle of an event, hold `request_lifecycle`; nothing is current once
shutdown is over). `AnsweredOnce` needs to follow a request on its way: ids are given out in order
within a generation (`AskedInv`, with the cardinality of what was asked), so a new one is known
nowhere; one that is still queued is not pending, not being accepted, not answered, and queued
once (`QueueInv`); one that is being accepted or is pending is not answered, and pending once
(`OpenInv`). `QueueKept`, `QueueAppended` and `QueueRead` say what each kind of step does to the
queue.

`PendingIsOwned` and `ShownIsAnswerable` rest on a second invariant, `OwnersInv`
(`OwnersInvariance`, relative to `IInv`): `EventsInv` is about the queue, read by index: a turn's start
is queued once, the end of a turn comes after its requests, and seen from the start of a
child's turn every other turn of its generation is over with no end to come, or starts later. So when
the child thread passes to its next turn, the previous one has ended, and `WaitInv` carries that its end
was queued and retired what it asked. `SessionInv` says the queued start of a root turn is its session's,
`HoldingInv` that a watchdog or a terminal in the middle of its database write is about a turn
that was active, `GensInv` that a child of the current generation is routed under it, `RequestsInv`
that an id names one request. `ShownInv` is `ShownIsAnswerable` without its hypothesis on the owner:
what is no longer there belongs to a turn that cannot become the active one again (`Ended`).
`SortedStep`, `OwnersKept`, `SessionMoves`, `ChildMoves`, `QueueMoves`, `PendingFrom` and `PendingKept`
sort the steps by the variable they disturb, so that each conjunct is proved for the few that matter.

`TurnLifecycleProofs` proves `TypeCorrect`, `ShutdownSafe` and `OwnersAlwaysStand` (from `OwnersAlwaysReleasable`
and `OwnTurnsSurvive`) from `TurnAssumption` alone: two commands or two frames may overlap, the pump may
be behind, a process may be slow. The last rests on the inductive invariant `OverlapInv`: besides the types,
`GensInv` (below) and `OwnersAreReleasable` itself, it has

- `KnownInv`: there is no trace of a turn before its run asked for it;
- `StartInv`: the start of a run waits for its session or is held by one task that saves the user's message;
  meanwhile the session, if it is still the run's, has no turn and counts on the start's generation. So
  publishing a start never replaces a turn that is live;
- `EndsInv`: a turn that was ended has lost its session for good, and an ending in the middle of its database
  write is about the session as it was decided, or about none.

`SessionStep` sorts what a step does to the session's entry into nine cases, `DecidesStep` and `EndsStep`
what it does to endings; `OwnTurnsSurvive` follows by going through the nine.

The properties of `turn_safety` are not theorems of the code. Lemmas of the module prove `OwnersAgree`,
`OwnedSessionIsReleasable` and `EndingsStand` under the hypothesis `OneAtATime == ~Overlaps /\ KeepsUp`, which the code does not
ensure (`turn_stuck` shows `OwnedSessionIsReleasable` fail where runs overlap). They say that the three hold for any number of
sessions, runs and generations under the assumptions of `turn_safety`, and no more. Their
invariant `IInv` is the conjunction of the type invariant and

- `GensInv`: generations are handed out in order, and nothing mentions a later one;
- `RunInv`: which locals a run has at each label, and that they are those of the session it is for;
- `LateInv`: what a response that comes after its time-out may still say of a turn;
- `PersistInv`: the pump in the middle of an ending holds the ending it is about to save;
- `LiveInv`: the server knows every turn that the engine holds as active;
- `MapsAgree`: a turn is followed from `pendingStart`, through the run or the pump that took it, to
  `turns`; it is in exactly one of these places, and each of them names the same session;
- `EndInv`, `InterruptInv`, `SentIsGuarded`: an ending is on its way at most once; an interrupt is
  for the turn it was asked of; an interrupt that was sent has a watchdog that will clear it.

`PhoneSyncProofs` proves `HostAlwaysSound`, `NothingIsMissed` and `ClientAlwaysSound` from
`LinkAssumption` and `ScenariosAssumption` (what a scenario is: a kind and a device of each
connection, some messages and sessions), for any number of connections, devices, codes and messages
and any capacity of the hub. The two sides share only `link`, so their invariants are about
different variables and `HostStays` and `PhoneStays` let each side ignore the other's steps:

- `PairInv`: with `ServedIsAccepted` and `PendingIsAwaited`, what they need of the stages
  (`StageInv`): nothing is decided before the prompt, a confirmation is under way only for who was
  accepted, and forwarding and intake run only while the connection is live;
- `HubInv`: whoever `Follows` (is caught up, or is forwarded to) has each published message or
  finds it ahead in the hub. `NoHole` says it of live connections only; the state between catch-up
  and the first forwarded frame is what makes it inductive;
- `CreateInv`: who is between the check and the insertion holds the lock, and there is room;
- `CodesInv`: no code is used that was not shown;
- `NativeInv`: the slot holds a native session, placed and not aborted; `WebInv`: what was current
  when a dial began is another web session, which was open by then.

`SubagentsProofs` begins with `DeferThins`: whatever the limits displace, evict or refuse when an event is
deferred, every queue that is left is a subsequence (`Within`) of what was there and the event.
What repeats (`Enqueue`, `WithinTotal`, the sum behind `EventCount`, `OtherThan`) is a recursive
function on `0 .. n`; that such a function exists, and what holds of its last value, is an induction
through the set of the numbers for which it does (`LeastNumber`, `SetInduction` of `FiniteSums`). `OtherThan`, which is
`retain` in handle_transport_closed, is such a function because the provers know nothing of `SelectSeq`.

`SubagentsProofs` proves `Retention`, `AncestryAndTruth` and `History` from `SubagentsAssumption` and
`DeferredAssumption`, for any agents, turns, processes, limits and scenarios. `AncestryAndTruth` is
two of the three parts of `RegistryAgrees`; the third, `SentIsWatched`, fails without `AnswersInTime`
(section 5), and the lemma `RegistryInTime` has it under that hypothesis. `Invariance` and `StepKeeps` rest on one invariant, `IInv`:

- `KeptInv` says that the registry is sound (`IsSound`): routes are of the current process, an active turn
  is the current one of a routed agent and has no recorded end, parents do not lead back, the orders are
  distinct and within the limits, and a finished agent is in the order it will be forgotten by. The
  operators on registries are proved to keep it one by one: `EvictKeeps`, `MakeRoomKeeps`,
  `EstablishKeeps`, `MarkedKeeps`, `KeepAgentKeeps`, `RememberedKeeps`. `IsSound` has a parameter for
  the agents that may be missing from the order, since a turn is marked ended before its agent
  is put there. Ancestry goes by `AncestorsAreClosed` (the function in `Ancestors` has reached
  a fixed point after as many steps as there are agents) and `AcyclicGrows`.
- `OrderInv` and `SeenInv`: the events of an agent are still in the order of its turns, first the deferred
  ones and then those the pump has taken, and no start of a turn that the engine has seen is
  still to come. Without them a turn whose record was pruned could begin a second time, after its
  end was shown; `ShownInv` is what that gives. Each branch of `Handle` is a lemma `...Pumped`, `PumpedKeeps`
  is what they have in common, and `SendKeeps` reduces an event that was just sent to one that was
  queued. Dropping events keeps all this because of `DeferThins`.
- `CancelInv`, `WatchedInv`: while a watchdog writes, a truth that is shown is marked `overtaken`, and
  an active turn it is about still has its entry, of its attempt or a later one; so recording
  the end cannot take away the entry of a newer interrupt.
- `SendingInv`, only if `AnswersInTime`: an unanswered interrupt is the one of its agent's entry,
  or that entry is not about the active turn.
- `GensInv`, `RoutedInv`, `CompletingInv`, `EntryInv` and the types tie these to the process, the table and the
  pump.

`SessionStoreProofs` proves `Activity`, `Transcript`, `Deletion`, `Restoration` and `Facts` from
`StoreAssumption` and `ScenarioAssumption`, for any turns, models, limits and scenarios, hence for any
number of kills, failed writes and repeated ends. Five of the parts of `StoreInv` (`StoreInvariance`) are:

- `Stands`: where the engine stands and what Codex remembers fit: the turn being started is the
  next one of the thread, nothing has a projection that Codex does not know;
- `Logged`: the log is within its three bounds, and each row was announced under its own sequence;
- `Walks`: a reader under way has a cursor, and what it has seen of the log has no hole;
- `Once`: a row of the transcript is there once, and a turn with a projection has no answer yet;
- `Restores`: while a thread is restored, each turn is in the transcript or still to be restored. Without
  it `Restoration` says nothing until the last step.

`Types` and `Anchored` bound the rest. What the proofs need of the log is one lemma about
`ActivityLog`, `AppendedKeeps`: one append prunes three nested scopes and leaves all of them, and those of
every other thread and session, within bounds, with ends going last. `WithinFits` behind it is
an argument about a cut by rows and then by bytes; the sum of the bytes is `MapThenSumSet`, of which the
provers know nothing, so `FiniteSums` proves that the function in its definition exists (`SumExists`)
and how it grows. `Deletion` (`DeletionIsWhole`) goes by `RowGoesLast`, about the statements in
their order, and by `Gone`: while a session has no row and no turn was under way when it went, the engine
stands still or finds out that there is none. It holds in every scenario, late writes included; `DeletedIsGone`, which is
false where they come, is only model-checked.

`WorkbenchProofs` proves seven of the services' properties from the assumptions of section 8, for any
callers, files, databases, offers and limits. `PartStays` says that a behaviour is of one part, so each
part has an invariant of its own and the rest of the composition drops out of its proof:

- `MigrationsInv` (`StartsKeepTheDatabase`): `Meant` is what the statements may have changed by now of the
  database as the last run left it, whichever starts were cut off before; `Holds(s, ...)` is what statement
  `s` has made sure of, and `Behind(at)` are the statements of this start before `at`. No
  statement undoes what an earlier one holds (`ExecuteKeeps`, `RecoverKeeps`), so at `"open"` all of them do.
- `AccountInv` (`LoginsStayApart`): a call begins its login once; a note or a result is of a login that
  came to that end; who waits without having had an account, and sees one, has someone to thank for it.
- `SettingsInv`, `SecretsInv` (`FilesAreKept`): one call at a time is past the lock; while it is, what is on
  disk and what would be after a power loss are what was told or what it is about to tell; else
  both are what was told. Two first callers of one identity are the ones that `exempt` names.
- `TelemetryInv` (`ReportsAlwaysAsked`): a queued report was scrubbed and asked for, and a withdrawal that
  could be stored is stored.
- `MarketInv` (`RoutesStayCurrent`): a stored route is an entry of the list it was made from, and its
  floor is not above that list; a call that asks goes by a route it found.
- `AttachInv` (`TurnsGoOutWhole`): what a caller has prepared are its first files, in the order of their
  first mention, each once, within the count and the total, under labels that differ; a copy that Codex
  may read is held by the call or the session's entry, unless Portcode gave the turn up (`abandoned`). That the numbered labels differ, and what the sizes add up to, are about recursive
  functions again (`Numbers`, `SizeOf`), by `SetInduction`.
- `ProjectionInv` (`AnswersAreSaved`): a projection that is there is what the recorded events of its turn
  fold to (`Matches`), and its turn is the current one or on the list of the failed, once; a turn that is over
  has its whole answer saved, or was `Crowded` out by later ones that failed too. `Answer` is not defined by
  folding: it goes by the first mention of each item (`IsFirst`) and by its last words. That
  both agree takes `Matches`: what the projection holds of each item, in the order of the first mentions.
  One more event keeps it (`ItemGrows`, `ProjectMatches`), and the blocks are then the answer
  (`BlocksAreAnswer`). `FlattenSeq` of the community modules puts the pieces together, and what it does is proved
  from the recursive function in its definition (`FlattenGrows`, `FlattenType`). Usage needs `IsTop`: what was charged is the highest count among the recorded ones.

Only model-checked: the readers, `PagesAreTheView` and `ReviewIsOfOneMoment`, whose
modules fold and filter sequences, with operators (`FoldLeft`, `SelectSeq`) of which the provers know
nothing, and `OnlyTheSessionGoesOut`, whose operators recur on nested data; `DeletedIsGone`; what
`turn_safety` and `RegistryAgrees` say, but for the parts above; and liveness under fairness,
`NothingHangs`, `InterruptResolves`, `EngineLetsGo` and `ConnectionsEnd`, which is out of the
prover's reach. Neither proved nor checked by a run: that the queues of `DeferredQueue` stay within their
limits by count and by bytes.

## 10. Where code and documentation disagree

With a run of their own:

- `turn_wanted`: a stop stored with generation 0 survives the loss that dropped its run and
  interrupts the next run.
- `turn_stuck`: `TransportClosed` releases the session of a run that continues on the next
  generation; a retry overlaps it, and the session ends owned by a run that returned and no turn.

Seen while modelling. What a property exempts for one of these is named in its section; the rest is
part of the model and breaks none of them. "Matrix" is `CODEX_ACTIVITY_ACCEPTANCE_MATRIX.md`.

Supervisor and turns:

- A request that registers after `fail_pending_generation` ran for its generation
  (codex_app_server.rs:517-522) survives `shutdown` until its timeout, although the comment at
  675-677 promises to reject outstanding requests.
- `activate_pending_turn` takes the pending start and then writes the user message
  (codex_engine.rs:1876): a terminal handled in between finds no exact turn and ends nothing; the
  session stays owned by a turn whose terminal is recorded (store.ts:3707 relies on the contrary).
- A phone's call that is dropped after it claimed a request leaves the claim (lib.rs:1656-1659,
  codex_engine.rs:1493, 1633-1641): every later answer is told that one is already being sent.
- `run_turn_inner` reads the generation after `thread/resume` was answered (`RecordResumed`), so
  `resumed_generation` can name a process that never loaded the thread; a dropped call of
  `interrupt_session` can leave an interrupt half sent.
- `handle_transport_closed` saves no partial answer. The watchdog of a root turn copies the
  projection before it takes `request_lifecycle`: text streamed meanwhile is not in the message. A
  record that cannot be written drops its event from the view too. Usage that comes after the
  watchdog is not counted; a retained projection is the newest of a bounded table.

Child agents:

- `interrupt_agent` settles by the attempt alone (1304, 1311), see matrix:8 and section 5.
- An agent that only the watchdog ended never enters the order of retention, and
  `make_room_for_completed_subagent` looks at the oldest finished agent only.
- `complete_turn` removes the thread's interrupt whatever turn it was for (3248).
- `DeferredQueue`: an event larger than a queue leaves an empty one; a refused diagnostic has
  already displaced older ones; a server request is a diagnostic and may be dropped unanswered; over
  the total with only terminals left an arbitrary thread's whole queue goes (2159).

Sanitizing and projection:

- The limit of 256 fields counts nested objects in reading order (4522): an event with too many
  fields before `threadId` loses it and is dropped by routing (2093-2100), see matrix:28. The flags
  of a first pass are lost when the copy of a long method is sanitized again.
- `pending_assistant_snapshot` is taken at the last completed message (2751) and lacks the tools
  after it, which the saved message has (3266); the snapshot replaces the live bubble (3375-3384),
  see matrix:17.

Phone Sync:

- `confirm_pairing` answers the waiting connection before it stores the key, and closes whatever
  window is open (lib.rs:1380-1397). `serve_connection` reads the window twice; a confirmed phone
  that reconnects without a code fails while a window is open.
- The native client never sends Hello, which the host waits for: its first Command ends the
  connection. The web client reconnects by a handshake (KK) that the desktop (XX) does not speak.
- `run_client_session` joins its loops, so that a connection closed by the desktop is announced
  only when a command is sent (sync/client.rs:102 against 58-60, 99-101).
- `forward_live` ends when it lags, the connection with it; `accept_bi` is outside the handshake's
  timeout; `unpair` leaves a live connection alone; sessions made at the desktop do not take
  `REMOTE_CREATE_LOCK`; `message_delta_frame` keeps a prefix, a hole for a cursor far behind.
- Subscribing counts, subscribes and clears in three steps (sync/mod.rs:83): a publish in between
  loses text (`disturbed`).
- `stream_boundary` takes every character outside ASCII for a safe end of a credential, as its comment
  says (public.rs:841-843, 859). The redaction takes white space of Unicode between a label and its value
  (scrub.rs:66), so after a cut at a no-break space the value is a piece of its own, and is told. A home
  directory's name with a space in it may be cut there, and what follows is told (scrub.rs:83-87). Both
  are `torn`. Unbroken text of more than 8 KiB is cut without a mark (`clipped`). A
  message larger than the live budget is dropped silently (public.rs:929-935, `stale`); other cuts
  have no mark.
- Pages of history go to all phones (`crossed`). The newest rows beyond a frame's budget do not
  arrive when the cursors are empty (public.rs:721-722, wasm lib.rs:166-176); a row larger than a
  frame would stop the paging.

Database:

- Restoring skips a turn of which any message exists, and a turn whose activation failed leaves a
  running one that is restored only by the next resume. A turn with two consecutive rows of results
  from an early build would be split; two turns known by receipts only, at one anchor, are ordered
  by start in one place and by id in another.
- `delete_session` asks for the root turn only, and its statements are separate (`raced`); a
  deletion cut off is followed by a full restore if the session is used again.
- A terminal that was pruned makes `codex_turn_completed` answer no (1286). The writers of receipts
  and `pin_legacy_session_account*` have no caller but tests.

Services:

- Git: the captures of a turn are called by tests only. A change of the index that is put back
  between two commands has the same identity (`PutBack`, against git_review.rs:406-408).
- Git: an untracked file that is rewritten while a manifest is made leaves a list that was true at no moment, under an
  id that is current (1265-1279); only its counts are wrong, not the patch (section 8).
- Attachments: the copies of the images go with the session's entry, and so before Codex is done with the turn in
  four cases (`abandoned`): `turn/start` timed out and Codex began the turn all the same; the turn could not
  be activated (engine 652-668); the watchdog of a stop recorded its end (1107-1116); the loss of
  an earlier process was told late (3799-3815).
- Marketplace: of two plugins of one name the last route wins; the routes of an overlapping call
  may be older ones.
- Secrets: a locked or corrupt file is taken for an absent key, and two first callers each make
  one; the directory is synchronized at best effort.
- Consent: if the file can be neither removed nor overwritten it stays, and the answer is Ok
  (consent.rs:118-122, `stuck`); a queued report goes after the withdrawal; a minidump is sent as
  it is (telemetry.rs:46).
- Account: `wait_for_login` returns an account that was there before; a late result stays in
  `login_results`; a lost process is noticed at the deadline only.

## 11. Not modelled

- `workspace.rs`, `update.rs`, `plan_usage.rs`, `process_env.rs`, `permissions.rs`: single calls
  whose results nothing relates to a state of the program.
- Wire, noise and transport codecs: thin layers over `snow` and `iroh`.
- The React UI, and of the UI's store the runs with their idle watchdogs, dialling and the
  reconnect controller (how it folds events and pages is in `PublicView` and `PhoneHistory`).
- Relay, scripts, CI; credentials of earlier builds; minidumps; branch names (`git.rs`), renames,
  copies, conflicts and hunks; how the executable of Codex is found; drafts, usage, titles and
  paired devices as statements; search.
- Time, but for the order of what times out; sizes, but for what a limit compares.

## 12. What is left

Every subsystem of the core has its module. Of the properties of the runs, those that section 9 calls
only model-checked are left to prove, in this order:

1. `Transcript`, with its folds written as `FlattenSeq` or as recursive functions, as in `Projection` and
   `DeferredQueue`.
2. `GitReview`: that a patch is of its snapshot, by what each command of a task has read so far.
3. `DeferredQueue`: that the four limits hold after every deferral, checked with events of several
   sizes and then proved for every table and event.
4. Of the code: the reconnect controller and the dials of the UI's store, if a later build makes the
   web client reconnect.
