# TLA+ models of moon-ide

moon-ide is a desktop IDE with a coding agent: a Rust back end (`crates/`), a
Tauri shell (`src-tauri/`), a Svelte panel (`src/`), a phone companion
(`companion/`, `crates/moon-bridge`, `crates/moon-remote`).  This directory
holds TLA+ models of its concurrent parts, TLC configurations that check them on
small instances, and TLAPS proofs of what matters most.

One configuration is checked by `tlc -workers 2 -config X.cfg M`, with `M` the
module that the table of runs names (`tlc -config TurnRaces.cfg MCTurnLoop`,
`tlc -config Parts.cfg MCParts`), the proofs of a module by `tlapm M.tla`
(`TurnLoopProofs`, `FleetProofs`, `SessionProofs`, `RemoteProofs`, `LspProofs`,
`WindowProofs`, `AgentsProofs`, `ServicesProofs`).

## The system and its parts

| part | state it keeps | what is hard | what makes it correct | modules |
|---|---|---|---|---|
| turn loop (`moon-coder/runner.rs`, `prompts.rs`) | per session: turn slot, history, steer queue, parked prompts | three locks taken one after the other by clients and loops; one-shot cancel tokens; failures between two pushes | no message lost or doubled, a chat shape the provider accepts, a busy flag that never sticks, Esc always works | `TurnLoop` |
| coordinator fleet (`runner.rs`, `coordinator.rs`) | who works for whom, feeder tasks | broadcast events that may be dropped; a registry read and changed in separate sections | a coordinator that waits is woken; a disconnected worker reports once; one owner per worker | `Fleet`, `Ownership` |
| sub-agents (`subagent.rs`, `runner.rs`) | a run's history and steer channel; the registry of background runs | follow-ups race the end of a run; settling races check, stop and deletion | one loop per JSONL, no message lost, one report per run | `Subagent`, `DetachedTasks` |
| history and compaction (`compaction.rs`, `runner.rs`, `sessions.rs`) | history in memory, records on disk | folding, reverting, resuming and reopening meet each other | the model is asked with a history it accepts; a reload resumes the same conversation | `Transcript` |
| session log (`sessions.rs`) | JSONL files, summary trailers | rewrites of the last line, truncations outside the lock, crashes | every record once, a header, a list that tells the truth | `SessionLog` |
| hub sync, `session.json` (`hub_sync.rs`, `moon-core/session.rs`) | debounce map, one JSON document | a fired timer removes a newer one's slot; load-edit-save by many handlers | the last turn is uploaded; nobody's field is lost | `HubSync` |
| container status (`moon-container/status_cache.rs`) | cached readings | a fetch that spans an invalidation | a command's effect is seen after it returns | `StatusCache` |
| LSP broker and servers (`moon-core/lsp`) | a server per language, open documents, pending requests | spawns, deaths and shutdowns meet; notifications sent after the lock | one server per language, versions in order, every caller woken | `LspBroker`, `LspDocs`, `LspClient` |
| background processes (`tools.rs`) | registry of processes | poll, watcher, stop and cleanup meet at one process | one end per process, one wake-up | `Background` |
| MCP servers (`mcp.rs`) | an instance per session | spawn, drop and reaper share one lock | no shared instance, calls end, idle ones go | `Mcp` |
| bridge (`moon-bridge`) | live IDEs, pending calls, streams | timeouts against replies, reaping of dead connections | each call answered once, nothing left pending | `Bridge` |
| remote attach (`moon-app/attach.rs`) | the attached link, pending calls, a stored wake-up | a takeover meets calls and clicks | one desktop at a time, every call told, no click lost | `Attach` |
| remote companion (`moon-remote/e2e.rs`, `companion/src/lib/transport.ts`) | sealed sessions, a replay window | renewals, subscriptions, copies of messages | a call and a message at most once, a stream that follows | `Companion`, `ReplayWindow` |
| terminals (`moon-app/terminal.rs`, `moon-terminal`, `terminal.svelte.ts`) | stream handles, a registry the coder reads, tabs | restarts, closes and the shell's own end meet; two maps changed in separate steps | one shell per terminal, none that nobody can reach, none killed unasked | `Terminals` |
| file watcher and tree (`moon-app/fs_watcher.rs`, `state.svelte.ts`) | pending paths, watched directories, the tree | changes between a directory and its watch; switches of the folder; overlapping walks | the tree has what is on disk, the language servers know it | `FileWatch` |
| buffers (`state.svelte.ts`, `Editor.svelte`, `host.rs`) | the open file's text and what it was loaded as | saves and reloads work on awaited answers; others write the file | nothing typed or saved is lost, a clean buffer follows the disk, the server the buffer | `Buffers` |
| the rest | – | see "Not modelled" | – | – |

The parts meet through the `CoderState` (sessions by folder and id), the event
broadcast (`CoderEvent`: panel, bridge, dispatch feeder), and RPC handlers in
`moon-app` that call into the crates.  A coordinator's feeder, a background
process with `notify` and a sub-agent's report all end in `send_to`, the same
entry the user's composer uses; `TurnLoop` models that entry with whoever sends,
`Fleet`, `DetachedTasks` and `Background` end where they call it.  A phone's
`Companion` call travels through `Bridge` to an IDE process, which hands it to
`ReplayWindow`.

## Modules

| module | what it is |
|---|---|
| `TurnLoop`, `MCTurnLoop`, `TurnLoopProofs` | one session: handlers, turn loops, history, disk, rows; its instance; its proofs, those of every session and those of sessions with one operation at a time |
| `Fleet`, `Ownership`, `MCFleet`, `FleetProofs` | coordinators, workers, feeders, restart; the abstract promise about a worker's owner; the instances and a bound of theirs; the proofs |
| `Subagent`, `DetachedTasks`, `MCAgents` | one sub-agent; the background sub-agents of a session; both as an instance |
| `Transcript`, `SessionLog`, `SessionProofs` | a session's history against its records; the file as its writers share it; the proofs |
| `HubSync`, `StatusCache`, `LspBroker`, `LspDocs`, `LspClient`, `Bridge`, `Background`, `Mcp`, `Attach`, `Companion`, `ReplayWindow`, `Terminals`, `FileWatch`, `Buffers` | one part each |
| `MCParts` | the safety of the modules of the two rows above, one part per behaviour |
| `MCServices` | the liveness of `Bridge`, `LspClient`, `Background`, `Mcp`, `Attach`, `Companion`, `Terminals`, `FileWatch`, `Buffers`, one part per behaviour |
| `RemoteProofs` | TLAPS proofs about `Bridge`, `ReplayWindow`, `Attach`, `Companion` |
| `LspProofs` | about `LspClient`, `LspBroker`, `LspDocs` |
| `WindowProofs` | about `Buffers`, `FileWatch`, `Terminals` |
| `AgentsProofs` | about `DetachedTasks`, `Subagent` |
| `ServicesProofs` | about `Background`, `Mcp`, `StatusCache`, `HubSync` |

`MCAgents`, `MCParts` and `MCServices` put independent modules side by side: a
variable `part` says which one a behaviour is of, and the others are at rest in
one of their initial states.  Nothing is shared between them, so that an
invariant of the composite is exactly the invariants of the parts, and a
behaviour is fair to its own part only.  What such a run saves is a run per
module; what it does not do is interleave them.

A module that has several troublesome features has a constant with a set of
*profiles* (`Races`, `SubFaults`, `Trips`, `SpawnRaces`, `Overlaps`, `Rpc`,
`BgRaces`, `McpEvents`, `LinkTroubles`, `PhoneTroubles`, `Bustles`, `Whims`, `Hands`,
`Profiles`): a
behaviour picks one member and may then do what it names.  The runs that must
pass name the profiles in which the property holds; the table of
counterexamples names those in which it does not.

`Fleet` does not instantiate `TurnLoop`: of a worker's session the fleet sees
whether its turn slot is taken, whether it waits for an answer, and the
`TurnComplete` it sends after the slot is free.  These are the three facts that
`Fleet` keeps, and `TurnLoop` says when they change.  In the same way
`DetachedTasks` sees the end of a `Subagent` run, and `LspBroker` the life and
death of an `LspClient`'s process.

### TurnLoop

A message is identified with the handler that sends it and a turn loop with the
message or retry whose handler spawned it; there is one handler per message, so
the identification loses nothing.  The state:

| variable | code |
|---|---|
| `slot`, `tripped` | `TurnState.cancel`: whose token it holds, and which loops' current tokens are cancelled.  Tokens are one-shot; a loop that goes round again stores a fresh one (`Arm`) |
| `steers`, `messages` | `Session.pending_steers`, `Session.messages` |
| `disk`, `unsaved` | the JSONL, and the records an actor has built and still has to append, outside the lock |
| `rows` | the messages the panel shows as "queued": added by the `queued: true` event, removed by `SteerDrained` |
| `parked` | `PromptRegistry.pending` |
| `minted` | the tool-call ids handed out |
| `post`, `go`, `loop` | program counters of the send/retry/notice handlers, the go-now handlers and the loops |
| `todo`, `iter` | tool calls left to dispatch (or to recover), iterations of the running `run_turn` |
| `returned`, `escs` | messages un-queued back into the composer; presses of Esc |

One action is one lock section, or one awaited call.  The send handler:
`Probe` (turn lock), then either `SkipPrompt`, `QueueSteer`, `Announce`, or
`Claim`, `DrainOlder`, `PushOwn`, `SpawnTurnLoop`.  A loop: `StartTurn`,
`IterationTop` (cancel check and drain), the model (`ModelText`, `ModelCalls`,
`ModelEmpty`, `ModelStops`), `FinalAnswer`/`FinalCut`, the calls (`NextCall`,
`ToolReturns`, `ToolAborts`, `PushResult`), the budget (`BudgetSpent`), and when
`run_turn` returns `TurnOk`, `TurnAborted`, `ReleaseSlot`, `SnapshotOrphans`,
`FillOrphans`, `FreshCancel`.  `AppendRecord` is the awaited append of any of
them.  The events an actor emits without awaiting after a lock section belong to
that section's action, except `Announce`: the panel's row and its removal are
emitted by different tasks, and their order is the point of `RowsSettle`.

Abstractions.  The text of messages and tool results is left out; the model's
answer is a nondeterministic choice of text, tool calls, an empty shell or a
failure.  The consecutive-failure counters (`EMPTY_RESPONSE_RETRIES`,
`BROKEN_TOOL_CALL_ROUNDS`, `OUTPUT_CAP_CONTINUATIONS`) are nondeterministic:
the turn may fail after any such round.  A failed `folder_entry_for` counts as a
provider failure.  Tool-call ids are unique in the model; the code makes them so
against a clone of the history (`dedupe_response_tool_call_ids`), which two
concurrent loops could defeat.  A drift notice is a `ParkNotice`.  Compaction,
revert/replay/resume, deletion of a session, `Error` and `Usage` records, the
wrap-up's empty answer, and everything after the loop's last event (diff,
auto-rename, worktree reconciliation, MCP reaper) are left out.

### Fleet

| variable | code |
|---|---|
| `workers`, `cut`, `feeding` | `CoordinatorRegistry`: per coordinator `workers`, `disconnected`, `feeder_running` |
| `feeder`, `held`, `queue` | the feeder task: where it is, whose event it handles, what its broadcast receiver still holds |
| `turn`, `tripped`, `owed` | a worker's session: not created, created, idle, in a turn, waiting for an answer, or its seed failed; a cancelled turn; a `TurnComplete` that is still to be sent |
| `calls` | the operations in flight: place, coordinator, worker |
| `told` | the fleet a coordinator has been told of, by tool results, notices and packets |
| `listed` | what `fold_worker_fleet` would make of the coordinator's JSONL |
| `stage`, `folded`, `restarts` | after a restart: how far a coordinator's cold mount has come, the fleet it has read, how often the IDE was restarted |

The code takes the registry lock, a turn lock and a session lock one after the
other and never two at once, so one action is one such section or one awaited
append:

| operation | actions |
|---|---|
| `disconnect_worker` | `Disconnect`, then `Cut`, `Forget` (the record), `Probe`, and for an idle worker `Unlink`, `Tell`; a second click `CutAgain`, `StopTurn` |
| `attach_worker` | `Attach` (the owner check), `LinkWorker` (purge and register), `SpawnFeeder`, `Record`, `Notice` |
| `spawn_worker` | `Spawn` (create, register), `SpawnFeeder`, `Record`, `Seed`, or `SeedFails`, `Unlink`, `Forget` |
| `retire_worker` | `Retire`, `RetireCheck`, `Unlink`, `Forget` |
| a worker's turn | `BeginTurn`, `AskUser`, `Answer`, `EndTurn`, `TurnCompletes`, `AbortWorker`, `TurnDies` |
| dispatch feeder | `Receive` (with the `feeds` check), `Wake`, `Unhook` (`remove`), `Farewell`, `Lag` |
| restart | `Restart`, `Open` (load and fold), `Rebuild`, `RebuildFeeder`, `Remount` |

Abstractions.  A packet is reduced to what it tells the coordinator: a worker
joined or left (`told`), or that it wants attention (`Wake`).  Events other than
`TurnComplete` and an `ask_user` call are not queued: the feeder drops them.  The
header stamp on the worker's side, worktrees, the control tools' own gates, the
notice of a user's message to a worker and the deletion of a session are left
out.  The user clicks on sessions that are listed, which is what `OnDisk` says:
`list_sessions` reads the directory.  A coordinator's tools run after a
round-trip to the model, so its registry is assumed to be rebuilt by then, not
the workers remounted (`Ready`).  A second click on Disconnect is part of the
"stop" gesture.  A worker begins no second ending while the first one's
`TurnComplete` is owed (one per worker).

### Subagent

One sub-agent, its runs (the first one and those that a follow-up resumes), and
who talks to it.

| variable | code |
|---|---|
| `channel`, `queue` | the steer registry: whose channel it holds, and `SubagentSteerChannel.queue` |
| `run`, `iter`, `todo`, `chat`, `ended` | `run_subagent_loop`: where it is, its iterations, calls left, its `messages`, how it ended |
| `trace`, `seen` | the sub-agent's JSONL, and what `continue_subagent` has loaded of it |
| `sent`, `late`, `dropped` | a message's way: the request, those accepted too late, those thrown away |
| `card`, `cut` | the card's status; cancelled tokens |

The loop is `StartRun`, `LoopTop` (cancel check and drain), `AskFails` /
`AskEmpty` / `AskText` / `AskCalls`, `DispatchCall`, `CapReached`, `WrapUp`,
`EndLoop`, `CloseChannel`, `AnnounceEnd`.  A message is `Steer`, or
`LoadTrace`, `ClaimResume` (one critical section of the registry), `Resume`, or
`ClaimSteers` when a channel was there; `StopSubagent` is the abort.  The text
of messages, the sub-agent's own tools and the review prompts are left out.

### DetachedTasks

The background runs of one parent.  `task` is the spawned tokio task, `finish`
and `cancelled` the `DetachedEntry`, `reg` the registry's two maps (which agree,
both are changed under one lock), `records` the `SubagentSpawned` and
`SubagentFinished` lines, `parent`, `settling`, `inbox`, `told` and `notified`
the parent's turns and what they tell the model and the user.  `CallTask`,
`RegisterTask`, `SpawnTask`, `TaskEnds`, `Settle`, `DeliverReport`, `Report`,
`RecordFinish` are the steps of `handle_task_detached`; `StopLook` and
`StopCancel` are the two sections of `handle_task_abort`; `StopBackground`,
`DeleteSession`, `PruneParent` and `RestartIde` are the user's.  `PublishSettled`
is a turn's end as `publish_turn_settled` tells of it, which withholds the "done"
notice while a background run is unsettled.

### Transcript

`log` holds the records that shape the history, `chat` is `Session.messages`.
Messages and calls are numbers; a summary is the set of the entries it stands for,
so that `NothingUnsummarised` can ask whether anything fell out.  The algorithms
are operators: `FindCutoff`, `Snap` (the cut is moved off a batch of calls),
`ApplySummary`, `Rebuild` (the replay of the records), `Opened` (the replay and
the recovery of orphans), and are used by the actions `BeginIteration` (which
compacts when the profile lets the prompt cross the threshold), `Open`, `Revert`
and `Resume`; `Kill` ends the process anywhere.  When a compaction happens is a
free choice in place of the token estimate.

### SessionLog

A writer is a task that appends a record, folds a usage block into the last
assistant line (`Foldable`, `Truncate`, `FoldWrite`), appends the summary trailer
(`SummaryLoad`) or rewrites the header (`NewHeader`, `WriteHeader`), under the
append lock (`held`); `Look` sees whether the file is there.  A revert
(`RevertBegins`, `RevertLoad`, `RevertWrite`) and `DeleteFile` take no lock.
`Listed` is the sessions list's reading, by the trailer where `Trusted` allows
it; `Flags` is what the records say.  A line has length one.

### HubSync

`json`, `tmp`, `inode` and `fh` are the two names and what they mean, so that
`Create` truncates what is there, `WriteTmp` writes it and `Rename` moves the
name.  The document has three fields that matter (tabs, ports, the Hub binding)
and the markers of what has been uploaded; each of `HandlerLoads` … `Rename` is
one handler's round trip.  `TurnEnds`, `InsertTimer`, `Fires`, `Cancelled`,
`RemoveSlot` are the debounce of one session; `UploadLoads`, `Push`, `PushFails`
the upload, which keeps its copy of the document over the network.

### StatusCache

`Call`, `TryLock`, `LockSlot`, `Probe`, `Store`, `FetchFails` are
`get_or_fetch`'s fast path, its mutex with the second look, and the fetch.
`Run`, `RunFails`, `Invalidate`, `Return` are a command of `lifecycle.rs` or
`project_compose.rs`; `Drift` is a change that nobody announces.

### LspBroker, LspDocs, LspClient

`LspBroker` is the slot of one language: `AskServer`, `FindSlot`, `FindEmpty` or
`NotFound` under the spawn lock, `StartProcess`, `Initialised` /
`InitialiseFails`, `Insert`, `CallAgain`; the death watcher `WatcherTells`; the
teardown `TearDown` (of the language, or of all), `CloseStdio`, `CloseChild`.
`pill` is the status the UI was last told.

`LspDocs` is one buffer: a request `op` takes the document's lock (`Lock`: the
version, and whether it is an open or a change) and notifies afterwards
(`Notify`, which also queues the pull).  The process reads `wire` in order;
`Publish` is a pull's task that sends its answer to the panel.  A text is a
number and so are its diagnostics.

`LspClient` is the JSON-RPC client of one process: `ListRequest` puts the
responder into `pending`, `QueueRequest` the frame into the writer's channel;
`WriteOne`, `ReadAnswer`, `ReadAsk`, `ReplyAsk`, `ReadEnd` are the two loops;
`GuardDrops` is the drop of a `LivenessGuard`; `WaitForDeath` and `Arm` are the
look at the flag and the wait behind it.

`LspServer::shutdown` is a caller of the client like any other, with the request
"shutdown", which looks at no flag: `Shutdown` begins it, `GiveUpShutdown` is its
two seconds' timeout, `SayExit` and `StopClient` the notification and the writer's
command, `EndChild` the wait for the child, which is killed when that times out,
too.  A caller that has given up is gone, but nobody takes its responder out of
the map: it stays there until an answer comes or the reader ends.  So does that of
a request whose parameters cannot be serialised (`GarbledRequest`, the `?` between
the insertion and the send).  `RespondersOwned` therefore does not say that the
map is exactly the callers that wait: whoever waits has its responder, and every
other one is of these two kinds.  `ReaderSettles` says what becomes of them: the
end of the reader leaves nothing in the map, except the request of a shutdown that
finds the server dead already, which is listed behind it.

### Bridge

A connection of an IDE process is a read loop (`reader`), a writer task
(`writer`) and the process itself (`peer`); `live` is `live_ides`, `pend` the
two pending maps, `at` where a forward's handler is.  `Find`, `List`, `Send`,
`ReapConn`, `Drop`, `Timeout` are `handle_call` and `handle_subscribe`, which
take the same steps; `Reply`, `Event`, `End` are the IDE's frames; `ReaderEnds`,
`WriterDrains`, `Unlist`, `Sweep` the end of a connection (the sweep holds the
lock of `live_ides`, hence `TableFree`); `Register` and `Revoke` change the
table.  A writer ends when a write fails or when the last sender of its queue is
gone (`HasSender`), and the live table holds one.

### Background

The flags and handles of an entry are variables of their own.  `Check` polls
(`Reap`), `Watch` is the watcher's poll, a stop is `StopTake` (the handle leaves
the entry), `StopReap`, `StopStored`, `StopStore`, `StopTells`, the cleanup is
`Cleanup` and `CleanupOne`.  `exits` is what the panel was told, `wakes` how
often the session was woken.

### Mcp

`conns` is the map, `mapLock` its async mutex, which a handshake holds
(`Connect` … `Greeted` / `GreetFails` / `SpawnFails`), so that `Reuse`,
`DropServer`, `Disable`, `FlipDrop`, `DeleteDrop` and `ReapIdle` wait for it.  A
process lives as long as the map or a call refers to it (`HeldIn`).  `EndTurn`
starts a reaper (`reaper`, in ticks), `ReaperWakes` is its look whether a turn
runs, `ReapIdle` the drop.

### Attach

| variable | code |
|---|---|
| `current`, `link`, `down`, `dispatches` | `AttachHub.current`; per connection where `serve_connection` is, its frames on the way, the dispatches it has spawned |
| `intact`, `up` | whether the byte stream works; calls on the way |
| `desk`, `on`, `left` | `AttachClient::run`: where the loop is, its latest session and how it ended |
| `permit` | the permit that `Notify::notify_one` stores when nobody waits |
| `card`, `clicked` | the window's card "Open on another desktop", and whether its user has clicked |
| `waiters`, `calls`, `told` | the pending map, and each caller |

`AttachLink` replaces the current connection and sends it `Detached`;
`ServerEnds` detaches only if it is still the current one.  `EndSession`,
`FailPending`, `TellDetached`, `Wait` are the loop's steps in their order,
`Reattach` is the click.  `ListCall` and `SendCall` / `SendCallRefused` are the
two lock sections of `call`.  A failed `connect()` is tried again after a pause,
which changes nothing; events and the back-off are left out.

### Companion

`cached` is the phone's session cache, which holds a handshake that is under way
as well as one that is over (`shake`); `known` and `feeds` are the process's
sessions and event forwarders.  What the phone does between two awaits is one
step: `Ask` takes a session or begins a handshake, `SendAsk` seals and sends,
`Renew` forgets the session that was refused and takes or begins another,
`Renewed` moves the stream along and makes the call again; `Subscribe` and
`SendSubscribe` are the stream's.  `Runs`, `Unknown`, `Feed`, `Grant`, `Evict`,
`Restart` are the process's.  The bridge in between loses a call, or its answer,
and says so (`Lost`); the sealing itself is `ReplayWindow`'s.

### ReplayWindow

`top` and `bits` are the window of one session, with `Unseen` (`fresh`) and
`Mark` (`mark`) on a ring of `Window` slots; `checking` holds the number that a
receiver has passed through the pre-check while it decrypts without the lock.
Any copy of any number that was sealed may arrive at any time, intact or not.

### Terminals

One terminal that an agent has opened.  `shell` and `pump` are its shells, one
after the other, and the supervisor of each; `handle` is the entry of
`terminal_streams`, `listing` that of the `TerminalRegistry`, `tab` the window's.
`OpenTerminal`, `OpenDone` are `open`; `RestartBegins`, `RestartUnlists`,
`RestartAwaits`, `RestartSpawns` (`RestartFails`), `RestartDone` the steps of
`restart`; `CloseAborts`, `CloseForgets` those of `close_stream`, for an agent or
for the window.  `Breaks`, `Reaps`, `Unlists`, `Marks` are the tail of
`supervise`; `Abort` drops a supervisor where it waits, and with it its
`PtySession`, which kills the shell (`Dropped`).  `ShellEnds` is the shell's own
exit, and `Hears` closes the tab on `terminal:closed`.  Output is left out.

### FileWatch

| variable | code |
|---|---|
| `files` | the disk: in each folder a file, a directory and a file in it, with versions |
| `raw`, `cmds` | the actor's two channels |
| `listed`, `covered` | `watched_dirs`; the watches the operating system has |
| `batch`, `topology`, `armed`, `cool` | `pending_kinds` (and its paths), `pending_topology`, `trailing`, `last_emit` |
| `payloads`, `tree`, `walk`, `deferred`, `strays` | "fs:changed" on its way; the window's paths, its `loadPaths`, `#pendingRefresh…`, superseded walks |
| `active`, `click`, `folder` | the back end's active folder, `setActiveFolder` calls, the window's folder |
| `servers` | the files as the language servers know them |

`TakeEvent` is the whole arm of the actor's `select!`: `add_subtree`, the
filter, and the leading edge or the timer; `SetRoot` drops what is pending, as
the code does.  `Hear` is the window's handler: a refresh, which may be deferred,
and the notice to the servers.

### Buffers

One open file.  A text is what it is made of: keystrokes, writes by others,
and whether the formatter has seen it, so that a lost keystroke or write is
visible.  `saver` is `saveActive` (`SaveBegins`, `SaveWrites`, `SaveFormats`,
`SaveReads`, `SaveLands`), `reload` the `reloadOpenFileFromDisk` calls that
`Refresh` starts (`ReloadReads`, `ReloadLands`), `flush` the coder's
`format_file`.  `scheduled` and `server` are `lspScheduleUpdate`'s timer and what
the language server has; `Follow` is the editor's listener, which reports a
change of a buffer that is shown as it reports a keystroke.

## Runs

Ten runs must pass and two must fail.  "Profile" is a member of a module's
constant as above; the instance column gives what decides how much can happen,
the .cfg files have the rest.

| run | module | instance | properties | what it shows |
|---|---|---|---|---|
| `TurnSerial` | `MCTurnLoop` | 2 messages, one client operation at a time, 3 iterations, batches of 2 calls, 3 calls, prompts | `TypeOK` `ChatWellFormed` `DiskFollows` `QueuedIsServed` | the sequential contract: steers never split a batch of calls, every call is answered once before the model is asked again, the JSONL is a prefix of the history, a queued message is served |
| `TurnFaults` | `MCTurnLoop` | 2 messages, one retry, the provider may fail | `RetryRepairs` | a retry repairs the history before it asks the model again |
| `TurnRaces` | `MCTurnLoop` | 2 messages with go-now on both, two operations at once, Esc, failing appends | `Conserved` `SlotOwned` | no race loses or doubles a message, no failure leaves the slot taken |
| `TurnAbort` | `MCTurnLoop` | 2 messages, a notice, Esc | `LoopReachable` `TurnsEnd` | Esc reaches every running turn and ends it, prompts included; every turn gives up the slot |
| `FleetSpawned` | `MCFleet` | 1 coordinator, 2 workers it spawns, one operation at a time, failing seeds | `TypeOK` `BeliefRight` `CoordinatorHears` `FeederKeepsLinks` | the coordinator is woken, hears of every worker that leaves, and agrees with the registry once things are quiet |
| `FleetClients` | `MCFleet` | two operations at once, one of them an attach at most: 2 coordinators and a worker they make (`Contest`), or 1 coordinator that spawns a worker, attaches an existing one and is rebuilt after a restart (`Growth`) | `LinksControlled` `OneFeeder` `NeverStolen` | no overlap of spawn, attach, disconnect and retire gives a worker two owners or leaves a mark that vetoes its control tools; no overlap of a spawn, an attach and a rebuild, which all register a worker and then look at `feeder_running`, starts a second feeder; the live links implement `Ownership` |
| `FleetRestart` | `MCFleet` | 1 coordinator, 2 workers, one restart at any step, aborts, failures, a lagging channel | `FleetOnDisk` | a restart resurrects no worker and loses none |
| `Agents` | `MCAgents` | `Subagent`: 2 messages, one run and two follow-up runs, stop or provider failures; `DetachedTasks`: 2 tasks, 1 parent turn besides those they wake, every failure, stop, deletion, restart | `SubagentOK` `TasksOK` `ReportOnce` `UserIsTold` `AgentsSettle` | one loop per JSONL, no message in two places, one report per run, cards and the "done" notice that tell the truth |
| `Parts` | `MCParts` | `Transcript` 6 message ids, kills or compactions with resumes; `SessionLog` 4 lines, 3 profiles; `HubSync` 2 uploads, a crash; `StatusCache` 2 readers, 1 command; `LspBroker` 2 callers, 3 servers; `LspDocs` 3 edits, a respawn; `LspClient` 2 requests and a shutdown, 3 profiles; `Bridge` 2 connections, a call and a stream; `Background` 2 processes, 2 stops; `Mcp` 2 sessions, 3 connections, 3 profiles; `Attach` 2 desktops, 4 links; `Companion` 2 calls, 2 restarts; `ReplayWindow` width 3, 2 receivers, 6 messages; `Terminals` 3 agents, 3 profiles; `FileWatch` 2 folders, 2 changes on disk, a switch, 4 profiles; `Buffers` 2 keystrokes, a write by others, 3 profiles | `ChatKept` `FitToAsk` `FileWhole` `SyncOK` `CacheOK` `LspOK` `RpcOK` `BridgeOK` `BackgroundOK` `WakesRight` `McpOK` `AttachOK` `CompanionOK` `WindowOK` `TerminalsOK` `WatcherOK` `BuffersOK` | the safety of sixteen parts |
| `Services` | `MCServices` | `Bridge`, `Background`, `Mcp`, `Attach`, `Companion`, `Terminals`, `FileWatch`, `Buffers`, and `LspClient`; smaller: 1 request and the shutdown, 1 connection, 1 process, 2 MCP connections, 2 agents, 1 keystroke; an attach link that may be cut, a double click | `ServicesSettle` | whoever waits is told in the end, and a language server that is shut down ends |
| `StrandedSteer` | `MCTurnLoop` | 2 messages, one run each | `NoStrandedSteer` (violated) | below |
| `DanglingResult` | `Transcript` | kills and compactions together | `FitToAsk` (violated) | below |

The properties that are conjunctions are named for what they promise and their
parts have comments of their own.  Some of those parts are conditional, because
the code keeps them only there (the next section has the counterexamples without
the condition):

- `ChatWellFormed` is checked with one client, no Esc and no failure.
- `ChatKept` is `HistoryOK` and `ReplayIsLive` of `Transcript`, `LspOK` is `SlotOK`
  of `LspBroker` and `DocsOK` of `LspDocs`.
- `FitToAsk` and `ReplayIsLive` are checked with kills, and with compactions and
  resumes, not with both.
- `SlotOK` does not ask `PillRight` of the profile in which a death is told late.
- `BackgroundOK` asks `ExitTruthful` and `CodeKept` where no two stops, nor a stop
  and the cleanup, meet at one process.
- `AttachOK` does not ask `TakenBackAsked` after a double click.
- `CompanionOK` asks `FedOnce` where operations of the phone do not overlap and no
  session is evicted.
- `TerminalsOK` asks for `OneShell`, `EndsOwn`, `Reachable` and `KilledAsked` where
  restarts do not overlap and the shell does not end during one, and for
  `ListedTruthful` where no restart fails.
- `WatcherOK` asks for `TreeRight` where no directory is moved in or made anew, the
  watcher is not pointed again at the same folder, and files wait for a switch; for
  `ServersRight` without complications.
- `BuffersOK` asks for `TypedKept` and `SavedKept` where the coder formats no file
  during a save, the first without typing during a save or a reload, the second
  without such typing together with saves of what is stale; for `BufferFollows`
  where others write and reloads overlap at no such time either, for
  `CleanSaveHarmless` where, besides, nothing stale is saved; and for `ServerInStep`
  in a buffer that is always shown.
- `ServicesSettle` has of `Mcp` a server that dies, late replies and a server that is
  disabled; deletions and flips are in `Parts` only.
- `FleetSpawned` has neither "attach" nor "stop"; `FleetOnDisk` is checked with one
  operation in flight and `NeverStolen` with one attach; `LinksControlled` needs an
  IDE that is not restarted between two attaches.

### Bounds, and why they are enough

- `TurnLoop`: two messages are enough for each race: one drains while the other
  is sent, both claim, one is un-queued while the other is drained.  `MaxIter` 3
  leaves room for a batch, a steer and the final answer; `MaxBatch` 2 lets a batch
  be half answered, and the third call lets the iteration budget run out.  One Esc
  suffices because a second one trips the same token or a fresh one, which
  go-now on both messages covers.  `MaxOps` bounds the client operations in
  flight: one for a user who waits for each click, two for two clients.
- `Fleet`: one operation of each kind meets every step of the feeder and of the
  worker's turn; two operations at once are all that the races between two
  handlers need.  `FleetClients` has them in two small worlds, and the constraint
  `ContestOrGrowth` keeps it to states of one or the other.  In a `Contest` the IDE
  runs and two coordinators compete for a worker they have made; a session the user
  had before would only stand by.  In `Growth` one coordinator spawns, attaches and
  is rebuilt, so that up to three registrations overlap, at each step of one
  another; a second coordinator has a feeder of its own, a disconnect registers
  nothing, and so does a worker's turn.
  `MaxQueue` 1 keeps one event between the channel and the feeder: the feeder holds
  another one, and a worker owes a third, so a disconnect can fall between any two
  of them.  A second restart finds the same state as the first.
- `Subagent`: two messages make each pair of a steer, a follow-up and a stop; one
  iteration and one call reach the wrap-up with a call answered.  `DetachedTasks`:
  two tasks make "the last one settles" different from "one settles";
  `MaxSettling` 2 lets two turn ends be under way, and a report wakes a further turn.
- `Transcript`: `Keep` 1 and six ids let a second compaction fold the first one's
  summary, with a batch at the cut.  `SessionLog`: four lines are a header, a line
  to fold, a trailer and one behind it.  `HubSync`: two uploads are what the
  debounce can confuse.
- `StatusCache`: two readers, one on the fast path and one that fetches, and
  `MaxClock` twice the time to live.  `LspBroker`: two callers race for the spawn
  lock and a third server can only follow a death or a restart of the second.
  `LspDocs`: open, change, close, with the server replaced once.  `LspClient`: one
  request answered and one not, besides that of the shutdown; a shutdown comes once.
- `Bridge`: two connections and a forward of each kind; the forwards do not touch
  each other's entries.  `Background`: two processes tell an event of one from the
  other's; two stops make every pair.  `Mcp`: two sessions contend for the map's
  lock, three processes are a first one, its successor and another session's.
- `Attach`: two desktops take the workspace from each other and back, four links
  are two each.  `Companion`: two calls over two restarts each lose their session
  once more than they may renew it.  `ReplayWindow`: six numbers go twice around
  a window of three, and two receivers are the pair that passes the pre-check
  with the same number.
- `Terminals`: three agents are an open, a restart and a close, or two of one of
  them.  `FileWatch`: two changes on disk are a directory and a file in it, or a
  file's end and its return; two folders are a switch.  `Buffers`: two keystrokes
  put one before and one behind a save, one write by others falls into each of its
  steps.

### Fairness, and why the code justifies it

Weak fairness is asked of steps of tokio tasks and of handlers that have begun:
the scheduler runs every ready task, and no such step waits for a lock that is
held across an await that may never end.  Nobody is obliged to begin an
operation, to press Esc, to click, to call, or to answer a prompt.  Processes of
other programs and the network owe nothing except where the code bounds them by
a timeout.

- `TurnLoop` (`FairSpec`): loops, handlers and appends.  `QueuedIsServed` and
  `TurnsEnd` make an exception for a parked prompt.  A model or tool call is
  assumed to return: the client's own time limits are part of the inference
  client.
- `Fleet` (`FairSpec`): operations in flight, the feeder, a mount that has begun
  and the `TurnComplete` that is owed.  A turn that runs ends (`TurnsEnd` of the
  turn loop); `CoordinatorHears` makes an exception for a last turn that waits for
  an answer.
- `Subagent`, `DetachedTasks` (`SubFairness`, `TaskFairness`): spawned loops, tasks
  and requests that have begun.  The user need not stop anything.
- `Bridge` (`BridgeFairness`): the handlers with their timeout, and the sweep.  An
  IDE need not answer and a dead connection need not be noticed.
- `LspClient` (`RpcFairness`): both loops, callers, the death watcher, and the
  shutdown with its two timeouts; not the process, which need not answer.
- `Background` (`BgFairness`): the watchers, stops and cleanup; a process need not
  exit and nobody need check it.
- `Mcp` (`McpFairness`): the turns' and reapers' steps, time, and *strong* fairness
  for whoever waits for the map's lock: tokio's async mutex hands it over in the
  order of waiting, so that a task that is first in line again and again gets
  it.  A handshake and a call end by their timeouts.
- `Attach` (`AttachFairness`): both processes' tasks and the dispatches.
  `Companion` (`CompanionFairness`): the phone's promises, the bridge and the
  process; a lost message is told as lost.
- `Terminals` (`TermFairness`): supervisors, operations that have begun, events; no
  shell need exit.  `FileWatch` (`WatchFairness`): the actor, its timer, the window's
  handlers and walks, switches that have begun.  `Buffers` (`BufferFairness`): awaited
  calls return, timers fire, the watcher tells of a change.

`CHECK_DEADLOCK FALSE` is set in every configuration: every part may come to
rest for good (a session whose messages have been served, a phone that has asked
all it may ask), and bounded counters end.

## Where the code does less than it says

Each row is a configuration in which TLC finds a behaviour of the model that
breaks a property stating what a comment or document promises, or what a user
would expect.  Two of them are runs (`StrandedSteer`, `DanglingResult`; PROJECT.json
quotes both sides); the rows marked • have a configuration file beside the modules,
the others are made from the constants given.

Turn loop (`MCTurnLoop`; two messages, one iteration and call unless the row says
otherwise):

| configuration | property | the code | the promise |
|---|---|---|---|
| `StrandedSteer` (run) | `NoStrandedSteer` | `send` releases the turn lock between probe and push, so the loop may look at the queue for the last time in between; the steer stays queued on an idle session | a steer that slips in "still earns another `run_turn` invocation" |
| `OneTurnAtATime` • `MaxOps` 2 | `SingleLoop` | two sends on an idle session both claim the slot and both spawn a loop | "the loop is single-turn-at-a-time" |
| `ChatShape` • `MaxEsc` 1 | `ShapeOK` | an aborted loop clears the slot and recovers the orphaned calls afterwards; a send in between splits calls and results | the chat shape "forbids a user message between" them |
| `GhostRow` base | `RowsSettle` | the queued row is announced after the lock is released, perhaps after its own `SteerDrained` | the matching `steer_drained` "removes this provisional row" |
| `StaleGoNow` `GoNows` both | `StaleGoNowHarmless` | go-now checks the queue and then cancels whatever runs, perhaps the turn that already serves the message | a stale click "is a clean no-op" |
| `UnansweredCall` `MaxIter` 2, `Faults` {"provider"} | `AnsweredBeforeModel` | a send after a failed turn recovers no orphans | a failed turn leaves calls unpaired and "the providers reject" them |

Fleet (`MCFleet`, `MaxQueue` 1):

| configuration | property | the code | the promise |
|---|---|---|---|
| `FarewellMissing` • one coordinator, one worker; spawn, disconnect, stop | `BeliefRight` | an aborted turn sends `Aborted`, which the feeder ignores | "the abort emits a `TurnComplete`" |
| `TwoOwners` • two coordinators, an existing worker; attach, restart | `SoleOwner` | after a restart the owner check sees an empty registry, and the first owner's rebuild registers without a purge | a worker attached elsewhere "is refused" |
| `StolenLink` • two coordinators; attach; `MaxCalls` and `MaxAttaches` 2 | `NeverStolen` | two attaches pass the owner check, the second purges the first | the same |
| `FarewellTwice` spawn, disconnect | `HeardOnce` | the turn slot is free before `TurnComplete` is sent: a disconnect in between tells the coordinator itself, and so does the feeder | "exactly one final `TurnComplete` wake" |
| `LinkCut` two existing workers; attach | `FeederKeepsLinks` | the feeder's check and its `remove` are two lock sections; an attach in between loses its link | "drops the link entirely as part of the same check" |
| `RetireStrands` spawn, retire | `RetiredIdle` | a turn begins between the check and the `remove` | retirement "can't strand an in-flight turn" |
| `LostOnDisk` an existing worker; attach, disconnect; `MaxCalls` and `MaxAttaches` 2 | `FleetOnDisk` | a disconnect's record lands after the record of a fresh attach | the rebuild "survives restarts" |

Sub-agents (`Subagent` with two messages, two iterations, one operation and no
fault; `DetachedTasks` with two tasks, one turn, `MaxSettling` 2; unless the row
says otherwise):

| configuration | property | the code |
|---|---|---|
| `DroppedSteer` • `SubOps` 2 | `NeverDropped` | the fallback of `ClaimResume` takes the registry again: the run has ended in between, and a message reported as queued is thrown away |
| `OrphanResume` • {"stop"} | `ResumedWellFormed` | a stopped run leaves calls without results in its JSONL, and the follow-up asks the model with them |
| `StaleResume` `SubOps` 2 | `NothingForgotten` | the history is loaded before the channel is claimed: another run wrote more in between |
| `CardLag` `SubOps` 2 | `CardLive` | the end of one run is announced behind the start of the next |
| `LoudStop` • {"stop"} | `StoppedIsSilent` | a stop that finds the run over leaves its report to wake the parent |
| `NeverTold` {"stop"} | `AlwaysTold` | the "done" notice was withheld for a run that the user then stops: no later turn sends it |
| `OrphanRun` {"delete"} | `NoOrphanRun` | deletion cancels the turn and prunes the registry in two steps: a task registers in between and runs for a session that is gone |

History and files (`Transcript` with `Keep` 1, `BatchSize` 2, five ids;
`SessionLog` with four lines; `HubSync` with one upload):

| configuration | property | the code |
|---|---|---|
| `DanglingResult` (run) {"kill", "compact"}; `ResumedOrphan` {"kill", "resume"}; `ResumedNotice` {"resume", "notice"} | `FitToAsk` | a recovery is in memory only; once the message that owns the call is folded, cut off or followed by a notice, the result stands without it |
| `UnsavedFold` {"compact", "disk"} | `ReplayIsLive` (in `ChatKept`) | a compaction whose record cannot be written is in memory only: the reload has the messages it folded |
| `LostPrompt` {"kill"} | `PromptSurvives` | a question that waited when the process was killed is not asked again when an older orphaned call is in the history too |
| `EarlyTrailer` {"early"} | `TrailerTruthful` | the summary is folded before the append lock is taken: a record lands in between and the trailer behind it does not know it |
| `TornFold` • {"usage", "crash", "torn"} | `NothingVanishes` | the usage fold truncates the last line and then writes it anew: a crash in between loses the line |
| `SloppyRevert` {"revert", "sloppy"} | `NothingVanishes` | a revert rewrites the file without the append lock: a record that lands in between is gone |
| `GhostFile` {"delete", "sloppy"} | `StaysDeleted` | a task that still has a record appends it after the deletion and creates the file again |
| `SharedTmp` • {"overlap"} | `NeverTorn` | two savers share `session.json.tmp`: one publishes what the other is still writing |
| `LostField` {"overlap"} | `NotClobbered` | a save writes the whole document as it was loaded, without the field another handler saved meanwhile |

The window (`Terminals` with three agents; `FileWatch` with two folders, three
changes, one switch; `Buffers` with two keystrokes, a write by others, one reload):

| configuration | property | the code | the promise |
|---|---|---|---|
| `DoubleRestart` {"overlap"} | `OneShell`, `EndsOwn`, `Reachable` | two restarts both find the handle gone or replace each other's: the supervisor whose sender is dropped waits in `next_exit` for a shell that runs on | "`PtySession::drop` will SIGKILL it shortly" (`terminal.rs`:428) |
| `StaleEnd` {"stale"} | `EndsOwn`, `KilledAsked` | the window closes the tab on an old shell's `terminal:closed` although the terminal was restarted in between, and kills the new shell | "the old supervisor's exit bookkeeping can't land on the new shell" (`terminal.rs`:48) |
| `FailedRestart` {"fails"} | `ListedTruthful` | a restart that cannot spawn leaves the registry's entry live without a shell | |
| `QuickEnd` {"quick"} | `TabGoes` | the shell ends before the window has heard of the terminal: `terminal:closed` finds no tab, and the tab made afterwards stays | |
| `LostBatch` {"again"} | `TreeRight` | `SetRoot` for the folder that is watched drops what is pending | "the watcher itself dedupes" (`workspace.rs`:96) |
| `RemadeDirectory` {"remade"} `MaxOps` 5 | `TreeRight` | `watched_dirs` keeps a directory that is removed: made again, it is not watched | |
| `MovedDirectory` {"rename", "mkdir"} | `TreeRight` | a directory that is moved in is a rename, which adds no watches | |
| `BusySwitch` {"busy"} | `TreeRight` | a walk reads a folder that is not yet, or no longer, watched | |
| `QuickSwitches` {"quick"} three folders, two switches | `AimRight` | two `set_active_folder` calls set the folder in one order and point the watcher in another | |
| `LostCreate` {"replace"} | `ServersRight` | a file that is deleted and made again in one window is told as deleted | a path that "both appears and vanishes inside one window reports `None`" (`fs_watcher.rs`:214) |
| `UntoldRename` {"rename"} | `ServersRight` | the two halves of a rename are not classified as deleted and created, which the comment of `event_kind_to_change_kind` says | |
| `TypedAway` {"keys"} | `TypedKept` | what is typed while a save or a reload is awaited is overwritten by its answer | "Dirty buffers are left alone: we don't silently clobber unsaved user edits" (`state.svelte.ts`:3685) |
| `TakenBack` {"stale"} | `CleanSaveHarmless` | saving a clean buffer writes it over a change it has not seen (`loadedMtimeMs` is never compared) | |
| `StaleLanding` {"late"}, {"slow"} | `BufferFollows` | an answer that was read before another's write lands behind the refresh that tells of it | |
| `FormattedOver` {"flush"} | `SavedKept` | the coder's formatting reads, waits and writes over a save | |
| `HiddenReload` {"hidden"} | `ServerInStep` | a reload of a buffer that is not shown is not told to the language server | |

Services (`LspClient` with one request; `LspBroker` with two callers and closers,
three servers; `LspDocs` with three edits; `Bridge` with one connection, call and
stream; `Background` with one process; `Mcp` with one session, two turns, three
connections; `Companion` with two calls):

| configuration | property | the code |
|---|---|---|
| `LateRequest` {"late"}; `MuteServer` {"mute"} | `CallersWake` | a request is listed after the reader has failed everybody and gone; a reader that cannot hand its own answer to the writer returns without failing anybody |
| `UnarmedWatcher` {"unarmed"} | `DeathTold` | the watcher looks at the flag and waits: a death in between is not told |
| `OrphanServer` {"early"} | `NoOrphan` | `shutdown_all` takes no spawn lock: a server that is being started is inserted behind it |
| `LaggingPill` {"lag"} | `PillRight` | the end of an earlier server is told behind the start of the next |
| `RefusedSpawn` {"refuse"} | `OneServer` | a server that refuses `initialize` lives on while its slot says that it is missing: a restart starts a second one |
| `SwappedEdits` {"overlap"}; `SwappedPulls` {"swap"}; `GhostDiagnostics` {"late"} | `ServerFollows`; `PanelRight`; `NoGhosts` | the notification is sent after the document's lock is released, and a pull publishes whenever it is answered, also when the document is closed |
| `ToldTwice` • | `AnsweredOnce` | a call swept between its entry and its send is told lost and unreachable |
| `Unswept` two calls | `SweptAll` | a failed send takes the connection out of the live table, and the sweep then finds it gone: other calls wait for their timeout |
| `GhostHost` (`BridgeCleans`) | `GhostReaped` | the live table holds a sender of the queue whose end the writer waits for |
| `SecondStop` two stops, {"twice"}; `StopInCleanup` one, {"cleanup"} | `ExitTruthful` | whoever finds the handle taken reports an exit without its code |
| `EarlyCheck` one stop | `CheckTruthful` | a check between the taking of the handle and its reaping says that the process has ended |
| `ShortGrace` • | `GraceKept` | the reaper looks whether a turn runs at one instant: "no further turn" (`runner.rs`:6937) is not what it knows |
| `WrongTarget` {"flip"} | `TargetRight` | connections are dropped after the target is flipped: a call in between runs in the old environment |
| `DoubleClick` two desktops, four links, {"double"} | `TakenBackAsked` | the second click's permit is kept, and spent by the next takeover |
| `DeafPhone` `MaxOverlap` 1, {"lost"} | `StreamHeard` | a subscription that is lost is "Surfaced by the next call" (`transport.ts`:351), which surfaces nothing as long as calls succeed |
| `TwiceHeard` `MaxOverlap` 2; `EvictedStream` {"evict"} | `FedOnce` | two operations move the stream at once; an evicted session's forwarder goes on |

## Proofs

TLC checks an instance, TLAPS the theorem for every value of the constants that
the modules' named assumptions allow.  Each proof module has an inductive
invariant, the lemma that each kind of step keeps it, and a theorem that follows
with `PTL`; the runs above check the same property on an instance.

`TurnLoopProofs` proves, for every choice of messages, notices, retries, go-now
targets, faults and bounds satisfying `RunsAssumption` and `BoundsAssumption`:

- `TypeCorrect == Spec => []TypeOK`.  `TypeOK` is not inductive alone: a loop
  that takes `Head(todo)` must have a call to take, and the iteration counter
  must stay within the budget.  `TypeInv` adds `Progress`, which says for each
  program counter whether `todo` may be empty and whether `iter` is below the
  bound.
- `SlotNeverSticks == Spec => []SlotOwned`, by cases on who may put a token into
  the slot (`LoopSlot`, `HandlerSlot`), with `TypeInv`.
- `MessagesConserved == Spec => []Conserved`.  The argument is one lemma per way
  a message moves: into the queue (`InQueue`), from the queue to the history
  (`DrainMoves`), out of the queue (`QueueRemove`), and the rest, which leaves
  the three places alone.

Its second half proves the promises that TLC refutes as soon as operations of
clients overlap, for clients that await each operation before the next
(`MaxOps = 1`); `Calm` adds that nobody stops a turn (no Esc, no go-now).  The
table of counterexamples shows what overlaps, an Esc and a go-now do to them.

- `TurnsReachable == MaxOps = 1 => (Spec => []LoopReachable)`.  `SerialInv` says
  that one actor at a time is inside an operation (`OneOp`), that the slot is the
  loop's that holds it or the handler's that is about to spawn one (`Owners`), and
  that a parked prompt is awaited (`Prompted`).
- `RetriesRepair == Calm => (Spec => []RetryRepairs)` and
  `ChatKeepsShape == Calm /\ "provider" \notin Faults => (Spec => []ChatWellFormed)`,
  from `ChatInv`: no call has two results or a result before it (`Sane`), and what is
  left of a batch is exactly what the history lacks (`LoopKept`), for loops of
  retries always and for the others unless the provider fails.  A calm loop takes
  one of six kinds of step (`CalmMove`); the lemmas about histories say what each
  does to calls, results and orphans.
- `FileFollows == Calm /\ "disk" \notin Faults => (Spec => []DiskFollows)`, from
  `DiskInv`: the file, followed by the records of the one actor that writes, is the
  history (with the result that is persisted before it is pushed), and it is all
  of the history when nobody writes.

`FleetProofs` proves, for any coordinators, workers, gestures and bounds
satisfying `FleetAssumption`:

- `FleetTypeCorrect == Spec => []TypeOK` and
  `FeederSpawnedOnce == Spec => []OneFeeder`, from one invariant, `TypeInv`:
  `TypeOK`, whose clause that every disconnected mark is on a registered worker
  is what `Cut` and `Remove` must preserve, and `FeederInv`.  The latter adds to
  `OneFeeder` what makes it inductive: a coordinator without the
  `feeder_running` flag has no feeder, and neither an operation at `a_feed` or
  `s_feed` nor a rebuild at `feed` is on the way to spawn one.
- `OneOwner == "restart" \notin Gestures => (Spec => []LinksControlled)`, the
  conjunction of `SoleOwner` and `Controlled`.
  `SoleOwner` is strengthened with: a session that is not created has no owner
  and no operation in flight, so a spawn cannot give a worker its second owner,
  and nothing is being rebuilt.  `Controlled` follows from `SoleOwner` and the
  type invariant.  The assumption is needed: `TwoOwners` is the counterexample
  without it.
- `LinksKeepPromise`: while the IDE runs and attaches come one at a time, the
  specification implements `Ownership` under `owner <- Holder`.  A live link is
  made by a spawn, an attach or a rebuild only; `StealInv` says that an attach
  which was let through still finds its worker free.  `StolenLink` is the
  counterexample with two attaches.
- `UnhookKeepsLinks == "attach" \notin Gestures => (Spec => FeederKeepsLinks)`, an
  action property: the link the feeder removes is one that was cut.  `KeepInv`:
  what an event or an operation speaks of has been born, so that no spawn links
  it anew between the feeder's look and its removal.
- `FleetSurvives`: with one operation at a time and no attach, `FoldInv` relates,
  worker by worker, the live links to what a rebuild would read, up to the one
  record that the operation under way still owes.
- `CoordinatorKnows`: besides, without restarts, stops, failed turns and lost
  events, `BeliefInv` says that somebody (an event in the queue, the feeder, the
  operation) will still tell whatever a coordinator does not know.  TLC refutes
  `BeliefRight` when any one of these hypotheses is dropped.

`SessionProofs` proves `FileStaysWhole`, that `LogSpec => []FileWhole`, for any
number of records, usages, trailers, writers' steps, reverts and crashes, under
the hypothesis that the races are without "torn", "early" and "sloppy": a crash
does not tear a rewrite, and nothing is appended in the middle of a trailer's
look, a revert or a deletion.  Each of the three refutes `FileWhole` (the table of
counterexamples), so the hypothesis is needed.

- What the readers of a file compute (`Records`, `Listed`) is a fold over its
  lines.  `FoldLeft` is CHOSEN among functions on sets of indices, so the
  first lemmas show that one exists which iterates the operator (`IteratesExists`),
  that all such agree, and what appending a line does (`IteratesAppend`).
  The library's induction theorems take an operator and cannot be used here;
  `Induct` has the same content for a set of numbers, from the
  well-foundedness of `<` on the naturals.
- `LogCtl` is the control: who holds the file's lock and how far each writer has
  come, which line each has in its hands, that a revert is alone, that a rewrite
  of the last line still finds the line it has read.  `DataInv` is the data: the
  file, or what a rewrite in the making will leave of it, is `Whole`: one
  header, every accepted record once and none other, every trailer right about the
  records before it; what is in flight is not in it yet, and a trailer in
  flight will be right when it lands (`TrailersFlying`).

Its second half proves `HistoryFits`, that `TranscriptSpec => []FitToAsk`, and
`HistoryKept`, that `TranscriptSpec => []ChatKept`, for any `Keep`, `BatchSize` and
`MaxIds`, any calls and any lengths of histories, under the hypothesis
`Compatible` on the profiles: kills meet neither compactions, resumes nor notices;
resumes no notices; compactions no failing disk.  TLC shows that no exclusion can
go:

| together | refuted |
|---|---|
| kill, compact; kill, resume; resume, notice | `FitToAsk` and `ChatKept` |
| kill, notice | `FitToAsk` |
| compact, disk | `ChatKept` |

`TranscriptInv` has three parts.

- `Owes`: what the log rebuilds to is a history `g` and the part `b` of a batch
  that still waits for the results `todo`; the calls without a result in the log are
  those that kills cut off, whose results only the history in memory has, and then
  `todo`; the history in memory is `g` with the former recovered, and is
  `Complete`: each batch is followed by its results, in order.  That recovered
  results come before those of the batch under way is what lets a reload insert
  them where they are in memory.
- `Remembers`: the last `Keep` user messages of the log stand in the history word
  for word (`Recent`), every entry of the log stands in it or in its summary
  (`Covers`), and a summary stands in front (`InFront`).
- `Points`: what a revert or a resume leaves of the log satisfied all this when the
  cut entry was written, and a user message was sent with the history which that
  prefix gives.  This is why a truncated log is again one that the invariant allows.

`Rebuild`, `Orphans`, `AllCalls` and `Opened` are folds, handled as in
`FileStaysWhole`: one lemma says that each goes through its sequence step by step,
one what it does to a sequence with one entry more or to two in a row.
`Orphans` is the loop of `orphan_tool_call_ids` as it stands, a fold that keeps the
calls without a result; `snap_cutoff_to_tool_boundary` never leaves a result
without its batch because histories are `Complete`.

`RemoteProofs`:

- `AnsweredOnceAtMost == BridgeSpec => []BridgeOK` for any
  connections, calls and streams (`BridgeAssumption`: connections are numbers, and
  no call is a stream).  The invariant, `ForwardInv`, is per forward: `Stage` relates
  where its handler is to what the phone has been told, `Told` an entry in the maps
  to the absence of an answer.  Each step moves a few forwards and `Untouched` keeps
  the rest.
- `AtMostOnce == WindowSpec => []WindowOK` for every width
  of the window, any receivers and any number of messages (`WindowAssumption`: the
  width is positive).  The invariant adds `RingInv`: inside the window a slot's bit
  is set exactly for the numbers that were handed on.  It rests on `SlotsDiffer`,
  that two numbers less than a width apart have slots of their own, a fact about
  `%` that is proved from the quotients.
- `OneDesktop == AttachSpec => []AttachOK` for any desktops, links, calls and
  clicks.  `AttachInv` adds that links are numbered as they are made, that a
  desktop in a session has a link, and that a stored permit is the click on the
  card of a loop that waits.
- `NothingTwice == CompanionSpec => []CompanionOK` (`CompanionAssumption`: the
  stream is no call).  A call is run in the one step that takes it from `sent`;
  without overlaps and evictions the operation that goes on uses the session of
  the cache, and of the sessions that the stream was asked for on only that one
  can be known to the desktop.

`LspProofs`:

- `RespondersKept == RpcSpec => []RpcOK` for any requests
  and any of the races (`RpcAssumption`).  `RpcInv` adds to `RpcOK` what the end of
  the reader needs: while the flag is up the reader is there (so that nothing is
  listed behind its end), a reader that is about to answer the server finds the
  writer unless the race is "mute", and the request of the shutdown is begun by the
  shutdown only.  `RespondersOwned` holds in the profiles in which `CallersWake`
  fails, too: a caller who waits for good still has its responder.
- `OneServerATime`: for any callers, servers, crashes and restarts, as long as a
  server that refuses to initialise ends (`RefusedSpawn` is the counterexample).
  `SlotInv`: processes are numbered in the order of their spawns, the spawn lock is
  held from the eviction to the insertion (`LockHeld`), every process that runs is
  in the slot, about to be inserted or being shut down (`Accounted`), and where no
  spawn overtakes the end of the last server the pill follows (`EndsTold`,
  `PillFollows`).
- `PanelsFollow`: without overlapping requests and swapped answers.  `DocsInv`
  has the sequence of texts the server will have read as it takes the messages on
  the wire, one by one: each fits the one before, the last is the buffer's, and
  the last answer on its way is of that text.
- `LspTellsTheTruth`: `LspOK` of both together, interleaved in any way.

`WindowProofs`:

- `BuffersKept == BufferSpec => []BuffersOK` for any number of
  keystrokes, writes by others and overlapping reloads, and any sets of complications
  (`BuffersAssumption`: the three bounds are naturals).  Each promise needs its own
  strengthening, which says what a save or a reload has in its hands while it is
  awaited: `TypedInv` (every text that is about to land has all that was typed),
  `SavedInv` (a save that changes the file meets no reload), `FollowInv` (a reload
  that is about to land has what is on disk, or there is news) and `ServerInv`.
  `Fresh`, that no text has a keystroke that is still to come, is why typing makes a
  buffer dirty.
- `TreeFollows == WatchSpec => []WatcherOK` for any folders, changes on disk and
  switches (`FileWatchAssumption`), each part under the complications it allows.
  `Aims`: the last command on its way points the watcher at the folder that is
  being switched to.  `Covers`: a directory is watched, or its making is still to
  be heard of, so that no change is missed unseen.  `Walked`: a tree that differs
  from the disk will be walked.  `LastWord`: of a file's events, its entry in the
  batch and the payloads on their way, the last says whether it is still there.
  `StraysCounted` bounds the superseded walks by the switches that have ended.
- `OneShellReachable == TermSpec => []TerminalsOK` for any number of agents.
  `TermShape`, in every profile: shells are numbered as they are spawned and a shell
  that runs has a supervisor.  Where restarts do not overlap and no shell ends during
  one (`QuietInv`): every earlier shell's supervisor is gone (`Earlier`), whoever
  restarts is alone and each of its stages says what is left of the old shell
  (`OpRight`), the last shell's handle is in the map until it is let go of (`Held`),
  and what the window has heard or is about to hear agrees with both (`Heard`).

`AgentsProofs`:

- `CardsTellTheTruth == TaskSpec => []TasksOK`, `OneReport == TaskSpec =>
  []ReportOnce` and `QuietMeansTold == TaskSpec => []UserIsTold`, for any tasks,
  bounds and faults (`TaskAssumption`).  `TasksInv` is one invariant for the three:
  per task, what has come of it agrees with how far it is (`OutcomeRight`), a
  report is in the inbox or read, never both, and only of a run that was not
  aborted (`ReportRight`), and what the registry and the parent's file say of it is
  what a reopening needs (`WrittenRight`); and while the user is still to be told,
  somebody will: a turn that runs, or a run whose end starts one (`WillTell`).
- `OneSubagent == SubSpec => []SubagentOK` for any messages, bounds and faults
  (`SubAssumption`).  `SubInv` is where a message is at each stage of its request
  (`Placed`), that the queue and the JSONL hold it once (`OnceIn`, `SaidOnce`), and
  that a run's history has its task or follow-up once and from there on the results
  of every batch but for those that are still due (`OwnHolds`), of which none is
  when the model is asked.  `Unheard` says that the history a follow-up has loaded
  lacks the follow-up, `RunsFollow` and `NotYet` that a run belongs to the request
  that claimed the channel.  The lemmas before them (`OwnGrows`, `OwnGoesOn`,
  `OwnBegins`) are about histories alone.

`ServicesProofs`:

- `EndsToldOnce == BgSpec => []BackgroundOK`, for any processes, stops and races
  (`Background` assumes nothing of its constants).  `HandleInv` says who has a process's
  handle (its entry, or a stop that has marked the process as stopped) and that
  the `notified` flag counts the event and the wake-up.  `QuietInv` is what holds without
  an overlap: at most one stop is under way for a process, and how far it has come
  agrees with the operating system and with what was told.  `SettleInv` is the first, and the
  second where `bgRace = {}`.
- `OnlyExitsWake == BgSpec => WakesRight`, an action property, from the same
  invariant.
- `OneInstanceEach == McpSpec => []McpOK` for any sessions, events
  and bounds (`McpAssumption`).  `McpInv` adds to it where a call's process comes
  from (`Uses`): one that is being greeted is not in the map, and its session holds
  the lock.
- `NeverStale == CacheSpec => []CacheOK` for any readers and commands
  (`CacheAssumption`: the commands are finitely many, since the versions of the
  state are numbered by them).  `ReadingsRight`: what is in the cache, in the hands
  of a reader or stored has the effect of every command that had invalidated when
  it was stored, and every change from before the instant it is stored with.
- `SavedAndSynced == "overlap" \notin UNION Trips => (HubSpec => []SyncOK)`
  (`HubAssumption`: finitely many uploads, whose names are not those of handlers).
  Without overlaps one saver at a time has a document in its hands (`Alone`) and it
  is `session.json` with one field changed (`ViewsRight`); each writes to a file of
  its own or to the one that a crash has left, never to `session.json` itself
  (`FilesRight`); a push that is on its way will bring the bucket up to date
  (`TimersRight`).  `SharedTmp` and its neighbours in the table show what overlaps do.

Only model-checked:

- all liveness (`QueuedIsServed`, `TurnsEnd`, `CoordinatorHears`, `AgentsSettle`,
  `ServicesSettle`), which is beyond the prover.

## Not modelled

| part | why |
|---|---|
| inference client (`inference.rs`, `anthropic.rs`, `chatgpt.rs`, `providers.rs`) | `TurnLoop` and `Subagent` see it as one call that answers, fails or observes the cancelled token; its retries and account rotation are loops over HTTP responses without shared state, the wire formats conversions |
| coder accounts (`auth.rs`) | OAuth against external services and a token file |
| coder tools other than background processes | edits, searches and fetches, which change no state of the coder |
| coder events and summaries | data types and prompt text |
| workspace host, worktrees (`host.rs`, `worktree.rs`) | sequences of git and file-system commands, whose states are git's |
| formatting, pre-save, search, forge, next edit | sequential external commands and queries |
| app services | RPC handlers over the crates above; those that load and save `session.json` are the handlers of `HubSync`, the file watcher is `FileWatch` |
| bridge pairing, TLS, discovery | single-use codes and tokens in files; the effect of a revoked token is in `Bridge` |
| containers (`lifecycle.rs`, `compose.rs`) | podman and docker through their command line; their effect on the cached status is in `StatusCache` |
| desktop shell, desktop UI, companion views | windows, menus, stores and views; `TurnLoop` keeps the queued rows, `Subagent` and `DetachedTasks` the cards, `Attach` the window's card, `Buffers` an open file, `FileWatch` the tree |
| Slack client, protocol types, images, scripts, design documents | an HTTP client; no behaviour of their own |

Of the parts that are modelled, these operations are left out: in the turn loop
compaction, revert and resume (they are in `Transcript`, with one turn at a
time), session deletion (in `DetachedTasks` and `SessionLog`), `Error` and `Usage`
records; in the fleet the control tools' own gates (steer, abort, commit, merge,
respond), the notice of a user's message to a worker, the header stamp; the
review sub-agents and workflow presets; search over sessions and the migration of
old records; the image budget and token estimates; the routing of a language to
its container and the translation of results; the tunnelled transfers of an
attached desktop; the companion's pairing and device list; a terminal's output and
the terminals a user opens; exclusions and symbolic links of the watcher, its `.git`
watches and the status of the tree's rows; views other than the editor.
