# A TLA+ verification of RiscDom

RiscDom lets an AI agent work inside a QEMU RISC-V sandbox while a host outside of
it records everything in an append-only, hash-chained audit log.  Nodes form
workgroups around a centre; a node may stand in for a lost centre and deliver what
it recorded meanwhile.  The constitution of the project rests on the log ("the
audit log lives outside the AI: append-only, cannot be disabled"), and the parts of
the code that are hard to test are the ones that keep this log right across
threads, processes, crashes and lost messages.  The same holds of what surrounds the log: machines and their ports, runs, requests,
tasks, files and keys are handled by several threads and processes at once.  The modules
here model these parts, TLC checks them on small instances, and TLAPS proves the central
claims for all instances.

- [1. Inventory](#1-inventory)
- [2. The modules and the code](#2-the-modules-and-the-code)
- [3. Runs: what is checked, bounds, fairness](#3-runs)
- [4. Theorems](#4-theorems)
- [5. Where code and documentation disagree](#5-where-code-and-documentation-disagree)
- [6. What is not modelled](#6-what-is-not-modelled)
- [7. Plan](#7-plan)

`PROJECT.json` holds the machine-readable side of this: the components, the runs with
their properties, mutations of the model that each property catches,
the lines of `src/` each definition stands for, the hazards and the theorems.

## 1. Inventory

Sources are relative to `src/`.  "Hard" says what makes a component difficult to
test; "correct" what has to hold.

| component | state | operations | hard | correct |
|---|---|---|---|---|
| **audit hash chain** `audit/src/store.rs, hash.rs, event.rs, sink.rs` | table `audit_events` (append-only triggers), SQLite's write lock | `append`, `append_with`/`append_once`, `last_hash`, `verify_chain` | several threads and processes on one file, a retry budget, crashes inside a transaction | one chain, no fork, nothing lost or doubled, an answer for every append, an edit is seen |
| **opening an audit file** `audit/src/store.rs` | schema version, tables, columns, WAL mode | `open_with`, `init_schema`, `migrate_*`, `add_column_if_missing` | two processes migrate the same old file, a crash halfway, a newer file | an opened file is complete, a newer file keeps its schema, opening ends |
| **audit segments** `audit/src/store.rs, segment.rs` | table `segments` beside the chain, a store per delivered segment | `open_segment`, `close_segment`, `adopt_segment`, `merge_segment` | five writes per merge with a failure or crash after each, other writers | nothing is transcribed twice, "merged" means all of it, the table never runs ahead of the chain |
| **liveness and takeover** `net/src/liveness.rs, suppression.rs`, `host-core/src/state.rs` (`Probe`, `SuppressionTicker`) | per node: misses, witness table, suppression machine, the `takeover_heard` slot, the standing segment | probe round, reports, `observe`, `confirm`, `maybe_stand_in`, takeover frames, `react_to_centre` | two threads per node, stale reports, links that fail one by one, restarts | no takeover on one suspicion, no two rivals that know each other, a node that yields closes first; takeover and return happen |
| **segment delivery** `host-core/src/state.rs` (`open_temporary_segment` ... `receive_segment`), `net/src/suppression.rs` | the span of a segment, the frames in flight, the centre's inbox | cut, stream, collect, rebuild, verify, merge or refuse | frames lost or overtaken, old builds, restarts, other writers | only whole deliveries are checked off, a refused one stays out, an intact one is not refused, every stream is answered |
| **replay protection** `net/src/replay.rs, sign.rs` | per peer a high-water mark and the bodies at it | `accept` | repeated, delayed, reordered frames, clocks that are off | at most once; refuses only what is old or the same; no peer locks itself out for ever |
| **relay server** `net/src/relay.rs, liveness.rs` | sessions, online table, witness table, replay guard, registry, digests, key events | `serve_connection`, `route`, `bind`/`unbind`, `answer_local`, `judge`, `fire` | a thread per connection, one lock per table, a guard held during a write | the session is the newest, each judgement and recovery is told once, nobody waits for ever |
| **relay client and transport** `net/src/relay.rs, transport.rs, message.rs`, `host-core/src/state.rs` (`Heartbeat`, `Probe`, `DigestLoop`) | the client's one session and its lock, half-read frames | dial, register, beat, read, send, stop | three loops share a session, one of them reads; a server that restarts, cuts | frames leave in the order they were signed in, a node comes back, calls and stops end |
| **registry, discovery** `net/src/registry.rs, peers.rs, discovery.rs, relay.rs` | `peers.json`, the server's tables and generation | `set_peers`, `set_rooms`, `registry`, `merge_table`, `merge_rooms` | three tables under a lock each | keys follow the table, moves are reported, local entries win |
| **rooms** `net/src/rooms.rs, discovery.rs` | budgets per member and room | `admit`, `consider_announcement` | windows, clocks set back, restarts | two budgets at most per window, nobody pays for another |
| **connection files** `net/src/versioned.rs, identity.rs`, `host-core/src/connection.rs` | `node.key`, `peers.json`, `rooms.json` | load or create, start client and server role | several processes start on one directory, a crash, a deployer who edits | one key, announced; what is missing is told |
| **task dispatch** `net/src/task.rs`, `host-core/src/dispatch.rs, executor.rs`, `agent/src/dispatch.rs`, `worker/src/` | executors, the map of replies, children | dispatch, run, reply, time out | a timeout racing a late reply, a reader that runs tasks itself | an answer is the answer to this task, no worker outlives it, every dispatch returns |
| **run index** `audit/src/run.rs`, `store.rs`, `host-core/src/state.rs` | table `runs`, `current_run_id` | `begin_run`, `finish_run`, `abandon_stale_runs`, `rebuild_runs` | crashes between event and row, two processes | the index is what the chain says |
| **sandbox requests** `host-core/src/sandbox_request.rs`, `state.rs` | the queue | ask, decide, remove, restore | restart, decisions of another node, reused ids | decided once, never lost, never contradicted |
| **VM slot** `host-core/src/state.rs` | slot, active definition, run in flight, switch slot | switch, run, save, resume, VM tools, badge | a run that begins during a switch | no process is lost, a switch is all or nothing |
| **instances** `host-core/src/state.rs` | the instance table | spawn, stop, reap | shared handles, restarts | every instance is explained, an open record has its machine |
| **QEMU process** `sandbox/src/vm.rs, relay.rs, qmp.rs` | leases, process, snapshot threads | lease, spawn, connect, save, resume, stop | a port between its lease and QEMU's bind | no port twice, up talks to its own |
| **downloads** `host-core/src/qemu_download.rs, toolchain_download.rs` | the download slot, the staging directory | begin, cancel, finish, install | cancel against finish, two processes | told, whole, one at a time |
| **sessions** `host-core/src/session.rs`, `state.rs` | session store, current session per executor | open, migrate, create, delete, load, persist | two runs, a crash in the migration | a turn is stored where it belongs |
| **settings, preflight** `host-core/src/settings.rs, preflight.rs` | live slots, cached settings, the file | set, save, load, check | threads that save at once, a newer file | the file is what the node works with |
| **model configuration** `host-core/src/keyring.rs`, `state.rs`, `agent/src/config.rs` | configuration, keyring, flag | set, clear, restore, build | three stores that fail one by one | a key goes to its owner only |
| **agent loop** `agent/src/agent.rs, tools.rs, policy.rs, audit_hook.rs` | history, iterations, workspace | turn, tool call, refuse | iteration cap, a host that stops the machine, a cut history | every call is answered and recorded, a turn ends |
| **compiler driver** `agent/src/compiler.rs, tempdirs.rs` | scratch directories | resolve, build, sweep | builds side by side, old directories | own directories, the chosen compiler |
| **backup** `backup/src/` | the package being made | export, open | a node that writes meanwhile | whole or refused |
| model client `agent/src/llm.rs, sse.rs`, audit tools, CLI and SDKs `cli/`, `sdk/`, workspace files, QEMU discovery | none that lasts | | | |

**Interaction.**  All host components write to the chain through one
`Mutex<AuditStore>` per process; several processes (desktop, workers, control plane)
may have the same file open (`docs/multi-agent-foundation.md`).  On a node that is
part of a workgroup the *probe thread* reads the socket, probes the centre and the
peers and publishes what it sees in shared slots; the *ticker thread* reads these
slots every second, drives the suppression machine, opens and closes segments, and
delivers them.  On a centre the probe thread also receives segments.  The relay
server has a thread per connection; its judgements reach the host through a sink that
appends to the chain.

## 2. The modules and the code

| module | models | read together with |
|---|---|---|
| `AuditLog` | what the log promises: an append is requested, takes effect at most once, and is answered | |
| `AuditChain` | the append path and `verify_chain` | implements `AuditLog` |
| `AuditOpen` | opening and migrating a file | |
| `AuditSegments` | segments and their merge | takes `append` as atomic, as `AuditChain` shows |
| `Takeover` | probing, witnesses, the suppression machine | |
| `SegmentDelivery` | a segment's way to the centre | its `Merge` step is `AuditSegments`'; its open and close are where `Takeover` changes `held` |
| `ReplayGuard` | `ReplayGuard::accept` | |
| `RelayServer` | the server's threads and tables | the frames that pass the guard are `ReplayGuard`'s matter; its tables are replaced in `Registry` |
| `NodeSession` | the node's end of the same connection | |
| `Registry`, `Rooms`, `ConnectionFiles` | what nodes know of each other, the budgets of rooms, and the files both start from | |
| `Dispatch` | tasks handed to an executor, here or on another node | |
| `RunIndex` | runs on the chain and in the index | an append is atomic, as in `AuditSegments` |
| `SandboxRequests` | questions to the owner and their answers | merged rows come the way of `SegmentDelivery` |
| `HostSandbox` | the VM slot of a node | a VM is up or dead; what it does is `VmProcess` |
| `SandboxInstances` | the table of further instances | |
| `VmProcess` | one QEMU process, its ports and its snapshots | |
| `HostSettings`, `LlmConfig` | the settings file and the preflight; the model's configuration and key | |
| `Sessions`, `AgentLoop` | conversations; turns with their tool calls | both use `ContextWindow` |
| `ContextWindow` | `trim_context` | |
| `Compiler`, `Downloads` | builds and the toolchains they use | |
| `Backup` | export and opening of a package | |
| `AuditChainProofs`, `TakeoverProofs`, `ReplayGuardProofs`, `SessionsProofs`, `RelayServerProofs`, `HostSandboxProofs`, `VmProcessProofs` | theorems of the module they are named for, see 4 | |
| `NodeProofs` | theorems of `NodeSession`, of `Dispatch` and of `RunIndex` | |
| | further: in `AuditChainProofs` of `AuditOpen` and `AuditSegments`, in `TakeoverProofs` of `SegmentDelivery`, in `ReplayGuardProofs` of `Rooms` and `Downloads`, in `RelayServerProofs` of `Registry` and `SandboxRequests`, in `HostSandboxProofs` of `Compiler`, in `VmProcessProofs` of `SandboxInstances`, `ConnectionFiles` and `HostSettings`, in `SessionsProofs` of `Backup`, `LlmConfig` and `AgentLoop` | |
| `MC...` | instances for TLC, see 3 | |

Every module states its specification and its properties; where no type invariant is
checked, the typing is part of the inductive invariant of the proofs.  A module's
safety properties are collected in one invariant (`SegmentsInv`, `DispatchInv`,
`KeysInv`, ...) whose conjuncts are the named properties, so that one line of a
configuration checks a component and the conjunct tells which promise broke.  A property
whose name begins with `Alone` is about a state in which no other actor has interfered
since the operation began; a history variable says so, and section 5 says what happens
otherwise.

**AuditChain.**  A process is one connection.  `CallAppend` enters `append_with`;
`BeginImmediate`, `ReadHead`, `Insert`, `Commit` are the statements of `append_once`,
each a step that another process can come between; `LockBusyRetry` and
`LockBusyGiveUp` are the loop with its budget; `StorageError` the other errors;
`Crash` and `Restart` a process that dies anywhere.  A hash is ideal: it *is* the
sequence of the events it covers, so `compute_hash` is injective, and "the hash
recomputes" keeps its meaning without SHA-256.

**AuditOpen.**  `Plan` is the list of statements `init_schema` executes; each is a step
(`CreateTable`, `ColumnExists`, `AlterTable`), between which another process can do
the same.  The initial files are those that earlier builds left behind, an empty one
and one from a newer build.  `LockError` is the retry loop of `open_with`.

**AuditSegments.**  Every write is a step of its own: the two reads of the anchor, the
row, the event, the undo (`OpenReadHash` ... `OpenDeleteRow`), the close with its
undo, and of a merge the scan, each transcribed event, `segment_merged` and the final
update of the row.  `WriteFails`, `CopyFails`, `MergeAppendFails` fail any of them;
`Crash` ends the operation anywhere.  `shared` says whether other processes write the
file too (`OtherAppend`); properties that need the host to be alone say so with it.

**Takeover.**  Per node one action per thread: `ProbeRound` (probe, count, report to the
peers, publish), `TickerPass` (the whole body of the ticker's loop: yield and close, or
observe, confirm, back off, stand in, broadcast, open the segment), `ReceiveTakeover`
(a frame fills `takeover_heard`), `Restart`.  Time is a count of probe intervals; what
the code keeps as an instant is kept as its age.  A probe round publishes its two
slots in one step; the code takes two locks one after the other, and the ticker that
reads between them sees what it would have seen a moment earlier in one and now in the
other.  `backed` is a history variable: who reported the centre down since the node
waits.  Link failures are `Flip`; `Outages` says which links fail together.
`SiblingTakeover` is a takeover frame about another centre; it is only in
`SiblingSpec`.

**SegmentDelivery.**  The owner: `OpenSegment`, `ReadOpenedId`, `CloseSegment`,
`ReadClosedId`, `CutSpan`, `Send`; a store that fails at any of them is `StoreFails`.
The network: `Lose`, `Overtake`.  The centre: `ReceiveEvent`, `ReceiveDone`, `Rebuild`,
`Judge` (the three checks of `receive_segment`: count and head, linkage, anchor) and
`Merge`, with `AdoptFails`, `RebuildFails`, `CentreRestart`.  `carries` is the owner's
build: older ones send no lengths, hashes or anchors, and the checks are then skipped.
Appends by `record_host_event` are taken as recorded.

**ReplayGuard.**  `Accept` and `Refuse` of one message with any timestamp in reach; the
window, the mark and the set at the mark are the code's three conditions.  A frame may
arrive any number of times.  The receiver's clock does not go back.  Signatures are
ideal: what does not verify never reaches the guard.

**RelayServer.**  `thread[c].at` is where the thread of connection `c` is in
`serve_connection`.  Each call on a table is a step, since each takes and gives back
the table's lock; the replay guard stays held from `RouteCarry` to `Push` or
`PushFails`.  A judgement is three calls (`Judge`, `MarkJudged`, `Fire`), a recovery
two or three.  Rows and reports leave their windows at any time (`RowAges`,
`ReportAges`), which over-approximates the clock.  `JudgedGone` reads all witnesses at
once where the code asks the online table once per witness: a row that ages in between
gives an outcome that an earlier or later reading gives too.

**NodeSession.**  Three threads of the host (`beat`, `probe`, `digest`) call the one
client.  `TakeLock` is `with_session` taking the lock and signing; `Calls` is the step of
the call that holds it: dialling (`Dialled`), registering, writing, or reading with its
time-out (`ReadTimesOut`), and `Failed` forgets the session.  `BeatDecides` is the top of
the beat's loop, `ProbeWakes` and `DigestWakes` the others'.  `ServerReads`,
`ServerPushes`, `ServerStops`, `ServerStarts` and `Cut` are the other end and the
network; frames come in up to two pieces.  The history variable `late` says that some
frame was written after one that was signed later; nothing in the actions but the lock keeps
it false.

**Registry.**  `SetPeers`, `WriteTable`, `WriteKeys`, `Advance` are `set_peers` under its
three locks, `RouteFrame` and `RouteWithKeys` a session that judges a frame by the table
and then by the keys, `AskRegistry` and `Publish` the two halves of a published registry,
`Merge` what the node does with it (`merge_table`, `merge_rooms`).

**Rooms.**  `Admit` is one message with the budget of its member in its room, `Tick`,
`SetBack` and `Restart` are what happens to the count meanwhile, `HearAnnouncement` is
`consider_announcement`.

**ConnectionFiles.**  A process goes through `load_connection_files` step by step
(`Starts`): the exclusive create of `node.key` and its write are two steps, so a second
process may come between them and a crash may leave a torn file.  Then peers, rooms, the
client and the server role, each of which may be missing and is then reported.

**Dispatch.**  A call is an attempt; `DispatchTask` looks the executor up,
`DispatchLocally` runs the child over its lines, `SendTask`/`TakeReply`/`TimeOut` are the
asking side of a remote task and its poll of the reply map.  `Handle` is the reader thread
of the other node, which runs the task itself before it reads on; `ChildAnnounces`,
`ChildAnswers` and `ChildExits` are the worker.  Frames may be lost, ids may be chosen
twice.

**RunIndex.**  `BeginRun` is the event, `IndexStart` its row; `FinishRun` and `IndexEnd`
likewise, and a process may die between.  `Boot` calls `abandon_stale_runs`, whose reading
and marking are steps (`AbandonDerive`, `AbandonMark`).  `Derive` is the fold of
`derive_runs` over the chain, a recursive function as in the code's loop.

**SandboxRequests.**  An operation changes the queue first and writes its row later
(`WriteRow`, with the outcome of the append and of the message); `Crash` and `Boot` with
any process id, since ids are made of it; `MergeSegment` and `PeerDecision` are what comes
from another node.  `DeriveRequests` and `Restore` go through the rows and the records once,
as `derive_requests_from` and `restore` do: recursive functions, compared in `RecordsAreTheChain`
with `Said`, the first decision behind the first ask.

**HostSandbox.**  A thread inside an `AppState` operation stands at `pc`; every step is
what happens under one lock: the switch (`SwitchCheck`, `StopClear`, `SwitchRecord`, ...),
the run (`BeginRun`, `FinishRun`), the restore (`RestoreStop`, ...), the badge
(`vm_is_running`) and the VM tools.  `GuestDies` kills the process at any time.  A run's
id is a fresh UUID (`new_run_id`), so a call never holds the id of another call's run; the
model names a run by the call that began it.

**SandboxInstances.**  `Register` is the table, `SpawnStarts` the VM, `SpawnRow` the chain;
stopping takes the instance out of the table, empties its slot and writes its row.  A
handle is shared, so a run (`RunBegins`) keeps a machine alive that the table has
forgotten.

**VmProcess.**  A lease holds a listener (`LeaseControl`, `LeaseIncoming`), is handed off
(`HandOff`) before QEMU binds (`QemuBinds`), and its number stays reserved; `OtherBinds`
is another program.  `SenderConnects` feeds a snapshot in, `SaveBegins` ... `SaveEnds`
take one out through the receiver thread, `QmpReset` and `QemuDies` interrupt them.

**HostSettings.**  A setter changes the live slot and the cached settings, then
`Snapshot`, `Truncate`, `WriteOut` are `save_settings` under the lock and outside of it.
`LoadSettings` migrates, with or without its backup.  The preflight takes a fingerprint,
looks (`CheckGcc`, `CheckQemu`) and files its result under the fingerprint.

**LlmConfig.**  `SetConfig`, `SaveKey`, `PersistConfig`, `StoreMemory`, `SetFlag` are the
steps of a save; `ClearConfig` ... of a clear; `LoadStoredKey` and `PairKey` of the
restoration from the keyring with the migration of an older build's entry.  The keyring
may refuse each call.

**Sessions.**  `OpenCopies`, `OpenAlters`, `OpenStamps` are the migration; `RunEnsures`,
`RunForgets`, `RunCreates` are `ensure_session` under its two locks; `RunLoads` counts and
loads the history, `RunIterates` adds to it and trims, `RunPersists` stores.

**AgentLoop.**  One action per reaction to the model's answer and per tool; a turn is
`Turn`, refusal `RunRefused`; `GuestPrints`, `VmDies` and `HostStops` act between two
polls of a waiting read (`Poll`).

**Compiler.**  `Begin` resolves the compilers from environment, settings, definition and
`PATH` (`Resolve...`, `NodeConfig`), `WriteFiles` makes the scratch directory, `Spawn`,
`Exit` and `GuardExpires` are the compile under its guard, `CleanUp` removes the directory;
`StartHost` sweeps, `Day` lets directories age.

**Downloads.**  `Work` is the worker's next step through fetch, verify, unpack, install,
adopt; each looks at the cancel flag where the code does.  Two processes share the staging
directory, and `Crash` leaves it as it is.

**Backup.**  The node writes (`WriteFile`, `CommitRow`, `ForgetKey`) between any two steps
of the export; `CollectFile` reads for the manifest, `AppendFile` for the archive.

## 3. Runs

Components are checked in groups, to keep the runs few.  In a grouped run (`MCAudit`,
`MCReturns`, `MCPeers`, `MCMachines`, `MCHost`, `MCServices`) the variable
`focus` is chosen initially and never changes: a behaviour plays one module completely and
the others rest in an initial state, so the states are the sum of the modules' and not
their product.  No claim is made there about how these modules interact; where components
do interact, one module holds both sides (`HostSandbox`, `Dispatch`, `Takeover`,
`SegmentDelivery`, `SandboxRequests`, `NodeSession`).

| run | instance | distinct states | shows |
|---|---|---|---|
| `audit` | chain: 2 processes, 2 events, 2 attempts, 3 rows; opening: 2 processes, files of every earlier version and a newer one; delivery: 4 builds, chain of 7; segments: one opened here, one delivered, 2 events, chain of 4, deliveries of 2 | 518,864 | `ChainIntact`, `TamperEvident`, `ChainInv` (inductive), `ImplementsLog`, `OpeningInv`, `NewerSchemaKept`, `DeliveryInv`, `SegmentsInv`, `PartialIsFrozen`; `CallsReturn` |
| `takeover` | 2 nodes and a centre, each link fails by itself | 1,576,464 | `TakeoverInv` (inductive), `NeverOneSuspicion`, `RivalsAreStrangers` |
| `returns` | the centre fails and returns as a whole; 2 dispatches with 2 ids, local and from another node | 232,584 | `PromisesAreKept` (a lost centre is stood in for, a returned one yielded to, a dispatch returns), `DispatchInv` |
| `peers` | guard: 2 peers, 2 bodies, window of 1 on both sides; 2 deployers or sessions, peer and room files that disagree; 2 members and 2 rooms; 2 nodes with 2 pids; 2 processes with 2 runs | 1,216,109 | `GuardIsFair`, `RegistryInv`, `RoomsInv`, `RequestsInv`, `IndexInv` |
| `relay_server` | 2 nodes, 3 connections, 4 frames | 249,339 | `SessionIsNewest`, `JudgementsInv`; `EveryFrameEnds` |
| `node_session` | beat alone, with the prober, with the digest; 1 stop, 1 cut | 67,592 | `SessionInv`; `AloneComesBack`, `ThreadsReturn` |
| `host_sandbox` | 2 threads, 2 definitions, 2 machines, 2 operations, 1 refused row | 954,408 | `SlotInv`, `AloneIsWhole`; `SwitchSlotReturns` |
| `machines` | 2 VMs, 3 ports, 3 starts; 2 instances; 2 request threads; 2 processes on one directory | 1,115,742 | `MachineInv`, `InstancesInv`, `SettingsInv`, `FilesInv` |
| `host` | 2 hosts with 2 pids and 2 builds each; an export with 2 changes under it; 2 executors and 3 sessions; 2 request threads on 2 executors | 733,015 | `BuildsInv`, `PackageInv`, `ConversationsInv`, `KeysInv` |
| `services` | caps 0 and 2, 2 calls an answer, 9 kinds of calls; 2 processes that download | 167,439 | `LoopInv`, `DownloadsInv`; `WorkEnds` |
| `audit_segments_fork`, `session_trim` | | | a counterexample each: see 5 |

**Why the bounds are enough.**  *Chain*: two attempts are the smallest budget with both a
retry and a give-up; three rows have a first, a middle and a last one, which is what
`verify_chain` tells apart.  The theorems of section 4 remove these bounds.  *Opening*,
*connection files*, *downloads*, *run index*: races are between two processes that do the
same statements; a third adds no new pair.  *Segments*: two events let a delivery repeat
itself, conflict with the main chain at its first or its second event, or not at all; a
chain of four has room for an interrupted merge, its retry and a row in between.
*Takeover*: two nodes are each other's only witness, the tightest case; larger workgroups
are covered by the proofs.  *Delivery*: seven rows are a row before, the opening, up to
three events, the closing and one after.  *Guard*: proved in general.  *Relay server*: four
frames are two registrations, a judgement and a recovery; two connections of the judged
node are needed for a session that is replaced.  *Node session*: one stop or cut may come
at any step; the beat with one further thread is every pair that shares the lock.
*Dispatch*: two attempts are a late answer and the call that could take it for its own.
*VM slot*: two threads in any two operations; more machines than slots are enough to lose
one.  *Ports*: three for two machines, so one may be taken by another program and a
snapshot have its own.  *Builds*: a removed executable
and a killed host do not meet (one is about what is found, the other about scratch
directories), so no behaviour has both.  *Agent loop*: a window of four with two kept is the smallest in
which a cut falls between a call and its result.  *Requests*: a node that reuses a process
id needs two ids and one restart.

**Deadlock** is checked where a component never stops (`audit`, `takeover`,
`relay_server`).  In the others a bounded behaviour ends when the bounds are used up and
everybody is idle, and the configurations say `CHECK_DEADLOCK FALSE`; that nobody waits for
ever is then what `CallsEnd`, `StopsReturn`, `DispatchReturns`, `SwitchSlotReturns`,
`TurnReturns` and `SlotComesFree` say.

**Symmetry** is used in `peers`, `machines` and `host` for executables, ports, threads or
ids that are interchangeable there; these runs have no liveness property.

**Fairness.**  Weak fairness everywhere means: a thread inside a call goes on, since the
code waits for nothing but locks and calls that end.  `AuditChain`, `AuditOpen`: each
process's own next step; SQLite answers busy or grants the lock.  No fairness of callers,
crashes or errors.  `Takeover`: time passes, and the probe thread, its reader and the
ticker are loops over a timer; in the live run every thread runs once per unit of time.
`SegmentDelivery`: the centre's own steps, since its reader is a loop.  `RelayServer`: a
thread's work on what it has read, since a write ends with the write timeout
(`net/src/transport.rs:325`).  `NodeSession`: the threads' own steps, and strong fairness
of taking the client's lock and of the beat's decision: a waiting thread is not passed over
for ever; the server is fair once it is up, cuts and stops are not.  `Dispatch`: local
steps, the deadline, the reader and the exit of a child that has answered; no fairness of
frames or of the child's work.  `HostSandbox`: each thread's step.  `AgentLoop`: the turn,
not the guest or the host.  `Downloads`: the worker.

**Mutants.**  For every property of a passing run, and for the conjuncts of the grouped
ones, `PROJECT.json` names a changed definition (in the modules with the comment
`mutant:`) that a plausible slip in the code would give, and under which TLC finds that
property violated.

## 4. Theorems

TLAPS proves, for every value of the constants that satisfies the named assumptions:

| theorem | of | argument |
|---|---|---|
| `ChainInvariant` | `AuditChain` | `ChainInv` is inductive: the process between `BEGIN IMMEDIATE` and the commit is the one holding the lock (`LockHeld`), and the head it read is still the head (`HeadCurrent`).  `ChainIntact` alone says nothing about a head that is about to be used and is not inductive. |
| `ChainAlwaysIntact` | | from `ChainInv` |
| `StoreImplementsLog` | | the refinement mapping takes the rows to their events and a writer's place to requested, accepted or answered; the commit is the step that accepts, every other step stutters or answers |
| `TakeoverInvariant` | `Takeover` | `TakeoverInv`: a fresh report of "down" is from somebody in `backed` since the wait began (`FreshIsBacked`, which needs `REPORT_WINDOW < SUPPRESSION_WAIT`), who stands in is first in line (`StandsInFirst`), and takeover frames come from ahead in line (`FramesFromAhead`) |
| `NothingOnOneSuspicion` | | no node gets past the wait on its own view only |
| `RivalsNeverMeet` | | two nodes standing in at once do not both list each other |
| `YieldingClosesFirst` | | a node that does not stand in holds no segment, while takeover frames name its own centre |
| `DeliveriesAreWhole` | `SegmentDelivery` | `DeliveryIInv`: every frame, wherever it is, is one of the stream of the span that was cut; there is one end frame, and nothing is left to take after it (`OneEnd`), so the list the centre judges is one of this stream's frames (`Judging`); as long as nothing was lost, the frames received and those on their way are the stream (`Intact`); on a chain only its owner writes, where the segment lies (`OwnChain`).  That a sorted list with every position of the count is the span is shown of `ByIndex`, by the least place where it would not be (`Listed`, `Verified`) |
| `GuardInvariant` | `ReplayGuard` | the mark is the highest accepted timestamp and the set is what was accepted at it (`RecordIsHistory`) |
| `NoMessageTwice`, `RefusalsAreJust`, `MarksStayInReach` | | from `GuardInv` |
| `GuardStaysFair` | | the conjunction of the above, as the run `peers` checks it |
| `BudgetsAreOwn` | `Rooms` | `RoomsIInv`: what a budget has counted was accepted since its window began (`Paid`); while the clock does not go back, what was accepted in a window lies within it and is what the budget counts, and the window before it accepted one budget at most (`Windows`, `Twice`) |
| `DownloadsAreSettled` | `Downloads` | `DownloadsIInv`: a slot is held exactly while its worker is under way, and an early cancel is still in the slot or was obeyed (`SlotsHeld`); while no two processes have shared a family, what its one worker has verified and unpacked is what the files say (`FilesHeld`); start rows are end rows, deaths and workers under way (`RowsSettle`) |
| `ChainIsTamperEvident` | `AuditChain` | in a chain that is intact, the first row that differs from what was written, drops out or changes places no longer recomputes or no longer follows its predecessor, and every row before it still does; hashes being ideal, no other row can repair it |
| `RelayShape` | `RelayServer` | what a thread holds at each place, and that the replay guard is held exactly while a frame is pushed |
| `SessionIsTheNewest` | | needs that `last` is a connection of the node itself (`LastIsOwn`), so that a thread that unbinds can tell its own entry |
| `JudgementsAreWitnessed` | | needs that a thread about to mark a row still has its witness in the tables (`MarkingWitnessed`) and that marks handed out and being handed out add up (`TransitionsMatchRows`) |
| `NewestIsInForce` | `Registry` | `RegistryIInv`: no registry is handed out with a number above the generation, and between an edit and its new number nothing is claimed of the last one (`CurrentWhenSettled`); a caller that is alone has brought the keys as far as its place says (`KeysAlone`).  States `TypeOK`, `AloneKeysFollow` and `LatestIsCurrent` of `RegistryInv` |
| `OwnFilesWin` | | all of `RegistryInv`: what is merged was handed out, made of files the server had let in (`MergeKnown`); a merge leaves the local entries in front and adds, entry by entry, those nobody here has (`Pushes`), so the first entry of a name is the local one, or the only published one |
| `AsksOutliveRestarts` | `SandboxRequests` | `RqInv`: every id anywhere was handed out (`IdsSeen`), so a new one is met nowhere; whoever is named as decider took the decision (`DecidersTold`); an entry of a node's own ask agrees with the chain, or its one outstanding row will make it agree (`OwnHolds`); a node that has told its verdict has no pending entry to decide again, and its row is written or will be (`ToldOnce`); an open ask on the chain is queued (`AsksQueued`).  What one more row does to `Said`, and what `DeriveRequests` and `Restore` return, is proved from a least counterexample (`Longer`, `Untouched`, `RecordsHold`) |
| `SlotIsSound`, `LoneCallIsWhole` | `HostSandbox` | `IInv`: each machine and each run has exactly one holder (`SlotPart`, `RunPart`), the last row is the current sandbox, and for a call that no other call has come between, what the slot, the badge and the row say at each of its places (`AloneKnows`) |
| `MachinesStayApart` | `VmProcess` | `IInv`: at each place of a start, a save or a sender, who has bound which of its ports (`Known`), and the registry is the disjoint union of what the handles reserve (`Registry`).  A step of one handle leaves the ports of the others alone (`Spares`), so it is proved for one handle at a time |
| `FramesLeaveInOrder` | `NodeSession` | one thread at most is inside a call and has the lock (`OneCalls`), so nobody signs between the signing and the writing of another's frame (`InOrder`) |
| `AnswersHold` | `Dispatch` | `TaskInv`: what an answer says of its dispatch is so wherever the answer is, in the result, in a frame or in the reply map (`Sound`); a task is on its way once and only to a run that has not begun (`Formed`); a run that shares its handle with nobody finds only its own lines after the mark (`KeepsToItself`) |
| `OpenedStoresAreComplete` | `AuditOpen` | `OpenIInv`: what each process has executed of its plan is in the file, whoever did it, and statements are never undone; a file that a process is migrating is no newer than this build; an opening fails only when its retries are spent |
| `NewerFilesAreKept` | | from the same invariant: only a process that migrates changes the file, and what it migrates is not newer |
| `SegmentsAgree` | `AuditSegments` | `SegIInv`, of the segments of others (`TheirKnown`), of the merge under way (`MergeKnown`) and of the host's own (`OwnKnown`): a scan that finds no conflict shows that none of the segment's events is on the chain, so while nobody else merges, the counter of the transcription is the number of its events on the chain; only then can "merged" mean all of it and nothing come twice |
| `PartialMergesAreFrozen` | | from the same invariant: a merge under way is of a segment that is not partial |
| `TableMatchesHistory` | `SandboxInstances` | `InstIInv`: an id that has left the table does not come back, and what was recorded in this life and not reaped is in the table or about to be reaped |
| `PackagesAreWhole` | `Backup` | `BackupIInv`: what the tool has listed, carried and reported at each place adds up to what it was asked for, and the copy of the audit store is held by an export that goes on, or by one that was killed (`CopiesAreHeld`) |
| `KeysStayWithTheirOwner` | `LlmConfig` | `KeysIInv`: the key a request carries is one its executor may have (`OpFits`); and while no two requests have overlapped there is one request, idle or not, such that what it has done and not yet done is all that memory, `settings.json` and keyring differ by (`LoneRequest`) |
| `TurnsAreWhole` | `AgentLoop` | `LoopIInv`: while a turn executes calls, one assistant's message stands open (`OpenAt`): it is followed by the results there are, in order, and as many calls are left as its number lacks, so the one the loop looks for is that one (`OpenIsAsked`); at every other place all messages are replied to.  A result stands in a row that begins behind its call or behind the notice of a cut (`ResultsInRows`), which `trim_context` keeps (`TrimKeepsTalk`) |
| `BuildsKeepApart` | `Compiler` | `BuildsIInv`: a build's directory bears the number of its process and one the process has counted (`DirsNamed`); as long as no process number has come back, a process meets no directory it has not made itself, so those of its builds are there and not old, and a sweep spares them (`DirsCounted`, `BuildsFresh`); what a build ran is what it was told to use (`Told`, `Ran`) |
| `OneDirectoryOneKey` | `ConnectionFiles` | `FilesIInv`: of every mint it is known what became of it: it is announced, its process is about to announce it (`PendingIn`), or another process was first with the file (`MintsKnown`); until the deployer puts a key there himself, the key on disk and the keys in hand are one; who has gone past the key has one or a problem to report (`StartKnown`); and the mints, with the processes that still may mint, stay within the bound (`KeysLeft`) |
| `SettingsSettle` | `HostSettings` | `SettingsIInv`: while no two requests have overlapped there is one, idle or not, such that what it has still to do is all that live paths, cached settings and `settings.json` differ by (`LoneSave`); an old file is in its place until the first start has copied it (`CopiedFirst`); every result, in memory, in a snapshot or in the file, is filed under what was run, and a check that nothing moved under runs the paths it read first (`ResultsHold`, `ChecksHold`) |
| `IndexTellsTheChain` | `RunIndex` | `RunsIInv`: per run the row the derivation gives is tied to the places of the run's markers (`RowHolds`), which one more marker changes for its own run only (`DeriveAppend`: `Derive` is the recursive function of the code, and what it says of a longer chain is proved from a least counterexample); the table and whatever a rebuild has read is backed by the chain; where a run's process stands tells which of its markers are there; and, while one process at a time works on the file, what a start has found is of processes that are gone and not yet marked (`AloneFinds`) |
| `ConversationsKept` | `Sessions` | an id is handed out once, so a pointer or a run that holds one cannot come to name another's session (`UsedOnce`, `RunsAreTheNodes`); while the old version is stamped only the migration has touched the file (`OldIsUntouched`) |

Assumptions (`ChainAssumption`, `TakeoverAssumption`, `GuardAssumption`,
`SessionsAssumption`, `RelayAssumption`, `SandboxAssumption`, `VmAssumption`,
`SessionAssumption`, `DispatchAssumption`, `OpenAssumption`, `SegmentsAssumption`,
`DeliveryAssumption`, `RoomsAssumption`, `RegistryAssumption`, `DownloadsAssumption`,
`BackupAssumption`, `LoopAssumption`, `CompilerAssumption`, `FilesAssumption`,
`RunsAssumption`, `RequestsAssumption`,
`FoundAreVersions`, `LocalIsAnExecutor`) only type the constants, keep the "none" values
apart from real ones and require at least one attempt, one miss and room for one row, a file named `settings` among those of a backup, the node
among the executors, and that the settings name files and not the bare names that discovery
falls back to. `REPORT_WINDOW < SUPPRESSION_WAIT` is 45 s < 60 s in the code, and
`CONTEXT_KEEP + 2 <= CONTEXT_MAX` is 32 <= 40; that the files of `Registry` are sequences is
what a parsed file is; that `Conn` is finite says that a server has
accepted finitely many connections, which the sums in `JudgementsInv` need, and that
`Editor`, `Procs` and `Process` are finite serves the counts of edits, downloads and mints
under way.  TLC evaluates all of them in the runs.

`AnswersHold` and the theorems of `AuditOpen`, `AuditSegments`, `SegmentDelivery`, `Rooms`,
`Registry`, `SandboxRequests`, `Downloads`, `SandboxInstances`, `ConnectionFiles`, `HostSettings`, `Backup`,
`LlmConfig`, `AgentLoop`, `Compiler` and `RunIndex` are about an instance of the component inside the
proof module, whose constants and variables are those of the component; the runs `returns`, `audit`, `peers`, `machines`,
`host` and `services` check the same invariants, and the assumptions, on their instances.

Every invariant and every action property of the runs has its theorem, the ones that are
proved of an instance included.  Only model-checked are `CallsReturn`, `PromisesAreKept`,
`EveryFrameEnds`, `AloneComesBack`, `ThreadsReturn`, `SwitchSlotReturns` and `WorkEnds`:
liveness, and whatever needs ENABLED, is out of the prover's reach.

## 5. Where code and documentation disagree

Two runs expect a counterexample; `findings` in `PROJECT.json` has the lines.

- `audit_segments_fork`: if the append of `segment_merged` fails, or the process dies
  before it, the next merge takes the transcribed events for a conflict and marks the
  segment forked (`store.rs:981`; the comment at 903 wants the opposite).
- `session_trim`: `pre_len` is counted before a turn, the turn trims the history, and
  `persist_turn` stores what lies behind `pre_len` in the shortened one: messages of the
  turn are not stored (`state.rs:7859`, against the comment at 5877).

The following are stated in the modules as formulas of what a comment says, and TLC finds
each violated when it is put in place of the group's property; the property that is checked
instead says what does hold.

| formula | says | but |
|---|---|---|
| `Takeover!HeldOnlyStandingIn` under `SiblingSpec` | a node that does not stand in holds no segment | a takeover frame about another centre makes it stand down without closing (`state.rs:1205`) |
| `SegmentDelivery!SpanIsTheSegment` | the span is the segment | with another process on the file the newest id is not the id of the row just written (`state.rs:1462`) |
| `RelayServer!ChainTellsRow` | the chain ends with what the table says | judgement and recovery on two threads may reach the sink in the other order (`relay.rs:1242`) |
| `NodeSession!ComesBack` | a node that lost its row registers again | when the prober redials first, the beat keeps `registered` (`state.rs:1047`, `relay.rs:407`) |
| `NodeSession!SendersDoNotWait` | reader and writer are locked separately | `with_session` locks the client for the whole call (`state.rs:1126`) |
| `NodeSession!ReadsBeginAtAFrame` | a connection that cannot deliver a frame in time is closed | `Heartbeat` and `Probe` take a time-out for "nothing there" and read on, in the middle (`transport.rs:43`) |
| `Compiler!NamedIsObeyed` | a variable that points nowhere is an error | the search for gcc goes on (`compiler.rs:181`) |
| `Compiler!DefinitionKeepsTheRest` | a definition keeps what it does not name | it replaces the node's configuration as a whole (`state.rs:7831`) |
| `Compiler!SweepSparesRunning` | nobody owns a directory after a day | a reused process number, or a build older than a day (`tempdirs.rs:24`) |
| `Backup!ManifestMatches` | the digest is of the bytes in the package | each file is read twice while the node writes (`backup/src/lib.rs:104`) |
| `Backup!KeysGoWithSettings` | the credentials are those of the settings in the package | the settings may have changed since the accounts were read |
| `LlmConfig!ReadyMeansRunnable` | a local model needs no key | `build_llm` wants one (`state.rs:6528`, against `README.md:88`) |
| `LlmConfig!RememberedIsStored` | the flag only moves for this node's own executor | every save moves it (`state.rs:6203`) |
| `Dispatch!OutcomeNamesItsExecutor` | the identity is looked up among the lines of this run | the supervisor's events are shared by the handle (`executor.rs:143`) |
| `Registry!KeysFollowTable`, `OneNumberOneRegistry` | keys never disagree with the table; a generation is one registry | three locks (`relay.rs:1283-1289`) |
| `Registry!DisagreementIsReported` | a disagreement is reported | only of keys and addresses (`discovery.rs:9`) |
| `HostSettings!ShownPassWasRun` | a change invalidates the preflight | one that was under way is filed afterwards (`preflight.rs:103`) |
| `HostSettings!DiskIsCurrent` | a later write cannot resurrect a stale copy | the write is outside of the lock (`state.rs:5635`) |
| `HostSettings!NewerIsNeverDowngraded` | a newer file is never downgraded | the first save does (`settings.rs:86`) |
| `SandboxRequests!AskSurvivesRestart` | no pending ask is lost by a restart | one whose row was refused or not yet written is (`state.rs:4588`) |
| `ConnectionFiles!MintedOnce` | the row is written by who minted | the file is looked for before the load (`connection.rs:118`) |
| `RunIndex!AbandonedIsGone` | what the chain holds at start-up belongs to earlier processes | another process may be up (`state.rs:2610`) |
| `HostSandbox!ActiveIsOrigin` | the active sandbox is the running VM's | a tool or a run starts the VM otherwise (`state.rs:4324`, `7944`) |

Smaller disagreements met while modelling:

- `init_schema` says the version is read "before anything else touches the file", but
  `configure_connection`, which switches to WAL, runs first (`store.rs:274`).  The schema
  is kept all the same: `NewerSchemaKept`.
- "a segment row always has its opening event" (`store.rs:620`) does not survive a crash
  between the two writes.
- The two halves of an anchor are "read at the same moment" (`store.rs:656`) only if no
  other process writes; `AnchorBeforeOpening` is what holds in general.
- `merge_segment`'s scan and transcription are separate transactions, so "never a silent
  merge" (`segment.rs:140`) also holds only for a host alone on its file.
- A segment is recorded as delivered whatever became of its frames (`state.rs:1595`,
  against the comment at 1815).
- The relay's answer goes to the newest session of a node, not to "the session the
  question arrived on" (`relay.rs:1350`); and although `forward_to` lets the session map
  go before it writes (973), the replay guard its caller holds makes every other
  connection wait for the write.

## 6. What is not modelled

Formats and encodings (canonical JSON, SHA-256, Ed25519, frame lines, archives) are ideal
values.  SQLite is assumed to do what it documents: one writer, rollback of a dead
process's transaction.  The operating system binds a free port to one socket and creates a
file exclusively.  `PROJECT.json` gives the reason for each component without a module:
the model client (parses the stream of an external service), the command line and the SDKs
(argument parsing, rendering and HTTP clients of a server that is not in the repository),
the audit tools (wrappers of `rebuild_runs` and `verify_chain`), workspace files, run diff
and paths, and the discovery of QEMU.  Within modelled components these are left out: the
relay's digests, key events and address queries, the direct path between two nodes, the UDP
sockets of the discovery, the editing of sandbox definitions, and what each of the four
checks of the preflight looks at.

## 7. Plan

1. `RunIndex` as a refinement of "the index is a function of the chain" once it has been
   rebuilt.
2. The relay's digests and key-event log, and the direct path of the client.
3. `HostSandbox` over `VmProcess`: the slot's one step "the machine is up" shown to be
   implemented by leases, spawning and the handshake.
