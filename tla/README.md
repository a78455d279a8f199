# A TLA+ model of Claude in Codex

Claude in Codex lets the Codex desktop app ("Desktop") run Threads on other
Harnesses, chiefly Claude Code. A Node process, the **Host**, answers the
requests of the Desktop, keeps the external Threads, and passes everything else
to the official Codex app-server. These modules model the parts of the program in
which the order of events decides what is right, check them with TLC on small
instances and prove the most important results with TLAPS. Paths are relative
to `src/`; `HR` stands for `packages/host-runtime/src`, `CC` for
`packages/adapters/claude-code/src`.

## 1. Inventory

| Component | State | Operations | Interacts with | What is hard |
| --- | --- | --- | --- | --- |
| External Thread Turns (`HR/app-server-host.ts`, `external-thread-queue.ts`, `external-turn-steering.ts`) | running, active Turn, projections, response gates, queue, steering request, injected texts, draining | turn/start, thread commands, turn/steer, turn/interrupt, thread/queue/*, thread/inject_items, drain, close | Session by `execute` and an output channel; Desktop by answers and notifications | requests interleave at every await; answers against notifications; a stop against a replacement; a failing start of a queued message |
| Claude Code Session (`CC/claude-code-adapter.ts`, `background-occupancy.ts`) | active Turn, accepting, transport, phase, occupancy, cancel timers, usage | execute, autonomous Turns, cancel escalation, hold, fault, close, usage and Context reads | Host, Claude's process | Turns nobody asked for; Subagents that outlive a result; a cancel that Claude ignores; answers of an older generation |
| Claude transport (`CC/sdk-transport.ts`, `native-message.ts`) | the SDK query, its active Turn, accumulators, open interactions | start, send, interrupt, abort, read | Claude's process, Session | messages that arrive around the end of a Turn |
| Claude history and pending Sessions (`CC/claude-fork.ts`, `pending-session.ts`, `claude-history.ts`) | reserved directory, reservation, transcript | reserve, claim, create, select, close | file system, Claude's process, other wrappers | a wrapper that dies after its claim |
| Subagents (`HR/external-subagent-threads.ts`, parts of `app-server-host.ts`) | child Threads, their status, running children, the parent's status | track, refresh, open, delete | parent's outputs, Desktop | Subagents named before they start and after they end; readings spread over time |
| Projection (`packages/protocol-core/src/codex-ui-projector.ts`, `CC/claude-code-adapter.ts`) | Items of a Turn, the file card, what was sent | start, delta, replace, complete, history | Desktop | partial and complete messages in any order; edits named twice |
| Idle release and restoration (`HR/external-thread-idle-release.ts`, `external-thread-runtime.ts`, `desktop-request-queue.ts`) | timers, operations in flight, Thread objects, restores | arm, release, restore, replace, delete, close | every request of a Thread | a release that races a request; two restores |
| Fork, rollback, refresh (`HR/external-thread-fork.ts`, `-rollback.ts`, `-repository.ts`) | records, histories, loaded Threads | multi-step changes with compensation | mapping store, Session | failing half way; Turns that complete meanwhile |
| Mapping store (`packages/mapping-store`) | a JSON file and a backup per Thread, a lock file, memory | take the lock, recover, replace, remove | file system | crashes, damaged files, two Hosts |
| Official runtime, connections and requests (`HR/codex-runtime/*.ts`, `official-request-broker.ts`) | generation, phase, work gate, clients, pending requests | start, restart, stop, lose, send, answer, retire | official app-server process | results of an old generation |
| Harness broker (`packages/harness-broker`) | records, reservations of native Sessions, links | open, reopen, release, close, fault | Hosts over a socket, adapter | a link lost in the middle of a request |
| Hot attachment (`HR/hot-attach/controller.ts`, `main.ts`, `session.ts`) | phase, #operation, #detachment, #forceDetach, drain generation, session, quitting | attach, detach, stop-and-detach, cancel-drain, quit, loss of the native app | Host (`setAttachmentDraining`, `run`, `close`), menu bar app, Desktop | calls that join a promise in progress; drains that never end; failing cleanups |
| Desktop bridge (`HR/hot-attach/desktop-agent.ts`, `session.ts`, `borrowed-backend.ts`) | agent phase, pending requests, last heartbeat, native contexts, lease | divert, deliver, heartbeat, detach, native requests | both ends of one socket | a Host that stalls or crashes, answers under way at the detach, stale heartbeats |
| Remote socket lock (`HR/remote-socket-lock.ts`) | one register file per caller, version 1 marker file | announce, choose, wait, act, leave, reclaim | other processes through the file system | no atomic read of two files, crashes between any two writes, leases |
| Remote Host install (`HR/remote-host-install.ts`) | entrypoint, manifest, login profile, data | install, uninstall, undo | file system, the user's edits | a failure between two files |
| Remote Host lifecycle (`HR/remote-host-lifecycle.ts`, `remote-app-server.ts`, `crates/shim/src/remote_lifecycle.rs`) | socket file, listeners, commands | start, stop, launch, terminate, bind, unlink | remote lock, stock Codex | acting on a listener probed earlier |
| Native broker of macOS (`crates/platform/src/macos_native_harness_broker.rs`, `crates/shim/src/broker_cli.rs`) | property list, launchd's agent, the broker's descriptor, the agent of an older release | install, stop, uninstall, login | launchd, the broker's process | what a command read against what it acts on; a descriptor left by another broker |
| Shim and supervision (`crates/platform`, `crates/shim`) | launched process tree, ownership ledger | observe, signal, force, guard | operating system | numbers used again; children nobody observed |
| Startup connection (`HR/startup-connection.ts`) | the store's lock, `startup-session.json`, the menu bar's request | start, wait for the store, publish, end, remove | Desktop, which starts one Host after another; the menu bar | the next Host comes while the last one still ends |
| Thread list (`HR/thread-list-aggregator.ts`, `external-thread-list.ts`, `protocol-core`'s `thread-management.ts`) | the request being answered, its cursor | list, merge, page | official app-server, mapping store | two lists that change between the pages of one |
| Desktop tools (`HR/official-desktop-tools.ts`, `client-tools.ts` of the adapter and of the broker) | catalogue, connection, calls, the Turn that controls the Desktop | list, call, cancel, end of a Turn, reset, close | official app-server, Claude's process, broker's socket | Turns that end while a call waits; one connection for every transport of a Session |
| Steering receipts, harness contract, picker and features, macOS app, build | little | conversions, replay | Host | see section 5 |

What makes each correct, in a line. Turns: the Host and the Session agree on who
runs, every request is answered once and in order, and no message is lost or run
twice. Claude: a Turn succeeds when its Subagents have settled, ends once, and
what Desktop shows is what Claude said. Threads: one open Session writes one
history, an edit that fails leaves no Session behind that nobody has, a committed edit
stands. Store: what was acknowledged survives. Official runtime: one process, a
request that was answered is admitted no longer.
Broker: of the Sessions it serves, one writes a native history. Attachment: one Host at a time, work is
cut only by force. Bridge: each request is answered once. Lock: one caller acts
at a time, in order, in spite of crashes. Remote Host: a failed install leaves
what was there, and a bound listener can be found. Startup: the menu bar
takes no Host for another. Thread list: a client reads every Thread once. Desktop tools: a
Turn that is over does not control the Desktop. Native broker: an install that
reports success reports on the broker that runs. Shim: no signal reaches
another program.

The full list of hazards, each at its line with the properties that cover it, is
in `PROJECT.json`.

## 2. Modules

| Module | Models | Checked by | Proofs |
| --- | --- | --- | --- |
| `ExternalTurns` | One external Thread, its Session and output channel | `MCTurns`, `MCExternalTurns` | `ExternalTurns_proofs`, `ExternalTurnsQueue_proofs` |
| `RemoteSocketLock` | The Bakery of register files with the version 1 marker | `MCServices` | `Services_proofs` |
| `MappingStore` | Lock, files, recovery and atomic replacement of the store | `MCServices` | `MappingStore_proofs` |
| `AtomicRecords` | What the store promises: the abstract specification | `MCServices`, as `StoreIsAtomic` | `MappingStore_proofs` |
| `RemoteInstall` | Install and uninstall of the Remote Host, file by file | `MCServices` | `Services_proofs` |
| `RemoteLifecycle` | Commands and listeners around the remote socket | `MCServices` | `Services_proofs` |
| `HotAttach` | Controller, menu commands and sessions of the attachment | `MCDesktop`, `MCLive` | `HotAttach_proofs` |
| `DesktopBridge` | Agent and session at the ends of the bridge socket | `MCDesktop`, `MCLive` | `HotAttach_proofs` |
| `ThreadRecords` | Records, histories, fork, rollback and refresh of two Threads | `MCThreads` | `MappingStore_proofs` |
| `ThreadRuntime` | The life of one loaded Thread and its Sessions | `MCThreads` | `MappingStore_proofs` |
| `TurnProjector` | What Desktop is told of the Items of a Turn | through `TurnItems` | `TurnItems_proofs` |
| `TurnItems` | From Claude's messages to Items, live and from the transcript | `MCThreads` | `TurnItems_proofs` |
| `HarnessBroker` | Hosts, links, records and the one writer of a native Session | `MCTurns`, `MCHarnessBroker` | `OfficialRuntime_proofs` |
| `OfficialRuntime` | The official app-server's generations and its requests | `MCSessions`, `MCLive` | `OfficialRuntime_proofs` |
| `ClaudeSession` | How the stream of a Claude process becomes Turns | `MCSessions`, `MCLive` | `OfficialRuntime_proofs` |
| `ProcessTree` | The launched process tree as the Shim observes and ends it | `MCSessions` | `PendingSession_proofs` |
| `PendingSession` | A reserved Claude Session among wrappers that may die | `MCServices` | `PendingSession_proofs` |
| `SessionUsage` | Tokens counted request by request, and the Context | `MCServices` | `PendingSession_proofs` |
| `SubagentThreads` | The Subagents of a Thread and the child Threads shown for them | `MCSessions`, `MCSubagentThreads` | `PendingSession_proofs` |
| `BrokerAgent` | The LaunchAgent that runs the broker on macOS | `MCServices` | `Services_proofs` |
| `StartupConnection` | The Hosts Desktop starts and the file by which the menu bar finds one | `MCServices` | `Services_proofs` |
| `ThreadList` | Official and external Threads merged into pages | `MCThreads` | `MappingStore_proofs` |
| `DesktopTools` | The official MCP servers as tools of one Session | `MCServices` | `Services_proofs` |

**Composition.** `TurnItems` EXTENDS `TurnProjector`: every step of the adapter
feeds the projector in the same step. `StoreIsAtomic` instantiates
`AtomicRecords` with `stored` defined by the files. The other components meet at
interfaces that are narrow enough to be an assumption on one side and a property
of the other: `RemoteLifecycle` uses a lock that a dead holder gives back, which
is what `RemoteSocketLock` shows; `ThreadRecords` uses a store whose operations are
serialized and atomic, which is what `MappingStore` shows; `HotAttach` runs one bridge,
whose inside is `DesktopBridge`; `ExternalTurns` treats as one step what
`ClaudeSession` opens up. The modules `MCTurns`, `MCServices`, `MCDesktop`,
`MCThreads`, `MCSessions` and `MCLive` place the components that share a subject
side by side, so that one run checks all of them. They do not interact there: the
variable `part` says which one a behaviour is about, and the rest stand still in
one initial state, so a run's states are the sum of its components' states.

An action is the code between two awaits (or two file operations, or two messages)
throughout. A promise that settles is an action, with one disjunct for each way it
may settle.

### ExternalTurns

`pc[r]` is where a Desktop request
stands, one value for each await that matters; `starting` is the Turn whose
`execute(turn.start)` is pending and `starter` whom its result concerns;
`running`, `activeTurn` and `projected` are the fields of the Thread; `queue` the
queue; `steer...` the one steering request of the Thread; `context` the injected
texts. `phase`, `active`, `cancelRequested`, `hardCancel` and `transport` are the
Session's, `chan` its output channel, and `consumer`/`current` the Host's
consumer of it: it takes an output (`next`), waits for the response gate of its
Turn (`gate`), persists a terminal (`persist`) and settles it (`settle`).
`consumer = "overlap"` and `"unknown"` are the two exceptions that end it.

Conventions. `turn/interrupt` holds the Thread's routing queue while it waits
(`RouteFree`); the start of the next queued message after a Turn goes through
idleRelease.runOperation only, so it is part of the terminal's action. The
Session opens no Turn of its own while its transport starts. `accepted` and the
sets `added` and `deleted` are history.

Left out: thread/queue/update, receipts of turn/steer, a second Thread;
replacement of the Thread object is `ThreadRuntime`'s, Subagent Threads are
`SubagentThreads`'.

### ClaudeSession

`alive`, `segment`, `inbox`, `calls`, `task`, `owed` and `interrupted` are the claude
process, the environment: a Segment answers a prompt or is Claude's own, Subagents are
called, start, end, and may be resumed by a message when `Resumes`. `stream` are
messages not yet read. `running`, `acc`, `idle` and `auto` are the transport's: the Turn
`runTurn` waits for, its accumulator, the accumulator of the continuation of a held
Turn, and the Turn of a Segment nobody asked for. `claude` is the Session's ActiveTurn
with its occupancy (each Subagent "free", "spawned", "running" or "notified", as in
`background-occupancy.ts`), its quiescence and cancel timers and how each Turn ended.
`ReadMessage` is the whole of what the code does on one message; `Finish...` the end of
a Turn by its result, by quiescence, by a fault or by the abort's time limit.

### TurnProjector and TurnItems

`TurnProjector` has no variables: its operators are the projector's methods as
functions from one projector state to the next, with what Desktop has been shown
as a field. A wrong event sets `threw`, a message Desktop could not place sets
`misused`. `TurnItems` drives it: `speech` is what Claude says and the accumulator that reads
it, `script` the entries of the transcript, `turn` the ActiveTurn. A text is a sequence
of chunks; a message may arrive in parts, whole, or whole after its parts and different
from them. `Transcript` and `HistoricalTurn` read the same Turn from `script` as
`claude-history.ts` does.

### SessionUsage

Every request to the model costs a token. It may bear two names, one in the stream and one in
the transcript, and is then counted under both. `counted` has what was made, what ended
processes and results have accounted for and what is estimated; `reads` are readings of the
transcript under way, `context` the Context with its refresh and its cooling, `usage`
what was published last. A generation is counted by Turns and selections.

### PendingSession

`reservation` is the directory with its file and transcript, `wrapper[w]` a Session in
its steps (reserving, checking, opening, claimed, starting, running), `native[w]` its
CLI by the way it was started. A claim is a write of the reservation; a wrapper that
dies keeps it on disk. `confirmed` is history: the configurations a reader may expect.

### SubagentThreads

`agents` is the parent's Session with its queue of outputs, `hosted` the registers of the
Host (status and record of every child Thread, those that run, those that are open, and how
far a Host without a Desktop has come to its end), `handling` the output being handled
and, for each Subagent, the part of it that is found or read again, `announced` what
the Desktop was told last. The calls of a delegation are taken to end before the
Subagents they started in the background do.

### ThreadRuntime

A Thread object is loaded (`current`), has a Session (`harness`, `native`), a consumer of
its outputs and a Turn or a question. `line` is the Thread's queue in
`desktop-request-queue.ts`, `call[r]` a request with its step, `release` the scheduled
release, `restoring` the one restore in flight that later callers join. "borrow" is the
resolve of a root Thread by the rollback of another, from another queue.
`DeletesShared` lets a delete overlap such a borrow.
An approval and a question are the same here: the consumer shows the one the Session
waits for or denies it (`Shows`, `Denies`), and the answer of Desktop, or the expiry of a
question, is an operation of the Thread (`Answers`). A rollback may always be refused, by
a running Subagent, the checks before it or the Harness.

### ThreadRecords

`record`, `history` and `loaded` are what the store, the native Sessions and the Host
each know of a root and a derived Thread; `storeCalls` the operations in the
store's `#writeTail`; `edit[t]` the fork, rollback or refresh handled on a Thread, step
by step, with the compensation of each failure. The schema a written record must fit
(`FitsSchema`) refuses a Turn or a Host id that comes twice. What a request does after the store has
committed may fail as well: the projection of a refresh ("project"), of a fork ("derived")
and of a rollback ("register"), and the exchange of a Thread that has begun a Turn meanwhile.

### MappingStore and AtomicRecords

`storeLock` is the lock file (created, then signed; the number in it may be that of another
process once its owner is gone), `primary`, `backup` and `residue`
the files, `storePc` where each process is in taking the lock, loading and owning,
`job` the file operation at the head of the queue in its steps: write the temporary
file, copy the primary to the backup, rename; or remove file after file. A crash may come
between any two; `MaxFaults` files are damaged. `promised` is history: what a caller was
told, or asked for and not yet told. `AtomicRecords` has one revision per
Thread and two actions: the next revision, and deletion; a damaged file may take a Thread
back.

### OfficialRuntime

A generation is one backend. `ownerPhase`, `backend`, `start` and `stop` are the owner's,
`process` the life of each app-server, `workGate` and `closed` the scope's, `client` the
connections of Desktop's client and of the Host's own, `frame` the requests, `thread`
and `loadedThread` the resumption of a Thread on a new generation, `askedBackend` a server
request whose answer must reach the generation that asked. A write to the process may wait for
its stream to drain, and the frame may be answered while it does.

### HarnessBroker

A Host has one brokered Session and at most one link at a time; a link is served one
request at a time, side by side with others. `record` and `writers` are the server's
Sessions and its reservations, `claim` the reservation of a Session whose native id is
not known yet, `adapter`/`writes` what the adapter has open and the native Session it
writes, `resuming` the adapter a link is reopening for. A link may be lost at every await. An opening that finds
its link gone releases its reservations and then awaits the close of what it opened; a reopen
does not look.

### HotAttach

`operation` and `detachment` are the stages of the one `#attach` and the one
`#detach` coroutine; `session` and `cleaning` the session that is current and
the one being cleaned up; `host`, `shut`, `wire`, `link` the life of each session:
its Host's `run()`, its `close()`, its socket, and whether its agent is attached.
A continuation that is due when a promise settles runs before the next event
(`ResumeDue`). The drain's generation is compared with the current one only for
equality, and only `cancelDrain` changes it while a drain sleeps: `stale` is the
outcome of that comparison. `forced` is history. The hello of the agent is taken
to arrive with its connection, and the inspector's answer to the installation
before any message of the agent.

### DesktopBridge

`up` and `down` are the two directions of the socket, in order. A Turn bears the
name of the request that started it; `told` are the Turns the Desktop knows of and
`answers`, `completions` count what it was delivered. `turn[r]` is "ending" after
activeTurnId was cleared and before turn/completed is written, two steps in
`#projectExternalEvent`. The Host may crash and lose a suffix of what it wrote,
or stall for good with its socket open. A close of the Host ends its Turns: that
it does is the subject of `ExternalTurns`.

### RemoteSocketLock

An owner announces itself with a choosing register, reads all registers one at
a time, publishes its ticket at the same path, and scans again until nobody has
priority; then it takes the version 1 marker if it can, and acts. Reading a
directory is one step, reading each entry another. A reclaimer reads an entry
twice and unlinks the path. Owners crash at any step. `aged` owners have outlived
their lease. Version 1 owners (external) know only the marker.

### RemoteInstall and RemoteLifecycle

`install` is the command that runs, with what it read when it began; each file it
replaces is one step, and so is each file it puts back after a failure. A command may be
killed between two steps, a first install only when `FirstInstallDies`. In
`RemoteLifecycle` `command` are runs of start and stop, `process`/`listening`/`socket`
the listeners and the path, `lock` the mutex. Probing and acting are separate steps.

### BrokerAgent

`agent` is what launchd has loaded and the broker it runs, `plist` and `old` the property
lists, `descriptor` the broker whose descriptor is there, `call[c]` a command with what it
has read. Every call of launchctl and every file is a step; commands may be killed,
brokers may exit, and the user may log out and in. A bootout is taken to return when the
broker has ended, and launchd to start a broker once, as its property list asks.

### StartupConnection

`startup` is where each Host is, `storeOf` who holds the store, `sessionFile` whose socket
and token `startup-session.json` has, `menuBar` the Host that answers the menu bar. The
reading and the removal of the file are two steps, and the next Host may
publish between them.

### ThreadList

`sortedAt` are the Threads of both lists by the time that sorts them, `listing` the request
being answered, suspended where it asks the official app-server for a page (`asked`) or for the
cursor behind a part of one (`exact`), `pass` what a client has read and the cursor it goes
on with. Each turn of the merging loop is an action of its own: it asks for the next batch, gives a
used one up, passes over a row the Host has itself, or takes the earlier of the two rows. No Thread changes
between two of them, since the code awaits nothing there but the official app-server. What is left
of a list is a set of rows, and the next one the first in order. The official app-server (external) may give
fewer rows than were asked for. `ChangesMeanwhile` lets its list change during a request.

### DesktopTools

`catalog`, `cuaTurn` and `provider` are the fields of `OfficialDesktopToolSession`, `control`
the Turn the native side has given the Desktop to, `ending` its cleanups under way; `use` the calls of
Claude, `cut` how far the cancellation of one has come; `handle` says whether a transport has
closed the tools that every transport of the Session is given. `brokered` puts a socket between.

### ProcessTree

`table` is the machine's processes by number, each with its start time, parent and
group; `known` the ledger of `ObservedProcessTree`; `shim` where `wait_for_child` is;
`targets` those of the last observation still to be signalled. `world` chooses Linux
(a signal through a pidfd) or macOS (by number, and by group), and whether processes
may hide: end before their children were observed, or fork while signals go out.

## 3. Runs

Violation runs show that the code does something other than a comment, a document or a
test says; `PROJECT.json` quotes the line for each.

| Run | Instance | Shows |
| --- | --- | --- |
| `Turns` | Turns: 3 requests, 1 message, 1 autonomous Turn; and 2 requests, 2 messages, capacity 1, 1 autonomous Turn, 1 text. Broker: 2 Hosts, 2 native Sessions (1 stored), 2 links, 2 records, 3 adapter Sessions | `TurnOwnership`, `ResponseFirst`, `StopWins`, `SubmissionConserved`, `IdleQueueHasReason`; `OneServedWriter` |
| `TurnsLive` | 2 requests, 1 message, 1 autonomous Turn, fairness | `SteerSettles` |
| `TurnsContext` | 2 requests, 1 text | violation: a failed start drops the injected text |
| `TurnsOverlap` | 2 requests, 1 message, 1 autonomous Turn | violation: an autonomous Turn meets a Thread already marked as running |
| `Services` | lock: 2 owners, 2 retries, tickets to 2, a version 1 owner, crashes, fairness; store: 2 processes, 1 Thread, 3 revisions, 2 damaged files; install: 2 builds, 4 commands, 1 edit; listeners: 2 commands, 2 managed and 1 stock listener, 1 crash; startup: 3 Hosts; pending: 2 wrappers, 2 configurations, 1 death, 1 selection; usage: 2 requests, 2 Turns, 2 processes, 2 attempts; tools: 2 calls, 3 Turns; broker agent: 2 builds, 4 brokers, 1 command at a time | `MutualExclusion`, `FirstComeFirstServed`, `CallsSettle`; `Durable`, `StoreIsAtomic`; `FailedInstallRestores`, `Reinstallable`; `BoundIsReachable`; `NoOtherHostIsFound`; `OneCreator`; `OvercountsByNameOnly`; `ControlEndsWithTurn`; `InstallReportsItsBroker` |
| `Desktop` | 3 sessions; 2 requests, 1 native context, at most 1 heartbeat under way | `OneHost`, `WorkIsCutOnlyByForce`; `AnsweredOnce` |
| `Threads` | records: 3 Sessions, 2 Turns, Host Turn ids up to 1 for Turns that were not persisted; runtime: 2 requests of every kind, 3 objects, 2 native Sessions; items: 1 tool call, 1 question, 2 messages, 2 Segments, 1 further event; list: 2 external and 3 official Threads, one of them both, pages of 2, times 1-3, 1 change | `EditLeavesNothing`, `EditStands`; `OneWriter`, `ReleaseSparesRequests`; `ProjectionAccepted`, `TranscriptAgrees`; `ListsEachOnce` |
| `Sessions` | official: 2 requests, 2 generations; Claude: 1 Subagent that may be resumed, 1 Turn and an autonomous one, 1 permission request; Subagents: 2 Subagents, 2 child Threads, 2 readings, 1 parent Turn; tree: 3 numbers, 4 starts, 1 other program | `OneProcess`, `AnswerEndsAdmission`; `SucceedsWhenSettled`; `ParentIdleIsQuiet`; `LinuxSparesForeigners`, `ObservedTreeEnds` |
| `Live` | attachment: 1 session; bridge: 1 request; official: 1 request, 2 generations; Claude: 1 Subagent, 1 Turn and an autonomous one, background commands; fairness of each | `OwnerLossEnds`; `RequestsSettle`; `FramesSettle`; `TurnsEnd` |
| `BrokerReopen` | the broker of `Turns` | violation: a second writer opens the native Session |
| `ToolsLost` | 2 calls, 3 Turns | violation: a Session that runs on has no Desktop tools any more |
| `SubagentDrain` | 1 Subagent, fairness | violation: a Host without a Desktop never ends |

**The five violations.** `TurnsContext`: `#beginExternalTurn` takes every
injected text before `execute`, and its catch does not put them back.
`TurnsOverlap`: the Host marks the Thread as running before `execute` is refused, or the
opening of an autonomous Turn waits in the channel behind it; the consumer throws at
`app-server-host.ts:3741` and reads no output of that Session again. `TurnOwnership` says
that the two come apart in no other way.
`BrokerReopen`: the reopening of a Session looks at its link before its awaits only; a
link lost meanwhile has released the reservation, and the adapter Session stays open
without one. `SubagentDrain`: `#trackRunningSubagent` wakes the waiting Host while the
child Thread still counts as running; what clears that mark wakes nobody.
`ToolsLost`: a Turn that does not end after its cancellation closes its transport, which
closes the tool session of the whole Session; the next transport is told of no tools, or, over
a broker, cannot list them and does not start.

**Further configurations** each show, by a violation, behaviour that a reader of
the code would not expect; they are kept for whoever changes these lines, outside the
list of runs in `PROJECT.json`:

| Configuration | Module | What it shows |
| --- | --- | --- |
| `TurnsCapacity.cfg` | `MCExternalTurns` | `QueueWithinCapacity`: a restored message exceeds the cap |
| `AttachOwnerLost.cfg` | `HotAttach` | `OwnerLossDetaches`: the process ends with its Host attached |
| `LockReclaim.cfg` | `RemoteSocketLock` | `ReclaimsOnlyAbandoned`: with leases that expire, a fresh register is unlinked |
| `StartupOverlap.cfg` | `StartupConnection` | `RunningHostIsFound`: `host.run` closes the store (`app-server-host.ts:921`) before the Host reads and removes `startup-session.json` (`startup-connection.ts:361-362`); the next Host may publish in between and loses its file, which the comment at :360 wants kept |
| `StoreOverlap.cfg` | `MappingStore` | `OneStoreOwner`: two processes that start at once may both take over the lock of a dead one: the second moves aside the lock the first has created by then (`mapping-store.ts:895`). Even two fresh starts do, though `packages/mapping-store/test/index.test.ts:898` says "enforces one live writer per directory" |

**Further properties** are stated in the modules and hold on the same instances, but
are outside the runs: `DrainHolds`, `CancelledTurnEnds`, `CloseCompletes`, `HistoryIsClaimed`, `LegacyExcluded`, `FenceStays`,
`DrainAdmission`, `CoroutinesExclude`, `AttachSettles`, `CompletedOnce`,
`RequestedDetachIsClean`, `MemoryMatchesDisk`, `BackupIsRecent`,
`RecordFollowsHistory`, `NoSessionLeaks`, `LoadedIsStored`, `RequestsAnswerable`,
`RequestsServed`, `DesktopSettles`, `NoStaleReservation`, `HealthyIsServed`,
`GateIsServed`, `GenerationsStayApart`, `InteractionsCloseOnce`, `RunningIsOccupied`,
`FreshIsCurrent`, `ReservationIsReadable`, `LedgerIsOurs`, `StartSparesManaged`,
`EndedIsComplete`, `OpenAgreesWithStatus`, `ParentSettles`, `OneBroker`,
`LoadedAsWritten`, and the type invariants. These others are stated
because the code suggests them, and do **not** hold: `NothingIsLeft` and
`FailureLeavesNothing` (`ProcessTree`: a child may escape before it was observed),
`ForeignUntouched` (macOS signals a group by its number), `UnusedIsStartable` and, with
`SyncsFail`, `OneCreator` (`PendingSession`: a claim survives the death of its claimant,
and a reservation whose directory was not synced is not released), `AskIsServed`
(`SessionUsage`: an ask may join a refresh of an older generation),
`OpensOnRootOutput` and `ClosedToCancel` (`ClaudeSession`), `ReopenedShowsTheSame` and,
with `EndsSilent`, `TranscriptAgrees` (`TurnItems`), `NoTurnLeftRunning`
and `NoStrayContext` (`DesktopBridge`: a native context answered after the detach is never
unsubscribed), `DetachingIsUnderway` and `QuitIsUnderway` (`HotAttach`: a quit after a cancelled drain waits for
nothing and blocks later quits), `FrameAnsweredOnce` (`OfficialRuntime`: a request whose
write waits for the stream is answered by retirement and again by the failed write),
`NeverOvercounts` (`SessionUsage`: a request is counted under its message id and again
under its request id when the stream names it by the one and the transcript by the other),
`EditIsWhole` (`ThreadRecords`: what throws after the commit leaves the record on a Session that
is closed, or that no Thread runs), `OneNativeWriter` (`HarnessBroker`, see `BrokerReopen`),
`RunningHostIsFound` (`StartupConnection`) and `OneStoreOwner` with `StartsOverlap` (`MappingStore`), both above,
`ListsEachOnce` with `ChangesMeanwhile` (`ThreadList`), `OldBlockLeadsSomewhere`
(`RemoteInstall`), `StartFailsBehindAnOwner` (`RemoteLifecycle`: a socket file nobody listens on makes start fail
instead of being replaced), `InstallReportsItsBroker` with two commands at once or `MeetsStarting` (`BrokerAgent`), `LoadedIsStored` with `DeletesShared` (`ThreadRuntime`), and
`ParentSettles` and `EndedIsComplete` with `OpensLate`, `DeletesRunning` or `ReadsFail`
(`SubagentThreads`). A constant of this kind names a rare
circumstance, is FALSE in the runs and says in its module what it admits.

**Why the bounds are enough.** The Thread has one starter, one steering request
and one consumer, so three requests give every pair of an active Turn, a
replacement and an intruder; a capacity of one is full with the first message.
In the lock two owners give every race of a reader and a writer, and the theorems
below cover any number; a ticket bound of 1 lets tickets reach their limit. The files of a
Thread do not touch those of another, and three revisions give an old backup, a
current one and the one being written; two damaged files can hit both copies. An
install reads what the last command left, so four commands reach an upgrade over a
failed upgrade over an uninstall.
Attachments interact only with the one before, so three sessions give an old, a
current and a refused one. On the bridge requests do not interact but through
the sets the agent keeps, so two suffice; `MaxWire` bounds heartbeats under way,
and a second heartbeat with nothing in between repeats the first. Two requests on a
Thread give the one that holds the queue and the one that waits; three objects are one
released, one replaced and one current. A fork and a rollback of it have three Sessions. Two
Turns make one to keep and one to drop. One tool call, one question and two
messages give every adjacent pair of Items. In the broker two Hosts compete for one native Session, over two
links, with a third adapter Session for a reopen. Two generations of the official
runtime are an old one and a current one. One Subagent that may be resumed gives every
order of its start, end and resumption with the results of two Turns. Three
numbers and four starts let a number be used again while its former process is
still a target. Three brokers are the one that left the descriptor, the one a command
replaces and the one it starts, and a fourth lets every one of them be replaced.
Three Hosts are one that ends, one that runs and one that waits. Pages of two rows over four
Threads, one of them in both lists, leave an official page partly used. Three Turns and two calls are one that ended, one
that was cancelled and the next, with a call each side of a load. Two wrappers are one that dies and one that comes after.

**Deadlock** is not checked: a process that has finished, a Host that is closed
and a lock whose callers have all ended may stop.

**Fairness.** Weak fairness, per request, session or owner, of the steps that
promises and timers make: an await in the Host or the Session settles, a timer
fires, a lock caller takes its next step unless it crashes, bytes on a socket
arrive and a socket whose peer is gone closes; a request to an official backend that
listens is answered, a connect succeeds or fails, a resumption is answered or times
out, a stop succeeds or fails. The claude process is bound by strong
fairness, since an interruption or a full stream may disable a step of it for a while: it
takes the next prompt, ends its tools, its Subagents and its Segments (for `TurnsEnd`
and the Subagents; in `ExternalTurns`, where a Turn may run forever, nothing asks that of it).
The user and the Desktop need never act, the agent need never say hello, and work
need not end before a drain.

## 4. Proofs

All theorems hold for every value of the constants that satisfies the named
assumptions of their module: the sets are disjoint, the bounds are naturals, and the
special values are in none of the sets.

- `TypeCorrect` and `LockTypeCorrect`: type invariants, one lemma per group of actions.
  In the lock this includes that no ticket exceeds its bound.
- `Conservation` (`SubmissionConserved`). Alone it is not inductive: that a queued
  message which is put back is nowhere else depends on who is being started.
  `ConservationInv` adds that a pending start is the Thread's active Turn
  (`StartIsActive`), that its starter waits for it (`StarterWaits`), that outputs
  are of accepted Turns (`OutputsAccepted`) and that the queue holds added messages
  only (`QueueAdded`). Lemmas on `Without`, `Restore` and reordering state what
  they do to the members of the queue.
- On top of `ConservationInv`, and like it without an assumption on the environment:
  `OwnersAgree` (`TurnOwnership`: an output the consumer has still to project is of the
  Turn shown or follows the opening of its own; not that an opening finds the Thread free,
  which `TurnsOverlap` refutes), `AnswersComeFirst` (`ResponseFirst`), `StopsWin`
  (`StopWins`) and `WaitingHasReason` (`IdleQueueHasReason`). `OwnershipInv` is about the
  outputs between Session and Host, the one in the consumer's hands first:
  the end of a Turn is the last about it (`EndsLast`) and is never the active one's (`EndsOther`),
  the Session opens Turns of its own only (`OpensAutos`), and each output, and the active Turn, is
  of a Turn that is projected or of one whose opening comes first (`FollowsOpening`,
  `ShownOrOpening`). `AnswerInv`: until its answer is written, a request is among those its
  Turn's outputs wait for. `ReasonInv` states the reason also
  while a Turn that did not succeed still settles (`Rests`), since nothing looks at the queue then.
- `Exclusion` (`MutualExclusion`), `Arrival` (`FirstComeFirstServed`) and
  `LegacyFenced`, assuming `~LeaseExpires`: no live owner
  stalls past its lease. `SafeInv` is `TypeOK`, `Registers` (live participants have
  their register in place, so only dead owners are reclaimed), `Fence` (who acts
  does so behind a marker), `Order` (whomever an owner has passed in its scan is
  behind it or does not take part) and `Seniority` (whoever held a ticket when an
  owner announced itself goes before it). The step of the argument is Lamport's:
  `StaysBehind`, which holds because a newcomer chooses its ticket after reading
  every register that was there when it announced itself. With leases that
  expire, `MutualExclusion` is not claimed by the code either.
- `FencePassive`, also with leases that expire: an abandoned marker
  of version 1 is never removed. `Guards` says that who is about to remove the
  marker made it, and that a version 1 owner keeps its own.
- `AttachTypeCorrect`, `SingleHost` (`OneHost`), `CoroutinesAlternate`,
  `AdmissionFollowsDrain`, for any finite set of
  sessions. `AttachInv` adds `Alternates` (an attach() in progress keeps detach()
  waiting), `Drains` (the drain is shown only by the current generation of a detach()
  that drains), `Cleans` (who closes a session has taken it from `#session`) and
  `Hosts` (a running Host is the current one or the one being closed, and a session
  that was closed has none). Without `Cleans` and `Hosts` a new hello could meet a
  Host nobody remembers. `ForceIsOfThisDetachment` (`WorkIsCutOnlyByForce`) rests on
  `Forces`: a force is gone when its detachment settles.
- `NothingIsLost` (`Durable`) and `FilesAreAtomic`
  (`StoreIsAtomic`, the refinement), assuming `~StartsOverlap`: of starts at once two may own the
  store (`StoreOverlap.cfg`), and then neither is claimed. `LockInv`: the lock names the process that
  signs it or owns the store, and while there is an owner a start gets no further than
  to judge it. `StoreInv` adds `FileKept` (the backup is not ahead of the primary, a
  Thread that was never created has no files, what a start would find was promised) and
  `OwnerKept` (the owner's memory against its files, at each step of the running
  write or removal). The refinement needs no more: each step leaves what a start would
  find, deletes it, or gives it a later revision.
- `SoleProcess` (`OneProcess`): a process that lives is the one the owner answers for
  (`ProcessInv`), so there are no two. `RequestsSettleOnce` (`AnswerEndsAdmission`), writes that
  wait included: what a request is owed follows from where it is (`FramesKept`), and a
  request answered under its write, or twice, is of a generation whose connection is known (`Linked`).
- `SoleCreator` (`OneCreator`) and `HistoryKeepsClaim` (`HistoryIsClaimed`), assuming
  `~SyncsFail`. `ClaimInv` has one state of a wrapper, its CLI and the reservation
  that is `Sound`, for each wrapper, and one claimant; `MovesStep` is the step of one
  wrapper seen by itself, so that each action is judged once for it and once for the others.
- `FailureRestores` (`FailedInstallRestores`), `InstallsAgain` (`Reinstallable`, assuming
  `~FirstInstallDies`) and `ListenerIsReachable` (`BoundIsReachable`). `RestoreKept` says
  where profile and entrypoint are as the command read them (a profile that need not be
  changed never is); `RecordKept` what an entrypoint owes its manifest at each step.
  `ListenerInv`: who is between two steps on the path holds the lock, and a listener
  whose server accepts, or has just stopped, has its file there.
- `NeverTwoBrokers` (`OneBroker`), for any number of commands at once: `OldIsGone` says
  from which step on a command has seen to the agent of before the rename.
  `ReportsTheBroker` (`InstallReportsItsBroker`), for one command at a time that meets no broker still
  starting (`~MeetsStarting`); without either it does not hold. `ReportInv`: what a command has read is still true
  when it acts (`StillTrue`), and a descriptor that was not there before is of the broker it
  has started (`DescriptorOf`).
- `ControlIsReleased` (`ControlEndsWithTurn`). `ControlInv`: the connection and the provider
  agree on the Turn that has control, and it is the Turn that runs.
- `NoOtherHostIsKnown` (`NoOtherHostIsFound`). `FoundInv`:
  a Host keeps the store until its run has ended, so that one at a time may publish. What is
  removed under a Host that runs may be its own file, but what it finds is never another's.
- `NativeHasOneWriter` (`OneServedWriter`), wherever a link is lost. `BrokerInv`: what a
  record writes, or will, is reserved for it (`RecordsGood`), the adapter Session of a record that
  is held writes what is reserved for the record (`Owned`), a Host's reference is the one its record
  has (`ConfirmedRefs`), and no two reopens fill one adapter Session (`ServingGood`).
- `SettledFirst` (`SucceedsWhenSettled`), assuming `~Resumes`. `SettleInv`: while a Subagent the Session
  follows is called or runs, its occupancy is that of its call ("spawned"), or that of its run and every
  task list still to be read names it (`Tracked`); a message about a Subagent comes when its task is that
  far, and no task list behind the news of its start leaves it out while it runs (`MessagesGood`); a Turn without Root output is held and
  not cancelled (`SessionGood`); and who will interpret the result of a cancelled Turn knows that it
  was (`TransportGood`), so that this result is no success. With resumed Subagents the property needs more
  than the code has: `occupyAgent` (`background-occupancy.ts:50`) makes a Subagent running when
  the message to it is read, and a task list written before its task has started again
  then makes it one that owes its continuation, after which quiescence lets the Turn succeed while
  it runs. TLC finds this with `Resumes` and `OtherTasks`. The run `Sessions` has one Subagent that may be resumed
  and no other task, so that no such list is written.
- `RequestHasOneAnswer` (`AnsweredOnce`). `AnswerInv`: a request that may still be
  answered is in one place (`InOnePlace`): on its way up, with the Host, on its way down or
  pending with the agent, and an agent that has let go of it takes no answer.
- `SpendsAreNamed` (`OvercountsByNameOnly`). `UsageInv`: while the newest request may still be
  counted for the first time, by its message or by a reading (`Uncounted`), the count falls short of what was spent. `IdleParentIsQuiet` (`ParentIdleIsQuiet`), by `QuietInv`: outputs
  come in the order in which Turns start and end (`Ordered`), and a child announced as active is known
  to run, or its end is being read (`Shown`).
- `SessionsHaveOneWriter` (`OneWriter`) and `ReleasesSpareRequests`
  (`ReleaseSparesRequests`). `RuntimeInv`: who is served is the head of the
  Thread's line (`HeadInv`), a Session that is open on the saved history is the loaded one, the one
  being restored or the one that replaces it (`NativeInv`), and while a release closes
  a Session no request is admitted (`ReleaseInv`).
- `EventsAccepted` (`ProjectionAccepted`), for any number of calls, questions, messages, Segments and
  events, and whether or not a Segment may end without a text. The projector throws on an event that
  names an Item it does not have, one that is done or one it has already, so `ItemsInv` relates it to
  the adapter: what the adapter holds open, in its six records, is what the projector has live, no more and no
  less (`TurnOK`, with `HeldOpen` and `LiveItems`); an id the adapter has still to give is not among
  those the projector has met, since ids count up by kind, and a call or a question is named once (`NamesGood`); what Claude
  says names messages and calls that fit (`TalkTyped`, `Agree`); and on the wire an Item that changes files is shown by one
  card, and no text is updated once it has ended (`WireGood`). The lemma on each method of the adapter says which of its
  records it leaves alone. What ends all calls or agents at once is a fold over a set in
  whichever order `CHOOSE` takes them; the lemma on it goes by a smallest set for which it would fail.
- `LinuxForeignersSpared` (`LinuxSparesForeigners`) and `ObservedTreeHasEnded` (`ObservedTreeEnds`), for
  any number of processes and numbers the system reuses. `TreeInv`: a start time names one process
  and a process of the program has a living older parent of the program while it has a parent (`TableShape`); ledger, targets and
  hits are of processes that have been, and nothing but the root holds the root's number in the ledger (`LedgerShape`); on Linux
  what is known, targeted or hit and still lives is the program's (`OursOnly`); and while no process hides, each of the program's is in the
  ledger or has a living parent to be found by, all are in it while signals go out, and none is left when the
  Shim is done (`EachObserved`). That a scan misses none goes by the oldest process it would miss:
  its parent is older, so it was found.
- `ClientReadsEachOnce` (`ListsEachOnce`), for any number of Threads and any size of a page, provided the
  official list does not change while a request reads it (`~ChangesMeanwhile`; with it the property fails). `ListInv`: of the Threads a client must find, each has been
  read, in order, or lies behind the cursor and after all that were read (`Progress`); in a request, what is
  left is what comes after the external anchor and after the used part of the official batch (`ExternalLeft`,
  `OfficialLeft`), the external rows that were fetched are the first of those and
  enough to fill the page (`ExternalGood`), and a batch holds the first rows after its cursor, used in order
  (`BatchGood`). The cursor behind a part of a batch is right because as many rows that come first
  are the same rows.

Only model-checked:

- liveness under fairness (`SteerSettles`, `CallsSettle`, `OwnerLossEnds`, `RequestsSettle`,
  `FramesSettle`, `TurnsEnd`), which is beyond the prover;
- `EditLeavesNothing` and `EditStands`, over two Threads;
- `TranscriptAgrees`: that two readings of one Turn, live and from the transcript, give the same Items compares
  what two different programs of folds compute from any script;
- `SucceedsWhenSettled` when Subagents are resumed.

## 5. Not modelled

`PROJECT.json` lists every component with its status. Not modelled as a whole:

- Steering receipts (`HR/external-turn-steering.ts`): a map keyed by client id with
  eviction beyond 128, written and read in one step each.
- The types of the interface between Host and adapters, native picker, features and Thread history: conversions of
  data over little state.
- macOS app, build, packaging and release: outside the Host. The app's requests are the
  environment of `HotAttach`.

Inside the modelled components the content of data is abstracted: text, diffs, commands,
paths, catalogs, images, names and descriptions. So are the migration of old file
formats, Windows job objects, account rate limits, the backwards cursors of
thread/list, the switches and time limits of Desktop's tools and the observers of usage. The delegation records of the mapping store have no callers.

## 6. Plan

What is left, in the order of what a mistake would cost: 

1. The interaction of `ClaudeSession` with `ExternalTurns` in one specification: the
   coarser Session as an abstract specification of the finer.
2. Approvals and questions across a Thread's release and reload, beyond what `ThreadRuntime` has.
3. The account observers beside `OfficialRuntime`, and thread/search beside `ThreadList`.
