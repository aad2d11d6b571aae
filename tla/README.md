# A verification of ue-mcp

ue-mcp lets an MCP client drive the Unreal editor. A TypeScript server (a
daemon per project, reached through a stdio shim) offers tools; a tool call
becomes a JSON-RPC request on a WebSocket; a C++ plugin in the editor reads it
on a socket thread and runs its handler on the game thread.

    MCP client - stdio shim - daemon - EditorBridge ==WebSocket== bridge server - executor - game thread
                              (TypeScript, src/src)               (C++, src/plugin)

This directory holds TLA+ modules that model parts of it, the configurations
that TLC checks, and proofs that TLAPS checks. Paths are relative to the
repository's `src/` unless they start with a file name; the C++ files without a
directory are in `plugin/ue_mcp_bridge/Source/UE_MCP_Bridge/Private`,
`bridge.ts` is `src/bridge/bridge.ts`. `PROJECT.json` maps each definition to
its lines.

## 1. Inventory

| Component | State | Operations | What is hard | What makes it correct |
|---|---|---|---|---|
| **Game thread executor** (`GameThreadExecutor.cpp`) | one `FSharedExecState` per request; the modal-safe queue; the event pool; `bEditorReady`, `bShuttingDown` | `ExecuteOnGameThread` on socket threads; `Run` from the core ticker or from `DrainModalSafeQueue`; `SweepModalSafeQueue` | socket threads against the game thread; two runners; dialogs that nest; time-outs; teardown | a handler at most once; an answer that tells the truth; no trigger on an event that was given back; every caller comes back |
| **Status hooks and modal snapshot** (`EngineStatusHooks.cpp`, `MCPEngineStatus.cpp`) | is a dialog blocking, under a mutex | pre-tick, modal-loop tick, `GetActiveModal` | the snapshot is stale when read | nothing but modal-safe work under a dialog |
| **Bridge server** (`BridgeServer.cpp`) | connections, their threads, stop flag | accept, read, dispatch, dialog gate, `Shutdown` | teardown while handlers run | no thread outlives the server |
| **Editor bridge** (`bridge.ts`) | target project and port; socket; connect in flight; `pending`; `abandoned`; `connectedState` | `call`, `connect`, `ensureConnected`, `retargetProject`, `disconnect`, reconnect timer, handshake, socket events | callbacks of old sockets; state used after an await; late replies | the right editor; every call settles; a refusal means not sent; late replies are reconciled |
| **Project switch** (`project-switch.ts`) | the pair (project, target) | `switchProject` | awaits of other calls | no call reaches another project's editor |
| **Asset locks** (`dispatch/locking.ts`, `LockRegistry.cpp`) | leases with a TTL in the editor | `withAssetLocks`, `acquire_lock`, `release_lock` | lost answers, expiry during a run, re-entrance | two sessions never mutate one asset while both hold it |
| **Daemon start, discovery, handoff** (`daemon/daemon.ts`, `start-lock.ts`, `discovery.ts`) | two files shared by processes | take and release the start lock, publish and remove the record, hand off | read-then-remove on files, crashes, stale locks, deadlines | one published daemon per project; calls in flight are drained |
| **Stdio shim** (`daemon/shim.ts`) | `queue`, `waiting`, `swallow`, the socket | relay, reconnect, replay of `initialize` | a loss between any two steps | each request executed once at most and answered or told lost; `initialize` first; nothing executed after it was told lost |
| **Bridge WebSocket** (`BridgeWebSocket.cpp`) | reassembly buffer | frames, fragments, close | bounds | a message is whole or the connection closes |
| **Ports and state files** (`BridgePortConfig.cpp`, `BridgeStateFiles.cpp`, `bridge/port.ts`) | `port.json`, `instances/<pid>.json` | publish, resolve a live address | records that a crash left behind | a record is believed only of a running editor |
| **Dialog handling** (`DialogHandlers.cpp`, `editor/dialog-guard.ts`) | policies, the active dialog | list, respond, apply a policy | a policy applied from two ticks | a dialog is answered once |
| **Flows** (`flow/`) | the run, its steps, collected inverses, losses noticed, the snapshot | run a step, await the editor, run again, replay inverses, restore the snapshot | the editor drops, crashes or answers late at any step | no change is made twice; what is missing or left behind is in the report |
| **Call pipeline** (`dispatch/`) | - | gates in front of a call | order of the gates | |
| **Editor control, deployment** (`editor/`) | the editor's process, build files | start, stop, build | processes and files | |
| **Checkpoints**, **PIE scripts**, **sessions**, **handlers**, **tool surface**, **extensions**, **CLI** | | | mostly sequential | |

Interactions: a session owns one `EditorBridge`; its calls travel over the one
socket; the plugin answers in order of completion; a socket thread handles one
request at a time and blocks in the executor; the dialog gate reads a snapshot
that the game thread's hooks write; the asset locks are two more bridge calls
around a call. The hazards of each part, with their lines and with the
properties that cover them, are listed in `PROJECT.json`.

## 2. Modules

| Module | What it is |
|---|---|
| `RequestExecution` | abstract: what running a request promises to its caller |
| `GameThreadExecutor` | the executor, the game thread's call stack, the dialog gate, the hooks, readiness, teardown; implements `RequestExecution` |
| `CallDelivery` | abstract: what a client that passes calls on over sockets promises to whoever makes a call |
| `EditorBridge` | the client: target, sockets, calls, the editors and the wire as their environment; implements `CallDelivery` |
| `AssetLocks` | the editor's lock registry and the calls that servers wrap in its locks |
| `DaemonStart` | the start lock, the discovery record, the start, handoff and shutdown of daemons |
| `StdioShim` | the relay between an MCP client and the daemon, with both ends of its socket |
| `FlowRun` | a run of a flow under the guard against the loss of the editor |
| `GameThreadExecutorProofs`, `EditorBridgeProofs`, `AssetLocksProofs`, `DaemonStartProofs`, `StdioShimProofs`, `FlowRunProofs` | the theorems of the module they are named after |
| `StdioShimDelivery` | the shim with a note of what its daemons have read; under which condition it implements `CallDelivery` as well, with the proof |
| `MCGameThreadExecutor`, `MCEditorBridge` | the symmetry sets of the runs |
| `MCAssetLocks` | two calls of two sessions, their paths in opposite orders |
| `MCDaemonStart`, `MCStdioShim`, `MCFlowRun` | the modules as the runs check them |

The modules meet at their edges. A call of `EditorBridge` is what `AssetLocks`
calls an answered or failing request and what `FlowRun` calls sent, answered,
rejected or late. A request that an editor of `EditorBridge` runs is one that
`GameThreadExecutor` runs. The daemons that `StdioShim` reads answers from are
those that `DaemonStart` publishes. Each environment is at least as wide as the
module that stands behind it: it may answer, fail, answer late or never.

An operator introduced by a comment that begins "Mutant:" is a definition with
a plausible bug; no specification uses it. It stands for the definition after
it, to see that the property it is listed with in `PROJECT.json` notices.

### GameThreadExecutor

A *request* is one call of `ExecuteOnGameThread`. `pc` says where its socket
thread is, and each wait slice, each access to the shared state and each
acquisition of `EventMutex` is an action of its own, because the game thread
may step between any two of them. What only one thread can observe is merged:
`Register` is the construction of the state and `AddTicker`, since nobody sees
the state before the ticker does.

The game thread is one thread with a call stack, `stack`: `Run` frames (with
the runner they were called by), modal loops and drains. `TickerFires` needs an
empty stack: the core ticker does not tick in a modal loop. A handler on top of
the stack may raise a dialog (`ModalOpens`), whose modal loop drains the
modal-safe queue (`DrainStarts`, `DrainNext`, `DrainEnds`), whose handlers may
raise the next one. `PreTick` is Slate's pre-tick, which captures the status
and sweeps.

| Code | Model |
|---|---|
| `DoneEvent`, `EventMutex`, `bAbandoned`, `Claimed`, `Result` | `event`, `lock`, `abandoned`, `claimed`, `result` |
| `Wait(50 ms)` true / false | `Wake` / `SliceElapses`, then `WaitAgain` or `Abandon` |
| `ReturnSynchEventToPool` and `DoneEvent = nullptr` under the mutex | `ReturnEvent`, `ForgetEvent` |
| `Run` | `CheckAbandoned`, `Claim` or `ClaimLost`, `HandlerReturns`, `LockEvent`, `Trigger` |
| weak entry, `Pin` | `Pins`: the caller's frame or the ticker's delegate still holds the state |
| the dialog gate of `ProcessMessage` | `PassesDialogGate`, read when the request enters |
| `G_EditorReadyTicker`, `BeginShutdown` | `SetEditorReady`, `BeginShutdown`; nothing ticks after teardown began |

`GEditor`, the call stack, the opening and closing of dialogs belong to the
engine and are marked external in the map. The call a handler makes to
`ExecuteOnGameThread` from the game thread runs directly and waits for nobody:
it is part of that handler's step.

### EditorBridge

Node runs one callback at a time and drains the microtasks before the next
event. A step is one event (a socket's `open`, `close`, `message` or error, a
timer, the callback of `send`), one synchronous entry (`Call`, `SwitchProject`,
`ConnectDirectly`, `Disconnect`) or one resumption after an await (`Resume`,
`ConnectFailed`). Events wait until every resumption has run (`Quiet`); entries
do not, because they may come from another call's continuation, which is the
coarser assumption.

A port stands for the project whose editor binds it. `Target` lets the
resolution of a live record, of a configured port and of a pin come out in
every way the code has a branch for: `found` needs a running editor of that
project, because `resolveLiveBridgeAddress` checks the process. The port that
the process was started with is taken to belong to the project it was started
on. `targetGeneration` is only compared for equality with the value an attempt
captured: `fresh` is the set of attempts for which the comparison would
succeed. A `WebSocket` object is a member of `Sockets`, used again only after
its `close` was handled.

| Code | Model |
|---|---|
| `this.ws`, `readyState`, `connectInFlight`, `capabilities` | `ws`, `link`, `inFlight`, `capabilities` |
| `pending`; `abandoned`, `answeredAt` | `pc[c] = "pending"`; `abandoned`, `answered` |
| `connect()` up to its first event | `Connect`, `Dial`, `CloseSocket` |
| `open`, `error` or connect timer, handshake, `close` | `Opens`, `DialFails`, `HandshakeEnds`, `Closes` |
| reply, time-out, failed `send` | `Reply`, `TimesOut`, `SendFails` |
| `waitForConnection` | `pc[c] = "waiting"`, `WaitSeesEditor`, `WaitRunsOut`, `Woken` |

`CallDelivery` sees of a call whether it is still kept, was sent or has run
(`Reached`, from the fate of its frame), and what its caller was told
(`ToldOf`): the editor's answer, `NOT_CONNECTED` ("refused"), or a time-out or
lost connection ("unknown").

The environment is the editors: they start, stop with the frames they have not
read, run a frame that is in the kernel's buffers even when its socket is gone,
answer or do not, and close a connection at any time. The order of frames on
one socket plays no part in any property; a frame is in the set `frames`.

### AssetLocks

A lock request is one step on the editor's game thread (`ExecuteAcquire`,
`ExecuteRelease`); the call that asked goes on when it is answered
(`AcquireAnswered`, `ReleaseAnswered`), when the bridge rejects (`CallFails`)
or when a dialog refuses the request (`RefusedByDialog`). Three ways lead out
of the acquire loop without the task running under locks: busy and dialog
release what was taken and throw (`GiveUp`); a failed request releases it and
runs the task without locks (step `unlocked`), as the code's comment says. The
request behind a failure may have been executed, may be executed later, or may
be lost (`Lost`).

| Code | Model |
|---|---|
| `Locks`, `ExpiresMono - Now` | `holder`, `left` (ticks; `Tick` counts down, so no clock is needed) |
| `PurgeExpired` at the start of `Acquire` and `List` | `Purged` |
| the loops of `withAssetLocks` and `releaseAll` | `step`, `at`, `held`, `then` |
| `lockOwnerId` of an `EditorSession` | `OwnerOf[c]`; gone for good after `OwnerCrashes` |
| `classifyAction(...).paths` after `NormalizeKey` | `Paths[c]` |
| `asset(lock)`, `asset(unlock)`, `asset(unlock_all)`, `asset(list_locks)` | `Lock`, `Unlock`, `UnlockAll`, `ListLocks` |

Two history variables say what the properties except. `lapsed` holds the locks
that were taken from a call other than by its own release: expired, forced,
released by another call of the session, or gone with the editor. It is written
by those causes, never by an acquire, so an acquire that takes a lock away
cannot excuse itself. `adrift` holds the leases that an agent took by hand, or
whose request failed or was refused: no call will release these, and
`LeasesEnd` says that time does.

### DaemonStart

A process is in the step its next file operation belongs to (`pc`), because
another process may step, and this one die, between any two of them. `Launch`
stands for whoever starts `daemon run`: a shim whose `ensureDaemon` found
nobody, or a user. `Earlier` is a process of the past: it serves, or it is dead
and has left a record, a lock, or a lock without a pid in it.

| Code | Model |
|---|---|
| the start lock file: its pid, its content, its age | `lock.by`, `lock.written`, `lock.old` (10 s while unreadable, 5 min afterwards: `LockAges`) |
| the discovery record | `record`; `LiveRecord` when its process is alive |
| `waitForStartTurn`, `tryTakeStartLock` | `Look`, `Open` (the exclusive create), `Write` (into the file that was opened), `Inspect`, `Reap`, `Reread` |
| `runDaemon` with the lock | `Start`, `StartFails`, `AwaitEnds` or `AwaitRunsOut` (the deadline), `CheckRival`, `Publish` |
| `releaseStartLock` | `Release` (reads), `Unlink` (removes) |
| handoff, shutdown, `removeDiscovery` | `HandOff`, `Stop`, `Withdraw` (reads), `Unrecord` (removes) |

Four histories carry what the properties except, and only the step that goes
wrong writes them: `raced` and `recordRaced` when a file was removed other than
the one its remover had read, `aged` when a live starter's lock was taken for
stale by its age, `overran` the daemons whose successor stopped waiting for
them after 120 s and published. The request for a handoff may fail or be
refused (`requestHandoff` warns at most); a daemon that did not hear it stays,
and its successor waits until the deadline. A pid is not used twice; a version
is a number.

The excuse for a record that was removed by mistake is as narrow as it can be:
`recordRaced` excuses nothing unless a wait for a handoff ran out before. Up to
then `DaemonIsFindable` says that the read and the removal of `removeDiscovery`
are about one record, although a successor may be publishing: it publishes
after its predecessor has removed its record, not when that begins to shut
down (the mutant `AwaitEndsEarly`).

### StdioShim

The shim's callbacks are steps: a message of the client (`OnMessage`), the
socket's open (`Connect`), an answer (`OnAnswer`), its close (`OnClose`). The
daemon's end reads, answers and closes; what it has not read is lost with the
socket. Between the daemon's close and the shim's `close` event the socket is
"closing": messages go into the queue then, which is the window of a finding.

| Code | Model |
|---|---|
| `ws` and its `readyState`; `queue`; `waiting`; `swallow` | `link`; `queue`; `waiting`; `swallow` |
| the kept `initialize` and `initialized` messages | what of them is in `sent` |
| `toDaemon`, `flush`, `connect` | `ToDaemon`, `FlushBehind`, `Connect` |
| the close listener | `OnClose` |
| `ws-transport.ts` | `DaemonReads`, `DaemonAnswers`, `DaemonCloses` |

The client follows the protocol (`Ready`): `initialize`, then `initialized`
after its answer, then requests.

`StdioShimDelivery` maps the same state to `CallDelivery`. Whether a request
that was lost with its socket had been read is nowhere in the shim's state, so
the module notes it in an auxiliary variable, `executed`, which no step reads.

### FlowRun

`guardedRun` is the machine of `pc`: at the step boundary an editor that has
dropped is awaited ("await"), the task runs ("run"), a failure during which the
editor dropped is a loss ("back": await it), and what only reads is run again
("again"). The runner is the flowkit library, modelled from the hooks it is
given: steps in order (`WalksOn`), `Completes` or `Fails`, after a failure the
inverses in reverse order (`InverseEnds`), and `Ends` with the snapshot.

| Code | Model |
|---|---|
| `drops`, its copy per attempt, `bridge.isConnected` | `drops`, `before`, `connected` |
| policies `resume`, `rollback`, `fail` | `RunsAgain`, `EditorIsBack`, `RunIsLost` |
| the disconnect listener | `Drop`; unsaved work is worked out there |
| `unsavedBeforeLoss`, events, tolerated and failed steps | `unsaved`, `unknown`, `ignored`, `failed`, `undoFailed` |
| `restoreSnapshot` | `ReadTree(paths)`: what `git read-tree` does with arguments behind `--` |

The editor answers, answers late (`late`), drops the connection, crashes with
what was not saved, and returns. Three things are assumed of it: the answer to
a step says whether the change was saved, an edit's answer carries its inverse,
and a task that throws is a failed step. Of an inverse nobody asks whether it
was saved (`flow-tool.ts:359` notes completed steps only), so it may have been
or not: `effect` says whether the change is there now, `disk` whether it is in
the saved files, and a crash goes back to these. `forgotten` is the history of
the changes that an inverse had taken back and a crash brought back.

## 3. Runs

All runs set `CHECK_DEADLOCK FALSE`: a system in which every request has been
answered, every process has left, every run has ended, or whose module was shut
down, may stop.

| Run | Bounds | What it shows |
|---|---|---|
| `executor_modal` | an ordinary request and a modal-safe one, 2 events, 2 slices, 2 dialogs | at most one run per request; a caller gets its own run's result; only modal-safe work under a dialog; no returned event is triggered; neither sweep nor drain loses a request; no start after a give-up that came in time; the executor implements `RequestExecution` |
| `executor_fair` | as the first, 1 slice, 1 dialog | callers return; modal-safe work is served; stale entries leave |
| `bridge_calls` | 2 calls, 2 sockets, 2 projects, history of 1 | the right editor; late events of old sockets do no harm; a call is told lost only with the socket that carries it; late replies are reconciled; the bridge implements `CallDelivery`: at most one run, a result is that run's, refused means not sent, answers are final |
| `bridge_settles` | 2 calls, 2 sockets, 1 project | every call settles, also one that is pending when another one's send fails |
| `bridge_switch` | 1 call, 2 sockets, 2 projects | a finding, see 6 |
| `locks_calls` | 2 sessions, 2 assets, 2 calls that name both in opposite orders, one session locks by hand, TTL of 1 tick | exclusion; nothing stranded; leases end; calls end |
| `daemon_start` | 3 processes, one of them of the past; 2 releases; 2 deaths or failed starts | one starter; one daemon, those aside whose successor stopped waiting for them, and its record finds it; no downgrade; every start comes to an end |
| `daemon_reclaim` | the same without deaths | a finding, see 6 |
| `shim_relay` | 3 requests, 3 losses | written once; `initialize` first; nothing forgotten or left in the queue; every request answered or told lost |
| `shim_lost` | 3 requests, 2 losses | a finding, see 6 |
| `flow_losses` | 2 steps of every kind, every policy, 2 drops | no edit is executed twice; a success and a failure account for every change; the run ends |
| `flow_snapshot` | 2 steps, 1 drop | a finding, see 6 |

Why the bounds are enough to meet the cases. Two dialogs are what it takes to
have one raised by a handler that itself runs under another. Two events let an
event be taken again after one request gave it back while the other's is still
out; there is one per request, so `Register` never waits for the pool, which in
the code grows. Two slices tell a wait that goes on from one that ends. Two
sockets are an old one whose events are late and its successor; with two calls,
one can be pending on the old socket while the other is sent on the new one, and one can
be pending while the other's frame cannot be sent. One project is enough for
`bridge_settles`: a retarget to the project itself closes the socket and voids
its attempt as any other. A history of one with two calls is the cap being reached. Two projects are a
project left and a project entered; a third adds nothing that a switch back
does not. Two assets in opposite orders are the classic deadlock of lock after
lock; a call with two paths has a release that fails between two others. A
lease of one tick can end before any step; that a lease taken again may become
shorter needs two, and is left to the theorem. Two starters and a process of
the past are a race for the lock, a lock or record left behind and a takeover
at once; two deaths are a starter dead inside the section and its reclaimer
dead inside its own. Two releases are older, equal and newer. Three requests
are one on the wire, one queued behind it and one that arrives during the
replay; three losses are a loss, a loss during the replay that follows, and one
more after a replay that succeeded. Two steps are a change that completed and
one that is lost; two drops are a loss and another while it is waited out or
rolled back. `MaxModals` bounds the dialogs of a behaviour, `MaxCrashes`,
`MaxLosses` and `MaxDrops` the faults; `Slices`, `History` and the size of the
sets stand for constants of the code, and the theorems hold for every value of
all of them.

Symmetry is used where no liveness is checked: events in the executor, calls
and sockets in the bridge.

**Fairness.** `MutexSpec`: a thread leaves an `EventMutex` that it is inside
(the sections call `Trigger`, or `ReturnSynchEventToPool`, and nothing else).
The rest is the antecedent of each property, so that none is helped by what it
is not about. `CallersRun`, of `CallerReturns`: a socket thread is scheduled
until it returns; no game thread that ticks, no handler that returns.
`GameThreadTicks`, of `ModalSafeServed` and `StaleEntriesLeave`: the editor's
main loop goes on, its ticker and its drain reach every request, and handlers
return; no caller has to run. A request whose caller has given up is excused
from being served, but nothing makes a caller give up there: a behaviour in
which it waits for ever, a dialog on the screen, counts, and only the drain can
serve it. No dialog is ever assumed to close. `FairSpec` of the bridge: timers fire, microtasks run, a closing
socket closes and what the kernel received is read. No editor has to start, to
run a request or to answer. `FairSpec` of the locks: `bridge.call` answers or
rejects (its timer), a task settles, time passes, and a request on the wire is
executed or lost. No call is fairly begun, no owner crashes or locks fairly.
`FairSpec` of the daemons: a process runs on, its wait for a handoff has a
deadline, and time passes over a lock; no daemon has to stop or to hand off, no
call has to end. `FairSpec` of the shim: the reconnect loop, which has no
limit, succeeds in the end; a closing socket closes; a daemon that stays reads
and answers, since its calls have time-outs. The bound on losses says that
losses end. `FairSpec` of the flow: the runner goes on, and each of its waits
has a timer. The editor need not run, answer or return.

## 4. Proofs

The proof modules take the constants as they are: any sets of requests, events,
calls, sockets, projects, sessions, assets and processes, any number of slices,
dialogs, steps, deaths, losses and drops, any history, any paths and TTL. Every
invariant, every action property and both refinements that passing runs check
are statements of theorems. The assumptions are those of the constants
(`ASSUME` in the modules, evaluated by every run).

*Executor.* `TypeCorrect` comes first; the stack is a sequence, so lemmas say
what appending, removing and replacing its last frame do to its type.
`AtMostOneRun`: `runs[r]` is one only where `claimed[r]` is set, and a request
that was refused at a gate, or by `Run`, is not inside a handler; the invariant
ties a request's frames, its `pc` and its result together.
`OnlyModalSafeUnderModal`: a frame above a modal loop was entered by a drain,
drains take from the queue, and only modal-safe requests are ever in the queue;
a ticker frame is at the bottom of the stack. `CompletionIsOwn` and
`TriggerIsLive` need the discipline of the event pool: an event is in the pool
or held by one request; an event in the pool is not set; who is inside
`EventMutex` is where the mutex says; so a frame about to trigger holds a live
event of its own request, whose result is written. `WorkIsKept` (`WorkInv`): a
caller abandons only past its wait, and while it waits its ticker is registered
and, if modal-safe, its request is in the queue or in the frame of a drain; a
sweep spares live entries (`SweepSpares`), and a ticker is destroyed only by a
`Run` that found the request claimed or abandoned. `GivingUpCancels` is the
action property from the same facts: `Run` tests `bAbandoned` before it claims,
and nothing clears it. `ExecutorKeepsPromise` (`PromiseInv`): a request has one
frame past its claim at most (`HandlerInv`), and it is answered without having
been abandoned only when a gate refused it or its `Result` was written
(`AnswerInv`); then each of the executor's steps moves the abstract phase,
replies, or stutters (`MapsStep`). `MutexIsBrief`: whoever is inside
`EventMutex` when a caller comes to return its event is the game thread at the
call of `Trigger`. `ShutdownIsFinal` (`EndInv`): teardown takes over an idle
game thread, and a request that was entered and has no result has a frame in
its handler, so at shutdown there is none.

*Bridge.* `OnlyRightEditor`, `OnlyCurrentCapabilities` and
`LiveSocketAnnounced` follow from `EditorInv`: besides themselves it says which
states the installed socket, the fresh attempts and the unsettled handshakes
can be in (a fresh attempt is dialling, and there is none while a socket is
installed; an installed socket is not dialling; without an unverified pin the
port is the project's). `PendingIsCurrent` and `RefusedWasNotSent` follow from
`CallInv`: a pending call rides on the installed socket or there is none, and a
call that has not been sent has left no frame and no trace at an editor.
`LossesAreReal` needs that no socket but the installed one is open (`OpenInv`):
then whoever leaves `ws` severs it, and what is told lost goes with it
(`LossStep`).
`BridgeKeepsPromise` is the refinement of `CallDelivery`: `DeliveryInv` adds
that a pending call was sent (`PendingSent`) and that a call without an answer
has no outcome (`LateInv`); then each step sends, runs, answers or refuses one
call (`OneCallMaps`), or settles those of a socket that is given up
(`GivesUpMaps`). Each
step is one lemma or one case, and the steps that leave the relevant variables
alone are dispatched together. `LateReplies` needs `LateInv` besides: a
remembered call timed out, and one that has not settled has no outcome and no
reply yet.

*Asset locks.* `TypeCorrect` needs that the loops stay within a call's paths
(`LoopInv`). `LocksExclude` follows from `HeldIsLeased`: what a call believes
it holds (an answer on its way counts) is leased to its session, unless it
lapsed. An acquire keeps it (`AcquireKeepsLeases`: the purge spares live
entries, and a grant over one is re-entrant); whatever takes an entry away
lapses the claims on it (`EntriesRemoved`, the `Tick` case); a call's own steps
add no claim (`CallStepClaims`). Two sessions cannot both be the holder of one
entry. `LocksAreNotStranded` is an account of who owes each entry
(`LeasesOwed`): a call that holds it, is releasing it, or has the answer on its
way, unless it is adrift. The request frames on the wire are awaited by their
call or their lease is adrift already (`FramesAwaited`), so a late grant cannot
create a debt that nobody owes.

*Daemon start.* `IInv` has five parts: the lock belongs to whoever is in the
section (`LockOwned`), unless a removal or its age broke it; the process whose
lock is about to be reaped is gone (`SeenGone`), and so the removal is of what
was read; the files name processes that were launched, and a daemon that is
taken over from is the older one (`Named`); a starter past `Reread` knows every
live daemon that is recorded and has waited for its end before it publishes
(`StarterKnows`), which is what the second read is for; a daemon that serves
and was not overrun is recorded (`Findable`), and whoever removes a record
removes its own until one was overrun. `StartersExclude`, `DaemonFound` and `DaemonAlone` are
consequences; `RecordNotDowngraded` follows from what the starter knows when it
publishes.

*Stdio shim.* A queued request occurs once and was on no socket yet
(`OnceInv`); before the first connection everything is in the queue,
`initialize` in front, and later on an open socket carries it first
(`OpeningInv`); the answer that is swallowed is not one the client waits for
(`SwallowInv`); the queue waits for a handshake only (`QueueInv`). Lemmas say
what appending and taking the head do to the elements of a sequence.

`AnsweredOnce` and `ExecutedOnce` hold whatever is lost (`ToldInv`,
`ExecutedInv`): an answer on the wire is of a request that was read, is not
answered yet, and is waited on or was told lost.

*Flow.* `OnceInv` counts the executions a step had or may yet have; `RunnerInv`
ties the runner's place to the guard and the request; `HonestInv`: a change is
there, or was only in memory when the editor was lost and is reported once the
loss is noticed; `UndoInv`: a change that is there has an inverse yet to
replay, or its step is in the report or runs now, or a crash brought it back.

*One promise at two places.* The bridge and the shim both pass calls on over
sockets that may be lost. `CallDelivery` says once what that should mean, and
the two are measured by it. The bridge keeps it. The shim keeps it in the
behaviours in which no socket is lost while a request that the client waits on
is queued (`RelayKeepsPromise`, from `NoLossWhileQueued`); without that
condition it does not, which is the finding `shim_lost`.

*What isolates the findings.* A counterexample shows one way to a wrong state;
these theorems say that it is the only one. `OnlyASwitchMisleads`: if the
target does not move while a call is on its way, no call reaches another
project's editor. `OnlyQueuedLossesMislead`: if no socket is lost over a queued
request, nothing that was told lost is sent later. `LockWouldKeepOneDaemon`:
if a starter removes for stale only the lock that it has read, one daemon
serves at most, until a live starter's lock gets too old or a wait for a
handoff runs out. `NothingElseMisleads`: without these three, and whatever else
happens, the daemon that serves is alone and recorded; nothing is excused
there. `RestoredInVain`: after a failed run the files are restored exactly
when the snapshot names no path. The conditions are satisfiable: ordinary runs
without that one step satisfy them.

*What liveness rests on.* The prover has no rules for fairness, so the liveness
properties `CallerReturns`, `ModalSafeServed`, `StaleEntriesLeave`,
`CallSettles`, `LeasesEnd`, `CallEnds`, `StarterSettles`, `NeverLeftHanging`
and `RunEnds` are model-checked only. Their safety cores are proved for every
size: a number of steps that is left, which each step of the actor lowers and
no step of anybody else raises. `CallersAreBounded`: 2 Slices + 6 steps of a
socket thread. `CallsAreBounded`: 2 L + 3 steps of a call with L paths under
asset locks. `RunIsBounded`: 20 N + 9 steps of a flow of N steps (`Rank`).
`CallsOnlyAdvance`: the places of a call of the bridge form no circle, and
`NoCallIsStranded`: a call that waits for a connection waits for an attempt
that is under way. That the actor does take its steps is its fairness.

## 5. Plan

Done: the executor and its abstract specification, the bridge, the asset locks,
the daemons' start, the shim, the flow, and the proofs of their safety. What is
left, in this order:

1. `CallPath`: `CallDelivery` composed with `RequestExecution` over the wire,
   abstractly at-most-once execution with an honest answer, as a tool sees it.
   Each side is shown to promise its half; the composition is about the frame
   that is executed after its caller has been answered, and needs only the two
   abstract modules.
2. `BridgeServerLifecycle`: accept loop, connection threads and their registry,
   teardown with its two waits; composed with the executor.
3. The loop of `ensureDaemon` (find, spawn, wait) in front of `DaemonStart`, in
   the place of `Launch`.
4. Retries and hooks of flows; nested flows.
5. Dialog policies applied from two ticks; records of ports; reassembly of
   fragments.

## 6. Findings

* **`bridge_switch`.** `bridge.ts:859-876`: a call that waits for a connection
  while the project is switched is sent to the editor of the other project.
* **`daemon_reclaim`.** `start-lock.ts:85`: `rmSync` removes whatever the name
  points to. Of two starters that read a dead process's lock the slower removes
  the lock that the faster has taken since and takes it itself; both are in the
  section, and two daemons may serve. Nobody needs to have died:
  `liveStartLock` also returns null for a lock that was released between the
  failed create and the read, and the removal then hits whoever created it next.
* **`shim_lost`.** `shim.ts:190`: on a loss every waiting id is told that its
  outcome is unknown, those included that are only in the queue. These are
  flushed to the next daemon afterwards and run then; a client that read the
  state back and retried has its change applied twice.
* **`flow_snapshot`.** `git-snapshot.ts:82`: `git read-tree --reset -u <tree>
  -- Content` ends with "fatal: Not a valid object name Content" (git 2.39):
  `read-tree` takes trees, not pathspecs. With paths, which is the default, a
  snapshot is never restored.

Observations without a run of their own:

* *Executor.* `GameThreadExecutor.cpp:297` answers "the request was not run"
  whenever the wait ended for `bShuttingDown`; the handler may have finished
  by then. It cannot be half way (`ShutdownIsFinal`). The refinement maps this
  answer to "unknown".
* *Bridge.* `bridge.ts:757-762` announces "connected" also when the handshake
  settled because its socket closed; `connectedState` then stays true without a
  socket. `bridge.ts:910-913` nulls `this.ws` when a `send` fails; the `close`
  listener returns at its guard (1112), and the other pending calls wait for
  their timers, where the comment at 1134 says they are rejected. A `connect()`
  called directly (`set_project`, `start_editor`) is not recorded in
  `connectInFlight`, so a reconnect tick or a second call starts another
  attempt, and `closeSocket` makes the first one fail with "the bridge was
  retargeted while connecting".
* *Locks.* "Two agents editing the same asset serialize" (`locking.ts:12`), but
  the owner of a lock is the session, which all clients of a daemon share
  (`sessions/session.ts:79`, `daemon/daemon.ts:308`): their acquires are
  re-entrant, the first call to finish releases the lock of both, and an
  explicit `asset(lock)` is dropped by the agent's own mutating call. Servers
  in processes of their own do serialise.
* *Daemon.* `removeDiscovery` (`discovery.ts:75-80`) reads and then removes, so
  it can delete a successor's record, against its comment ("only if it is this
  process's"): after the successor has stopped waiting for it at 120 s, and
  only then (`DaemonIsFindable`). A handoff that failed, or that the old daemon
  refused, is logged at most: both daemons serve after the deadline, the new
  one recorded. `ensureDaemon` reads the record before
  the lock (`shim.ts:82-90`): a daemon that publishes and releases in between
  looks like neither. A handoff waits for calls of MCP clients only.
  `daemon.ts:942`'s comment does not hold past the deadline. The request for a
  handoff has no time-out.
* *Shim.* A message that arrives during the replay overtakes what is queued and
  `initialized` (`shim.ts:139`, `202`); `initialized` may be sent twice. A loss
  before the client's own `initialize` was answered tells the client it is
  lost, while the shim initializes the next daemon in its name and swallows
  that answer.
* *Flow.* `guardedRun` (`editor-loss.ts:177`, `191`) drops the inverse of a
  step that failed half way when the editor dropped meanwhile, where
  `docs/flows.md` ("Partial writes") says it is collected. Under `resume` a
  definite refusal during which the connection dropped becomes an unknown
  success. A drop between two steps triggers no policy: it is awaited. An
  inverse that worked, but whose change was not saved when the editor crashed,
  is in no report: `stepCompleted` (`editor-loss.ts:84`) knows steps only, and
  the files still hold the change.
  `restoreWhileDown` goes by the connection, not by the process.

## 7. Not modelled

Engine handlers are most of the repository's lines (`Handlers/`, some forty
groups): each is a sequential use of the engine's API on the game thread,
without state that steps of two actors could disturb; the executor sees one as
a step that may raise dialogs and returns. Tool declarations, code search,
extensions, the CLI, feedback and packaging keep no shared state either.
Building and deploying the plugin is file and process I/O.

*Bridge server.* The accept loop, the connection threads, their registry and
the waits of the teardown: sockets and OS threads whose hazard is a use after
free, below the level of these models. *WebSocket*: byte by byte and sequential
per connection. *Ports and state files*: a hash and small files; which record
is believed is a choice of `EditorBridge`. *Dialog handling*: matching text and
pressing buttons through the engine's UI; the dialog as such is in the
executor. *Checkpoints*: a shadow git repository, whose behaviour is git's.
*PIE scripts*: polling of the engine's play session.

Left out of modelled parts: in the bridge, following an editor's toolsets, the
list of registered actions and the publication of a requested port, which no
other part of the model reads. In the daemon, the loop of `ensureDaemon`, a
failing removal of a file, the HTTP surface and idle timers. In the shim, the
end of its input, messages a daemon sends of its own accord and other
notifications. In flows, retries, hooks, nested flows, conditions and skipped
steps, guards on calls, planning and the HTTP surface; and the losses that a
bridge has not noticed when a run ends. Authentication and the contents of
messages are outside the scope.
