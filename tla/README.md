# Verification of Piwork

Piwork runs the Pi coding agent for signed-in users. A browser talks over Caddy to
a Bun/Hono server (HTTP and WebSocket); the server keeps accounts in Postgres,
user data in per-user directories, and drives one Node child process per live
session (`rpc-entry` of Pi inside an operating-system sandbox) over JSONL on
stdin/stdout. This directory holds TLA+ models of the parts whose correctness
depends on the order of events, the TLC runs that check them, and proofs checked
by TLAPS.

Paths below are relative to the repository; server files without a directory are
in `web/server/`.

## Inventory

| Component | State it keeps | Operations | What makes it correct |
|---|---|---|---|
| RPC transport (`pi-rpc-transport.ts`) | pending map, write queue, closed flag, generation | request, abort, timeout, write, answer, close | a call settles once; none is left behind; an expired frame is not written; frames keep their order |
| Orchestrator (`session-orchestrator.ts`) | chain of operations per session, intentional stops, runtime states | create, activate, relaunch, kill, archive, unarchive, delete, shutdown | one child per session; archive and delete hold against concurrent activations |
| Launcher (`pi-launcher.ts`, `pi-readiness.ts`) | sessions, generations, runtimes, terminations | launch, kill, finalize, killAll | no process is lost; kill means gone |
| Runtime state (`session-runtime-state.ts`) | state and generation per session | begin, transition, remove | shows the state of the live child |
| Store (`session-store.ts`, `ws-bridge-persist.ts`) | `session.json` | save, saveSync, setArchived, remove | what was acknowledged is on disk |
| Bridge (`ws-bridge*.ts`) | browser sockets, adapter, offline queue, processed ids, event buffer | accept, enqueue, flush, attach, detach, publish, subscribe | no acknowledged prompt is lost or run twice; events arrive once, in order |
| Browser (`web/src/ws.ts`) | unacknowledged prompts, last sequence, generation | send, resend, acknowledge, reconnect | every prompt gets an answer |
| Runner lock (`runner-lock.ts`, `scripts/backup-local.sh`) | two lock files | acquire, heartbeat, release, back up | one writer; no backup beside a writer |
| Recovery (`operation-journal.ts`, `user-data-reconciler.ts`, `atomic-json-store.ts`, `workspace-state-store.ts`) | journal records, files, backups, quarantine | begin, execute, replay, reconcile, read, write | a crash loses no content; valid files stay |
| Event stream (`ws-bridge-replay.ts`, `session-message-buffers.ts`, `web/src/ws.ts`) | event numbers, bounded buffer, pending interactions; the page's cursor | publish, subscribe, replay, snapshot, reconnect | the page shows the state of the session again after any loss |
| Runtime control (`remote-pi-runtime.ts`, `runtime-control-*.ts`, `pi-runtime-service.ts`) | connections, pending requests, prepared and active scopes | launch, request, kill, status, events | one child; both processes agree which generation is active |
| Task manager (`pi-task-manager.ts`, `pi-runtime-brokers.ts`) | tasks, parent contexts, modes | start, prompt, stop, clean up, switch mode, dispose | no process escapes; Plan mode has no writable child |
| Apps (`apps-control-plane.ts`, `apps-outbox-worker.ts`, `apps-runtime-coordinator.ts`) | app, deployments, leases, outbox, receipts | begin, select target, claim, prepare, deploy, complete, retry | no queued work is lost; what is served is what is recorded as current |
| Cloudflare accounts (`apps-cloudflare-account-service.ts`) | previews, OAuth attempts, connection | provision, claim, release, expire, refresh, revoke | rows, accounts and tokens agree; a revocation stays |
| User space (`user-space-broker.ts`, `web/src/user-space.ts`) | pending operations, transfers, mounts, runtime epoch | read, authorize and write, check out, check in, revoke, drain | the agent is told what happened to the file, which happens once |
| Resources (`resource-governor.ts`, `user-disk-quota.ts`) | reservations | reserve, release, account | reservations and releases balance |
| Runtime registry (`local-runtime-registry.ts`) | per-user runtimes, gates with epochs | acquire, drain, revoke, dispose | no lease survives its revocation |
| Web client (`web/src/`) | view state, latest-write coordinator | enqueue, drain | the last value written wins |

Interaction: routes call the orchestrator; the orchestrator calls launcher, store
and bridge and receives `onExit` and `onNotification` callbacks; the launcher owns
child and transport; the bridge owns the adapter, which uses the transport; the
bridge and the orchestrator both write `session.json`. All server code runs in one
JavaScript thread: it is atomic between two `await`s, and interleaves at each.
In the split deployment the launcher lives in a second process behind a control
socket. Several server processes may share one database; they meet in the rows of
Apps and Cloudflare accounts only.
The runner lock and the backup are separate operating-system processes that
interleave at every system call.

Hard to test are therefore: everything that changes across an `await` (queued
operations, child exits, replaced adapters), the races of timers with answers, the
crash of the server between an effect and its record, the loss of a socket with an
acknowledgement in it, and the file-system races between processes.
`PROJECT.json` lists the most important of these under `hazards`, each at its line.

## Modules

Each component module states its variables with the field of the code they stand
for, one action per operation or per stretch of code between two awaits, and its
properties at the end. Operators named `Mutant_...` are faulty variants of the
definition that follows them; `PROJECT.json` pairs each property with one that
breaks it.

### `RpcCalls` and `PiRpcTransport`

`RpcCalls` is the contract of a transport towards its callers: a call starts,
settles at most once, and closing settles all open calls in the step that closes.
`PiRpcTransport` is one generation of `pi-rpc-transport.ts`: `pending` and the
outcome of each request, the write queue and the frame being written, what the
child has been sent, and lines on stdout. Requests carry a signal that aborts
locally or remotely; timeouts fire at any time while the request waits; answers may
be late, duplicated, unknown or malformed; the child may exit, fail, close stdout,
or the generation be superseded, at any step. `ImplementsCalls` is
the specification of `RpcCalls` (`C == INSTANCE RpcCalls WITH ...`) under the mapping
that forgets the queue and the frames.

Left out: capturing stderr, the bytes of a frame, and the branch for a duplicate
request id (ids are counted up, so it cannot be reached).

### `SessionLifecycle`

One session across orchestrator, launcher, runtime state, store and bridge. Several
callers issue operations; bodies are chained per session as `serialize` does, and
the parts of archive and delete that run outside the chain are steps of their own
(`stage`). `phase` is the await at which the running body stands. A child may exit
at any time or outlive its SIGKILL; the disk quota and transport failures stop it;
shutdown may come in between.

Abstractions: consuming the bootstrap is part of a successful readiness, so the
branch of the launch failure that finds an already active runtime is unreachable; a
child without a pid is one that has died already; the runtime session index is a
projection nothing reads back; progress callbacks are left out; the flush at the end
of a launch is bounded by the timeouts of the transport and belongs to
`MessageDelivery`.

### `MessageDelivery`

A prompt from the browser to Pi: the browser's ordered map of unacknowledged prompts, a
socket with frames in both directions that drops with what is in it, the server's checks
of a frame, the bridge with its reservation, duplicate check, offline queue and flush,
the prompts that server code injects, `session.json`, the adapter, and a Pi child that
accepts, rejects, does not answer or dies. `rpc` holds the call each sender awaits; it
is settled in one step and its sender resumes in another, so adapters, sockets and queue
may change in between. A crash clears the memory of the server and keeps the disk and
the browser. A prompt that Pi ran after the transport gave up on it is the same as one
it ran before, because neither leaves a trace the bridge can see.

Two kinds of prompts are dropped by the server without an answer, in the model as in the
code. A frame over the byte limit (`Oversize`, `ws-bridge.ts:654`) closes the socket,
and what is behind it in the socket is lost with it; one that is malformed or whose text
is over its own limit (`Invalid`, `ws-bridge-browser-ingest.ts:133`, `:339`) is ignored.
The browser checks neither limit. It keeps both prompts as unacknowledged and resends
them on every connection (`web/src/ws.ts:1108`), in the order they were typed, so that
an oversize prompt closes each new socket and blocks the prompts behind it (`Blocked`).
`EveryPromptAnswered` therefore speaks of the other prompts: those within the limits and
not behind an oversize one.

Left out: the dropping of the oldest of 4096 processed ids; a save that throws;
replayed events, which can only acknowledge a prompt earlier; a user who leaves the
session, which abandons the prompts not yet acknowledged. No order is stated between
direct and queued prompts, since the code lets a direct one overtake. Queue and
processed ids are always saved synchronously, so that memory and disk agree whenever
the server crashes. The event `session:relaunch-needed` has no subscriber, so a
queued prompt waits for the next attachment.

### `RunnerLock`

Server processes and one backup on one file system. Each system call is an action.
A heartbeat truncates and writes in two; a descriptor opened before the file was
removed writes to the removed file. `Recorded` are servers started by the script
that also records a pid for the backup to check. A payload grows stale when its writer has
died, and also when its process was suspended for longer than the 45 seconds.

A lock that is empty, just created or being rewritten, counts as stale in the code, so that
two writers are possible (`SingleWriter`, below). `LockSound` says that this is the only
way: without a removal of a lock taken for stale (`taken`), there is one writer at most.

### `UserDataRecovery`

One state file with its backup, the journal records that recover it, and the life of
the application in between. Each durable effect is an action; a crash may fall
between any two and a disk call may fail. Contents are numbered, so that the model
can tell which content is lost. Reading through `AtomicJsonStore`, with its own move
of corrupt content to the side, and writing are actions of the running application.

### `AppsDeployment`

One App on one database: the rows of the control plane (`app`, `dep`, `outbox`,
`lease`, `receipts`), the outbox workers of several server processes (`run` is their
place in `doPoll` and in the handler of a queued deployment), and the Cloudflare
account they change (`exists`, `live`). Each transaction and each call to Cloudflare
is an action. Users begin, roll back, archive, restore and select targets in between;
workers die, stall until their lease has run out, fail, and stop with a batch in
hand. A lease token is the worker that drew it, because the code draws a fresh one
for each run; that of a dead worker, or one whose `releaseLease` failed, is `Lost`. A record
that was retried may be passed over while it backs off (`BacksOff`).

Left out: custom domains, renaming, the status column of receipts and the receipts of
the Worker script and its assets, which are written like the one modelled.

### `CloudflareAccounts`

The accounts a deployment goes to. Previews (`pv`, `prov`, `account`) are provisioned,
selected, claimed, released and expired; OAuth attempts (`att`, `cb`) are consumed
once and exchanged; the connection (`conn`, `flight`, `revoking`) is refreshed by
several servers, each with a read, a call and a compare-and-store. `valid` are the
tokens Cloudflare accepts: a refresh invalidates the one it replaces. The deployment
and its App are kept as far as these operations read and write them; how it is run is
`AppsDeployment`.

Calls and their failures are told apart. An account exists as soon as Cloudflare made it
(`account`); its request may reject the answer ("failing", and the account is discarded)
or never see one ("blind", and nothing knows of the account). The audit behind the
update that makes a row ready may fail, which sends a ready row into the catch clause:
its account is discarded while the row stays ready. A discard (`disc`, `Discard`) is a
call of its own after the transaction; its failure is swallowed, and a damaged
credential means that it is not made. `astray` holds the previews one of these failures
befell, and nothing else is excused: `NoOrphanAccount` and `AccountBehind` hold for all
others. A refresh may fail to be recorded in either of its updates
(`RefreshUnrecorded`); other database failures in clean-up code count as the death of
the server.

`discardTemporaryAccount` is optional in the client's interface, and the HTTP client of
the repository (`apps-cloudflare-account-client.ts:160`) does not implement it.
`CanDiscard` stands for a client that has it. Without it, as deployed from this
repository, an account that is given up stays at Cloudflare until it expires there; the
other parts of `PreviewsAgree` do not depend on it.

Left out: proof of work and abuse limits, encryption and contents of credentials, and
several connections of one user, which share no row.

### `RuntimeControl`

One session of the split deployment. The Web runs one job at a time (the orchestrator
serializes them): launch is a status request, a preparation, and a bootstrap that is
answered when the child is ready. Connections are numbered; a request of a broken
connection goes on at the Runtime with its answer dropped, and the close event of the
old connection may come after the new one is open. `prepared` and `active` are the
maps of the service, `lgen`, `linfo` and `children` those of its launcher.
A restart of the Web forgets its side, adopts a child it finds active, or launches.

The answer of a launch only resolves its promise (`Resolve`). The launch goes on in a
later microtask, where it subscribes to the events of its generation (`Attached`), while
`handleData` handles the remaining frames of the chunk. An exit among them is heard by
nobody (`missed`), and the Web keeps a generation the Runtime has deleted until the next
kill or launch. `AgreeWhenQuiet` excludes exactly this case. It says nothing of the time
after a broken connection, a restart or a failed kill. After a failed kill the Runtime
has no active entry, and the next kill answers true beside the child
(`pi-runtime-service.ts:621`); `ChildSound` still holds then.

Left out: authentication and decoding of frames, flow limits, validation of paths,
the shutdown operation, and the death of the Runtime process, which takes every child
with it.

### `EventReplay`

One page that follows one session. Every published event takes a number; those that
can be replayed stay in a bounded buffer, unless a single one exceeds its byte budget.
A subscription carries the page's cursor and is answered by a replay, or, where the
buffer does not reach back far enough, by a history snapshot that is awaited while
publishing goes on. The page drops what its cursor has passed, clears and restores
its pending interactions, and reconnects by timers that depend on whether it is
visible. The server may restart, which begins the numbers again.

The page's run state has two sources that the bridge's does not have. After a kill the
orchestrator broadcasts `session_lifecycle_update` (`Lifecycle`), of which the page makes
"stopped" where the bridge's snapshots say "disconnected"; and a prompt of the page's own
shows it running at once (`SendPrompt`, `own`), which the next run state corrects, but a
prompt that is dropped or refused brings none. `RunAgree`, a part of `PageAgrees`, names
both exceptions. What a subscription
selects from the buffer (`Selected`) and what a replay does to the page (`Replayed`)
are recursive functions, so that the proofs can follow them.

Left out: acknowledgements (`session_ack`, stored and never read), frames of older
sockets (ignored by the page), paging of histories, tool and delta events, which take
the path of a message, and prompts (`MessageDelivery`).

### `UserSpace`

A folder of the user's machine that only the browser can touch. The child asks, the
broker broadcasts to the pages of the session, one page acts and answers. Reads are
answered by any page; a write is authorized for one socket first; a check-out is an
upload into staging; a check-in is staged, downloaded, leased over HTTP, and written.
`wrote` counts what really happened to the folder, so that it can be compared with
what the agent is told (`out`). The child is revoked, drained and launched anew
(`epoch`, `drain`, `drained`), pages lose sockets and are reloaded, HTTP answers are
lost, the mount changes and the session is deleted meanwhile.

Left out: paths and hashes; the disk quota of staging; failing removals; `shell_exec`,
whose file operations are those above; the mounting of a live session; the sandbox
generation, which changes with the epoch; disposal of the broker at shutdown.

A write may fail behind its effect, when the workspace was replaced meanwhile
(`web/src/user-space.ts:334`), and the agent is then told that it failed. `Truthful`
therefore speaks of writes the server ends by itself ("rejected", "removed") and of
those reported as done, and not of a failure the page reports. Removing the session
waits for authorized writes, not for check-ins: one that already has its commit lease is
rejected while its page writes it (`user-space-broker.ts:387`). `CheckinTruthful` names
that exception. It is stated for check-ins of one page that holds the folder and is not
reloaded; with two holders the statement fails, as `checkin_downgraded` shows.

### `TaskManager`

The sub-agents of one root session. A task record holds its status, the await its
start stands at (`at`), its entry in the map (`listed`), its process and capability
(`proc`, `ctx`), its own mode, and the place of its cleanup. It ends by completion,
timer, abort, exit, stop, the root's switch to Plan mode or disposal, of which the
first counts. A kill may fail, and the cleanup is then repeated by the next stop. A launch
may fail and leave its process behind, when that outlives SIGKILL (`pi-launcher.ts:935`).

Left out: the notification of the parent, steering, waiting and listing, the limit on
retained results, the broker's copy of the mode. Failed and stopped outcomes are one
value.

## Runs

| Run | Shows | Bounds | Distinct states |
|---|---|---|---|
| `transport` | `FramesSound` (what resolved was written, frames keep their order), expired frames unwritten, `RpcCalls` implemented; every request settles | 2 requests, 1 extension response, 2 stdout lines | 412,704 |
| `lifecycle` | no process lost; `Coherent` (none doubled, adapter on a live child, usable runtime current); kill leaves nothing; every operation returns | 3 operations of six kinds | 433,886 |
| `delivery` | acknowledged prompts are never lost, run at most once more per crash, have one holder; every prompt within the limits is acknowledged or answered with an error | 2 of: a prompt, an oversize one, an invalid one, an injection; queue of 1, 2 generations, 1 crash; any number of drops and rejections | 474,800 |
| `runner_lock` | `LockSound` (one writer until a lock is taken for stale; no lock file is left by refused or finished processes) | 3 processes, 1 backup | 33,884 |
| `recovery` | `Recovered` (survives crashes, a clean reconciliation leaves no corrupt file, completed means done); content is kept | 3 operations, 2 faults, 3 crashes, 2 writes | 29,231 |
| `apps_deployment` | `RowsAgree` (ready is ready, completed is final, one runner); no queued work is lost; receipt before resource; what becomes current is served; queued deployments end | 2 deployments, 3 generations, 2 workers, 2 attempts, batches of 1, 1 fault | 481,105 |
| `cloudflare_accounts` | `PreviewsAgree` (credentials cleared, no orphan account, none discarded in service, a claim sticks); the active connection holds a valid token; a revocation stays; a deployment on a preview settles | 2 previews, 2 attempts, 2 servers, 2 tokens, 1 fault (`Faults`: a crash, an unheard failure, a change of generation); an owner with an expired preview, with or without a connection, or with a given-up attempt; a client that can discard | 588,638 |
| `runtime_control` | `ChildSound` (one child, requests reach their own); killed is gone; both sides agree when quiet; every job ends | 3 jobs, 1 drop, 1 restart, 1 failing kill | 474,815 |
| `event_replay` | `PageAgrees` (pending interactions and run state, once all frames are handled); no live event is dropped; the page catches up | 1 interaction, 1 message, buffer of 1, 3 steps, 1 fault | 1,052,753 |
| `user_space` | what the server declares failed or done of a write or a check-in is true, with the exceptions named above; at most one page writes; a new child starts after the old writes; operations settle | 1 operation of any kind, 2 tabs, 3 epochs, 3 sockets, 1 fault | 301,786 |
| `task_manager` | `NothingEscapes` (each process is in the map, disposed is quiet); Plan mode holds; outcomes stick; every task ends | 2 tasks, depth 2, 2 mode changes, 1 failing kill, 1 exit | 340,190 |
| `checkin_downgraded` | a violation, see below | 1 operation, 2 tabs | |

Why these bounds are enough to meet the interesting cases:

- two requests give a pair of which either is ahead in the write queue, and two lines
  a late and a valid answer;
- three operations, or three jobs, give a launch, one that meets it and one queued
  behind both;
- two prompts, each of any of the four kinds, give a dropped one ahead of a good one or
  behind it, and a direct one beside a queued one. The drops of the socket and the
  rejections of Pi are not bounded, since the model does not count them;
- three steps give an event, a kill and a prompt, or a launch between two events, and a
  fault is a lost socket or a restart at any place; for more of them, the proofs hold;
- one fault in `AppsDeployment` and `CloudflareAccounts` is one of everything that may
  fail there, at any place. The proofs cover any number;
- a queue of one is full with one prompt in it, and a buffer of one overflows with
  the second event, so that a replay, a gap and a snapshot all occur;
- two generations give a replacement during a call; three epochs a launch, its
  revocation and the next launch;
- three processes give a holder, one that took a lock for stale and one that arrives
  after both; two workers a run and the one that takes its record over;
- a third crash interrupts the replay of a replay;
- the state of a user-space operation is touched by that operation, by sockets and by
  epochs only, so one operation of each kind meets everything that two would, except
  the limits on their number;
- two tasks are a parent with its child or two siblings. The limit on parallel tasks
  is then not reached.

Deadlock checking is off in every run, because each behaviour may end when its bounded
work is done.

## Statements the code does not keep

The modules state more than holds. Each property below is a statement of the code, its
tests or its documents, and TLC finds a behaviour of the modelled code that violates
it. `checkin_downgraded` is kept as a run; the others are reproduced by a
configuration with the module's specification without fairness (`Spec`; `LockSpec`,
`RecoverySpec`, `PageSpec`), `CHECK_DEADLOCK FALSE`, the constants given
here and that property alone.

| Property | Module and constants | Behaviour, against the statement |
|---|---|---|
| `NeverDowngraded` (invariant) | `UserSpace`, run `checkin_downgraded` | `user-space-broker.ts:1141` rejects the lease a tab asks for once more after its runtime was revoked, and the check-in fails although it was written. `web/src/user-space.ts:997`: once crossed, never downgrade the outcome to failure |
| `ReadyIsShown` (invariant) | `SessionLifecycle`, `MaxOps = 3`, `Kinds = {"activate", "kill"}` | after a kill has counted the runtime state past the launcher, the next launch is live while its state stays "stopped" (`session-orchestrator.ts:330`, `session-runtime-state.ts:49`) |
| `NoSpawnWhenArchived` (property) | `SessionLifecycle`, `MaxOps = 2`, `Kinds = {"activate", "archive"}` | an activation queued behind an archive starts a child (`session-orchestrator.ts:394`, against `:378`) |
| `ArchiveSticks` (property) | `SessionLifecycle`, `MaxOps = 1`, `Kinds = {"archive"}` | a save of the bridge (`ws-bridge-persist.ts:22`) removes the archived mark from `session.json`, against `docs/pi-rpc.md:172` |
| `DeletedIsGone` (invariant) | `SessionLifecycle`, `MaxOps = 2`, `Kinds = {"activate", "delete"}` | an activation in flight starts a child after the deletion answered ok (`session-orchestrator.ts:450`, against `:453`) |
| `SingleWriter` (invariant) | `RunnerLock`, `Runners = {r1, r2}`, `Recorded = {}` | a second server takes an empty lock file for stale (`runner-lock.ts:65`, against `:91`) |
| `BackupIsAlone` (invariant) | `RunnerLock`, `Runners = {r1}`, `Recorded = {}` | the backup takes an empty lock file for inactive (`runner-lock.ts:104`, against `docs/backups.md:16`) |
| `ValidKept` (property) | `UserDataRecovery`, `MaxRecoveries = 2`, `MaxFaults = 1`, `MaxCrashes = 2`, `MaxWrites = 1` | a left-over recovery moves away a file written since (`operation-journal.ts:257`, against `user-data-reconciler.test.ts:53`) |
| `HistoryShown` (invariant) | `EventReplay`, `Asks = {a1}`, `Msgs = {m1}`, `BufMax = 2`, `MaxSteps = 2`, `MaxFaults = 1` | a message published while the history is awaited can be missing from the page (`ws-bridge-browser.ts:45`), against the comment at `ws-bridge-replay.ts:38` |
| `AdoptedHears` (invariant) | `RuntimeControl`, `MaxJobs = 3`, `MaxDrops = 0`, `MaxRestarts = 1`, `MaxStubborn = 0` | a status request rebinds the entry and not the child's events (`pi-runtime-service.ts:571`), against the comment at `remote-pi-runtime.ts:465` |
| `LaunchBinds` (invariant) | `RuntimeControl`, as above | the generation announced for the next launch (`remote-pi-runtime.ts:457`) is not the one the Runtime's launcher counts, against `pi-launcher.ts:576` |

What this means for the passing properties. `NoOrphanProcess` and `Coherent` hold even
where `NoSpawnWhenArchived` and `DeletedIsGone` fail: the child there is unwanted and
still under the launcher's control. `RecoveryKeepsBytes` holds where `ValidKept`
fails: the content is in quarantine and not lost. `CheckinTruthful` holds while one
page holds the folder and is not reloaded, except for a session removed during the write.
`LockSound` holds until a lock is taken for stale. `AgreeWhenQuiet` and `KilledIsGone` of
`RuntimeControl` hold while no connection breaks and no kill fails, as stated, and
`AgreeWhenQuiet` but for an exit that came before its launch listened.

## Fairness

- `PiRpcTransport`: a timer armed for a request fires in the end, if the request
  still waits. Nothing is assumed of the child or of stdin.
- `SessionLifecycle`: a started body takes its next step, a queued operation starts
  once the chain is free, an abort returns (its request has a timeout), the wait for
  an exit times out. These are the JavaScript event loop and its timers. Nothing is
  assumed of the child: it need not exit.
- `MessageDelivery`: sockets reconnect, frames that were sent on an open socket are
  handled, calls time out, and a settled call resumes its sender. The network breaks
  connections finitely often: a connection that breaks each time before the browser is
  served lets no prompt through, whatever the code does. The closes of the server are not
  restricted. Nothing is assumed of Pi.
- `AppsDeployment`: the workers poll, each of their steps ends (every call has a
  timeout), and the clock lets dead leases and claims run out. The fairness is one
  for the system and not one per worker: a worker may be the slow one for ever.
- `CloudflareAccounts`: clock and cleanup timer, the poll of the worker, and the end of
  a selection that has begun. Users and Cloudflare need not act.
- `RuntimeControl`: frames of an open connection are handled, handlers end, a broken
  connection closes, and a child that was sent SIGKILL exits. Nothing is assumed of a
  running child, and a request to it need not be answered.
- `EventReplay`: delivery on an open socket, armed timers, and the report of a lost
  socket. Nobody has to show a hidden page again, which is the premise of `CatchesUp`.
- `UserSpace`: timers and file operations of the server end, a page goes on with what
  it has begun, and a socket that one side closed is closed by the other. Pages need
  not reconnect.
- `TaskManager`: launches, prompts and runs have deadlines, and kills end one way or
  the other. No child has to finish.


## Proofs

TLAPS proves for every value of the constants what the runs check on small ones. Each
component's proof states one inductive invariant, shows that the initial states satisfy
it and that every action keeps it, action by action, and derives the listed theorems.
Every safety property a passing run checks, invariant or action property, is a theorem.
`LifecycleProofs` holds the proofs of `SessionLifecycle`, `RunnerLock` and
`UserDataRecovery`; `ChannelProofs` those of `PiRpcTransport` and `EventReplay`; each
other component has a `...Proofs` module of its own.

`PiRpcTransport` (`ChannelProofs`): type correctness; `NoOrphanedCaller`;
`OutcomeStable`; `ExpiredNeverWritten`; `FramesSound`; and the refinement of `RpcCalls`.
Type correctness and "the waiting callers are exactly the pending map, empty once
closed" are inductive together; the refinement needs the second, because closing must
settle in one step exactly the calls that are open. The two action properties follow
from it: only a pending request changes its outcome, and only a pending request is
written. `FramesSound` needs `FramesInv` on top: the written frames and the queue ascend
each, everything queued comes after everything written, and no frame carries a number
that was not handed out, so that a new request goes last; an answer in the pipe is to a
written frame, so that what it resolves was written. The only assumption is that the
three bounds are natural numbers.

`SessionLifecycle` (`LifecycleProofs`): `NoOrphanProcess`, `OneChild`, `AttachedIsLive`,
`UsableIsCurrent`, their conjunction `Coherent` that the run checks, and `KilledIsGone`,
from the invariant `Inv`. None of them is inductive. `NoOrphanProcess` says that each
child is the registered runtime or that of the launch in progress; to keep it, one has
to know at which await the launch stands, which of its local generations is then the
latest one, and that there is no registered runtime while a launch is before its
registration. These are `PhaseFacts` and `RuntimeFacts`. They give `OneChild` (the two
cases exclude each other) and `KilledIsGone` (a kill that stands at its last await has
no launch beside it in the chain).

ASSUMEd of the constants: `MaxOps` is a natural number and `Kinds` a set of known
operation kinds.

`RunnerLock` (`LifecycleProofs`): `LockTypeOK` and `LockSound`, for any number of
servers beside a backup. Until a lock is taken for stale, a file at the path keeps every
other start from creating one, so that at most one server stands between creating its
file and removing it (`OneOwner`). The other half, `LockGoneAtRest`, speaks of the end;
`SomebodyAnswers` says the same of every moment: a lock file is never without a server
between creating it and removing it, or one that crashed in between. It holds although
release and retreat remove whatever file is there by then, another server's too: that
leaves none, and a heartbeat that creates it anew is that of a server still to release.
Assumed: `Recorded` are runners, and the name of nobody is none of theirs.

`UserDataRecovery` (`LifecycleProofs`): `Recovered` and `RecoveryKeepsBytes`, for any
number of operations, faults, crashes and writes. `RecordFacts` and `ExecutionFacts` tie
a journal record to what execution holds of it, so that a step waiting for its
checkpoint has been applied; from them no step overwrites a content. That a replay ends
with the backup restored needs more (`CrashOnly`): with crashes alone at most one
operation is incomplete, the replay still has it before it, and the disk shows how far
it is (`Progress`), whether or not the checkpoint of the last step was written.
`BegunHere` gives the corrupt file moved away by a runtime that met no failure. Assumed:
the bounds are natural numbers.

`EventReplay` (`ChannelProofs`): `PageAgrees` and `LiveNotDropped`, for any
interactions, messages, buffer limit, losses and restarts. `PageAgrees` speaks of a page
with nothing in flight and is far from inductive. The invariant (`ReplayInv`) says what
the frames in flight are for: on a connection that is up, a page that handles them in
order shows exactly the interactions and run state of the session, in its generation,
with its cursor behind the next number (`Follows`), up to the two exceptions of
`RunAgree`. A published event then extends both sides alike. A history or a replay does
not: after one the page only is not beyond the session (`Lags`), and it is the run state
and the snapshot sent behind it that make it follow again (`SendClosing`); this needs
the numbers of the buffer to ascend and none of its generations to be later than the
session's (`BufferOK`). For `LiveNotDropped` every number in flight is below the next
one (`Below`), and the cursor is too, unless the frame that resets it is still in
flight, as after a restart of the server. The functions that recurse over a sequence are
handled by the least place at which a claim about them would fail (`LeastNumber`, from
the library's minimum principle for well-founded relations). Assumed: the buffer limit
is positive, the bounds are natural numbers.

`MessageDeliveryProofs`: `TypeOK`, `AcknowledgedNeverLost`, `AtMostOncePerCrash` and
`OneHolder`, for any number of prompts, generations, drops, rejections and crashes.
None of the last three is inductive. The invariant `IInv` adds what each hop of a
prompt relies on:

- `Saved`: at every await session.json equals the queue and the processed ids in
  memory, so that a crash forgets no acceptance;
- `FrameFacts`: a frame on its way to the browser acknowledges only what is recorded,
  so that the browser can forget only such prompts;
- `HeldFacts`: what is recorded, not only what is acknowledged, is queued, has run or
  is announced as unknown;
- `CallFacts` and `QueueFacts`: a pending call carries its own prompt, neither queued
  nor recorded; the queue has no duplicates and holds only recorded or injected
  prompts;
- `RunFacts`: a prompt that some hand may still send has run at most `crashes` times.
  Without this the bound `1 + crashes` would not survive the next acceptance by Pi;
- `TakenFacts`: a call Pi took has run.

The crash is the step that decides it: it frees the prompts whose call was taken and
not yet recorded, which may then run once more, and `crashes` grows by one.
Assumed: browser prompts, injections and the flusher are different ids, the queue
limit is positive, the bounds are natural numbers.

`TaskManagerProofs`: `NothingEscapes`, `PlanHolds` and `OutcomeSticks`, for any number
of tasks, depth, mode changes, failing kills and exits. What the manager promises
depends on two waits: the switch to Plan mode and the disposal await cleanups they
started, while tasks go on starting and ending. `WaitFacts` and `DisposeFacts` say what
holds while they wait: every writable task in the map, or for the disposal every task,
is in a cleanup. `HeldFacts` is what the switch leaves once it succeeded, and
`ShapeFacts` what one task can still hold at each await of its start and its cleanup.
Assumed: the limits on depth and on parallel tasks are positive.

`UserSpaceProofs`: `TypeOK`, `Truthful`, `AtMostOnce`, `Fenced` and `CheckinTruthful`,
for any number of operations, pages, sockets and epochs. A socket belongs to one page
and never comes back (`SocketFacts`). A write is authorized once, for one socket, so
that only the page holding that socket may perform it, and once it has, neither it nor
a page reloaded since can ask again (`WriteFacts`). From the grant to the answer the
operation is spared, so a drain that waits for authorized operations waits for it
(`DrainFacts`), which is `Fenced`. Check-ins have no such socket; `CheckinFacts` is what
the lease gives while one page alone holds the folder: whatever ends it before its lease
leaves nobody who may write it. Assumed: at least one page, and
as many sockets as pages, since every page starts with one.

`AppsDeploymentProofs`: `RowsAgree`, `WorkNotLost`, `ReceiptFirst` and
`ServedIsCurrent`, for any number of workers, deployments, generations, attempts and
faults. A final phase never becomes active again and a generation is given to one
deployment only (`RowFacts`), so the place of a worker in its run goes on telling the
truth about the deployment it works on, whoever writes the rows meanwhile (`RunFacts`).
While no lease ran out under its runner, the lease row names the one worker in the
middle of a run; a release that failed leaves a token nobody works with. Assumed: the
bounds are positive, and a dead worker's token is nobody's.

`CloudflareAccountsProofs`: `PreviewsAgree`, `StoredIsValid` and `RevokedStays`, for
any number of previews, attempts, servers and tokens. The rows (`RowInv`) and the
tokens (`TokenInv`) are two invariants that do not need each other. For the accounts a
request in its catch clause or before a discard knows which account it means: its own,
of a row that is not in service, unless the failure that brought it there is counted as
`astray`. That gives `NoOrphanAccount` (if the client can discard) and its converse
`AccountBehind`. A token that was
issued is in the hands of one callback or one refresh until it is stored (`Private`),
so that undoing a callback revokes nothing that is stored; a stored token that was
replaced is still waited for by the refresh that replaced it (`Covered`). Assumed: the
bounds are positive.

`RuntimeControlProofs`: `ChildSound`, `KilledIsGone` and `AgreeWhenQuiet`, for any
number of jobs, broken connections, restarts and failing kills. `Safe` holds whatever
breaks. Its core: the Web takes a generation as its own only when an answer announces a
published child of it, so it never runs ahead of the launcher; while a child starts,
no request of a later generation exists, so none can bind the launcher's next one and
make a second child. `Quiet` holds while nothing broke: there is one connection, a
job has one request or one answer under way, each child is that of the entry or its
launch is under way, and a kill request is for the Web's own generation. `AgreeWhenQuiet`
needs the frames too, because a child may exit while the answer of its launch is on the
way: an answer that announces a child is taken back by the exit behind it (`Tells`), or
that exit was handled before the launch subscribed and is remembered in `missed`, and
otherwise the entry equals what the Web has, or its exit is in the inbox (`Agreed`). The
only assumption is that the bounds are natural numbers.

Only model-checked: all liveness, which is out of the prover's reach along with
`ENABLED`: that every caller, operation, prompt, deployment, preview, job, user-space
operation and task ends, and that the page catches up. Neither proved nor listed as a
property of a run: the full `TypeOK` of `SessionLifecycle`, of which `CoreType` is the
part the other proofs need.

## Hazards no property covers

`PROJECT.json` lists the hazards the properties are for. These are known and open:

- a direct prompt overtakes queued ones during a flush (`ws-bridge.ts:1589`): no order
  is promised;
- the oldest of 4096 processed ids is dropped (`ws-bridge-replay.ts:20`), and a save
  that throws after Pi accepted rejects without a handler (`ws-bridge.ts:1625`);
- a debounced save of an older state may be pending (`session-store.ts:298`);
- a token that is obtained and then discarded is not revoked at Cloudflare
  (`apps-cloudflare-account-service.ts:1343` and `:1806`);
- a prompt over the byte limit closes every connection it is sent on and blocks the
  prompts behind it, one over the text limit is resent for ever (`ws-bridge.ts:654`,
  `ws-bridge-browser-ingest.ts:339`): `EveryPromptAnswered` leaves them out;
- an exit in the same chunk as the answer of its launch is lost
  (`remote-pi-runtime.ts:481`), and after a failed kill the next one answers true
  (`pi-runtime-service.ts:621`);
- a temporary account whose discard fails, or that no client can discard, stays until
  Cloudflare lets it expire (`apps-cloudflare-account-service.ts:877`, `:971`), and an audit
  that fails discards the account of a preview that is ready (`:859`);
- the session is removed, or a second page is given the lease, while a page writes a
  check-in (`user-space-broker.ts:387`, `:836`);
- a second upload deletes the staged file of the first (`user-space-broker.ts:745`);
  staging is one flag in the model;
- `removeSession` throws half way (`ws-bridge.ts:784`);
- the exit of the root drops the task manager without waiting for its disposal
  (`pi-launch-options-builder.ts:482`); a result is announced to a parent that dies
  (`pi-task-manager.ts:326`); an Agent request overtakes a Plan request in the broker
  (`pi-runtime-brokers.ts:239`); settled tasks whose process still lives do not count
  against the limit (`pi-task-manager.ts:283`);
- writes of one scope overtake each other, and a value equal to an aborted write is
  not sent (`web/src/scoped-latest-write-coordinator.ts:58` and `:64`); reservations
  balance over the failure paths of a launch (`resource-governor.ts:134`). Both are in
  the plan.

## Not modelled, and the plan

In this order:

1. The full `TypeOK` of `SessionLifecycle` as a theorem.
2. `RuntimeRegistry` (gates with epochs, draining, revocation, disposal) together with
   `ResourceGovernor` and the disk quota: the reservations of a launch over its
   failure paths, composed with `SessionLifecycle`.
3. `ScopedLatestWrite`, `BootstrapChannel`, the debounced save of the session store,
   orphan session directories in `UserDataRecovery`.

Not planned: rendering and view state (explorer, previews, pages and dialogs, the
largest part of the source by lines); the user-space shell, an interpreter whose file
operations are those of `UserSpace`; authentication, roles and database access
(request-level checks without protocol state); sandbox profiles and path predicates;
bridges to programs outside the repository (browser, office); recordings, logging and
metrics; installation scripts; parsing of Pi's own JSONL.
