-------------------------- MODULE SessionLifecycle --------------------------
(***************************************************************************)
(* The life of one session across SessionOrchestrator, PiLauncher,         *)
(* SessionRuntimeStateRegistry and the parts of WsBridge and SessionStore  *)
(* they drive.  API operations of several callers meet here: the body of   *)
(* each is serialized per session (serialize), but every await inside it   *)
(* lets child exits, transport failures, quota stops and shutdown in, and  *)
(* what archive and delete do after their kill runs outside the            *)
(* serialization.  One action is the code between two awaits.              *)
(*                                                                         *)
(* Operators named Mutant_... are faulty variants of the definition that   *)
(* follows them, kept to show that the properties can fail.                *)
(***************************************************************************)
EXTENDS Naturals, Sequences

CONSTANTS
    MaxOps,  \* bound: API operations issued in one behaviour
    Kinds    \* which operations callers issue

OperationKinds == {"create", "activate", "relaunch", "kill", "archive", "delete"}

ASSUME LifecycleAssumption ==
    /\ MaxOps \in Nat
    /\ Kinds \subseteq OperationKinds

Ops == 1..MaxOps
NoOp == 0
NoGen == 0

VARIABLES
    (* PiLauncher *)
    gens,             \* generations.get(id), 0 when absent
    info,             \* sessions.get(id): presence or activity, generation, archived
    runtime,          \* generation of runtimes.get(id), NoGen when absent
    terminating,      \* runtime.terminating
    term,             \* terminateRuntime in flight: none, aborting, waiting
    procs,            \* generations whose OS process is alive
    (* SessionOrchestrator *)
    waiting,          \* operations chained behind the running one
    owner,            \* the serialized operation that runs, NoOp when none
    phase,            \* the await it stands at
    kind,             \* operation -> what it is
    stage,            \* operation -> its progress outside the serialized body
    opGen,            \* local generation of the running kill or launch
    launchGen,        \* local generation of PiLauncher.launch
    stopGen,          \* info.generation read when the running kill began
    drainOk,          \* result of launcher.kill seen by the running kill
    loadedArchived,   \* persisted.archived read when the running launch began
    rs,               \* runtimeStates snapshot
    intentionalStops, \* session is in intentionalStops
    shuttingDown,     \* orchestrator and launcher are shutting down
    (* SessionStore and WsBridge *)
    store,            \* session.json: presence, archived
    bridge,           \* bridge session: presence and its own copy of archived
    adapter           \* generation of the attached PiAdapter, NoGen when detached

launcherVars == <<gens, info, runtime, terminating, term, procs>>
localVars == <<opGen, launchGen, stopGen, drainOk, loadedArchived>>
queueVars == <<waiting, owner, phase, kind, stage>>
stateVars == <<rs, intentionalStops, shuttingDown>>
storeVars == <<store, bridge, adapter>>
vars == <<launcherVars, localVars, queueVars, stateVars, storeVars>>

InfoStates == {"none", "active", "exited"}
Phases == {"free", "refused", "stopping", "draining", "drained", "stopped",
           "relaunching", "launching", "indexing", "preparing", "starting",
           "materializing", "spawned", "cleaning", "connecting", "readying",
           "flushing"}
Stages == {"unused", "queued", "inside", "archiving", "purging", "forgetting",
           "done", "purged"}

NoInfo == [state |-> "none", gen |-> 0, archived |-> FALSE]
Larger(a, b) == IF a >= b THEN a ELSE b

-----------------------------------------------------------------------------
(* SessionRuntimeStateRegistry *)

RuntimeStates == {"none", "idle", "preparing", "starting", "connecting", "ready",
                  "stopping", "stopped", "failed"}

ValidRuntimeTransitions ==
    [idle       |-> {"preparing", "stopping", "failed"},
     preparing  |-> {"starting", "stopping", "failed"},
     starting   |-> {"connecting", "stopping", "failed"},
     connecting |-> {"ready", "starting", "stopping", "failed"},
     ready      |-> {"connecting", "stopping", "failed"},
     stopping   |-> {"stopped", "failed"},
     stopped    |-> {"preparing"},
     failed     |-> {"preparing", "stopping"}]

\* ensure(): a missing machine is created idle, at generation 0.
ensure == IF rs.state = "none" THEN [state |-> "idle", gen |-> 0] ELSE rs

begin(gen, state) ==
    IF gen > ensure.gen THEN [state |-> state, gen |-> gen] ELSE ensure

transition(gen, state) ==
    IF gen = ensure.gen /\ state \in ValidRuntimeTransitions[ensure.state]
    THEN [state |-> state, gen |-> gen]
    ELSE ensure

-----------------------------------------------------------------------------
\* A session restored from session.json at start-up (archived or not), or one
\* that has yet to be created.
Init ==
    /\ \/ \E archived \in BOOLEAN :
             /\ info = [state |-> "exited", gen |-> 0, archived |-> archived]
             /\ rs = [state |-> "stopped", gen |-> 0]
             /\ store = [state |-> "present", archived |-> archived]
             /\ bridge = [open |-> TRUE, archived |-> archived]
       \/ /\ info = NoInfo
          /\ rs = [state |-> "none", gen |-> 0]
          /\ store = [state |-> "absent", archived |-> FALSE]
          /\ bridge = [open |-> FALSE, archived |-> FALSE]
    /\ gens = 0 /\ runtime = NoGen /\ terminating = FALSE /\ term = "none" /\ procs = {}
    /\ waiting = <<>> /\ owner = NoOp /\ phase = "free"
    /\ kind = [o \in Ops |-> "kill"] /\ stage = [o \in Ops |-> "unused"]
    /\ opGen = 0 /\ launchGen = 0 /\ stopGen = 0
    /\ drainOk = FALSE /\ loadedArchived = FALSE
    /\ intentionalStops = FALSE /\ shuttingDown = FALSE
    /\ adapter = NoGen

-----------------------------------------------------------------------------
\* The rest of archiveSession follows its kill without an await of its own: only
\* the body chained behind it can start in between.
Settling == \E o \in Ops : stage[o] = "archiving"

\* The running body resumes from the await it stands at.
Resumes(p) == phase = p /\ ~Settling

-----------------------------------------------------------------------------
(* Requests: what each API does before its serialized body *)

\* Operations are issued in order of their numbers.
Issues(o, k) ==
    /\ ~Settling
    /\ k \in Kinds
    /\ stage[o] = "unused"
    /\ \A p \in Ops : p < o => stage[p] # "unused"
    /\ kind' = [kind EXCEPT ![o] = k]

\* serialize(): the body is chained behind the operations before it.
serialize(o) ==
    /\ waiting' = Append(waiting, o)
    /\ stage' = [stage EXCEPT ![o] = "queued"]
    /\ UNCHANGED <<owner, phase>>

\* killSession, archiveSession and relaunchSession chain at once.
RequestQueued(o, k) ==
    /\ k \in {"kill", "archive", "relaunch"}
    /\ Issues(o, k)
    /\ serialize(o)
    /\ UNCHANGED <<launcherVars, localVars, stateVars, storeVars>>

\* create(): saves the authority record, then launches.
RequestCreate(o) ==
    /\ Issues(o, "create")
    /\ store.state = "absent"
    /\ store' = [state |-> "present", archived |-> FALSE]
    /\ serialize(o)
    /\ UNCHANGED <<launcherVars, localVars, stateVars, bridge, adapter>>

\* activateSession(): unknown, archived and live sessions return before chaining.
RequestActivate(o) ==
    /\ Issues(o, "activate")
    /\ IF \/ info.state = "none"
          \/ info.archived
          \/ runtime # NoGen /\ info.state # "exited"
       THEN /\ stage' = [stage EXCEPT ![o] = "done"]
            /\ UNCHANGED <<waiting, owner, phase>>
       ELSE serialize(o)
    /\ UNCHANGED <<launcherVars, localVars, stateVars, storeVars>>

\* hardDeleteSession(): kills first only when the launcher has a live entry.
RequestDelete(o) ==
    /\ Issues(o, "delete")
    /\ IF info.state = "active"
       THEN serialize(o)
       ELSE /\ stage' = [stage EXCEPT ![o] = "purging"]
            /\ UNCHANGED <<waiting, owner, phase>>
    /\ UNCHANGED <<launcherVars, localVars, stateVars, storeVars>>

-----------------------------------------------------------------------------
(* PiLauncher.kill and terminateRuntime *)

\* kill() with a runtime: join the termination in flight, or start one; only the
\* first attempt sends the RPC abort.
JoinTermination ==
    /\ terminating' = TRUE
    /\ term' = IF term # "none" THEN term
               ELSE IF terminating THEN "waiting" ELSE "aborting"

\* The abort was answered or timed out: generation invalidated, SIGTERM sent.
AbortDone ==
    /\ term = "aborting" /\ ~Settling
    /\ gens' = Larger(gens, runtime + 1)
    /\ term' = "waiting"
    /\ UNCHANGED <<info, runtime, terminating, procs>>
    /\ UNCHANGED <<localVars, queueVars, stateVars, storeVars>>

\* What the termination's outcome means for an operation that awaits it.
ResumeDrained(ok) ==
    /\ phase' = CASE phase = "draining" -> "drained"
                  [] phase = "relaunching" -> "launching"
                  [] OTHER -> phase
    /\ drainOk' = IF phase = "draining" THEN ok ELSE drainOk

\* Faulty wait: the termination promise is never settled when the child survives.
Mutant_TerminationTimesOut ==
    /\ term = "waiting" /\ ~Settling
    /\ term' = "none"
    /\ UNCHANGED <<gens, info, runtime, terminating, procs, localVars, queueVars>>
    /\ UNCHANGED <<stateVars, storeVars>>

\* The child survived SIGTERM and SIGKILL for both waits: the runtime is retained.
TerminationTimesOut ==
    /\ term = "waiting" /\ ~Settling
    /\ term' = "none"
    /\ ResumeDrained(FALSE)
    /\ UNCHANGED <<gens, info, runtime, terminating, procs>>
    /\ UNCHANGED <<waiting, owner, kind, stage, opGen, launchGen, stopGen, loadedArchived>>
    /\ UNCHANGED <<stateVars, storeVars>>

\* A transport failure after publication, or killAll for an exceeded disk quota:
\* launcher.kill outside serialize.
StopRuntime ==
    /\ runtime # NoGen /\ term = "none" /\ ~Settling
    /\ JoinTermination
    /\ UNCHANGED <<gens, info, runtime, procs>>
    /\ UNCHANGED <<localVars, queueVars, stateVars, storeVars>>

\* orchestrator.shutdown() and launcher.killAll().
Shutdown ==
    /\ ~shuttingDown /\ ~Settling
    /\ shuttingDown' = TRUE
    /\ IF runtime # NoGen THEN JoinTermination ELSE UNCHANGED <<terminating, term>>
    /\ UNCHANGED <<gens, info, runtime, procs, rs, intentionalStops>>
    /\ UNCHANGED <<localVars, queueVars, storeVars>>

\* The exit event of a child: of one still in readiness (nobody listens yet), or of
\* the registered runtime: finalizeRuntime, onExit, and the end of a termination.
ChildExit(g) ==
    /\ g \in procs /\ ~Settling
    /\ procs' = procs \ {g}
    /\ IF runtime # g
       THEN UNCHANGED <<gens, info, runtime, terminating, term, phase, drainOk, rs, adapter>>
       ELSE /\ runtime' = NoGen
            /\ terminating' = FALSE
            /\ info' = IF info.state = "none" THEN info ELSE [info EXCEPT !.state = "exited"]
            /\ adapter' = IF adapter = g THEN NoGen ELSE adapter
            /\ rs' = transition(g, IF intentionalStops THEN "stopped" ELSE "failed")
            /\ gens' = IF term = "aborting" THEN Larger(gens, g + 1) ELSE gens
            /\ term' = "none"
            /\ IF term = "none" THEN UNCHANGED <<phase, drainOk>> ELSE ResumeDrained(TRUE)
    /\ UNCHANGED <<waiting, owner, kind, stage, opGen, launchGen, stopGen, loadedArchived>>
    /\ UNCHANGED <<intentionalStops, shuttingDown, store, bridge>>

-----------------------------------------------------------------------------
(* killSession *)

\* The next operation of the chain starts its body.
Dequeue(o, k) ==
    /\ owner = NoOp
    /\ waiting # <<>>
    /\ o = Head(waiting)
    /\ kind[o] \in k
    /\ waiting' = Tail(waiting)
    /\ UNCHANGED kind

Enter(o, to) ==
    /\ owner' = o
    /\ phase' = to
    /\ stage' = [stage EXCEPT ![o] = "inside"]

StartKill(o) ==
    /\ Dequeue(o, {"kill", "archive", "delete"})
    /\ IF info.state # "active"
       THEN /\ Enter(o, "refused")
            /\ UNCHANGED <<rs, opGen, stopGen>>
       ELSE LET gen == Larger(info.gen + 1, rs.gen + 1) IN
            /\ Enter(o, "stopping")
            /\ rs' = begin(gen, "stopping")
            /\ opGen' = gen
            /\ stopGen' = info.gen
    /\ UNCHANGED <<launchGen, drainOk, loadedArchived, intentionalStops, shuttingDown>>
    /\ UNCHANGED <<launcherVars, storeVars>>

\* The body of killSession returns {ok}; what archive and delete do next.
KillReturns(ok) ==
    /\ owner' = NoOp
    /\ phase' = "free"
    /\ stage' = [stage EXCEPT ![owner] =
                   CASE kind[owner] = "kill" -> "done"
                     [] kind[owner] = "archive" ->
                          IF info.state = "active" /\ ~ok THEN "done" ELSE "archiving"
                     [] OTHER -> IF ok THEN "purging" ELSE "done"]
    /\ UNCHANGED <<waiting, kind>>

\* The browser session was cleaned up and there was nothing to kill.
RefuseKill ==
    /\ Resumes("refused")
    /\ KillReturns(FALSE)
    /\ UNCHANGED <<launcherVars, localVars, stateVars, storeVars>>

\* The stopping row is projected; launcher.kill.
DrainRuntime ==
    /\ Resumes("stopping")
    /\ intentionalStops' = TRUE
    /\ IF runtime = NoGen
       THEN /\ phase' = "drained"
            /\ drainOk' = (info.state # "active")
            /\ UNCHANGED <<terminating, term>>
       ELSE /\ phase' = "draining"
            /\ JoinTermination
            /\ UNCHANGED drainOk
    /\ UNCHANGED <<gens, info, runtime, procs, opGen, launchGen, stopGen, loadedArchived>>
    /\ UNCHANGED <<waiting, owner, kind, stage, rs, shuttingDown, storeVars>>

\* Faulty killSession: the result of launcher.kill is not looked at.
Mutant_FinishKill ==
    /\ Resumes("drained")
    /\ phase' = "stopped"
    /\ rs' = transition(opGen, "stopped")
    /\ UNCHANGED <<waiting, owner, kind, stage, intentionalStops, shuttingDown>>
    /\ UNCHANGED <<launcherVars, localVars, storeVars>>

\* onRuntimeStopped and browser cleanup are done.
FinishKill ==
    /\ Resumes("drained")
    /\ IF drainOk
       THEN /\ phase' = "stopped"
            /\ rs' = transition(opGen, "stopped")
            /\ UNCHANGED <<waiting, owner, kind, stage>>
       ELSE /\ KillReturns(FALSE)
            /\ UNCHANGED rs
    /\ UNCHANGED <<intentionalStops, shuttingDown, launcherVars, localVars, storeVars>>

\* The stopped row is projected.
CloseKilled ==
    /\ Resumes("stopped")
    /\ adapter' = IF adapter = stopGen THEN NoGen ELSE adapter
    /\ KillReturns(TRUE)
    /\ UNCHANGED <<launcherVars, localVars, stateVars, store, bridge>>

-----------------------------------------------------------------------------
(* archiveSession, unarchiveSession and hardDeleteSession after their kill *)

\* setArchived in the launcher and in session.json; the bridge keeps its own copy.
FinishArchive(o) ==
    /\ stage[o] = "archiving"
    /\ info' = IF info.state = "none" THEN info ELSE [info EXCEPT !.archived = TRUE]
    /\ store' = IF store.state = "present" THEN [store EXCEPT !.archived = TRUE] ELSE store
    /\ stage' = [stage EXCEPT ![o] = "done"]
    /\ UNCHANGED <<gens, runtime, terminating, term, procs, bridge, adapter>>
    /\ UNCHANGED <<waiting, owner, phase, kind, localVars, stateVars>>

UnarchiveSession ==
    /\ ~Settling
    /\ info' = IF info.state = "none" THEN info ELSE [info EXCEPT !.archived = FALSE]
    /\ store' = IF store.state = "present" THEN [store EXCEPT !.archived = FALSE] ELSE store
    /\ <<info, store>>' # <<info, store>>
    /\ UNCHANGED <<gens, runtime, terminating, term, procs, bridge, adapter>>
    /\ UNCHANGED <<queueVars, localVars, stateVars>>

\* removeSession (which throws on an active runtime), closeSession, store.remove
\* and removeSessionDirectory.
PurgeSession(o) ==
    /\ stage[o] = "purging" /\ ~Settling
    /\ IF runtime # NoGen
       THEN /\ stage' = [stage EXCEPT ![o] = "done"]
            /\ UNCHANGED <<info, gens, storeVars>>
       ELSE /\ info' = NoInfo
            /\ gens' = 0
            /\ adapter' = NoGen
            /\ bridge' = [open |-> FALSE, archived |-> FALSE]
            /\ store' = [state |-> "removed", archived |-> FALSE]
            /\ stage' = [stage EXCEPT ![o] = "forgetting"]
    /\ UNCHANGED <<runtime, terminating, term, procs>>
    /\ UNCHANGED <<waiting, owner, phase, kind, localVars, stateVars>>

\* The name was removed: runtimeStates.remove, intentionalStops.delete, {ok: true}.
ForgetSession(o) ==
    /\ stage[o] = "forgetting" /\ ~Settling
    /\ rs' = [state |-> "none", gen |-> 0]
    /\ intentionalStops' = FALSE
    /\ stage' = [stage EXCEPT ![o] = "purged"]
    /\ UNCHANGED <<waiting, owner, phase, kind, shuttingDown>>
    /\ UNCHANGED <<launcherVars, localVars, storeVars>>

\* A rename, an accepted browser message or a new authority pin: the bridge writes
\* session.json from its own record, archived included.
BridgePersists ==
    /\ bridge.open /\ ~Settling
    /\ store' = [state |-> "present", archived |-> bridge.archived]
    /\ store' # store
    /\ UNCHANGED <<bridge, adapter, launcherVars, localVars, queueVars, stateVars>>

-----------------------------------------------------------------------------
(* launchSession and PiLauncher.launch *)

Finish(o) ==
    /\ owner' = NoOp
    /\ phase' = "free"
    /\ stage' = [stage EXCEPT ![o] = "done"]

\* The launch throws.  Only create() cleans the runtime state and the directory;
\* activate and relaunch leave the runtime state where it was.
LaunchFails ==
    /\ Finish(owner)
    /\ UNCHANGED <<waiting, kind>>
    /\ IF kind[owner] = "create"
       THEN /\ rs' = [state |-> "none", gen |-> 0]
            /\ store' = [state |-> "removed", archived |-> FALSE]
       ELSE UNCHANGED <<rs, store>>

\* The bodies of create and activate: activate reloads the record, and does not
\* look at archived again.
StartLaunch(o) ==
    /\ Dequeue(o, {"create", "activate"})
    /\ IF store.state # "present"
       THEN /\ Finish(o)
            /\ UNCHANGED loadedArchived
       ELSE /\ Enter(o, "launching")
            /\ loadedArchived' = store.archived
    /\ UNCHANGED <<opGen, launchGen, stopGen, drainOk>>
    /\ UNCHANGED <<launcherVars, stateVars, storeVars>>

\* The body of relaunch: refuses archived, then launcher.kill, whose result is
\* ignored.
StartRelaunch(o) ==
    /\ Dequeue(o, {"relaunch"})
    /\ IF store.state # "present" \/ store.archived
       THEN /\ Finish(o)
            /\ UNCHANGED <<terminating, term, loadedArchived>>
       ELSE /\ loadedArchived' = FALSE
            /\ IF runtime = NoGen
               THEN Enter(o, "launching") /\ UNCHANGED <<terminating, term>>
               ELSE Enter(o, "relaunching") /\ JoinTermination
    /\ UNCHANGED <<opGen, launchGen, stopGen, drainOk, gens, info, runtime, procs>>
    /\ UNCHANGED <<stateVars, storeVars>>

BeginLaunch ==
    /\ Resumes("launching")
    /\ IF shuttingDown
       THEN LaunchFails /\ UNCHANGED opGen
       ELSE /\ opGen' = gens + 1
            /\ phase' = "indexing"
            /\ UNCHANGED <<waiting, owner, kind, stage, rs, store>>
    /\ UNCHANGED <<launchGen, stopGen, drainOk, loadedArchived, launcherVars>>
    /\ UNCHANGED <<intentionalStops, shuttingDown, bridge, adapter>>

\* The preparing row is projected; runtimeStates.begin, then buildLaunchOptions.
RecordAttempt ==
    /\ Resumes("indexing")
    /\ rs' = begin(opGen, "preparing")
    /\ phase' = "preparing"
    /\ UNCHANGED <<waiting, owner, kind, stage, localVars, launcherVars>>
    /\ UNCHANGED <<intentionalStops, shuttingDown, storeVars>>

\* buildLaunchOptions throws, or the attempt moves to starting.
PrepareLaunch ==
    /\ Resumes("preparing")
    /\ \/ LaunchFails
       \/ /\ rs' = transition(opGen, "starting")
          /\ phase' = "starting"
          /\ UNCHANGED <<waiting, owner, kind, stage, store>>
    /\ UNCHANGED <<localVars, launcherVars, intentionalStops, shuttingDown, bridge, adapter>>

\* Faulty launch(): without the check for an active runtime.
Mutant_EnterLauncher ==
    /\ Resumes("starting")
    /\ IF shuttingDown
       THEN LaunchFails /\ UNCHANGED <<gens, launchGen>>
       ELSE /\ gens' = gens + 1
            /\ launchGen' = gens + 1
            /\ phase' = "materializing"
            /\ UNCHANGED <<waiting, owner, kind, stage, rs, store>>
    /\ UNCHANGED <<info, runtime, terminating, term, procs>>
    /\ UNCHANGED <<opGen, stopGen, drainOk, loadedArchived>>
    /\ UNCHANGED <<intentionalStops, shuttingDown, bridge, adapter>>

\* PiLauncher.launch up to its first await: one runtime per session.
EnterLauncher ==
    /\ Resumes("starting")
    /\ IF shuttingDown \/ runtime # NoGen
       THEN LaunchFails /\ UNCHANGED <<gens, launchGen>>
       ELSE /\ gens' = gens + 1
            /\ launchGen' = gens + 1
            /\ phase' = "materializing"
            /\ UNCHANGED <<waiting, owner, kind, stage, rs, store>>
    /\ UNCHANGED <<info, runtime, terminating, term, procs>>
    /\ UNCHANGED <<opGen, stopGen, drainOk, loadedArchived>>
    /\ UNCHANGED <<intentionalStops, shuttingDown, bridge, adapter>>

\* Layout, history or bootstrap fails (a bootstrap bound to another generation
\* always does), or the session entry is replaced and the child spawned.
SpawnChild ==
    /\ Resumes("materializing")
    /\ \/ LaunchFails /\ UNCHANGED <<info, procs>>
       \/ /\ launchGen = opGen
          /\ info' = [state |-> "active", gen |-> launchGen, archived |-> FALSE]
          /\ phase' = "spawned"
          /\ procs' \in {procs \cup {launchGen}, procs}  \* no pid: nothing to reap
          /\ UNCHANGED <<waiting, owner, kind, stage, rs, store>>
    /\ UNCHANGED <<gens, runtime, terminating, term, localVars>>
    /\ UNCHANGED <<intentionalStops, shuttingDown, bridge, adapter>>

\* All readiness gates passed on a transport that is still open: the runtime is
\* published and launch() returns (a ready extension has consumed its bootstrap).
ChildReady ==
    /\ Resumes("spawned")
    /\ launchGen \in procs
    /\ gens = launchGen /\ ~shuttingDown
    /\ runtime' = launchGen
    /\ terminating' = FALSE
    /\ rs' = transition(opGen, "connecting")
    /\ phase' = "connecting"
    /\ UNCHANGED <<gens, info, term, procs, localVars, waiting, owner, kind, stage>>
    /\ UNCHANGED <<intentionalStops, shuttingDown, storeVars>>

\* A gate failed or timed out: SIGKILL.
ReadinessFails ==
    /\ Resumes("spawned")
    /\ phase' = "cleaning"
    /\ UNCHANGED <<waiting, owner, kind, stage, launcherVars, localVars>>
    /\ UNCHANGED <<stateVars, storeVars>>

\* The child is gone: the entry is marked exited unless the generation moved on.
CleanupDone ==
    /\ Resumes("cleaning")
    /\ launchGen \notin procs
    /\ info' = IF gens = launchGen /\ info.state # "none"
               THEN [info EXCEPT !.state = "exited"] ELSE info
    /\ LaunchFails
    /\ UNCHANGED <<gens, runtime, terminating, term, procs, localVars>>
    /\ UNCHANGED <<intentionalStops, shuttingDown, bridge, adapter>>

\* Faulty cleanup: a child that survives SIGKILL is not retained.
Mutant_CleanupTimesOut ==
    /\ Resumes("cleaning")
    /\ launchGen \in procs
    /\ LaunchFails
    /\ UNCHANGED <<gens, runtime, terminating, info, term, procs, localVars>>
    /\ UNCHANGED <<intentionalStops, shuttingDown, bridge, adapter>>

\* The child survived SIGKILL for the whole wait: it is retained as a terminating
\* runtime, so that no second child can start beside it.
CleanupTimesOut ==
    /\ Resumes("cleaning")
    /\ launchGen \in procs
    /\ runtime' = launchGen
    /\ terminating' = TRUE
    /\ gens' = Larger(gens, launchGen + 1)
    /\ LaunchFails
    /\ UNCHANGED <<info, term, procs, localVars>>
    /\ UNCHANGED <<intentionalStops, shuttingDown, bridge, adapter>>

\* The connecting row is projected: attach, and write session.json from the bridge
\* record, which takes archived from the record loaded when the launch began.
AttachAdapter ==
    /\ Resumes("connecting")
    /\ IF runtime = NoGen \/ terminating
       THEN LaunchFails /\ UNCHANGED <<adapter, bridge>>
       ELSE /\ adapter' = opGen
            /\ bridge' = [open |-> TRUE, archived |-> loadedArchived]
            /\ store' = [state |-> "present", archived |-> loadedArchived]
            /\ rs' = transition(opGen, "ready")
            /\ phase' = "readying"
            /\ UNCHANGED <<waiting, owner, kind, stage>>
    /\ UNCHANGED <<launcherVars, localVars, intentionalStops, shuttingDown>>

\* The ready row is projected; the offline queue is flushed inside the body.
AnnounceReady ==
    /\ Resumes("readying")
    /\ intentionalStops' = FALSE
    /\ phase' = "flushing"
    /\ UNCHANGED <<waiting, owner, kind, stage, launcherVars, localVars, rs, shuttingDown>>
    /\ UNCHANGED storeVars

\* The head of the queue was delivered, refused or given up; the launch returns.
FinishLaunch ==
    /\ Resumes("flushing")
    /\ Finish(owner)
    /\ UNCHANGED <<waiting, kind, launcherVars, localVars, stateVars, storeVars>>

-----------------------------------------------------------------------------
\* Steps of the serialized body that runs.
BodyStep ==
    \/ RefuseKill
    \/ DrainRuntime
    \/ FinishKill
    \/ CloseKilled
    \/ BeginLaunch
    \/ RecordAttempt
    \/ PrepareLaunch
    \/ EnterLauncher
    \/ SpawnChild
    \/ ChildReady
    \/ ReadinessFails
    \/ CleanupDone
    \/ CleanupTimesOut
    \/ AttachAdapter
    \/ AnnounceReady
    \/ FinishLaunch

StartNext == \E o \in Ops : StartKill(o) \/ StartLaunch(o) \/ StartRelaunch(o)

Next ==
    \/ \E o \in Ops : \E k \in {"kill", "archive", "relaunch"} : RequestQueued(o, k)
    \/ \E o \in Ops : RequestCreate(o) \/ RequestActivate(o) \/ RequestDelete(o)
    \/ \E o \in Ops : FinishArchive(o) \/ PurgeSession(o) \/ ForgetSession(o)
    \/ StartNext
    \/ BodyStep
    \/ AbortDone
    \/ TerminationTimesOut
    \/ StopRuntime
    \/ Shutdown
    \/ \E g \in procs : ChildExit(g)
    \/ UnarchiveSession
    \/ BridgePersists

Spec == Init /\ [][Next]_vars

\* Every await of the bodies is bounded by a timer or is a local call, and so are
\* the waits of a termination; nothing is assumed of the child.
FairSpec ==
    /\ Spec
    /\ WF_vars(StartNext)
    /\ WF_vars(BodyStep)
    /\ WF_vars(AbortDone)
    /\ WF_vars(TerminationTimesOut)
    /\ WF_vars(\E o \in Ops : FinishArchive(o) \/ PurgeSession(o) \/ ForgetSession(o))

-----------------------------------------------------------------------------
(* Properties *)

LauncherType ==
    /\ gens \in Nat
    /\ info \in [state : InfoStates, gen : Nat, archived : BOOLEAN]
    /\ runtime \in Nat
    /\ terminating \in BOOLEAN
    /\ term \in {"none", "aborting", "waiting"}
    /\ procs \subseteq Nat \ {NoGen}

LocalType ==
    /\ opGen \in Nat /\ launchGen \in Nat /\ stopGen \in Nat
    /\ drainOk \in BOOLEAN /\ loadedArchived \in BOOLEAN

\* A body runs exactly when it has an owner: a failed body releases the chain.
QueueType ==
    /\ waiting \in Seq(Ops)
    /\ owner \in Ops \cup {NoOp}
    /\ phase \in Phases
    /\ owner = NoOp <=> phase = "free"
    /\ kind \in [Ops -> OperationKinds]
    /\ stage \in [Ops -> Stages]

StateType ==
    /\ rs \in [state : RuntimeStates, gen : Nat]
    /\ intentionalStops \in BOOLEAN /\ shuttingDown \in BOOLEAN

StoreType ==
    /\ store \in [state : {"absent", "present", "removed"}, archived : BOOLEAN]
    /\ bridge \in [open : BOOLEAN, archived : BOOLEAN]
    /\ adapter \in Nat

\* Every variable has its type.
TypeOK == LauncherType /\ LocalType /\ QueueType /\ StateType /\ StoreType

\* The child this launch is bringing up, or failing to take down.
Launching(g) == phase \in {"spawned", "cleaning"} /\ launchGen = g

\* Every live child is either the registered runtime, which kill, quota and
\* shutdown can reach, or the one a launch in progress is waiting for: no failure
\* path of launch() loses a process.
NoOrphanProcess == \A g \in procs : runtime = g \/ Launching(g)

\* A session never has two live children, even when one survives its SIGKILL.
OneChild == \A g, h \in procs : g = h

\* The bridge is attached only to the registered runtime of a live process; exits,
\* terminations and late attachments leave no adapter on a dead child.
AttachedIsLive == adapter # NoGen => adapter \in procs /\ runtime = adapter

\* A runtime that may be used is of the current generation: otherwise its
\* transport would refuse every request as stale while the session looks live.
UsableIsCurrent == runtime # NoGen /\ ~terminating => gens = runtime

\* Launcher, runtime and bridge agree on the one child of the session.
Coherent == OneChild /\ AttachedIsLive /\ UsableIsCurrent

\* When killSession is about to report success the process is gone, and nothing
\* has started another one while it cleaned up.
KilledIsGone == phase = "stopped" => procs = {} /\ runtime = NoGen

\* Every operation returns, whatever the child does: finitely many are issued, and
\* from some point on none of them is under way.
OperationsFinish == <>[](\A o \in Ops : stage[o] \in {"unused", "done", "purged"})

\* A launch that reached the ready commit and whose runtime is registered shows
\* ready (session-orchestrator.lifecycle.test.ts expects it after createSession).
ReadyIsShown == phase = "readying" /\ runtime = opGen => rs.state = "ready"

\* No child is spawned for a session whose session.json says archived.
NoSpawnWhenArchived == [][procs \subseteq procs' /\ procs # procs' => ~store.archived]_vars

\* Only unarchiveSession and deletion take the archived mark off session.json.
ArchiveSticks ==
    [][store.archived /\ ~store'.archived => UnarchiveSession \/ store'.state = "removed"]_vars

\* Once a deletion has reported success and no operation runs, no child is left.
DeletedIsGone ==
    (owner = NoOp /\ waiting = <<>> /\ \E o \in Ops : stage[o] = "purged") => procs = {}
=============================================================================
