--------------------------- MODULE LifecycleProofs ---------------------------
(***************************************************************************)
(* Proofs about three lives that depend on each other: of a session's Pi   *)
(* child (SessionLifecycle), of a server process on its data root          *)
(* (RunnerLock), and of a user's state file, which a runtime repairs       *)
(* before it runs (UserDataRecovery).                                      *)
(*                                                                         *)
(* Safety of a session, for any number of operations of any kinds, rests   *)
(* on one inductive invariant, Inv: besides the properties themselves it   *)
(* says which launcher state each phase of the running body may rely on    *)
(* after its await.                                                        *)
(***************************************************************************)
EXTENDS SessionLifecycle, RunnerLock, UserDataRecovery, FiniteSetTheorems, TLAPS

\* The part of the state that decides which processes exist and who can reach them.
coreVars == <<gens, runtime, terminating, term, procs,
              owner, phase, opGen, launchGen, drainOk, adapter>>

CoreType ==
    /\ gens \in Nat /\ runtime \in Nat /\ launchGen \in Nat
    /\ procs \subseteq Nat \ {NoGen}
    /\ owner = NoOp <=> phase = "free"

\* What the await points of launch and kill may rely on.
PhaseFacts ==
    /\ phase \in {"materializing", "spawned", "cleaning"} => runtime = NoGen /\ launchGen > 0
    /\ phase \in {"spawned", "cleaning"} => launchGen = opGen
    /\ phase = "connecting" /\ runtime # NoGen => runtime = opGen
    /\ phase = "drained" /\ drainOk => runtime = NoGen
    /\ phase = "stopped" => runtime = NoGen

\* The registered runtime is alive, and a termination is of a registered runtime.
RuntimeFacts ==
    /\ runtime # NoGen => runtime \in procs
    /\ term # "none" => runtime # NoGen /\ terminating

Inv ==
    /\ CoreType
    /\ PhaseFacts
    /\ RuntimeFacts
    /\ NoOrphanProcess
    /\ UsableIsCurrent
    /\ adapter # NoGen => runtime = adapter

-----------------------------------------------------------------------------
\* A session restored at start-up, or not yet created, satisfies Inv.
LEMMA InitInv == Init => Inv
  BY DEF Init, Inv, CoreType, PhaseFacts, RuntimeFacts, NoOrphanProcess, UsableIsCurrent, NoGen, NoOp

-----------------------------------------------------------------------------
\* Every action keeps Inv.
LEMMA NextInv == Inv /\ [Next]_vars => Inv'
<1> SUFFICES ASSUME Inv, [Next]_vars PROVE Inv'
  OBVIOUS
<1> USE LifecycleAssumption DEF NoGen, NoOp, Inv, CoreType, PhaseFacts, RuntimeFacts, NoOrphanProcess, UsableIsCurrent,
        Launching
<1>u. UNCHANGED coreVars => Inv'
  BY DEF coreVars
<1>1. ASSUME NEW o \in Ops, NEW k \in {"kill", "archive", "relaunch"}, RequestQueued(o, k) PROVE Inv'
  BY <1>1, <1>u DEF RequestQueued, serialize, coreVars, launcherVars, localVars, storeVars
<1>2. ASSUME NEW o \in Ops, RequestCreate(o) PROVE Inv'
  BY <1>2, <1>u DEF RequestCreate, coreVars, serialize, launcherVars, localVars, storeVars
<1>3. ASSUME NEW o \in Ops, RequestActivate(o) PROVE Inv'
  BY <1>3, <1>u DEF RequestActivate, coreVars, serialize, launcherVars, localVars, storeVars
<1>4. ASSUME NEW o \in Ops, RequestDelete(o) PROVE Inv'
  BY <1>4, <1>u DEF RequestDelete, coreVars, serialize, launcherVars, localVars, storeVars
<1>5. ASSUME NEW o \in Ops, FinishArchive(o) PROVE Inv'
  BY <1>5, <1>u DEF FinishArchive, coreVars, localVars, storeVars
<1>6. ASSUME NEW o \in Ops, ForgetSession(o) PROVE Inv'
  BY <1>6, <1>u DEF ForgetSession, coreVars, launcherVars, localVars, storeVars
<1>7. CASE UnarchiveSession
  BY <1>7, <1>u DEF UnarchiveSession, coreVars, localVars, queueVars, storeVars
<1>8. CASE BridgePersists
  BY <1>8, <1>u DEF BridgePersists, coreVars, launcherVars, localVars, queueVars
<1>9. ASSUME NEW o \in Ops, PurgeSession(o) PROVE Inv'
  BY <1>9 DEF PurgeSession, localVars, storeVars
<1>10. ASSUME NEW o \in Ops, StartKill(o) PROVE Inv'
  BY <1>10 DEF StartKill, Dequeue, Enter, Ops, launcherVars, storeVars
<1>11. ASSUME NEW o \in Ops, StartLaunch(o) PROVE Inv'
  BY <1>11 DEF StartLaunch, Dequeue, Enter, Finish, Ops, launcherVars, storeVars
<1>12. ASSUME NEW o \in Ops, StartRelaunch(o) PROVE Inv'
  BY <1>12 DEF StartRelaunch, Dequeue, Enter, Finish, JoinTermination, Ops, storeVars
<1>13. CASE RefuseKill
  BY <1>13 DEF RefuseKill, Resumes, KillReturns, launcherVars, localVars, storeVars
<1>14. CASE DrainRuntime
  BY <1>14 DEF DrainRuntime, Resumes, JoinTermination, storeVars
<1>15. CASE FinishKill
  BY <1>15 DEF FinishKill, Resumes, KillReturns, launcherVars, localVars, storeVars
<1>16. CASE CloseKilled
  BY <1>16 DEF CloseKilled, Resumes, KillReturns, launcherVars, localVars, storeVars
<1>17. CASE BeginLaunch
  BY <1>17 DEF BeginLaunch, Resumes, LaunchFails, Finish, launcherVars, storeVars
<1>18. CASE RecordAttempt
  BY <1>18 DEF RecordAttempt, Resumes, launcherVars, localVars, storeVars
<1>19. CASE PrepareLaunch
  BY <1>19 DEF PrepareLaunch, Resumes, LaunchFails, Finish, launcherVars, localVars
<1>20. CASE EnterLauncher
  BY <1>20 DEF EnterLauncher, Resumes, LaunchFails, Finish
<1>21. CASE SpawnChild
  <2>1. CASE LaunchFails /\ UNCHANGED procs
    BY <1>21, <2>1 DEF SpawnChild, Resumes, LaunchFails, Finish, localVars
  <2>2. CASE phase' = "spawned" /\ launchGen = opGen /\ UNCHANGED owner
    <3>1. phase = "materializing" /\ UNCHANGED <<gens, runtime, terminating, term, adapter>>
      BY <1>21 DEF SpawnChild, Resumes
    <3>2. UNCHANGED <<opGen, launchGen, drainOk>> /\ procs' \subseteq procs \cup {launchGen}
      BY <1>21, <2>2 DEF SpawnChild, localVars
    <3> QED BY <2>2, <3>1, <3>2
  <2> QED BY <1>21, <2>1, <2>2 DEF SpawnChild
<1>22. CASE ChildReady
  BY <1>22 DEF ChildReady, Resumes, localVars, storeVars
<1>23. CASE ReadinessFails
  BY <1>23 DEF ReadinessFails, Resumes, launcherVars, localVars, storeVars
<1>24. CASE CleanupDone
  BY <1>24 DEF CleanupDone, Resumes, LaunchFails, Finish, localVars
<1>25. CASE CleanupTimesOut
  BY <1>25 DEF CleanupTimesOut, Resumes, LaunchFails, Finish, localVars, Larger
<1>26. CASE AttachAdapter
  BY <1>26 DEF AttachAdapter, Resumes, LaunchFails, Finish, launcherVars, localVars
<1>27. CASE AnnounceReady
  BY <1>27 DEF AnnounceReady, Resumes, launcherVars, localVars, storeVars
<1>28. CASE FinishLaunch
  BY <1>28 DEF FinishLaunch, Resumes, Finish, launcherVars, localVars, storeVars
<1>29. CASE AbortDone
  BY <1>29 DEF AbortDone, Larger, localVars, queueVars, storeVars
<1>30. CASE TerminationTimesOut
  BY <1>30 DEF TerminationTimesOut, ResumeDrained, storeVars
<1>31. CASE StopRuntime
  BY <1>31 DEF StopRuntime, JoinTermination, localVars, queueVars, storeVars
<1>32. CASE Shutdown
  BY <1>32 DEF Shutdown, JoinTermination, localVars, queueVars, storeVars
<1>33. ASSUME NEW g \in procs, ChildExit(g) PROVE Inv'
  <2>1. CASE runtime # g
    BY <1>33, <2>1 DEF ChildExit
  <2>2. CASE runtime = g
    <3>1. runtime' = NoGen /\ terminating' = FALSE /\ term' = "none" /\ procs' = procs \ {g}
      BY <1>33, <2>2 DEF ChildExit
    <3>2. procs' = {}
      BY <2>2, <3>1
    <3>3. gens' \in Nat /\ UNCHANGED <<launchGen, opGen, owner>>
      BY <1>33, <2>2 DEF ChildExit, Larger
    <3>4. \/ phase' = phase /\ drainOk' = drainOk
          \/ phase' = "drained" /\ phase = "draining"
          \/ phase' = "launching" /\ phase = "relaunching"
      <4>1. CASE term = "none"
        BY <1>33, <2>2, <4>1 DEF ChildExit
      <4>2. CASE term # "none"
        <5>1. ResumeDrained(TRUE)
          BY <1>33, <2>2, <4>2 DEF ChildExit
        <5> QED BY <5>1 DEF ResumeDrained
      <4> QED BY <4>1, <4>2
    <3>5. adapter' = NoGen
      BY <1>33, <2>2 DEF ChildExit
    <3> QED BY <2>2, <3>1, <3>2, <3>3, <3>4, <3>5
  <2> QED BY <2>1, <2>2
<1>34. CASE UNCHANGED vars
  BY <1>34, <1>u DEF vars, coreVars, launcherVars, localVars, queueVars, storeVars
<1> QED
  BY <1>1, <1>2, <1>3, <1>4, <1>5, <1>6, <1>7, <1>8, <1>9, <1>10, <1>11, <1>12, <1>13,
     <1>14, <1>15, <1>16, <1>17, <1>18, <1>19, <1>20, <1>21, <1>22, <1>23, <1>24,
     <1>25, <1>26, <1>27, <1>28, <1>29, <1>30, <1>31, <1>32, <1>33, <1>34 DEF Next,
     StartNext, BodyStep

-----------------------------------------------------------------------------
\* Inv holds in every reachable state.
THEOREM InvHolds == Spec => []Inv
  BY InitInv, NextInv, PTL DEF Spec

\* No failure path of launch, of its cleanup or of a termination loses a child.
THEOREM NoChildLost == Spec => []NoOrphanProcess
<1>1. Inv => NoOrphanProcess
  BY DEF Inv
<1> QED BY <1>1, InvHolds, PTL

\* "PiLauncher owns exactly one SRT/rpc-entry child per live session."
THEOREM AtMostOneChild == Spec => []OneChild
<1>1. Inv => OneChild
  BY DEF Inv, CoreType, NoOrphanProcess, PhaseFacts, Launching, OneChild, NoGen
<1> QED BY <1>1, InvHolds, PTL

\* The bridge never stays attached to a child that exited or was replaced.
THEOREM AttachedToLiveChild == Spec => []AttachedIsLive
<1>1. Inv => AttachedIsLive
  BY DEF Inv, RuntimeFacts, AttachedIsLive
<1> QED BY <1>1, InvHolds, PTL

\* A usable runtime is never refused as stale, not even after a deletion has reset
\* the session's generation counter.
THEOREM UsableRuntimeIsCurrent == Spec => []UsableIsCurrent
<1>1. Inv => UsableIsCurrent
  BY DEF Inv
<1> QED BY <1>1, InvHolds, PTL

\* killSession reports success only when no process is left.
THEOREM KillLeavesNothing == Spec => []KilledIsGone
<1>1. Inv => KilledIsGone
  BY DEF Inv, CoreType, NoOrphanProcess, PhaseFacts, Launching, KilledIsGone, NoGen
<1> QED BY <1>1, InvHolds, PTL

\* Launcher, runtime and bridge agree on the one child of the session.
THEOREM AlwaysCoherent == Spec => []Coherent
<1>1. OneChild /\ AttachedIsLive /\ UsableIsCurrent => Coherent
  BY DEF Coherent
<1> QED BY <1>1, AtMostOneChild, AttachedToLiveChild, UsableRuntimeIsCurrent, PTL

-----------------------------------------------------------------------------
(* The runner lock *)

\* Where a runner stands whose lock file may exist: between creating it and removing
\* it, or crashed in between.
Answerable == {"confirming", "retreating", "announcing", "publishing", "holding", "beating", "crashed"}

\* A lock file is never without somebody who is still to remove it, or who crashed.
SomebodyAnswers == lock # "absent" => \E r \in Runners : place[r] \in Answerable

LockInv == LockTypeOK /\ SomebodyAnswers

\* Before the first start there is no lock file.
LEMMA LockInitInv == LockInit => LockInv
  BY DEF LockInit, LockInv, LockTypeOK, SomebodyAnswers, Starting, Writing, Ended, None

\* Every step of a runner, of the clock and of the backup keeps LockInv.
LEMMA LockNextInv == LockInv /\ [LockNext]_lockVars => LockInv'
<1> SUFFICES ASSUME LockInv, [LockNext]_lockVars PROVE LockInv'
  OBVIOUS
<1> USE RunnerAssumption DEF LockInv, LockTypeOK, Starting, Writing, Ended, None
<1>1. ASSUME NEW r \in Runners, CheckMaintenance(r) PROVE LockInv'
  BY <1>1 DEF CheckMaintenance, Step, fileVars, SomebodyAnswers, Answerable
<1>2. ASSUME NEW r \in Runners, CheckExists(r) PROVE LockInv'
  BY <1>2 DEF CheckExists, Step, fileVars, SomebodyAnswers, Answerable
<1>3. ASSUME NEW r \in Runners, ReadLock(r) PROVE LockInv'
  BY <1>3 DEF ReadLock, Step, fileVars, SomebodyAnswers, Answerable
<1>4. ASSUME NEW r \in Runners, RemoveStale(r) PROVE LockInv'
  BY <1>4 DEF RemoveStale, Step, RemoveFile, SomebodyAnswers
<1>5. ASSUME NEW r \in Runners, CreateLock(r) PROVE LockInv'
  BY <1>5 DEF CreateLock, Step, SomebodyAnswers, Answerable
<1>6. ASSUME NEW r \in Runners, ConfirmMaintenance(r) PROVE LockInv'
  BY <1>6 DEF ConfirmMaintenance, Step, fileVars, SomebodyAnswers, Answerable
<1>7. ASSUME NEW r \in Runners, Retreat(r) PROVE LockInv'
  BY <1>7 DEF Retreat, Step, RemoveFile, SomebodyAnswers
<1>8. ASSUME NEW r \in Runners, Truncate(r) PROVE LockInv'
  BY <1>8 DEF Truncate, Step, SomebodyAnswers, Answerable
<1>9. ASSUME NEW r \in Runners, WritePayload(r) PROVE LockInv'
  BY <1>9 DEF WritePayload, Step, SomebodyAnswers, Answerable
<1>10. ASSUME NEW r \in Runners, Release(r) PROVE LockInv'
  BY <1>10 DEF Release, Step, RemoveFile, SomebodyAnswers
<1>11. ASSUME NEW r \in Runners, RunnerCrash(r) PROVE LockInv'
  BY <1>11 DEF RunnerCrash, SomebodyAnswers, Answerable
<1>12. CASE Expire
  BY <1>12 DEF Expire, SomebodyAnswers
<1>13. CASE BackupLocks \/ BackupChecksPid \/ BackupChecksLock \/ BackupEnds
  BY <1>13 DEF BackupLocks, BackupChecksPid, BackupChecksLock, BackupEnds, fileVars, SomebodyAnswers
<1>14. CASE UNCHANGED lockVars
  BY <1>14 DEF lockVars, SomebodyAnswers
<1> QED
  BY <1>1, <1>2, <1>3, <1>4, <1>5, <1>6, <1>7, <1>8, <1>9, <1>10, <1>11, <1>12, <1>13, <1>14
     DEF LockNext

\* However many servers and a backup race on one data root, a payload in the lock
\* file names its writer and no descriptor is open on a file that is gone.
THEOREM LockTypes == LockSpec => []LockTypeOK
<1>1. LockInv => LockTypeOK
  BY DEF LockInv
<1> QED BY <1>1, LockInitInv, LockNextInv, PTL DEF LockSpec

(* Runners between the creation of their lock file and its removal.       *)
Owners == {r \in Runners : place[r] \in {"confirming", "retreating", "announcing", "publishing"} \cup Writing}

(* Until a lock is taken for stale, a file at the path keeps others from   *)
(* creating one, so that its creator is the only owner.                    *)
OneOwner ==
    ~taken => /\ \A r, s \in Owners : r = s
              /\ lock = "absent" => Owners = {}

\* Every step keeps OneOwner.
LEMMA OwnerNextInv == LockTypeOK /\ OneOwner /\ [LockNext]_lockVars => OneOwner'
<1> SUFFICES ASSUME LockTypeOK, OneOwner, [LockNext]_lockVars, ~taken' PROVE OneOwner'
  BY DEF OneOwner
<1>0. DOMAIN place = Runners /\ place = [r \in Runners |-> place[r]]
  BY DEF LockTypeOK
<1> USE <1>0 DEF OneOwner, Owners, Writing
<1>1. ASSUME NEW r \in Runners, CheckMaintenance(r) \/ CheckExists(r) \/ ReadLock(r) PROVE OneOwner'
  BY <1>1 DEF CheckMaintenance, CheckExists, ReadLock, Step, fileVars
<1>2. ASSUME NEW r \in Runners, RemoveStale(r) PROVE OneOwner'
  BY <1>2 DEF RemoveStale
<1>3. ASSUME NEW r \in Runners, CreateLock(r) PROVE OneOwner'
  BY <1>3 DEF CreateLock, Step
<1>4. ASSUME NEW r \in Runners, ConfirmMaintenance(r) PROVE OneOwner'
  BY <1>4 DEF ConfirmMaintenance, Step, fileVars
<1>5. ASSUME NEW r \in Runners, Retreat(r) \/ Release(r) PROVE OneOwner'
  BY <1>5 DEF Retreat, Release, Step, RemoveFile
<1>6. ASSUME NEW r \in Runners, Truncate(r) PROVE OneOwner'
  BY <1>6 DEF Truncate, Step
<1>7. ASSUME NEW r \in Runners, WritePayload(r) PROVE OneOwner'
  BY <1>7 DEF WritePayload, Step
<1>8. ASSUME NEW r \in Runners, RunnerCrash(r) PROVE OneOwner'
  BY <1>8 DEF RunnerCrash
<1>9. CASE Expire
  BY <1>9 DEF Expire
<1>10. CASE BackupLocks \/ BackupChecksPid \/ BackupChecksLock \/ BackupEnds
  BY <1>10 DEF BackupLocks, BackupChecksPid, BackupChecksLock, BackupEnds, fileVars
<1>11. CASE UNCHANGED lockVars
  BY <1>11 DEF lockVars
<1> QED
  BY <1>1, <1>2, <1>3, <1>4, <1>5, <1>6, <1>7, <1>8, <1>9, <1>10, <1>11 DEF LockNext

\* However many servers start, retreat, shut down and crash beside a backup, two of
\* them write at once only after one removed a lock it took for stale, and once all
\* were refused or have shut down, no lock file is left.
THEOREM LockIsSound == LockSpec => []LockSound
<1>1. LockInit => OneOwner
  BY DEF LockInit, OneOwner, Owners, Writing
<1>2. LockInv /\ OneOwner => LockSound
  <2> SUFFICES ASSUME LockInv, OneOwner, ~taken PROVE SingleWriter
    BY DEF LockSound, LockInv, SomebodyAnswers, Answerable, LockGoneAtRest
  <2> DEFINE W == {r \in Runners : place[r] \in Writing}
  <2>1. \A r, s \in W : r = s
    BY DEF OneOwner, Owners
  <2>2. CASE W = {}
    BY <2>2, FS_EmptySet DEF SingleWriter
  <2>3. CASE W # {}
    <3>1. PICK r \in W : W = {r}
      BY <2>1, <2>3
    <3>2. Cardinality(W) = 1
      BY <3>1, FS_Singleton
    <3> QED BY <3>2 DEF SingleWriter
  <2> QED BY <2>2, <2>3
<1>3. LockInv => LockTypeOK
  BY DEF LockInv
<1> QED BY <1>1, <1>2, <1>3, LockInitInv, LockNextInv, OwnerNextInv, PTL DEF LockSpec

-----------------------------------------------------------------------------
(* Recovery of a state file *)

Executing == {"marking", "stepping", "checkpointing", "failing"}

\* The operations a replay has still to carry out.
Incomplete(i) == journal[i].status \notin {"none", "completed"}

\* The replay looks at records that exist.  Such a record names the steps of a
\* recovery, has not gone past them, and has passed the move only when its quarantine
\* destination holds something.
RecordFacts ==
    \A i \in Ids :
      LET r == journal[i] IN
        /\ i \in todo => r.status # "none"
        /\ r.status # "none" => r.steps \in {RecoverSteps, QuarantineSteps} /\ r.next <= Len(r.steps)
        /\ r.status = "completed" => r.next = Len(r.steps)
        /\ r.status # "none" /\ r.next >= 2 => quarantine[i] # Nothing

\* What execute() holds is incomplete, is marked before its steps run, and a step
\* that waits for its checkpoint has been applied.
ExecutionFacts ==
    pc \in Executing =>
      /\ Incomplete(cur)
      /\ pc # "marking" => operation.status = "applying"
      /\ pc = "checkpointing" => operation.next < Len(operation.steps)
      /\ pc = "checkpointing" /\ operation.next >= 1 => quarantine[cur] # Nothing

\* How far operation i is, read off the disk: before its move the corrupt file is in
\* place, between move and copy no file, after the copy the backup's content.
Progress(i) ==
    LET n == journal[i].next
        applied == pc = "checkpointing" /\ cur = i
    IN  /\ n = 0 => file = Corrupt /\ quarantine[i] = Nothing
        /\ n = 1 => \/ file = Corrupt /\ quarantine[i] = Nothing /\ ~applied
                    \/ file = Nothing /\ quarantine[i] # Nothing
        /\ n = 2 => file = Legacy \/ (file = Nothing /\ ~applied)
        /\ n = 3 => file = Legacy

\* With crashes alone, before the first write and with a readable backup, one
\* operation at a time is incomplete, the replay still has it before it, and the disk
\* shows its progress.
CrashOnly ==
    faults = 0 /\ writes = 0 /\ bak = Legacy =>
      /\ pc # "failing"
      /\ \A i \in Ids : journal[i].status # "failed"
      /\ \A i \in Ids : journal[i].status # "none" => journal[i].steps = RecoverSteps
      /\ \A i, j \in Ids : Incomplete(i) /\ Incomplete(j) => i = j
      /\ \A i \in Ids : Incomplete(i) => Progress(i)
      /\ (\A i \in Ids : ~Incomplete(i)) => file \in {Corrupt, Legacy}
      /\ \A i \in Ids : Incomplete(i) /\ pc = "replaying" => i \in todo
      /\ \A i \in Ids : Incomplete(i) /\ pc \in Executing => i = cur
      /\ pc = "running" => file = Legacy /\ \A i \in Ids : ~Incomplete(i)

\* An operation that this runtime began, and in which no disk call failed, moves the
\* corrupt file away and does not throw.
BegunHere ==
    pc \in Executing /\ ret = "running" /\ clean =>
      /\ pc # "failing"
      /\ operation.steps = RecoverSteps => bak = Legacy
      /\ IF operation.next = 0 \/ (operation.next = 1 /\ pc # "checkpointing")
         THEN file = Corrupt /\ quarantine[cur] = Nothing
         ELSE file # Corrupt

RecoveryInv ==
    /\ RecoveryTypeOK
    /\ RecordFacts
    /\ ExecutionFacts
    /\ CrashOnly
    /\ BegunHere
    /\ Reconciled

\* The two lists of steps.
LEMMA StepLists ==
    /\ Len(RecoverSteps) = 3 /\ RecoverSteps[1] = "mkdir" /\ RecoverSteps[2] = "move"
    /\ RecoverSteps[3] = "copy"
    /\ Len(QuarantineSteps) = 2 /\ QuarantineSteps[1] = "mkdir" /\ QuarantineSteps[2] = "move"
    /\ RecoverSteps # QuarantineSteps /\ RecoverSteps # <<>> /\ QuarantineSteps # <<>>
  BY DEF RecoverSteps, QuarantineSteps

\* A user's state file as a crash or an earlier release left it satisfies RecoveryInv.
LEMMA RecoveryInitInv == RecoveryInit => RecoveryInv
<1> SUFFICES ASSUME RecoveryInit PROVE RecoveryInv
  OBVIOUS
<1> USE RecoveryAssumption, StepLists DEF RecoveryInit, NoRecord, Ids, NoId, Nothing, Corrupt, Legacy
<1>1. RecoveryTypeOK
  BY DEF RecoveryTypeOK, Contents, Written, Records
<1> QED BY <1>1 DEF RecoveryInv, RecordFacts, ExecutionFacts, CrashOnly, BegunHere, Reconciled,
              Executing, Incomplete

\* The types of a state, without the flag clean: what the steps below use.
RecoveryFields ==
    /\ file \in Contents /\ bak \in {Nothing, Corrupt, Legacy}
    /\ quarantine \in [Ids -> Contents] /\ appQ \subseteq {Corrupt}
    /\ journal \in [Ids -> Records]
    /\ pc \in {"down", "replaying", "marking", "stepping", "checkpointing", "failing", "running"}
    /\ todo \subseteq Ids /\ cur \in Ids \cup {NoId} /\ ret \in {"replaying", "running"}
    /\ cur # NoId <=> pc \in Executing
    /\ faults \in 0..MaxFaults /\ crashes \in 0..MaxCrashes /\ writes \in 0..MaxWrites

\* What RecoveryInv says, with the fields of the records spelled out.
LEMMA RecoveryFacts ==
    ASSUME RecoveryInv
    PROVE  /\ RecoveryFields /\ clean \in BOOLEAN
           /\ RecordFacts /\ ExecutionFacts /\ CrashOnly /\ BegunHere /\ Reconciled
           /\ NoId \notin Ids
           /\ pc \in Executing => cur \in Ids
           /\ \A i \in Ids : /\ journal[i] \in Records
                             /\ journal[i].status \in {"none", "pending", "applying", "completed", "failed"}
                             /\ journal[i].next \in 0..3
                             /\ journal[i].steps \in {<<>>, RecoverSteps, QuarantineSteps}
<1>1. RecoveryFields /\ clean \in BOOLEAN
  BY DEF RecoveryInv, RecoveryTypeOK, RecoveryFields, Executing
<1>2. NoId \notin Ids
  BY RecoveryAssumption DEF NoId, Ids
<1>3. pc \in Executing => cur \in Ids
  BY <1>1, <1>2 DEF RecoveryFields
<1>4. \A i \in Ids : journal[i] \in Records
  BY <1>1 DEF RecoveryFields
<1>5. \A r \in Records : /\ r.status \in {"none", "pending", "applying", "completed", "failed"}
                         /\ r.next \in 0..3 /\ r.steps \in {<<>>, RecoverSteps, QuarantineSteps}
  BY DEF Records
<1> QED BY <1>1, <1>2, <1>3, <1>4, <1>5 DEF RecoveryInv

\* The other way: the parts make RecoveryInv of the next state.
LEMMA RecoveryParts ==
    ASSUME RecoveryFields', (clean \in BOOLEAN)', RecordFacts', ExecutionFacts', CrashOnly', BegunHere', Reconciled'
    PROVE  RecoveryInv'
  BY DEF RecoveryInv, RecoveryTypeOK, RecoveryFields, Executing

\* After a failed disk call only what does not depend on luck is left to show.
LEMMA AfterFailure ==
    ASSUME RecoveryInv, Fails
    PROVE  /\ CrashOnly' /\ BegunHere' /\ Reconciled' /\ (clean \in BOOLEAN)'
           /\ faults' \in 0..MaxFaults
<1>1. faults' # 0 /\ faults' \in 0..MaxFaults
  BY RecoveryFacts, RecoveryAssumption DEF RecoveryFields, Fails
<1>2. ~clean' /\ (clean \in BOOLEAN)'
  BY DEF Fails
<1>3. CrashOnly'
  BY <1>1 DEF CrashOnly
<1>4. BegunHere' /\ Reconciled'
  BY <1>2 DEF BegunHere, Reconciled
<1> QED BY <1>1, <1>2, <1>3, <1>4

\* An update of one record.
LEMMA Persisted ==
    ASSUME journal \in [Ids -> Records], NEW id \in Ids, NEW r \in Records, persist(id, r)
    PROVE  /\ journal' \in [Ids -> Records] /\ journal'[id] = r
           /\ \A i \in Ids : i # id => journal'[i] = journal[i]
  BY DEF persist

\* A runtime starts.
LEMMA StartRuntimeInv == RecoveryInv /\ StartRuntime => RecoveryInv'
<1> SUFFICES ASSUME RecoveryInv, StartRuntime PROVE RecoveryInv'
  OBVIOUS
<1>1. /\ pc = "down" /\ pc' = "replaying" /\ todo' = {i \in Ids : journal[i].status # "none"}
      /\ UNCHANGED <<file, bak, quarantine, appQ, journal, cur, ret, faults, crashes, writes>>
  BY DEF StartRuntime, diskVars, counters
<1>2. (clean \in BOOLEAN)'
  BY DEF StartRuntime
<1>3. RecoveryFields'
  BY <1>1, RecoveryFacts DEF RecoveryFields, Executing
<1>4. RecordFacts'
  BY <1>1, RecoveryFacts DEF RecordFacts
<1>5. ExecutionFacts' /\ BegunHere' /\ Reconciled'
  BY <1>1 DEF ExecutionFacts, BegunHere, Reconciled, Executing
<1>6. CrashOnly'
  BY <1>1, RecoveryFacts DEF CrashOnly, Incomplete, Progress, Executing
<1> QED BY <1>2, <1>3, <1>4, <1>5, <1>6, RecoveryParts

\* The replay takes a record.
LEMMA ReplayNextInv == ASSUME RecoveryInv, NEW id \in Ids, ReplayNext(id) PROVE RecoveryInv'
<1> USE RecoveryFacts
<1>1. /\ pc = "replaying" /\ id \in todo /\ todo' = todo \ {id}
      /\ UNCHANGED <<file, bak, quarantine, appQ, crashes, writes>>
  BY DEF ReplayNext, diskVars, counters
<1>2. CASE journal[id].status = "completed" /\ persist(id, NoRecord) /\ Works
  <2>1. UNCHANGED <<pc, cur, ret, faults, clean>>
    BY <1>2 DEF ReplayNext, Works
  <2>2. NoRecord \in Records /\ NoRecord.status = "none"
    BY DEF NoRecord, Records
  <2>3. /\ journal' \in [Ids -> Records] /\ journal'[id] = NoRecord
        /\ \A i \in Ids : i # id => journal'[i] = journal[i]
    BY <1>2, <2>2, Persisted DEF RecoveryFields
  <2>4. RecoveryFields'
    BY <1>1, <2>1, <2>3 DEF RecoveryFields, Executing
  <2>5. RecordFacts'
    BY <1>1, <2>2, <2>3 DEF RecordFacts
  <2>6. ExecutionFacts' /\ BegunHere' /\ Reconciled' /\ (clean \in BOOLEAN)'
    BY <1>1, <2>1 DEF ExecutionFacts, BegunHere, Reconciled, Executing
  <2>7. CrashOnly'
    BY <1>1, <1>2, <2>1, <2>2, <2>3 DEF CrashOnly, Incomplete, Progress, Executing
  <2> QED BY <2>4, <2>5, <2>6, <2>7, RecoveryParts
<1>3. CASE journal[id].status = "completed" /\ UNCHANGED journal /\ Fails
  <2>1. UNCHANGED <<pc, cur, ret>>
    BY <1>3 DEF ReplayNext
  <2>2. RecoveryFields'
    BY <1>1, <1>3, <2>1, AfterFailure DEF RecoveryFields, Executing
  <2>3. RecordFacts' /\ ExecutionFacts'
    BY <1>1, <1>3, <2>1 DEF RecordFacts, ExecutionFacts, Executing
  <2> QED BY <1>3, <2>2, <2>3, AfterFailure, RecoveryParts
<1>4. CASE journal[id].status # "completed"
  <2>1. pc' = "marking" /\ cur' = id /\ ret' = "replaying" /\ UNCHANGED <<journal, faults, clean>>
    BY <1>4 DEF ReplayNext
  <2>2. RecoveryFields'
    BY <1>1, <2>1 DEF RecoveryFields, Executing
  <2>3. RecordFacts'
    BY <1>1, <2>1 DEF RecordFacts
  <2>4. BegunHere' /\ Reconciled' /\ (clean \in BOOLEAN)'
    BY <2>1 DEF BegunHere, Reconciled
  <2>5. Incomplete(id)
    BY <1>1, <1>4 DEF RecordFacts, Incomplete
  <2>6. ExecutionFacts'
    BY <2>1, <2>5 DEF ExecutionFacts, Incomplete, Executing, operation
  <2>7. CrashOnly'
    BY <1>1, <2>1, <2>5 DEF CrashOnly, Incomplete, Progress, Executing
  <2> QED BY <2>2, <2>3, <2>4, <2>6, <2>7, RecoveryParts
<1> QED BY <1>2, <1>3, <1>4 DEF ReplayNext

\* A readable or absent file is left alone.
LEMMA LeaveFileInv == RecoveryInv /\ LeaveFile => RecoveryInv'
<1> SUFFICES ASSUME RecoveryInv, LeaveFile PROVE RecoveryInv'
  OBVIOUS
<1> USE RecoveryFacts
<1>1. /\ pc = "replaying" /\ todo = {} /\ file # Corrupt /\ pc' = "running"
      /\ UNCHANGED <<file, bak, quarantine, appQ, journal, todo, cur, ret, faults, crashes, writes, clean>>
  BY DEF LeaveFile, diskVars, counters
<1>2. RecoveryFields'
  BY <1>1 DEF RecoveryFields, Executing
<1>3. RecordFacts'
  BY <1>1 DEF RecordFacts
<1>4. ExecutionFacts' /\ BegunHere' /\ Reconciled' /\ (clean \in BOOLEAN)'
  BY <1>1 DEF ExecutionFacts, BegunHere, Reconciled, Executing
<1>5. CrashOnly'
  BY <1>1 DEF CrashOnly, Incomplete, Progress, Executing
<1> QED BY <1>2, <1>3, <1>4, <1>5, RecoveryParts

\* A recovery is begun, or its journal record cannot be written.
LEMMA BeginOperationInv == ASSUME RecoveryInv, NEW id \in Ids, BeginOperation(id) PROVE RecoveryInv'
<1> USE RecoveryFacts
<1>1. /\ pc = "replaying" /\ todo = {} /\ file = Corrupt
      /\ journal[id].status = "none" /\ quarantine[id] = Nothing
      /\ UNCHANGED <<file, bak, quarantine, appQ, todo, crashes, writes>>
  BY DEF BeginOperation, Unused, diskVars, counters
<1> DEFINE r == [status |-> "pending", next |-> 0, steps |-> RecoverySteps]
<1>2. r \in Records /\ r.status = "pending" /\ r.next = 0 /\ r.steps = RecoverySteps
  BY DEF Records, RecoverySteps
<1>3. RecoverySteps = IF bak = Legacy THEN RecoverSteps ELSE QuarantineSteps
  BY DEF RecoverySteps
<1>4. \/ /\ persist(id, r) /\ pc' = "marking" /\ cur' = id /\ ret' = "running" /\ Works
      \/ Fails /\ pc' = "running" /\ UNCHANGED <<journal, cur, ret>>
  BY DEF BeginOperation
<1> HIDE DEF r
<1>5. CASE persist(id, r) /\ pc' = "marking" /\ cur' = id /\ ret' = "running" /\ Works
  <2>1. UNCHANGED <<faults, clean>>
    BY <1>5 DEF Works
  <2>2. /\ journal' \in [Ids -> Records] /\ journal'[id] = r
        /\ \A i \in Ids : i # id => journal'[i] = journal[i]
    BY <1>2, <1>5, Persisted DEF RecoveryFields
  <2>3. RecoveryFields'
    BY <1>1, <1>5, <2>1, <2>2 DEF RecoveryFields, Executing
  <2>4. RecordFacts'
    BY <1>1, <1>2, <1>3, <2>2, StepLists DEF RecordFacts
  <2>5. ExecutionFacts'
    BY <1>2, <1>5, <2>2 DEF ExecutionFacts, Incomplete, operation, Executing
  <2>6. BegunHere'
    BY <1>1, <1>2, <1>3, <1>5, <2>2, StepLists DEF BegunHere, operation
  <2>7. Reconciled' /\ (clean \in BOOLEAN)'
    BY <1>5, <2>1 DEF Reconciled
  <2>8. CrashOnly'
    BY <1>1, <1>2, <1>3, <1>5, <2>1, <2>2, StepLists DEF CrashOnly, Incomplete, Progress, Executing
  <2> QED BY <2>3, <2>4, <2>5, <2>6, <2>7, <2>8, RecoveryParts
<1>6. CASE Fails /\ pc' = "running" /\ UNCHANGED <<journal, cur, ret>>
  <2>1. RecoveryFields'
    BY <1>1, <1>6, AfterFailure DEF RecoveryFields, Executing
  <2>2. RecordFacts' /\ ExecutionFacts'
    BY <1>1, <1>6 DEF RecordFacts, ExecutionFacts, Executing
  <2> QED BY <1>6, <2>1, <2>2, AfterFailure, RecoveryParts
<1> QED BY <1>4, <1>5, <1>6

\* execute() marks the operation as being applied.
LEMMA MarkApplyingInv == RecoveryInv /\ MarkApplying => RecoveryInv'
<1> SUFFICES ASSUME RecoveryInv, MarkApplying PROVE RecoveryInv'
  OBVIOUS
<1> USE RecoveryFacts
<1>1. /\ pc = "marking" /\ cur \in Ids
      /\ UNCHANGED <<file, bak, quarantine, appQ, todo, ret, crashes, writes>>
  BY DEF MarkApplying, diskVars, counters, Executing
<1> DEFINE r == [operation EXCEPT !.status = "applying"]
<1>2. r \in Records /\ r.status = "applying" /\ r.next = journal[cur].next /\ r.steps = journal[cur].steps
  BY <1>1 DEF Records, operation
<1>3. \/ persist(cur, r) /\ pc' = "stepping" /\ Works /\ UNCHANGED cur
      \/ Fails /\ ExecuteReturns /\ UNCHANGED journal
  BY DEF MarkApplying
<1> HIDE DEF r
<1>4. CASE persist(cur, r) /\ pc' = "stepping" /\ Works /\ UNCHANGED cur
  <2>1. UNCHANGED <<faults, clean>>
    BY <1>4 DEF Works
  <2>2. /\ journal' \in [Ids -> Records] /\ journal'[cur] = r
        /\ \A i \in Ids : i # cur => journal'[i] = journal[i]
    BY <1>1, <1>2, <1>4, Persisted DEF RecoveryFields
  <2>3. RecoveryFields'
    BY <1>1, <1>4, <2>1, <2>2 DEF RecoveryFields, Executing
  <2>4. RecordFacts'
    BY <1>1, <1>2, <2>2 DEF RecordFacts, ExecutionFacts, Incomplete, Executing
  <2>5. ExecutionFacts'
    BY <1>2, <1>4, <2>2 DEF ExecutionFacts, Incomplete, operation, Executing
  <2>6. BegunHere'
    BY <1>1, <1>2, <1>4, <2>1, <2>2 DEF BegunHere, operation, Executing
  <2>7. Reconciled' /\ (clean \in BOOLEAN)'
    BY <1>4, <2>1 DEF Reconciled
  <2>8. CrashOnly'
    BY <1>1, <1>2, <1>4, <2>1, <2>2 DEF CrashOnly, ExecutionFacts, Incomplete, Progress, Executing
  <2> QED BY <2>3, <2>4, <2>5, <2>6, <2>7, <2>8, RecoveryParts
<1>5. CASE Fails /\ ExecuteReturns /\ UNCHANGED journal
  <2>1. RecoveryFields'
    BY <1>1, <1>5, AfterFailure DEF RecoveryFields, Executing, ExecuteReturns
  <2>2. RecordFacts' /\ ExecutionFacts'
    BY <1>1, <1>5 DEF RecordFacts, ExecutionFacts, Executing, ExecuteReturns, RecoveryFields
  <2> QED BY <1>5, <2>1, <2>2, AfterFailure, RecoveryParts
<1> QED BY <1>3, <1>4, <1>5

\* A step of the operation takes effect on the disk.
LEMMA applyStepInv == RecoveryInv /\ applyStep => RecoveryInv'
<1> SUFFICES ASSUME RecoveryInv, applyStep PROVE RecoveryInv'
  OBVIOUS
<1> USE RecoveryFacts
<1>1. /\ pc = "stepping" /\ pc' = "checkpointing" /\ cur \in Ids
      /\ UNCHANGED <<bak, appQ, journal, todo, cur, ret, faults, crashes, writes, clean>>
  BY DEF applyStep, NextIs, Works, counters, Executing
<1> DEFINE r == journal[cur]
<1>2. /\ r.next \in 0..3 /\ r.next < Len(r.steps) /\ r.steps \in {RecoverSteps, QuarantineSteps}
      /\ r.status = "applying"
  BY <1>1, StepLists DEF applyStep, NextIs, operation, RecordFacts, ExecutionFacts, Executing
<1>3. \/ r.next = 0 /\ UNCHANGED <<file, quarantine>>
      \/ r.next = 1 /\ applyMove
      \/ r.next = 2 /\ r.steps = RecoverSteps /\ applyCopy
  BY <1>2, StepLists DEF applyStep, NextIs, operation
<1>4. CASE r.next = 0 /\ UNCHANGED <<file, quarantine>>
  <2>1. RecoveryFields'
    BY <1>1, <1>4 DEF RecoveryFields, Executing
  <2>2. RecordFacts'
    BY <1>1, <1>4 DEF RecordFacts
  <2>3. ExecutionFacts'
    BY <1>1, <1>2, <1>4 DEF ExecutionFacts, Incomplete, operation
  <2>4. BegunHere' /\ Reconciled' /\ (clean \in BOOLEAN)'
    BY <1>1, <1>2, <1>4 DEF BegunHere, Reconciled, operation, Executing
  <2>5. CrashOnly'
    BY <1>1, <1>2, <1>4 DEF CrashOnly, Incomplete, Progress, Executing
  <2> QED BY <2>1, <2>2, <2>3, <2>4, <2>5, RecoveryParts
<1>5. CASE r.next = 1 /\ file = Nothing /\ quarantine[cur] # Nothing /\ UNCHANGED <<file, quarantine>>
  <2>1. RecoveryFields'
    BY <1>1, <1>5 DEF RecoveryFields, Executing
  <2>2. RecordFacts'
    BY <1>1, <1>5 DEF RecordFacts
  <2>3. ExecutionFacts'
    BY <1>1, <1>2, <1>5 DEF ExecutionFacts, Incomplete, operation
  <2>4. BegunHere' /\ Reconciled' /\ (clean \in BOOLEAN)'
    BY <1>1, <1>2, <1>5 DEF BegunHere, Reconciled, operation, Executing, Corrupt, Nothing
  <2>5. CrashOnly'
    BY <1>1, <1>2, <1>5 DEF CrashOnly, Incomplete, Progress, Executing
  <2> QED BY <2>1, <2>2, <2>3, <2>4, <2>5, RecoveryParts
<1>6. CASE /\ r.next = 1 /\ file # Nothing /\ quarantine[cur] = Nothing /\ file' = Nothing
           /\ quarantine' = [quarantine EXCEPT ![cur] = file]
  <2>1. /\ quarantine' \in [Ids -> Contents] /\ quarantine'[cur] = file
        /\ \A i \in Ids : i # cur => quarantine'[i] = quarantine[i]
    BY <1>1, <1>6 DEF RecoveryFields
  <2>2. RecoveryFields'
    BY <1>1, <1>6, <2>1, RecoveryAssumption DEF RecoveryFields, Executing, Contents, Written, Nothing
  <2>3. RecordFacts'
    BY <1>1, <1>6, <2>1 DEF RecordFacts
  <2>4. ExecutionFacts'
    BY <1>1, <1>2, <1>6, <2>1 DEF ExecutionFacts, Incomplete, operation
  <2>5. BegunHere' /\ Reconciled' /\ (clean \in BOOLEAN)'
    BY <1>1, <1>2, <1>6, <2>1 DEF BegunHere, Reconciled, operation, Executing, Corrupt, Nothing
  <2>6. CrashOnly'
    BY <1>1, <1>2, <1>6, <2>1 DEF CrashOnly, Incomplete, Progress, Executing
  <2> QED BY <2>2, <2>3, <2>4, <2>5, <2>6, RecoveryParts
<1>7. CASE r.next = 2 /\ r.steps = RecoverSteps /\ applyCopy
  <2>1. file' = (IF file = Nothing THEN bak ELSE file) /\ UNCHANGED quarantine
    BY <1>7 DEF applyCopy
  <2>2. RecoveryFields'
    BY <1>1, <1>7, <2>1, RecoveryAssumption DEF RecoveryFields, Executing, Contents, Written, Nothing, Corrupt, Legacy
  <2>3. RecordFacts'
    BY <1>1, <1>7, <2>1 DEF RecordFacts
  <2>4. ExecutionFacts'
    BY <1>1, <1>2, <1>7, <2>1 DEF ExecutionFacts, RecordFacts, Incomplete, operation
  <2>5. BegunHere' /\ Reconciled' /\ (clean \in BOOLEAN)'
    BY <1>1, <1>2, <1>7, <2>1 DEF BegunHere, Reconciled, operation, Executing, Corrupt, Nothing, Legacy
  <2>6. CrashOnly'
    BY <1>1, <1>2, <1>7, <2>1 DEF CrashOnly, Incomplete, Progress, Executing
  <2> QED BY <2>2, <2>3, <2>4, <2>5, <2>6, RecoveryParts
<1> QED BY <1>3, <1>4, <1>5, <1>6, <1>7 DEF applyMove

\* A step throws, of itself or because a disk call fails.
LEMMA StepThrowsInv == RecoveryInv /\ StepThrows => RecoveryInv'
<1> SUFFICES ASSUME RecoveryInv, StepThrows PROVE RecoveryInv'
  OBVIOUS
<1> USE RecoveryFacts
<1>1. /\ pc = "stepping" /\ pc' = "failing" /\ cur \in Ids
      /\ UNCHANGED <<file, bak, quarantine, appQ, journal, todo, cur, ret, crashes, writes>>
  BY DEF StepThrows, NextIs, diskVars, counters, Executing
<1>2. RecordFacts' /\ ExecutionFacts'
  BY <1>1 DEF RecordFacts, ExecutionFacts, Incomplete, operation, Executing
<1>3. CASE Fails
  <2>1. RecoveryFields'
    BY <1>1, <1>3, AfterFailure DEF RecoveryFields, Executing
  <2> QED BY <1>2, <1>3, <2>1, AfterFailure, RecoveryParts
<1>4. CASE NextIs("move") /\ MoveThrows /\ Works
  <2>1. UNCHANGED <<faults, clean>>
    BY <1>4 DEF Works
  <2>2. journal[cur].next = 1 /\ (file = Nothing <=> quarantine[cur] = Nothing)
    BY <1>1, <1>4, StepLists DEF NextIs, MoveThrows, operation, RecordFacts, ExecutionFacts, Executing, Incomplete
  <2>3. RecoveryFields'
    BY <1>1, <2>1 DEF RecoveryFields, Executing
  <2>4. ~(ret = "running" /\ clean)
    BY <1>1, <2>2 DEF BegunHere, operation, Executing, Corrupt, Nothing
  <2>5. BegunHere' /\ Reconciled' /\ (clean \in BOOLEAN)'
    BY <1>1, <2>1, <2>4 DEF BegunHere, Reconciled
  <2>6. ~(faults = 0 /\ writes = 0 /\ bak = Legacy)
    BY <1>1, <2>2 DEF CrashOnly, ExecutionFacts, Progress, Executing, Corrupt, Nothing
  <2>7. CrashOnly'
    BY <1>1, <2>1, <2>6 DEF CrashOnly
  <2> QED BY <1>2, <2>3, <2>5, <2>7, RecoveryParts
<1> QED BY <1>3, <1>4 DEF StepThrows

\* The step is checkpointed.
LEMMA CheckpointInv == RecoveryInv /\ Checkpoint => RecoveryInv'
<1> SUFFICES ASSUME RecoveryInv, Checkpoint PROVE RecoveryInv'
  OBVIOUS
<1> USE RecoveryFacts
<1>1. /\ pc = "checkpointing" /\ cur \in Ids
      /\ UNCHANGED <<file, bak, quarantine, appQ, todo, cur, ret, crashes, writes>>
  BY DEF Checkpoint, diskVars, counters, Executing
<1>2. /\ journal[cur].status = "applying" /\ journal[cur].next < Len(journal[cur].steps)
      /\ journal[cur].steps \in {RecoverSteps, QuarantineSteps}
  BY <1>1 DEF RecordFacts, ExecutionFacts, Incomplete, operation, Executing
<1> DEFINE r == [operation EXCEPT !.next = @ + 1]
<1>3. /\ r \in Records /\ r.status = "applying" /\ r.next = journal[cur].next + 1
      /\ r.steps = journal[cur].steps
  <2>1. journal[cur].next \in 0..3
    BY <1>1
  <2>2. Len(journal[cur].steps) \in {2, 3}
    BY <1>2, StepLists
  <2>3. \A n \in 0..3, k \in {2, 3} : n < k => n + 1 \in 0..3
    OBVIOUS
  <2>4. journal[cur].next + 1 \in 0..3
    BY <1>2, <2>1, <2>2, <2>3
  <2> QED BY <1>1, <1>2, <2>4 DEF Records, operation
<1>4. \/ persist(cur, r) /\ pc' = "stepping" /\ Works
      \/ Fails /\ pc' = "failing" /\ UNCHANGED journal
  BY DEF Checkpoint
<1> HIDE DEF r
<1>5. CASE persist(cur, r) /\ pc' = "stepping" /\ Works
  <2>1. UNCHANGED <<faults, clean>>
    BY <1>5 DEF Works
  <2>2. /\ journal' \in [Ids -> Records] /\ journal'[cur] = r
        /\ \A i \in Ids : i # cur => journal'[i] = journal[i]
    BY <1>1, <1>3, <1>5, Persisted DEF RecoveryFields
  <2>3. RecoveryFields'
    BY <1>1, <1>5, <2>1, <2>2 DEF RecoveryFields, Executing
  <2>4. RecordFacts'
    BY <1>1, <1>2, <1>3, <2>2, StepLists DEF RecordFacts, ExecutionFacts, operation, Executing
  <2>5. ExecutionFacts'
    BY <1>1, <1>3, <1>5, <2>2 DEF ExecutionFacts, Incomplete, operation, Executing
  <2>6. BegunHere'
    BY <1>1, <1>2, <1>3, <1>5, <2>1, <2>2 DEF BegunHere, operation, Executing
  <2>7. Reconciled' /\ (clean \in BOOLEAN)'
    BY <1>5, <2>1 DEF Reconciled
  <2>8. CrashOnly'
    BY <1>1, <1>2, <1>3, <1>5, <2>1, <2>2 DEF CrashOnly, ExecutionFacts, Incomplete, Progress, Executing, operation
  <2> QED BY <2>3, <2>4, <2>5, <2>6, <2>7, <2>8, RecoveryParts
<1>6. CASE Fails /\ pc' = "failing" /\ UNCHANGED journal
  <2>1. RecoveryFields'
    BY <1>1, <1>6, AfterFailure DEF RecoveryFields, Executing
  <2>2. RecordFacts' /\ ExecutionFacts'
    BY <1>1, <1>6 DEF RecordFacts, ExecutionFacts, Incomplete, operation, Executing
  <2> QED BY <1>6, <2>1, <2>2, AfterFailure, RecoveryParts
<1> QED BY <1>4, <1>5, <1>6

\* The operation is recorded as completed.
LEMMA CompleteInv == RecoveryInv /\ Complete => RecoveryInv'
<1> SUFFICES ASSUME RecoveryInv, Complete PROVE RecoveryInv'
  OBVIOUS
<1> USE RecoveryFacts
<1>1. /\ pc = "stepping" /\ cur \in Ids /\ journal[cur].next = Len(journal[cur].steps)
      /\ UNCHANGED <<file, bak, quarantine, appQ, todo, ret, crashes, writes>>
  BY DEF Complete, diskVars, counters, operation, Executing
<1>2. journal[cur].steps \in {RecoverSteps, QuarantineSteps} /\ journal[cur].next >= 2
  BY <1>1, StepLists DEF RecordFacts, ExecutionFacts, Incomplete, operation, Executing
<1> DEFINE r == [operation EXCEPT !.status = "completed"]
<1>3. r \in Records /\ r.status = "completed" /\ r.next = journal[cur].next /\ r.steps = journal[cur].steps
  BY <1>1 DEF Records, operation
<1>4. \/ persist(cur, r) /\ ExecuteReturns /\ Works
      \/ Fails /\ pc' = "failing" /\ UNCHANGED <<journal, cur>>
  BY DEF Complete
<1> HIDE DEF r
<1>5. CASE persist(cur, r) /\ ExecuteReturns /\ Works
  <2>1. UNCHANGED <<faults, clean>> /\ cur' = NoId /\ pc' = ret
    BY <1>5 DEF Works, ExecuteReturns
  <2>2. /\ journal' \in [Ids -> Records] /\ journal'[cur] = r
        /\ \A i \in Ids : i # cur => journal'[i] = journal[i]
    BY <1>1, <1>3, <1>5, Persisted DEF RecoveryFields
  <2>3. RecoveryFields'
    BY <1>1, <2>1, <2>2 DEF RecoveryFields, Executing
  <2>4. RecordFacts'
    BY <1>1, <1>2, <1>3, <2>2 DEF RecordFacts, ExecutionFacts, Incomplete, operation, Executing
  <2>5. ExecutionFacts' /\ BegunHere'
    BY <1>1, <2>1 DEF ExecutionFacts, BegunHere, RecoveryFields, Executing
  <2>6. Reconciled' /\ (clean \in BOOLEAN)'
    <3>1. ret = "running" /\ clean => file # Corrupt
      <4>1. journal[cur].next # 0 /\ journal[cur].next # 1
        BY <1>2
      <4> QED BY <1>1, <4>1 DEF BegunHere, operation, Executing
    <3> QED BY <1>1, <2>1, <3>1 DEF Reconciled
  <2>7. CrashOnly'
    <3> SUFFICES ASSUME (faults = 0 /\ writes = 0 /\ bak = Legacy)' PROVE CrashOnly'
      BY DEF CrashOnly
    <3>1. /\ \A i \in Ids : journal[i].status # "failed"
          /\ \A i \in Ids : journal[i].status # "none" => journal[i].steps = RecoverSteps
          /\ \A i \in Ids : Incomplete(i) => i = cur
          /\ Incomplete(cur) /\ Progress(cur)
      BY <1>1, <2>1 DEF CrashOnly, ExecutionFacts, Executing
    <3>2. file = Legacy
      BY <1>1, <3>1, StepLists DEF Progress, Incomplete
    <3>3. \A i \in Ids : journal'[i].status \in {"none", "completed"}
      BY <1>3, <2>2, <3>1 DEF Incomplete
    <3>4. \A i \in Ids : journal'[i].status # "none" => journal'[i].steps = RecoverSteps
      BY <1>3, <2>2, <3>1 DEF Incomplete
    <3> QED BY <1>1, <2>1, <3>2, <3>3, <3>4 DEF CrashOnly, Incomplete, RecoveryFields
  <2> QED BY <2>3, <2>4, <2>5, <2>6, <2>7, RecoveryParts
<1>6. CASE Fails /\ pc' = "failing" /\ UNCHANGED <<journal, cur>>
  <2>1. RecoveryFields'
    BY <1>1, <1>6, AfterFailure DEF RecoveryFields, Executing
  <2>2. RecordFacts' /\ ExecutionFacts'
    BY <1>1, <1>6 DEF RecordFacts, ExecutionFacts, Incomplete, operation, Executing
  <2> QED BY <1>6, <2>1, <2>2, AfterFailure, RecoveryParts
<1> QED BY <1>4, <1>5, <1>6

\* The catch of execute().
LEMMA FailOperationInv == RecoveryInv /\ FailOperation => RecoveryInv'
<1> SUFFICES ASSUME RecoveryInv, FailOperation PROVE RecoveryInv'
  OBVIOUS
<1> USE RecoveryFacts
<1>1. /\ pc = "failing" /\ cur \in Ids /\ cur' = NoId /\ pc' = ret
      /\ UNCHANGED <<file, bak, quarantine, appQ, todo, ret, crashes, writes>>
  BY DEF FailOperation, ExecuteReturns, diskVars, counters, Executing
<1> DEFINE r == [operation EXCEPT !.status = "failed"]
<1>2. r \in Records /\ r.status = "failed" /\ r.next = journal[cur].next /\ r.steps = journal[cur].steps
  BY <1>1 DEF Records, operation
<1>3. \/ persist(cur, r) /\ Works
      \/ UNCHANGED journal /\ Fails
  BY DEF FailOperation
<1> HIDE DEF r
<1>4. CASE persist(cur, r) /\ Works
  <2>1. UNCHANGED <<faults, clean>>
    BY <1>4 DEF Works
  <2>2. /\ journal' \in [Ids -> Records] /\ journal'[cur] = r
        /\ \A i \in Ids : i # cur => journal'[i] = journal[i]
    BY <1>1, <1>2, <1>4, Persisted DEF RecoveryFields
  <2>3. RecoveryFields'
    BY <1>1, <2>1, <2>2 DEF RecoveryFields, Executing
  <2>4. RecordFacts'
    BY <1>1, <1>2, <2>2 DEF RecordFacts, ExecutionFacts, Incomplete, Executing
  <2>5. ExecutionFacts' /\ BegunHere'
    BY <1>1 DEF ExecutionFacts, BegunHere, RecoveryFields, Executing
  <2>6. ~(ret = "running" /\ clean)
    BY <1>1 DEF BegunHere, Executing
  <2>7. Reconciled' /\ (clean \in BOOLEAN)'
    BY <1>1, <2>1, <2>6 DEF Reconciled
  <2>8. CrashOnly'
    BY <1>1, <2>1 DEF CrashOnly
  <2> QED BY <2>3, <2>4, <2>5, <2>7, <2>8, RecoveryParts
<1>5. CASE UNCHANGED journal /\ Fails
  <2>1. RecoveryFields'
    BY <1>1, <1>5, AfterFailure DEF RecoveryFields, Executing
  <2>2. RecordFacts' /\ ExecutionFacts'
    BY <1>1, <1>5 DEF RecordFacts, ExecutionFacts, Executing, RecoveryFields
  <2> QED BY <1>5, <2>1, <2>2, AfterFailure, RecoveryParts
<1> QED BY <1>3, <1>4, <1>5

\* The application reads a corrupt file, or writes.
LEMMA ApplicationInv == RecoveryInv /\ (AppReads \/ AppWrites) => RecoveryInv'
<1> SUFFICES ASSUME RecoveryInv, AppReads \/ AppWrites PROVE RecoveryInv'
  OBVIOUS
<1> USE RecoveryFacts
<1>1. /\ pc = "running" /\ UNCHANGED <<quarantine, journal, pc, todo, cur, ret, crashes>>
      /\ Works \/ Fails
      /\ faults' \in 0..MaxFaults
  <2>1. pc = "running" /\ UNCHANGED <<quarantine, journal, pc, todo, cur, ret, crashes>>
    BY DEF AppReads, AppWrites, counters
  <2>2. Works \/ Fails
    BY DEF AppReads, AppWrites
  <2>3. faults' \in 0..MaxFaults
    BY <2>2, AfterFailure DEF Works, RecoveryFields
  <2> QED BY <2>1, <2>2, <2>3
<1>2. RecordFacts' /\ ExecutionFacts' /\ BegunHere'
  BY <1>1 DEF RecordFacts, ExecutionFacts, BegunHere, Executing
<1>3. (clean \in BOOLEAN)'
  BY <1>1, AfterFailure DEF Works
<1>4. CASE AppReads
  <2>1. /\ file = Corrupt /\ UNCHANGED <<bak, writes>>
        /\ \/ file' = Nothing /\ appQ' = appQ \cup {Corrupt} /\ Works
           \/ UNCHANGED <<file, appQ>> /\ Fails
    BY <1>4 DEF AppReads, counters
  <2>2. RecoveryFields'
    BY <1>1, <2>1, RecoveryAssumption DEF RecoveryFields, Contents, Written, Nothing
  <2>3. CASE Fails
    BY <1>2, <1>3, <2>2, <2>3, AfterFailure, RecoveryParts
  <2>4. CASE file' = Nothing /\ Works
    <3>1. Reconciled'
      BY <2>4 DEF Reconciled, Nothing, Corrupt
    <3>2. ~(faults = 0 /\ writes = 0 /\ bak = Legacy)
      BY <1>1, <2>1 DEF CrashOnly, Corrupt, Legacy
    <3>3. CrashOnly'
      BY <2>1, <2>4, <3>2 DEF CrashOnly, Works
    <3> QED BY <1>2, <1>3, <2>2, <3>1, <3>3, RecoveryParts
  <2> QED BY <2>1, <2>3, <2>4
<1>5. CASE AppWrites
  <2>1. /\ writes < MaxWrites /\ writes' = writes + 1 /\ file' = 2 + (writes + 1)
        /\ bak' = (IF file = Legacy /\ bak = Nothing THEN Legacy ELSE bak) /\ UNCHANGED appQ
    BY <1>5 DEF AppWrites, Written
  <2>2. writes' \in 0..MaxWrites /\ writes' # 0 /\ file' \in Contents /\ file' # Corrupt
    BY <2>1, RecoveryAssumption DEF RecoveryFields, Contents, Written, Corrupt
  <2>3. RecoveryFields'
    BY <1>1, <2>1, <2>2 DEF RecoveryFields
  <2>4. Reconciled' /\ CrashOnly'
    BY <2>2 DEF Reconciled, CrashOnly
  <2> QED BY <1>2, <1>3, <2>3, <2>4, RecoveryParts
<1> QED BY <1>4, <1>5

\* The runtime crashes or is disposed.
LEMMA CrashInv == RecoveryInv /\ Crash => RecoveryInv'
<1> SUFFICES ASSUME RecoveryInv, Crash PROVE RecoveryInv'
  OBVIOUS
<1> USE RecoveryFacts
<1>1. /\ crashes < MaxCrashes /\ crashes' = crashes + 1
      /\ pc' = "down" /\ todo' = {} /\ cur' = NoId /\ ret' = "replaying"
      /\ UNCHANGED <<file, bak, quarantine, appQ, journal, faults, writes, clean>>
  BY DEF Crash, diskVars
<1>2. RecoveryFields'
  BY <1>1, RecoveryAssumption DEF RecoveryFields, Executing
<1>3. RecordFacts'
  BY <1>1 DEF RecordFacts
<1>4. ExecutionFacts' /\ BegunHere' /\ Reconciled' /\ (clean \in BOOLEAN)'
  BY <1>1 DEF ExecutionFacts, BegunHere, Reconciled, Executing
<1>5. CrashOnly'
  BY <1>1 DEF CrashOnly, Incomplete, Progress, Executing
<1> QED BY <1>2, <1>3, <1>4, <1>5, RecoveryParts

\* Every action keeps RecoveryInv.
LEMMA RecoveryNextInv == RecoveryInv /\ [RecoveryNext]_recoveryVars => RecoveryInv'
<1> SUFFICES ASSUME RecoveryInv, [RecoveryNext]_recoveryVars PROVE RecoveryInv'
  OBVIOUS
<1>1. CASE RecoveryNext
  BY <1>1, StartRuntimeInv, ReplayNextInv, BeginOperationInv, LeaveFileInv, MarkApplyingInv, applyStepInv,
     StepThrowsInv, CheckpointInv, CompleteInv, FailOperationInv, ApplicationInv, CrashInv
     DEF RecoveryNext, RuntimeStep
<1>2. CASE UNCHANGED recoveryVars
  <2>1. /\ UNCHANGED <<file, bak, quarantine, appQ, journal, pc, todo, cur, ret, faults, crashes, writes>>
        /\ clean' = clean
    BY <1>2 DEF recoveryVars, diskVars, counters
  <2>2. (clean \in BOOLEAN)' /\ BegunHere' /\ Reconciled'
    BY <2>1, RecoveryFacts DEF BegunHere, Reconciled, operation
  <2>3. RecoveryFields' /\ RecordFacts' /\ ExecutionFacts'
    BY <2>1, RecoveryFacts DEF RecoveryFields, RecordFacts, ExecutionFacts, Incomplete, operation
  <2>4. CrashOnly'
    BY <2>1, RecoveryFacts DEF CrashOnly, Incomplete, Progress
  <2> QED BY <2>2, <2>3, <2>4, RecoveryParts
<1> QED BY <1>1, <1>2

\* What the journal and a reconciliation report is what is on the disk.
THEOREM RecoveryIsSound == RecoverySpec => []Recovered
<1>1. RecoveryInv => Recovered
  <2> SUFFICES ASSUME RecoveryInv PROVE Recovered
    OBVIOUS
  <2>1. CrashRecovers
    BY RecoveryFacts DEF CrashOnly, CrashRecovers
  <2>2. CompletedIsDone
    BY RecoveryFacts, StepLists DEF CompletedIsDone, RecordFacts
  <2> QED BY <2>1, <2>2 DEF RecoveryInv, Recovered
<1> QED BY <1>1, RecoveryInitInv, RecoveryNextInv, PTL DEF RecoverySpec

\* No step of a reconciliation destroys a content.
THEOREM NoBytesLost == RecoverySpec => RecoveryKeepsBytes
<1>1. RecoveryInv /\ [RecoveryNext]_recoveryVars => [pc # "running" => Bytes \subseteq Bytes']_recoveryVars
  <2> SUFFICES ASSUME RecoveryTypeOK, RecoveryNext, pc # "running" PROVE Bytes \subseteq Bytes'
    BY DEF RecoveryInv
  <2>1. CASE applyStep
    BY <2>1 DEF applyStep, applyMove, applyCopy, NextIs, Bytes, RecoveryTypeOK, Ids, NoId, Nothing
  <2>2. CASE UNCHANGED diskVars
    BY <2>2 DEF diskVars, Bytes
  <2> QED
    BY <2>1, <2>2 DEF RecoveryNext, RuntimeStep, StartRuntime, ReplayNext, BeginOperation, LeaveFile,
       MarkApplying, StepThrows, Checkpoint, Complete, FailOperation, AppReads, AppWrites, Crash
<1> QED BY <1>1, RecoveryInitInv, RecoveryNextInv, PTL DEF RecoverySpec, RecoveryKeepsBytes
=============================================================================
