-------------------------- MODULE UserDataRecovery --------------------------
(***************************************************************************)
(* Recovery of one root state file of a user (workspace-state.json and its *)
(* .bak-v0 backup) by UserDataReconciler through OperationJournal, across  *)
(* crashes, failing disk calls and the life of the server in between.      *)
(*                                                                         *)
(* A runtime of the user starts by reconciling: it replays the incomplete  *)
(* journal operations (in the order of their random ids), then looks at    *)
(* the file and, when it is corrupt, journals and executes a recovery.     *)
(* Each durable effect (a rename, a copy, an AtomicJsonStore write of the  *)
(* journal record) is an action: a crash may fall between any two, and any *)
(* of them may fail.                                                       *)
(*                                                                         *)
(* Operators named Mutant_... are faulty variants of the definition that   *)
(* follows them, kept to show that the properties can fail.                *)
(***************************************************************************)
EXTENDS Naturals, Sequences

CONSTANTS
    MaxRecoveries, \* bound: journal operations begun in one behaviour
    MaxFaults,     \* bound: disk calls that fail
    MaxCrashes,    \* bound: crashes and restarts of the runtime
    MaxWrites      \* bound: state writes of the running application

ASSUME RecoveryAssumption ==
    MaxRecoveries \in Nat /\ MaxFaults \in Nat /\ MaxCrashes \in Nat /\ MaxWrites \in Nat

VARIABLES
    file,      \* content of the state file
    bak,       \* content of its .bak-v0 backup
    quarantine,\* operation -> content at its own quarantine destination
    appQ,      \* contents AtomicJsonStore.read moved aside by itself
    journal,   \* operation -> its record on disk
    pc,        \* what the runtime does
    todo,      \* records replayIncomplete has still to look at
    cur,       \* operation being executed
    ret,       \* where execute() returns to: the replay, or the running runtime
    faults, crashes, writes,
    clean      \* no disk call has failed since the runtime started

diskVars == <<file, bak, quarantine, appQ>>
counters == <<crashes, writes>>
recoveryVars == <<diskVars, journal, pc, todo, cur, ret, faults, counters, clean>>

Ids == 1..MaxRecoveries
NoId == 0

\* Contents are numbers, so that they can be told apart: no file, bytes that do not
\* parse, the bare JSON of an earlier release, what the n-th application write left.
Nothing == 0
Corrupt == 1
Legacy == 2
Written(n) == 2 + n
Contents == 0..Written(MaxWrites)

\* The steps of recoverFromBackup, and of reconcileRootStateFile without a backup.
RecoverSteps == <<"mkdir", "move", "copy">>
QuarantineSteps == <<"mkdir", "move">>

NoRecord == [status |-> "none", next |-> 0, steps |-> <<>>]
Records == [status : {"none", "pending", "applying", "completed", "failed"},
            next : 0..3, steps : {<<>>, RecoverSteps, QuarantineSteps}]

RecoveryInit ==
    /\ file \in {Corrupt, Legacy}
    /\ bak \in {Nothing, Corrupt, Legacy}
    /\ quarantine = [i \in Ids |-> Nothing]
    /\ appQ = {}
    /\ journal = [i \in Ids |-> NoRecord]
    /\ pc = "down" /\ todo = {} /\ cur = NoId /\ ret = "replaying"
    /\ faults = 0 /\ crashes = 0 /\ writes = 0 /\ clean = TRUE

-----------------------------------------------------------------------------
(* Disk calls that may fail *)

Fails ==
    /\ faults < MaxFaults
    /\ faults' = faults + 1
    /\ clean' = FALSE

Works == UNCHANGED <<faults, clean>>

\* persist(): the record is replaced by an atomic rename, or the call throws.
persist(id, record) == journal' = [journal EXCEPT ![id] = record]

-----------------------------------------------------------------------------
(* UserDataReconciler.reconcile *)

\* replayIncomplete lists the records there are.
StartRuntime ==
    /\ pc = "down"
    /\ pc' = "replaying"
    /\ todo' = {i \in Ids : journal[i].status # "none"}
    /\ clean' = TRUE
    /\ UNCHANGED <<diskVars, journal, cur, ret, faults, counters>>

\* Faulty replay: an operation that was being applied is taken for a running one.
Mutant_ReplayNext(id) ==
    /\ pc = "replaying"
    /\ id \in todo
    /\ todo' = todo \ {id}
    /\ IF journal[id].status \in {"completed", "applying"}
       THEN UNCHANGED <<journal, pc, cur, ret>>
       ELSE /\ pc' = "marking" /\ cur' = id /\ ret' = "replaying"
            /\ UNCHANGED journal
    /\ UNCHANGED <<diskVars, counters, faults, clean>>

\* A completed record is removed; any other is executed.
ReplayNext(id) ==
    /\ pc = "replaying"
    /\ id \in todo
    /\ todo' = todo \ {id}
    /\ IF journal[id].status = "completed"
       THEN /\ \/ persist(id, NoRecord) /\ Works
               \/ UNCHANGED journal /\ Fails
            /\ UNCHANGED <<pc, cur, ret>>
       ELSE /\ pc' = "marking" /\ cur' = id /\ ret' = "replaying"
            /\ UNCHANGED <<journal, faults, clean>>
    /\ UNCHANGED <<diskVars, counters>>

\* reconcileRootStateFile: an absent or readable file is left alone.
LeaveFile ==
    /\ pc = "replaying" /\ todo = {}
    /\ file # Corrupt
    /\ pc' = "running"
    /\ UNCHANGED <<diskVars, journal, todo, cur, ret, faults, counters, clean>>

\* randomUUID(): an id, and a quarantine destination, nothing used before.
Unused(id) == journal[id].status = "none" /\ quarantine[id] = Nothing

\* A backup is used only when it can be read itself.
RecoverySteps == IF bak = Legacy THEN RecoverSteps ELSE QuarantineSteps

\* A corrupt file: begin() a recovery from the backup, or a quarantine.
BeginOperation(id) ==
    /\ pc = "replaying" /\ todo = {}
    /\ file = Corrupt
    /\ Unused(id) /\ \A i \in Ids : Unused(i) => id <= i
    /\ \/ /\ persist(id, [status |-> "pending", next |-> 0, steps |-> RecoverySteps])
          /\ pc' = "marking" /\ cur' = id /\ ret' = "running"
          /\ Works
       \/ /\ Fails
          /\ pc' = "running"
          /\ UNCHANGED <<journal, cur, ret>>
    /\ UNCHANGED <<diskVars, todo, counters>>

-----------------------------------------------------------------------------
(* OperationJournal.execute *)

\* In memory, execute() holds the record it persisted last.
operation == journal[cur]

ExecuteReturns == cur' = NoId /\ pc' = ret

\* The first persist is outside the try: its failure is not recorded.
MarkApplying ==
    /\ pc = "marking"
    /\ \/ /\ persist(cur, [operation EXCEPT !.status = "applying"])
          /\ pc' = "stepping"
          /\ Works
          /\ UNCHANGED cur
       \/ Fails /\ ExecuteReturns /\ UNCHANGED journal
    /\ UNCHANGED <<diskVars, todo, ret, counters>>

\* Faulty move: renames without looking at the destination.
Mutant_applyMove ==
    IF file = Nothing
    THEN quarantine[cur] # Nothing /\ UNCHANGED <<file, quarantine>>
    ELSE file' = Nothing /\ quarantine' = [quarantine EXCEPT ![cur] = file]

\* move-if-exists to the operation's own destination; not enabled when it throws.
applyMove ==
    IF file = Nothing
    THEN quarantine[cur] # Nothing /\ UNCHANGED <<file, quarantine>>
    ELSE /\ quarantine[cur] = Nothing
         /\ file' = Nothing
         /\ quarantine' = [quarantine EXCEPT ![cur] = file]

MoveThrows == (file = Nothing) = (quarantine[cur] = Nothing)

\* copy-file-if-missing: a temporary copy renamed into place.  Its source exists: the
\* operation was begun because it did, and nothing removes a backup.
applyCopy ==
    /\ file' = IF file = Nothing THEN bak ELSE file
    /\ UNCHANGED quarantine

NextIs(step) ==
    /\ pc = "stepping"
    /\ operation.next < Len(operation.steps)
    /\ operation.steps[operation.next + 1] = step

applyStep ==
    /\ \/ NextIs("mkdir") /\ UNCHANGED <<file, quarantine>>
       \/ NextIs("move") /\ applyMove
       \/ NextIs("copy") /\ applyCopy
    /\ pc' = "checkpointing"
    /\ Works
    /\ UNCHANGED <<bak, appQ, journal, todo, cur, ret, counters>>

\* The step throws: of itself, or because a disk call fails.
StepThrows ==
    /\ \/ NextIs("move") /\ MoveThrows /\ Works
       \/ (NextIs("mkdir") \/ NextIs("move") \/ NextIs("copy")) /\ Fails
    /\ pc' = "failing"
    /\ UNCHANGED <<diskVars, journal, todo, cur, ret, counters>>

Checkpoint ==
    /\ pc = "checkpointing"
    /\ \/ /\ persist(cur, [operation EXCEPT !.next = @ + 1])
          /\ pc' = "stepping"
          /\ Works
       \/ Fails /\ pc' = "failing" /\ UNCHANGED journal
    /\ UNCHANGED <<diskVars, todo, cur, ret, counters>>

Complete ==
    /\ pc = "stepping"
    /\ operation.next = Len(operation.steps)
    /\ \/ /\ persist(cur, [operation EXCEPT !.status = "completed"])
          /\ ExecuteReturns
          /\ Works
       \/ Fails /\ pc' = "failing" /\ UNCHANGED <<journal, cur>>
    /\ UNCHANGED <<diskVars, todo, ret, counters>>

\* The catch: records the failure, if even that can be written, and rethrows.
FailOperation ==
    /\ pc = "failing"
    /\ \/ persist(cur, [operation EXCEPT !.status = "failed"]) /\ Works
       \/ UNCHANGED journal /\ Fails
    /\ ExecuteReturns
    /\ UNCHANGED <<diskVars, todo, ret, counters>>

-----------------------------------------------------------------------------
(* The running application: WorkspaceStateStore over AtomicJsonStore *)

\* get(): AtomicJsonStore.read moves a corrupt file aside, if it can.
AppReads ==
    /\ pc = "running"
    /\ file = Corrupt
    /\ \/ file' = Nothing /\ appQ' = appQ \cup {Corrupt} /\ Works
       \/ UNCHANGED <<file, appQ>> /\ Fails
    /\ UNCHANGED <<bak, quarantine, journal, pc, todo, cur, ret, counters>>

\* put(): a legacy file is backed up once, then replaced.  A corrupt file is
\* replaced only when moving it aside failed.
AppWrites ==
    /\ pc = "running"
    /\ writes < MaxWrites
    /\ writes' = writes + 1
    /\ file' = Written(writes + 1)
    /\ bak' = IF file = Legacy /\ bak = Nothing THEN Legacy ELSE bak
    /\ IF file = Corrupt THEN Fails ELSE Works
    /\ UNCHANGED <<quarantine, appQ, journal, pc, todo, cur, ret, crashes>>

\* A crash, or the runtime is disposed: everything in memory is gone.
Crash ==
    /\ pc # "down"
    /\ crashes < MaxCrashes
    /\ crashes' = crashes + 1
    /\ pc' = "down" /\ todo' = {} /\ cur' = NoId /\ ret' = "replaying"
    /\ UNCHANGED <<diskVars, journal, faults, writes, clean>>

-----------------------------------------------------------------------------
RuntimeStep ==
    \/ StartRuntime
    \/ \E id \in Ids : ReplayNext(id) \/ BeginOperation(id)
    \/ LeaveFile
    \/ MarkApplying
    \/ applyStep
    \/ StepThrows
    \/ Checkpoint
    \/ Complete
    \/ FailOperation

RecoveryNext == RuntimeStep \/ AppReads \/ AppWrites \/ Crash

RecoverySpec == RecoveryInit /\ [][RecoveryNext]_recoveryVars

-----------------------------------------------------------------------------
(* Properties *)

\* Every variable has its type.
RecoveryTypeOK ==
    /\ file \in Contents /\ bak \in {Nothing, Corrupt, Legacy}
    /\ quarantine \in [Ids -> Contents] /\ appQ \subseteq {Corrupt}
    /\ journal \in [Ids -> Records]
    /\ pc \in {"down", "replaying", "marking", "stepping", "checkpointing", "failing", "running"}
    /\ todo \subseteq Ids /\ cur \in Ids \cup {NoId} /\ ret \in {"replaying", "running"}
    /\ cur # NoId <=> pc \in {"marking", "stepping", "checkpointing", "failing"}
    /\ faults \in 0..MaxFaults /\ crashes \in 0..MaxCrashes /\ writes \in 0..MaxWrites
    /\ clean \in BOOLEAN

\* Everything on disk that could be somebody's only copy.
Bytes == ({file, bak} \cup {quarantine[i] : i \in Ids} \cup appQ) \ {Nothing}

\* "retains both backup and quarantined bytes": no step of a reconciliation, however
\* often it is replayed after crashes and failures, destroys a content.
RecoveryKeepsBytes == [][pc # "running" => Bytes \subseteq Bytes']_recoveryVars

\* "a process can replay an operation after crashing between the filesystem change
\* and its checkpoint write": with crashes alone, the first runtime that gets through
\* finds the backup restored.
CrashRecovers ==
    pc = "running" /\ faults = 0 /\ writes = 0 /\ bak = Legacy => file = Legacy

\* A reconciliation in which no disk call failed leaves no corrupt file behind,
\* whatever earlier ones left in the journal.
Reconciled == pc = "running" /\ clean => file # Corrupt

\* A record says completed only when what it had to quarantine is in quarantine.
CompletedIsDone == \A i \in Ids : journal[i].status = "completed" => quarantine[i] # Nothing

\* What the journal and a reconciliation report is what is on the disk, crashes
\* between a step and its checkpoint included.
Recovered == RecoveryTypeOK /\ CrashRecovers /\ Reconciled /\ CompletedIsDone

\* "quarantines only the corrupt current JSON": a state file the application has
\* written is not moved away by a reconciliation.
ValidKept ==
    [][pc # "running" /\ file' # file => file <= Legacy]_recoveryVars
=============================================================================
