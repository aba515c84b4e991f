----------------------------- MODULE RunnerLock -----------------------------
(***************************************************************************)
(* The two file locks that keep one writer on the data root: runner.lock   *)
(* of acquireRunnerLock, taken by every server process, and the directory  *)
(* maintenance-backup.lock, taken by scripts/backup-local.sh.  Several     *)
(* processes run these steps against one file system, so each call that    *)
(* reaches it is an action of its own; a heartbeat is two of them, because *)
(* writeFileSync truncates the file before it writes the payload.          *)
(*                                                                         *)
(* Operators named Mutant_... are faulty variants of the definition that   *)
(* follows them, kept to show that the properties can fail.                *)
(***************************************************************************)
EXTENDS Naturals, FiniteSets

CONSTANTS
    Runners,   \* server processes started on one data root
    Recorded   \* those started by dev-local.sh, whose pid is in server.pid


VARIABLES
    lock,     \* runner.lock: absent, empty, fresh payload, stale payload
    beat,     \* the runner that wrote the payload, or none
    opened,   \* runners whose open heartbeat descriptor is of the file at that path
    maint,    \* maintenance-backup.lock exists
    backup,   \* progress of backup-local.sh
    place,    \* runner -> its place in acquireRunnerLock, or its life after it
    taken     \* a runner has removed a lock file it took for stale

fileVars == <<lock, beat, opened>>
lockVars == <<lock, beat, opened, maint, backup, place, taken>>

None == "none"

ASSUME RunnerAssumption == Recorded \subseteq Runners /\ None \notin Runners

Starting == {"maintenance", "exists", "reading", "removing", "creating", "confirming",
             "retreating", "announcing", "publishing"}
Writing == {"holding", "beating"}
Ended == {"refused", "released", "crashed"}

LockInit ==
    /\ lock = "absent" /\ beat = None /\ opened = {}
    /\ maint = FALSE /\ backup = "idle"
    /\ place = [r \in Runners |-> "maintenance"] /\ taken = FALSE

Step(r, from, to) == place[r] = from /\ place' = [place EXCEPT ![r] = to]

\* rmSync(path, {force: true}): descriptors that are open keep the unlinked file.
RemoveFile == lock' = "absent" /\ beat' = None /\ opened' = {}

-----------------------------------------------------------------------------
(* acquireRunnerLock *)

CheckMaintenance(r) ==
    /\ Step(r, "maintenance", IF maint THEN "refused" ELSE "exists")
    /\ UNCHANGED <<fileVars, maint, backup, taken>>

CheckExists(r) ==
    /\ Step(r, "exists", IF lock = "absent" THEN "creating" ELSE "reading")
    /\ UNCHANGED <<fileVars, maint, backup, taken>>

\* readLock and isStale: a file that cannot be read or parsed counts as stale.
ReadLock(r) ==
    /\ Step(r, "reading", IF lock = "fresh" THEN "refused" ELSE "removing")
    /\ UNCHANGED <<fileVars, maint, backup, taken>>

RemoveStale(r) ==
    /\ Step(r, "removing", "creating")
    /\ RemoveFile /\ taken' = TRUE
    /\ UNCHANGED <<maint, backup>>

\* Faulty creation: the file is opened with "w".
Mutant_CreateLock(r) ==
    /\ Step(r, "creating", "confirming") /\ lock' = "empty" /\ beat' = None
    /\ UNCHANGED <<opened, maint, backup, taken>>

\* openSync(path, "wx"): EEXIST is thrown to the caller.
CreateLock(r) ==
    /\ IF lock = "absent"
       THEN Step(r, "creating", "confirming") /\ lock' = "empty"
       ELSE Step(r, "creating", "refused") /\ UNCHANGED lock
    /\ UNCHANGED <<beat, opened, maint, backup, taken>>

ConfirmMaintenance(r) ==
    /\ Step(r, "confirming", IF maint THEN "retreating" ELSE "announcing")
    /\ UNCHANGED <<fileVars, maint, backup, taken>>

Retreat(r) ==
    /\ Step(r, "retreating", "refused")
    /\ RemoveFile
    /\ UNCHANGED <<maint, backup, taken>>

-----------------------------------------------------------------------------
(* Heartbeats, release, crashes *)

\* writeFileSync opens with truncation and creates a missing file.
Truncate(r) ==
    /\ \/ Step(r, "announcing", "publishing")
       \/ Step(r, "holding", "beating")
    /\ lock' = "empty"
    /\ beat' = None
    /\ opened' = opened \cup {r}
    /\ UNCHANGED <<maint, backup, taken>>

\* The payload reaches the path only if the file was not unlinked meanwhile.
WritePayload(r) ==
    /\ \/ Step(r, "publishing", "holding")
       \/ Step(r, "beating", "holding")
    /\ IF r \in opened THEN lock' = "fresh" /\ beat' = r ELSE UNCHANGED <<lock, beat>>
    /\ opened' = opened \ {r}
    /\ UNCHANGED <<maint, backup, taken>>

\* release() at the end of gracefulShutdown, whoever owns the file by now.
Release(r) ==
    /\ Step(r, "holding", "released")
    /\ RemoveFile
    /\ UNCHANGED <<maint, backup, taken>>

RunnerCrash(r) ==
    /\ place[r] \notin Ended
    /\ place' = [place EXCEPT ![r] = "crashed"]
    /\ opened' = opened \ {r}
    /\ UNCHANGED <<lock, beat, maint, backup, taken>>

\* 45 seconds pass without a heartbeat, of a writer that died or whose process was
\* suspended for as long: a live one beats every 10 seconds.
Expire ==
    /\ lock = "fresh" /\ lock' = "stale"
    /\ UNCHANGED <<beat, opened, maint, backup, place, taken>>

-----------------------------------------------------------------------------
(* scripts/backup-local.sh *)

BackupLocks ==
    /\ backup = "idle"
    /\ backup' = "locked" /\ maint' = TRUE
    /\ UNCHANGED <<fileVars, place, taken>>

\* server.pid names a live process: the trap removes the directory.
BackupChecksPid ==
    /\ backup = "locked"
    /\ IF \E r \in Recorded : place[r] \notin Ended
       THEN backup' = "refused" /\ maint' = FALSE
       ELSE backup' = "checking" /\ UNCHANGED maint
    /\ UNCHANGED <<fileVars, place, taken>>

\* Only a parsable payload with a recent heartbeat refuses the backup.
BackupChecksLock ==
    /\ backup = "checking"
    /\ IF lock = "fresh"
       THEN backup' = "refused" /\ maint' = FALSE
       ELSE backup' = "running" /\ UNCHANGED maint
    /\ UNCHANGED <<fileVars, place, taken>>

BackupEnds ==
    /\ backup = "running"
    /\ backup' = "done" /\ maint' = FALSE
    /\ UNCHANGED <<fileVars, place, taken>>

-----------------------------------------------------------------------------
LockNext ==
    \/ \E r \in Runners :
          \/ CheckMaintenance(r) \/ CheckExists(r) \/ ReadLock(r) \/ RemoveStale(r)
          \/ CreateLock(r) \/ ConfirmMaintenance(r) \/ Retreat(r)
          \/ Truncate(r) \/ WritePayload(r) \/ Release(r) \/ RunnerCrash(r)
    \/ Expire
    \/ BackupLocks \/ BackupChecksPid \/ BackupChecksLock \/ BackupEnds

LockSpec == LockInit /\ [][LockNext]_lockVars

-----------------------------------------------------------------------------
(* Properties *)

\* Every variable has its type.
LockTypeOK ==
    /\ lock \in {"absent", "empty", "fresh", "stale"}
    /\ beat \in Runners \cup {None}
    /\ lock \in {"fresh", "stale"} <=> beat # None
    /\ opened \subseteq Runners
    /\ opened # {} => lock # "absent"
    /\ maint \in BOOLEAN /\ taken \in BOOLEAN
    /\ backup \in {"idle", "locked", "checking", "running", "done", "refused"}
    /\ place \in [Runners -> Starting \cup Writing \cup Ended]

\* When every process that started has been refused or has shut down, no lock file
\* is left: starts that raced each other or a backup leave nothing that would make
\* the next server wait for the stale window.
LockGoneAtRest == (\A r \in Runners : place[r] \in {"refused", "released"}) => lock = "absent"

\* "refusing to start a second writer" (runner-lock.ts).  It does not hold: a lock that
\* is empty, because it was just created or is being rewritten, counts as stale.
SingleWriter == Cardinality({r \in Runners : place[r] \in Writing}) <= 1

\* What holds: starts, retreats, shutdowns and crashes that interleave never give two
\* writers unless some start removed a lock it took for stale, and leave no lock file.
LockSound == LockGoneAtRest /\ (SingleWriter \/ taken)

\* "it will either observe this file or we will observe its directory here": a
\* backup never runs beside a writer.
BackupIsAlone == backup = "running" => \A r \in Runners : place[r] \notin Writing
=============================================================================
