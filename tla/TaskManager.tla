------------------------------ MODULE TaskManager ------------------------------
(***************************************************************************)
(* The sub-agent tasks of one root Pi session                              *)
(* (web/server/pi-task-manager.ts, with the broker boundary of             *)
(* web/server/pi-runtime-brokers.ts that leads to it).  The root agent and *)
(* its children start tasks, each a Pi process of its own; a task is       *)
(* launched, prompted, awaited (foreground) or left running (background),  *)
(* ends on its own, by a timer, by an abort of its caller, by a stop, by   *)
(* the switch to Plan mode or by disposal, and is then cleaned up: the     *)
(* launch is awaited, the process killed, the entry forgotten.             *)
(*                                                                         *)
(* All of these interleave at the awaits of the code, and a process may    *)
(* exit on its own or refuse to die at any of them.                        *)
(***************************************************************************)
EXTENDS Integers, FiniteSets

CONSTANTS MaxTasks,     \* tasks ever started
          MaxParallel,  \* MAX_PARALLEL_TASKS
          MaxDepth,     \* MAX_TASK_DEPTH
          MaxModes,     \* mode changes requested of the root
          MaxStubborn,  \* kills that fail
          MaxExits      \* processes that exit on their own

ASSUME TaskAssumption ==
  /\ {MaxTasks, MaxModes, MaxStubborn, MaxExits} \subseteq Nat
  /\ {MaxParallel, MaxDepth} \subseteq Nat \ {0}

Root == 0
Slots == 1..MaxTasks

VARIABLES
  tasks,     \* [Slots -> record]: every task with its control point
  count,     \* tasks started
  rootMode,  \* mode of the root's ParentContext
  waiting,   \* tasks a setRootMode("plan") in progress waits for, or NoWait
  held,      \* the last setRootMode("plan") succeeded and rootMode is still plan
  rejected,  \* which of "plan" and "dispose" awaits a stop that was rejected
  disposal,  \* "no", "running", "done" or "failed"
  failed,    \* tasks a cleanup of which failed since they were last stopped
  modes, stubborn, exits

vars == <<tasks, count, rootMode, waiting, held, rejected, disposal, failed, modes,
          stubborn, exits>>
mode == <<rootMode, waiting, held, rejected, modes>>
faults == <<stubborn, exits>>

NoWait == {Root}
Modes == {"agent", "plan"}
Active == {"starting", "running"}
Final == {"completed", "failed"}   \* "stopped" is reported as a failure: one value here

NoTask == [parent |-> Root, readOnly |-> FALSE,
           status |-> "none", at |-> "none", listed |-> FALSE, proc |-> FALSE,
           ctx |-> FALSE, mode |-> "agent", clean |-> "no"]

Init ==
  /\ tasks = [t \in Slots |-> NoTask] /\ count = 0
  /\ rootMode = "agent" /\ waiting = NoWait /\ held = FALSE /\ rejected = {}
  /\ disposal = "no" /\ failed = {}
  /\ modes = 0 /\ stubborn = 0 /\ exits = 0

--------------------------------------------------------------------------------
Disposed == disposal # "no"
Settled(t) == tasks[t].status \in Final
Started == {t \in Slots : tasks[t].status # "none"}

(* activeFor *)
Running == {t \in Slots : tasks[t].status \in Active}

Mutant_Settle(r, st) == [r EXCEPT !.status = st, !.at = IF @ = "await" THEN "done" ELSE @]

(* settle: only the first outcome counts, and it resolves completion.      *)
Settle(r, st) ==
  IF r.status \in Final THEN r
  ELSE [r EXCEPT !.status = st, !.at = IF @ = "await" THEN "done" ELSE @]

(* cleanup, up to its first await: one cleanup at a time, the context and  *)
(* the broker authority are revoked first.                                 *)
Cleanup(r) ==
  IF r.listed /\ r.clean = "no" THEN [r EXCEPT !.clean = "launch", !.ctx = FALSE] ELSE r

(* Wherever a task is given up: it is settled, then cleaned up.            *)
Ended(r) == Cleanup(Settle(r, "failed"))

(* stop, for every task of S.                                              *)
Stopped(S) == [t \in Slots |-> IF t \in S THEN Ended(tasks[t]) ELSE tasks[t]]
Fresh(S) == failed \ S

--------------------------------------------------------------------------------
(* start                                                                   *)

CallerMode(p) == IF p = Root THEN rootMode ELSE tasks[p].mode
MayCall(p) == ~Disposed /\ IF p = Root THEN TRUE ELSE tasks[p].ctx /\ tasks[p].proc
DepthOf(p) == IF p = Root THEN 0 ELSE IF tasks[p].parent = Root THEN 1 ELSE 2

(* A task of a caller in Plan mode is read-only, whatever it asks for.     *)
ReadOnly(p, asked) == CallerMode(p) = "plan" \/ asked

Start(p, asked) ==
  LET readOnly == ReadOnly(p, asked) IN
  /\ count < MaxTasks /\ MayCall(p)
  /\ DepthOf(p) + 1 <= MaxDepth
  /\ Cardinality(Running) < MaxParallel
  /\ count' = count + 1
  /\ tasks' = [tasks EXCEPT ![count + 1] =
       [NoTask EXCEPT !.parent = p, !.readOnly = readOnly,
                      !.mode = IF readOnly THEN "plan" ELSE "agent",
                      !.status = "starting", !.at = "launch", !.listed = TRUE]]
  /\ UNCHANGED <<mode, disposal, failed, faults>>

(* launcher.launch starts the process.                                     *)
Spawn(t) ==
  /\ tasks[t].at = "launch" /\ ~tasks[t].proc
  /\ tasks' = [tasks EXCEPT ![t].proc = TRUE, ![t].at = "spawned"]
  /\ UNCHANGED <<count, mode, disposal, failed, faults>>

(* The check after the await of launch.                                    *)
Usable(t) == ~Disposed /\ ~Settled(t) /\ tasks[t].listed

(* launch resolves; a task stopped meanwhile is only cleaned up.           *)
LaunchReady(t) ==
  /\ tasks[t].at = "spawned" /\ tasks[t].proc
  /\ tasks' = [tasks EXCEPT ![t] =
       IF Usable(t) THEN [@ EXCEPT !.ctx = TRUE, !.status = "running", !.at = "prompt"]
       ELSE Ended([@ EXCEPT !.at = "done"])]
  /\ UNCHANGED <<count, mode, disposal, failed, faults>>

(* launch rejects and has killed its process; one that outlives the kill   *)
(* is retained by the launcher, where killAll finds it.                    *)
LaunchFails(t) ==
  /\ tasks[t].at \in {"launch", "spawned"}
  /\ \E survives \in {FALSE, tasks[t].proc} :
        tasks' = [tasks EXCEPT ![t] = Ended([@ EXCEPT !.at = "done", !.proc = survives])]
  /\ UNCHANGED <<count, mode, disposal, failed, faults>>

(* transport.prompt resolves: a background task is left alone, a           *)
(* foreground one awaited, and one already settled cleaned up.  Which of   *)
(* the two the task is was asked at its start and matters from here on.    *)
PromptOk(t, background) ==
  /\ tasks[t].at = "prompt" /\ tasks[t].proc
  /\ tasks' = [tasks EXCEPT ![t] =
       IF Settled(t) THEN Cleanup([@ EXCEPT !.at = "done"])
       ELSE [@ EXCEPT !.at = IF background THEN "done" ELSE "await"]]
  /\ UNCHANGED <<count, mode, disposal, failed, faults>>

(* It rejects: refused, timed out, aborted by the caller or the process is *)
(* gone.                                                                   *)
PromptFails(t) ==
  /\ tasks[t].at = "prompt"
  /\ tasks' = [tasks EXCEPT ![t] = Ended([@ EXCEPT !.at = "done"])]
  /\ UNCHANGED <<count, mode, disposal, failed, faults>>

--------------------------------------------------------------------------------
(* Ends of a task.                                                         *)

Mutant_Over(t, st) == Settle(tasks[t], st)

(* After the prompt a settled task is cleaned up by its continuation.      *)
Over(t, st) ==
  LET r == Settle(tasks[t], st) IN IF r.at = "done" THEN Cleanup(r) ELSE r

(* agent_settled, with the stop reason of the last message.                *)
AgentSettled(t, st) ==
  /\ tasks[t].proc /\ tasks[t].at \in {"prompt", "await", "done"} /\ ~Settled(t)
  /\ tasks' = [tasks EXCEPT ![t] = Over(t, st)]
  /\ UNCHANGED <<count, mode, disposal, failed, faults>>

(* The run timer, armed once the prompt was accepted.                      *)
RunTimer(t) ==
  /\ tasks[t].at \in {"await", "done"} /\ ~Settled(t) /\ tasks[t].status # "none"
  /\ tasks' = [tasks EXCEPT ![t] = Over(t, "failed")]
  /\ UNCHANGED <<count, mode, disposal, failed, faults>>

(* The broker request of a foreground task is aborted.                     *)
AbortTask(t) ==
  /\ tasks[t].at = "await" /\ ~Settled(t)
  /\ tasks' = [tasks EXCEPT ![t] = Over(t, "failed")]
  /\ UNCHANGED <<count, mode, disposal, failed, faults>>

(* onExit of a process that ends on its own.                               *)
Exit(t) ==
  /\ tasks[t].proc /\ exits < MaxExits
  /\ exits' = exits + 1
  /\ tasks' = [tasks EXCEPT ![t] = Ended([@ EXCEPT !.proc = FALSE])]
  /\ UNCHANGED <<count, mode, disposal, failed, stubborn>>

(* task.stop of the parent or of the root, and stopTask of the browser,    *)
(* which finds the root's context until a disposal clears it.              *)
Stop(t) ==
  /\ tasks[t].listed /\ tasks[t].clean = "no" /\ disposal \in {"no", "running"}
  /\ tasks' = Stopped({t}) /\ failed' = Fresh({t})
  /\ UNCHANGED <<count, mode, disposal, faults>>

--------------------------------------------------------------------------------
(* performCleanup after its first await.                                   *)

Mutant_Launched(t) == TRUE

(* launchSettled *)
Launched(t) == tasks[t].at \notin {"launch", "spawned"}

AwaitLaunch(t) ==
  /\ tasks[t].clean = "launch" /\ Launched(t)
  /\ tasks' = [tasks EXCEPT ![t].clean = "kill"]
  /\ UNCHANGED <<count, mode, disposal, failed, faults>>

(* killAll resolves and the entry goes last: of a task whose launch is     *)
(* over only the outcome is kept.  A process whose launch is still under   *)
(* way is not known to killAll.                                            *)
Killed(t) ==
  /\ tasks[t].clean = "kill"
  /\ tasks' = [tasks EXCEPT ![t] =
       IF @.at \in {"launch", "spawned"} THEN [@ EXCEPT !.clean = "done", !.listed = FALSE]
       ELSE [NoTask EXCEPT !.status = tasks[t].status, !.at = tasks[t].at, !.clean = "done"]]
  /\ UNCHANGED <<count, mode, disposal, failed, faults>>

(* killAll rejects: the entry stays, the cleanup may be tried again, and   *)
(* the switch of mode and the disposal that await it will fail.            *)
KillFails(t) ==
  /\ tasks[t].clean = "kill" /\ tasks[t].proc /\ stubborn < MaxStubborn
  /\ stubborn' = stubborn + 1
  /\ tasks' = [tasks EXCEPT ![t].clean = "no"]
  /\ failed' = failed \union {t}
  /\ waiting' = waiting \ {t}
  /\ rejected' = rejected \union (IF t \in waiting THEN {"plan"} ELSE {})
                         \union (IF disposal = "running" THEN {"dispose"} ELSE {})
  /\ UNCHANGED <<count, rootMode, held, modes, disposal, exits>>

--------------------------------------------------------------------------------
(* Modes.                                                                  *)

Mutant_Writable(S) == {t \in S : tasks[t].listed /\ ~tasks[t].readOnly /\ tasks[t].parent = Root}
Writable(S) == {t \in S : tasks[t].listed /\ ~tasks[t].readOnly}

(* setRootMode finds the root's context until a disposal clears it.        *)
MaySwitch == disposal \in {"no", "running"} /\ modes < MaxModes

(* setRootMode("agent") returns at once.                                   *)
RootToAgent ==
  /\ MaySwitch /\ rootMode = "plan" /\ modes' = modes + 1
  /\ rootMode' = "agent" /\ held' = FALSE
  /\ UNCHANGED <<tasks, count, waiting, rejected, disposal, failed, faults>>

(* setRootMode("plan") stops every writable task of the tree.              *)
RootToPlan ==
  LET S == Writable(Slots) IN
  /\ MaySwitch /\ waiting = NoWait /\ modes' = modes + 1
  /\ rootMode' = "plan" /\ held' = FALSE
  /\ tasks' = Stopped(S) /\ failed' = Fresh(S)
  /\ waiting' = S /\ rejected' = rejected \ {"plan"}
  /\ UNCHANGED <<count, disposal, faults>>

(* All stops have ended: the switch succeeded unless one was rejected.     *)
RootPlanned ==
  /\ waiting # NoWait /\ \A t \in waiting : tasks[t].clean = "done"
  /\ waiting' = NoWait
  /\ held' = (rootMode = "plan" /\ "plan" \notin rejected)
  /\ UNCHANGED <<tasks, count, rootMode, rejected, modes, disposal, failed, faults>>

(* mode.set of a child: its own writable tasks are stopped.                *)
ChildMode(p, m) ==
  LET S == IF m = "plan" THEN {t \in Writable(Slots) : tasks[t].parent = p} ELSE {} IN
  /\ p # Root /\ MayCall(p) /\ tasks[p].mode # m /\ (m = "agent" => ~tasks[p].readOnly)
  /\ modes < MaxModes /\ modes' = modes + 1
  /\ tasks' = [Stopped(S) EXCEPT ![p].mode = m] /\ failed' = Fresh(S)
  /\ UNCHANGED <<count, rootMode, waiting, held, rejected, disposal, faults>>

--------------------------------------------------------------------------------
(* dispose: the root exits or is replaced.  A failed disposal may be       *)
(* repeated by the next build of the launch options.                       *)
Listed == {t \in Slots : tasks[t].listed}

Dispose ==
  /\ disposal \in {"no", "failed"}
  /\ disposal' = "running"
  /\ tasks' = Stopped(Listed) /\ failed' = Fresh(Listed)
  /\ rejected' = rejected \ {"dispose"}
  /\ UNCHANGED <<count, rootMode, waiting, held, modes, faults>>

(* Every cleanup has ended; the contexts are cleared.                      *)
DisposeEnds ==
  /\ disposal = "running"
  /\ \A t \in Slots : tasks[t].clean \notin {"launch", "kill"}
  /\ disposal' = IF "dispose" \in rejected THEN "failed" ELSE "done"
  /\ tasks' = [t \in Slots |-> [tasks[t] EXCEPT !.ctx = FALSE]]
  /\ UNCHANGED <<count, mode, failed, faults>>

--------------------------------------------------------------------------------
TaskStep(t) ==
  \/ Spawn(t) \/ LaunchReady(t) \/ LaunchFails(t) \/ PromptFails(t)
  \/ \E background \in BOOLEAN : PromptOk(t, background)
  \/ RunTimer(t) \/ AwaitLaunch(t) \/ Killed(t) \/ KillFails(t)

Next ==
  \/ \E p \in {Root} \union Slots, asked \in BOOLEAN : Start(p, asked)
  \/ \E t \in Slots :
       \/ TaskStep(t) \/ AbortTask(t) \/ Exit(t) \/ Stop(t)
       \/ \E st \in Final : AgentSettled(t, st)
       \/ \E m \in Modes : ChildMode(t, m)
  \/ RootToAgent \/ RootToPlan \/ RootPlanned
  \/ Dispose \/ DisposeEnds

Spec == Init /\ [][Next]_vars

(* Launches and prompts have deadlines of their own, the run timer is      *)
(* armed, kills end one way or the other.                                  *)
Fairness ==
  /\ \A t \in Slots : WF_vars(TaskStep(t))
  /\ WF_vars(RootPlanned) /\ WF_vars(DisposeEnds)

FairSpec == Spec /\ Fairness

--------------------------------------------------------------------------------
(* Fields of the manager; only a task that has an outcome is cleaned up.   *)
TypeOK ==
  /\ tasks \in [Slots -> [parent : {Root} \union Slots, readOnly : BOOLEAN, status : {"none"} \union Active \union Final,
                          at : {"none", "launch", "spawned", "prompt", "await", "done"},
                          listed : BOOLEAN, proc : BOOLEAN, ctx : BOOLEAN, mode : Modes,
                          clean : {"no", "launch", "kill", "done"}]]
  /\ count \in 0..MaxTasks /\ Started = 1..count
  /\ \A t \in Slots : tasks[t].clean # "no" => Settled(t)
  /\ rootMode \in Modes /\ rejected \subseteq {"plan", "dispose"} /\ held \in BOOLEAN
  /\ waiting = NoWait \/ waiting \subseteq Slots
  /\ disposal \in {"no", "running", "done", "failed"} /\ failed \subseteq Slots
  /\ modes \in 0..MaxModes /\ stubborn \in 0..MaxStubborn /\ exits \in 0..MaxExits

(* Every child process, and every capability a child holds, belongs to a   *)
(* task still in the map, where a stop, the switch to Plan mode and the    *)
(* disposal find it: nothing is spawned or granted behind a cleanup.       *)
Reachable == \A t \in Slots : tasks[t].proc \/ tasks[t].ctx => tasks[t].listed

(* Once the switch of the root to Plan mode has succeeded, and until it    *)
(* leaves it, no writable child lives or can be driven, nested ones        *)
(* included.                                                               *)
PlanHolds == held => \A t \in Slots : ~tasks[t].readOnly => ~tasks[t].proc /\ ~tasks[t].ctx

(* A disposal that reported success left no process and no launch under    *)
(* way.                                                                    *)
DisposedIsQuiet == disposal = "done" =>
  \A t \in Slots : ~tasks[t].proc /\ ~tasks[t].ctx /\ tasks[t].at \notin {"launch", "spawned"}

(* No process, capability or launch gets away from the manager.            *)
NothingEscapes == TypeOK /\ Reachable /\ DisposedIsQuiet

(* The first outcome of a task is its outcome: no late launch, timer, exit *)
(* or notification changes what was reported.                              *)
OutcomeSticks == [][\A t \in Slots : Settled(t) => tasks'[t].status = tasks[t].status]_vars

(* Every task leaves the map, unless its process could not be killed.      *)
EveryTaskEnds == \A t \in Slots : tasks[t].listed ~> (~tasks[t].listed \/ t \in failed)
================================================================================
