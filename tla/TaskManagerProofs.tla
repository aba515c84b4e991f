-------------------------- MODULE TaskManagerProofs --------------------------
(***************************************************************************)
(* Proofs about TaskManager, for any number of tasks, any limits, and any  *)
(* number of failing kills, exits and mode changes.                        *)
(*                                                                         *)
(* What the manager promises depends on two waits: setRootMode and dispose *)
(* await the cleanups they started.  WaitFacts and DisposeFacts say what   *)
(* is true while they wait; Shape says, task by task, what a cleanup may   *)
(* rely on at each of its awaits.                                          *)
(***************************************************************************)
EXTENDS TaskManager, TLAPS

Record == [parent : {Root} \union Slots, readOnly : BOOLEAN,
           status : {"none"} \union Active \union Final,
           at : {"none", "launch", "spawned", "prompt", "await", "done"},
           listed : BOOLEAN, proc : BOOLEAN, ctx : BOOLEAN, mode : Modes,
           clean : {"no", "launch", "kill", "done"}]

Launching == {"launch", "spawned"}
Cleaning == {"launch", "kill"}

(* One task: what has a process, a capability or a launch under way is in  *)
(* the map; a cleanup that is past the launch meets none any more; the     *)
(* capability went when the cleanup began; only a writable task may leave  *)
(* Plan mode.                                                              *)
Shape(r) ==
  /\ r.status = "none" => ~r.listed /\ r.at = "none" /\ r.clean = "no"
  /\ r.clean # "no" => r.status \in Final
  /\ r.proc \/ r.ctx \/ r.at \in Launching \/ r.clean \in Cleaning => r.listed
  /\ r.clean \in {"kill", "done"} => r.at \notin Launching
  /\ r.clean = "done" => ~r.listed
  /\ r.ctx => r.clean = "no"
  /\ r.readOnly => r.mode = "plan"

ShapeFacts == \A t \in Slots : Shape(tasks[t])

(* While setRootMode("plan") waits, undisturbed, every writable task is    *)
(* one it waits for.                                                       *)
WaitFacts ==
  waiting # NoWait /\ rootMode = "plan" /\ "plan" \notin rejected =>
    \A t \in Slots : tasks[t].listed /\ ~tasks[t].readOnly =>
      t \in waiting /\ tasks[t].clean \in Cleaning

(* After it succeeded there is none.                                       *)
HeldFacts ==
  held => rootMode = "plan" /\ \A t \in Slots : tasks[t].listed => tasks[t].readOnly

(* The same for dispose and all tasks.                                     *)
DisposeFacts ==
  /\ disposal = "running" /\ "dispose" \notin rejected =>
       \A t \in Slots : tasks[t].listed => tasks[t].clean \in Cleaning
  /\ disposal = "done" => \A t \in Slots : ~tasks[t].listed

IInv == TypeOK /\ ShapeFacts /\ WaitFacts /\ HeldFacts /\ DisposeFacts

------------------------------------------------------------------------------
(* What every step but a start and a failing kill does to a task: it never *)
(* comes back into the map, stays as writable as it was and goes on being  *)
(* cleaned up.                                                             *)
Advances(a, b) ==
  /\ b \in Record /\ Shape(b)
  /\ b.status = "none" <=> a.status = "none"
  /\ b.listed => a.listed /\ b.readOnly = a.readOnly
  /\ b.listed /\ a.clean \in Cleaning => b.clean \in Cleaning

(* settle and cleanup, and the two together wherever a task is given up.   *)
LEMMA EndedAdvances ==
  ASSUME NEW r \in Record, Shape(r), r.status # "none"
  PROVE  /\ Advances(r, r) /\ Advances(r, Ended(r))
         /\ \A st \in Final : Advances(r, Settle(r, st))
         /\ r.status \in Final => Advances(r, Cleanup(r))
         /\ Ended(r).listed => Ended(r).clean \in Cleaning
         /\ Ended(r).status \in Final
         /\ r.status \in Final => Ended(r).status = r.status
         /\ Ended(r).mode = r.mode /\ Ended(r).parent = r.parent
<1> USE DEF Advances, Shape, Record, Active, Final, Launching, Cleaning
<1>1. Advances(r, r)
  OBVIOUS
<1>2. ASSUME NEW st \in Final PROVE Advances(r, Settle(r, st)) /\ Settle(r, st).status \in Final
  <2>1. CASE r.status \in Final
    BY <2>1 DEF Settle
  <2>2. CASE r.status \notin Final
    <3> DEFINE s == [r EXCEPT !.status = st, !.at = IF @ = "await" THEN "done" ELSE @]
    <3>1. /\ s \in Record /\ s.status = st /\ s.at \in {r.at, "done"} /\ s.listed = r.listed
          /\ s.readOnly = r.readOnly /\ s.clean = r.clean /\ s.proc = r.proc
          /\ s.ctx = r.ctx /\ s.mode = r.mode
      OBVIOUS
    <3>2. Settle(r, st) = s
      BY <2>2 DEF Settle
    <3> HIDE DEF s
    <3> QED BY <2>2, <3>1, <3>2
  <2> QED BY <2>1, <2>2
<1>3. ASSUME NEW q \in Record, Shape(q), q.status \in Final
      PROVE  /\ Advances(q, Cleanup(q)) /\ Cleanup(q).status = q.status
             /\ Cleanup(q).listed => Cleanup(q).clean \in Cleaning
             /\ Cleanup(q).mode = q.mode /\ Cleanup(q).parent = q.parent
             /\ Cleanup(q).readOnly = q.readOnly /\ Cleanup(q).listed = q.listed
  <2>1. CASE q.listed /\ q.clean = "no"
    <3> DEFINE s == [q EXCEPT !.clean = "launch", !.ctx = FALSE]
    <3>1. /\ s \in Record /\ s.status = q.status /\ s.at = q.at /\ s.listed = q.listed
          /\ s.readOnly = q.readOnly /\ s.clean = "launch" /\ s.proc = q.proc
          /\ s.ctx = FALSE /\ s.mode = q.mode /\ s.parent = q.parent
      OBVIOUS
    <3>2. Cleanup(q) = s
      BY <2>1 DEF Cleanup
    <3> HIDE DEF s
    <3> QED BY <1>3, <2>1, <3>1, <3>2
  <2>2. CASE ~(q.listed /\ q.clean = "no")
    BY <1>3, <2>2 DEF Cleanup
  <2> QED BY <2>1, <2>2
<1> DEFINE q == Settle(r, "failed")
<1>4. /\ q \in Record /\ Shape(q) /\ q.status \in Final
      /\ q.mode = r.mode /\ q.parent = r.parent /\ q.readOnly = r.readOnly
      /\ q.listed = r.listed /\ q.clean = r.clean
      /\ r.status \in Final => q.status = r.status
  BY <1>2 DEF Settle
<1>5. Ended(r) = Cleanup(q)
  BY DEF Ended
<1> HIDE DEF q
<1>6. /\ Advances(q, Ended(r)) /\ Ended(r).status = q.status
      /\ Ended(r).listed => Ended(r).clean \in Cleaning
      /\ Ended(r).mode = q.mode /\ Ended(r).parent = q.parent
      /\ Ended(r).readOnly = q.readOnly /\ Ended(r).listed = q.listed
  BY <1>3, <1>4, <1>5
<1>7. Advances(r, Ended(r))
  BY <1>4, <1>6
<1> QED BY <1>1, <1>2, <1>3, <1>4, <1>6, <1>7

LEMMA AdvancesTransitive ==
  ASSUME NEW a, NEW b, NEW c, Advances(a, b), Advances(b, c)
  PROVE  Advances(a, c)
BY DEF Advances

(* A step in which every task advances keeps the two parts of IInv that    *)
(* are not about waits.                                                    *)
LEMMA AdvanceShapes ==
  ASSUME IInv,
         tasks' = [t \in Slots |-> tasks'[t]],
         \A t \in Slots : Advances(tasks[t], tasks'[t]),
         count' = count, rootMode' \in Modes, rejected' \subseteq {"plan", "dispose"},
         held' \in BOOLEAN, waiting' = NoWait \/ waiting' \subseteq Slots,
         disposal' \in {"no", "running", "done", "failed"}, failed' \subseteq Slots,
         modes' \in 0..MaxModes, stubborn' \in 0..MaxStubborn, exits' \in 0..MaxExits
  PROVE  TypeOK' /\ ShapeFacts'
<1> USE DEF IInv
<1>1. tasks' \in [Slots -> Record]
  BY DEF Advances
<1>2. Started' = Started
  BY DEF Started, Advances
<1>3. \A t \in Slots : tasks'[t].clean # "no" => Settled(t)'
  BY DEF Advances, Shape, Settled
<1>4. TypeOK'
  BY <1>1, <1>2, <1>3 DEF TypeOK, Record
<1>5. ShapeFacts'
  BY DEF ShapeFacts, Advances
<1> QED BY <1>4, <1>5

(* If the waits go on too, it keeps IInv.                                  *)
LEMMA AdvanceKeeps ==
  ASSUME IInv,
         tasks' = [t \in Slots |-> tasks'[t]],
         \A t \in Slots : Advances(tasks[t], tasks'[t]),
         UNCHANGED <<count, rootMode, waiting, held, rejected, disposal>>,
         failed' \subseteq Slots,
         modes' \in 0..MaxModes, stubborn' \in 0..MaxStubborn, exits' \in 0..MaxExits
  PROVE  IInv'
<1>1. TypeOK' /\ ShapeFacts'
  <2>1. /\ rootMode \in Modes /\ rejected \subseteq {"plan", "dispose"} /\ held \in BOOLEAN
        /\ waiting = NoWait \/ waiting \subseteq Slots
        /\ disposal \in {"no", "running", "done", "failed"}
    BY DEF IInv, TypeOK
  <2> QED BY <2>1, AdvanceShapes
<1>2. WaitFacts'
  BY DEF IInv, WaitFacts, Advances
<1>3. HeldFacts'
  BY DEF IInv, HeldFacts, Advances
<1>4. DisposeFacts'
  BY DEF IInv, DisposeFacts, Advances
<1> QED BY <1>1, <1>2, <1>3, <1>4 DEF IInv

(* The steps of one task that change nothing else but what counts against  *)
(* the bounds.                                                             *)
LEMMA OneAdvances ==
  ASSUME IInv, NEW t \in Slots, NEW b, Advances(tasks[t], b),
         tasks' = [tasks EXCEPT ![t] = b],
         UNCHANGED <<count, mode, disposal, failed>>,
         stubborn' \in 0..MaxStubborn, exits' \in 0..MaxExits
  PROVE  IInv'
<1>1. tasks \in [Slots -> Record] /\ ShapeFacts /\ failed \subseteq Slots /\ modes \in 0..MaxModes
  BY DEF IInv, TypeOK, Record
<1>2. \A u \in Slots : Advances(tasks[u], tasks'[u])
  BY <1>1 DEF Advances, ShapeFacts
<1>3. tasks' = [u \in Slots |-> tasks'[u]]
  BY <1>1
<1> QED BY <1>1, <1>2, <1>3, AdvanceKeeps DEF mode

LEMMA InitIInv == Init => IInv
<1> SUFFICES ASSUME Init PROVE IInv
  OBVIOUS
<1> USE DEF Init
<1>1. NoTask \in Record /\ Shape(NoTask)
  BY DEF NoTask, Record, Shape, Active, Final, Modes, Launching, Cleaning
<1>2. \A t \in Slots : tasks[t] = NoTask
  OBVIOUS
<1>3. tasks \in [Slots -> Record]
  BY <1>1, <1>2
<1>4. ShapeFacts
  BY <1>1, <1>2 DEF ShapeFacts
<1>5. Started = 1..0 /\ \A t \in Slots : tasks[t].clean = "no" /\ ~tasks[t].listed
  BY <1>2 DEF Started, NoTask
<1>6. TypeOK
  <2>1. {MaxTasks, MaxModes, MaxStubborn, MaxExits} \subseteq Nat
    BY TaskAssumption
  <2>2. count \in 0..MaxTasks /\ Started = 1..count
    BY <1>5, <2>1
  <2>3. modes \in 0..MaxModes /\ stubborn \in 0..MaxStubborn /\ exits \in 0..MaxExits
    BY <2>1
  <2>4. rootMode \in Modes /\ rejected \subseteq {"plan", "dispose"} /\ held \in BOOLEAN
    BY DEF Modes
  <2> HIDE DEF Init
  <2>5. /\ waiting = NoWait /\ failed = {} /\ disposal = "no"
    BY DEF Init
  <2> QED BY <1>3, <1>5, <2>2, <2>3, <2>4, <2>5 DEF TypeOK, Record
<1>7. WaitFacts /\ HeldFacts /\ DisposeFacts
  BY DEF WaitFacts, HeldFacts, DisposeFacts
<1> QED BY <1>4, <1>6, <1>7 DEF IInv

------------------------------------------------------------------------------
(* The steps of a task: its launch, its prompt, its ends and its cleanup.  *)
LEMMA TaskStepKeeps ==
  ASSUME IInv, NEW t \in Slots,
         \/ TaskStep(t) /\ ~KillFails(t)
         \/ AbortTask(t) \/ Exit(t) \/ \E st \in Final : AgentSettled(t, st)
  PROVE  IInv'
<1> DEFINE r == tasks[t]
<1>1. /\ tasks \in [Slots -> Record] /\ r \in Record /\ Shape(r)
      /\ stubborn \in 0..MaxStubborn /\ exits \in 0..MaxExits
  BY DEF IInv, TypeOK, Record, ShapeFacts
<1>a. ASSUME NEW b, Advances(r, b), tasks' = [tasks EXCEPT ![t] = b],
             UNCHANGED <<count, mode, disposal, failed, stubborn>>, exits' \in 0..MaxExits
      PROVE  IInv'
  BY <1>1, <1>a, OneAdvances
<1>b. ASSUME NEW q, Advances(r, q), r.status # "none"
      PROVE  Advances(r, Ended(q)) /\ (q.status \in Final => Advances(r, Cleanup(q)))
  <2>1. q \in Record /\ Shape(q) /\ q.status # "none"
    BY <1>b DEF Advances
  <2> QED BY <1>b, <2>1, EndedAdvances, AdvancesTransitive
<1>c. ASSUME NEW st \in Final, r.status # "none"
      PROVE  Advances(r, Over(t, st))
  <2> DEFINE q == Settle(r, st)
  <2>1. Advances(r, q) /\ q.status \in Final
    BY <1>1, <1>c, EndedAdvances DEF Settle, Record
  <2> HIDE DEF q
  <2>2. Over(t, st) = IF q.at = "done" THEN Cleanup(q) ELSE q
    BY DEF Over, q
  <2> QED BY <1>b, <1>c, <2>1, <2>2
<1> HIDE DEF r
<1> USE DEF faults
<1>2. CASE Spawn(t)
  <2>1. Advances(r, [r EXCEPT !.proc = TRUE, !.at = "spawned"])
    BY <1>1, <1>2 DEF Spawn, Advances, Record, Shape, Launching, Cleaning, r
  <2>2. tasks' = [tasks EXCEPT ![t] = [r EXCEPT !.proc = TRUE, !.at = "spawned"]]
    BY <1>1, <1>2 DEF Spawn, r
  <2> QED BY <1>1, <1>2, <2>1, <2>2, <1>a DEF Spawn
<1>3. CASE LaunchReady(t)
  <2>1. r.at = "spawned" /\ r.status # "none"
    BY <1>1, <1>3 DEF LaunchReady, Shape, r
  <2>2. CASE Usable(t)
    <3> DEFINE b == [r EXCEPT !.ctx = TRUE, !.status = "running", !.at = "prompt"]
    <3>1. Advances(r, b)
      <4>1. /\ b \in Record /\ b.ctx /\ b.status = "running" /\ b.at = "prompt"
            /\ b.listed = r.listed /\ b.clean = r.clean /\ b.proc = r.proc
            /\ b.readOnly = r.readOnly /\ b.mode = r.mode
        BY <1>1 DEF Record, Active
      <4>2. r.listed /\ r.clean = "no"
        BY <1>1, <2>2 DEF Usable, Settled, Shape, r, Record
      <4> HIDE DEF b
      <4> QED BY <1>1, <2>1, <4>1, <4>2 DEF Advances, Shape, Launching, Cleaning, Final
    <3>2. tasks' = [tasks EXCEPT ![t] = b]
      BY <1>1, <1>3, <2>2 DEF LaunchReady, r
    <3> QED BY <1>1, <1>3, <3>1, <3>2, <1>a DEF LaunchReady
  <2>3. CASE ~Usable(t)
    <3> DEFINE q == [r EXCEPT !.at = "done"]
    <3>1. Advances(r, q)
      BY <1>1, <2>1 DEF Advances, Record, Shape, Launching, Cleaning, Active, Final
    <3>2. tasks' = [tasks EXCEPT ![t] = Ended(q)]
      BY <1>1, <1>3, <2>3 DEF LaunchReady, r
    <3> HIDE DEF q
    <3> QED BY <1>1, <1>3, <2>1, <3>1, <3>2, <1>a, <1>b DEF LaunchReady
  <2> QED BY <2>2, <2>3
<1>4. CASE LaunchFails(t)
  <2>0. PICK survives \in {FALSE, r.proc} :
          tasks' = [tasks EXCEPT ![t] = Ended([r EXCEPT !.at = "done", !.proc = survives])]
    BY <1>1, <1>4 DEF LaunchFails, r
  <2> DEFINE q == [r EXCEPT !.at = "done", !.proc = survives]
  <2>1. r.status # "none"
    BY <1>1, <1>4 DEF LaunchFails, Shape, r
  <2>2. Advances(r, q)
    BY <1>1, <2>0, <2>1 DEF Advances, Record, Shape, Launching, Cleaning, Active, Final
  <2>3. tasks' = [tasks EXCEPT ![t] = Ended(q)]
    BY <2>0
  <2> HIDE DEF q
  <2> QED BY <1>1, <1>4, <2>1, <2>2, <2>3, <1>a, <1>b DEF LaunchFails
<1>5. CASE PromptFails(t)
  <2> DEFINE q == [r EXCEPT !.at = "done"]
  <2>1. r.status # "none"
    BY <1>1, <1>5 DEF PromptFails, Shape, r
  <2>2. Advances(r, q)
    BY <1>1, <2>1 DEF Advances, Record, Shape, Launching, Cleaning, Active, Final
  <2>3. tasks' = [tasks EXCEPT ![t] = Ended(q)]
    BY <1>1, <1>5 DEF PromptFails, r
  <2> HIDE DEF q
  <2> QED BY <1>1, <1>5, <2>1, <2>2, <2>3, <1>a, <1>b DEF PromptFails
<1>6. ASSUME NEW background \in BOOLEAN, PromptOk(t, background) PROVE IInv'
  <2>1. r.status # "none" /\ r.at = "prompt"
    BY <1>1, <1>6 DEF PromptOk, Shape, r
  <2>2. ASSUME NEW w \in {"done", "await"} PROVE Advances(r, [r EXCEPT !.at = w])
    BY <1>1, <2>1 DEF Advances, Record, Shape, Launching, Cleaning, Active, Final
  <2>3. CASE Settled(t)
    <3> DEFINE q == [r EXCEPT !.at = "done"]
    <3>1. q.status \in Final
      BY <1>1, <2>3 DEF Settled, r, Record
    <3>2. tasks' = [tasks EXCEPT ![t] = Cleanup(q)]
      BY <1>1, <1>6, <2>3 DEF PromptOk, r
    <3>3. Advances(r, q)
      BY <2>2
    <3> HIDE DEF q
    <3> QED BY <1>1, <1>6, <2>1, <3>1, <3>2, <3>3, <1>a, <1>b DEF PromptOk
  <2>4. CASE ~Settled(t)
    <3>1. PICK w \in {"done", "await"} : tasks' = [tasks EXCEPT ![t] = [r EXCEPT !.at = w]]
      BY <1>1, <1>6, <2>4 DEF PromptOk, r
    <3> QED BY <1>1, <1>6, <2>2, <3>1, <1>a DEF PromptOk
  <2> QED BY <2>3, <2>4
<1>7. CASE RunTimer(t)
  BY <1>1, <1>7, <1>a, <1>c DEF RunTimer, Final, r
<1>8. CASE AbortTask(t)
  <2>1. r.status # "none"
    BY <1>1, <1>8 DEF AbortTask, Shape, r
  <2> QED BY <1>1, <1>8, <2>1, <1>a, <1>c DEF AbortTask, Final
<1>9. ASSUME NEW st \in Final, AgentSettled(t, st) PROVE IInv'
  <2>1. r.status # "none"
    BY <1>1, <1>9 DEF AgentSettled, Shape, r
  <2> QED BY <1>1, <1>9, <2>1, <1>a, <1>c DEF AgentSettled
<1>10. CASE Exit(t)
  <2> DEFINE q == [r EXCEPT !.proc = FALSE]
  <2>1. r.status # "none" /\ exits' \in 0..MaxExits
    BY <1>1, <1>10, TaskAssumption DEF Exit, Shape, r
  <2>2. Advances(r, q)
    BY <1>1, <2>1 DEF Advances, Record, Shape, Launching, Cleaning, Active, Final
  <2>3. tasks' = [tasks EXCEPT ![t] = Ended(q)]
    BY <1>1, <1>10 DEF Exit, r
  <2> HIDE DEF q
  <2> QED BY <1>1, <1>10, <2>1, <2>2, <2>3, <1>a, <1>b DEF Exit
<1>11. CASE AwaitLaunch(t)
  <2>1. Advances(r, [r EXCEPT !.clean = "kill"])
    BY <1>1, <1>11 DEF AwaitLaunch, Launched, Advances, Record, Shape, Launching, Cleaning, Final, r
  <2>2. tasks' = [tasks EXCEPT ![t] = [r EXCEPT !.clean = "kill"]]
    BY <1>1, <1>11 DEF AwaitLaunch, r
  <2> QED BY <1>1, <1>11, <2>1, <2>2, <1>a DEF AwaitLaunch
<1>12. CASE Killed(t)
  <2> DEFINE b == [NoTask EXCEPT !.status = r.status, !.at = r.at, !.clean = "done"]
  <2>1. r.clean = "kill" /\ r.at \notin Launching /\ r.status \in Final
    BY <1>1, <1>12 DEF Killed, Shape, r
  <2>2. tasks' = [tasks EXCEPT ![t] = b]
    BY <1>1, <1>12, <2>1 DEF Killed, Launching, r
  <2>3. Advances(r, b)
    BY <1>1, <2>1 DEF Advances, Record, Shape, NoTask, Launching, Cleaning, Final, Modes
  <2> QED BY <1>1, <1>12, <2>2, <2>3, <1>a DEF Killed
<1> QED BY <1>2, <1>3, <1>4, <1>5, <1>6, <1>7, <1>8, <1>9, <1>10, <1>11, <1>12 DEF TaskStep

------------------------------------------------------------------------------
(* A start enters a task of a slot never used.  In Plan mode it is a       *)
(* read-only one, whoever asks: the root is in Plan mode, and so are all   *)
(* children that can still ask.                                            *)
LEMMA StartKeeps ==
  ASSUME IInv, NEW p \in {Root} \union Slots, NEW asked \in BOOLEAN, Start(p, asked)
  PROVE  IInv'
<1> DEFINE n == count + 1
           ro == ReadOnly(p, asked)
           b == [NoTask EXCEPT !.parent = p, !.readOnly = ro,
                               !.mode = IF ro THEN "plan" ELSE "agent",
                               !.status = "starting", !.at = "launch", !.listed = TRUE]
<1>1. /\ tasks \in [Slots -> Record] /\ ShapeFacts /\ WaitFacts /\ HeldFacts /\ DisposeFacts
      /\ count \in 0..MaxTasks /\ Started = 1..count /\ count < MaxTasks /\ MaxTasks \in Nat
  BY TaskAssumption DEF IInv, TypeOK, Record, Start
<1>2. n \in Slots /\ tasks[n].status = "none" /\ ~tasks[n].listed
  BY <1>1 DEF Slots, Started, ShapeFacts, Shape
<1>3. tasks' = [tasks EXCEPT ![n] = b] /\ count' = n
  BY DEF Start
<1>4. UNCHANGED <<rootMode, waiting, held, rejected, modes, disposal, failed, stubborn, exits>>
  BY DEF Start, mode, faults
<1>5. ro \in BOOLEAN
  BY DEF ReadOnly
<1>6. b \in Record /\ Shape(b) /\ b.status = "starting" /\ b.clean = "no" /\ b.listed /\ b.readOnly = ro
  BY <1>5 DEF Record, Shape, NoTask, Active, Final, Modes, Launching, Cleaning
<1>7. disposal = "no" /\ (p # Root => tasks[p].ctx)
  BY DEF Start, MayCall, Disposed
<1>8. ~ro => CallerMode(p) = "agent"
  <2>1. CallerMode(p) \in Modes
    BY <1>1 DEF CallerMode, Record, IInv, TypeOK
  <2> QED BY <2>1 DEF ReadOnly, Modes
<1> HIDE DEF b, ro
(* The caller of a writable task: the root, or a writable child at work.   *)
<1>9. ~ro => \/ rootMode = "agent"
             \/ tasks[p].listed /\ ~tasks[p].readOnly /\ tasks[p].clean = "no"
  <2> SUFFICES ASSUME ~ro, p # Root, p \in Slots
               PROVE  tasks[p].listed /\ ~tasks[p].readOnly /\ tasks[p].clean = "no"
    BY <1>8 DEF CallerMode
  <2>1. tasks[p].mode = "agent" /\ tasks[p].ctx /\ Shape(tasks[p])
    BY <1>1, <1>7, <1>8 DEF CallerMode, ShapeFacts
  <2> QED BY <2>1 DEF Shape
<1>10. \A t \in Slots : tasks'[t] = IF t = n THEN b ELSE tasks[t]
  BY <1>1, <1>2, <1>3
<1>11. tasks' \in [Slots -> Record]
  BY <1>1, <1>3, <1>6
<1>12. Started' = 1..count'
  BY <1>1, <1>2, <1>3, <1>6, <1>10 DEF Started, Slots
<1>13. TypeOK'
  <2>1. \A t \in Slots : tasks'[t].clean # "no" => Settled(t)'
    BY <1>6, <1>10 DEF IInv, TypeOK, Settled
  <2>2. count' \in 0..MaxTasks
    BY <1>1, <1>3
  <2> QED BY <1>4, <1>11, <1>12, <2>1, <2>2 DEF IInv, TypeOK, Record
<1>14. ShapeFacts'
  BY <1>1, <1>6, <1>10 DEF ShapeFacts
<1>15. WaitFacts'
  <2> SUFFICES ASSUME waiting # NoWait, rootMode = "plan", "plan" \notin rejected,
                      NEW t \in Slots, tasks'[t].listed, ~tasks'[t].readOnly
               PROVE  t \in waiting /\ tasks'[t].clean \in Cleaning
    BY <1>4 DEF WaitFacts
  <2>1. CASE t # n
    BY <1>1, <1>10, <2>1 DEF WaitFacts
  <2>2. CASE t = n
    <3>1. tasks[p].listed /\ ~tasks[p].readOnly /\ tasks[p].clean = "no" /\ p \in Slots
      BY <1>1, <1>6, <1>8, <1>9, <1>10, <2>2 DEF CallerMode
    <3> QED BY <1>1, <3>1 DEF WaitFacts, Cleaning
  <2> QED BY <2>1, <2>2
<1>16. HeldFacts'
  <2> SUFFICES ASSUME held, NEW t \in Slots, tasks'[t].listed
               PROVE  tasks'[t].readOnly
    BY <1>1, <1>4 DEF HeldFacts
  <2>1. CASE t # n
    BY <1>1, <1>10, <2>1 DEF HeldFacts
  <2>2. CASE t = n
    <3>1. rootMode = "plan" /\ \A u \in Slots : tasks[u].listed => tasks[u].readOnly
      BY <1>1 DEF HeldFacts
    <3>2. ~ro => p \in Slots
      BY <1>8, <3>1 DEF CallerMode
    <3>3. ro
      BY <1>9, <3>1, <3>2
    <3> QED BY <1>6, <1>10, <2>2, <3>3
  <2> QED BY <2>1, <2>2
<1>17. DisposeFacts'
  BY <1>4, <1>7 DEF DisposeFacts
<1> QED BY <1>13, <1>14, <1>15, <1>16, <1>17 DEF IInv

(* A kill that fails takes its task out of the cleanup, and records so for *)
(* whoever waits for it.                                                   *)
LEMMA KillFailsKeeps ==
  ASSUME IInv, NEW t \in Slots, KillFails(t)
  PROVE  IInv'
<1> DEFINE b == [tasks[t] EXCEPT !.clean = "no"]
<1>1. /\ tasks \in [Slots -> Record] /\ ShapeFacts /\ WaitFacts /\ HeldFacts /\ DisposeFacts
      /\ stubborn \in 0..MaxStubborn /\ MaxStubborn \in Nat
  BY TaskAssumption DEF IInv, TypeOK, Record
<1>2. /\ tasks' = [tasks EXCEPT ![t] = b] /\ tasks[t].clean = "kill"
      /\ UNCHANGED <<count, rootMode, held, modes, disposal, exits>>
      /\ failed' = failed \union {t} /\ waiting' = waiting \ {t}
      /\ rejected' = rejected \union (IF t \in waiting THEN {"plan"} ELSE {})
                              \union (IF disposal = "running" THEN {"dispose"} ELSE {})
      /\ stubborn' = stubborn + 1 /\ stubborn < MaxStubborn
  BY <1>1 DEF KillFails
<1>3. /\ b \in Record /\ b.clean = "no" /\ b.status = tasks[t].status /\ b.listed = tasks[t].listed
      /\ b.readOnly = tasks[t].readOnly /\ b.proc = tasks[t].proc /\ b.ctx = tasks[t].ctx
      /\ b.mode = tasks[t].mode /\ b.at = tasks[t].at
  BY <1>1 DEF Record
<1> HIDE DEF b
<1>4. \A u \in Slots : tasks'[u] = IF u = t THEN b ELSE tasks[u]
  BY <1>1, <1>2
<1>5. TypeOK'
  <2>1. tasks' \in [Slots -> Record]
    BY <1>1, <1>2, <1>3
  <2>2. Started' = Started
    BY <1>3, <1>4 DEF Started
  <2>3. \A u \in Slots : tasks'[u].clean # "no" => Settled(u)'
    BY <1>3, <1>4 DEF IInv, TypeOK, Settled
  <2>4. waiting' = NoWait \/ waiting' \subseteq Slots
    BY <1>2 DEF IInv, TypeOK, NoWait, Root, Slots
  <2>5. rejected' \subseteq {"plan", "dispose"} /\ failed' \subseteq Slots
    BY <1>2 DEF IInv, TypeOK
  <2>6. stubborn' \in 0..MaxStubborn
    BY <1>1, <1>2
  <2> QED BY <1>2, <2>1, <2>2, <2>3, <2>4, <2>5, <2>6 DEF IInv, TypeOK, Record
<1>6. ShapeFacts'
  <2>1. Shape(tasks[t])
    BY <1>1 DEF ShapeFacts
  <2>2. Shape(b)
    BY <1>2, <1>3, <2>1 DEF Shape, Launching, Cleaning
  <2> QED BY <1>1, <1>4, <2>2 DEF ShapeFacts
<1>7. WaitFacts'
  <2> SUFFICES ASSUME waiting' # NoWait, rootMode = "plan", "plan" \notin rejected',
                      NEW u \in Slots, tasks'[u].listed, ~tasks'[u].readOnly
               PROVE  u \in waiting' /\ tasks'[u].clean \in Cleaning
    BY <1>2 DEF WaitFacts
  <2>1. t \notin waiting /\ "plan" \notin rejected
    BY <1>2
  <2>2. waiting' = waiting
    BY <1>2, <2>1
  <2>3. tasks[t].clean \in Cleaning /\ Shape(tasks[t])
    BY <1>1, <1>2 DEF Cleaning, ShapeFacts
  <2>4. u # t
    BY <1>1, <1>3, <1>4, <2>1, <2>2, <2>3 DEF WaitFacts, Shape
  <2> QED BY <1>1, <1>4, <2>1, <2>2, <2>4 DEF WaitFacts
<1>8. HeldFacts'
  BY <1>1, <1>2, <1>3, <1>4 DEF HeldFacts
<1>9. DisposeFacts'
  BY <1>1, <1>2, <1>3, <1>4 DEF DisposeFacts
<1> QED BY <1>5, <1>6, <1>7, <1>8, <1>9 DEF IInv

------------------------------------------------------------------------------
(* Stops.  A stopped task has an outcome and is being cleaned up, unless   *)
(* it is out of the map already.                                           *)
LEMMA StopsAdvance ==
  ASSUME IInv, NEW S \in SUBSET Slots, \A t \in S : tasks[t].listed
  PROVE  /\ Stopped(S) = [t \in Slots |-> Stopped(S)[t]]
         /\ \A t \in Slots :
              /\ Advances(tasks[t], Stopped(S)[t])
              /\ tasks[t].status \in Final => Stopped(S)[t].status = tasks[t].status
              /\ Stopped(S)[t].mode = tasks[t].mode
         /\ \A t \in S : Stopped(S)[t].listed => Stopped(S)[t].clean \in Cleaning
         /\ \A t \in Slots \ S : Stopped(S)[t] = tasks[t]
<1>1. tasks \in [Slots -> Record] /\ ShapeFacts
  BY DEF IInv, TypeOK, Record
<1>2. \A t \in Slots : Stopped(S)[t] = IF t \in S THEN Ended(tasks[t]) ELSE tasks[t]
  BY DEF Stopped
<1>3. ASSUME NEW t \in S
      PROVE  /\ Advances(tasks[t], Ended(tasks[t]))
             /\ tasks[t].status \in Final => Ended(tasks[t]).status = tasks[t].status
             /\ Ended(tasks[t]).mode = tasks[t].mode
             /\ Ended(tasks[t]).listed => Ended(tasks[t]).clean \in Cleaning
  <2>1. tasks[t] \in Record /\ Shape(tasks[t]) /\ tasks[t].status # "none"
    BY <1>1, <1>3 DEF ShapeFacts, Shape
  <2> QED BY <2>1, EndedAdvances
<1>4. \A t \in Slots : Advances(tasks[t], tasks[t])
  BY <1>1 DEF ShapeFacts, Advances
<1>5. Stopped(S) = [t \in Slots |-> Stopped(S)[t]]
  BY DEF Stopped
<1> QED BY <1>2, <1>3, <1>4, <1>5

LEMMA StopKeeps ==
  ASSUME IInv, NEW t \in Slots, Stop(t)
  PROVE  IInv'
<1>1. tasks[t].listed /\ tasks' = Stopped({t}) /\ failed' = failed \ {t}
  BY DEF Stop, Fresh
<1>2. UNCHANGED <<count, rootMode, waiting, held, rejected, modes, disposal, stubborn, exits>>
  BY DEF Stop, mode, faults
<1>3. failed' \subseteq Slots /\ modes' \in 0..MaxModes /\ stubborn' \in 0..MaxStubborn
      /\ exits' \in 0..MaxExits
  BY <1>1, <1>2 DEF IInv, TypeOK
<1>4. tasks' = [u \in Slots |-> tasks'[u]] /\ \A u \in Slots : Advances(tasks[u], tasks'[u])
  BY <1>1, StopsAdvance
<1> QED BY <1>2, <1>3, <1>4, AdvanceKeeps

LEMMA ChildModeKeeps ==
  ASSUME IInv, NEW p \in Slots, NEW m \in Modes, ChildMode(p, m)
  PROVE  IInv'
<1> DEFINE S == IF m = "plan" THEN {t \in Writable(Slots) : tasks[t].parent = p} ELSE {}
           b == [Stopped(S)[p] EXCEPT !.mode = m]
<1>1. S \in SUBSET Slots /\ \A t \in S : tasks[t].listed
  BY DEF Writable
<1>2. /\ tasks' = [Stopped(S) EXCEPT ![p].mode = m] /\ failed' = failed \ S
      /\ modes < MaxModes /\ modes' = modes + 1
      /\ UNCHANGED <<count, rootMode, waiting, held, rejected, disposal, stubborn, exits>>
      /\ m = "agent" => ~tasks[p].readOnly
  BY DEF ChildMode, Fresh, faults
<1> HIDE DEF S
<1>3. /\ Stopped(S) = [t \in Slots |-> Stopped(S)[t]]
      /\ \A t \in Slots : Advances(tasks[t], Stopped(S)[t])
  BY <1>1, StopsAdvance
<1>4. tasks' = [t \in Slots |-> IF t = p THEN b ELSE Stopped(S)[t]]
  BY <1>2, <1>3
<1>5. Advances(tasks[p], b)
  <2> DEFINE q == Stopped(S)[p]
  <2>1. q \in Record /\ Shape(q) /\ Advances(tasks[p], q)
    BY <1>3 DEF Advances
  <2>2. q.readOnly => m = "plan"
    <3>1. tasks[p].listed
      BY DEF ChildMode, MayCall, Root, Slots, IInv, ShapeFacts, Shape
    <3>2. CASE p \in S
      <4>1. tasks[p] \in Record /\ Shape(tasks[p]) /\ tasks[p].status # "none"
        BY <3>1 DEF IInv, ShapeFacts, TypeOK, Record, Shape
      <4> QED BY <1>2, <3>2, <4>1 DEF S, Modes
    <3>3. CASE p \notin S
      <4>1. q = tasks[p]
        BY <1>1, <3>3, StopsAdvance
      <4> QED BY <1>2, <4>1 DEF Modes
    <3> QED BY <3>2, <3>3
  <2>3. /\ b \in Record /\ b.mode = m /\ b.status = q.status /\ b.at = q.at
        /\ b.listed = q.listed /\ b.proc = q.proc /\ b.ctx = q.ctx /\ b.clean = q.clean
        /\ b.readOnly = q.readOnly
    BY <2>1 DEF Record
  <2> HIDE DEF q, b
  <2> QED BY <2>1, <2>2, <2>3 DEF Advances, Shape
<1>6. failed' \subseteq Slots /\ modes' \in 0..MaxModes /\ stubborn' \in 0..MaxStubborn
      /\ exits' \in 0..MaxExits
  BY <1>2, TaskAssumption DEF IInv, TypeOK
<1> HIDE DEF b
<1>7. \A t \in Slots : Advances(tasks[t], tasks'[t])
  BY <1>3, <1>4, <1>5
<1>8. tasks' = [t \in Slots |-> tasks'[t]]
  BY <1>4
<1> QED BY <1>2, <1>6, <1>7, <1>8, AdvanceKeeps

------------------------------------------------------------------------------
(* Modes of the root.                                                      *)
LEMMA RootModeKeeps ==
  ASSUME IInv, RootToAgent \/ RootToPlan \/ RootPlanned
  PROVE  IInv'
<1>1. /\ tasks \in [Slots -> Record] /\ ShapeFacts /\ WaitFacts /\ HeldFacts /\ DisposeFacts
      /\ rejected \subseteq {"plan", "dispose"} /\ failed \subseteq Slots
      /\ disposal \in {"no", "running", "done", "failed"} /\ rootMode \in Modes
      /\ waiting = NoWait \/ waiting \subseteq Slots
      /\ modes \in 0..MaxModes /\ stubborn \in 0..MaxStubborn /\ exits \in 0..MaxExits
      /\ MaxModes \in Nat
  BY TaskAssumption DEF IInv, TypeOK, Record
<1>2. \A t \in Slots : Advances(tasks[t], tasks[t])
  BY <1>1 DEF ShapeFacts, Advances
<1>3. CASE RootToAgent
  <2>1. /\ rootMode' = "agent" /\ held' = FALSE /\ modes' = modes + 1 /\ modes < MaxModes
        /\ UNCHANGED <<tasks, count, waiting, rejected, disposal, failed, stubborn, exits>>
    BY <1>3 DEF RootToAgent, MaySwitch, faults
  <2>2. TypeOK' /\ ShapeFacts'
    <3>1. modes' \in 0..MaxModes
      BY <1>1, <2>1
    <3>2. /\ tasks' = [t \in Slots |-> tasks'[t]]
          /\ \A t \in Slots : Advances(tasks[t], tasks'[t])
      BY <1>1, <1>2, <2>1
    <3>3. rootMode' \in Modes /\ held' \in BOOLEAN
      BY <2>1 DEF Modes
    <3> QED BY <1>1, <2>1, <3>1, <3>2, <3>3, AdvanceShapes
  <2> QED BY <1>1, <2>1, <2>2 DEF IInv, WaitFacts, HeldFacts, DisposeFacts
<1>4. CASE RootToPlan
  <2> DEFINE S == Writable(Slots)
  <2>1. /\ rootMode' = "plan" /\ held' = FALSE /\ modes' = modes + 1 /\ modes < MaxModes
        /\ tasks' = Stopped(S) /\ failed' = failed \ S
        /\ waiting' = S /\ rejected' = rejected \ {"plan"}
        /\ UNCHANGED <<count, disposal, stubborn, exits>>
    BY <1>4 DEF RootToPlan, MaySwitch, faults, Fresh
  <2>2. S \in SUBSET Slots /\ (\A t \in S : tasks[t].listed)
        /\ \A t \in Slots : tasks[t].listed /\ ~tasks[t].readOnly => t \in S
    BY DEF Writable
  <2> HIDE DEF S
  <2>3. /\ tasks' = [t \in Slots |-> tasks'[t]]
        /\ \A t \in Slots : Advances(tasks[t], tasks'[t])
        /\ \A t \in S : tasks'[t].listed => tasks'[t].clean \in Cleaning
    BY <2>1, <2>2, StopsAdvance
  <2>4. TypeOK' /\ ShapeFacts'
    <3>1. modes' \in 0..MaxModes
      BY <1>1, <2>1
    <3>2. /\ failed' \subseteq Slots /\ rejected' \subseteq {"plan", "dispose"}
          /\ waiting' = NoWait \/ waiting' \subseteq Slots
      BY <1>1, <2>1, <2>2
    <3>3. rootMode' \in Modes /\ held' \in BOOLEAN
      BY <2>1 DEF Modes
    <3> QED BY <1>1, <2>1, <2>3, <3>1, <3>2, <3>3, AdvanceShapes
  <2>5. WaitFacts'
    BY <2>1, <2>2, <2>3 DEF WaitFacts, Advances
  <2>6. HeldFacts'
    BY <2>1 DEF HeldFacts
  <2>7. DisposeFacts'
    BY <1>1, <2>1, <2>3 DEF DisposeFacts, Advances
  <2> QED BY <2>4, <2>5, <2>6, <2>7 DEF IInv
(* All that was waited for is out of the map: no writable task is left.    *)
<1>5. CASE RootPlanned
  <2>1. /\ waiting # NoWait /\ (\A t \in waiting : tasks[t].clean = "done")
        /\ waiting' = NoWait /\ held' = (rootMode = "plan" /\ "plan" \notin rejected)
        /\ UNCHANGED <<tasks, count, rootMode, rejected, modes, disposal, failed, stubborn, exits>>
    BY <1>5 DEF RootPlanned, faults
  <2>2. TypeOK' /\ ShapeFacts'
    <3>1. /\ held' \in BOOLEAN /\ tasks' = [t \in Slots |-> tasks'[t]]
          /\ \A t \in Slots : Advances(tasks[t], tasks'[t])
      BY <1>1, <1>2, <2>1
    <3> QED BY <1>1, <2>1, <3>1, AdvanceShapes
  <2>3. HeldFacts'
    BY <1>1, <2>1 DEF HeldFacts, WaitFacts, Cleaning
  <2>4. WaitFacts' /\ DisposeFacts'
    BY <1>1, <2>1 DEF WaitFacts, DisposeFacts
  <2> QED BY <2>2, <2>3, <2>4 DEF IInv
<1> QED BY <1>3, <1>4, <1>5

------------------------------------------------------------------------------
(* Disposal.                                                               *)
LEMMA DisposeKeeps ==
  ASSUME IInv, Dispose \/ DisposeEnds
  PROVE  IInv'
<1>1. /\ tasks \in [Slots -> Record] /\ ShapeFacts /\ WaitFacts /\ HeldFacts /\ DisposeFacts
      /\ rejected \subseteq {"plan", "dispose"} /\ failed \subseteq Slots
      /\ rootMode \in Modes /\ held \in BOOLEAN
      /\ waiting = NoWait \/ waiting \subseteq Slots
      /\ modes \in 0..MaxModes /\ stubborn \in 0..MaxStubborn /\ exits \in 0..MaxExits
  BY DEF IInv, TypeOK, Record
<1>2. CASE Dispose
  <2>1. /\ disposal' = "running" /\ tasks' = Stopped(Listed) /\ failed' = failed \ Listed
        /\ rejected' = rejected \ {"dispose"}
        /\ UNCHANGED <<count, rootMode, waiting, held, modes, stubborn, exits>>
    BY <1>2 DEF Dispose, faults, Fresh
  <2>2. Listed \in SUBSET Slots /\ \A t \in Slots : t \in Listed <=> tasks[t].listed
    BY <1>1 DEF Listed, Record
  <2>3. /\ tasks' = [t \in Slots |-> tasks'[t]]
        /\ \A t \in Slots : Advances(tasks[t], tasks'[t])
        /\ \A t \in Listed : tasks'[t].listed => tasks'[t].clean \in Cleaning
    BY <2>1, <2>2, StopsAdvance
  <2>4. TypeOK' /\ ShapeFacts'
    <3>1. failed' \subseteq Slots /\ rejected' \subseteq {"plan", "dispose"}
      BY <1>1, <2>1
    <3> QED BY <1>1, <2>1, <2>3, <3>1, AdvanceShapes
  <2>5. WaitFacts' /\ HeldFacts'
    BY <1>1, <2>1, <2>3 DEF WaitFacts, HeldFacts, Advances
  <2>6. DisposeFacts'
    BY <2>1, <2>2, <2>3 DEF DisposeFacts, Advances
  <2> QED BY <2>4, <2>5, <2>6 DEF IInv
<1>3. CASE DisposeEnds
  <2>1. /\ disposal = "running" /\ \A t \in Slots : tasks[t].clean \notin Cleaning
        /\ disposal' = IF "dispose" \in rejected THEN "failed" ELSE "done"
        /\ tasks' = [t \in Slots |-> [tasks[t] EXCEPT !.ctx = FALSE]]
        /\ UNCHANGED <<count, rootMode, waiting, held, rejected, modes, failed, stubborn, exits>>
    BY <1>3 DEF DisposeEnds, mode, faults, Cleaning
  <2>2. ASSUME NEW t \in Slots
        PROVE  Advances(tasks[t], tasks'[t])
    <3>1. tasks[t] \in Record /\ Shape(tasks[t])
      BY <1>1 DEF ShapeFacts
    <3>2. tasks'[t] = [tasks[t] EXCEPT !.ctx = FALSE]
      BY <2>1
    <3> QED BY <3>1, <3>2 DEF Advances, Shape, Record, Active, Final, Launching, Cleaning
  <2>3. tasks' = [t \in Slots |-> tasks'[t]]
    BY <2>1
  <2>4. disposal' \in {"no", "running", "done", "failed"}
    BY <2>1
  <2>5. TypeOK' /\ ShapeFacts'
    BY <1>1, <2>1, <2>2, <2>3, <2>4, AdvanceShapes
  <2>6. WaitFacts' /\ HeldFacts'
    BY <1>1, <2>1, <2>2 DEF WaitFacts, HeldFacts, Advances
  <2>7. DisposeFacts'
    <3>1. disposal' = "done" => \A t \in Slots : ~tasks'[t].listed
      BY <1>1, <2>1, <2>2 DEF DisposeFacts, Advances
    <3> QED BY <2>1, <3>1 DEF DisposeFacts
  <2> QED BY <2>5, <2>6, <2>7 DEF IInv
<1> QED BY <1>2, <1>3

LEMMA NextIInv == IInv /\ [Next]_vars => IInv'
<1> SUFFICES ASSUME IInv, [Next]_vars PROVE IInv'
  OBVIOUS
<1>1. ASSUME NEW p \in {Root} \union Slots, NEW asked \in BOOLEAN, Start(p, asked) PROVE IInv'
  BY <1>1, StartKeeps
<1>2. ASSUME NEW t \in Slots,
             \/ TaskStep(t) \/ AbortTask(t) \/ Exit(t)
             \/ \E st \in Final : AgentSettled(t, st)
      PROVE  IInv'
  <2>1. CASE KillFails(t)
    BY <2>1, KillFailsKeeps
  <2>2. CASE ~KillFails(t)
    BY <1>2, <2>2, TaskStepKeeps
  <2> QED BY <2>1, <2>2
<1>3. ASSUME NEW t \in Slots, Stop(t) PROVE IInv'
  BY <1>3, StopKeeps
<1>4. ASSUME NEW t \in Slots, NEW m \in Modes, ChildMode(t, m) PROVE IInv'
  BY <1>4, ChildModeKeeps
<1>5. CASE RootToAgent \/ RootToPlan \/ RootPlanned
  BY <1>5, RootModeKeeps
<1>6. CASE Dispose \/ DisposeEnds
  BY <1>6, DisposeKeeps
<1>7. CASE UNCHANGED vars
  BY <1>7 DEF vars, IInv, TypeOK, Started, Settled, ShapeFacts, WaitFacts, HeldFacts, DisposeFacts
<1> QED BY <1>1, <1>2, <1>3, <1>4, <1>5, <1>6, <1>7 DEF Next

------------------------------------------------------------------------------
(* The inductive invariant holds of every state of the specification.      *)
THEOREM TaskInvariant == Spec => []IInv
<1> QED BY InitIInv, NextIInv, PTL DEF Spec

(* No process, capability or launch gets away from the manager: whatever   *)
(* lives is in the map, where every stop, switch and disposal looks for    *)
(* it, and a disposal that reported success left nothing.                  *)
THEOREM NothingEscapesHolds == Spec => []NothingEscapes
<1>1. IInv => NothingEscapes
  <2> SUFFICES ASSUME IInv PROVE Reachable /\ DisposedIsQuiet
    BY DEF NothingEscapes, IInv
  <2>1. Reachable
    BY DEF IInv, ShapeFacts, Shape, Reachable
  <2>2. DisposedIsQuiet
    BY DEF IInv, ShapeFacts, DisposeFacts, Shape, Launching, DisposedIsQuiet
  <2> QED BY <2>1, <2>2
<1> QED BY <1>1, TaskInvariant, PTL

(* A switch of the root to Plan mode that succeeded leaves no writable     *)
(* child, at any depth, that lives or can be driven.                       *)
THEOREM PlanModeHolds == Spec => []PlanHolds
<1>1. IInv => PlanHolds
  BY DEF IInv, ShapeFacts, HeldFacts, Shape, PlanHolds
<1> QED BY <1>1, TaskInvariant, PTL

(* The first outcome of a task is its outcome.                             *)
LEMMA NextKeepsOutcomes ==
  ASSUME IInv, [Next]_vars, NEW t \in Slots, Settled(t)
  PROVE  tasks'[t].status = tasks[t].status
<1>1. tasks \in [Slots -> Record] /\ ShapeFacts /\ count \in Nat /\ Started = 1..count
  BY TaskAssumption DEF IInv, TypeOK, Record
<1>2. tasks[t] \in Record /\ Shape(tasks[t]) /\ tasks[t].status \in Final
  BY <1>1 DEF ShapeFacts, Settled
<1>a. ASSUME NEW u \in Slots, NEW b, tasks' = [tasks EXCEPT ![u] = b],
             u = t => b.status = tasks[t].status
      PROVE  tasks'[t].status = tasks[t].status
  BY <1>1, <1>a
<1>b. ASSUME NEW q \in Record, q.status \in Final
      PROVE  Ended(q).status = q.status /\ Cleanup(q).status = q.status
  BY <1>b DEF Ended, Cleanup, Settle, Record
<1>c. ASSUME NEW S, tasks' = Stopped(S)
      PROVE  tasks'[t].status = tasks[t].status
  BY <1>2, <1>b, <1>c DEF Stopped
<1>3. ASSUME NEW p \in {Root} \union Slots, NEW asked \in BOOLEAN, Start(p, asked)
      PROVE  tasks'[t].status = tasks[t].status
  <2>1. t # count + 1
    BY <1>1, <1>2 DEF Started, Final
  <2> QED BY <1>1, <1>3, <2>1 DEF Start
<1>4. ASSUME NEW u \in Slots, TaskStep(u) \/ AbortTask(u) \/ Exit(u)
      PROVE  tasks'[t].status = tasks[t].status
  <2>1. CASE u # t
    BY <1>1, <1>4, <2>1 DEF TaskStep, Spawn, LaunchReady, LaunchFails, PromptOk, PromptFails,
       RunTimer, AwaitLaunch, Killed, KillFails, AbortTask, Exit
  <2>2. CASE u = t
    <3> DEFINE r == tasks[t]
    <3>1. ASSUME NEW w \in {"done", "await"} PROVE [r EXCEPT !.at = w] \in Record
      BY <1>2 DEF Record
    <3>2. CASE Spawn(t)
      BY <1>1, <3>2 DEF Spawn, Record
    <3>3. CASE LaunchReady(t) \/ PromptFails(t)
      <4>1. tasks'[t] = Ended([r EXCEPT !.at = "done"])
        BY <1>1, <1>2, <3>3 DEF LaunchReady, PromptFails, Usable, Settled
      <4> QED BY <1>2, <3>1, <4>1, <1>b DEF Record
    <3>4. CASE LaunchFails(t)
      <4>1. PICK survives \in {FALSE, r.proc} :
              tasks'[t] = Ended([r EXCEPT !.at = "done", !.proc = survives])
        BY <1>1, <3>4 DEF LaunchFails
      <4>2. [r EXCEPT !.at = "done", !.proc = survives] \in Record
        BY <1>2, <4>1 DEF Record
      <4> QED BY <1>2, <4>1, <4>2, <1>b DEF Record
    <3>5. ASSUME NEW background \in BOOLEAN, PromptOk(t, background)
          PROVE  tasks'[t].status = tasks[t].status
      <4>1. tasks'[t] = Cleanup([r EXCEPT !.at = "done"])
        BY <1>1, <3>5 DEF PromptOk
      <4> QED BY <1>2, <3>1, <4>1, <1>b DEF Record
    <3>6. ~RunTimer(t) /\ ~AbortTask(t)
      BY DEF RunTimer, AbortTask
    <3>7. CASE AwaitLaunch(t) \/ KillFails(t)
      BY <1>1, <3>7 DEF AwaitLaunch, KillFails, Record
    <3>8. CASE Killed(t)
      BY <1>1, <3>8 DEF Killed, Record, NoTask
    <3>9. CASE Exit(t)
      <4>1. tasks'[t] = Ended([r EXCEPT !.proc = FALSE]) /\ [r EXCEPT !.proc = FALSE] \in Record
        BY <1>1, <1>2, <3>9 DEF Exit, Record
      <4> QED BY <1>2, <4>1, <1>b DEF Record
    <3> QED BY <1>4, <2>2, <3>2, <3>3, <3>4, <3>5, <3>6, <3>7, <3>8, <3>9 DEF TaskStep
  <2> QED BY <2>1, <2>2
<1>5. ASSUME NEW u \in Slots, NEW st \in Final, AgentSettled(u, st)
      PROVE  tasks'[t].status = tasks[t].status
  BY <1>1, <1>5 DEF AgentSettled
<1>6. ASSUME NEW u \in Slots, Stop(u) PROVE tasks'[t].status = tasks[t].status
  BY <1>6, <1>c DEF Stop
<1>7. ASSUME NEW p \in Slots, NEW m \in Modes, ChildMode(p, m)
      PROVE  tasks'[t].status = tasks[t].status
  <2>1. PICK S : tasks' = [Stopped(S) EXCEPT ![p].mode = m]
    BY <1>7 DEF ChildMode
  <2>2. Stopped(S)[t] \in Record /\ Stopped(S)[t].status = tasks[t].status
    <3>1. Ended(tasks[t]) \in Record /\ Ended(tasks[t]).status = tasks[t].status
      BY <1>2, EndedAdvances DEF Advances, Final
    <3> QED BY <1>2, <3>1 DEF Stopped
  <2> QED BY <2>1, <2>2 DEF Stopped, Record
<1>8. CASE RootToAgent \/ RootToPlan \/ RootPlanned \/ Dispose
  BY <1>8, <1>c DEF RootToAgent, RootToPlan, RootPlanned, Dispose
<1>9. CASE DisposeEnds
  BY <1>2, <1>9 DEF DisposeEnds, Record
<1>10. CASE UNCHANGED vars
  BY <1>10 DEF vars
<1> QED BY <1>3, <1>4, <1>5, <1>6, <1>7, <1>8, <1>9, <1>10 DEF Next

THEOREM OutcomesStick == Spec => OutcomeSticks
<1>1. IInv /\ [Next]_vars =>
        [\A t \in Slots : Settled(t) => tasks'[t].status = tasks[t].status]_vars
  BY NextKeepsOutcomes
<1> QED BY <1>1, TaskInvariant, PTL DEF Spec, OutcomeSticks
==============================================================================
