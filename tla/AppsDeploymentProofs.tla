------------------------ MODULE AppsDeploymentProofs ------------------------
(***************************************************************************)
(* Proofs about AppsDeployment, for any number of workers, deployments,    *)
(* generations, attempts and faults.                                       *)
(*                                                                         *)
(* The argument: a phase that is final never becomes active again, and a   *)
(* generation is given to one deployment only (RowFacts); a worker's place *)
(* in its run therefore goes on telling the truth about the deployment it  *)
(* works on, whoever else writes the rows (RunFacts); and as long as no    *)
(* lease ran out under its runner, the row in app_leases names the one     *)
(* worker that is in the middle of a run (LeaseFacts).                     *)
(***************************************************************************)
EXTENDS AppsDeployment, FiniteSetTheorems, SequenceTheorems, TLAPS

Unstarted == {"none", "awaiting_target"}
Held == Working \union {"failing", "fail_outbox", "acknowledge"}
Targets == {"unassigned", "temporary", "byoc"}
DepRecord == [phase : Phases, gen : 0..MaxGeneration, target : Targets,
              back : 0..MaxDeployments]
OutboxRecord == [state : {"none", "pending", "leased", "completed", "failed"},
                 owner : Workers \union {Lost}, live : BOOLEAN, attempts : Nat]
RunRecord == [pc : {"idle", "next"} \union Held, batch : Seq(Versions),
              known : BOOLEAN, op : BOOLEAN, ok : BOOLEAN]

LeaseRecord == [token : Workers \union {Lost}, gen : 0..MaxGeneration]
AppRecord == [status : {"none", "needs_action", "deploying", "ready", "preview", "failed", "archived"},
              gen : 0..MaxGeneration, current : 0..MaxDeployments, target : Targets]

(* TypeOK in two parts.                                                    *)
RowTypes ==
  /\ app \in AppRecord
  /\ dep \in [Versions -> DepRecord]
  /\ outbox \in [Versions -> OutboxRecord]
  /\ receipts \subseteq Versions
  /\ lease \in LeaseRecord
LeaseNamed == lease.token # Lost => run[lease.token].pc \in Held

(* What TypeOK leaves out: the workers and the ghost counters.             *)
MoreTypes ==
  /\ run \in [Workers -> RunRecord]
  /\ {crashes, stalls} \subseteq Nat

(* One deployment and its record in the outbox.                            *)
RowFacts(v) ==
  /\ dep[v].gen <= app.gen
  /\ dep[v].phase \in Unstarted => outbox[v].state = "none"
  /\ outbox[v].state = "completed" => dep[v].phase \in Finalized
  /\ dep[v].phase \in Active /\ Fresh(v) =>
       outbox[v].state \in {"pending", "leased"} \/ outbox[v].attempts >= MaxAttempts

(* No two deployments have the same generation; the current one is final.  *)
AppFacts ==
  /\ \A u, v \in Versions :
       u # v /\ dep[u].phase # "none" /\ dep[v].phase # "none" => dep[u].gen # dep[v].gen
  /\ app.current # 0 => dep[app.current].phase \in Finalized
  /\ ReadyIsReady

(* A worker in the middle of its batch, and the deployment it works on.    *)
RunFacts(w) ==
  /\ run[w].pc # "idle" => run[w].batch # <<>>
  /\ \A i \in DOMAIN run[w].batch : dep[run[w].batch[i]].phase \notin Unstarted
  /\ run[w].pc = "settle" \/ run[w].ok => dep[V(w)].phase \in Finalized
  /\ run[w].ok => run[w].pc = "acknowledge"
  /\ run[w].pc = "fail_outbox" => dep[V(w)].phase = "failed"
  /\ run[w].pc = "create" => receipts # {}
  /\ run[w].pc = "complete" /\ stalls = 0 => live = V(w)
  /\ run[w].pc \in Held /\ stalls = 0 => lease.token = w

IInv ==
  /\ TypeOK /\ MoreTypes
  /\ \A v \in Versions : RowFacts(v)
  /\ AppFacts
  /\ \A w \in Workers : RunFacts(w)
  /\ ReceiptFirst

-----------------------------------------------------------------------------
(* Lemmas about one kind of change each *)

LEMMA TypeParts == /\ TypeOK <=> RowTypes /\ LeaseNamed
                   /\ TypeOK' <=> RowTypes' /\ LeaseNamed'
  BY DEF TypeOK, RowTypes, LeaseNamed, AppRecord, DepRecord, OutboxRecord, LeaseRecord,
         Targets, Held

(* A worker that is not idle works on a version.                           *)
LEMMA VersionOfRun ==
  ASSUME MoreTypes, NEW w \in Workers, RunFacts(w), run[w].pc # "idle"
  PROVE  V(w) \in Versions /\ dep[V(w)].phase \notin Unstarted
  <1>1. run[w].batch \in Seq(Versions) /\ run[w].batch # <<>>
    BY DEF MoreTypes, RunRecord, RunFacts
  <1>2. V(w) = run[w].batch[1] /\ 1 \in DOMAIN run[w].batch
    BY <1>1 DEF V
  <1>3. V(w) \in Versions
    BY <1>1, HeadTailProperties DEF V
  <1> QED
    BY <1>2, <1>3 DEF RunFacts

(* What is final stays final: the part of a step on the deployments that   *)
(* the places of the workers depend on.                                    *)
Settles ==
  \A v \in Versions :
    /\ dep[v].phase \notin Unstarted => dep'[v].phase \notin Unstarted
    /\ dep[v].phase \in Finalized => dep'[v].phase \in Finalized
    /\ dep[v].phase = "failed" => dep'[v].phase = "failed"

(* The batch of a worker stays one of deployments that were queued.        *)
LEMMA BatchStarted ==
  ASSUME NEW b \in Seq(Versions), Settles,
         \A i \in DOMAIN b : dep[b[i]].phase \notin Unstarted
  PROVE  \A i \in DOMAIN b : dep'[b[i]].phase \notin Unstarted
  <1>1. \A i \in DOMAIN b : b[i] \in Versions
    BY ElementOfSeq, LenProperties
  <1> QED
    BY <1>1 DEF Settles

(* A worker that does not move, whatever the others do.                    *)
LEMMA RunFrame ==
  ASSUME MoreTypes, NEW w \in Workers, RunFacts(w), run'[w] = run[w], Settles,
         receipts \subseteq receipts', stalls' = 0 => stalls = 0,
         run[w].pc \in Held /\ stalls' = 0 => lease'.token = w,
         run[w].pc = "complete" /\ stalls' = 0 => live' = live
  PROVE  RunFacts(w)'
  <1>0. \A i \in DOMAIN run[w].batch : dep'[run[w].batch[i]].phase \notin Unstarted
    BY BatchStarted DEF RunFacts, MoreTypes, RunRecord
  <1>1. CASE run[w].pc = "idle"
    BY <1>0, <1>1 DEF RunFacts, Held, Working
  <1>2. CASE run[w].pc # "idle"
    <2>1. V(w) \in Versions /\ V(w)' = V(w)
      BY <1>2, VersionOfRun DEF V
    <2>2. /\ dep[V(w)].phase \in Finalized => dep'[V(w)].phase \in Finalized
          /\ dep[V(w)].phase = "failed" => dep'[V(w)].phase = "failed"
      BY <2>1 DEF Settles
    <2> QED
      BY <1>0, <2>1, <2>2 DEF RunFacts
  <1> QED
    BY <1>1, <1>2

(* One worker moves.                                                       *)
LEMMA RunMove ==
  ASSUME IInv, NEW w \in Workers, NEW r \in RunRecord, run' = [run EXCEPT ![w] = r],
         Settles, receipts \subseteq receipts', stalls' = 0 => stalls = 0,
         \A x \in Workers \ {w} : run[x].pc \in Held /\ stalls' = 0 => lease'.token = x,
         \A x \in Workers \ {w} : run[x].pc = "complete" /\ stalls' = 0 => live' = live,
         RunFacts(w)'
  PROVE  run' \in [Workers -> RunRecord] /\ \A x \in Workers : RunFacts(x)'
  <1>1. run' \in [Workers -> RunRecord]
    BY DEF IInv, MoreTypes
  <1>2. ASSUME NEW x \in Workers \ {w} PROVE RunFacts(x)'
    <2>1. run'[x] = run[x] /\ RunFacts(x) /\ MoreTypes
      BY DEF IInv, MoreTypes
    <2> QED
      BY <2>1, RunFrame
  <1> QED
    BY <1>1, <1>2

(* The rows of app and deployments stay; records of the outbox move on.    *)
RecordMoves(v) ==
  \/ outbox'[v] = outbox[v]
  \/ /\ outbox[v].state \in {"pending", "leased"}
     /\ outbox'[v].state # "none"
     /\ outbox'[v].state = "completed" => dep[v].phase \in Finalized
     /\ outbox'[v].state = "failed" =>
          \/ outbox'[v].attempts >= MaxAttempts
          \/ dep[v].phase \notin Active
          \/ ~Fresh(v)

LEMMA OutboxMoves ==
  ASSUME IInv, app' = app, dep' = dep, outbox' \in [Versions -> OutboxRecord],
         \A v \in Versions : RecordMoves(v)
  PROVE  (\A v \in Versions : RowFacts(v)') /\ AppFacts' /\ Settles
  <1>1. ASSUME NEW v \in Versions PROVE RowFacts(v)'
    <2>1. RowFacts(v) /\ RecordMoves(v) /\ outbox'[v] \in OutboxRecord
      BY DEF IInv
    <2>2. CASE outbox'[v] = outbox[v]
      BY <2>1, <2>2 DEF RowFacts, Fresh
    <2>3. CASE outbox'[v] # outbox[v]
      <3>1. /\ dep'[v].gen <= app'.gen
            /\ dep'[v].phase \notin Unstarted
            /\ outbox'[v].state = "completed" => dep'[v].phase \in Finalized
        BY <2>1, <2>3 DEF RowFacts, RecordMoves
      <3>2. dep'[v].phase \in Active /\ Fresh(v)' =>
              outbox'[v].state \in {"pending", "leased"} \/ outbox'[v].attempts >= MaxAttempts
        BY <2>1, <2>3 DEF RecordMoves, Fresh, OutboxRecord, Active, Finalized
      <3> QED
        BY <3>1, <3>2 DEF RowFacts
    <2> QED
      BY <2>2, <2>3
  <1>2. AppFacts' /\ Settles
    BY DEF IInv, AppFacts, ReadyIsReady, Settles
  <1> QED
    BY <1>1, <1>2

(* A deployment that is under way, or not final yet, changes its phase.    *)
LEMMA PhaseMoves ==
  ASSUME IInv, NEW v \in Versions, NEW p \in Phases,
         dep' = [dep EXCEPT ![v].phase = p], app'.gen = app.gen, outbox' = outbox,
         p \notin Unstarted, dep[v].phase # "none",
         dep[v].phase \in Finalized => p \in Finalized,
         dep[v].phase = "failed" => p = "failed",
         p \in Active => dep[v].phase \in Active
  PROVE  /\ dep' \in [Versions -> DepRecord]
         /\ \A u \in Versions : RowFacts(u)'
         /\ \A u, x \in Versions :
              u # x /\ dep'[u].phase # "none" /\ dep'[x].phase # "none"
                => dep'[u].gen # dep'[x].gen
         /\ Settles
  <1>0. dep \in [Versions -> DepRecord]
    BY TypeParts DEF IInv, RowTypes
  <1>1. /\ dep' \in [Versions -> DepRecord]
        /\ dep'[v].phase = p
        /\ \A u \in Versions : dep'[u].gen = dep[u].gen
        /\ \A u \in Versions : u # v => dep'[u] = dep[u]
    BY <1>0 DEF DepRecord
  <1>2. ASSUME NEW u \in Versions PROVE RowFacts(u)'
    <2>1. RowFacts(u)
      BY DEF IInv
    <2> QED
      BY <1>1, <2>1 DEF RowFacts, Fresh
  <1>3. \A u, x \in Versions :
          u # x /\ dep'[u].phase # "none" /\ dep'[x].phase # "none" => dep'[u].gen # dep'[x].gen
    BY <1>1 DEF IInv, AppFacts
  <1>4. Settles
    BY <1>1 DEF Settles
  <1> QED
    BY <1>1, <1>2, <1>3, <1>4

(* Nobody moves, and the lease is kept, or was nobody's.                   *)
LEMMA RunsStay ==
  ASSUME IInv, run' = run, Settles, receipts' = receipts, live' = live,
         stalls' = 0 => stalls = 0,
         stalls' = 0 => lease' = lease \/ lease.token = Lost
  PROVE  \A w \in Workers : RunFacts(w)'
  <1> SUFFICES ASSUME NEW w \in Workers PROVE RunFacts(w)'
    OBVIOUS
  <1>1. MoreTypes /\ RunFacts(w) /\ w # Lost
    BY AppsAssumption DEF IInv
  <1>2. run[w].pc \in Held /\ stalls' = 0 => lease'.token = w
    BY <1>1 DEF RunFacts
  <1> QED
    BY <1>1, <1>2, RunFrame

(* A worker goes on with its run, or ends it, and keeps its lease.  No     *)
(* other worker's upload is waiting to be recorded while this one uploads. *)
LEMMA HolderMoves ==
  ASSUME IInv, NEW w \in Workers, run[w].pc \in Held,
         NEW r \in RunRecord, run' = [run EXCEPT ![w] = r],
         r.pc \in Held, r.batch = run[w].batch, r.ok => r.pc = "acknowledge",
         r.pc = "settle" \/ r.ok => dep'[V(w)].phase \in Finalized,
         r.pc = "fail_outbox" => dep'[V(w)].phase = "failed",
         r.pc = "create" => receipts' # {},
         r.pc = "complete" /\ stalls' = 0 => live' = V(w),
         Settles, receipts \subseteq receipts', lease' = lease, stalls' = 0 => stalls = 0
  PROVE  /\ run' \in [Workers -> RunRecord]
         /\ \A x \in Workers : RunFacts(x)'
         /\ LeaseNamed'
  <1>1. run \in [Workers -> RunRecord] /\ RunFacts(w) /\ LeaseNamed
    BY TypeParts DEF IInv, MoreTypes
  <1>2. run'[w] = r /\ V(w)' = V(w)
    BY <1>1 DEF V
  <1>3. run[w].pc # "idle"
    BY DEF Held, Working
  <1>4. stalls' = 0 => lease'.token = w
    BY <1>1 DEF RunFacts
  <1>5. RunFacts(w)'
    <2>1. \A i \in DOMAIN run[w].batch : dep'[run[w].batch[i]].phase \notin Unstarted
      BY <1>1, BatchStarted DEF RunFacts, RunRecord
    <2> QED
      BY <1>1, <1>2, <1>3, <1>4, <2>1 DEF RunFacts
  <1>6. \A x \in Workers \ {w} : ~ (run[x].pc \in Held /\ stalls' = 0)
    <2> SUFFICES ASSUME NEW x \in Workers \ {w}, run[x].pc \in Held, stalls' = 0 PROVE FALSE
      OBVIOUS
    <2> QED
      BY <1>4 DEF IInv, RunFacts
  <1>7. \A x \in Workers \ {w} : run[x].pc = "complete" => run[x].pc \in Held
    BY DEF Held, Working
  <1>8. run' \in [Workers -> RunRecord] /\ \A x \in Workers : RunFacts(x)'
    BY <1>5, <1>6, <1>7, RunMove
  <1>9. LeaseNamed'
    <2>1. CASE lease.token = w
      BY <2>1, <1>2 DEF LeaseNamed
    <2>2. CASE lease.token # w
      BY <2>2, <1>1 DEF LeaseNamed
    <2> QED
      BY <2>1, <2>2
  <1> QED
    BY <1>8, <1>9

(* A run that throws, and one that comes to its end.                       *)
LEMMA ThrowMoves ==
  ASSUME IInv, NEW w \in Workers, run[w].pc \in Working, run' = Throw(w),
         dep' = dep, receipts' = receipts, lease' = lease, stalls' = 0 => stalls = 0
  PROVE  /\ run' \in [Workers -> RunRecord]
         /\ \A x \in Workers : RunFacts(x)'
         /\ LeaseNamed'
  <1> DEFINE r == [run[w] EXCEPT !.pc = "failing", !.known = FALSE]
  <1>1. run[w] \in RunRecord /\ RunFacts(w)
    BY DEF IInv, MoreTypes
  <1>2. r \in RunRecord
    BY <1>1 DEF RunRecord, Held
  <1>3. r.pc = "failing" /\ r.batch = run[w].batch /\ r.ok = run[w].ok
    BY <1>1 DEF RunRecord
  <1>4. run' = [run EXCEPT ![w] = r]
    BY DEF Throw, IInv, MoreTypes
  <1>5. ~ run[w].ok /\ run[w].pc \in Held /\ "failing" \in Held
    BY <1>1 DEF RunFacts, Held, Working, RunRecord
  <1>6. Settles
    BY DEF Settles
  <1> HIDE DEF r
  <1> QED
    BY <1>2, <1>3, <1>4, <1>5, <1>6, HolderMoves

LEMMA EndMoves ==
  ASSUME IInv, NEW w \in Workers, run[w].pc \in Held, NEW k \in BOOLEAN, run' = End(w, k),
         k => dep[V(w)].phase \in Finalized,
         dep' = dep, receipts' = receipts, lease' = lease, stalls' = 0 => stalls = 0
  PROVE  /\ run' \in [Workers -> RunRecord]
         /\ \A x \in Workers : RunFacts(x)'
         /\ LeaseNamed'
  <1> DEFINE r == [Idle EXCEPT !.pc = "acknowledge", !.batch = run[w].batch, !.ok = k]
  <1>1. run[w] \in RunRecord
    BY DEF IInv, MoreTypes
  <1>2. run[w].batch \in Seq(Versions)
    BY <1>1 DEF RunRecord
  <1>3. r \in RunRecord
    BY <1>1, <1>2 DEF RunRecord, Idle, Held
  <1>4. r.pc = "acknowledge" /\ r.batch = run[w].batch /\ r.ok = k
    BY DEF Idle
  <1>5. run' = [run EXCEPT ![w] = r]
    BY DEF End
  <1>6. Settles /\ "acknowledge" \in Held
    BY DEF Settles, Held
  <1> HIDE DEF r
  <1> QED
    BY <1>3, <1>4, <1>5, <1>6, HolderMoves

(* Steps that leave app, deployments and outbox alone.                     *)
LEMMA RowsStay ==
  ASSUME IInv, app' = app, dep' = dep, outbox' = outbox
  PROVE  (\A v \in Versions : RowFacts(v)') /\ AppFacts' /\ Settles
  <1>1. outbox' \in [Versions -> OutboxRecord] /\ \A v \in Versions : RecordMoves(v)
    BY TypeParts DEF IInv, RowTypes, RecordMoves
  <1> QED
    BY <1>1, OutboxMoves

(* failDeployment: the App falls back to what its current deployment says. *)
LEMMA FailRowMoves ==
  ASSUME IInv, NEW v \in Versions, Failable(v), dep[v].phase # "none", FailRow(v),
         outbox' = outbox
  PROVE  /\ app' \in AppRecord /\ dep' \in [Versions -> DepRecord]
         /\ \A u \in Versions : RowFacts(u)'
         /\ AppFacts' /\ Settles
  <1>0. app \in AppRecord /\ dep \in [Versions -> DepRecord]
    BY TypeParts DEF IInv, RowTypes
  <1> DEFINE failed == [dep EXCEPT ![v].phase = "failed"]
             status == StatusWithout(failed)
  <1>1. dep' = failed /\ app' = [app EXCEPT !.status = status]
    BY DEF FailRow
  <1>2. status \in {"failed", "ready", "preview"}
        /\ (status = "ready" => app.current # 0 /\ failed[app.current].phase = "ready")
    BY DEF StatusWithout
  <1>3. /\ app' \in AppRecord /\ app'.gen = app.gen /\ app'.current = app.current
        /\ app'.status = status
    BY <1>0, <1>1, <1>2 DEF AppRecord
  <1>4. /\ dep' \in [Versions -> DepRecord]
        /\ \A u \in Versions : RowFacts(u)'
        /\ \A u, x \in Versions :
             u # x /\ dep'[u].phase # "none" /\ dep'[x].phase # "none"
               => dep'[u].gen # dep'[x].gen
        /\ Settles
    <2>1. "failed" \in Phases /\ "failed" \notin Unstarted /\ "failed" \in Finalized
          /\ "failed" \notin Active
      BY DEF Phases, Finalized, Unstarted, Active
    <2> QED
      BY <1>1, <1>3, <2>1, PhaseMoves
  <1>5. app'.current # 0 => dep'[app'.current].phase \in Finalized
    <2>1. app'.current # 0 => app.current \in Versions
      BY <1>0, <1>3 DEF AppRecord, Versions
    <2> QED
      BY <1>3, <1>4, <2>1 DEF IInv, AppFacts, Settles
  <1>6. ReadyIsReady'
    BY <1>1, <1>2, <1>3 DEF ReadyIsReady
  <1> QED
    BY <1>3, <1>4, <1>5, <1>6 DEF AppFacts

(* A run that goes on with its next step.                                  *)
LEMMA GoesOn ==
  ASSUME IInv, NEW w \in Workers, run[w].pc \in Held \ {"acknowledge"},
         NEW r \in RunRecord, run' = [run EXCEPT ![w] = r],
         r.batch = run[w].batch, r.ok = run[w].ok, r.pc \in Held,
         r.pc = "settle" => dep'[V(w)].phase \in Finalized,
         r.pc = "fail_outbox" => dep'[V(w)].phase = "failed",
         r.pc = "create" => receipts' # {},
         r.pc = "complete" => live' = V(w),
         Settles, receipts \subseteq receipts', lease' = lease, stalls' = stalls
  PROVE  /\ run' \in [Workers -> RunRecord]
         /\ \A x \in Workers : RunFacts(x)'
         /\ LeaseNamed'
  <1>1. ~ run[w].ok
    BY DEF IInv, RunFacts
  <1> QED
    BY <1>1, HolderMoves

(* The same, when only the place changes.                                  *)
LEMMA PlaceMoves ==
  ASSUME IInv, NEW w \in Workers, run[w].pc \in Held \ {"acknowledge"},
         NEW p \in Held, run' = [run EXCEPT ![w].pc = p],
         p = "settle" => dep'[V(w)].phase \in Finalized,
         p = "fail_outbox" => dep'[V(w)].phase = "failed",
         p = "create" => receipts' # {},
         p = "complete" => live' = V(w),
         Settles, receipts \subseteq receipts', lease' = lease, stalls' = stalls
  PROVE  /\ run' \in [Workers -> RunRecord]
         /\ \A x \in Workers : RunFacts(x)'
         /\ LeaseNamed'
  <1> DEFINE r == [run[w] EXCEPT !.pc = p]
  <1>1. run[w] \in RunRecord
    BY DEF IInv, MoreTypes
  <1>2. /\ r \in RunRecord /\ r.pc = p /\ r.batch = run[w].batch /\ r.ok = run[w].ok
        /\ run' = [run EXCEPT ![w] = r]
    BY <1>1 DEF RunRecord
  <1> HIDE DEF r
  <1> QED
    BY <1>2, GoesOn

-----------------------------------------------------------------------------
(* The steps, one by one *)

LEMMA Initially == Init => IInv
  <1> SUFFICES ASSUME Init PROVE IInv
    OBVIOUS
  <1> USE AppsAssumption
  <1>1. RowTypes
    <2>1. app \in AppRecord
      BY DEF Init, AppRecord, Targets
    <2>2. dep \in [Versions -> DepRecord]
      BY DEF Init, NoRow, DepRecord, Targets, Phases
    <2>3. outbox \in [Versions -> OutboxRecord]
      BY DEF Init, NoOutbox, OutboxRecord
    <2>4. lease \in LeaseRecord /\ receipts \subseteq Versions
      BY DEF Init, NoLease, LeaseRecord
    <2> QED
      BY <2>1, <2>2, <2>3, <2>4 DEF RowTypes
  <1>2. LeaseNamed
    BY DEF LeaseNamed, Init, NoLease
  <1>3. MoreTypes
    <2>1. Idle \in RunRecord
      BY EmptySeq DEF RunRecord, Idle
    <2>2. run \in [Workers -> RunRecord]
      BY <2>1 DEF Init
    <2> HIDE DEF RunRecord
    <2> QED
      BY <2>2 DEF MoreTypes, Init
  <1>4. \A v \in Versions : RowFacts(v)
    BY DEF RowFacts, Init, NoRow, NoOutbox, Unstarted, Active
  <1>5. AppFacts
    BY DEF AppFacts, ReadyIsReady, Init, NoRow
  <1>6. \A w \in Workers : RunFacts(w)
    BY DEF RunFacts, Init, Idle, Held, Working
  <1>7. ReceiptFirst
    BY DEF ReceiptFirst, Init
  <1> QED
    BY <1>1, <1>2, <1>3, <1>4, <1>5, <1>6, <1>7, TypeParts DEF IInv

(* Begin and Rollback insert a deployment of the next generation.          *)
LEMMA InsertStep ==
  ASSUME IInv, NEW back \in 0..MaxDeployments, Insert(back)
  PROVE  IInv'
  <1>0. /\ app \in AppRecord /\ dep \in [Versions -> DepRecord] /\ MaxGeneration \in Nat
        /\ MoreTypes /\ RowTypes /\ LeaseNamed
    BY TypeParts, AppsAssumption DEF IInv, RowTypes
  <1>1. PICK v \in Versions :
          /\ dep[v].phase = "none" /\ app.gen < MaxGeneration
          /\ dep' = [dep EXCEPT ![v] = [phase |-> "awaiting_target", gen |-> app.gen + 1,
                                        target |-> "unassigned", back |-> back]]
          /\ app' = [app EXCEPT !.gen = @ + 1, !.status = "needs_action"]
          /\ UNCHANGED <<outbox, lease, receipts, preview, cloud, run, faults>>
    BY DEF Insert
  <1>2. UNCHANGED <<outbox, lease, receipts, preview, exists, live, run, crashes, stalls>>
    BY <1>1 DEF cloud, faults
  <1>3. app.gen \in Nat /\ app.gen + 1 \in 0..MaxGeneration
    BY <1>0, <1>1 DEF AppRecord
  <1>4. /\ app' \in AppRecord /\ app'.gen = app.gen + 1 /\ app'.current = app.current
        /\ app'.status = "needs_action"
    BY <1>0, <1>1, <1>3 DEF AppRecord
  <1>5. /\ dep' \in [Versions -> DepRecord]
        /\ dep'[v].phase = "awaiting_target" /\ dep'[v].gen = app.gen + 1
        /\ \A u \in Versions : u # v => dep'[u] = dep[u]
    BY <1>0, <1>1, <1>3 DEF DepRecord, Targets, Phases
  <1>6. \A u \in Versions : dep[u].gen \in Nat /\ dep[u].gen <= app.gen
    BY <1>0 DEF IInv, RowFacts, DepRecord
  <1>7. ASSUME NEW u \in Versions PROVE RowFacts(u)'
    <2>1. RowFacts(u) /\ RowFacts(v)
      BY DEF IInv
    <2>2. CASE u = v
      BY <1>1, <1>2, <1>3, <1>4, <1>5, <2>1, <2>2
         DEF RowFacts, Unstarted, Active
    <2>3. CASE u # v
      <3>1. dep'[u] = dep[u] /\ ~ Fresh(u)' /\ dep'[u].gen <= app'.gen
        BY <2>3, <1>3, <1>4, <1>5, <1>6 DEF Fresh
      <3> QED
        BY <1>2, <2>1, <3>1 DEF RowFacts
    <2> QED
      BY <2>2, <2>3
  <1>8. AppFacts'
    <2>1. \A u, x \in Versions :
            u # x /\ dep'[u].phase # "none" /\ dep'[x].phase # "none" => dep'[u].gen # dep'[x].gen
      BY <1>3, <1>5, <1>6 DEF IInv, AppFacts
    <2>2. app'.current # 0 => dep'[app'.current].phase \in Finalized
      <3>1. app.current # 0 => app.current \in Versions
        BY <1>0 DEF AppRecord, Versions
      <3>2. app.current # 0 => dep[app.current].phase # "none"
        BY DEF IInv, AppFacts, Finalized
      <3> QED
        BY <1>1, <1>4, <1>5, <3>1, <3>2 DEF IInv, AppFacts
    <2> QED
      BY <2>1, <2>2, <1>4 DEF AppFacts, ReadyIsReady
  <1>9. Settles
    BY <1>1, <1>5 DEF Settles, Unstarted, Finalized
  <1>10. \A w \in Workers : RunFacts(w)'
    BY <1>2, <1>9, RunsStay
  <1>11. RowTypes' /\ LeaseNamed' /\ MoreTypes' /\ ReceiptFirst'
    BY <1>0, <1>2, <1>4, <1>5 DEF RowTypes, LeaseNamed, MoreTypes, IInv, ReceiptFirst
  <1>12. TypeOK'
    BY <1>11, TypeParts
  <1> QED
    BY <1>7, <1>8, <1>10, <1>11, <1>12 DEF IInv

(* Archive and Restore move the App's generation on.                       *)
LEMMA GenerationStep ==
  ASSUME IInv, Archive \/ Restore
  PROVE  IInv'
  <1>0. app \in AppRecord /\ MaxGeneration \in Nat /\ MoreTypes /\ RowTypes /\ LeaseNamed
    BY TypeParts, AppsAssumption DEF IInv, RowTypes
  <1>1. UNCHANGED <<dep, outbox, lease, receipts, preview, exists, live, run, crashes, stalls>>
    BY DEF Archive, Restore, cloud, faults
  <1>2. /\ app' \in AppRecord /\ app'.gen = app.gen + 1 /\ app'.current = app.current
        /\ app'.status \in {"archived", "needs_action"} /\ app.gen \in Nat
    <2>1. PICK st \in {"archived", "needs_action"} :
            app' = [app EXCEPT !.status = st, !.gen = @ + 1, !.target = "unassigned"]
            /\ app.gen < MaxGeneration
      BY DEF Archive, Restore
    <2>2. app.gen + 1 \in 0..MaxGeneration /\ app.gen \in Nat
      BY <1>0, <2>1 DEF AppRecord
    <2> QED
      BY <1>0, <2>1, <2>2 DEF AppRecord, Targets
  <1>3. ASSUME NEW u \in Versions PROVE RowFacts(u)'
    <2>1. RowFacts(u) /\ dep[u].gen \in Nat
      BY <1>0 DEF IInv, RowTypes, DepRecord
    <2>2. dep'[u] = dep[u] /\ ~ Fresh(u)' /\ dep'[u].gen <= app'.gen
      BY <1>1, <1>2, <2>1 DEF Fresh, RowFacts
    <2> QED
      BY <1>1, <2>1, <2>2 DEF RowFacts
  <1>4. AppFacts' /\ Settles
    BY <1>1, <1>2 DEF IInv, AppFacts, ReadyIsReady, Settles
  <1>5. \A w \in Workers : RunFacts(w)'
    BY <1>1, <1>4, RunsStay
  <1>6. RowTypes' /\ LeaseNamed' /\ MoreTypes' /\ ReceiptFirst'
    BY <1>0, <1>1, <1>2 DEF RowTypes, LeaseNamed, MoreTypes, IInv, ReceiptFirst
  <1> QED
    BY <1>3, <1>4, <1>5, <1>6, TypeParts DEF IInv

LEMMA DeployThrowsStep ==
  ASSUME IInv, NEW v \in Versions, DeployThrows(v)
  PROVE  IInv'
  <1>0. MoreTypes /\ RowTypes /\ LeaseNamed
    BY TypeParts DEF IInv
  <1>1. UNCHANGED <<outbox, lease, receipts, preview, exists, live, run, stalls>>
        /\ crashes' = crashes + 1
    BY DEF DeployThrows, cloud
  <1>2. /\ app' \in AppRecord /\ dep' \in [Versions -> DepRecord]
        /\ \A u \in Versions : RowFacts(u)'
        /\ AppFacts' /\ Settles
    BY <1>1, FailRowMoves DEF DeployThrows
  <1>3. \A w \in Workers : RunFacts(w)'
    BY <1>1, <1>2, RunsStay
  <1>4. RowTypes' /\ LeaseNamed' /\ MoreTypes' /\ ReceiptFirst'
    BY <1>0, <1>1, <1>2 DEF RowTypes, LeaseNamed, MoreTypes, IInv, ReceiptFirst
  <1> QED
    BY <1>2, <1>3, <1>4, TypeParts DEF IInv

(* The record is there as soon as the deployment is queued.                *)
LEMMA SelectTargetStep ==
  ASSUME IInv, NEW v \in Versions, NEW kind \in {"temporary", "byoc"}, SelectTarget(v, kind)
  PROVE  IInv'
  <1>0. MoreTypes /\ RowTypes /\ LeaseNamed /\ RowFacts(v)
    BY TypeParts DEF IInv
  <1>1. UNCHANGED <<lease, receipts, preview, exists, live, run, crashes, stalls>>
        /\ dep[v].phase = "awaiting_target"
    BY DEF SelectTarget, cloud, faults
  <1>2. /\ app' \in AppRecord /\ app'.gen = app.gen /\ app'.current = app.current
        /\ app'.status = app.status
    BY <1>0 DEF SelectTarget, RowTypes, AppRecord, Targets
  <1>3. /\ dep' \in [Versions -> DepRecord] /\ dep'[v].phase = "queued"
        /\ \A u \in Versions : dep'[u].gen = dep[u].gen
        /\ \A u \in Versions : u # v => dep'[u] = dep[u]
    BY <1>0 DEF SelectTarget, RowTypes, DepRecord, Targets, Phases, Active
  <1>4. /\ outbox' \in [Versions -> OutboxRecord] /\ outbox'[v].state = "pending"
        /\ \A u \in Versions : u # v => outbox'[u] = outbox[u]
    <2>1. outbox' = [outbox EXCEPT ![v].state = "pending"]
      BY <1>0, <1>1 DEF SelectTarget, Enqueue, RowFacts, Unstarted
    <2> QED
      BY <1>0, <2>1 DEF RowTypes, OutboxRecord
  <1>5. ASSUME NEW u \in Versions PROVE RowFacts(u)'
    <2>1. RowFacts(u)
      BY DEF IInv
    <2>2. CASE u = v
      BY <1>2, <1>3, <1>4, <2>1, <2>2 DEF RowFacts, Unstarted
    <2>3. CASE u # v
      BY <1>2, <1>3, <1>4, <2>1, <2>3 DEF RowFacts, Fresh
    <2> QED
      BY <2>2, <2>3
  <1>6. AppFacts'
    <2>1. \A u, x \in Versions :
            u # x /\ dep'[u].phase # "none" /\ dep'[x].phase # "none" => dep'[u].gen # dep'[x].gen
      BY <1>1, <1>3 DEF IInv, AppFacts
    <2>2. app.current # 0 => app.current \in Versions /\ app.current # v
      BY <1>0, <1>1 DEF RowTypes, AppRecord, Versions, IInv, AppFacts, Finalized
    <2> QED
      BY <1>2, <1>3, <2>1, <2>2 DEF IInv, AppFacts, ReadyIsReady
  <1>7. Settles
    BY <1>1, <1>3 DEF Settles, Unstarted, Finalized
  <1>8. \A w \in Workers : RunFacts(w)'
    BY <1>1, <1>7, RunsStay
  <1>9. RowTypes' /\ LeaseNamed' /\ MoreTypes' /\ ReceiptFirst'
    BY <1>0, <1>1, <1>2, <1>3, <1>4 DEF RowTypes, LeaseNamed, MoreTypes, IInv, ReceiptFirst
  <1> QED
    BY <1>5, <1>6, <1>8, <1>9, TypeParts DEF IInv

LEMMA ExpirePreviewStep ==
  ASSUME IInv, ExpirePreview
  PROVE  IInv'
  <1>0. MoreTypes /\ RowTypes /\ LeaseNamed
    BY TypeParts DEF IInv
  <1>1. UNCHANGED <<outbox, lease, receipts, exists, live, run, stalls>>
        /\ crashes' = crashes + 1 /\ preview' = FALSE
    BY DEF ExpirePreview, cloud
  <1>2. /\ app' \in AppRecord /\ app'.gen = app.gen /\ app'.current = app.current
        /\ app'.status \in {app.status, "needs_action"}
    BY <1>0 DEF ExpirePreview, RowTypes, AppRecord, Targets
  <1>3. ASSUME NEW u \in Versions
        PROVE  /\ dep'[u] \in DepRecord /\ dep'[u].gen = dep[u].gen
               /\ \/ dep'[u] = dep[u]
                  \/ /\ dep'[u].phase = "expired"
                     /\ dep[u].phase \in Active \union {"temporary_ready"}
    <2>1. dep[u] \in DepRecord
      BY <1>0 DEF RowTypes
    <2>2. dep'[u] = IF dep[u].target = "temporary"
                       /\ dep[u].phase \in Active \union {"temporary_ready"}
                    THEN [dep[u] EXCEPT !.phase = "expired"] ELSE dep[u]
      BY DEF ExpirePreview
    <2> QED
      BY <2>1, <2>2 DEF DepRecord, Phases, Finalized
  <1>4. dep' \in [Versions -> DepRecord]
    BY <1>3 DEF ExpirePreview
  <1>5. ASSUME NEW u \in Versions PROVE RowFacts(u)'
    <2>1. RowFacts(u)
      BY DEF IInv
    <2> QED
      BY <1>1, <1>2, <1>3, <2>1 DEF RowFacts, Fresh, Unstarted, Finalized, Active
  <1>6. Settles
    BY <1>3 DEF Settles, Unstarted, Finalized, Active
  <1>7. AppFacts'
    <2>1. \A u, x \in Versions :
            u # x /\ dep'[u].phase # "none" /\ dep'[x].phase # "none" => dep'[u].gen # dep'[x].gen
      BY <1>3 DEF IInv, AppFacts, Active
    <2>2. app.current # 0 => app.current \in Versions
      BY <1>0 DEF RowTypes, AppRecord, Versions
    <2>3. app'.current # 0 => dep'[app'.current].phase \in Finalized
      BY <1>2, <1>6, <2>2 DEF IInv, AppFacts, Settles
    <2>4. ReadyIsReady'
      BY <1>2, <1>3, <2>2 DEF IInv, AppFacts, ReadyIsReady, Active
    <2> QED
      BY <2>1, <2>3, <2>4 DEF AppFacts
  <1>8. \A w \in Workers : RunFacts(w)'
    BY <1>1, <1>6, RunsStay
  <1>9. RowTypes' /\ LeaseNamed' /\ MoreTypes' /\ ReceiptFirst'
    BY <1>0, <1>1, <1>2, <1>4 DEF RowTypes, LeaseNamed, MoreTypes, IInv, ReceiptFirst
  <1> QED
    BY <1>5, <1>7, <1>8, <1>9, TypeParts DEF IInv

(* The clock takes a lease away: from the dead without a trace, from a     *)
(* runner with a stall.                                                    *)
LEMMA ExpireLeaseStep ==
  ASSUME IInv, ExpireDeadLease \/ ExpireHeldLease
  PROVE  IInv'
  <1>0. MoreTypes /\ RowTypes /\ stalls \in Nat
    BY TypeParts DEF IInv, MoreTypes
  <1>1. /\ UNCHANGED <<app, dep, outbox, receipts, preview, exists, live, run, crashes>>
        /\ lease' = NoLease
        /\ (stalls' = stalls /\ lease.token = Lost) \/ stalls' = stalls + 1
    BY DEF ExpireDeadLease, ExpireHeldLease, cloud, faults
  <1>2. (\A v \in Versions : RowFacts(v)') /\ AppFacts' /\ Settles
    BY <1>1, RowsStay
  <1>3. stalls' \in Nat /\ (stalls' = 0 => stalls = 0 /\ lease.token = Lost)
    BY <1>0, <1>1
  <1>4. \A w \in Workers : RunFacts(w)'
    BY <1>1, <1>2, <1>3, RunsStay
  <1>5. RowTypes' /\ LeaseNamed'
    BY <1>0, <1>1, AppsAssumption DEF RowTypes, LeaseNamed, NoLease, LeaseRecord
  <1>6. MoreTypes'
    BY <1>0, <1>1, <1>3 DEF MoreTypes
  <1>7. ReceiptFirst'
    BY <1>1 DEF IInv, ReceiptFirst
  <1> QED
    BY <1>2, <1>4, <1>5, <1>6, <1>7, TypeParts DEF IInv

LEMMA ExpireClaimStep ==
  ASSUME IInv, NEW v \in Versions, ExpireDeadClaim(v) \/ ExpireHeldClaim(v)
  PROVE  IInv'
  <1>0. MoreTypes /\ RowTypes /\ LeaseNamed
    BY TypeParts DEF IInv
  <1>1. /\ UNCHANGED <<app, dep, lease, receipts, preview, exists, live, run, stalls>>
        /\ crashes' = crashes \/ crashes' = crashes + 1
        /\ outbox' = [outbox EXCEPT ![v].live = FALSE]
    BY DEF ExpireDeadClaim, ExpireHeldClaim, cloud, faults
  <1>2. /\ outbox' \in [Versions -> OutboxRecord]
        /\ \A u \in Versions : u # v => outbox'[u] = outbox[u]
        /\ outbox'[v].state = outbox[v].state /\ outbox'[v].attempts = outbox[v].attempts
    BY <1>0, <1>1 DEF RowTypes, OutboxRecord
  <1>3. outbox[v].state = "leased"
    BY DEF ExpireDeadClaim, ExpireHeldClaim
  <1>4. \A u \in Versions : RecordMoves(u)
    BY <1>2, <1>3 DEF RecordMoves
  <1>5. (\A u \in Versions : RowFacts(u)') /\ AppFacts' /\ Settles
    BY <1>1, <1>2, <1>4, OutboxMoves
  <1>6. \A w \in Workers : RunFacts(w)'
    BY <1>1, <1>5, RunsStay
  <1>7. RowTypes' /\ LeaseNamed'
    BY <1>0, <1>1, <1>2 DEF RowTypes, LeaseNamed
  <1>8. MoreTypes' /\ ReceiptFirst'
    BY <1>0, <1>1 DEF MoreTypes, IInv, ReceiptFirst
  <1> QED
    BY <1>5, <1>6, <1>7, <1>8, TypeParts DEF IInv

(* The reads that open a run, a step that throws, a heartbeat that fails:  *)
(* only the worker's own place changes.                                    *)
LEMMA ReadStep ==
  ASSUME IInv, NEW w \in Workers, Read(w) \/ Fault(w) \/ HeartbeatFails(w)
  PROVE  IInv'
  <1>0. MoreTypes /\ RowTypes /\ run[w] \in RunRecord
    BY TypeParts DEF IInv, MoreTypes
  <1>1. /\ UNCHANGED <<app, dep, outbox, lease, receipts, preview, exists, live, crashes>>
        /\ stalls' = stalls \/ stalls' = stalls + 1
        /\ run[w].pc \in Working
    BY DEF Read, Fault, HeartbeatFails, rows, cloud, faults, Working
  <1>2. (\A v \in Versions : RowFacts(v)') /\ AppFacts' /\ Settles
    BY <1>1, RowsStay
  <1>3. stalls' \in Nat /\ (stalls' = 0 => stalls = 0)
    BY <1>0, <1>1 DEF MoreTypes
  <1>4. run[w].pc \in Held \ {"acknowledge"}
    BY <1>1 DEF Held, Working
  <1>5. /\ run' \in [Workers -> RunRecord]
        /\ \A x \in Workers : RunFacts(x)'
        /\ LeaseNamed'
    <2>1. CASE run' = Throw(w)
      BY <1>1, <1>3, <2>1, ThrowMoves
    <2>2. CASE run' = End(w, FALSE)
      BY <1>1, <1>3, <1>4, <2>2, EndMoves
    <2>3. CASE run' = End(w, TRUE) /\ dep[V(w)].phase \in Finalized
      BY <1>1, <1>3, <1>4, <2>3, EndMoves
    <2>4. ASSUME NEW p \in {"provision", "plan", "mark"}, run' = [run EXCEPT ![w].pc = p],
                 stalls' = stalls
          PROVE  /\ run' \in [Workers -> RunRecord]
                 /\ \A x \in Workers : RunFacts(x)'
                 /\ LeaseNamed'
      <3>1. p \in Held /\ p \notin {"settle", "fail_outbox", "create", "complete"}
        BY DEF Held, Working
      <3> QED
        BY <1>1, <1>2, <1>4, <2>4, <3>1, PlaceMoves
    <2>5. \/ run' = Throw(w) \/ run' = End(w, FALSE)
          \/ run' = End(w, TRUE) /\ dep[V(w)].phase \in Finalized
          \/ \E p \in {"provision", "plan", "mark"} :
               run' = [run EXCEPT ![w].pc = p] /\ stalls' = stalls
      <3>1. CASE Read(w)
        BY <3>1 DEF Read, LoseLease, Prepare, faults
      <3>2. CASE Fault(w) \/ HeartbeatFails(w)
        BY <3>2 DEF Fault, HeartbeatFails, LoseLease
      <3> QED
        BY <3>1, <3>2
    <2> QED
      BY <2>1, <2>2, <2>3, <2>4, <2>5
  <1>6. RowTypes' /\ ReceiptFirst'
    BY <1>0, <1>1 DEF RowTypes, IInv, ReceiptFirst
  <1>7. MoreTypes'
    BY <1>0, <1>1, <1>3, <1>5 DEF MoreTypes
  <1> QED
    BY <1>2, <1>5, <1>6, <1>7, TypeParts DEF IInv

LEMMA ProvisionStep ==
  ASSUME IInv, NEW w \in Workers, Provision(w)
  PROVE  IInv'
  <1>0. MoreTypes /\ RowTypes /\ run[w] \in RunRecord /\ RunFacts(w)
    BY TypeParts DEF IInv, MoreTypes
  <1>1. /\ UNCHANGED <<app, outbox, lease, receipts, preview, exists, live, crashes, stalls>>
        /\ run[w].pc = "provision"
    BY DEF Provision, cloud, faults
  <1>2. run[w].pc \in Working /\ run[w].pc \in Held \ {"acknowledge"}
    BY <1>1 DEF Held, Working
  <1>3. V(w) \in Versions
    BY <1>0, <1>1, VersionOfRun
  <1>4. /\ run' \in [Workers -> RunRecord]
        /\ \A x \in Workers : RunFacts(x)'
        /\ LeaseNamed'
        /\ dep' \in [Versions -> DepRecord]
        /\ (\A v \in Versions : RowFacts(v)') /\ AppFacts'
    <2>1. CASE dep[V(w)].phase = "queued" /\ ActiveLease(w, V(w))
      <3>1. dep' = [dep EXCEPT ![V(w)].phase = "provisioning"]
            /\ run' = [run EXCEPT ![w].pc = Prepare(V(w))]
        BY <2>1 DEF Provision
      <3>2. "provisioning" \in Phases /\ "provisioning" \notin Unstarted
            /\ dep[V(w)].phase \in Active /\ dep[V(w)].phase # "none"
            /\ dep[V(w)].phase \notin Finalized /\ dep[V(w)].phase # "failed"
        BY <2>1 DEF Phases, Unstarted, Active, Finalized
      <3>3. /\ dep' \in [Versions -> DepRecord]
            /\ \A u \in Versions : RowFacts(u)'
            /\ \A u, x \in Versions :
                 u # x /\ dep'[u].phase # "none" /\ dep'[x].phase # "none"
                   => dep'[u].gen # dep'[x].gen
            /\ Settles
        BY <1>1, <1>3, <3>1, <3>2, PhaseMoves
      <3>4. AppFacts'
        <4>1. app.current # 0 => app.current \in Versions /\ app.current # V(w)
          BY <1>0, <2>1 DEF RowTypes, AppRecord, Versions, IInv, AppFacts, Finalized
        <4>2. app.current # 0 => dep'[app.current] = dep[app.current]
          BY <1>0, <3>1, <4>1 DEF RowTypes
        <4> QED
          BY <1>1, <3>3, <4>2 DEF IInv, AppFacts, ReadyIsReady
      <3>5. Prepare(V(w)) \in Held
            /\ Prepare(V(w)) \notin {"settle", "fail_outbox", "create", "complete"}
        BY DEF Prepare, Held, Working
      <3>6. PICK p : p = Prepare(V(w))
        OBVIOUS
      <3> QED
        BY <1>1, <1>2, <3>1, <3>3, <3>4, <3>5, <3>6, PlaceMoves
    <2>2. CASE ~ (dep[V(w)].phase = "queued" /\ ActiveLease(w, V(w)))
      <3>1. run' = Throw(w) /\ dep' = dep
        BY <2>2 DEF Provision
      <3> QED
        BY <1>0, <1>1, <1>2, <3>1, ThrowMoves, RowsStay DEF RowTypes
    <2> QED
      BY <2>1, <2>2
  <1>5. RowTypes' /\ ReceiptFirst' /\ MoreTypes'
    BY <1>0, <1>1, <1>4 DEF RowTypes, IInv, ReceiptFirst, MoreTypes
  <1> QED
    BY <1>4, <1>5, TypeParts DEF IInv

(* The receipt is in the table before the worker may create the resource.  *)
LEMMA PlanResourceStep ==
  ASSUME IInv, NEW w \in Workers, PlanResource(w)
  PROVE  IInv'
  <1>0. MoreTypes /\ RowTypes /\ run[w] \in RunRecord /\ RunFacts(w)
    BY TypeParts DEF IInv, MoreTypes
  <1>1. /\ UNCHANGED <<app, dep, outbox, lease, preview, exists, live, crashes, stalls>>
        /\ run[w].pc = "plan"
    BY DEF PlanResource, cloud, faults
  <1>2. run[w].pc \in Working /\ run[w].pc \in Held \ {"acknowledge"}
    BY <1>1 DEF Held, Working
  <1>3. V(w) \in Versions
    BY <1>0, <1>1, VersionOfRun
  <1>4. (\A v \in Versions : RowFacts(v)') /\ AppFacts' /\ Settles
    BY <1>1, RowsStay
  <1>5. /\ run' \in [Workers -> RunRecord]
        /\ \A x \in Workers : RunFacts(x)'
        /\ LeaseNamed'
        /\ receipts \subseteq receipts' /\ receipts' \subseteq Versions
    <2>1. CASE MayRecord(w, V(w))
      <3> DEFINE r == [run[w] EXCEPT !.pc = "create", !.known = Known(V(w))]
      <3>1. receipts' = receipts \union {V(w)} /\ run' = [run EXCEPT ![w] = r]
        BY <2>1 DEF PlanResource
      <3>2. Known(V(w)) \in BOOLEAN /\ "create" \in Held
        BY DEF Known, Held, Working
      <3>3. r \in RunRecord /\ r.pc = "create" /\ r.batch = run[w].batch /\ r.ok = run[w].ok
        BY <1>0, <3>2 DEF RunRecord
      <3>4. receipts' # {} /\ receipts \subseteq receipts' /\ receipts' \subseteq Versions
        BY <1>0, <1>3, <3>1 DEF RowTypes
      <3> HIDE DEF r
      <3> QED
        BY <1>1, <1>2, <1>4, <3>1, <3>2, <3>3, <3>4, GoesOn
    <2>2. CASE ~ MayRecord(w, V(w))
      <3>1. run' = Throw(w) /\ receipts' = receipts
        BY <2>2 DEF PlanResource
      <3> QED
        BY <1>0, <1>1, <1>2, <3>1, ThrowMoves DEF RowTypes
    <2> QED
      BY <2>1, <2>2
  <1>6. RowTypes' /\ MoreTypes'
    BY <1>0, <1>1, <1>5 DEF RowTypes, MoreTypes
  <1>7. ReceiptFirst'
    BY <1>1, <1>5 DEF IInv, ReceiptFirst
  <1> QED
    BY <1>4, <1>5, <1>6, <1>7, TypeParts DEF IInv

LEMMA CreateResourceStep ==
  ASSUME IInv, NEW w \in Workers, CreateResource(w)
  PROVE  IInv'
  <1>0. MoreTypes /\ RowTypes /\ run[w] \in RunRecord /\ RunFacts(w)
    BY TypeParts DEF IInv, MoreTypes
  <1>1. /\ UNCHANGED <<app, dep, outbox, lease, receipts, preview, live, crashes, stalls>>
        /\ run[w].pc = "create"
    BY DEF CreateResource, rows, faults
  <1>2. run[w].pc \in Working /\ run[w].pc \in Held \ {"acknowledge"}
    BY <1>1 DEF Held, Working
  <1>3. (\A v \in Versions : RowFacts(v)') /\ AppFacts' /\ Settles
    BY <1>1, RowsStay
  <1>4. /\ run' \in [Workers -> RunRecord]
        /\ \A x \in Workers : RunFacts(x)'
        /\ LeaseNamed'
    <2>1. CASE ~ (exists /\ ~ run[w].known)
      <3> DEFINE r == [run[w] EXCEPT !.pc = "mark", !.known = FALSE]
      <3>1. run' = [run EXCEPT ![w] = r]
        BY <2>1 DEF CreateResource
      <3>2. r \in RunRecord /\ r.pc = "mark" /\ r.batch = run[w].batch /\ r.ok = run[w].ok
        BY <1>0 DEF RunRecord, Held, Working
      <3>3. "mark" \in Held
        BY DEF Held, Working
      <3> HIDE DEF r
      <3> QED
        BY <1>1, <1>2, <1>3, <3>1, <3>2, <3>3, GoesOn
    <2>2. CASE exists /\ ~ run[w].known
      <3>1. run' = Throw(w)
        BY <2>2 DEF CreateResource
      <3> QED
        BY <1>1, <1>2, <3>1, ThrowMoves
    <2> QED
      BY <2>1, <2>2
  <1>5. RowTypes' /\ MoreTypes'
    BY <1>0, <1>1, <1>4 DEF RowTypes, MoreTypes
  <1>6. ReceiptFirst'
    BY <1>0, <1>1 DEF RunFacts, ReceiptFirst
  <1> QED
    BY <1>3, <1>4, <1>5, <1>6, TypeParts DEF IInv

LEMMA MarkDeployingStep ==
  ASSUME IInv, NEW w \in Workers, MarkDeploying(w)
  PROVE  IInv'
  <1>0. MoreTypes /\ RowTypes /\ run[w] \in RunRecord /\ RunFacts(w)
    BY TypeParts DEF IInv, MoreTypes
  <1>1. /\ UNCHANGED <<outbox, lease, receipts, preview, exists, live, crashes, stalls>>
        /\ run[w].pc = "mark"
    BY DEF MarkDeploying, cloud, faults
  <1>2. run[w].pc \in Working /\ run[w].pc \in Held \ {"acknowledge"}
    BY <1>1 DEF Held, Working
  <1>3. V(w) \in Versions
    BY <1>0, <1>1, VersionOfRun
  <1>4. /\ run' \in [Workers -> RunRecord]
        /\ \A x \in Workers : RunFacts(x)'
        /\ LeaseNamed'
        /\ dep' \in [Versions -> DepRecord] /\ app' \in AppRecord
        /\ (\A v \in Versions : RowFacts(v)') /\ AppFacts'
    <2>1. CASE Renewable(w, V(w)) /\ dep[V(w)].phase \in Active
      <3> DEFINE r == [run[w] EXCEPT !.pc = "upload", !.op = TRUE]
      <3>1. /\ dep' = [dep EXCEPT ![V(w)].phase = "deploying"]
            /\ app' = [app EXCEPT !.status = "deploying"]
            /\ run' = [run EXCEPT ![w] = r]
        BY <2>1 DEF MarkDeploying
      <3>2. "deploying" \in Phases /\ "deploying" \notin Unstarted
            /\ dep[V(w)].phase # "none"
            /\ dep[V(w)].phase \notin Finalized /\ dep[V(w)].phase # "failed"
        BY <2>1 DEF Phases, Unstarted, Active, Finalized
      <3>3. /\ app' \in AppRecord /\ app'.gen = app.gen /\ app'.current = app.current
            /\ app'.status = "deploying"
        BY <1>0, <3>1 DEF RowTypes, AppRecord
      <3>4. /\ dep' \in [Versions -> DepRecord]
            /\ \A u \in Versions : RowFacts(u)'
            /\ \A u, x \in Versions :
                 u # x /\ dep'[u].phase # "none" /\ dep'[x].phase # "none"
                   => dep'[u].gen # dep'[x].gen
            /\ Settles
        BY <1>1, <1>3, <2>1, <3>1, <3>2, <3>3, PhaseMoves
      <3>5. AppFacts'
        <4>1. app.current # 0 => app.current \in Versions
          BY <1>0 DEF RowTypes, AppRecord, Versions
        <4> QED
          BY <3>3, <3>4, <4>1 DEF IInv, AppFacts, ReadyIsReady, Settles
      <3>6. r \in RunRecord /\ r.pc = "upload" /\ r.batch = run[w].batch /\ r.ok = run[w].ok
        BY <1>0 DEF RunRecord, Held, Working
      <3>7. "upload" \in Held
        BY DEF Held, Working
      <3> HIDE DEF r
      <3> QED
        BY <1>1, <1>2, <3>1, <3>3, <3>4, <3>5, <3>6, <3>7, GoesOn
    <2>2. CASE ~ (Renewable(w, V(w)) /\ dep[V(w)].phase \in Active)
      <3>1. (run' = Throw(w) \/ run' = End(w, FALSE)) /\ dep' = dep /\ app' = app
        BY <2>2 DEF MarkDeploying, LoseLease
      <3>2. (\A v \in Versions : RowFacts(v)') /\ AppFacts'
        BY <1>1, <3>1, RowsStay
      <3> QED
        BY <1>0, <1>1, <1>2, <3>1, <3>2, ThrowMoves, EndMoves DEF RowTypes
    <2> QED
      BY <2>1, <2>2
  <1>5. RowTypes' /\ ReceiptFirst' /\ MoreTypes'
    BY <1>0, <1>1, <1>4 DEF RowTypes, IInv, ReceiptFirst, MoreTypes
  <1> QED
    BY <1>4, <1>5, TypeParts DEF IInv

LEMMA UploadStep ==
  ASSUME IInv, NEW w \in Workers, Upload(w)
  PROVE  IInv'
  <1>0. MoreTypes /\ RowTypes
    BY TypeParts DEF IInv
  <1>1. /\ UNCHANGED <<app, dep, outbox, lease, receipts, preview, exists, crashes, stalls>>
        /\ run[w].pc = "upload" /\ run' = [run EXCEPT ![w].pc = "complete"] /\ live' = V(w)
    BY DEF Upload, rows, faults
  <1>2. run[w].pc \in Held \ {"acknowledge"} /\ "complete" \in Held
    BY <1>1 DEF Held, Working
  <1>3. (\A v \in Versions : RowFacts(v)') /\ AppFacts' /\ Settles
    BY <1>1, RowsStay
  <1>4. /\ run' \in [Workers -> RunRecord]
        /\ \A x \in Workers : RunFacts(x)'
        /\ LeaseNamed'
    BY <1>1, <1>2, <1>3, PlaceMoves
  <1>5. RowTypes' /\ ReceiptFirst' /\ MoreTypes'
    BY <1>0, <1>1, <1>4 DEF RowTypes, IInv, ReceiptFirst, MoreTypes
  <1> QED
    BY <1>3, <1>4, <1>5, TypeParts DEF IInv

LEMMA CompleteStep ==
  ASSUME IInv, NEW w \in Workers, Complete(w)
  PROVE  IInv'
  <1>0. MoreTypes /\ RowTypes /\ run[w] \in RunRecord /\ RunFacts(w)
    BY TypeParts DEF IInv, MoreTypes
  <1>1. /\ UNCHANGED <<outbox, lease, receipts, preview, exists, live, crashes, stalls>>
        /\ run[w].pc = "complete"
    BY DEF Complete, cloud, faults
  <1>2. run[w].pc \in Working /\ run[w].pc \in Held \ {"acknowledge"}
    BY <1>1 DEF Held, Working
  <1>3. V(w) \in Versions
    BY <1>0, <1>1, VersionOfRun
  <1>4. /\ run' \in [Workers -> RunRecord]
        /\ \A x \in Workers : RunFacts(x)'
        /\ LeaseNamed'
        /\ dep' \in [Versions -> DepRecord] /\ app' \in AppRecord
        /\ (\A v \in Versions : RowFacts(v)') /\ AppFacts'
    <2>1. CASE Completable(w, V(w))
      <3>1. PICK p \in {"temporary_ready", "ready"}, st \in {"preview", "ready"} :
              /\ dep' = [dep EXCEPT ![V(w)].phase = p]
              /\ app' = [app EXCEPT !.status = st, !.current = V(w)]
              /\ st = "ready" => p = "ready"
              /\ run' = [run EXCEPT ![w].pc = "settle"]
        BY <2>1 DEF Complete
      <3>2. p \in Phases /\ p \notin Unstarted /\ p \in Finalized /\ p \notin Active
            /\ dep[V(w)].phase = "deploying"
        BY <2>1 DEF Phases, Unstarted, Active, Finalized, Completable
      <3>3. /\ app' \in AppRecord /\ app'.gen = app.gen /\ app'.current = V(w)
            /\ app'.status = st
        <4>1. V(w) \in 0..MaxDeployments
          BY <1>3, AppsAssumption DEF Versions
        <4> QED
          BY <1>0, <3>1, <4>1 DEF RowTypes, AppRecord
      <3>4. /\ dep' \in [Versions -> DepRecord]
            /\ \A u \in Versions : RowFacts(u)'
            /\ \A u, x \in Versions :
                 u # x /\ dep'[u].phase # "none" /\ dep'[x].phase # "none"
                   => dep'[u].gen # dep'[x].gen
            /\ Settles
        BY <1>1, <1>3, <3>1, <3>2, <3>3, PhaseMoves
      <3>5. dep'[V(w)].phase = p
        BY <1>0, <1>3, <3>1 DEF RowTypes, DepRecord
      <3>6. V(w) # 0
        BY <1>3 DEF Versions
      <3>7. AppFacts'
        BY <3>1, <3>2, <3>3, <3>4, <3>5, <3>6 DEF AppFacts, ReadyIsReady
      <3>8. "settle" \in Held
        BY DEF Held, Working
      <3>9. /\ run' \in [Workers -> RunRecord]
            /\ \A x \in Workers : RunFacts(x)'
            /\ LeaseNamed'
        <4>1. /\ run' = [run EXCEPT ![w].pc = "settle"] /\ dep'[V(w)].phase \in Finalized
              /\ receipts \subseteq receipts' /\ lease' = lease /\ stalls' = stalls /\ Settles
          BY <1>1, <3>1, <3>2, <3>4, <3>5
        <4> QED
          BY <1>2, <3>8, <4>1, PlaceMoves
      <3> QED
        BY <3>3, <3>4, <3>7, <3>9
    <2>2. CASE ~ Completable(w, V(w))
      <3>1. (run' = Throw(w) \/ run' = End(w, FALSE)) /\ dep' = dep /\ app' = app
        BY <2>2 DEF Complete, LoseLease
      <3>2. (\A v \in Versions : RowFacts(v)') /\ AppFacts'
        BY <1>1, <3>1, RowsStay
      <3> QED
        BY <1>0, <1>1, <1>2, <3>1, <3>2, ThrowMoves, EndMoves DEF RowTypes
    <2> QED
      BY <2>1, <2>2
  <1>5. RowTypes' /\ ReceiptFirst' /\ MoreTypes'
    BY <1>0, <1>1, <1>4 DEF RowTypes, IInv, ReceiptFirst, MoreTypes
  <1> QED
    BY <1>4, <1>5, TypeParts DEF IInv

LEMMA FailDeploymentStep ==
  ASSUME IInv, NEW w \in Workers, FailDeployment(w)
  PROVE  IInv'
  <1>0. MoreTypes /\ RowTypes /\ RunFacts(w)
    BY TypeParts DEF IInv
  <1>1. /\ UNCHANGED <<outbox, lease, receipts, preview, exists, live, stalls>>
        /\ crashes' = crashes \/ crashes' = crashes + 1
        /\ run[w].pc = "failing"
    BY DEF FailDeployment, cloud, faults
  <1>2. run[w].pc \in Held \ {"acknowledge"} /\ "fail_outbox" \in Held
    BY <1>1 DEF Held
  <1>3. V(w) \in Versions /\ dep[V(w)].phase # "none"
    BY <1>0, <1>1, VersionOfRun DEF Unstarted
  <1>4. /\ run' \in [Workers -> RunRecord]
        /\ \A x \in Workers : RunFacts(x)'
        /\ LeaseNamed'
        /\ dep' \in [Versions -> DepRecord] /\ app' \in AppRecord
        /\ (\A v \in Versions : RowFacts(v)') /\ AppFacts'
    <2>1. CASE Failable(V(w)) /\ FailRow(V(w)) /\ run' = [run EXCEPT ![w].pc = "fail_outbox"]
      <3>1. /\ app' \in AppRecord /\ dep' \in [Versions -> DepRecord]
            /\ \A u \in Versions : RowFacts(u)'
            /\ AppFacts' /\ Settles
        BY <1>1, <1>3, <2>1, FailRowMoves
      <3>2. dep'[V(w)].phase = "failed"
        BY <1>0, <1>3, <2>1 DEF FailRow, RowTypes, DepRecord
      <3> QED
        BY <1>1, <1>2, <2>1, <3>1, <3>2, PlaceMoves
    <2>2. CASE ~ (Failable(V(w)) /\ FailRow(V(w)) /\ run' = [run EXCEPT ![w].pc = "fail_outbox"])
      <3>0. UNCHANGED <<app, dep>>
        BY <2>2 DEF FailDeployment
      <3>1. (\A v \in Versions : RowFacts(v)') /\ AppFacts' /\ Settles
        BY <1>1, <3>0, RowsStay
      <3>2. \/ run' = [run EXCEPT ![w].pc = "fail_outbox"] /\ dep'[V(w)].phase = "failed"
            \/ run' = End(w, FALSE)
        BY <2>2, <3>0 DEF FailDeployment
      <3>3. CASE run' = [run EXCEPT ![w].pc = "fail_outbox"] /\ dep'[V(w)].phase = "failed"
        BY <1>0, <1>1, <1>2, <3>0, <3>1, <3>3, PlaceMoves DEF RowTypes
      <3>4. CASE run' = End(w, FALSE)
        BY <1>0, <1>1, <1>2, <3>0, <3>1, <3>4, EndMoves DEF RowTypes
      <3> QED
        BY <3>2, <3>3, <3>4
    <2> QED
      BY <2>1, <2>2
  <1>5. RowTypes' /\ ReceiptFirst' /\ MoreTypes'
    BY <1>0, <1>1, <1>4 DEF RowTypes, IInv, ReceiptFirst, MoreTypes
  <1> QED
    BY <1>4, <1>5, TypeParts DEF IInv

(* The run settles its own record; a deployment that is active again is    *)
(* never closed with it.                                                   *)
LEMMA SettleStep ==
  ASSUME IInv, NEW w \in Workers, CompleteByKey(w) \/ FailOutbox(w)
  PROVE  IInv'
  <1>0. MoreTypes /\ RowTypes /\ RunFacts(w)
    BY TypeParts DEF IInv
  <1>1. /\ UNCHANGED <<app, dep, lease, receipts, preview, exists, live, crashes, stalls>>
        /\ run[w].pc \in {"settle", "fail_outbox"}
    BY DEF CompleteByKey, FailOutbox, cloud, faults
  <1>2. run[w].pc \in Held
    BY <1>1 DEF Held, Working
  <1>3. V(w) \in Versions
    BY <1>0, <1>1, VersionOfRun
  <1>4. PICK k \in BOOLEAN, st \in {"completed", "failed"} :
          /\ run' = End(w, k) /\ (k => dep[V(w)].phase \in Finalized)
          /\ st = "completed" => dep[V(w)].phase \in Finalized
          /\ st = "failed" => dep[V(w)].phase = "failed"
          /\ outbox' = outbox \/ /\ outbox' = [outbox EXCEPT ![V(w)] = Closed(@, st)]
                                 /\ outbox[V(w)].state \in {"pending", "leased"}
    <2>1. CASE CompleteByKey(w)
      BY <1>0, <2>1 DEF CompleteByKey, RunFacts
    <2>2. CASE FailOutbox(w)
      BY <1>0, <2>2 DEF FailOutbox, RunFacts
    <2> QED
      BY <2>1, <2>2
  <1>5. /\ outbox' \in [Versions -> OutboxRecord]
        /\ \A v \in Versions : RecordMoves(v)
    <2>1. CASE outbox' = outbox
      BY <1>0, <2>1 DEF RowTypes, RecordMoves
    <2>2. CASE outbox' # outbox
      <3> DEFINE row == [outbox[V(w)] EXCEPT !.state = st, !.owner = Lost, !.live = FALSE]
      <3>1. outbox' = [outbox EXCEPT ![V(w)] = row] /\ outbox[V(w)].state \in {"pending", "leased"}
        BY <1>4, <2>2 DEF Closed
      <3>2. row \in OutboxRecord /\ row.state = st
        BY <1>0, <1>3 DEF RowTypes, OutboxRecord
      <3>3. "failed" \notin Active
        BY DEF Active
      <3> HIDE DEF row
      <3>4. outbox' \in [Versions -> OutboxRecord]
        BY <1>0, <3>1, <3>2 DEF RowTypes
      <3>5. ASSUME NEW v \in Versions PROVE RecordMoves(v)
        <4>1. CASE v = V(w)
          BY <1>0, <1>4, <3>1, <3>2, <3>3, <4>1 DEF RowTypes, RecordMoves
        <4>2. CASE v # V(w)
          BY <1>0, <3>1, <4>2 DEF RowTypes, RecordMoves
        <4> QED
          BY <4>1, <4>2
      <3> QED
        BY <3>4, <3>5
    <2> QED
      BY <2>1, <2>2
  <1>6. (\A v \in Versions : RowFacts(v)') /\ AppFacts'
    BY <1>1, <1>5, OutboxMoves
  <1>7. /\ run' \in [Workers -> RunRecord]
        /\ \A x \in Workers : RunFacts(x)'
        /\ LeaseNamed'
    BY <1>1, <1>2, <1>4, EndMoves
  <1>8. RowTypes' /\ ReceiptFirst' /\ MoreTypes'
    BY <1>0, <1>1, <1>5, <1>7 DEF RowTypes, IInv, ReceiptFirst, MoreTypes
  <1> QED
    BY <1>6, <1>7, <1>8, TypeParts DEF IInv

-----------------------------------------------------------------------------
(* The outbox worker between its runs *)

(* One record is settled or handed back.                                   *)
LEMMA RecordSettles ==
  ASSUME IInv, NEW v \in Versions, NEW row \in OutboxRecord,
         outbox' = [outbox EXCEPT ![v] = row],
         outbox[v].state \in {"pending", "leased"}, row.state # "none",
         row.state = "completed" => dep[v].phase \in Finalized,
         row.state = "failed" => row.attempts >= MaxAttempts \/ dep[v].phase \notin Active \/ ~Fresh(v)
  PROVE  outbox' \in [Versions -> OutboxRecord] /\ \A u \in Versions : RecordMoves(u)
  <1>1. outbox \in [Versions -> OutboxRecord]
    BY TypeParts DEF IInv, RowTypes
  <1>2. outbox' \in [Versions -> OutboxRecord] /\ outbox'[v] = row
    BY <1>1
  <1>3. RecordMoves(v)
    BY <1>2 DEF RecordMoves
  <1>4. \A u \in Versions : u # v => outbox'[u] = outbox[u]
    BY <1>1
  <1>5. \A u \in Versions : u # v => RecordMoves(u)
    BY <1>4 DEF RecordMoves
  <1> QED
    BY <1>2, <1>3, <1>5

(* retryOutbox gives a record up only when its attempts are used up.       *)
LEMMA RetriedRow ==
  ASSUME NEW row \in OutboxRecord
  PROVE  /\ Retried(row) \in OutboxRecord
         /\ Retried(row).state \in {"pending", "failed"}
         /\ Retried(row).state = "failed" => Retried(row).attempts >= MaxAttempts
  BY DEF Retried, OutboxRecord

LEMMA RetryMoves ==
  ASSUME IInv, NEW w \in Workers, run[w].pc # "idle", Retry(w)
  PROVE  outbox' \in [Versions -> OutboxRecord] /\ \A u \in Versions : RecordMoves(u)
  <1>0. RowTypes /\ MoreTypes /\ RunFacts(w)
    BY TypeParts DEF IInv
  <1>1. V(w) \in Versions
    BY <1>0, VersionOfRun
  <1>2. CASE Owned(w, V(w))
    <2>1. outbox' = [outbox EXCEPT ![V(w)] = Retried(outbox[V(w)])]
      BY <1>2 DEF Retry
    <2>2. outbox[V(w)] \in OutboxRecord /\ outbox[V(w)].state = "leased"
      BY <1>0, <1>1, <1>2 DEF RowTypes, Owned
    <2>3. PICK row : row = Retried(outbox[V(w)])
      OBVIOUS
    <2>4. /\ row \in OutboxRecord /\ row.state \in {"pending", "failed"}
          /\ row.state = "failed" => row.attempts >= MaxAttempts
      BY <2>2, <2>3, RetriedRow
    <2> QED
      BY <1>1, <2>1, <2>2, <2>3, <2>4, RecordSettles
  <1>3. CASE ~ Owned(w, V(w))
    BY <1>0, <1>3 DEF Retry, RowTypes, RecordMoves
  <1> QED
    BY <1>2, <1>3

(* What is left of a batch is a batch.                                     *)
LEMMA NextRecord ==
  ASSUME IInv, NEW w \in Workers, run[w].pc # "idle"
  PROVE  /\ AfterRecord(w) \in RunRecord /\ ~ AfterRecord(w).ok
         /\ AfterRecord(w).pc \in {"idle", "next"}
         /\ AfterRecord(w).pc # "idle" => AfterRecord(w).batch # <<>>
         /\ \A i \in DOMAIN AfterRecord(w).batch :
              dep[AfterRecord(w).batch[i]].phase \notin Unstarted
  <1>0. /\ run[w].batch \in Seq(Versions) /\ run[w].batch # <<>>
        /\ \A i \in DOMAIN run[w].batch : dep[run[w].batch[i]].phase \notin Unstarted
    BY DEF IInv, MoreTypes, RunRecord, RunFacts
  <1>1. CASE Len(run[w].batch) = 1
    <2>1. AfterRecord(w) = Idle
      BY <1>1 DEF AfterRecord
    <2>2. Idle \in RunRecord /\ Idle.pc = "idle" /\ Idle.batch = <<>> /\ Idle.ok = FALSE
      BY EmptySeq DEF Idle, RunRecord
    <2> QED
      BY <2>1, <2>2
  <1>2. CASE Len(run[w].batch) # 1
    <2> DEFINE b == Tail(run[w].batch)
               r == [Idle EXCEPT !.pc = "next", !.batch = b]
    <2>1. AfterRecord(w) = r
      BY <1>2 DEF AfterRecord
    <2>2. /\ b \in Seq(Versions) /\ Len(b) = Len(run[w].batch) - 1
          /\ \A i \in 1 .. Len(b) : b[i] = run[w].batch[i + 1]
      BY <1>0, HeadTailProperties
    <2>3. Len(run[w].batch) \in Nat /\ Len(run[w].batch) # 0
      BY <1>0, EmptySeq
    <2>4. b # <<>>
      <3>1. Len(b) # 0
        BY <1>2, <2>2, <2>3
      <3> QED
        BY <3>1, EmptySeq
    <2>5. \A i \in DOMAIN b : dep[b[i]].phase \notin Unstarted
      <3> SUFFICES ASSUME NEW i \in DOMAIN b PROVE dep[b[i]].phase \notin Unstarted
        OBVIOUS
      <3>1. i \in 1 .. Len(b)
        BY <2>2, LenProperties
      <3>2. i + 1 \in DOMAIN run[w].batch
        BY <1>0, <2>2, <2>3, <3>1, LenProperties
      <3>3. b[i] = run[w].batch[i + 1]
        BY <2>2, <3>1
      <3> QED
        BY <1>0, <3>2, <3>3
    <2> HIDE DEF b
    <2>6. r \in RunRecord /\ r.pc = "next" /\ r.batch = b /\ r.ok = FALSE
      BY <2>2 DEF RunRecord, Idle
    <2> QED
      BY <2>1, <2>4, <2>5, <2>6
  <1> QED
    BY <1>1, <1>2

(* A worker is between two runs, or idle, and holds no lease any more.     *)
LEMMA Leaves ==
  ASSUME IInv, NEW w \in Workers, NEW r \in RunRecord, run' = [run EXCEPT ![w] = r],
         r.pc \in {"idle", "next"}, ~ r.ok, r.pc # "idle" => r.batch # <<>>,
         \A i \in DOMAIN r.batch : dep[r.batch[i]].phase \notin Unstarted,
         dep' = dep, receipts' = receipts, live' = live, stalls' = stalls,
         \/ lease' = lease /\ lease.token # w
         \/ lease'.token = Lost /\ lease.token = w
  PROVE  /\ run' \in [Workers -> RunRecord]
         /\ \A x \in Workers : RunFacts(x)'
         /\ LeaseNamed'
  <1>0. run \in [Workers -> RunRecord] /\ LeaseNamed /\ Settles
    BY TypeParts DEF IInv, MoreTypes, Settles
  <1>1. run'[w] = r
    BY <1>0
  <1>2. RunFacts(w)'
    BY <1>1 DEF RunFacts, Held, Working
  <1>3. \A x \in Workers \ {w} : run[x].pc \in Held /\ stalls' = 0 => lease'.token = x
    BY DEF IInv, RunFacts
  <1>4. run' \in [Workers -> RunRecord] /\ \A x \in Workers : RunFacts(x)'
    BY <1>0, <1>2, <1>3, RunMove
  <1>5. LeaseNamed'
    BY <1>0 DEF LeaseNamed
  <1> QED
    BY <1>4, <1>5

(* A worker that is not in a run holds no lease.                           *)
LEMMA NoRunNoLease ==
  ASSUME IInv, NEW w \in Workers, run[w].pc \in {"idle", "next"}
  PROVE  lease.token # w
  <1>1. run[w].pc \notin Held
    BY DEF Held, Working
  <1> QED
    BY <1>1, TypeParts, AppsAssumption DEF IInv, LeaseNamed

LEMMA ClaimStep ==
  ASSUME IInv, NEW w \in Workers, Claim(w)
  PROVE  IInv'
  <1>0. MoreTypes /\ RowTypes /\ ClaimLimit \in Nat
    BY TypeParts, AppsAssumption DEF IInv
  <1>1. /\ UNCHANGED <<app, dep, lease, receipts, preview, exists, live, crashes, stalls>>
        /\ run[w].pc = "idle"
    BY DEF Claim, cloud, faults
  <1>2. PICK n \in 1..ClaimLimit : \E batch \in [1..n -> Versions] :
          /\ Oldest(batch)
          /\ run' = [run EXCEPT ![w] = [Idle EXCEPT !.pc = "next", !.batch = batch]]
          /\ outbox' = [v \in Versions |->
                IF v \in Range(batch)
                THEN [state |-> "leased", owner |-> w, live |-> TRUE,
                      attempts |-> outbox[v].attempts + 1]
                ELSE outbox[v]]
    BY DEF Claim
  <1>3. PICK batch \in [1..n -> Versions] :
          /\ Oldest(batch)
          /\ run' = [run EXCEPT ![w] = [Idle EXCEPT !.pc = "next", !.batch = batch]]
          /\ outbox' = [v \in Versions |->
                IF v \in Range(batch)
                THEN [state |-> "leased", owner |-> w, live |-> TRUE,
                      attempts |-> outbox[v].attempts + 1]
                ELSE outbox[v]]
    BY <1>2
  <1>4. n \in Nat \ {0}
    BY <1>0
  <1>5. batch \in Seq(Versions) /\ DOMAIN batch = 1..n
    BY <1>4, SeqDef
  <1>6. batch # <<>>
    BY <1>4, <1>5
  <1>7. ASSUME NEW v \in Range(batch)
        PROVE  v \in Versions /\ Claimable(v)
    <2>1. PICK i \in DOMAIN batch : v = batch[i]
      BY DEF Range
    <2> QED
      BY <1>3, <1>5, <2>1 DEF Oldest
  <1>8. /\ outbox' \in [Versions -> OutboxRecord]
        /\ \A v \in Versions : RecordMoves(v)
    <2>1. ASSUME NEW v \in Versions
          PROVE  outbox'[v] \in OutboxRecord /\ RecordMoves(v)
      <3>1. outbox[v] \in OutboxRecord /\ outbox[v].attempts \in Nat
        BY <1>0 DEF RowTypes, OutboxRecord
      <3>2. CASE v \in Range(batch)
        <4>1. outbox'[v] = [state |-> "leased", owner |-> w, live |-> TRUE,
                            attempts |-> outbox[v].attempts + 1]
          BY <1>3, <3>2
        <4>2. outbox[v].state \in {"pending", "leased"}
          BY <1>7, <3>2 DEF Claimable
        <4>3. outbox'[v] \in OutboxRecord /\ outbox'[v].state = "leased"
          BY <3>1, <4>1 DEF OutboxRecord
        <4> QED
          BY <4>2, <4>3 DEF RecordMoves
      <3>3. CASE v \notin Range(batch)
        <4>1. outbox'[v] = outbox[v]
          BY <1>3, <3>3
        <4> QED
          BY <3>1, <4>1 DEF RecordMoves
      <3> QED
        BY <3>2, <3>3
    <2>2. DOMAIN outbox' = Versions
      BY <1>3
    <2>3. outbox' = [v \in Versions |-> outbox'[v]]
      BY <1>3
    <2> QED
      BY <2>1, <2>3
  <1>9. (\A v \in Versions : RowFacts(v)') /\ AppFacts'
    BY <1>1, <1>8, OutboxMoves
  <1>10. \A i \in DOMAIN batch : dep[batch[i]].phase \notin Unstarted
    <2> SUFFICES ASSUME NEW i \in DOMAIN batch PROVE dep[batch[i]].phase \notin Unstarted
      OBVIOUS
    <2>1. batch[i] \in Versions /\ Claimable(batch[i])
      BY <1>3, <1>5 DEF Oldest
    <2> QED
      BY <2>1 DEF Claimable, IInv, RowFacts
  <1>11. /\ run' \in [Workers -> RunRecord]
         /\ \A x \in Workers : RunFacts(x)'
         /\ LeaseNamed'
    <2> DEFINE r == [Idle EXCEPT !.pc = "next", !.batch = batch]
    <2>1. r \in RunRecord /\ r.pc = "next" /\ r.batch = batch /\ r.ok = FALSE
      BY <1>5 DEF RunRecord, Idle
    <2>2. run' = [run EXCEPT ![w] = r]
      BY <1>3
    <2>3. lease.token # w
      BY <1>1, NoRunNoLease
    <2> HIDE DEF r
    <2> QED
      BY <1>1, <1>6, <1>10, <2>1, <2>2, <2>3, Leaves
  <1>12. RowTypes' /\ ReceiptFirst' /\ MoreTypes'
    BY <1>0, <1>1, <1>8, <1>11 DEF RowTypes, IInv, ReceiptFirst, MoreTypes
  <1> QED
    BY <1>9, <1>11, <1>12, TypeParts DEF IInv

LEMMA ReleaseBatchStep ==
  ASSUME IInv, NEW w \in Workers, ReleaseBatch(w)
  PROVE  IInv'
  <1>0. MoreTypes /\ RowTypes
    BY TypeParts DEF IInv
  <1>1. /\ UNCHANGED <<app, dep, lease, receipts, preview, exists, live, stalls>>
        /\ crashes' = crashes + 1
        /\ run[w].pc = "next" /\ run' = [run EXCEPT ![w] = Idle]
    BY DEF ReleaseBatch, cloud
  <1>2. ASSUME NEW v \in Versions
        PROVE  outbox'[v] \in OutboxRecord /\ RecordMoves(v)
    <2>1. outbox[v] \in OutboxRecord
      BY <1>0 DEF RowTypes
    <2>2. outbox'[v] = IF Owned(w, v) /\ v \in Range(run[w].batch)
                       THEN Retried(outbox[v]) ELSE outbox[v]
      BY DEF ReleaseBatch
    <2>3. PICK row : row = Retried(outbox[v])
      OBVIOUS
    <2>4. /\ row \in OutboxRecord /\ row.state \in {"pending", "failed"}
          /\ row.state = "failed" => row.attempts >= MaxAttempts
      BY <2>1, <2>3, RetriedRow
    <2> QED
      BY <2>1, <2>2, <2>3, <2>4 DEF RecordMoves, Owned
  <1>3. outbox' \in [Versions -> OutboxRecord]
    <2>1. outbox' = [v \in Versions |-> outbox'[v]]
      BY DEF ReleaseBatch
    <2> QED
      BY <1>2, <2>1
  <1>4. (\A v \in Versions : RowFacts(v)') /\ AppFacts'
    BY <1>1, <1>2, <1>3, OutboxMoves
  <1>5. /\ run' \in [Workers -> RunRecord]
        /\ \A x \in Workers : RunFacts(x)'
        /\ LeaseNamed'
    <2>1. Idle \in RunRecord /\ Idle.pc = "idle" /\ Idle.batch = <<>> /\ Idle.ok = FALSE
      BY EmptySeq DEF Idle, RunRecord
    <2>2. \A i \in DOMAIN Idle.batch : dep[Idle.batch[i]].phase \notin Unstarted
      BY <2>1
    <2>3. lease.token # w
      BY <1>1, NoRunNoLease
    <2> QED
      BY <1>1, <2>1, <2>2, <2>3, Leaves
  <1>6. RowTypes' /\ ReceiptFirst' /\ MoreTypes'
    BY <1>0, <1>1, <1>3, <1>5 DEF RowTypes, IInv, ReceiptFirst, MoreTypes
  <1> QED
    BY <1>4, <1>5, <1>6, TypeParts DEF IInv

(* Only a row that ran out is replaced, so no other worker is in a run.    *)
LEMMA AcquireLeaseStep ==
  ASSUME IInv, NEW w \in Workers, AcquireLease(w)
  PROVE  IInv'
  <1>0. MoreTypes /\ RowTypes /\ RunFacts(w) /\ run[w] \in RunRecord
    BY TypeParts DEF IInv, MoreTypes
  <1>1. /\ UNCHANGED <<app, dep, receipts, preview, exists, live, crashes, stalls>>
        /\ run[w].pc = "next"
    BY DEF AcquireLease, cloud, faults
  <1>2. V(w) \in Versions
    BY <1>0, <1>1, VersionOfRun
  <1>3. CASE Fresh(V(w)) /\ app.status # "archived" /\ LeaseFree(V(w))
    <2> DEFINE r == [Idle EXCEPT !.pc = "read", !.batch = run[w].batch]
    <2>1. /\ lease' = [token |-> w, gen |-> dep[V(w)].gen]
          /\ run' = [run EXCEPT ![w] = r] /\ outbox' = outbox
          /\ lease.token = Lost
      BY <1>3 DEF AcquireLease, LeaseFree, NoLease
    <2>2. (\A v \in Versions : RowFacts(v)') /\ AppFacts' /\ Settles
      BY <1>1, <2>1, RowsStay
    <2>3. lease' \in LeaseRecord /\ lease'.token = w
      BY <1>0, <1>2, <2>1 DEF RowTypes, LeaseRecord, DepRecord
    <2>4. r \in RunRecord /\ r.pc = "read" /\ r.batch = run[w].batch /\ r.ok = FALSE
      BY <1>0 DEF RunRecord, Idle, Held, Working
    <2> HIDE DEF r
    <2>5. run'[w] = r
      BY <1>0, <2>1 DEF MoreTypes
    <2>6. RunFacts(w)'
      BY <1>0, <1>1, <2>3, <2>4, <2>5 DEF RunFacts
    <2>7. \A x \in Workers \ {w} : ~ (run[x].pc \in Held /\ stalls' = 0)
      BY <1>1, <2>1, AppsAssumption DEF IInv, RunFacts
    <2>8. \A x \in Workers \ {w} : run[x].pc = "complete" /\ stalls' = 0 => live' = live
      BY <1>1
    <2>9. run' \in [Workers -> RunRecord] /\ \A x \in Workers : RunFacts(x)'
      BY <1>1, <2>1, <2>2, <2>4, <2>6, <2>7, <2>8, RunMove
    <2>10. LeaseNamed'
      BY <2>3, <2>4, <2>5 DEF LeaseNamed, Held, Working
    <2>11. RowTypes' /\ ReceiptFirst' /\ MoreTypes'
      BY <1>0, <1>1, <2>1, <2>3, <2>9 DEF RowTypes, IInv, ReceiptFirst, MoreTypes
    <2> QED
      BY <2>2, <2>9, <2>10, <2>11, TypeParts DEF IInv
  <1>4. CASE ~ (Fresh(V(w)) /\ app.status # "archived" /\ LeaseFree(V(w)))
    <2>1. run' = [run EXCEPT ![w] = AfterRecord(w)] /\ Retry(w) /\ lease' = lease
      BY <1>4 DEF AcquireLease
    <2>2. outbox' \in [Versions -> OutboxRecord] /\ \A u \in Versions : RecordMoves(u)
      BY <1>1, <2>1, RetryMoves
    <2>3. (\A v \in Versions : RowFacts(v)') /\ AppFacts'
      BY <1>1, <2>2, OutboxMoves
    <2>4. lease.token # w
      BY <1>1, NoRunNoLease
    <2>5. PICK r : r = AfterRecord(w)
      OBVIOUS
    <2>6. /\ r \in RunRecord /\ ~ r.ok /\ r.pc \in {"idle", "next"}
          /\ r.pc # "idle" => r.batch # <<>>
          /\ \A i \in DOMAIN r.batch : dep[r.batch[i]].phase \notin Unstarted
      BY <1>1, <2>5, NextRecord
    <2>7. /\ run' \in [Workers -> RunRecord]
          /\ \A x \in Workers : RunFacts(x)'
          /\ LeaseNamed'
      BY <1>1, <2>1, <2>4, <2>5, <2>6, Leaves
    <2>8. RowTypes' /\ ReceiptFirst' /\ MoreTypes'
      BY <1>0, <1>1, <2>1, <2>2, <2>7 DEF RowTypes, IInv, ReceiptFirst, MoreTypes
    <2> QED
      BY <2>3, <2>7, <2>8, TypeParts DEF IInv
  <1> QED
    BY <1>3, <1>4

LEMMA AcknowledgeStep ==
  ASSUME IInv, NEW w \in Workers, Acknowledge(w)
  PROVE  IInv'
  <1>0. MoreTypes /\ RowTypes /\ RunFacts(w)
    BY TypeParts DEF IInv
  <1>1. /\ UNCHANGED <<app, dep, receipts, preview, exists, live, stalls>>
        /\ crashes' = crashes \/ crashes' = crashes + 1
        /\ run[w].pc = "acknowledge" /\ run' = [run EXCEPT ![w] = AfterRecord(w)]
        /\ IF lease.token = w THEN lease' \in {NoLease, [lease EXCEPT !.token = Lost]}
           ELSE lease' = lease
    BY DEF Acknowledge, Release, cloud, faults
  <1>2. V(w) \in Versions
    BY <1>0, <1>1, VersionOfRun
  <1>3. /\ outbox' \in [Versions -> OutboxRecord]
        /\ \A v \in Versions : RecordMoves(v)
    <2>1. CASE Retry(w)
      BY <1>1, <2>1, RetryMoves
    <2>2. CASE Returned(w) /\ Owned(w, V(w)) /\ ~ Retry(w)
      <3> DEFINE st == IF Fresh(V(w)) THEN "completed" ELSE "failed"
                 row == [outbox[V(w)] EXCEPT !.state = st, !.owner = Lost, !.live = FALSE]
      <3>1. outbox' = [outbox EXCEPT ![V(w)] = row]
        BY <2>2 DEF Acknowledge, Closed
      <3>2. row \in OutboxRecord /\ row.state = st
        BY <1>0, <1>2 DEF RowTypes, OutboxRecord
      <3>3. dep[V(w)].phase \in Finalized /\ outbox[V(w)].state = "leased"
        BY <1>0, <2>2 DEF Returned, RunFacts, Owned
      <3>4. st # "none" /\ (st = "failed" => ~ Fresh(V(w)))
        OBVIOUS
      <3> HIDE DEF row, st
      <3> QED
        BY <1>2, <3>1, <3>2, <3>3, <3>4, RecordSettles
    <2>3. CASE outbox' = outbox
      BY <1>0, <2>3 DEF RowTypes, RecordMoves
    <2> QED
      BY <2>1, <2>2, <2>3 DEF Acknowledge
  <1>4. (\A v \in Versions : RowFacts(v)') /\ AppFacts'
    BY <1>1, <1>3, OutboxMoves
  <1>5. PICK r : r = AfterRecord(w)
    OBVIOUS
  <1>6. /\ r \in RunRecord /\ ~ r.ok /\ r.pc \in {"idle", "next"}
        /\ r.pc # "idle" => r.batch # <<>>
        /\ \A i \in DOMAIN r.batch : dep[r.batch[i]].phase \notin Unstarted
    BY <1>1, <1>5, NextRecord
  <1>7. /\ lease' \in LeaseRecord
        /\ lease.token = w => lease'.token = Lost
    <2>1. /\ NoLease \in LeaseRecord /\ NoLease.token = Lost
          /\ [lease EXCEPT !.token = Lost] \in LeaseRecord
      BY <1>0, AppsAssumption DEF NoLease, LeaseRecord, RowTypes
    <2> QED
      BY <1>0, <1>1, <2>1 DEF LeaseRecord, RowTypes
  <1>8. \/ lease' = lease /\ lease.token # w
        \/ lease'.token = Lost /\ lease.token = w
    BY <1>1, <1>7
  <1>9. /\ run' \in [Workers -> RunRecord]
        /\ \A x \in Workers : RunFacts(x)'
        /\ LeaseNamed'
    BY <1>1, <1>5, <1>6, <1>8, Leaves
  <1>10. RowTypes' /\ ReceiptFirst' /\ MoreTypes'
    BY <1>0, <1>1, <1>3, <1>7, <1>9 DEF RowTypes, IInv, ReceiptFirst, MoreTypes
  <1> QED
    BY <1>4, <1>9, <1>10, TypeParts DEF IInv

LEMMA CrashStep ==
  ASSUME IInv, NEW w \in Workers, Crash(w)
  PROVE  IInv'
  <1>0. MoreTypes /\ RowTypes /\ LeaseNamed
    BY TypeParts DEF IInv
  <1>1. /\ UNCHANGED <<app, dep, receipts, preview, exists, live, stalls>>
        /\ crashes' = crashes + 1
        /\ run' = [run EXCEPT ![w] = Idle]
        /\ lease' = IF lease.token = w THEN [lease EXCEPT !.token = Lost] ELSE lease
    BY DEF Crash, cloud
  <1>2. /\ lease' \in LeaseRecord
        /\ \/ lease' = lease /\ lease.token # w
           \/ lease'.token = Lost /\ lease.token = w
    BY <1>0, <1>1 DEF RowTypes, LeaseRecord
  <1>3. ASSUME NEW v \in Versions
        PROVE  outbox'[v] \in OutboxRecord /\ RecordMoves(v)
    <2>1. outbox[v] \in OutboxRecord
      BY <1>0 DEF RowTypes
    <2>2. outbox'[v] = IF Owned(w, v) THEN [outbox[v] EXCEPT !.owner = Lost] ELSE outbox[v]
      BY DEF Crash
    <2>3. [outbox[v] EXCEPT !.owner = Lost] \in OutboxRecord
          /\ [outbox[v] EXCEPT !.owner = Lost].state = outbox[v].state
      BY <2>1 DEF OutboxRecord
    <2> QED
      BY <2>1, <2>2, <2>3 DEF RecordMoves, Owned
  <1>4. outbox' \in [Versions -> OutboxRecord]
    <2>1. outbox' = [v \in Versions |-> outbox'[v]]
      BY DEF Crash
    <2> QED
      BY <1>3, <2>1
  <1>5. (\A v \in Versions : RowFacts(v)') /\ AppFacts'
    BY <1>1, <1>3, <1>4, OutboxMoves
  <1>6. /\ run' \in [Workers -> RunRecord]
        /\ \A x \in Workers : RunFacts(x)'
        /\ LeaseNamed'
    <2>1. Idle \in RunRecord /\ Idle.pc = "idle" /\ Idle.batch = <<>> /\ Idle.ok = FALSE
      BY EmptySeq DEF Idle, RunRecord
    <2>2. \A i \in DOMAIN Idle.batch : dep[Idle.batch[i]].phase \notin Unstarted
      BY <2>1
    <2> QED
      BY <1>1, <1>2, <2>1, <2>2, Leaves
  <1>7. RowTypes' /\ ReceiptFirst' /\ MoreTypes'
    BY <1>0, <1>1, <1>2, <1>4, <1>6 DEF RowTypes, IInv, ReceiptFirst, MoreTypes
  <1> QED
    BY <1>5, <1>6, <1>7, TypeParts DEF IInv

-----------------------------------------------------------------------------
(* The theorems *)

LEMMA NextKeeps == IInv /\ [Next]_vars => IInv'
  <1> SUFFICES ASSUME IInv, [Next]_vars PROVE IInv'
    OBVIOUS
  <1>1. CASE UNCHANGED vars
    <2>1. UNCHANGED <<app, dep, outbox, lease, receipts, exists, live, run, crashes, stalls>>
      BY <1>1 DEF vars
    <2>2. (\A v \in Versions : RowFacts(v)') /\ AppFacts' /\ Settles
      BY <2>1, RowsStay
    <2>3. \A w \in Workers : RunFacts(w)'
      BY <2>1, <2>2, RunsStay
    <2>4. RowTypes' /\ LeaseNamed' /\ MoreTypes' /\ ReceiptFirst'
      BY <2>1, TypeParts DEF IInv, RowTypes, LeaseNamed, MoreTypes, ReceiptFirst
    <2> QED
      BY <2>2, <2>3, <2>4, TypeParts DEF IInv
  <1>2. CASE Begin \/ Archive \/ Restore \/ ExpirePreview \/ ExpireDeadLease \/ ExpireHeldLease
    <2>1. 0 \in 0..MaxDeployments
      BY AppsAssumption
    <2> QED
      BY <1>2, <2>1, InsertStep, GenerationStep, ExpirePreviewStep, ExpireLeaseStep DEF Begin
  <1>3. ASSUME NEW v \in Versions,
               \/ Rollback(v) \/ DeployThrows(v) \/ ExpireDeadClaim(v) \/ ExpireHeldClaim(v)
               \/ \E kind \in {"temporary", "byoc"} : SelectTarget(v, kind)
        PROVE  IInv'
    <2>1. v \in 0..MaxDeployments
      BY AppsAssumption DEF Versions
    <2> QED
      BY <1>3, <2>1, InsertStep, DeployThrowsStep, ExpireClaimStep, SelectTargetStep DEF Rollback
  <1>4. ASSUME NEW w \in Workers, WorkerStep(w)
        PROVE  IInv'
    <2>1. CASE Claim(w) \/ AcquireLease(w) \/ Read(w) \/ Provision(w)
      BY <2>1, ClaimStep, AcquireLeaseStep, ReadStep, ProvisionStep
    <2>2. CASE PlanResource(w) \/ CreateResource(w) \/ MarkDeploying(w) \/ Upload(w)
      BY <2>2, PlanResourceStep, CreateResourceStep, MarkDeployingStep, UploadStep
    <2>3. CASE Complete(w) \/ CompleteByKey(w) \/ FailDeployment(w) \/ FailOutbox(w)
      BY <2>3, CompleteStep, SettleStep, FailDeploymentStep
    <2>4. CASE Acknowledge(w)
      BY <2>4, AcknowledgeStep
    <2> QED
      BY <1>4, <2>1, <2>2, <2>3, <2>4 DEF WorkerStep
  <1>5. ASSUME NEW w \in Workers, ReleaseBatch(w) \/ Fault(w) \/ HeartbeatFails(w) \/ Crash(w)
        PROVE  IInv'
    BY <1>5, ReleaseBatchStep, ReadStep, CrashStep
  <1> QED
    BY <1>1, <1>2, <1>3, <1>4, <1>5 DEF Next

(* The rows, the outbox, the lease and the places of the workers agree in  *)
(* every reachable state: what the theorems below follow from.             *)
THEOREM AppsInvariant == Spec => []IInv
  <1>1. Init => IInv
    BY Initially
  <1>2. IInv /\ [Next]_vars => IInv'
    BY NextKeeps
  <1> QED
    BY <1>1, <1>2, PTL DEF Spec

(* While no lease ran out under its runner, the workers that are in the    *)
(* middle of a run are those the lease names: at most one.                 *)
LEMMA OneRunnerAtATime == IInv => OneRunner
  <1> SUFFICES ASSUME IInv, stalls = 0
               PROVE  Cardinality({w \in Workers : run[w].pc \in Working}) <= 1
    BY DEF OneRunner
  <1> DEFINE R == {w \in Workers : run[w].pc \in Working}
  <1>1. R \subseteq {lease.token}
    BY DEF IInv, RunFacts, Held
  <1>2. IsFiniteSet({lease.token}) /\ Cardinality({lease.token}) = 1
    BY FS_Singleton
  <1> HIDE DEF R
  <1>3. Cardinality(R) <= 1
    BY <1>1, <1>2, FS_Subset
  <1> QED
    BY <1>3 DEF R

(* RowsAgree, for every number of workers, deployments and faults: the     *)
(* rows hold what their columns may hold, a lease belongs to a run that is *)
(* under way, an App shown as ready serves a deployment that is ready, a   *)
(* completed record belongs to a finalized deployment, and one run at a    *)
(* time works on the App while no lease ran out under its runner.          *)
THEOREM RowsAlwaysAgree == Spec => []RowsAgree
  <1>1. IInv => RowsAgree
    BY OneRunnerAtATime DEF IInv, RowsAgree, RowFacts, AppFacts, CompletedIsFinal
  <1> QED
    BY <1>1, AppsInvariant, PTL

(* No crash, expiry or race of two workers leaves a deployment under way   *)
(* with no record that a worker will claim, unless retryOutbox used up the *)
(* attempts.                                                               *)
THEOREM WorkIsNeverLost == Spec => []WorkNotLost
  <1>1. IInv => WorkNotLost
    BY DEF IInv, RowFacts, WorkNotLost
  <1> QED
    BY <1>1, AppsInvariant, PTL

(* prepareResources writes the receipt first, so whatever exists at        *)
(* Cloudflare has one, wherever the server died.                           *)
THEOREM ReceiptsComeFirst == Spec => []ReceiptFirst
  <1>1. IInv => ReceiptFirst
    BY DEF IInv
  <1> QED
    BY <1>1, AppsInvariant, PTL

(* completeDeployment makes current only a deployment of the App's own     *)
(* generation, over an older one, and, while no lease ran out under its    *)
(* runner, only the version the App's Worker serves.                       *)
THEOREM CurrentIsServed == Spec => ServedIsCurrent
  <1> DEFINE A == app'.current # app.current =>
                    /\ dep[app'.current].gen = app.gen
                    /\ app.current # 0 => dep[app.current].gen < app.gen
                    /\ stalls = 0 => live = app'.current
  <1>1. ASSUME IInv, Next PROVE A
    <2> SUFFICES ASSUME app'.current # app.current
                 PROVE  /\ dep[app'.current].gen = app.gen
                        /\ app.current # 0 => dep[app.current].gen < app.gen
                        /\ stalls = 0 => live = app'.current
      OBVIOUS
    <2>0. MoreTypes /\ RowTypes
      BY <1>1, TypeParts DEF IInv
    <2>1. \E w \in Workers : Complete(w)
      <3>1. app # app'
        OBVIOUS
      <3>2. ASSUME NEW v \in Versions, FailRow(v) PROVE app'.current = app.current
        BY <2>0, <3>2 DEF FailRow, RowTypes, AppRecord
      <3>3. ASSUME NEW back, Insert(back) PROVE app'.current = app.current
        BY <2>0, <3>3 DEF Insert, RowTypes, AppRecord
      <3>4. ~ (Begin \/ Archive \/ Restore \/ ExpirePreview \/ ExpireDeadLease \/ ExpireHeldLease)
        BY <2>0, <3>1, <3>3 DEF Begin, Archive, Restore, ExpirePreview, ExpireDeadLease,
                                ExpireHeldLease, RowTypes, AppRecord
      <3>5. ASSUME NEW v \in Versions
            PROVE ~ (\/ Rollback(v) \/ DeployThrows(v) \/ ExpireDeadClaim(v) \/ ExpireHeldClaim(v)
                     \/ \E kind \in {"temporary", "byoc"} : SelectTarget(v, kind))
        BY <2>0, <3>1, <3>2, <3>3 DEF Rollback, DeployThrows, ExpireDeadClaim, ExpireHeldClaim,
                                      SelectTarget, RowTypes, AppRecord
      <3>6. ASSUME NEW w \in Workers PROVE ~ FailDeployment(w)
        <4> SUFFICES ASSUME FailDeployment(w) PROVE FALSE
          OBVIOUS
        <4>1. V(w) \in Versions
          BY <1>1, <2>0, VersionOfRun DEF IInv, FailDeployment
        <4> QED
          BY <3>1, <3>2, <4>1 DEF FailDeployment
      <3>7. ASSUME NEW w \in Workers PROVE ~ MarkDeploying(w)
        BY <2>0 DEF MarkDeploying, RowTypes, AppRecord
      <3>8. ASSUME NEW w \in Workers
            PROVE ~ (\/ Claim(w) \/ AcquireLease(w) \/ Read(w) \/ Provision(w) \/ PlanResource(w)
                     \/ CreateResource(w) \/ Upload(w) \/ CompleteByKey(w) \/ FailOutbox(w)
                     \/ Acknowledge(w) \/ ReleaseBatch(w) \/ Fault(w) \/ HeartbeatFails(w)
                     \/ Crash(w))
        BY <3>1 DEF Claim, AcquireLease, Read, Provision, PlanResource, CreateResource, Upload,
                    CompleteByKey, FailOutbox, Acknowledge, ReleaseBatch, Fault,
                    HeartbeatFails, Crash, rows
      <3> QED
        BY <1>1, <3>4, <3>5, <3>6, <3>7, <3>8 DEF Next, WorkerStep
    <2>2. PICK w \in Workers : Complete(w)
      BY <2>1
    <2>3. RunFacts(w) /\ run[w].pc = "complete"
      BY <1>1, <2>2 DEF IInv, Complete
    <2>4. V(w) \in Versions
      BY <2>0, <2>3, VersionOfRun
    <2>5. Completable(w, V(w)) /\ app'.current = V(w)
      BY <2>0, <2>2 DEF Complete, RowTypes, AppRecord
    <2>6. dep[V(w)].gen = app.gen /\ dep[V(w)].phase = "deploying"
      BY <2>5 DEF Completable, Renewable, Fresh
    <2>7. app.current # 0 => dep[app.current].gen < app.gen
      <3> SUFFICES ASSUME app.current # 0 PROVE dep[app.current].gen < app.gen
        OBVIOUS
      <3>1. app.current \in Versions /\ app.current # V(w)
            /\ dep[app.current].phase # "none"
        BY <1>1, <2>0, <2>5 DEF RowTypes, AppRecord, Versions, IInv, AppFacts, Finalized
      <3>2. dep[app.current].gen # app.gen
        BY <1>1, <2>4, <2>6, <3>1 DEF IInv, AppFacts
      <3>3. dep[app.current].gen <= app.gen
        BY <1>1, <3>1 DEF IInv, RowFacts
      <3>4. dep[app.current].gen \in Nat /\ app.gen \in Nat
        BY <2>0, <3>1 DEF RowTypes, DepRecord, AppRecord
      <3> QED
        BY <3>2, <3>3, <3>4
    <2>8. stalls = 0 => live = V(w)
      BY <2>3 DEF RunFacts
    <2> QED
      BY <2>5, <2>6, <2>7, <2>8
  <1>2. IInv /\ [Next]_vars => [A]_vars
    <2> SUFFICES ASSUME IInv, [Next]_vars PROVE [A]_vars
      OBVIOUS
    <2>1. CASE Next
      BY <1>1, <2>1
    <2>2. CASE UNCHANGED vars
      BY <2>2
    <2> QED
      BY <2>1, <2>2
  <1> QED
    BY <1>2, AppsInvariant, PTL DEF Spec, ServedIsCurrent
=============================================================================
