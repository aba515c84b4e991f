--------------------------- MODULE AppsDeployment ---------------------------
(***************************************************************************)
(* Publishing one App: the rows of AppsControlPlane (app, deployments,     *)
(* app_leases, app_operation_outbox, resource receipts), the outbox        *)
(* workers that run queued deployments through AppsRuntimeCoordinator, and *)
(* the Cloudflare account they change.  Every database transaction and     *)
(* every call to Cloudflare is an action of its own; workers of different  *)
(* server processes, the user and the clock interleave between them.       *)
(*                                                                         *)
(* A lease token is the worker that drew it, or Lost when its owner died:  *)
(* the code draws a random token for every run, so no later run can use it.*)
(*                                                                         *)
(* Operators named Mutant_... are faulty variants of the definition that   *)
(* follows them, kept to show that the properties can fail.                *)
(***************************************************************************)
EXTENDS Naturals, Sequences, FiniteSets, Functions

CONSTANTS
    Workers,         \* outbox workers of the server processes on one database
    Lost,            \* stands for a token or a worker id that died with its process
    MaxDeployments,  \* bound: deployments of the App
    MaxGeneration,   \* bound: generations of the App
    MaxAttempts,     \* retryOutbox gives up at this many claims (10 in the code)
    ClaimLimit,      \* records one poll claims (10 in the code)
    MaxFaults        \* bound: what crashes and stalls count, together

ASSUME AppsAssumption ==
    /\ Lost \notin Workers
    /\ {MaxDeployments, MaxGeneration, MaxAttempts, ClaimLimit} \subseteq Nat \ {0}
    /\ MaxFaults \in Nat

VARIABLES
    app,       \* the apps row: status, generation, current deployment, target
    dep,       \* version -> its app_deployments row
    outbox,    \* version -> its app_operation_outbox row
    lease,     \* the app_leases row; one that ran out is as good as none
    receipts,  \* versions with a receipt for the resource their manifest asks for
    preview,   \* the temporary preview account is unexpired
    exists,    \* Cloudflare: the resource of the App has been created
    live,      \* Cloudflare: the version the App's Worker serves, 0 for none
    run,       \* worker -> its place in doPoll and handleDeploymentTargetQueued
    crashes,   \* processes that died or stopped, claims and previews that ran out,
               \* deploy(), failDeployment() and releaseLease() calls that threw
    stalls     \* runners that lost a lease while they were running

rows == <<app, dep, outbox, lease, receipts, preview>>
cloud == <<exists, live>>
faults == <<crashes, stalls>>
vars == <<app, dep, outbox, lease, receipts, preview, exists, live, run,
          crashes, stalls>>

Versions == 1..MaxDeployments
Active == {"queued", "provisioning", "deploying"}
Finalized == {"temporary_ready", "ready", "failed", "expired"}
Phases == {"none", "awaiting_target"} \cup Active \cup Finalized
Working == {"read", "provision", "plan", "create", "mark",
            "upload", "complete", "settle"}

NoRow == [phase |-> "none", gen |-> 0, target |-> "unassigned", back |-> 0]
NoOutbox == [state |-> "none", owner |-> Lost, live |-> FALSE, attempts |-> 0]
NoLease == [token |-> Lost, gen |-> 0]
Idle == [pc |-> "idle", batch |-> <<>>, known |-> FALSE, op |-> FALSE, ok |-> FALSE]

Init ==
    /\ app = [status |-> "none", gen |-> 0, current |-> 0, target |-> "unassigned"]
    /\ dep = [v \in Versions |-> NoRow]
    /\ outbox = [v \in Versions |-> NoOutbox]
    /\ receipts = {}
    /\ lease = NoLease /\ preview = TRUE
    /\ exists = FALSE /\ live = 0
    /\ run = [w \in Workers |-> Idle]
    /\ crashes = 0 /\ stalls = 0

-----------------------------------------------------------------------------
(* What the transactions check and change *)

Fresh(v) == app.gen = dep[v].gen

\* requireActiveLease: the row has the caller's token and generation, unexpired.
ActiveLease(w, v) == lease.token = w /\ lease.gen = dep[v].gen

\* renewLease also asks that the App is still of the lease's generation.
Renewable(w, v) == ActiveLease(w, v) /\ Fresh(v)

Failable(v) == Fresh(v) /\ dep[v].phase \notin {"ready", "expired", "failed"}

\* The App's status once no deployment is under way, given the deployment rows d.
StatusWithout(d) ==
    CASE app.current = 0 -> "failed"
      [] app.current # 0 /\ d[app.current].phase = "ready" -> "ready"
      [] OTHER -> "preview"

\* failDeployment: the transaction, for callers whose checks passed.
FailRow(v) ==
    LET failed == [dep EXCEPT ![v].phase = "failed"]
    IN  dep' = failed /\ app' = [app EXCEPT !.status = StatusWithout(failed)]

\* Faulty retry: the record is given up one claim too early.
Mutant_Retried(row) ==
    [row EXCEPT !.state = IF row.attempts + 1 >= MaxAttempts THEN "failed" ELSE "pending",
                !.owner = Lost, !.live = FALSE]

\* retryOutbox: back to pending, or failed when the attempts are used up.
Retried(row) ==
    [row EXCEPT !.state = IF row.attempts >= MaxAttempts THEN "failed" ELSE "pending",
                !.owner = Lost, !.live = FALSE]

Closed(row, state) == [row EXCEPT !.state = state, !.owner = Lost, !.live = FALSE]

\* Only the claim's owner may settle it.
Owned(w, v) == outbox[v].state = "leased" /\ outbox[v].owner = w

\* enqueueDeploymentOutbox: an existing row keeps its state.
Enqueue(v) ==
    outbox' = IF outbox[v].state = "none"
              THEN [outbox EXCEPT ![v].state = "pending"] ELSE outbox

-----------------------------------------------------------------------------
(* The user and the session: AppsControlPlane *)

Insert(back) ==
    \E v \in Versions :
        /\ dep[v].phase = "none"
        /\ \A u \in Versions : u < v => dep[u].phase # "none"
        /\ app.gen < MaxGeneration
        /\ dep' = [dep EXCEPT ![v] = [phase |-> "awaiting_target", gen |-> app.gen + 1,
                                      target |-> "unassigned", back |-> back]]
        /\ app' = [app EXCEPT !.gen = @ + 1, !.status = "needs_action"]
        /\ UNCHANGED <<outbox, lease, receipts, preview, cloud, run, faults>>

\* beginDeployment, called by deploy; the App row is created with the first one.
Begin == app.status # "archived" /\ Insert(0)

Rollback(t) ==
    /\ app.status \notin {"none", "archived", "deploying"}
    /\ dep[t].phase = "ready"
    /\ Insert(t)

\* deploy() has more to do after beginDeployment, while the user may already have
\* chosen a target; an error there fails the deployment, with no lease of its own.
DeployThrows(v) ==
    /\ dep[v].back = 0 /\ Failable(v) /\ dep[v].phase # "none"
    /\ crashes + stalls < MaxFaults /\ crashes' = crashes + 1
    /\ FailRow(v)
    /\ UNCHANGED <<outbox, lease, receipts, preview, cloud, run, stalls>>

SelectTarget(v, kind) ==
    /\ dep[v].phase = "awaiting_target" /\ Fresh(v)
    /\ kind = "temporary" => preview /\ dep[v].back = 0
    /\ dep' = [dep EXCEPT ![v] = [@ EXCEPT !.phase = "queued", !.target = kind]]
    /\ app' = [app EXCEPT !.target = kind]
    /\ Enqueue(v)
    /\ UNCHANGED <<lease, receipts, preview, cloud, run, faults>>

Archive ==
    /\ app.status \notin {"none", "archived"} /\ app.gen < MaxGeneration
    /\ app' = [app EXCEPT !.status = "archived", !.gen = @ + 1, !.target = "unassigned"]
    /\ UNCHANGED <<dep, outbox, lease, receipts, preview, cloud, run, faults>>

Restore ==
    /\ app.status = "archived" /\ app.gen < MaxGeneration
    /\ app' = [app EXCEPT !.status = "needs_action", !.gen = @ + 1, !.target = "unassigned"]
    /\ UNCHANGED <<dep, outbox, lease, receipts, preview, cloud, run, faults>>

\* expireTemporaryPreviews, for the App's preview account.
ExpirePreview ==
    /\ preview /\ preview' = FALSE
    /\ crashes + stalls < MaxFaults /\ crashes' = crashes + 1
    /\ dep' = [v \in Versions |->
                 IF dep[v].target = "temporary" /\ dep[v].phase \in Active \cup {"temporary_ready"}
                 THEN [dep[v] EXCEPT !.phase = "expired"] ELSE dep[v]]
    /\ app' = IF app.target = "temporary"
              THEN [app EXCEPT !.status = "needs_action", !.target = "unassigned"] ELSE app
    /\ UNCHANGED <<outbox, lease, receipts, cloud, run, stalls>>

-----------------------------------------------------------------------------
(* The outbox worker *)

\* Faulty claim: a record whose worker died is never taken over.
Mutant_Claimable(v) == outbox[v].state = "pending"

Claimable(v) ==
    \/ outbox[v].state = "pending"
    \/ outbox[v].state = "leased" /\ ~outbox[v].live

\* available_at: a record that was given back may still have to wait.
BacksOff(v) == outbox[v].state = "pending" /\ outbox[v].attempts > 0

\* The records one poll takes: the oldest claimable ones, no more than the limit, past
\* those that back off.  The update returns them in any order.
Oldest(batch) ==
    /\ \A i, j \in DOMAIN batch : batch[i] = batch[j] => i = j
    /\ \A i \in DOMAIN batch : Claimable(batch[i])
    /\ \A u \in {v \in Versions : Claimable(v)} \ Range(batch) :
          \/ BacksOff(u)
          \/ Len(batch) = ClaimLimit /\ \A i \in DOMAIN batch : batch[i] < u

\* claimDeploymentOutboxForPrincipal: one lease for the batch.
Claim(w) ==
    /\ run[w].pc = "idle"
    /\ \E n \in 1..ClaimLimit : \E batch \in [1..n -> Versions] :
          /\ Oldest(batch)
          /\ run' = [run EXCEPT ![w] = [Idle EXCEPT !.pc = "next", !.batch = batch]]
          /\ outbox' = [v \in Versions |->
                IF v \in Range(batch)
                THEN [state |-> "leased", owner |-> w, live |-> TRUE,
                      attempts |-> outbox[v].attempts + 1]
                ELSE outbox[v]]
    /\ UNCHANGED <<app, dep, lease, receipts, preview, cloud, faults>>

\* The worker was stopped: what has not started goes back to the table.
ReleaseBatch(w) ==
    /\ run[w].pc = "next"
    /\ crashes + stalls < MaxFaults /\ crashes' = crashes + 1
    /\ run' = [run EXCEPT ![w] = Idle]
    /\ outbox' = [v \in Versions |->
         IF Owned(w, v) /\ v \in Range(run[w].batch)
         THEN Retried(outbox[v]) ELSE outbox[v]]
    /\ UNCHANGED <<app, dep, lease, receipts, preview, cloud, stalls>>

V(w) == Head(run[w].batch)

\* The loop of doPoll goes on with the rest of the batch.
AfterRecord(w) ==
    IF Len(run[w].batch) = 1 THEN Idle
    ELSE [Idle EXCEPT !.pc = "next", !.batch = Tail(run[w].batch)]

\* retryOutbox: nothing changes when the claim has passed to somebody else.
Retry(w) == outbox' = IF Owned(w, V(w)) THEN [outbox EXCEPT ![V(w)] = Retried(@)] ELSE outbox

\* Faulty acquisition: a lease of an older generation counts as free.
Mutant_LeaseFree(v) == lease.gen # dep[v].gen

\* The conflict clause of acquireLease: only an expired row is replaced.
LeaseFree(v) == lease = NoLease

\* acquireLease; without a lease the run throws and the record is retried.
AcquireLease(w) ==
    /\ run[w].pc = "next"
    /\ IF Fresh(V(w)) /\ app.status # "archived" /\ LeaseFree(V(w))
       THEN /\ lease' = [token |-> w, gen |-> dep[V(w)].gen]
            /\ run' = [run EXCEPT ![w] = [Idle EXCEPT !.pc = "read", !.batch = run[w].batch]]
            /\ UNCHANGED outbox
       ELSE run' = [run EXCEPT ![w] = AfterRecord(w)] /\ Retry(w) /\ UNCHANGED lease
    /\ UNCHANGED <<app, dep, receipts, preview, cloud, faults>>

\* The run is over, ok or not: the finally clause and the worker come next.
End(w, ok) ==
    [run EXCEPT ![w] = [Idle EXCEPT !.pc = "acknowledge", !.batch = run[w].batch, !.ok = ok]]
Throw(w) == [run EXCEPT ![w] = [@ EXCEPT !.pc = "failing", !.known = FALSE]]
LoseLease(w) == End(w, FALSE)

\* byoc targets prepare resources before the Worker is uploaded.
Prepare(v) == IF dep[v].target = "byoc" THEN "plan" ELSE "mark"

\* getApp, getDeployment, readStagedArtifact, resolveDeploymentCredential, ensureLease:
\* all of them read.  Stale throws, finalized returns, without a credential it throws;
\* a run that was interrupted goes on where its phase says.
Read(w) ==
    LET v == V(w) IN
    /\ run[w].pc = "read"
    /\ run' = CASE ~Fresh(v) -> Throw(w)
                [] Fresh(v) /\ dep[v].phase \in Finalized -> End(w, TRUE)
                [] Fresh(v) /\ dep[v].phase \notin Finalized ->
                     IF dep[v].target = "temporary" /\ ~preview THEN Throw(w)
                     ELSE IF ~Renewable(w, v) THEN LoseLease(w)
                     ELSE [run EXCEPT ![w].pc =
                             IF dep[v].phase = "queued" THEN "provision" ELSE Prepare(v)]
    /\ UNCHANGED <<rows, cloud, faults>>

\* transitionDeploymentPhase from queued to provisioning.
Provision(w) ==
    LET v == V(w) IN
    /\ run[w].pc = "provision"
    /\ IF dep[v].phase = "queued" /\ ActiveLease(w, v)
       THEN /\ dep' = [dep EXCEPT ![v].phase = "provisioning"]
            /\ run' = [run EXCEPT ![w].pc = Prepare(v)]
       ELSE run' = Throw(w) /\ UNCHANGED dep
    /\ UNCHANGED <<app, outbox, lease, receipts, preview, cloud, faults>>

\* onReceipt: ensureLease, then recordResourceReceipt for a phase that may have receipts.
MayRecord(w, v) ==
    Renewable(w, v) /\ dep[v].phase \in {"provisioning", "deploying", "temporary_ready", "ready", "failed"}

\* Faulty preparation: the resource is created before its receipt is written.
Mutant_PlanResource(w) ==
    /\ run[w].pc = "plan" /\ run' = [run EXCEPT ![w].pc = "create"]
    /\ UNCHANGED <<rows, cloud, faults>>

\* The receipts prepareResources is given: this deployment's and the current one's.
Known(v) == v \in receipts \/ app.current \in receipts

\* prepareResources, first half: the receipt is written before the resource is made.
PlanResource(w) ==
    /\ run[w].pc = "plan"
    /\ IF MayRecord(w, V(w))
       THEN /\ receipts' = receipts \cup {V(w)}
            /\ run' = [run EXCEPT ![w] = [@ EXCEPT !.pc = "create", !.known = Known(V(w))]]
       ELSE UNCHANGED receipts /\ run' = Throw(w)
    /\ UNCHANGED <<app, dep, outbox, lease, preview, cloud, faults>>

\* With a receipt the resource is looked up by its name first; without one it is
\* created, and Cloudflare refuses a name that is taken.
CreateResource(w) ==
    /\ run[w].pc = "create"
    /\ IF exists /\ ~run[w].known
       THEN run' = Throw(w) /\ UNCHANGED exists
       ELSE run' = [run EXCEPT ![w] = [@ EXCEPT !.pc = "mark", !.known = FALSE]] /\ exists' = TRUE
    /\ UNCHANGED <<rows, live, faults>>

\* The receipt becomes ready (its status is left out), ensureLease, markDeploymentDeploying.
MarkDeploying(w) ==
    /\ run[w].pc = "mark"
    /\ IF Renewable(w, V(w)) /\ dep[V(w)].phase \in Active
       THEN /\ dep' = [dep EXCEPT ![V(w)].phase = "deploying"]
            /\ app' = [app EXCEPT !.status = "deploying"]
            /\ run' = [run EXCEPT ![w] = [@ EXCEPT !.pc = "upload", !.op = TRUE]]
       ELSE /\ run' = IF Renewable(w, V(w)) THEN Throw(w) ELSE LoseLease(w)
            /\ UNCHANGED <<app, dep>>
    /\ UNCHANGED <<outbox, lease, receipts, preview, cloud, faults>>

\* The adapter's deploy or rollback: the App's Worker serves this version from here.
Upload(w) ==
    /\ run[w].pc = "upload" /\ run' = [run EXCEPT ![w].pc = "complete"]
    /\ live' = V(w)
    /\ UNCHANGED <<rows, exists, faults>>

\* Faulty completion: the generation of the App is not compared.
Mutant_Completable(w, v) == ActiveLease(w, v) /\ dep[v].phase = "deploying"

\* ensureLease, then completeDeployment's own checks.
Completable(w, v) == Renewable(w, v) /\ dep[v].phase = "deploying"

Complete(w) ==
    LET temporary == dep[V(w)].target = "temporary"
    IN  /\ run[w].pc = "complete"
        /\ IF Completable(w, V(w))
           THEN /\ dep' = [dep EXCEPT ![V(w)].phase =
                             IF temporary THEN "temporary_ready" ELSE "ready"]
                /\ app' = [app EXCEPT !.status = IF temporary THEN "preview" ELSE "ready",
                                      !.current = V(w)]
                /\ run' = [run EXCEPT ![w].pc = "settle"]
           ELSE /\ run' = IF Renewable(w, V(w)) THEN Throw(w) ELSE LoseLease(w)
                /\ UNCHANGED <<app, dep>>
        /\ UNCHANGED <<outbox, lease, receipts, preview, cloud, faults>>

\* completeOutboxByKey changes nothing, silently, when its conditions fail.
CompleteByKey(w) ==
    /\ run[w].pc = "settle"
    /\ outbox' = IF outbox[V(w)].state \in {"pending", "leased"} /\ Renewable(w, V(w))
                 THEN [outbox EXCEPT ![V(w)] = Closed(@, "completed")] ELSE outbox
    /\ run' = End(w, TRUE)
    /\ UNCHANGED <<app, dep, lease, receipts, preview, cloud, faults>>

-----------------------------------------------------------------------------
(* Failures, the catch and finally clauses, and what the worker does next *)

\* A step throws: Cloudflare refuses, the database is away, the worker was stopped.
Fault(w) ==
    /\ run[w].pc \in Working /\ run' = Throw(w)
    /\ UNCHANGED <<rows, cloud, faults>>

\* The heartbeat could not renew: the catch clause then leaves the rows alone.
HeartbeatFails(w) ==
    /\ run[w].pc \in Working /\ crashes + stalls < MaxFaults
    /\ run' = LoseLease(w) /\ stalls' = stalls + 1
    /\ UNCHANGED <<rows, cloud, crashes>>

\* failDeployment with the lease token, unless the lease is known to be lost; the rows
\* stay as they are when its checks refuse it or the database does not answer.
FailDeployment(w) ==
    /\ run[w].pc = "failing"
    /\ \/ /\ ActiveLease(w, V(w)) /\ Failable(V(w))
          /\ FailRow(V(w))
          /\ run' = [run EXCEPT ![w].pc = "fail_outbox"]
          /\ UNCHANGED crashes
       \/ /\ ActiveLease(w, V(w)) /\ Fresh(V(w)) /\ dep[V(w)].phase = "failed"
          /\ run' = [run EXCEPT ![w].pc = "fail_outbox"]
          /\ UNCHANGED <<app, dep, crashes>>
       \/ /\ \/ /\ \/ ~ActiveLease(w, V(w)) \/ ~Fresh(V(w))
                   \/ dep[V(w)].phase \in {"ready", "expired"}
                /\ UNCHANGED crashes
             \/ crashes + stalls < MaxFaults /\ crashes' = crashes + 1
          /\ run' = End(w, FALSE)
          /\ UNCHANGED <<app, dep>>
    /\ UNCHANGED <<outbox, lease, receipts, preview, cloud, stalls>>

\* failOutboxByKey: a rollback that failed before it was marked deploying looks
\* for a "deploy" record and finds none.
FailOutbox(w) ==
    /\ run[w].pc = "fail_outbox"
    /\ outbox' = IF /\ outbox[V(w)].state \in {"pending", "leased"} /\ ActiveLease(w, V(w))
                    /\ dep[V(w)].back = 0 \/ run[w].op
                 THEN [outbox EXCEPT ![V(w)] = Closed(@, "failed")] ELSE outbox
    /\ run' = End(w, FALSE)
    /\ UNCHANGED <<app, dep, lease, receipts, preview, cloud, faults>>

\* The finally clause: releaseLease deletes the row with this run's token.  Its error
\* is swallowed, and the row then waits to run out with a token nobody uses.
Release(w) ==
    \/ lease' = (IF lease.token = w THEN NoLease ELSE lease) /\ UNCHANGED crashes
    \/ /\ crashes + stalls < MaxFaults /\ crashes' = crashes + 1
       /\ lease.token = w /\ lease' = [lease EXCEPT !.token = Lost]

\* The run came to its end: it returned and did not throw.
Returned(w) == run[w].ok

\* The finally clause, then completeOutbox after a run that returned and retryOutbox
\* after one that threw; a completion that cannot be stored is retried too.
Acknowledge(w) ==
    /\ run[w].pc = "acknowledge"
    /\ run' = [run EXCEPT ![w] = AfterRecord(w)]
    /\ Release(w)
    /\ \/ /\ Returned(w)
          /\ outbox' = IF Owned(w, V(w))
                       THEN [outbox EXCEPT ![V(w)] =
                               Closed(@, IF Fresh(V(w)) THEN "completed" ELSE "failed")]
                       ELSE outbox
       \/ Retry(w)
    /\ UNCHANGED <<app, dep, receipts, preview, cloud, stalls>>

\* The process dies: its token and its worker id belong to nobody any more.
Crash(w) ==
    /\ run[w].pc # "idle" /\ crashes + stalls < MaxFaults /\ crashes' = crashes + 1
    /\ run' = [run EXCEPT ![w] = Idle]
    /\ lease' = IF lease.token = w THEN [lease EXCEPT !.token = Lost] ELSE lease
    /\ outbox' = [v \in Versions |->
         IF Owned(w, v) THEN [outbox[v] EXCEPT !.owner = Lost] ELSE outbox[v]]
    /\ UNCHANGED <<app, dep, receipts, preview, cloud, stalls>>

\* A lease nobody uses any more runs out.
ExpireDeadLease ==
    /\ lease # NoLease /\ lease.token = Lost
    /\ lease' = NoLease
    /\ UNCHANGED <<app, dep, outbox, receipts, preview, cloud, run, faults>>

\* A step outlasts the lease: its heartbeat failed, or the App moved on and it
\* is no longer renewed.
ExpireHeldLease ==
    /\ lease.token # Lost
    /\ crashes + stalls < MaxFaults /\ stalls' = stalls + 1
    /\ lease' = NoLease
    /\ UNCHANGED <<app, dep, outbox, receipts, preview, cloud, run, crashes>>

\* The claim of a record is never renewed: it runs out when its worker is dead,
\* and also when the worker takes longer than the claim.
ExpireDeadClaim(v) ==
    /\ outbox[v].state = "leased" /\ outbox[v].live /\ outbox[v].owner = Lost
    /\ outbox' = [outbox EXCEPT ![v].live = FALSE]
    /\ UNCHANGED <<app, dep, lease, receipts, preview, cloud, run, faults>>

ExpireHeldClaim(v) ==
    /\ outbox[v].state = "leased" /\ outbox[v].live /\ outbox[v].owner # Lost
    /\ crashes + stalls < MaxFaults /\ crashes' = crashes + 1
    /\ outbox' = [outbox EXCEPT ![v].live = FALSE]
    /\ UNCHANGED <<app, dep, lease, receipts, preview, cloud, run, stalls>>

-----------------------------------------------------------------------------
WorkerStep(w) ==
    \/ Claim(w) \/ AcquireLease(w) \/ Read(w)
    \/ Provision(w) \/ PlanResource(w) \/ CreateResource(w)
    \/ MarkDeploying(w) \/ Upload(w) \/ Complete(w) \/ CompleteByKey(w)
    \/ FailDeployment(w) \/ FailOutbox(w) \/ Acknowledge(w)

Next ==
    \/ Begin \/ Archive \/ Restore \/ ExpirePreview \/ ExpireDeadLease \/ ExpireHeldLease
    \/ \E v \in Versions :
          \/ Rollback(v) \/ DeployThrows(v) \/ ExpireDeadClaim(v) \/ ExpireHeldClaim(v)
          \/ \E kind \in {"temporary", "byoc"} : SelectTarget(v, kind)
    \/ \E w \in Workers :
          \/ WorkerStep(w) \/ ReleaseBatch(w)
          \/ Fault(w) \/ HeartbeatFails(w) \/ Crash(w)

Spec == Init /\ [][Next]_vars

\* Workers poll on a timer and their steps end, each call having a timeout; a
\* lease or a claim nobody renews runs out with the clock.
SystemStep ==
    \/ \E w \in Workers : WorkerStep(w)
    \/ ExpireDeadLease
    \/ \E v \in Versions : ExpireDeadClaim(v)

Fairness == WF_vars(SystemStep)

FairSpec == Spec /\ Fairness

-----------------------------------------------------------------------------
(* Properties *)

\* The rows hold what their columns may hold, and a token in app_leases that a run
\* can still use belongs to one that is under way.
TypeOK ==
    /\ app \in [status : {"none", "needs_action", "deploying", "ready", "preview", "failed", "archived"},
                gen : 0..MaxGeneration, current : 0..MaxDeployments,
                target : {"unassigned", "temporary", "byoc"}]
    /\ dep \in [Versions -> [phase : Phases, gen : 0..MaxGeneration,
                             target : {"unassigned", "temporary", "byoc"}, back : 0..MaxDeployments]]
    /\ outbox \in [Versions -> [state : {"none", "pending", "leased", "completed", "failed"},
                                owner : Workers \cup {Lost}, live : BOOLEAN, attempts : Nat]]
    /\ receipts \subseteq Versions
    /\ lease \in [token : Workers \cup {Lost}, gen : 0..MaxGeneration]
    /\ lease.token # Lost => run[lease.token].pc \in Working \cup {"failing", "fail_outbox", "acknowledge"}

\* An App that is shown as ready serves a deployment that reached ready: neither a
\* late failure of another deployment nor an expiry leaves the status behind.
ReadyIsReady ==
    app.status = "ready" => app.current # 0 /\ dep[app.current].phase = "ready"

\* A deployment of the App's generation that is under way has a record that some
\* worker will claim, unless retryOutbox used up its attempts: no crash, expiry or
\* race of two workers leaves it queued with nobody to run it.
WorkNotLost ==
    \A v \in Versions :
        dep[v].phase \in Active /\ Fresh(v) =>
            \/ outbox[v].state \in {"pending", "leased"}
            \/ outbox[v].attempts >= MaxAttempts

\* A completed record belongs to a finalized deployment: the acknowledgement of one
\* worker never closes what another one, or a crashed run, has left unfinished.
CompletedIsFinal ==
    \A v \in Versions : outbox[v].state = "completed" => dep[v].phase \in Finalized

\* Whatever was created in the user's Cloudflare account has a receipt, even when
\* the server died right after the creation: prepareResources writes it first.
ReceiptFirst == exists => receipts # {}

\* While no lease ran out under its runner, one run at a time works on the App.
OneRunner == stalls = 0 => Cardinality({w \in Workers : run[w].pc \in Working}) <= 1

\* The rows of app, deployment, outbox and lease, each written in a transaction of its
\* own by servers that die in between, agree on what is deployed, done and running.
RowsAgree == TypeOK /\ ReadyIsReady /\ CompletedIsFinal /\ OneRunner

\* A deployment becomes current only for the App's own generation and over older
\* ones, and, while no lease ran out under its runner, only when it is what the
\* Worker serves: completeDeployment never records a version that was overwritten.
ServedIsCurrent ==
    [][app'.current # app.current =>
         /\ dep[app'.current].gen = app.gen
         /\ app.current # 0 => dep[app.current].gen < app.gen
         /\ stalls = 0 => live = app'.current]_vars

\* A queued deployment is finalized, unless the App moved on to another generation
\* or the attempts are used up.
EveryQueuedEnds ==
    \A v \in Versions :
        dep[v].phase \in Active ~>
            (dep[v].phase \in Finalized \/ ~Fresh(v) \/ outbox[v].state = "failed")
=============================================================================
