------------------------------- MODULE UserSpace -------------------------------
(***************************************************************************)
(* The user space of one session: a folder of the user's machine that only *)
(* the browser can touch.  The Pi child asks the server, the server's      *)
(* broker (web/server/user-space-broker.ts) broadcasts the request to      *)
(* every browser page of the session, and a page (web/src/ws.ts,           *)
(* web/src/user-space.ts) reads or writes the folder and answers.          *)
(*                                                                         *)
(* Four kinds of operation share one table: "read" (any page's answer      *)
(* settles it), "write" (a page must first be authorized, by socket),      *)
(* "checkout" (a page uploads a file into private staging) and "checkin"   *)
(* (the server stages bytes, a page downloads them, obtains a commit lease *)
(* over HTTP and writes them).                                             *)
(*                                                                         *)
(* Sockets close on either side first, pages are reloaded (the replay of   *)
(* the event buffer then delivers the old requests again), HTTP answers    *)
(* are lost, timers fire, mounts change, the child is stopped and          *)
(* relaunched, and the session is deleted while any of this is under way.  *)
(***************************************************************************)
EXTENDS Integers, FiniteSets

CONSTANTS Tabs,       \* the browser pages that show the session
          MaxOps,     \* operations the child asks for
          MaxEpochs,  \* runtime generations (launches and revocations)
          MaxSocks,   \* browser sockets ever opened
          MaxFaults   \* closed sockets, reloads, lost HTTP answers, mount changes

ASSUME UserSpaceAssumption ==
  /\ IsFiniteSet(Tabs) /\ Tabs # {}
  /\ {MaxOps, MaxFaults} \subseteq Nat
  /\ MaxEpochs \in Nat \ {0}   \* a session starts in its first generation
  /\ MaxSocks \in Nat /\ MaxSocks >= Cardinality(Tabs)

VARIABLES
  ops,      \* [1..MaxOps -> record]: state.pending and transfers of the broker
  count,    \* operations created
  wrote,    \* [1..MaxOps -> Nat]: completed native writes per operation
  tab,      \* [Tabs -> [1..MaxOps -> [st, sock]]]: what each page does
  sockOf,   \* [Tabs -> 0..MaxSocks]: the page's open socket, 0 when closed
  nextSock, \* sockets opened so far
  srv,      \* session.browserSockets
  mount,    \* "off", "ro" or "rw": status and canWrite of the mount
  holders,  \* the pages whose `mounts` map holds the folder
  epoch,    \* state.runtimeEpoch (and its token), numbered
  running,  \* epoch of the live child's capability, 0 without one
  drain,    \* the revocation being awaited: NoDrain or [epoch, ids]
  drained,  \* the newest epoch whose predecessors a revocation declared ended
  deleted,  \* the session was removed
  reloads,  \* a page was reloaded
  faults

vars == <<ops, count, wrote, tab, sockOf, nextSock, srv, mount, holders, epoch,
          running, drain, drained, deleted, reloads, faults>>
page == <<tab, sockOf, nextSock>>
life == <<epoch, running, drain, drained, deleted>>
link == <<sockOf, nextSock, srv, holders, reloads>>

Ops == 1..MaxOps
Kinds == {"read", "write", "checkout", "checkin"}
Transfers == {"checkout", "checkin"}
NoDrain == [epoch |-> 0, ids |-> {}]
Idle == [st |-> "none", sock |-> 0]
Unused == [kind |-> "none", epoch |-> 0, out |-> "none", owner |-> 0,
           lease |-> FALSE, staged |-> "no", got |-> FALSE, ups |-> {}]

(* The order in which pages opened their sockets does not matter; the      *)
(* first sockets are dealt out once and for all.                           *)
FirstSocks == CHOOSE f \in [Tabs -> 1..Cardinality(Tabs)] :
                \A s, t \in Tabs : f[s] = f[t] => s = t

Init ==
  /\ ops = [o \in Ops |-> Unused] /\ count = 0 /\ wrote = [o \in Ops |-> 0]
  /\ tab = [t \in Tabs |-> [o \in Ops |-> Idle]]
  /\ sockOf = FirstSocks /\ nextSock = Cardinality(Tabs)
  /\ srv = 1..Cardinality(Tabs)
  /\ mount = "rw" /\ holders \in SUBSET Tabs \ {{}}
  /\ epoch = 1 /\ running = 1 /\ drain = NoDrain /\ drained = 1
  /\ deleted = FALSE /\ reloads = 0 /\ faults = 0

--------------------------------------------------------------------------------
(* Outcomes.  A transfer that ended stays in the map until its staged      *)
(* entry is removed ("removing").                                          *)

IsTransfer(r) == r.kind \in Transfers

(* isAuthorizedMutationRequest, isAuthorizedCheckinTransfer *)
Authorised(r) == r.out = "pending" /\ (r.owner # 0 \/ r.lease)

Mutant_Ended(r, out) == IF r.out # "pending" THEN r ELSE [r EXCEPT !.out = out]

(* settlePendingRequest, resolveTransfer, rejectTransfer: the first        *)
(* outcome counts, and a transfer starts to remove its staged entry.  A    *)
(* resolved checkout keeps its file for the child.                         *)
Ended(r, out) ==
  IF r.out # "pending" THEN r
  ELSE [r EXCEPT !.out = out,
                 !.staged = IF ~IsTransfer(r) \/ (r.kind = "checkout" /\ out = "ok")
                            THEN @ ELSE "removing"]

Mutant_Spared(r) == FALSE

(* Authorization is the point of no return: the server ends only           *)
(* operations no page may already be writing for.                          *)
Spared(r) == Authorised(r)

RejectedBy(r, out) == IF Spared(r) THEN r ELSE Ended(r, out)

(* requireMountedMount *)
Mounted(mode) == mount = "rw" \/ (mode = "read" /\ mount = "ro")

(* requireTransfer: a call for a transfer of an older generation ends it.  *)
Current(r) == r.out = "pending" /\ r.epoch = epoch /\ ~deleted
Stale(r) == r.out = "pending" /\ ~Current(r)

--------------------------------------------------------------------------------
(* The child's requests.                                                   *)

New(kind, out, staged) ==
  /\ running # 0 /\ running = epoch /\ ~deleted /\ count < MaxOps
  /\ count' = count + 1
  /\ ops' = [ops EXCEPT ![count + 1] =
               [Unused EXCEPT !.kind = kind, !.epoch = epoch, !.out = out,
                              !.staged = staged]]
  /\ UNCHANGED <<wrote, page, srv, mount, holders, life, reloads, faults>>

RequestRead == Mounted("read") /\ New("read", "pending", "no")
RequestWrite == Mounted("write") /\ New("write", "pending", "no")
RequestCheckout == Mounted("read") /\ New("checkout", "pending", "no")
RequestCheckin == Mounted("write") /\ New("checkin", "staging", "file")

(* validateAfterWrite of the staged bytes; a failure removes the entry.    *)
FinishStaging(o) ==
  /\ ops[o].out = "staging"
  /\ ops' = [ops EXCEPT ![o] =
               IF @.epoch = epoch /\ ~deleted
               THEN [@ EXCEPT !.out = "validated"]
               ELSE [@ EXCEPT !.out = "rejected", !.staged = "no"]]
  /\ UNCHANGED <<count, wrote, page, srv, mount, holders, life, reloads, faults>>

(* createTransfer, after the await: nothing is validated again.            *)
CreateTransfer(o) ==
  /\ ops[o].out = "validated"
  /\ ops' = [ops EXCEPT ![o].out = "pending"]
  /\ UNCHANGED <<count, wrote, page, srv, mount, holders, life, reloads, faults>>

(* REQUEST_TIMEOUT_MS and TRANSFER_TIMEOUT_MS; authorization clears both.  *)
Expire(o) ==
  /\ ops[o].out = "pending" /\ ~Authorised(ops[o])
  /\ ops' = [ops EXCEPT ![o] = Ended(@, "rejected")]
  /\ UNCHANGED <<count, wrote, page, srv, mount, holders, life, reloads, faults>>

(* removeStagedEntryNoFollow finishes; the transfer leaves the map.        *)
RemoveStaged(o) ==
  /\ ops[o].staged = "removing"
  /\ ops' = [ops EXCEPT ![o].staged = "no"]
  /\ UNCHANGED <<count, wrote, page, srv, mount, holders, life, reloads, faults>>

(* consumeBlobCheckout: the file is read, then removed in every case.      *)
Consume(o) ==
  /\ ops[o].kind = "checkout" /\ ops[o].out = "ok"
  /\ ops' = [ops EXCEPT ![o].out = "consumed", ![o].staged = "no"]
  /\ UNCHANGED <<count, wrote, page, srv, mount, holders, life, reloads, faults>>

--------------------------------------------------------------------------------
(* The page: reads and authorized writes over the WebSocket.               *)

Live(t) == sockOf[t] # 0 /\ sockOf[t] \in srv
Becomes(t, o, st) == tab' = [tab EXCEPT ![t][o].st = st]

(* user_space_request: the page performs the operation at once; the answer *)
(* goes out on whatever socket is then open.                               *)
PerformRead(t, o) ==
  /\ Live(t) /\ ops[o].kind = "read" /\ tab[t][o].st = "none"
  /\ Becomes(t, o, IF t \in holders THEN "done" ELSE "failed")
  /\ UNCHANGED <<ops, count, wrote, mount, life, link, faults>>

AnswerRead(t, o) ==
  /\ ops[o].kind = "read" /\ tab[t][o].st \in {"done", "failed"}
  /\ Becomes(t, o, "gone")
  /\ ops' = IF Live(t) /\ ~deleted
            THEN [ops EXCEPT ![o] = Ended(@, IF tab[t][o].st = "done" THEN "ok" ELSE "failed")]
            ELSE ops
  /\ UNCHANGED <<count, wrote, mount, life, link, faults>>

(* user_space_mutation_request: remember it and ask on this socket.        *)
AskAuthorization(t, o) ==
  /\ Live(t) /\ ops[o].kind = "write" /\ tab[t][o].st = "none"
  /\ tab' = [tab EXCEPT ![t][o] = [st |-> "asked", sock |-> sockOf[t]]]
  /\ UNCHANGED <<ops, count, wrote, mount, life, link, faults>>

(* authorizeMutationCommit for a socket that does not hold the lease yet.  *)
Grantable(o, s) == Current(ops[o]) /\ ops[o].owner = 0 /\ Mounted("write")

(* The server handles the request for authorization; a refusal makes the   *)
(* page forget the operation.                                              *)
Authorise(t, o) ==
  LET s == tab[t][o].sock IN
  /\ ops[o].kind = "write" /\ tab[t][o].st = "asked"
  /\ s \in srv /\ ~deleted /\ ~(Authorised(ops[o]) /\ ops[o].owner = s)
  /\ IF Grantable(o, s)
     THEN ops' = [ops EXCEPT ![o].owner = s] /\ UNCHANGED tab
     ELSE UNCHANGED ops /\ Becomes(t, o, "gone")
  /\ UNCHANGED <<count, wrote, mount, life, link, faults>>

Mutant_Granted(t, o) == ops[o].owner # 0

(* The authorization is sent to the one socket it was given to.            *)
Granted(t, o) == ops[o].owner = tab[t][o].sock

(* user_space_mutation_authorization arrives on the same open socket.      *)
StartWrite(t, o) ==
  /\ ops[o].kind = "write" /\ tab[t][o].st = "asked"
  /\ Granted(t, o) /\ sockOf[t] = tab[t][o].sock
  /\ Becomes(t, o, "executing")
  /\ UNCHANGED <<ops, count, wrote, mount, life, link, faults>>

(* executeUserSpaceOperation crosses the native write or fails before it;   *)
(* a workspace that was replaced during the write fails it behind it.      *)
PerformWrite(t, o) ==
  /\ ops[o].kind = "write" /\ tab[t][o].st = "executing"
  /\ \/ /\ t \in holders
        /\ wrote' = [wrote EXCEPT ![o] = @ + 1]
        /\ \E st \in {"done", "failed"} : Becomes(t, o, st)
     \/ Becomes(t, o, "failed") /\ UNCHANGED wrote
  /\ UNCHANGED <<ops, count, mount, life, link, faults>>

(* handleResponse: a mutation is settled only by the authorized socket.    *)
Accepts(o, s) == Authorised(ops[o]) /\ ops[o].owner = s

(* sendUserSpaceTerminalResponse: on the authorized socket or not at all.  *)
AnswerWrite(t, o) ==
  LET s == tab[t][o].sock IN
  /\ ops[o].kind = "write" /\ tab[t][o].st \in {"done", "failed"}
  /\ Becomes(t, o, "gone")
  /\ ops' = IF sockOf[t] = s /\ s \in srv /\ ~deleted /\ Accepts(o, s)
            THEN [ops EXCEPT ![o] = Ended(@, IF tab[t][o].st = "done" THEN "ok" ELSE "failed")]
            ELSE ops
  /\ UNCHANGED <<count, wrote, mount, life, link, faults>>

--------------------------------------------------------------------------------
(* The page: transfers over HTTP.  `Complete` is handleTransferComplete.   *)

Mutant_Complete(r, ok, withLease) ==
  IF Stale(r) /\ ~Authorised(r) THEN Ended(r, "rejected")
  ELSE IF r.out # "pending" THEN r
  ELSE IF ~ok THEN Ended(r, "failed")
  ELSE IF (r.kind = "checkout" /\ ~r.got) \/ (r.kind = "checkin" /\ ~r.lease) THEN r
  ELSE Ended(r, "ok")

(* requireTransfer, then: a lease once given must come back with every     *)
(* terminal report, a checkout needs its upload and a check-in its lease.  *)
Complete(r, ok, withLease) ==
  IF Stale(r) /\ ~Authorised(r) THEN Ended(r, "rejected")
  ELSE IF r.out # "pending" \/ (r.lease /\ ~withLease) THEN r
  ELSE IF ~ok THEN Ended(r, "failed")
  ELSE IF (r.kind = "checkout" /\ ~r.got) \/ (r.kind = "checkin" /\ ~r.lease) THEN r
  ELSE Ended(r, "ok")

(* handleCheckoutUpload up to its await.                                   *)
BeginUpload(t, o) ==
  /\ Live(t) /\ ops[o].kind = "checkout" /\ tab[t][o].st = "none"
  /\ IF t \notin holders
     THEN Becomes(t, o, "failed") /\ UNCHANGED ops
     ELSE IF Current(ops[o]) /\ ~ops[o].got
     THEN Becomes(t, o, "uploading") /\ ops' = [ops EXCEPT ![o].ups = @ \union {t}]
     ELSE /\ Becomes(t, o, "failed")
          /\ ops' = IF Stale(ops[o]) THEN [ops EXCEPT ![o] = Ended(@, "rejected")] ELSE ops
  /\ UNCHANGED <<count, wrote, mount, life, link, faults>>

(* The exclusive write ends.  When the entry exists the write fails, and   *)
(* the failure path removes the entry, whoever wrote it.                   *)
FinishUpload(t, o) ==
  LET r == [ops[o] EXCEPT !.ups = @ \ {t}] IN
  /\ t \in ops[o].ups
  /\ \/ /\ r.staged # "file" /\ r.epoch = epoch /\ ~deleted
        /\ ops' = [ops EXCEPT ![o] = [r EXCEPT !.staged = IF @ = "no" THEN "file" ELSE @, !.got = TRUE]]
        /\ Becomes(t, o, IF tab[t][o].st = "uploading" THEN "uploaded" ELSE tab[t][o].st)
     \/ /\ r.staged = "file" \/ r.epoch # epoch \/ deleted
        /\ ops' = [ops EXCEPT ![o] =
                     Ended([r EXCEPT !.staged = IF @ = "file" THEN "no" ELSE @], "rejected")]
        /\ Becomes(t, o, IF tab[t][o].st = "uploading" THEN "failed" ELSE tab[t][o].st)
  /\ UNCHANGED <<count, wrote, mount, life, link, faults>>

CompleteCheckout(t, o) ==
  /\ ops[o].kind = "checkout" /\ tab[t][o].st \in {"uploaded", "failed"}
  /\ ops' = [ops EXCEPT ![o] = Complete(@, tab[t][o].st = "uploaded", FALSE)]
  /\ Becomes(t, o, "gone")
  /\ UNCHANGED <<count, wrote, mount, life, link, faults>>

(* The page checks the base and downloads (handleCheckinDownload).         *)
Download(t, o) ==
  /\ Live(t) /\ ops[o].kind = "checkin" /\ ops[o].out \notin {"staging", "validated"}
  /\ tab[t][o].st = "none"
  /\ IF t \notin holders \/ wrote[o] > 0
     THEN Becomes(t, o, "failed") /\ UNCHANGED ops
     ELSE IF Current(ops[o])
     THEN Becomes(t, o, "downloaded") /\ ops' = [ops EXCEPT ![o].got = TRUE]
     ELSE /\ Becomes(t, o, "failed")
          /\ ops' = IF Stale(ops[o]) THEN [ops EXCEPT ![o] = Ended(@, "rejected")] ELSE ops
  /\ UNCHANGED <<count, wrote, mount, life, link, faults>>

(* authorizeCheckinCommit: a lease already given is given again; the first *)
(* one needs the mount to be writable still (revalidateCheckinCommit).     *)
Leased(r) ==
  IF ~Current(r) THEN (IF Stale(r) THEN Ended(r, "rejected") ELSE r)
  ELSE IF r.lease THEN r
  ELSE IF ~r.got THEN r
  ELSE IF Mounted("write") THEN [r EXCEPT !.lease = TRUE]
  ELSE Ended(r, "rejected")

(* The answer of the server may be lost on both attempts.                  *)
Commit(t, o) ==
  LET r == Leased(ops[o]) IN
  /\ ops[o].kind = "checkin" /\ tab[t][o].st = "downloaded"
  /\ ops' = [ops EXCEPT ![o] = r]
  /\ \/ /\ Becomes(t, o, IF Authorised(r) /\ Current(r) THEN "leased" ELSE "failed")
        /\ UNCHANGED faults
     \/ /\ faults < MaxFaults /\ faults' = faults + 1
        /\ Becomes(t, o, "failed")
  /\ UNCHANGED <<count, wrote, mount, life, link>>

(* assertCheckinBaseUnchanged, again, at the last safe point.              *)
Recheck(t, o) ==
  /\ tab[t][o].st = "leased"
  /\ Becomes(t, o, IF wrote[o] = 0 THEN "writing" ELSE "refused")
  /\ UNCHANGED <<ops, count, wrote, mount, life, link, faults>>

(* commitWritableFile: close() is irreversible.                            *)
CloseFile(t, o) ==
  /\ tab[t][o].st = "writing"
  /\ \/ wrote' = [wrote EXCEPT ![o] = @ + 1] /\ Becomes(t, o, "written")
     \/ Becomes(t, o, "refused") /\ UNCHANGED wrote
  /\ UNCHANGED <<ops, count, mount, life, link, faults>>

(* completeBlobTransfer, with the lease when the page has it; the call may *)
(* be lost and is not repeated.                                            *)
CompleteCheckin(t, o) ==
  LET st == tab[t][o].st IN
  /\ ops[o].kind = "checkin" /\ st \in {"written", "refused", "failed"}
  /\ Becomes(t, o, "gone")
  /\ \/ /\ ops' = [ops EXCEPT ![o] = Complete(@, st = "written", st # "failed")]
        /\ UNCHANGED faults
     \/ /\ faults < MaxFaults /\ faults' = faults + 1 /\ UNCHANGED ops
  /\ UNCHANGED <<count, wrote, mount, life, link>>

--------------------------------------------------------------------------------
(* Sockets, pages and mounts.                                              *)

(* discardAwaitingMutationsForSocket *)
Discarded(f, s) ==
  [o \in Ops |-> IF f[o].st = "asked" /\ f[o].sock = s THEN [f[o] EXCEPT !.st = "gone"]
                 ELSE f[o]]

(* onclose at the page.                                                    *)
PageLosesSocket(t) ==
  /\ sockOf[t] # 0
  /\ sockOf[t] \in srv => faults < MaxFaults
  /\ faults' = IF sockOf[t] \in srv THEN faults + 1 ELSE faults
  /\ tab' = [tab EXCEPT ![t] = Discarded(@, sockOf[t])]
  /\ sockOf' = [sockOf EXCEPT ![t] = 0]
  /\ UNCHANGED <<ops, count, wrote, nextSock, srv, mount, holders, life, reloads>>

(* markOffline *)
Offline(f) == [o \in Ops |-> IF f[o].out = "pending" THEN RejectedBy(f[o], "rejected")
                             ELSE f[o]]

(* handleBrowserClose; the mounts go offline with the last socket.  The    *)
(* server can notice before the page does.                                 *)
ServerLosesSocket(s) ==
  /\ s \in srv
  /\ (\E t \in Tabs : sockOf[t] = s) => faults < MaxFaults
  /\ faults' = IF \E t \in Tabs : sockOf[t] = s THEN faults + 1 ELSE faults
  /\ srv' = srv \ {s}
  /\ IF srv' = {} /\ ~deleted
     THEN mount' = "off" /\ ops' = Offline(ops)
     ELSE UNCHANGED <<mount, ops>>
  /\ UNCHANGED <<count, wrote, page, holders, life, reloads>>

Reconnect(t) ==
  /\ sockOf[t] = 0 /\ nextSock < MaxSocks /\ ~deleted
  /\ nextSock' = nextSock + 1
  /\ sockOf' = [sockOf EXCEPT ![t] = nextSock + 1]
  /\ srv' = srv \union {nextSock + 1}
  /\ UNCHANGED <<ops, count, wrote, tab, mount, holders, life, reloads, faults>>

(* The page is reloaded: it forgets everything, and a fresh subscription   *)
(* replays every buffered request to it.                                   *)
Reload(t) ==
  /\ faults < MaxFaults /\ faults' = faults + 1
  /\ reloads' = 1
  /\ tab' = [tab EXCEPT ![t] = [o \in Ops |-> Idle]]
  /\ sockOf' = [sockOf EXCEPT ![t] = 0]
  /\ UNCHANGED <<ops, count, wrote, nextSock, srv, mount, holders, life>>

(* user_space_mount, user_space_status, user_space_unmount: any page's     *)
(* report replaces the mounts; pending operations are not touched.         *)
SetUserSpaces(m) ==
  /\ \E t \in Tabs : Live(t)
  /\ faults < MaxFaults /\ faults' = faults + 1
  /\ ~deleted /\ mount' = m /\ m # mount
  /\ UNCHANGED <<ops, count, wrote, page, srv, holders, life, reloads>>

--------------------------------------------------------------------------------
(* Runtime generations.                                                    *)

(* beginRuntimeRevocation on the table; a staged checkout nobody consumed  *)
(* is removed.                                                             *)
Revoked(f) ==
  [o \in Ops |-> IF f[o].out = "pending" THEN RejectedBy(f[o], "rejected")
                 ELSE IF f[o].kind = "checkout" /\ f[o].out = "ok"
                 THEN [f[o] EXCEPT !.out = "rejected", !.staged = "removing"]
                 ELSE f[o]]

Mutant_Draining(f) == {o \in Ops : f[o].staged = "removing" \/ f[o].out = "staging" \/ f[o].ups # {}}

(* The entries a revocation has to wait for: authorized operations,        *)
(* transfers being cleaned up and staging work.                            *)
Draining(f) == {o \in Ops : \/ Authorised(f[o])
                            \/ f[o].staged = "removing"
                            \/ f[o].out = "staging"
                            \/ f[o].ups # {}}

(* The child is stopped or exits: revokeRuntimeGeneration (awaited by the  *)
(* stop) and revokeInternalCapability.                                     *)
Revoke(awaited) ==
  /\ epoch < MaxEpochs /\ ~deleted
  /\ awaited => drain = NoDrain
  /\ epoch' = epoch + 1 /\ running' = 0
  /\ ops' = Revoked(ops)
  /\ drain' = IF awaited THEN [epoch |-> epoch + 1, ids |-> Draining(ops')] ELSE drain
  /\ UNCHANGED <<count, wrote, page, srv, mount, holders, drained, deleted, reloads, faults>>

(* waitForRuntimeDrain resolves.                                           *)
DrainEnds ==
  /\ drain # NoDrain /\ drain.ids \intersect Draining(ops) = {}
  /\ drained' = drain.epoch /\ drain' = NoDrain
  /\ UNCHANGED <<ops, count, wrote, page, srv, mount, holders, epoch, running, deleted, reloads, faults>>

(* RUNTIME_DRAIN_TIMEOUT_MS: the stop fails.                               *)
DrainTimesOut ==
  /\ drain # NoDrain /\ drain.ids \intersect Draining(ops) # {}
  /\ drain' = NoDrain
  /\ UNCHANGED <<ops, count, wrote, page, srv, mount, holders, epoch, running, drained, deleted, reloads, faults>>

(* The capability a launch receives is the one just rotated in.            *)
Issued(f) == IF Draining(f) = {} THEN epoch + 1 ELSE 0

(* issueInternalCapability: a launch is refused while anything drains.     *)
Launch ==
  /\ running = 0 /\ drain = NoDrain /\ epoch < MaxEpochs /\ ~deleted
  /\ epoch' = epoch + 1
  /\ ops' = Revoked(ops)
  /\ running' = Issued(ops')
  /\ drained' = IF Draining(ops') = {} THEN epoch + 1 ELSE drained
  /\ UNCHANGED <<count, wrote, page, srv, mount, holders, drain, deleted, reloads, faults>>

(* closeSession: the sockets are closed first, then removeSession refuses  *)
(* while an authorized mutation drains; the session then stays, offline.   *)
Delete ==
  /\ running = 0 /\ drain = NoDrain /\ ~deleted
  /\ srv' = {}
  /\ IF \E o \in Ops : Authorised(ops[o]) /\ ops[o].kind = "write"
     THEN mount' = "off" /\ ops' = Offline(ops) /\ UNCHANGED deleted
     ELSE /\ UNCHANGED mount
          /\ ops' = [o \in Ops |->
                       IF ops[o].kind = "checkout" /\ ops[o].out = "ok"
                       THEN [ops[o] EXCEPT !.out = "removed", !.staged = "removing"]
                       ELSE Ended(ops[o], "removed")]
          /\ deleted' = TRUE
  /\ UNCHANGED <<count, wrote, page, holders, epoch, running, drain, drained, reloads, faults>>

--------------------------------------------------------------------------------
ServerStep(o) == \/ FinishStaging(o) \/ CreateTransfer(o) \/ Expire(o)
                 \/ RemoveStaged(o) \/ Consume(o)

PageStep(t, o) ==
  \/ PerformRead(t, o) \/ AnswerRead(t, o)
  \/ AskAuthorization(t, o) \/ Authorise(t, o) \/ StartWrite(t, o)
  \/ PerformWrite(t, o) \/ AnswerWrite(t, o)
  \/ BeginUpload(t, o) \/ FinishUpload(t, o) \/ CompleteCheckout(t, o)
  \/ Download(t, o) \/ Commit(t, o) \/ Recheck(t, o) \/ CloseFile(t, o)
  \/ CompleteCheckin(t, o)

Next ==
  \/ RequestRead \/ RequestWrite \/ RequestCheckout \/ RequestCheckin
  \/ \E o \in Ops : ServerStep(o) \/ \E t \in Tabs : PageStep(t, o)
  \/ \E t \in Tabs : PageLosesSocket(t) \/ Reconnect(t) \/ Reload(t)
  \/ \E s \in 1..MaxSocks : ServerLosesSocket(s)
  \/ \E m \in {"off", "ro", "rw"} : SetUserSpaces(m)
  \/ \E awaited \in BOOLEAN : Revoke(awaited)
  \/ DrainEnds \/ DrainTimesOut \/ Launch \/ Delete

Spec == Init /\ [][Next]_vars

(* The server's timers and file operations end, a page goes on with what   *)
(* it has begun, and a socket one side closed is closed by the other.      *)
Fairness ==
  /\ \A o \in Ops : WF_vars(ServerStep(o)) /\ \A t \in Tabs : WF_vars(PageStep(t, o))
  /\ \A s \in 1..MaxSocks : WF_vars(ServerLosesSocket(s) /\ \A t \in Tabs : sockOf[t] # s)
  /\ \A t \in Tabs : WF_vars(PageLosesSocket(t) /\ sockOf[t] \notin srv)

FairSpec == Spec /\ Fairness

--------------------------------------------------------------------------------
Outcomes == {"none", "staging", "validated", "pending", "ok", "failed", "rejected",
             "consumed", "removed"}
Steps == {"none", "asked", "executing", "done", "failed", "gone", "uploading", "uploaded",
          "downloaded", "leased", "writing", "written", "refused"}

(* Fields of the broker and of the pages; at most the current epoch has a  *)
(* live child.                                                             *)
TypeOK ==
  /\ ops \in [Ops -> [kind : Kinds \union {"none"}, epoch : 0..MaxEpochs, out : Outcomes,
                      owner : 0..MaxSocks, lease : BOOLEAN,
                      staged : {"no", "file", "removing"}, got : BOOLEAN, ups : SUBSET Tabs]]
  /\ count \in 0..MaxOps
  /\ wrote \in [Ops -> Nat]
  /\ tab \in [Tabs -> [Ops -> [st : Steps, sock : 0..MaxSocks]]]
  /\ sockOf \in [Tabs -> 0..MaxSocks] /\ nextSock \in 0..MaxSocks
  /\ srv \subseteq 1..MaxSocks /\ mount \in {"off", "ro", "rw"} /\ holders \subseteq Tabs
  /\ epoch \in 0..MaxEpochs /\ running \in {0, epoch} /\ drained \in 0..epoch
  /\ drain \in [epoch : 0..MaxEpochs, ids : SUBSET Ops]
  /\ deleted \in BOOLEAN /\ reloads \in 0..1 /\ faults \in 0..MaxFaults

Mutation(o) == ops[o].kind = "write"

(* A page that may still change the folder for operation o.                *)
MayWrite(t, o) == tab[t][o].st \in {"executing", "leased", "writing"}

(* What the server itself declares failed (a timeout, the last socket      *)
(* closed, a revocation, a deleted session) was never written and never    *)
(* will be, and what it reports as done was written: authorization is the  *)
(* point of no return of authorizeMutationCommit.                          *)
Truthful ==
  \A o \in Ops : Mutation(o) =>
    /\ ops[o].out \in {"rejected", "removed"} =>
         wrote[o] = 0 /\ \A t \in Tabs : ~MayWrite(t, o)
    /\ ops[o].out = "ok" => wrote[o] = 1

(* However many pages receive a mutation, and however often it is replayed *)
(* to them, one page at most performs it.                                  *)
AtMostOnce == \A o \in Ops : Mutation(o) =>
  wrote[o] + Cardinality({t \in Tabs : MayWrite(t, o)}) <= 1

(* Once a stop has been reported complete, or the next child has received  *)
(* its capability, no page is inside a mutation of an older generation     *)
(* (revokeRuntimeGeneration, issueInternalCapability).                     *)
Fenced == \A o \in Ops, t \in Tabs :
  Mutation(o) /\ ops[o].epoch < drained => ~MayWrite(t, o)

(* While a single page ever held the folder and was never reloaded, a      *)
(* check-in that is reported as failed was not written, with one exception:*)
(* removeSession rejects a check-in that already has its commit lease      *)
(* (it waits for authorized writes only), and its page goes on writing.    *)
CheckinTruthful ==
  Cardinality(holders) = 1 /\ reloads = 0 =>
    \A o \in Ops :
      ops[o].kind = "checkin" /\ ops[o].out \in {"failed", "rejected", "removed"} =>
        \/ wrote[o] = 0 /\ \A t \in Tabs : ~MayWrite(t, o)
        \/ ops[o].out = "removed" /\ ops[o].lease

(* The same with several pages or a reload: "Once crossed, never downgrade *)
(* the broker outcome to failure" (web/src/user-space.ts).                 *)
NeverDowngraded ==
  \A o \in Ops : ops[o].kind = "checkin" /\ wrote[o] > 0 => ops[o].out \notin {"failed", "rejected"}

(* An authorized operation nobody will finish: the page that held the      *)
(* authorization is gone or could not report.                              *)
Abandoned(o) ==
  /\ Authorised(ops[o])
  /\ \A t \in Tabs : tab[t][o].st \in {"none", "gone"} \/ (Mutation(o) /\ sockOf[t] # ops[o].owner)

Open(o) == ops[o].out \in {"staging", "validated", "pending"}
           \/ (ops[o].kind = "checkin" /\ ops[o].staged # "no")

(* Every operation ends and every staged check-in is removed from disk,    *)
(* whatever closes, reloads or is revoked meanwhile, unless it was         *)
(* authorized and its page is gone.                                        *)
Settles == \A o \in Ops : Open(o) ~> (~Open(o) \/ Abandoned(o))
================================================================================
