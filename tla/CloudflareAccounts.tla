------------------------- MODULE CloudflareAccounts -------------------------
(***************************************************************************)
(* The accounts a deployment is published to, as AppCloudflareAccount-     *)
(* Service keeps them: temporary preview accounts, which expire unless the *)
(* user claims them, OAuth attempts, and one OAuth connection whose tokens *)
(* are refreshed by several server processes.  One deployment of one App   *)
(* moves through them.  Every database transaction and every call to       *)
(* Cloudflare is an action; requests, callbacks, refreshes and the cleanup *)
(* timer interleave between them.                                          *)
(*                                                                         *)
(* Operators named Mutant_... are faulty variants of the definition that   *)
(* follows them, kept to show that the properties can fail.                *)
(***************************************************************************)
EXTENDS Naturals, FiniteSets

CONSTANTS
    MaxPreviews, \* bound: temporary preview accounts the user asks for
    MaxAttempts, \* bound: OAuth attempts the user starts
    Servers,     \* server processes that refresh the connection
    MaxTokens,   \* bound: OAuth tokens Cloudflare issues
    Pasts,       \* what owners may have from earlier Apps: sets of the three below
    CanDiscard,  \* the client implements the optional discardTemporaryAccount
    MaxFaults    \* bound: see Faults

ASSUME AccountAssumption ==
    /\ {MaxPreviews, MaxAttempts, MaxTokens} \subseteq Nat \ {0}
    /\ MaxFaults \in Nat /\ CanDiscard \in BOOLEAN
    /\ Pasts \subseteq SUBSET {"preview", "connection", "attempt"}

VARIABLES
    pv,        \* preview -> its row: status, credential stored, its time is up
    prov,      \* preview -> place of the request that provisions it
    account,   \* Cloudflare: previews whose account exists
    disc,      \* previews whose account a request is about to discard
    astray,    \* previews whose provisioning or discard lost an answer or met a failure
    dep,       \* the deployment: phase, target, preview
    app,       \* the App: status, selected preview, still of the deployment's generation
    sel,       \* preview a target selection has read and not yet written
    att,       \* attempt -> its row: status, purpose, preview
    cb,        \* attempt -> place of its callback, and the token it obtained
    conn,      \* the connection row: status, token stored (0 for none)
    flight,    \* server -> place in refreshConnection, token read, token obtained
    revoking,  \* a revokeConnection is under way
    valid,     \* Cloudflare: tokens that still work
    issued,
    crashes    \* servers that died half way, and refreshes the database could not record

vars == <<pv, prov, account, disc, astray, dep, app, sel, att, cb, conn, flight, revoking, valid,
          issued, crashes>>
accountVars == <<account, disc, astray>>
previewVars == <<pv, prov, accountVars>>
oauthVars == <<att, cb>>
connVars == <<conn, flight, revoking>>

\* Rows in the order in which they are inserted.
Previews == 1..MaxPreviews
Attempts == 1..MaxAttempts
None == 0

Usable == {"ready", "claiming"}
Slot == {"provisioning", "ready", "claiming"}
OnPreview == {"queued", "temporary_ready", "claim_pending"}
NoFlight == [pc |-> "idle", old |-> 0, new |-> 0]
NoCallback == [pc |-> "idle", token |-> 0]

\* A new owner, or one whose earlier Apps let a preview expire, connected an account or
\* gave up an OAuth attempt.
Init ==
    /\ prov = [p \in Previews |-> "idle"] /\ disc = {} /\ astray = {}
    /\ dep = [phase |-> "awaiting_target", target |-> "unassigned", preview |-> None]
    /\ app = [status |-> "needs_action", preview |-> None, fresh |-> TRUE]
    /\ sel = None
    /\ cb = [a \in Attempts |-> NoCallback]
    /\ flight = [s \in Servers |-> NoFlight] /\ revoking = FALSE
    /\ \E past \in Pasts :
          /\ account = (IF "preview" \in past THEN {1} ELSE {})
          /\ pv = [p \in Previews |-> [status |-> IF p \in account THEN "expired" ELSE "none",
                                       cred |-> FALSE, up |-> FALSE]]
          /\ valid = (IF "connection" \in past THEN {1} ELSE {})
          /\ att = [a \in Attempts |->
                      [status |-> IF a \in valid THEN "completed"
                                  ELSE IF a <= Cardinality(past \ {"preview"}) THEN "failed"
                                  ELSE "none",
                       purpose |-> "direct", preview |-> None]]
          /\ conn = IF "connection" \in past THEN [status |-> "active", token |-> 1]
                                             ELSE [status |-> "none", token |-> 0]
          /\ issued = Cardinality(valid)
    /\ crashes = 0

\* What MaxFaults bounds: deaths and lost answers, and the App's move to a newer deployment.
Faults == crashes + Cardinality(astray) + (IF app.fresh THEN 0 ELSE 1)

\* A call for this preview, or the database after it, fails in a way no code hears of.
GoesAstray(p) == Faults < MaxFaults /\ astray' = astray \cup {p}

-----------------------------------------------------------------------------
(* Temporary previews *)

\* The unique index of previews that count as active for their owner.
SlotFree(p) == \A q \in Previews \ {p} : pv[q].status \notin Slot

\* provisionTemporaryAccount up to the insert; a ready preview is reused instead.
StartProvision(p) ==
    /\ app.fresh /\ dep.phase = "awaiting_target"
    /\ \A q \in Previews : pv[q].status = "none" <=> q >= p
    /\ SlotFree(p)
    /\ pv' = [pv EXCEPT ![p].status = "provisioning"]
    /\ prov' = [prov EXCEPT ![p] = "calling"]
    /\ UNCHANGED <<accountVars, dep, app, sel, oauthVars, connVars, valid, issued, crashes>>

\* client.provisionTemporaryAccount: the account exists, though its answer may be
\* rejected; without an answer, refused or lost, the catch clause knows of no account.
CallProvision(p) ==
    /\ prov[p] = "calling"
    /\ \/ /\ \E next \in {"storing", "failing"} : prov' = [prov EXCEPT ![p] = next]
          /\ account' = account \cup {p} /\ UNCHANGED astray
       \/ /\ prov' = [prov EXCEPT ![p] = "blind"]
          /\ \/ UNCHANGED <<account, astray>>
             \/ account' = account \cup {p} /\ GoesAstray(p)
    /\ UNCHANGED <<pv, disc, dep, app, sel, oauthVars, connVars, valid, issued, crashes>>

\* The row becomes ready whatever its status was, unless the index refuses it.  An audit
\* that fails behind it takes a row that is already ready into the catch clause.
StoreProvision(p) ==
    /\ prov[p] = "storing"
    /\ \/ /\ SlotFree(p)
          /\ pv' = [pv EXCEPT ![p].status = "ready", ![p].cred = TRUE]
          /\ \/ prov' = [prov EXCEPT ![p] = "idle"] /\ UNCHANGED astray
             \/ prov' = [prov EXCEPT ![p] = "failing"] /\ GoesAstray(p)
       \/ /\ ~SlotFree(p)
          /\ prov' = [prov EXCEPT ![p] = "failing"] /\ UNCHANGED <<pv, astray>>
    /\ UNCHANGED <<account, disc, dep, app, sel, oauthVars, connVars, valid, issued, crashes>>

\* discardTemporaryAccount is called only where the client has it.
Discarding(p) == disc' = IF CanDiscard THEN disc \cup {p} ELSE disc

\* Faulty catch clause: the account Cloudflare made is not discarded.
Mutant_FailProvision(p) ==
    /\ prov[p] \in {"failing", "blind"}
    /\ pv' = [pv EXCEPT ![p].status = IF @ = "provisioning" THEN "failed" ELSE @]
    /\ prov' = [prov EXCEPT ![p] = "idle"]
    /\ UNCHANGED <<accountVars, dep, app, sel, oauthVars, connVars, valid, issued, crashes>>

\* The catch clause: the row fails if it is still provisioning, then the account it knows
\* of is discarded.  An update that fails ends the request before that.
FailProvision(p) ==
    /\ prov[p] \in {"failing", "blind"} /\ prov' = [prov EXCEPT ![p] = "idle"]
    /\ \/ /\ pv' = [pv EXCEPT ![p].status = IF @ = "provisioning" THEN "failed" ELSE @]
          /\ IF prov[p] = "failing" THEN Discarding(p) ELSE UNCHANGED disc
          /\ UNCHANGED astray
       \/ GoesAstray(p) /\ UNCHANGED <<pv, disc>>
    /\ UNCHANGED <<account, dep, app, sel, oauthVars, connVars, valid, issued, crashes>>

\* The answer of discardTemporaryAccount; a failure is swallowed.
Discard(p) ==
    /\ p \in disc /\ disc' = disc \ {p}
    /\ \/ account' = account \ {p} /\ UNCHANGED astray
       \/ GoesAstray(p) /\ UNCHANGED account
    /\ UNCHANGED <<pv, prov, dep, app, sel, oauthVars, connVars, valid, issued, crashes>>

\* expireTemporaryPreviews gives up a row that is provisioning for ten minutes.
Abandon(p) ==
    /\ pv[p].status = "provisioning"
    /\ pv' = [pv EXCEPT ![p].status = "failed"]
    /\ UNCHANGED <<prov, accountVars, dep, app, sel, oauthVars, connVars, valid, issued, crashes>>

TimeIsUp(p) ==
    /\ pv[p].status \in Usable /\ ~pv[p].up
    /\ pv' = [pv EXCEPT ![p].up = TRUE]
    /\ UNCHANGED <<prov, accountVars, dep, app, sel, oauthVars, connVars, valid, issued, crashes>>

\* Faulty expiry: a preview whose claim page was opened never expires.
Mutant_Expirable(p) == pv[p].status = "expired" \/ (pv[p].status = "ready" /\ pv[p].up)

\* Previews whose time is up, those that had expired before included.
Expirable(p) == pv[p].status = "expired" \/ (pv[p].status \in Usable /\ pv[p].up)

\* A preview leaves service: its credential and claim link are cleared with it.
Cleared(p, status) == [pv EXCEPT ![p] = [status |-> status, cred |-> FALSE, up |-> FALSE]]

\* expireTemporaryPreviews: the preview, its deployments and its Apps in one statement.
Expire(p) ==
    /\ Expirable(p)
    /\ pv' = Cleared(p, "expired")
    /\ dep' = IF dep.preview = p /\ dep.phase \in OnPreview
              THEN [dep EXCEPT !.phase = "expired"] ELSE dep
    /\ app' = IF app.preview = p
              THEN [app EXCEPT !.status = "needs_action", !.preview = None] ELSE app
    /\ pv' # pv \/ dep' # dep \/ app' # app
    /\ UNCHANGED <<prov, accountVars, sel, oauthVars, connVars, valid, issued, crashes>>

\* releaseUnassignedTemporaryAccount: only while nothing refers to the preview.  The
\* account is discarded after the commit, unless its stored credential is damaged.
ReleaseUnassigned(p) ==
    /\ app.fresh /\ pv[p].status \in Usable
    /\ dep.preview # p /\ app.preview # p
    /\ pv' = Cleared(p, "failed")
    /\ \/ Discarding(p) /\ UNCHANGED astray
       \/ GoesAstray(p) /\ UNCHANGED disc
    /\ UNCHANGED <<prov, account, dep, app, sel, oauthVars, connVars, valid, issued, crashes>>

-----------------------------------------------------------------------------
(* The deployment's target *)

\* selectDeploymentTarget reads the preview without a lock ...
SelectReads(p) ==
    /\ sel = None /\ app.fresh /\ dep.phase = "awaiting_target"
    /\ pv[p].status \in Usable /\ ~pv[p].up
    /\ sel' = p
    /\ UNCHANGED <<previewVars, dep, app, oauthVars, connVars, valid, issued, crashes>>

\* ... and writes deployment and App, whose rows it holds, in the same transaction.
SelectWrites ==
    /\ sel # None /\ sel' = None
    /\ IF app.fresh /\ dep.phase = "awaiting_target"
       THEN /\ dep' = [dep EXCEPT !.phase = "queued", !.target = "temporary", !.preview = sel]
            /\ app' = [app EXCEPT !.preview = sel]
       ELSE UNCHANGED <<dep, app>>
    /\ UNCHANGED <<previewVars, oauthVars, connVars, valid, issued, crashes>>

SelectConnection ==
    /\ app.fresh /\ dep.phase = "awaiting_target" /\ conn.status = "active"
    /\ sel = None
    /\ dep' = [dep EXCEPT !.phase = "queued", !.target = "byoc"]
    /\ app' = [app EXCEPT !.preview = None]
    /\ UNCHANGED <<previewVars, sel, oauthVars, connVars, valid, issued, crashes>>

\* The outbox worker (module AppsDeployment), as far as accounts can tell: it needs
\* a usable credential and the current generation.
RunDeployment ==
    LET usable == IF dep.target = "temporary"
                  THEN /\ pv[dep.preview].status \in Usable /\ ~pv[dep.preview].up
                       /\ dep.preview \in account
                  ELSE conn.status = "active"
    IN  /\ dep.phase = "queued" /\ app.fresh
        /\ \/ /\ usable
              /\ dep' = [dep EXCEPT !.phase =
                           IF dep.target = "temporary" THEN "temporary_ready" ELSE "ready"]
              /\ app' = [app EXCEPT !.status =
                           IF dep.target = "temporary" THEN "preview" ELSE "ready"]
           \/ /\ dep' = [dep EXCEPT !.phase = "failed"]
              /\ app' = [app EXCEPT !.status = "failed"]
        /\ UNCHANGED <<previewVars, sel, oauthVars, connVars, valid, issued, crashes>>

\* A newer deployment or an archive moves the App's generation on, and so does a restore.
MoveOn ==
    /\ \/ /\ app.fresh /\ Faults < MaxFaults
          /\ \/ app' = [app EXCEPT !.status = "needs_action", !.fresh = FALSE]
             \/ app' = [status |-> "archived", preview |-> None, fresh |-> FALSE]
       \/ app.status = "archived" /\ app' = [app EXCEPT !.status = "needs_action"]
    /\ UNCHANGED <<previewVars, dep, sel, oauthVars, connVars, valid, issued, crashes>>

\* getTemporaryClaimUrl, getDeploymentClaimUrl.  Past its time the preview expires instead.
OpenClaim(p) ==
    /\ dep.preview = p /\ app.fresh
    /\ pv[p].status \in Usable /\ ~pv[p].up
    /\ dep.phase \in {"temporary_ready", "claim_pending"}
    /\ dep' = [dep EXCEPT !.phase = "claim_pending"]
    /\ pv' = [pv EXCEPT ![p].status = "claiming"]
    /\ UNCHANGED <<prov, accountVars, app, sel, oauthVars, connVars, valid, issued, crashes>>

-----------------------------------------------------------------------------
(* OAuth attempts *)

StartOAuth(a) ==
    /\ app.fresh /\ \A b \in Attempts : att[b].status = "none" <=> b >= a
    /\ \/ /\ dep.phase \in {"awaiting_target", "awaiting_oauth"} /\ sel = None
          /\ dep' = [dep EXCEPT !.phase = "awaiting_oauth"]
          /\ att' = [att EXCEPT ![a].status = "pending"]
       \/ /\ dep.phase = "claim_pending"
          /\ pv[dep.preview].status = "claiming" /\ ~pv[dep.preview].up
          /\ att' = [att EXCEPT ![a] = [status |-> "pending", purpose |-> "claim",
                                        preview |-> dep.preview]]
          /\ UNCHANGED dep
    /\ UNCHANGED <<previewVars, app, sel, cb, connVars, valid, issued, crashes>>

\* finishOAuth takes a pending attempt only, under the lock of its row.
Consumable(a) == att[a].status = "pending"

\* The callback's first transaction; an attempt past its time is expired instead, which
\* nothing tells apart from failed.
Consume(a) ==
    /\ Consumable(a)
    /\ \/ /\ att' = [att EXCEPT ![a].status = "exchanging"]
          /\ cb' = [cb EXCEPT ![a].pc = "exchange"]
       \/ att' = [att EXCEPT ![a].status = "failed"] /\ UNCHANGED cb
    /\ UNCHANGED <<previewVars, dep, app, sel, connVars, valid, issued, crashes>>

CancelOAuth(a) ==
    /\ att[a].status = "pending" /\ app.fresh
    /\ IF att[a].purpose = "claim"
       THEN dep.phase = "claim_pending" /\ dep.preview = att[a].preview
       ELSE dep.phase \in {"awaiting_oauth", "awaiting_target"}
    /\ dep' = IF att[a].purpose = "claim" THEN dep ELSE [dep EXCEPT !.phase = "awaiting_oauth"]
    /\ app' = [app EXCEPT !.status = "needs_action"]
    /\ att' = [att EXCEPT ![a].status = "failed"]
    /\ UNCHANGED <<previewVars, sel, cb, connVars, valid, issued, crashes>>

Close(a, status) == [att EXCEPT ![a].status = IF @ = "exchanging" THEN status ELSE @]

\* exchangeAuthorizationCode and the scope check.
Exchange(a) ==
    /\ cb[a].pc = "exchange"
    /\ \/ /\ issued < MaxTokens
          /\ issued' = issued + 1 /\ valid' = valid \cup {issued + 1}
          /\ \E next \in {"finalize", "undo"} :
                cb' = [cb EXCEPT ![a] = [pc |-> next, token |-> issued + 1]]
          /\ UNCHANGED att
       \/ /\ att' = Close(a, "failed") /\ cb' = [cb EXCEPT ![a] = NoCallback]
          /\ UNCHANGED <<issued, valid>>
    /\ UNCHANGED <<previewVars, dep, app, sel, connVars, crashes>>

\* The checks of the finalizing transaction, row by row.
Claimable(a) ==
    /\ att[a].purpose = "claim" /\ app.fresh /\ app.preview = att[a].preview
    /\ dep.phase = "claim_pending" /\ pv[att[a].preview].status = "claiming"

Connectable(a) == att[a].purpose = "direct" /\ app.fresh /\ dep.phase = "awaiting_oauth"

\* upsertConnection.
Connect(a) == conn' = [status |-> "active", token |-> cb[a].token]

\* The finalizing transaction commits.
Finalize(a) ==
    /\ cb[a].pc = "finalize" /\ att[a].status = "exchanging"
    /\ Connect(a)
    /\ att' = Close(a, "completed") /\ cb' = [cb EXCEPT ![a] = NoCallback]
    /\ \/ /\ Claimable(a)
          /\ pv' = Cleared(att[a].preview, "claimed")
          /\ dep' = [phase |-> "ready", target |-> "byoc", preview |-> None]
          /\ app' = [app EXCEPT !.status = "ready", !.preview = None]
       \/ /\ Connectable(a)
          /\ dep' = [dep EXCEPT !.phase = "queued", !.target = "byoc", !.preview = None]
          /\ app' = [app EXCEPT !.status = "needs_action", !.preview = None]
          /\ UNCHANGED pv
    /\ UNCHANGED <<prov, accountVars, sel, flight, revoking, valid, issued, crashes>>

\* The user signed in to another account: the claim can be tried again.
Mismatch(a) ==
    /\ cb[a].pc = "finalize" /\ att[a].purpose = "claim" /\ app.fresh
    /\ att' = Close(a, "failed") /\ cb' = [cb EXCEPT ![a].pc = "revoke"]
    /\ app' = IF app.preview = att[a].preview THEN [app EXCEPT !.status = "needs_action"] ELSE app
    /\ UNCHANGED <<previewVars, dep, sel, connVars, valid, issued, crashes>>

\* It throws: a stale generation, a phase that moved on, a preview that expired.
FinalizeThrows(a) ==
    /\ cb[a].pc = "finalize"
    /\ cb' = [cb EXCEPT ![a].pc = "undo"]
    /\ UNCHANGED <<previewVars, dep, app, sel, att, connVars, valid, issued, crashes>>

RevokeMismatched(a) ==
    /\ cb[a].pc = "revoke"
    /\ valid' = valid \ {cb[a].token}
    /\ cb' = [cb EXCEPT ![a] = NoCallback]
    /\ UNCHANGED <<previewVars, dep, app, sel, att, connVars, issued, crashes>>

\* failOAuthAttempt: a claim takes its deployment down while it is still pending.
Unclaimed(a) ==
    IF att[a].purpose = "claim" /\ dep.phase = "claim_pending"
    THEN [dep EXCEPT !.phase = "failed"] ELSE dep

\* revokeToken, then failOAuthAttempt; the status of the App fails in any phase.
Undo(a) ==
    /\ cb[a].pc = "undo"
    /\ valid' = valid \ {cb[a].token}
    /\ att' = Close(a, "failed") /\ cb' = [cb EXCEPT ![a] = NoCallback]
    /\ dep' = Unclaimed(a)
    /\ app' = IF att[a].purpose = "claim" /\ app.fresh THEN [app EXCEPT !.status = "failed"] ELSE app
    /\ UNCHANGED <<previewVars, sel, connVars, issued, crashes>>

-----------------------------------------------------------------------------
(* The connection's token *)

\* readUsableConnection(..., true); within a process the flight is shared.
StartRefresh(s) ==
    /\ flight[s].pc = "idle" /\ conn.status \in {"active", "refresh_required"}
    /\ issued < MaxTokens
    /\ flight' = [flight EXCEPT ![s] = [pc |-> "calling", old |-> conn.token, new |-> 0]]
    /\ UNCHANGED <<previewVars, dep, app, sel, oauthVars, conn, revoking, valid, issued, crashes>>

\* refreshAccessToken: Cloudflare replaces a token that works by a new one; the
\* answer may be lost, and a token that was replaced is refused.
CallRefresh(s) ==
    /\ flight[s].pc = "calling"
    /\ IF flight[s].old \in valid /\ issued < MaxTokens
       THEN /\ issued' = issued + 1
            /\ valid' = (valid \ {flight[s].old}) \cup {issued + 1}
            /\ \/ flight' = [flight EXCEPT ![s].pc = "storing", ![s].new = issued + 1]
               \/ flight' = [flight EXCEPT ![s].pc = "failing"]
       ELSE flight' = [flight EXCEPT ![s].pc = "failing"] /\ UNCHANGED <<issued, valid>>
    /\ UNCHANGED <<previewVars, dep, app, sel, oauthVars, conn, revoking, crashes>>

\* Faulty comparison: whatever is stored by now is overwritten.
Mutant_Unchanged(s) == TRUE

\* The where clauses: not revoked, and the envelope is the one that was read.
Unchanged(s) == conn.status # "revoked" /\ conn.token = flight[s].old

StoreRefresh(s) ==
    /\ flight[s].pc = "storing"
    /\ conn' = IF Unchanged(s) THEN [status |-> "active", token |-> flight[s].new] ELSE conn
    /\ flight' = [flight EXCEPT ![s] = NoFlight]
    /\ UNCHANGED <<previewVars, dep, app, sel, oauthVars, revoking, valid, issued, crashes>>

\* Faulty catch clause: the failure is thrown and not recorded.
Mutant_RefreshFailed(s) ==
    /\ flight[s].pc = "failing"
    /\ flight' = [flight EXCEPT ![s] = NoFlight]
    /\ UNCHANGED <<previewVars, dep, app, sel, oauthVars, conn, revoking, valid, issued, crashes>>

\* The catch clause: a newer token wins, else the user has to connect again.
RefreshFailed(s) ==
    /\ flight[s].pc = "failing"
    /\ conn' = IF Unchanged(s) THEN [conn EXCEPT !.status = "refresh_required"] ELSE conn
    /\ flight' = [flight EXCEPT ![s] = NoFlight]
    /\ UNCHANGED <<previewVars, dep, app, sel, oauthVars, revoking, valid, issued, crashes>>

\* The database fails under the update or under the catch clause: nothing is recorded.
RefreshUnrecorded(s) ==
    /\ flight[s].pc \in {"storing", "failing"} /\ Faults < MaxFaults
    /\ flight' = [flight EXCEPT ![s] = NoFlight] /\ crashes' = crashes + 1
    /\ UNCHANGED <<previewVars, dep, app, sel, oauthVars, conn, revoking, valid, issued>>

\* revokeConnection: the token it read is revoked at Cloudflare ...
StartRevoke ==
    /\ ~revoking /\ conn.status \in {"active", "refresh_required"}
    /\ revoking' = TRUE /\ valid' = valid \ {conn.token}
    /\ UNCHANGED <<previewVars, dep, app, sel, oauthVars, conn, flight, issued, crashes>>

\* ... and the row is cleared, whatever token it has by now.
FinishRevoke ==
    /\ revoking /\ revoking' = FALSE
    /\ conn' = [status |-> "revoked", token |-> 0]
    /\ UNCHANGED <<previewVars, dep, app, sel, oauthVars, flight, valid, issued, crashes>>

-----------------------------------------------------------------------------
\* A server dies: its requests, callbacks and refreshes end where they are.
Crash ==
    /\ Faults < MaxFaults /\ crashes' = crashes + 1
    /\ \/ \E p \in Previews : prov[p] # "idle"
       \/ \E a \in Attempts : cb[a].pc # "idle"
       \/ sel # None \/ revoking \/ disc # {}
    /\ prov' = [p \in Previews |-> "idle"] /\ disc' = {} /\ sel' = None
    /\ cb' = [a \in Attempts |-> NoCallback]
    /\ flight' = [s \in Servers |-> NoFlight] /\ revoking' = FALSE
    /\ UNCHANGED <<pv, account, astray, dep, app, att, conn, valid, issued>>

Timer(p) == Abandon(p) \/ TimeIsUp(p) \/ Expire(p)

Next ==
    \/ \E p \in Previews :
          \/ StartProvision(p) \/ CallProvision(p) \/ StoreProvision(p) \/ FailProvision(p)
          \/ Discard(p) \/ Timer(p) \/ ReleaseUnassigned(p) \/ SelectReads(p) \/ OpenClaim(p)
    \/ SelectWrites \/ SelectConnection \/ RunDeployment \/ MoveOn
    \/ \E a \in Attempts :
          \/ StartOAuth(a) \/ Consume(a) \/ CancelOAuth(a) \/ Exchange(a) \/ Finalize(a)
          \/ Mismatch(a) \/ FinalizeThrows(a) \/ RevokeMismatched(a) \/ Undo(a)
    \/ \E s \in Servers :
          \/ StartRefresh(s) \/ CallRefresh(s) \/ StoreRefresh(s) \/ RefreshFailed(s)
          \/ RefreshUnrecorded(s)
    \/ StartRevoke \/ FinishRevoke \/ Crash

Spec == Init /\ [][Next]_vars

\* The clock and the cleanup timer go on, the outbox worker polls, and a request that
\* has read its preview writes it.
Fairness ==
    /\ \A p \in Previews : WF_vars(Timer(p))
    /\ WF_vars(RunDeployment) /\ WF_vars(SelectWrites)

FairSpec == Spec /\ Fairness
-----------------------------------------------------------------------------
(* Properties *)

\* The rows hold what their columns may hold, and the connection has a token exactly
\* while it is connected.
TypeOK ==
    /\ pv \in [Previews -> [status : {"none", "failed", "claimed", "expired"} \cup Slot,
                            cred : BOOLEAN, up : BOOLEAN]]
    /\ prov \in [Previews -> {"idle", "calling", "storing", "failing", "blind"}]
    /\ account \cup disc \cup astray \subseteq Previews /\ sel \in Previews \cup {None}
    /\ dep \in [phase : {"awaiting_target", "awaiting_oauth", "ready", "expired", "failed"}
                           \cup OnPreview,
                target : {"unassigned", "temporary", "byoc"},
                preview : Previews \cup {None}]
    /\ app \in [status : {"needs_action", "preview", "ready", "failed", "archived"},
                preview : Previews \cup {None}, fresh : BOOLEAN]
    /\ att \in [Attempts -> [status : {"none", "pending", "exchanging", "completed", "failed"},
                             purpose : {"direct", "claim"}, preview : Previews \cup {None}]]
    /\ conn \in [status : {"none", "active", "refresh_required", "revoked"}, token : 0..MaxTokens]
    /\ conn.token # 0 <=> conn.status \in {"active", "refresh_required"}
    /\ valid \subseteq 1..issued

\* A preview that is out of service keeps no credential, whichever of claim, expiry,
\* release and a late provisioning answer came last.
CredentialsCleared ==
    \A p \in Previews : pv[p].cred => pv[p].status \in Usable

\* With a client that can discard, and while no server died, an account the database
\* gave up is being discarded or belongs to a call that failed unheard: a provisioning
\* that loses the race for its slot, or whose answer is rejected, leaves none behind.
NoOrphanAccount ==
    CanDiscard /\ crashes = 0 => \A p \in account \ (disc \cup astray) :
        prov[p] = "idle" => pv[p].status \in Usable \cup {"claimed", "expired"}

\* The converse: a preview in service or claimed has its account.  No discard, of a lost
\* race or of a release that a selection overtook, takes it away.
AccountBehind ==
    \A p \in Previews \ astray :
        pv[p].status \in Usable \cup {"claimed"} => p \in account \ disc

\* A claim that was completed stays: neither the late failure of a second callback nor
\* the expiry of the preview takes the claimed deployment down.
ClaimSticks ==
    (\E p \in Previews : pv[p].status = "claimed") => dep.phase = "ready" /\ dep.target = "byoc"

\* The row of a preview, the account at Cloudflare and the claimed deployment agree,
\* in whatever order provisioning, claim, release and expiry finish.
PreviewsAgree ==
    TypeOK /\ CredentialsCleared /\ NoOrphanAccount /\ AccountBehind /\ ClaimSticks

\* Refreshes of several servers and a revocation interleave; when none is under way,
\* none died and none went unrecorded, a connection shown as active holds a token Cloudflare accepts.
StoredIsValid ==
    /\ crashes = 0 /\ conn.status = "active" /\ ~revoking
    /\ \A s \in Servers : flight[s].pc = "idle"
    => conn.token \in valid

\* A revoked connection comes back only when the user completes a new attempt: the
\* answer of a refresh that began before the revocation is not stored.
RevokedStays ==
    [][conn.status = "revoked" /\ conn'.status # "revoked" =>
         \E a \in Attempts : att[a].status = "exchanging" /\ att'[a].status = "completed"]_vars

\* A deployment on a preview does not wait for ever: it is claimed, fails or expires,
\* also when the preview expired or was released between the reading and the writing
\* of its selection.  A queued one of an App that moved on is left where it is.
PreviewSettles ==
    dep.target = "temporary" /\ dep.phase \in OnPreview ~>
        dep.phase \in {"ready", "expired", "failed"} \/ (dep.phase = "queued" /\ ~app.fresh)
=============================================================================
