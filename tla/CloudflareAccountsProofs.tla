---------------------- MODULE CloudflareAccountsProofs ----------------------
(***************************************************************************)
(* Proofs about CloudflareAccounts, for any number of previews, OAuth      *)
(* attempts, servers, tokens and faults.                                   *)
(*                                                                         *)
(* The rows of previews and deployment on one side, the tokens on the      *)
(* other, are two invariants that do not need each other.  For the tokens  *)
(* the argument is about ownership: a token Cloudflare issued is in the    *)
(* hands of one callback or one refresh until it is stored (Private), so   *)
(* undoing that callback cannot revoke what the connection stores; and a   *)
(* token that was replaced while it is stored is still waited for by the   *)
(* refresh that replaced it, which will store the new one or mark the      *)
(* connection (Covered).                                                   *)
(***************************************************************************)
EXTENDS CloudflareAccounts, FiniteSetTheorems, TLAPS

PreviewRecord == [status : {"none", "failed", "claimed", "expired"} \union Slot,
                  cred : BOOLEAN, up : BOOLEAN]
DepRecord == [phase : {"awaiting_target", "awaiting_oauth", "ready", "expired", "failed"}
                         \union OnPreview,
              target : {"unassigned", "temporary", "byoc"},
              preview : Previews \union {None}]
AppRecord == [status : {"needs_action", "preview", "ready", "failed", "archived"},
              preview : Previews \union {None}, fresh : BOOLEAN]
AttemptRecord == [status : {"none", "pending", "exchanging", "completed", "failed"},
                  purpose : {"direct", "claim"}, preview : Previews \union {None}]
ConnRecord == [status : {"none", "active", "refresh_required", "revoked"}, token : 0..MaxTokens]
CallbackRecord == [pc : {"idle", "exchange", "finalize", "undo", "revoke"}, token : Nat]
FlightRecord == [pc : {"idle", "calling", "storing", "failing"}, old : Nat, new : Nat]

Places == {"idle", "calling", "storing", "failing", "blind"}

(* The previews, the attempts and the deployment.                          *)
RowTypes ==
  /\ pv \in [Previews -> PreviewRecord]
  /\ prov \in [Previews -> Places]
  /\ account \subseteq Previews /\ disc \subseteq Previews /\ astray \subseteq Previews
  /\ sel \in Previews \union {None}
  /\ dep \in DepRecord /\ app \in AppRecord
  /\ att \in [Attempts -> AttemptRecord]
  /\ crashes \in Nat

(* Where the request that provisions a preview stands: which row, and which *)
(* account, it leaves behind so far.                                       *)
Placed(p) ==
  /\ pv[p].status = "none" \/ prov[p] = "calling" => p \notin account /\ p \notin disc
  /\ prov[p] \in {"calling", "storing"} => pv[p].status \in {"provisioning", "failed"} /\ p \notin disc
  /\ prov[p] = "storing" => p \in account
  /\ prov[p] = "failing" =>
       /\ pv[p].status # "none"
       /\ p \in astray \/ pv[p].status \notin Usable \union {"claimed"}
  /\ prov[p] = "blind" => pv[p].status # "none" /\ (p \in account => p \in astray)

(* What the properties say of one preview.                                 *)
Fine(p) ==
  /\ Placed(p)
  /\ pv[p].cred => pv[p].status \in Usable
  /\ CanDiscard /\ crashes = 0 /\ p \in account /\ p \notin disc /\ p \notin astray
       /\ prov[p] = "idle" => pv[p].status \in Usable \union {"claimed", "expired"}
  /\ p \notin astray /\ pv[p].status \in Usable \union {"claimed"} => p \in account /\ p \notin disc

RowInv == RowTypes /\ (\A p \in Previews : Fine(p)) /\ ClaimSticks

(* The connection and the tokens.                                          *)
TokenTypes ==
  /\ conn \in ConnRecord
  /\ conn.token # 0 <=> conn.status \in {"active", "refresh_required"}
  /\ cb \in [Attempts -> CallbackRecord]
  /\ flight \in [Servers -> FlightRecord]
  /\ issued \in 0..MaxTokens /\ valid \subseteq 1..issued
  /\ crashes \in Nat

Holding == {"finalize", "undo", "revoke"}

(* Nothing refers to a token that was not issued.                          *)
Issued ==
  /\ conn.token <= issued
  /\ \A a \in Attempts : cb[a].token <= issued
  /\ \A s \in Servers : flight[s].old <= issued /\ flight[s].new <= issued

(* A token a callback or a refresh obtained works, and nobody else has it. *)
Private ==
  /\ \A a \in Attempts : cb[a].pc \in Holding =>
       /\ cb[a].token \in valid /\ cb[a].token # conn.token
       /\ \A b \in Attempts \ {a} : cb[b].pc \in Holding => cb[b].token # cb[a].token
       /\ \A s \in Servers :
            /\ flight[s].old # cb[a].token
            /\ flight[s].pc = "storing" => flight[s].new # cb[a].token
  /\ \A s \in Servers : flight[s].pc = "storing" =>
       /\ flight[s].new \in valid /\ flight[s].new # conn.token
       /\ \A t \in Servers : flight[t].old # flight[s].new
       /\ \A t \in Servers \ {s} : flight[t].pc = "storing" => flight[t].new # flight[s].new

(* What a refresh replaced.                                                *)
Covered ==
  /\ \A s \in Servers : flight[s].pc # "idle" => flight[s].old # 0
  /\ crashes = 0 /\ conn.status = "active" /\ ~revoking =>
       \/ conn.token \in valid
       \/ \E s \in Servers : flight[s].pc \in {"storing", "failing"} /\ flight[s].old = conn.token

TokenInv == TokenTypes /\ Issued /\ Private /\ Covered

IInv == RowInv /\ TokenInv

-----------------------------------------------------------------------------
(* The rows *)

LEMMA TypeParts ==
  /\ RowTypes /\ TokenTypes => TypeOK
  BY DEF TypeOK, RowTypes, TokenTypes, PreviewRecord, DepRecord, AppRecord, AttemptRecord,
         ConnRecord, Places

LEMMA FineParts ==
  ASSUME RowInv
  PROVE  CredentialsCleared /\ NoOrphanAccount /\ AccountBehind
  BY DEF RowInv, RowTypes, Fine, CredentialsCleared, NoOrphanAccount, AccountBehind

(* A claimed deployment is left alone.                                     *)
ClaimLeft ==
  dep.phase = "ready" /\ dep.target = "byoc" => dep'.phase = "ready" /\ dep'.target = "byoc"

(* One preview moves: its row, its request or its account.                 *)
LEMMA PreviewMoves ==
  ASSUME RowInv, NEW p \in Previews, NEW r \in PreviewRecord, NEW q \in Places,
         pv' = [pv EXCEPT ![p] = r], prov' = [prov EXCEPT ![p] = q],
         account' \in {account, account \union {p}, account \ {p}},
         disc' \in {disc, disc \union {p}, disc \ {p}},
         astray' \in {astray, astray \union {p}},
         crashes' = crashes, Fine(p)',
         r.status = "claimed" => dep'.phase = "ready" /\ dep'.target = "byoc",
         ClaimLeft, dep' \in DepRecord, app' \in AppRecord,
         att' \in [Attempts -> AttemptRecord], sel' \in Previews \union {None}
  PROVE  RowInv'
  <1>1. /\ pv' \in [Previews -> PreviewRecord] /\ pv'[p] = r
        /\ prov' \in [Previews -> Places] /\ prov'[p] = q
        /\ \A x \in Previews : x # p => pv'[x] = pv[x] /\ prov'[x] = prov[x]
    BY DEF RowInv, RowTypes
  <1>2. RowTypes'
    BY <1>1 DEF RowInv, RowTypes
  <1>3. ASSUME NEW x \in Previews, x # p PROVE Fine(x)'
    <2>1. /\ Fine(x) /\ pv'[x] = pv[x] /\ prov'[x] = prov[x]
          /\ x \in account' <=> x \in account
          /\ x \in disc' <=> x \in disc
          /\ x \in astray' <=> x \in astray
      BY <1>1, <1>3 DEF RowInv
    <2> QED
      BY <2>1 DEF Fine, Placed
  <1>4. ClaimSticks'
    <2> SUFFICES ASSUME NEW x \in Previews, pv'[x].status = "claimed"
                 PROVE  dep'.phase = "ready" /\ dep'.target = "byoc"
      BY DEF ClaimSticks
    <2> QED
      BY <1>1 DEF RowInv, ClaimSticks, ClaimLeft
  <1> QED
    BY <1>2, <1>3, <1>4 DEF RowInv

(* No preview moves.                                                       *)
LEMMA PreviewsStay ==
  ASSUME RowInv, UNCHANGED <<pv, prov, account, disc, astray>>,
         crashes' \in Nat, crashes' = 0 => crashes = 0, ClaimLeft,
         dep' \in DepRecord, app' \in AppRecord,
         att' \in [Attempts -> AttemptRecord], sel' \in Previews \union {None}
  PROVE  RowInv'
  <1>1. RowTypes'
    BY DEF RowInv, RowTypes
  <1>2. ASSUME NEW p \in Previews PROVE Fine(p)'
    BY DEF RowInv, Fine, Placed
  <1>3. ClaimSticks'
    BY DEF RowInv, ClaimSticks, ClaimLeft
  <1> QED
    BY <1>1, <1>2, <1>3 DEF RowInv

LEMMA RowsInitially == Init => RowInv
  <1> SUFFICES ASSUME Init PROVE RowInv
    OBVIOUS
  <1>0. PICK past \in Pasts :
          /\ account = (IF "preview" \in past THEN {1} ELSE {})
          /\ pv = [p \in Previews |-> [status |-> IF p \in account THEN "expired" ELSE "none",
                                       cred |-> FALSE, up |-> FALSE]]
          /\ att = [a \in Attempts |->
                      [status |-> IF a \in valid THEN "completed"
                                  ELSE IF a <= Cardinality(past \ {"preview"}) THEN "failed"
                                  ELSE "none",
                       purpose |-> "direct", preview |-> None]]
    BY DEF Init
  <1>1. 1 \in Previews /\ account \subseteq Previews
    BY <1>0, AccountAssumption DEF Previews
  <1>2. pv \in [Previews -> PreviewRecord]
    BY <1>0 DEF PreviewRecord
  <1>3. att \in [Attempts -> AttemptRecord]
    <2>1. ASSUME NEW a \in Attempts PROVE att[a] \in AttemptRecord
      <3>1. PICK st \in {"completed", "failed", "none"} :
              att[a] = [status |-> st, purpose |-> "direct", preview |-> None]
        BY <1>0
      <3> QED
        BY <3>1 DEF AttemptRecord
    <2> QED
      BY <1>0, <2>1
  <1>4. /\ prov = [p \in Previews |-> "idle"] /\ disc = {} /\ astray = {} /\ crashes = 0
        /\ prov \in [Previews -> Places]
    BY DEF Init, Places
  <1>5. dep \in DepRecord /\ app \in AppRecord /\ sel \in Previews \union {None}
    BY DEF Init, DepRecord, AppRecord
  <1>6. RowTypes
    BY <1>1, <1>2, <1>3, <1>4, <1>5 DEF RowTypes
  <1>7. ASSUME NEW p \in Previews PROVE Fine(p)
    BY <1>0, <1>4 DEF Fine, Placed, Usable
  <1>8. ClaimSticks
    BY <1>0 DEF ClaimSticks
  <1> QED
    BY <1>6, <1>7, <1>8 DEF RowInv

(* The requests that provision, give up, release or discard a preview: none *)
(* claims one, and none touches another.                                   *)
LEMMA ProvisionSteps ==
  ASSUME RowInv, NEW p \in Previews,
         StartProvision(p) \/ CallProvision(p) \/ StoreProvision(p) \/ FailProvision(p)
         \/ Discard(p) \/ Abandon(p) \/ TimeIsUp(p) \/ ReleaseUnassigned(p)
  PROVE  RowInv'
  <1>0. /\ pv \in [Previews -> PreviewRecord] /\ pv[p] \in PreviewRecord
        /\ prov \in [Previews -> Places] /\ prov[p] \in Places /\ Fine(p)
        /\ disc' \in {disc, disc \union {p}, disc \ {p}}
        /\ astray' \in {astray, astray \union {p}}
        /\ account' \in {account, account \union {p}, account \ {p}}
    BY DEF RowInv, RowTypes, StartProvision, CallProvision, StoreProvision, FailProvision,
           Discard, Abandon, TimeIsUp, ReleaseUnassigned, Discarding, GoesAstray, accountVars
  <1>1. /\ dep' \in DepRecord /\ app' \in AppRecord /\ att' \in [Attempts -> AttemptRecord]
        /\ sel' \in Previews \union {None} /\ crashes' = crashes /\ ClaimLeft
    BY DEF RowInv, RowTypes, ClaimLeft, StartProvision, CallProvision, StoreProvision,
           FailProvision, Discard, Abandon, TimeIsUp, ReleaseUnassigned, oauthVars
  <1>2. PICK r \in PreviewRecord, q \in Places :
          /\ pv' = [pv EXCEPT ![p] = r] /\ prov' = [prov EXCEPT ![p] = q]
          /\ r.status = "claimed" => pv[p].status = "claimed"
    <2>1. pv' = [pv EXCEPT ![p] = pv'[p]] /\ pv'[p] \in PreviewRecord
          /\ (pv'[p].status = "claimed" => pv[p].status = "claimed")
      <3>1. CASE pv' = pv
        BY <1>0, <3>1
      <3>2. ASSUME NEW st \in {"provisioning", "failed", pv[p].status},
                   pv' = [pv EXCEPT ![p].status = st]
            PROVE  /\ pv' = [pv EXCEPT ![p] = pv'[p]] /\ pv'[p] \in PreviewRecord
                   /\ pv'[p].status = "claimed" => pv[p].status = "claimed"
        <4>1. [pv[p] EXCEPT !.status = st] \in PreviewRecord
          BY <1>0 DEF PreviewRecord, Slot
        <4> QED
          BY <1>0, <3>2, <4>1 DEF PreviewRecord
      <3>3. CASE StoreProvision(p) /\ pv' = [pv EXCEPT ![p].status = "ready", ![p].cred = TRUE]
        <4>1. [pv[p] EXCEPT !.status = "ready", !.cred = TRUE] \in PreviewRecord
          BY <1>0 DEF PreviewRecord, Slot
        <4> QED
          BY <1>0, <3>3, <4>1 DEF PreviewRecord
      <3>4. CASE TimeIsUp(p)
        <4>1. [pv[p] EXCEPT !.up = TRUE] \in PreviewRecord
          BY <1>0 DEF PreviewRecord
        <4> QED
          BY <1>0, <3>4, <4>1 DEF PreviewRecord, TimeIsUp
      <3>5. CASE ReleaseUnassigned(p)
        <4>1. [status |-> "failed", cred |-> FALSE, up |-> FALSE] \in PreviewRecord
          BY DEF PreviewRecord
        <4> QED
          BY <1>0, <3>5, <4>1 DEF ReleaseUnassigned, Cleared
      <3>6. CASE FailProvision(p) /\ pv' # pv
        <4>1. pv' = [pv EXCEPT ![p].status =
                       IF pv[p].status = "provisioning" THEN "failed" ELSE pv[p].status]
          BY <3>6 DEF FailProvision
        <4>2. PICK st \in {"failed", pv[p].status} : pv' = [pv EXCEPT ![p].status = st]
          BY <4>1
        <4> QED
          BY <3>2, <4>2
      <3>7. CASE StartProvision(p) \/ Abandon(p)
        BY <3>2, <3>7 DEF StartProvision, Abandon
      <3>8. CASE CallProvision(p) \/ Discard(p) \/ (StoreProvision(p) /\ pv' = pv)
        BY <3>1, <3>8 DEF CallProvision, Discard
      <3> QED
        BY <3>1, <3>3, <3>4, <3>5, <3>6, <3>7, <3>8 DEF StoreProvision
    <2>2. prov' = [prov EXCEPT ![p] = prov'[p]] /\ prov'[p] \in Places
      BY <1>0 DEF StartProvision, CallProvision, StoreProvision, FailProvision, Discard, Abandon,
                  TimeIsUp, ReleaseUnassigned, Places
    <2> QED
      BY <2>1, <2>2
  <1>3. pv[p].status = "claimed" => dep'.phase = "ready" /\ dep'.target = "byoc"
    BY <1>1 DEF RowInv, ClaimSticks, ClaimLeft
  <1>4. Fine(p)'
    <2>1. pv'[p] = r /\ prov'[p] = q
      BY <1>0, <1>2
    <2>2. CASE StartProvision(p)
      <3>1. /\ r.status = "provisioning" /\ r.cred = pv[p].cred /\ q = "calling"
            /\ UNCHANGED <<account, disc, astray>> /\ pv[p].status = "none"
        BY <1>0, <2>1, <2>2 DEF StartProvision, PreviewRecord, accountVars, Previews
      <3> QED
        BY <1>0, <1>1, <2>1, <3>1 DEF Fine, Placed, Usable
    <2>3. CASE CallProvision(p)
      <3>1. /\ pv'[p] = pv[p] /\ prov[p] = "calling" /\ disc' = disc
            /\ \/ q \in {"storing", "failing"} /\ p \in account'
               \/ q = "blind" /\ (p \in account' => p \in account \/ p \in astray')
        BY <1>0, <2>1, <2>3 DEF CallProvision, GoesAstray
      <3> QED
        BY <1>0, <1>1, <2>1, <3>1 DEF Fine, Placed, Usable
    <2>4. CASE StoreProvision(p)
      <3>1. /\ prov[p] = "storing" /\ UNCHANGED <<account, disc>>
            /\ \/ q = "idle" /\ r.status = "ready" /\ astray' = astray
               \/ q = "failing" /\ r.status = "ready" /\ p \in astray'
               \/ q = "failing" /\ r = pv[p] /\ astray' = astray
        BY <1>0, <2>1, <2>4 DEF StoreProvision, GoesAstray, PreviewRecord
      <3> QED
        BY <1>0, <1>1, <2>1, <3>1 DEF Fine, Placed, Usable
    <2>5. CASE FailProvision(p)
      <3>1. /\ prov[p] \in {"failing", "blind"} /\ q = "idle" /\ account' = account
            /\ \/ /\ r.status = IF pv[p].status = "provisioning" THEN "failed" ELSE pv[p].status
                  /\ r.cred = pv[p].cred /\ astray' = astray
                  /\ IF prov[p] = "failing" /\ CanDiscard THEN disc' = disc \union {p} ELSE disc' = disc
               \/ r = pv[p] /\ p \in astray' /\ disc' = disc
        BY <1>0, <2>1, <2>5 DEF FailProvision, GoesAstray, Discarding, PreviewRecord
      <3> QED
        BY <1>0, <1>1, <2>1, <3>1 DEF Fine, Placed, Usable
    <2>6. CASE Discard(p)
      <3>1. /\ UNCHANGED <<pv, prov>> /\ p \in disc /\ p \notin disc'
            /\ \/ p \notin account' /\ astray' = astray
               \/ account' = account /\ p \in astray'
        BY <2>6 DEF Discard, GoesAstray
      <3> QED
        BY <1>0, <1>1, <2>1, <3>1 DEF Fine, Placed, Usable
    <2>7. CASE Abandon(p)
      <3>1. /\ pv[p].status = "provisioning" /\ r.status = "failed" /\ r.cred = pv[p].cred
            /\ UNCHANGED <<prov, account, disc, astray>>
        BY <1>0, <2>1, <2>7 DEF Abandon, accountVars, PreviewRecord
      <3> QED
        BY <1>0, <1>1, <2>1, <3>1 DEF Fine, Placed, Usable
    <2>8. CASE TimeIsUp(p)
      <3>1. /\ r.status = pv[p].status /\ r.cred = pv[p].cred
            /\ UNCHANGED <<prov, account, disc, astray>>
        BY <1>0, <2>1, <2>8 DEF TimeIsUp, accountVars, PreviewRecord
      <3> QED
        BY <1>0, <1>1, <2>1, <3>1 DEF Fine, Placed, Usable
    <2>9. CASE ReleaseUnassigned(p)
      <3>1. /\ pv[p].status \in Usable /\ r.status = "failed" /\ ~ r.cred
            /\ UNCHANGED <<prov, account>>
            /\ \/ astray' = astray /\ IF CanDiscard THEN disc' = disc \union {p} ELSE disc' = disc
               \/ disc' = disc /\ p \in astray'
        BY <1>0, <2>1, <2>9 DEF ReleaseUnassigned, Cleared, GoesAstray, Discarding
      <3> QED
        BY <1>0, <1>1, <2>1, <3>1 DEF Fine, Placed, Usable
    <2> QED
      BY <2>2, <2>3, <2>4, <2>5, <2>6, <2>7, <2>8, <2>9
  <1> QED
    BY <1>0, <1>1, <1>2, <1>3, <1>4, PreviewMoves

(* expireTemporaryPreviews, the claim page and the selection.              *)
LEMMA ExpireStep ==
  ASSUME RowInv, NEW p \in Previews, Expire(p)
  PROVE  RowInv'
  <1> DEFINE r == [status |-> "expired", cred |-> FALSE, up |-> FALSE]
  <1>0. dep \in DepRecord /\ app \in AppRecord /\ RowTypes /\ Fine(p)
    BY DEF RowInv, RowTypes
  <1>1. /\ pv' = [pv EXCEPT ![p] = r] /\ prov' = [prov EXCEPT ![p] = prov[p]]
        /\ account' = account /\ disc' = disc /\ astray' = astray /\ crashes' = crashes
        /\ prov' = prov /\ att' \in [Attempts -> AttemptRecord] /\ sel' \in Previews \union {None}
    BY <1>0 DEF Expire, Cleared, RowTypes, oauthVars, accountVars
  <1>2. dep' \in DepRecord /\ ClaimLeft
    BY <1>0 DEF Expire, DepRecord, ClaimLeft, OnPreview
  <1>3. app' \in AppRecord
    BY <1>0 DEF Expire, AppRecord
  <1>4. r \in PreviewRecord /\ r.status = "expired" /\ ~ r.cred
    BY DEF PreviewRecord
  <1>5. prov[p] \in Places
    BY <1>0 DEF RowTypes
  <1>6. pv'[p] = r
    BY <1>0, <1>1 DEF RowTypes
  <1> HIDE DEF r
  <1>7. pv[p].status \in Usable \union {"expired"}
    BY DEF Expire, Expirable
  <1>8. Fine(p)'
    BY <1>0, <1>1, <1>4, <1>6, <1>7 DEF Fine, Placed, Usable
  <1> QED
    BY <1>1, <1>2, <1>3, <1>4, <1>5, <1>8, PreviewMoves

LEMMA OpenClaimStep ==
  ASSUME RowInv, NEW p \in Previews, OpenClaim(p)
  PROVE  RowInv'
  <1> DEFINE r == [pv[p] EXCEPT !.status = "claiming"]
  <1>0. dep \in DepRecord /\ app \in AppRecord /\ RowTypes /\ pv[p] \in PreviewRecord /\ Fine(p)
    BY DEF RowInv, RowTypes
  <1>1. /\ pv' = [pv EXCEPT ![p] = r] /\ prov' = [prov EXCEPT ![p] = prov[p]] /\ prov' = prov
        /\ account' = account /\ disc' = disc /\ astray' = astray
        /\ crashes' = crashes /\ app' \in AppRecord
        /\ att' \in [Attempts -> AttemptRecord] /\ sel' \in Previews \union {None}
    BY <1>0 DEF OpenClaim, RowTypes, oauthVars, accountVars
  <1>2. dep' \in DepRecord /\ ClaimLeft
    BY <1>0 DEF OpenClaim, DepRecord, ClaimLeft, OnPreview
  <1>3. r \in PreviewRecord /\ r.status = "claiming" /\ r.cred = pv[p].cred
    BY <1>0 DEF PreviewRecord, Slot
  <1>4. pv[p].status \in Usable
    BY DEF OpenClaim
  <1>5. prov[p] \in Places /\ pv'[p] = r
    BY <1>0, <1>1 DEF RowTypes
  <1> HIDE DEF r
  <1>6. Fine(p)'
    BY <1>0, <1>1, <1>3, <1>4, <1>5 DEF Fine, Placed, Usable
  <1> QED
    BY <1>1, <1>2, <1>3, <1>5, <1>6, PreviewMoves

LEMMA TargetSteps ==
  ASSUME RowInv,
         \/ SelectWrites \/ SelectConnection \/ RunDeployment \/ MoveOn
         \/ \E p \in Previews : SelectReads(p)
  PROVE  RowInv'
  <1>0. dep \in DepRecord /\ app \in AppRecord /\ RowTypes
    BY DEF RowInv, RowTypes
  <1>1. UNCHANGED <<pv, prov, account, disc, astray, att, crashes>> /\ sel' \in Previews \union {None}
    BY <1>0 DEF SelectReads, SelectWrites, SelectConnection, RunDeployment, MoveOn,
                previewVars, accountVars, oauthVars, RowTypes
  <1>2. dep' \in DepRecord /\ ClaimLeft
    <2>1. CASE SelectWrites
      BY <1>0, <2>1 DEF SelectWrites, DepRecord, OnPreview, ClaimLeft, RowTypes
    <2>2. CASE SelectConnection
      BY <1>0, <2>2 DEF SelectConnection, DepRecord, OnPreview, ClaimLeft
    <2>3. CASE RunDeployment
      BY <1>0, <2>3 DEF RunDeployment, DepRecord, OnPreview, ClaimLeft
    <2>4. CASE MoveOn \/ \E p \in Previews : SelectReads(p)
      BY <1>0, <2>4 DEF MoveOn, SelectReads, ClaimLeft
    <2> QED
      BY <2>1, <2>2, <2>3, <2>4
  <1>3. app' \in AppRecord
    <2>1. CASE SelectWrites
      BY <1>0, <2>1 DEF SelectWrites, AppRecord, RowTypes
    <2>2. CASE SelectConnection
      BY <1>0, <2>2 DEF SelectConnection, AppRecord
    <2>3. CASE RunDeployment
      BY <1>0, <2>3 DEF RunDeployment, AppRecord
    <2>4. CASE \E p \in Previews : SelectReads(p)
      BY <1>0, <2>4 DEF SelectReads
    <2>5. CASE MoveOn
      <3>1. [app EXCEPT !.status = "needs_action", !.fresh = FALSE] \in AppRecord
        BY <1>0 DEF AppRecord
      <3>2. [app EXCEPT !.status = "needs_action"] \in AppRecord
        BY <1>0 DEF AppRecord
      <3>3. [status |-> "archived", preview |-> None, fresh |-> FALSE] \in AppRecord
        BY DEF AppRecord
      <3> QED
        BY <2>5, <3>1, <3>2, <3>3 DEF MoveOn
    <2> QED
      BY <2>1, <2>2, <2>3, <2>4, <2>5
  <1> QED
    BY <1>0, <1>1, <1>2, <1>3, PreviewsStay DEF RowTypes

(* An attempt that does not commit leaves a claimed deployment alone.      *)
LEMMA AttemptSteps ==
  ASSUME RowInv, NEW a \in Attempts,
         \/ StartOAuth(a) \/ Consume(a) \/ CancelOAuth(a) \/ Exchange(a) \/ Mismatch(a)
         \/ FinalizeThrows(a) \/ RevokeMismatched(a) \/ Undo(a)
  PROVE  RowInv'
  <1>0. dep \in DepRecord /\ app \in AppRecord /\ RowTypes
        /\ att \in [Attempts -> AttemptRecord] /\ att[a] \in AttemptRecord
    BY DEF RowInv, RowTypes
  <1>1. UNCHANGED <<pv, prov, account, disc, astray, crashes>> /\ sel' \in Previews \union {None}
    BY <1>0 DEF StartOAuth, Consume, CancelOAuth, Exchange, Mismatch, FinalizeThrows,
                RevokeMismatched, Undo, previewVars, accountVars, RowTypes
  <1>2. dep' \in DepRecord /\ ClaimLeft
    <2>1. CASE StartOAuth(a)
      BY <1>0, <2>1 DEF StartOAuth, DepRecord, OnPreview, ClaimLeft
    <2>2. CASE CancelOAuth(a)
      BY <1>0, <2>2 DEF CancelOAuth, DepRecord, OnPreview, ClaimLeft
    <2>3. CASE Undo(a)
      BY <1>0, <2>3 DEF Undo, Unclaimed, DepRecord, OnPreview, ClaimLeft
    <2>4. CASE Consume(a) \/ Exchange(a) \/ Mismatch(a) \/ FinalizeThrows(a) \/ RevokeMismatched(a)
      BY <1>0, <2>4 DEF Consume, Exchange, Mismatch, FinalizeThrows, RevokeMismatched, ClaimLeft
    <2> QED
      BY <2>1, <2>2, <2>3, <2>4
  <1>3. app' \in AppRecord
    <2>1. CASE CancelOAuth(a)
      BY <1>0, <2>1 DEF CancelOAuth, AppRecord
    <2>2. CASE Undo(a)
      BY <1>0, <2>2 DEF Undo, AppRecord
    <2>3. CASE Mismatch(a)
      BY <1>0, <2>3 DEF Mismatch, AppRecord
    <2>4. CASE StartOAuth(a) \/ Consume(a) \/ Exchange(a) \/ FinalizeThrows(a) \/ RevokeMismatched(a)
      BY <1>0, <2>4 DEF StartOAuth, Consume, Exchange, FinalizeThrows, RevokeMismatched
    <2> QED
      BY <2>1, <2>2, <2>3, <2>4
  <1>4. att' \in [Attempts -> AttemptRecord]
    <2>1. ASSUME NEW st \in {"pending", "exchanging", "failed"},
                 att' = [att EXCEPT ![a].status = st]
          PROVE  att' \in [Attempts -> AttemptRecord]
      BY <1>0, <2>1 DEF AttemptRecord
    <2>2. CASE att' = Close(a, "failed")
      <3>1. att' = [att EXCEPT ![a].status =
                      IF att[a].status = "exchanging" THEN "failed" ELSE att[a].status]
        BY <2>2 DEF Close
      <3> QED
        BY <1>0, <3>1 DEF AttemptRecord
    <2>3. CASE att' = att
      BY <1>0, <2>3
    <2>4. CASE att' = [att EXCEPT ![a] = [status |-> "pending", purpose |-> "claim",
                                          preview |-> dep.preview]]
      BY <1>0, <2>4 DEF AttemptRecord, DepRecord
    <2> QED
      BY <2>1, <2>2, <2>3, <2>4
         DEF StartOAuth, Consume, CancelOAuth, Exchange, Mismatch, FinalizeThrows,
             RevokeMismatched, Undo
  <1> QED
    BY <1>0, <1>1, <1>2, <1>3, <1>4, PreviewsStay DEF RowTypes

(* The finalizing transaction: a claim clears its preview and makes the    *)
(* deployment the user's own in one step.                                  *)
LEMMA FinalizeStep ==
  ASSUME RowInv, NEW a \in Attempts, Finalize(a)
  PROVE  RowInv'
  <1>0. dep \in DepRecord /\ app \in AppRecord /\ RowTypes
        /\ att \in [Attempts -> AttemptRecord] /\ att[a] \in AttemptRecord
    BY DEF RowInv, RowTypes
  <1>1. UNCHANGED <<prov, account, disc, astray, sel, crashes>>
    BY DEF Finalize, accountVars
  <1>2. att' \in [Attempts -> AttemptRecord]
    <2>1. att' = [att EXCEPT ![a].status =
                      IF att[a].status = "exchanging" THEN "completed" ELSE att[a].status]
      BY DEF Finalize, Close
    <2> QED
      BY <1>0, <2>1 DEF AttemptRecord
  <1>3. CASE Connectable(a) /\ pv' = pv
             /\ dep' = [dep EXCEPT !.phase = "queued", !.target = "byoc", !.preview = None]
             /\ app' = [app EXCEPT !.status = "needs_action", !.preview = None]
    <2>1. dep' \in DepRecord /\ ClaimLeft
      BY <1>0, <1>3 DEF DepRecord, OnPreview, ClaimLeft, Connectable
    <2>2. app' \in AppRecord
      BY <1>0, <1>3 DEF AppRecord
    <2> QED
      BY <1>0, <1>1, <1>2, <1>3, <2>1, <2>2, PreviewsStay DEF RowTypes
  <1>4. CASE Claimable(a) /\ pv' = Cleared(att[a].preview, "claimed")
             /\ dep' = [phase |-> "ready", target |-> "byoc", preview |-> None]
             /\ app' = [app EXCEPT !.status = "ready", !.preview = None]
    <2>1. /\ dep' \in DepRecord /\ dep'.phase = "ready" /\ dep'.target = "byoc"
      BY <1>4 DEF DepRecord
    <2>2. app' \in AppRecord
      BY <1>0, <1>4 DEF AppRecord
    <2>3. ClaimLeft
      BY <2>1 DEF ClaimLeft
    <2> DEFINE r == [status |-> "claimed", cred |-> FALSE, up |-> FALSE]
    <2>4. pv' = [pv EXCEPT ![att[a].preview] = r]
      BY <1>4 DEF Cleared
    <2>5. r \in PreviewRecord /\ r.status = "claimed" /\ ~ r.cred
      BY DEF PreviewRecord
    <2> HIDE DEF r
    <2>6. CASE att[a].preview \in Previews
      <3>1. PICK p \in Previews : p = att[a].preview
        BY <2>6
      <3>2. prov[p] \in Places /\ prov' = [prov EXCEPT ![p] = prov[p]]
        BY <1>0, <1>1 DEF RowTypes
      <3>3. sel' \in Previews \union {None} /\ RowTypes
        BY <1>0, <1>1 DEF RowTypes
      <3>4. pv[p].status = "claiming" /\ Fine(p)
        BY <1>4, <3>1 DEF Claimable, RowInv
      <3>5. pv'[p] = r /\ prov'[p] = prov[p]
        BY <1>0, <1>1, <2>4, <3>1 DEF RowTypes
      <3>6. Fine(p)'
        BY <1>1, <2>5, <3>4, <3>5 DEF Fine, Placed, Usable
      <3> QED
        BY <1>1, <1>2, <2>1, <2>2, <2>3, <2>4, <2>5, <3>1, <3>2, <3>3, <3>6, PreviewMoves
    <2>7. CASE att[a].preview \notin Previews
      <3>1. pv' = pv
        BY <1>0, <2>4, <2>7 DEF RowTypes
      <3> QED
        BY <1>0, <1>1, <1>2, <2>1, <2>2, <2>3, <3>1, PreviewsStay DEF RowTypes
    <2> QED
      BY <2>6, <2>7
  <1> QED
    BY <1>3, <1>4 DEF Finalize

LEMMA ConnectionSteps ==
  ASSUME RowInv,
         \/ StartRevoke \/ FinishRevoke
         \/ \E s \in Servers :
               \/ StartRefresh(s) \/ CallRefresh(s) \/ StoreRefresh(s) \/ RefreshFailed(s)
               \/ RefreshUnrecorded(s)
  PROVE  RowInv'
  <1>1. UNCHANGED <<pv, prov, account, disc, astray, dep, app, sel, att>>
    BY DEF StartRevoke, FinishRevoke, StartRefresh, CallRefresh, StoreRefresh, RefreshFailed,
           RefreshUnrecorded, previewVars, accountVars, oauthVars
  <1>2. crashes' \in {crashes, crashes + 1} /\ crashes \in Nat
    BY DEF StartRevoke, FinishRevoke, StartRefresh, CallRefresh, StoreRefresh, RefreshFailed,
           RefreshUnrecorded, RowInv, RowTypes
  <1>3. crashes' \in Nat /\ (crashes' = 0 => crashes = 0)
    BY <1>2
  <1> QED
    BY <1>1, <1>3, PreviewsStay DEF RowInv, RowTypes, ClaimLeft

LEMMA CrashRows ==
  ASSUME RowInv, Crash
  PROVE  RowInv'
  <1>1. /\ UNCHANGED <<pv, account, astray, dep, app, att>> /\ crashes' = crashes + 1
        /\ prov' = [p \in Previews |-> "idle"] /\ disc' = {} /\ sel' = None
    BY DEF Crash
  <1>2. RowTypes'
    BY <1>1 DEF RowInv, RowTypes, Places
  <1>3. crashes' # 0
    BY <1>1 DEF RowInv, RowTypes
  <1>4. ASSUME NEW p \in Previews PROVE Fine(p)'
    <2>1. Fine(p) /\ prov'[p] = "idle" /\ p \notin disc'
      BY <1>1 DEF RowInv
    <2> QED
      BY <1>1, <1>3, <2>1 DEF Fine, Placed
  <1> QED
    BY <1>1, <1>2, <1>4 DEF RowInv, ClaimSticks

LEMMA RowsKept == RowInv /\ [Next]_vars => RowInv'
  <1> SUFFICES ASSUME RowInv, [Next]_vars PROVE RowInv'
    OBVIOUS
  <1>1. CASE UNCHANGED vars
    BY <1>1, PreviewsStay DEF vars, RowInv, RowTypes, ClaimLeft
  <1>2. ASSUME NEW p \in Previews,
               \/ StartProvision(p) \/ CallProvision(p) \/ StoreProvision(p) \/ FailProvision(p)
               \/ Discard(p) \/ Timer(p) \/ ReleaseUnassigned(p) \/ SelectReads(p) \/ OpenClaim(p)
        PROVE  RowInv'
    BY <1>2, ProvisionSteps, ExpireStep, OpenClaimStep, TargetSteps DEF Timer
  <1>3. CASE SelectWrites \/ SelectConnection \/ RunDeployment \/ MoveOn
    BY <1>3, TargetSteps
  <1>4. ASSUME NEW a \in Attempts,
               \/ StartOAuth(a) \/ Consume(a) \/ CancelOAuth(a) \/ Exchange(a) \/ Finalize(a)
               \/ Mismatch(a) \/ FinalizeThrows(a) \/ RevokeMismatched(a) \/ Undo(a)
        PROVE  RowInv'
    BY <1>4, AttemptSteps, FinalizeStep
  <1>5. CASE \/ StartRevoke \/ FinishRevoke
             \/ \E s \in Servers :
                   \/ StartRefresh(s) \/ CallRefresh(s) \/ StoreRefresh(s) \/ RefreshFailed(s)
                   \/ RefreshUnrecorded(s)
    BY <1>5, ConnectionSteps
  <1>6. CASE Crash
    BY <1>6, CrashRows
  <1> QED
    BY <1>1, <1>2, <1>3, <1>4, <1>5, <1>6 DEF Next

-----------------------------------------------------------------------------
(* The tokens *)

LEMMA TokensInitially == Init => TokenInv
  <1> SUFFICES ASSUME Init PROVE TokenInv
    OBVIOUS
  <1>0. /\ cb = [a \in Attempts |-> NoCallback] /\ flight = [s \in Servers |-> NoFlight]
        /\ crashes = 0
    BY DEF Init
  <1>1. \/ /\ conn = [status |-> "active", token |-> 1] /\ valid = {1} /\ issued = 1
        \/ /\ conn = [status |-> "none", token |-> 0] /\ valid = {} /\ issued = 0
    <2>1. Cardinality({1}) = 1 /\ Cardinality({}) = 0
      BY FS_Singleton, FS_EmptySet
    <2>2. PICK past \in Pasts :
            /\ valid = (IF "connection" \in past THEN {1} ELSE {})
            /\ conn = IF "connection" \in past THEN [status |-> "active", token |-> 1]
                                               ELSE [status |-> "none", token |-> 0]
            /\ issued = Cardinality(valid)
      BY DEF Init
    <2> QED
      BY <2>1, <2>2
  <1>2. NoCallback \in CallbackRecord /\ NoCallback.pc = "idle" /\ NoCallback.token = 0
    BY DEF NoCallback, CallbackRecord
  <1>3. NoFlight \in FlightRecord /\ NoFlight.pc = "idle" /\ NoFlight.old = 0 /\ NoFlight.new = 0
    BY DEF NoFlight, FlightRecord
  <1>4. MaxTokens \in Nat /\ 1 <= MaxTokens
    BY AccountAssumption
  <1>5. TokenTypes
    <2>1. cb \in [Attempts -> CallbackRecord] /\ flight \in [Servers -> FlightRecord]
      BY <1>0, <1>2, <1>3
    <2>2. conn \in ConnRecord
      BY <1>1, <1>4 DEF ConnRecord
    <2>3. issued \in 0..MaxTokens /\ valid \subseteq 1..issued /\ crashes \in Nat
      BY <1>0, <1>1, <1>4
    <2>4. conn.token # 0 <=> conn.status \in {"active", "refresh_required"}
      BY <1>1
    <2> QED
      BY <2>1, <2>2, <2>3, <2>4 DEF TokenTypes
  <1>6. Issued
    BY <1>0, <1>1, <1>2, <1>3 DEF Issued
  <1>7. Private
    BY <1>0, <1>2, <1>3 DEF Private, Holding
  <1>8. Covered
    BY <1>0, <1>1, <1>3 DEF Covered
  <1> QED
    BY <1>5, <1>6, <1>7, <1>8 DEF TokenInv

LEMMA TokensStay ==
  ASSUME TokenInv, UNCHANGED <<cb, conn, flight, revoking, valid, issued, crashes>>
  PROVE  TokenInv'
  BY DEF TokenInv, TokenTypes, Issued, Private, Covered

(* A callback goes on, or drops the token it holds: that token is not the  *)
(* one the connection stores.                                              *)
LEMMA CallbackMoves ==
  ASSUME TokenInv, NEW a \in Attempts, NEW c \in CallbackRecord,
         cb' = [cb EXCEPT ![a] = c], UNCHANGED <<conn, flight, revoking, issued, crashes>>,
         c.token \in {0, cb[a].token},
         \/ valid' = valid /\ (c.pc \in Holding => cb[a].pc \in Holding /\ c.token = cb[a].token)
         \/ valid' = valid \ {cb[a].token} /\ cb[a].pc \in Holding /\ c.pc \notin Holding
  PROVE  TokenInv'
  <1>0. /\ TokenTypes /\ Issued /\ Private /\ Covered
        /\ cb \in [Attempts -> CallbackRecord] /\ cb[a] \in CallbackRecord
        /\ flight \in [Servers -> FlightRecord] /\ issued \in Nat
    BY DEF TokenInv, TokenTypes
  <1>1. /\ cb' \in [Attempts -> CallbackRecord] /\ cb'[a] = c
        /\ \A b \in Attempts : b # a => cb'[b] = cb[b]
        /\ valid' \subseteq valid
    BY <1>0
  <1>2. TokenTypes'
    BY <1>0, <1>1 DEF TokenTypes
  <1>3. Issued'
    <2>1. \A b \in Attempts : cb'[b].token <= issued
      BY <1>0, <1>1 DEF Issued, CallbackRecord
    <2> QED
      BY <1>0, <2>1 DEF Issued
  <1>4. \A b \in Attempts : b # a /\ cb[b].pc \in Holding => cb[b].token \in valid'
    BY <1>0 DEF Private
  <1>5. \A s \in Servers : flight[s].pc = "storing" => flight[s].new \in valid'
    BY <1>0 DEF Private
  <1>6. conn.token \in valid => conn.token \in valid'
    BY <1>0 DEF Private
  <1>7. \A b \in Attempts : cb'[b].pc \in Holding =>
          cb[b].pc \in Holding /\ cb'[b].token = cb[b].token /\ cb'[b].token \in valid'
    BY <1>0, <1>1, <1>4 DEF Private
  <1>8. Private'
    BY <1>0, <1>5, <1>7 DEF Private
  <1>9. Covered'
    BY <1>0, <1>6 DEF Covered
  <1> QED
    BY <1>2, <1>3, <1>8, <1>9 DEF TokenInv

LEMMA CallbackSteps ==
  ASSUME TokenInv, NEW a \in Attempts,
         Consume(a) \/ Mismatch(a) \/ FinalizeThrows(a) \/ RevokeMismatched(a) \/ Undo(a)
  PROVE  TokenInv'
  <1>0. cb[a] \in CallbackRecord /\ cb \in [Attempts -> CallbackRecord]
    BY DEF TokenInv, TokenTypes
  <1>1. UNCHANGED <<conn, flight, revoking, issued, crashes>>
    BY DEF Consume, Mismatch, FinalizeThrows, RevokeMismatched, Undo, connVars
  <1>2. ASSUME NEW p \in {"exchange", "undo", "revoke"}, cb' = [cb EXCEPT ![a].pc = p],
               valid' = valid, p # "exchange" => cb[a].pc = "finalize"
        PROVE  TokenInv'
    <2> DEFINE c == [cb[a] EXCEPT !.pc = p]
    <2>1. c \in CallbackRecord /\ c.pc = p /\ c.token = cb[a].token /\ cb' = [cb EXCEPT ![a] = c]
      BY <1>0, <1>2 DEF CallbackRecord
    <2>2. p \in Holding => cb[a].pc \in Holding
      BY <1>2 DEF Holding
    <2> HIDE DEF c
    <2> QED
      BY <1>1, <1>2, <2>1, <2>2, CallbackMoves
  <1>3. CASE Consume(a)
    <2>1. CASE cb' = cb
      BY <1>1, <1>3, <2>1, TokensStay DEF Consume
    <2>2. CASE cb' = [cb EXCEPT ![a].pc = "exchange"]
      BY <1>2, <1>3, <2>2 DEF Consume
    <2> QED
      BY <1>3, <2>1, <2>2 DEF Consume
  <1>4. CASE Mismatch(a) \/ FinalizeThrows(a)
    BY <1>2, <1>4 DEF Mismatch, FinalizeThrows
  <1>5. CASE RevokeMismatched(a) \/ Undo(a)
    <2>1. NoCallback \in CallbackRecord /\ NoCallback.pc = "idle" /\ NoCallback.token = 0
      BY DEF NoCallback, CallbackRecord
    <2>2. /\ cb' = [cb EXCEPT ![a] = NoCallback] /\ valid' = valid \ {cb[a].token}
          /\ cb[a].pc \in Holding /\ NoCallback.pc \notin Holding
      BY <1>5, <2>1 DEF RevokeMismatched, Undo, Holding
    <2> QED
      BY <1>1, <2>1, <2>2, CallbackMoves
  <1> QED
    BY <1>3, <1>4, <1>5

(* A token that is issued is new to everybody.                             *)
LEMMA NewToken ==
  ASSUME TokenInv, issued < MaxTokens
  PROVE  /\ issued \in Nat /\ issued + 1 \in 1..MaxTokens /\ issued + 1 \notin valid
         /\ issued + 1 # conn.token
         /\ \A a \in Attempts : cb[a].token # issued + 1
         /\ \A s \in Servers : flight[s].old # issued + 1 /\ flight[s].new # issued + 1
  <1>0. /\ issued \in 0..MaxTokens /\ MaxTokens \in Nat /\ valid \subseteq 1..issued
        /\ conn.token \in Nat
        /\ \A a \in Attempts : cb[a].token \in Nat
        /\ \A s \in Servers : flight[s].old \in Nat /\ flight[s].new \in Nat
    BY AccountAssumption DEF TokenInv, TokenTypes, ConnRecord, CallbackRecord, FlightRecord
  <1>1. /\ conn.token <= issued
        /\ \A a \in Attempts : cb[a].token <= issued
        /\ \A s \in Servers : flight[s].old <= issued /\ flight[s].new <= issued
    BY DEF TokenInv, Issued
  <1> QED
    BY <1>0, <1>1

LEMMA ExchangeStep ==
  ASSUME TokenInv, NEW a \in Attempts, Exchange(a)
  PROVE  TokenInv'
  <1>0. /\ TokenTypes /\ Issued /\ Private /\ Covered
        /\ cb \in [Attempts -> CallbackRecord] /\ cb[a] \in CallbackRecord
    BY DEF TokenInv, TokenTypes
  <1>1. UNCHANGED <<conn, flight, revoking, crashes>>
    BY DEF Exchange, connVars
  <1>2. CASE cb' = [cb EXCEPT ![a] = NoCallback] /\ UNCHANGED <<issued, valid>>
    <2>1. NoCallback \in CallbackRecord /\ NoCallback.pc = "idle" /\ NoCallback.token = 0
      BY DEF NoCallback, CallbackRecord
    <2>2. NoCallback.pc \notin Holding
      BY <2>1 DEF Holding
    <2> QED
      BY <1>1, <1>2, <2>1, <2>2, CallbackMoves
  <1>3. CASE ~ (cb' = [cb EXCEPT ![a] = NoCallback] /\ UNCHANGED <<issued, valid>>)
    <2>1. PICK p \in {"finalize", "undo"} :
            /\ cb' = [cb EXCEPT ![a] = [pc |-> p, token |-> issued + 1]]
            /\ issued < MaxTokens /\ issued' = issued + 1 /\ valid' = valid \union {issued + 1}
      BY <1>3 DEF Exchange
    <2>2. PICK n : n = issued + 1
      OBVIOUS
    <2>3. /\ issued \in Nat /\ n \in 1..MaxTokens /\ n \notin valid /\ n # conn.token
          /\ \A b \in Attempts : cb[b].token # n
          /\ \A s \in Servers : flight[s].old # n /\ flight[s].new # n
      BY <2>1, <2>2, NewToken
    <2> DEFINE c == [pc |-> p, token |-> n]
    <2>4. c \in CallbackRecord /\ c.pc = p /\ c.token = n /\ cb' = [cb EXCEPT ![a] = c]
      BY <2>1, <2>2, <2>3 DEF CallbackRecord
    <2> HIDE DEF c
    <2>5. /\ cb' \in [Attempts -> CallbackRecord] /\ cb'[a] = c
          /\ \A b \in Attempts : b # a => cb'[b] = cb[b]
          /\ issued' = n /\ valid' = valid \union {n}
      BY <1>0, <2>1, <2>2, <2>4
    <2>6. issued' \in 0..MaxTokens /\ valid' \subseteq 1..issued'
      BY <1>0, <2>2, <2>3, <2>5 DEF TokenTypes
    <2>7. TokenTypes'
      BY <1>0, <1>1, <2>5, <2>6 DEF TokenTypes
    <2>8. Issued'
      <3>1. \A k \in Nat : k <= issued => k <= issued'
        BY <2>2, <2>3, <2>5
      <3>2. n <= issued'
        BY <2>3, <2>5
      <3>3. conn.token \in Nat /\ \A b \in Attempts : cb[b].token \in Nat
        BY <1>0 DEF TokenTypes, ConnRecord, CallbackRecord
      <3>4. \A s \in Servers : flight[s].old \in Nat /\ flight[s].new \in Nat
        BY <1>0 DEF TokenTypes, FlightRecord
      <3>5. \A b \in Attempts : cb'[b].token <= issued'
        BY <1>0, <2>4, <2>5, <3>1, <3>2, <3>3 DEF Issued
      <3> QED
        BY <1>0, <1>1, <3>1, <3>3, <3>4, <3>5 DEF Issued
    <2>9. Private'
      <3>1. ASSUME NEW b \in Attempts, cb'[b].pc \in Holding
            PROVE  /\ cb'[b].token \in valid' /\ cb'[b].token # conn.token
                   /\ \A d \in Attempts \ {b} : cb'[d].pc \in Holding => cb'[d].token # cb'[b].token
                   /\ \A s \in Servers :
                        /\ flight[s].old # cb'[b].token
                        /\ flight[s].pc = "storing" => flight[s].new # cb'[b].token
        <4>1. CASE b = a
          BY <2>3, <2>4, <2>5, <4>1
        <4>2. CASE b # a
          BY <1>0, <2>3, <2>4, <2>5, <3>1, <4>2 DEF Private
        <4> QED
          BY <4>1, <4>2
      <3>2. \A s \in Servers : flight[s].pc = "storing" => flight[s].new \in valid'
        BY <1>0, <2>5 DEF Private
      <3> QED
        BY <1>0, <1>1, <3>1, <3>2 DEF Private
    <2>10. Covered'
      BY <1>0, <1>1, <2>5 DEF Covered
    <2> QED
      BY <2>7, <2>8, <2>9, <2>10 DEF TokenInv
  <1> QED
    BY <1>2, <1>3

(* The callback's token becomes the connection's.                          *)
LEMMA FinalizeTokens ==
  ASSUME TokenInv, NEW a \in Attempts, Finalize(a)
  PROVE  TokenInv'
  <1>0. /\ TokenTypes /\ Issued /\ Private /\ Covered
        /\ cb \in [Attempts -> CallbackRecord] /\ cb[a] \in CallbackRecord
        /\ issued \in 0..MaxTokens /\ valid \subseteq 1..issued /\ MaxTokens \in Nat
    BY AccountAssumption DEF TokenInv, TokenTypes
  <1>1. /\ UNCHANGED <<flight, revoking, valid, issued, crashes>>
        /\ cb[a].pc \in Holding /\ cb' = [cb EXCEPT ![a] = NoCallback]
        /\ conn' = [status |-> "active", token |-> cb[a].token]
    BY DEF Finalize, Connect, Holding
  <1>2. NoCallback \in CallbackRecord /\ NoCallback.pc = "idle" /\ NoCallback.token = 0
        /\ NoCallback.pc \notin Holding
    BY DEF NoCallback, CallbackRecord, Holding
  <1>3. PICK t : t = cb[a].token
    OBVIOUS
  <1>4. t \in valid /\ t \in 1..MaxTokens /\ t <= issued /\ t # 0
    <2>1. t \in valid
      BY <1>0, <1>1, <1>3 DEF Private
    <2> QED
      BY <1>0, <2>1
  <1>5. conn' \in ConnRecord /\ conn'.token = t /\ conn'.status = "active"
    BY <1>1, <1>3, <1>4 DEF ConnRecord
  <1>6. /\ cb' \in [Attempts -> CallbackRecord] /\ cb'[a] = NoCallback
        /\ \A b \in Attempts : b # a => cb'[b] = cb[b]
    BY <1>0, <1>1, <1>2
  <1>7. TokenTypes'
    <2>1. conn'.token # 0 <=> conn'.status \in {"active", "refresh_required"}
      BY <1>4, <1>5
    <2> QED
      BY <1>0, <1>1, <1>5, <1>6, <2>1 DEF TokenTypes
  <1>8. Issued'
    <2>1. \A b \in Attempts : cb'[b].token <= issued
      BY <1>0, <1>2, <1>6 DEF Issued
    <2> QED
      BY <1>0, <1>1, <1>4, <1>5, <2>1 DEF Issued
  <1>9. Private'
    <2>1. \A b \in Attempts : cb'[b].pc \in Holding =>
            b # a /\ cb'[b] = cb[b] /\ cb[b].pc \in Holding /\ cb[b].token # t
      BY <1>0, <1>1, <1>2, <1>3, <1>6 DEF Private
    <2>2. \A s \in Servers : flight[s].pc = "storing" => flight[s].new # t
      BY <1>0, <1>1, <1>3 DEF Private
    <2> QED
      BY <1>0, <1>1, <1>5, <2>1, <2>2 DEF Private
  <1>10. Covered'
    BY <1>0, <1>1, <1>4, <1>5 DEF Covered
  <1> QED
    BY <1>7, <1>8, <1>9, <1>10 DEF TokenInv

-----------------------------------------------------------------------------
(* The refreshes and the revocation *)

(* A refresh changes its place and nothing else.                           *)
LEMMA FlightMoves ==
  ASSUME TokenInv, NEW s \in Servers, NEW f \in FlightRecord,
         flight' = [flight EXCEPT ![s] = f], UNCHANGED <<conn, cb, revoking, valid, issued, crashes>>,
         f.pc # "storing", f.old \in {0, flight[s].old, conn.token}, f.new <= issued,
         f.pc # "idle" => f.old # 0,
         flight[s].pc \in {"storing", "failing"} /\ flight[s].old = conn.token
           => conn.status # "active"
  PROVE  TokenInv'
  <1>0. /\ TokenTypes /\ Issued /\ Private /\ Covered
        /\ flight \in [Servers -> FlightRecord] /\ issued \in Nat /\ valid \subseteq 1..issued
    BY DEF TokenInv, TokenTypes
  <1>1. /\ flight' \in [Servers -> FlightRecord] /\ flight'[s] = f
        /\ \A t \in Servers : t # s => flight'[t] = flight[t]
    BY <1>0
  <1>2. TokenTypes'
    BY <1>0, <1>1 DEF TokenTypes
  <1>3. Issued'
    <2>1. \A t \in Servers : flight'[t].old <= issued /\ flight'[t].new <= issued
      BY <1>0, <1>1 DEF Issued
    <2> QED
      BY <1>0, <2>1 DEF Issued
  <1>4. Private'
    <2>1. \A t \in Servers : flight'[t].pc = "storing" => t # s /\ flight'[t] = flight[t]
      BY <1>1
    <2>2. \A a \in Attempts : cb[a].pc \in Holding => \A t \in Servers : flight'[t].old # cb[a].token
      <3> SUFFICES ASSUME NEW a \in Attempts, cb[a].pc \in Holding, NEW t \in Servers
                   PROVE  flight'[t].old # cb[a].token
        OBVIOUS
      <3>1. cb[a].token # 0
        BY <1>0 DEF Private
      <3> QED
        BY <1>0, <1>1, <3>1 DEF Private
    <2>3. \A u \in Servers : flight[u].pc = "storing" =>
            \A t \in Servers : flight'[t].old # flight[u].new
      <3> SUFFICES ASSUME NEW u \in Servers, flight[u].pc = "storing", NEW t \in Servers
                   PROVE  flight'[t].old # flight[u].new
        OBVIOUS
      <3>1. flight[u].new # 0
        BY <1>0 DEF Private
      <3> QED
        BY <1>0, <1>1, <3>1 DEF Private
    <2> QED
      BY <1>0, <1>1, <2>1, <2>2, <2>3 DEF Private
  <1>5. Covered'
    <2>1. \A t \in Servers : flight'[t].pc # "idle" => flight'[t].old # 0
      BY <1>0, <1>1 DEF Covered
    <2>2. ASSUME crashes = 0, conn.status = "active", ~ revoking, conn.token \notin valid
          PROVE  \E t \in Servers : flight'[t].pc \in {"storing", "failing"}
                                    /\ flight'[t].old = conn.token
      <3>1. PICK t \in Servers : flight[t].pc \in {"storing", "failing"} /\ flight[t].old = conn.token
        BY <1>0, <2>2 DEF Covered
      <3>2. t # s
        BY <2>2, <3>1
      <3> QED
        BY <1>1, <3>1, <3>2
    <2> QED
      BY <2>1, <2>2 DEF Covered
  <1> QED
    BY <1>2, <1>3, <1>4, <1>5 DEF TokenInv

LEMMA StartRefreshStep ==
  ASSUME TokenInv, NEW s \in Servers, StartRefresh(s)
  PROVE  TokenInv'
  <1> DEFINE f == [pc |-> "calling", old |-> conn.token, new |-> 0]
  <1>0. TokenTypes /\ conn.token \in Nat /\ issued \in Nat
    BY DEF TokenInv, TokenTypes, ConnRecord
  <1>1. /\ flight' = [flight EXCEPT ![s] = f] /\ flight[s].pc = "idle"
        /\ UNCHANGED <<conn, cb, revoking, valid, issued, crashes>>
        /\ conn.status \in {"active", "refresh_required"}
    BY DEF StartRefresh, oauthVars
  <1>2. f \in FlightRecord /\ f.pc = "calling" /\ f.old = conn.token /\ f.new = 0
    BY <1>0 DEF FlightRecord
  <1>3. conn.token # 0 /\ 0 <= issued
    BY <1>0, <1>1 DEF TokenTypes
  <1> HIDE DEF f
  <1> QED
    BY <1>1, <1>2, <1>3, FlightMoves

(* Cloudflare replaces a token: whoever stores the old one waits for the   *)
(* refresh that has the answer, or lost it.                                *)
LEMMA CallRefreshStep ==
  ASSUME TokenInv, NEW s \in Servers, CallRefresh(s)
  PROVE  TokenInv'
  <1>0. /\ TokenTypes /\ Issued /\ Private /\ Covered
        /\ flight \in [Servers -> FlightRecord] /\ flight[s] \in FlightRecord
        /\ flight[s].old \in Nat /\ flight[s].new <= issued
    BY DEF TokenInv, TokenTypes, FlightRecord, Issued
  <1>1. UNCHANGED <<conn, cb, revoking, crashes>> /\ flight[s].pc = "calling"
    BY DEF CallRefresh, oauthVars
  <1>2. flight[s].old # 0
    BY <1>0, <1>1 DEF Covered
  <1>3. CASE ~ (flight[s].old \in valid /\ issued < MaxTokens)
    <2> DEFINE f == [flight[s] EXCEPT !.pc = "failing"]
    <2>1. flight' = [flight EXCEPT ![s] = f] /\ UNCHANGED <<issued, valid>>
      BY <1>3 DEF CallRefresh
    <2>2. f \in FlightRecord /\ f.pc = "failing" /\ f.old = flight[s].old /\ f.new = flight[s].new
      BY <1>0 DEF FlightRecord
    <2> HIDE DEF f
    <2> QED
      BY <1>0, <1>1, <1>2, <2>1, <2>2, FlightMoves
  <1>4. CASE flight[s].old \in valid /\ issued < MaxTokens
    <2>1. PICK n : n = issued + 1
      OBVIOUS
    <2>2. /\ issued \in Nat /\ n \in 1..MaxTokens /\ n \notin valid /\ n # conn.token
          /\ \A a \in Attempts : cb[a].token # n
          /\ \A t \in Servers : flight[t].old # n /\ flight[t].new # n
      BY <1>4, <2>1, NewToken
    <2>3. PICK f \in FlightRecord :
            /\ flight' = [flight EXCEPT ![s] = f]
            /\ f.pc \in {"storing", "failing"} /\ f.old = flight[s].old
            /\ f.new \in {n, flight[s].new} /\ (f.pc = "storing" => f.new = n)
      <3> DEFINE g == [flight[s] EXCEPT !.pc = "storing", !.new = n]
                 h == [flight[s] EXCEPT !.pc = "failing"]
      <3>0. n \in Nat
        BY <2>1, <2>2
      <3>1. g \in FlightRecord /\ g.pc = "storing" /\ g.old = flight[s].old /\ g.new = n
        BY <1>0, <3>0 DEF FlightRecord
      <3>2. h \in FlightRecord /\ h.pc = "failing" /\ h.old = flight[s].old
            /\ h.new = flight[s].new
        BY <1>0 DEF FlightRecord
      <3>3. flight' = [flight EXCEPT ![s] = g] \/ flight' = [flight EXCEPT ![s] = h]
        BY <1>0, <1>4, <2>1 DEF CallRefresh
      <3> HIDE DEF g, h
      <3> QED
        BY <3>1, <3>2, <3>3
    <2>4. issued' = n /\ valid' = (valid \ {flight[s].old}) \union {n}
      BY <1>4, <2>1 DEF CallRefresh
    <2>5. /\ flight' \in [Servers -> FlightRecord] /\ flight'[s] = f
          /\ \A t \in Servers : t # s => flight'[t] = flight[t]
          /\ \A t \in Servers : flight'[t].old = flight[t].old
      BY <1>0, <2>3
    <2>6. issued' \in 0..MaxTokens /\ valid' \subseteq 1..issued'
      <3>1. issued' \in 0..MaxTokens
        BY <2>1, <2>2, <2>4, AccountAssumption
      <3>2. \A k \in 1..issued : k \in 1..issued'
        BY <2>1, <2>2, <2>4
      <3>3. n \in 1..issued'
        BY <2>1, <2>2, <2>4
      <3> QED
        BY <1>0, <2>4, <3>1, <3>2, <3>3 DEF TokenTypes
    <2>7. TokenTypes'
      BY <1>0, <1>1, <2>5, <2>6 DEF TokenTypes
    <2>8. Issued'
      <3>1. \A k \in Nat : k <= issued => k <= issued'
        BY <2>1, <2>2, <2>4
      <3>2. n <= issued'
        BY <2>2, <2>4
      <3>3. conn.token \in Nat /\ \A b \in Attempts : cb[b].token \in Nat
        BY <1>0 DEF TokenTypes, ConnRecord, CallbackRecord
      <3>4. \A t \in Servers : flight[t].old \in Nat /\ flight[t].new \in Nat
        BY <1>0 DEF TokenTypes, FlightRecord
      <3>5. \A t \in Servers : flight'[t].old <= issued' /\ flight'[t].new <= issued'
        BY <1>0, <2>3, <2>5, <3>1, <3>2, <3>4 DEF Issued
      <3> QED
        BY <1>0, <1>1, <3>1, <3>3, <3>5 DEF Issued
    <2>9. Private'
      <3>1. \A a \in Attempts : cb[a].pc \in Holding => cb[a].token \in valid'
        BY <1>0, <2>4 DEF Private
      <3>2. ASSUME NEW t \in Servers, flight'[t].pc = "storing"
            PROVE  /\ flight'[t].new \in valid' /\ flight'[t].new # conn.token
                   /\ \A a \in Attempts : cb[a].pc \in Holding => flight'[t].new # cb[a].token
                   /\ \A u \in Servers : flight'[u].old # flight'[t].new
                   /\ \A u \in Servers \ {t} :
                        flight'[u].pc = "storing" => flight'[u].new # flight'[t].new
        <4>1. CASE t = s
          <5>1. flight'[t].new = n
            BY <2>3, <2>5, <3>2, <4>1
          <5> QED
            BY <2>2, <2>4, <2>5, <4>1, <5>1
        <4>2. CASE t # s
          <5>1. flight'[t] = flight[t] /\ flight[t].pc = "storing" /\ flight[t].new # n
            BY <2>2, <2>5, <3>2, <4>2
          <5>2. flight[t].new \in valid'
            BY <1>0, <2>4, <5>1 DEF Private
          <5>3. \A u \in Servers \ {t} :
                  flight'[u].pc = "storing" => flight'[u].new # flight[t].new
            BY <1>0, <2>3, <2>5, <5>1 DEF Private
          <5> QED
            BY <1>0, <2>5, <5>1, <5>2, <5>3 DEF Private
        <4> QED
          BY <4>1, <4>2
      <3> QED
        BY <1>0, <1>1, <2>5, <3>1, <3>2 DEF Private
    <2>10. Covered'
      <3>1. \A t \in Servers : flight'[t].pc # "idle" => flight'[t].old # 0
        BY <1>0, <1>2, <2>3, <2>5 DEF Covered
      <3>2. ASSUME crashes = 0, conn.status = "active", ~ revoking, conn.token \notin valid'
            PROVE  \E t \in Servers : flight'[t].pc \in {"storing", "failing"}
                                      /\ flight'[t].old = conn.token
        <4>1. CASE conn.token = flight[s].old
          BY <2>3, <2>5, <4>1
        <4>2. CASE conn.token # flight[s].old
          <5>1. conn.token \notin valid
            BY <2>4, <3>2, <4>2
          <5>2. PICK t \in Servers : flight[t].pc \in {"storing", "failing"}
                                     /\ flight[t].old = conn.token
            BY <1>0, <3>2, <5>1 DEF Covered
          <5> QED
            BY <2>5, <4>2, <5>2
        <4> QED
          BY <4>1, <4>2
      <3> QED
        BY <1>1, <3>1, <3>2 DEF Covered
    <2> QED
      BY <2>7, <2>8, <2>9, <2>10 DEF TokenInv
  <1> QED
    BY <1>3, <1>4

(* The answer is stored over the token it replaced, or not at all.         *)
LEMMA StoreRefreshStep ==
  ASSUME TokenInv, NEW s \in Servers, StoreRefresh(s)
  PROVE  TokenInv'
  <1>0. /\ TokenTypes /\ Issued /\ Private /\ Covered
        /\ flight \in [Servers -> FlightRecord]
        /\ issued \in 0..MaxTokens /\ valid \subseteq 1..issued /\ MaxTokens \in Nat
    BY AccountAssumption DEF TokenInv, TokenTypes
  <1>1. /\ UNCHANGED <<cb, revoking, valid, issued, crashes>> /\ flight[s].pc = "storing"
        /\ flight' = [flight EXCEPT ![s] = NoFlight]
    BY DEF StoreRefresh, oauthVars
  <1>2. NoFlight \in FlightRecord /\ NoFlight.pc = "idle" /\ NoFlight.old = 0 /\ NoFlight.new = 0
    BY DEF NoFlight, FlightRecord
  <1>3. CASE ~ Unchanged(s)
    <2>1. conn' = conn
      BY <1>3 DEF StoreRefresh
    <2>2. flight[s].old = conn.token => conn.status # "active"
      BY <1>3 DEF Unchanged
    <2>3. 0 <= issued
      BY <1>0
    <2> QED
      BY <1>1, <1>2, <2>1, <2>2, <2>3, FlightMoves
  <1>4. CASE Unchanged(s)
    <2>1. PICK n : n = flight[s].new
      OBVIOUS
    <2>2. n \in valid /\ n # conn.token
      BY <1>0, <1>1, <2>1 DEF Private
    <2>3. n \in 1..MaxTokens /\ n <= issued /\ n # 0
      BY <1>0, <2>2
    <2>4. conn' = [status |-> "active", token |-> n]
      BY <1>4, <2>1 DEF StoreRefresh
    <2>5. conn' \in ConnRecord /\ conn'.token = n /\ conn'.status = "active"
      BY <2>3, <2>4 DEF ConnRecord
    <2>6. /\ flight' \in [Servers -> FlightRecord] /\ flight'[s] = NoFlight
          /\ \A t \in Servers : t # s => flight'[t] = flight[t]
      BY <1>0, <1>1, <1>2
    <2>7. TokenTypes'
      <3>1. conn'.token # 0 <=> conn'.status \in {"active", "refresh_required"}
        BY <2>3, <2>5
      <3> QED
        BY <1>0, <1>1, <2>5, <2>6, <3>1 DEF TokenTypes
    <2>8. Issued'
      <3>1. \A t \in Servers : flight'[t].old <= issued /\ flight'[t].new <= issued
        BY <1>0, <1>2, <2>6 DEF Issued
      <3> QED
        BY <1>0, <1>1, <2>3, <2>5, <3>1 DEF Issued
    <2>9. Private'
      <3>1. \A t \in Servers : flight'[t].pc = "storing" =>
              t # s /\ flight'[t] = flight[t] /\ flight[t].new # n
        BY <1>0, <1>1, <1>2, <2>1, <2>6 DEF Private
      <3>2. \A a \in Attempts : cb[a].pc \in Holding =>
              /\ cb[a].token # n
              /\ \A t \in Servers : flight'[t].old # cb[a].token
        <4> SUFFICES ASSUME NEW a \in Attempts, cb[a].pc \in Holding
                     PROVE  /\ cb[a].token # n
                            /\ \A t \in Servers : flight'[t].old # cb[a].token
          OBVIOUS
        <4>1. cb[a].token # 0
          BY <1>0 DEF Private
        <4> QED
          BY <1>0, <1>1, <1>2, <2>1, <2>6, <4>1 DEF Private
      <3>3. \A u \in Servers : flight[u].pc = "storing" =>
              \A t \in Servers : flight'[t].old # flight[u].new
        <4> SUFFICES ASSUME NEW u \in Servers, flight[u].pc = "storing", NEW t \in Servers
                     PROVE  flight'[t].old # flight[u].new
          OBVIOUS
        <4>1. flight[u].new # 0
          BY <1>0 DEF Private
        <4> QED
          BY <1>0, <1>2, <2>6, <4>1 DEF Private
      <3> QED
        BY <1>0, <1>1, <2>5, <3>1, <3>2, <3>3 DEF Private
    <2>10. Covered'
      BY <1>0, <1>1, <1>2, <2>2, <2>5, <2>6 DEF Covered
    <2> QED
      BY <2>7, <2>8, <2>9, <2>10 DEF TokenInv
  <1> QED
    BY <1>3, <1>4

(* The connection's row changes and no token does: it is marked or cleared.*)
LEMMA ConnectionMoves ==
  ASSUME TokenInv, conn' \in ConnRecord, conn'.status # "active",
         conn'.token # 0 <=> conn'.status \in {"active", "refresh_required"},
         conn'.token \in {0, conn.token}, UNCHANGED <<cb, flight, valid, issued, crashes>>
  PROVE  TokenInv'
  <1>0. /\ TokenTypes /\ Issued /\ Private /\ Covered
        /\ issued \in Nat /\ valid \subseteq 1..issued
    BY DEF TokenInv, TokenTypes
  <1>1. TokenTypes'
    BY <1>0 DEF TokenTypes
  <1>2. Issued'
    BY <1>0 DEF Issued
  <1>3. \A t \in valid : t # 0
    BY <1>0
  <1>4. Private'
    BY <1>0, <1>3 DEF Private
  <1>5. Covered'
    BY <1>0 DEF Covered
  <1> QED
    BY <1>1, <1>2, <1>4, <1>5 DEF TokenInv

LEMMA RefreshFailedStep ==
  ASSUME TokenInv, NEW s \in Servers, RefreshFailed(s)
  PROVE  TokenInv'
  <1>0. /\ TokenTypes /\ Issued /\ Private /\ Covered
        /\ flight \in [Servers -> FlightRecord] /\ conn \in ConnRecord
        /\ issued \in Nat /\ valid \subseteq 1..issued
    BY DEF TokenInv, TokenTypes
  <1>1. /\ UNCHANGED <<cb, revoking, valid, issued, crashes>> /\ flight[s].pc = "failing"
        /\ flight' = [flight EXCEPT ![s] = NoFlight]
    BY DEF RefreshFailed, oauthVars
  <1>2. NoFlight \in FlightRecord /\ NoFlight.pc = "idle" /\ NoFlight.old = 0 /\ NoFlight.new = 0
    BY DEF NoFlight, FlightRecord
  <1>3. CASE ~ Unchanged(s)
    <2>1. conn' = conn
      BY <1>3 DEF RefreshFailed
    <2>2. flight[s].old = conn.token => conn.status # "active"
      BY <1>3 DEF Unchanged
    <2>3. 0 <= issued
      BY <1>0
    <2> QED
      BY <1>1, <1>2, <2>1, <2>2, <2>3, FlightMoves
  <1>4. CASE Unchanged(s)
    <2>1. conn' = [conn EXCEPT !.status = "refresh_required"]
      BY <1>4 DEF RefreshFailed
    <2>2. conn' \in ConnRecord /\ conn'.token = conn.token /\ conn'.status = "refresh_required"
      BY <1>0, <2>1 DEF ConnRecord
    <2>3. conn.token # 0
      BY <1>0, <1>1, <1>4 DEF Unchanged, Covered
    <2>4. /\ flight' \in [Servers -> FlightRecord] /\ flight'[s] = NoFlight
          /\ \A t \in Servers : t # s => flight'[t] = flight[t]
      BY <1>0, <1>1, <1>2
    <2>5. TokenTypes'
      BY <1>0, <1>1, <2>2, <2>3, <2>4 DEF TokenTypes
    <2>6. Issued'
      <3>1. \A t \in Servers : flight'[t].old <= issued /\ flight'[t].new <= issued
        BY <1>0, <1>2, <2>4 DEF Issued
      <3> QED
        BY <1>0, <1>1, <2>2, <3>1 DEF Issued
    <2>7. Private'
      <3>1. \A t \in Servers : flight'[t].pc = "storing" => flight'[t] = flight[t]
        BY <1>2, <2>4
      <3>2. \A t \in Servers : flight'[t].old \in {0, flight[t].old}
        BY <1>2, <2>4
      <3>3. \A t \in valid : t # 0
        BY <1>0
      <3> QED
        BY <1>0, <1>1, <2>2, <3>1, <3>2, <3>3 DEF Private
    <2>8. Covered'
      BY <1>0, <1>2, <2>2, <2>4 DEF Covered
    <2> QED
      BY <2>5, <2>6, <2>7, <2>8 DEF TokenInv
  <1> QED
    BY <1>3, <1>4

(* The refresh ends and the connection keeps a token that may be replaced:  *)
(* from here on the premise of StoredIsValid is false.                     *)
LEMMA RefreshUnrecordedStep ==
  ASSUME TokenInv, NEW s \in Servers, RefreshUnrecorded(s)
  PROVE  TokenInv'
  <1>0. /\ TokenTypes /\ Issued /\ Private /\ Covered
        /\ flight \in [Servers -> FlightRecord] /\ crashes \in Nat
        /\ issued \in Nat /\ valid \subseteq 1..issued
    BY DEF TokenInv, TokenTypes
  <1>1. /\ UNCHANGED <<cb, conn, revoking, valid, issued>> /\ crashes' = crashes + 1
        /\ flight' = [flight EXCEPT ![s] = NoFlight]
    BY DEF RefreshUnrecorded, oauthVars
  <1>2. NoFlight \in FlightRecord /\ NoFlight.pc = "idle" /\ NoFlight.old = 0 /\ NoFlight.new = 0
    BY DEF NoFlight, FlightRecord
  <1>3. /\ flight' \in [Servers -> FlightRecord] /\ flight'[s] = NoFlight
        /\ \A t \in Servers : t # s => flight'[t] = flight[t]
    BY <1>0, <1>1, <1>2
  <1>4. crashes' \in Nat /\ crashes' # 0
    BY <1>0, <1>1
  <1>5. TokenTypes'
    BY <1>0, <1>1, <1>3, <1>4 DEF TokenTypes
  <1>6. Issued'
    <2>1. \A t \in Servers : flight'[t].old <= issued /\ flight'[t].new <= issued
      BY <1>0, <1>2, <1>3 DEF Issued
    <2> QED
      BY <1>0, <1>1, <2>1 DEF Issued
  <1>7. Private'
    <2>1. \A t \in Servers : flight'[t].pc = "storing" => flight'[t] = flight[t]
      BY <1>2, <1>3
    <2>2. \A t \in Servers : flight'[t].old \in {0, flight[t].old}
      BY <1>2, <1>3
    <2>3. \A t \in valid : t # 0
      BY <1>0
    <2> QED
      BY <1>0, <1>1, <2>1, <2>2, <2>3 DEF Private
  <1>8. Covered'
    BY <1>0, <1>2, <1>3, <1>4 DEF Covered
  <1> QED
    BY <1>5, <1>6, <1>7, <1>8 DEF TokenInv

LEMMA RevokeSteps ==
  ASSUME TokenInv, StartRevoke \/ FinishRevoke
  PROVE  TokenInv'
  <1>0. TokenTypes /\ Issued /\ Private /\ Covered
    BY DEF TokenInv
  <1>1. CASE StartRevoke
    <2>1. /\ revoking' = TRUE /\ valid' = valid \ {conn.token}
          /\ UNCHANGED <<cb, conn, flight, issued, crashes>>
      BY <1>1 DEF StartRevoke, oauthVars
    <2>2. TokenTypes' /\ Issued'
      BY <1>0, <2>1 DEF TokenTypes, Issued
    <2>3. Private'
      BY <1>0, <2>1 DEF Private
    <2>4. Covered'
      BY <1>0, <2>1 DEF Covered
    <2> QED
      BY <2>2, <2>3, <2>4 DEF TokenInv
  <1>2. CASE FinishRevoke
    <2>1. conn' = [status |-> "revoked", token |-> 0] /\ UNCHANGED <<cb, flight, valid, issued, crashes>>
      BY <1>2 DEF FinishRevoke, oauthVars
    <2>2. conn' \in ConnRecord /\ conn'.status = "revoked" /\ conn'.token = 0
      BY <2>1, AccountAssumption DEF ConnRecord
    <2> QED
      BY <2>1, <2>2, ConnectionMoves
  <1> QED
    BY <1>1, <1>2

LEMMA CrashTokens ==
  ASSUME TokenInv, Crash
  PROVE  TokenInv'
  <1>0. TokenTypes /\ Issued /\ Private /\ Covered /\ issued \in Nat /\ crashes \in Nat
    BY DEF TokenInv, TokenTypes
  <1>1. /\ UNCHANGED <<conn, valid, issued>> /\ crashes' = crashes + 1
        /\ cb' = [a \in Attempts |-> NoCallback] /\ flight' = [s \in Servers |-> NoFlight]
    BY DEF Crash
  <1>2. NoCallback \in CallbackRecord /\ NoCallback.pc = "idle" /\ NoCallback.token = 0
    BY DEF NoCallback, CallbackRecord
  <1>3. NoFlight \in FlightRecord /\ NoFlight.pc = "idle" /\ NoFlight.old = 0 /\ NoFlight.new = 0
    BY DEF NoFlight, FlightRecord
  <1>4. crashes' \in Nat /\ crashes' # 0 /\ 0 <= issued
    BY <1>0, <1>1
  <1>5. TokenTypes'
    <2>1. cb' \in [Attempts -> CallbackRecord] /\ flight' \in [Servers -> FlightRecord]
      BY <1>1, <1>2, <1>3
    <2> QED
      BY <1>0, <1>1, <1>4, <2>1 DEF TokenTypes
  <1>6. Issued'
    BY <1>0, <1>1, <1>2, <1>3, <1>4 DEF Issued
  <1>7. Private'
    BY <1>1, <1>2, <1>3 DEF Private, Holding
  <1>8. Covered'
    BY <1>1, <1>3, <1>4 DEF Covered
  <1> QED
    BY <1>5, <1>6, <1>7, <1>8 DEF TokenInv

LEMMA TokensKept == TokenInv /\ [Next]_vars => TokenInv'
  <1> SUFFICES ASSUME TokenInv, [Next]_vars PROVE TokenInv'
    OBVIOUS
  <1>1. CASE UNCHANGED vars
    BY <1>1, TokensStay DEF vars
  <1>2. ASSUME NEW p \in Previews,
               \/ StartProvision(p) \/ CallProvision(p) \/ StoreProvision(p) \/ FailProvision(p)
               \/ Discard(p) \/ Timer(p) \/ ReleaseUnassigned(p) \/ SelectReads(p) \/ OpenClaim(p)
        PROVE  TokenInv'
    <2>1. UNCHANGED <<cb, conn, flight, revoking, valid, issued, crashes>>
      BY <1>2 DEF StartProvision, CallProvision, StoreProvision, FailProvision, Discard, Timer,
                  Abandon, TimeIsUp, Expire, ReleaseUnassigned, SelectReads, OpenClaim, oauthVars, connVars
    <2> QED
      BY <2>1, TokensStay
  <1>3. CASE SelectWrites \/ SelectConnection \/ RunDeployment \/ MoveOn
    <2>1. UNCHANGED <<cb, conn, flight, revoking, valid, issued, crashes>>
      BY <1>3 DEF SelectWrites, SelectConnection, RunDeployment, MoveOn, oauthVars, connVars
    <2> QED
      BY <2>1, TokensStay
  <1>4. ASSUME NEW a \in Attempts, StartOAuth(a) \/ CancelOAuth(a)
        PROVE  TokenInv'
    <2>1. UNCHANGED <<cb, conn, flight, revoking, valid, issued, crashes>>
      BY <1>4 DEF StartOAuth, CancelOAuth, connVars
    <2> QED
      BY <2>1, TokensStay
  <1>5. ASSUME NEW a \in Attempts,
               \/ Consume(a) \/ Exchange(a) \/ Finalize(a) \/ Mismatch(a)
               \/ FinalizeThrows(a) \/ RevokeMismatched(a) \/ Undo(a)
        PROVE  TokenInv'
    BY <1>5, CallbackSteps, ExchangeStep, FinalizeTokens
  <1>6. ASSUME NEW s \in Servers,
               \/ StartRefresh(s) \/ CallRefresh(s) \/ StoreRefresh(s) \/ RefreshFailed(s)
               \/ RefreshUnrecorded(s)
        PROVE  TokenInv'
    BY <1>6, StartRefreshStep, CallRefreshStep, StoreRefreshStep, RefreshFailedStep,
       RefreshUnrecordedStep
  <1>7. CASE StartRevoke \/ FinishRevoke \/ Crash
    BY <1>7, RevokeSteps, CrashTokens
  <1> QED
    BY <1>1, <1>2, <1>3, <1>4, <1>5, <1>6, <1>7 DEF Next

-----------------------------------------------------------------------------
(* The theorems *)

(* The rows and the tokens, in every reachable state: what the theorems    *)
(* below follow from.                                                      *)
THEOREM AccountsInvariant == Spec => []IInv
  <1>1. Init => IInv
    BY RowsInitially, TokensInitially DEF IInv
  <1>2. IInv /\ [Next]_vars => IInv'
    BY RowsKept, TokensKept DEF IInv
  <1> QED
    BY <1>1, <1>2, PTL DEF Spec

(* The row of a preview, the account at Cloudflare and the claimed         *)
(* deployment agree, in whatever order provisioning, claim, release and    *)
(* expiry finish, however many of them there are.                          *)
THEOREM PreviewsAlwaysAgree == Spec => []PreviewsAgree
  <1>1. IInv => PreviewsAgree
    BY TypeParts, FineParts DEF IInv, RowInv, TokenInv, PreviewsAgree
  <1> QED
    BY <1>1, AccountsInvariant, PTL

(* However many servers refresh the connection's token, and whenever it is *)
(* revoked or replaced: when nothing is under way and no server died, a    *)
(* connection shown as active holds a token Cloudflare accepts.            *)
THEOREM ActiveTokensWork == Spec => []StoredIsValid
  <1>1. IInv => StoredIsValid
    BY DEF IInv, TokenInv, Covered, StoredIsValid
  <1> QED
    BY <1>1, AccountsInvariant, PTL

(* refreshConnection never brings a revoked connection back: its status    *)
(* changes only when finishOAuth completes an attempt.                     *)
THEOREM RevokedStaysRevoked == Spec => RevokedStays
  <1> DEFINE A == conn.status = "revoked" /\ conn'.status # "revoked" =>
                    \E a \in Attempts : att[a].status = "exchanging" /\ att'[a].status = "completed"
  <1>1. ASSUME IInv, Next PROVE A
    <2> SUFFICES ASSUME conn.status = "revoked", conn'.status # "revoked"
                 PROVE  \E a \in Attempts :
                          att[a].status = "exchanging" /\ att'[a].status = "completed"
      OBVIOUS
    <2>0. att \in [Attempts -> AttemptRecord]
      BY <1>1 DEF IInv, RowInv, RowTypes
    <2>1. \E a \in Attempts : Finalize(a)
      <3>1. conn' # conn
        OBVIOUS
      <3>2. ASSUME NEW p \in Previews
            PROVE ~ (\/ StartProvision(p) \/ CallProvision(p) \/ StoreProvision(p) \/ FailProvision(p)
                     \/ Discard(p) \/ Timer(p) \/ ReleaseUnassigned(p) \/ SelectReads(p)
                     \/ OpenClaim(p))
        BY <3>1 DEF StartProvision, CallProvision, StoreProvision, FailProvision, Discard, Timer,
                    Abandon, TimeIsUp, Expire, ReleaseUnassigned, SelectReads, OpenClaim, connVars
      <3>3. ~ (SelectWrites \/ SelectConnection \/ RunDeployment \/ MoveOn)
        BY <3>1 DEF SelectWrites, SelectConnection, RunDeployment, MoveOn, connVars
      <3>4. ASSUME NEW a \in Attempts
            PROVE ~ (\/ StartOAuth(a) \/ Consume(a) \/ CancelOAuth(a) \/ Exchange(a) \/ Mismatch(a)
                     \/ FinalizeThrows(a) \/ RevokeMismatched(a) \/ Undo(a))
        BY <3>1 DEF StartOAuth, Consume, CancelOAuth, Exchange, Mismatch, FinalizeThrows,
                    RevokeMismatched, Undo, connVars
      <3>5. ASSUME NEW s \in Servers
            PROVE ~ (\/ StartRefresh(s) \/ CallRefresh(s) \/ StoreRefresh(s) \/ RefreshFailed(s)
                     \/ RefreshUnrecorded(s))
        BY <3>1 DEF StartRefresh, CallRefresh, StoreRefresh, RefreshFailed, RefreshUnrecorded,
                    Unchanged
      <3>6. ~ (StartRevoke \/ FinishRevoke \/ Crash)
        BY <3>1 DEF StartRevoke, FinishRevoke, Crash
      <3> QED
        BY <1>1, <3>2, <3>3, <3>4, <3>5, <3>6 DEF Next
    <2>2. PICK a \in Attempts : Finalize(a)
      BY <2>1
    <2>3. att[a].status = "exchanging" /\ att' = Close(a, "completed")
      BY <2>2 DEF Finalize
    <2>4. att'[a].status = "completed"
      BY <2>0, <2>3 DEF Close, AttemptRecord
    <2> QED
      BY <2>3, <2>4
  <1>2. IInv /\ [Next]_vars => [A]_vars
    <2> SUFFICES ASSUME IInv, [Next]_vars PROVE [A]_vars
      OBVIOUS
    <2>1. CASE Next
      BY <1>1, <2>1
    <2>2. CASE UNCHANGED vars
      BY <2>2
    <2> QED
      BY <2>1, <2>2
  <1> QED
    BY <1>2, AccountsInvariant, PTL DEF Spec, RevokedStays
=============================================================================
