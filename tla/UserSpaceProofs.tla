---------------------------- MODULE UserSpaceProofs ----------------------------
(***************************************************************************)
(* Proofs about UserSpace, for any number of pages, operations, runtime    *)
(* generations, sockets and faults.                                        *)
(*                                                                         *)
(* The argument about writes: sockets are never shared and never come      *)
(* back (SocketFacts); the authorization of a write is given once, to one  *)
(* socket, so the page that may perform it is the one that holds that      *)
(* socket, and once it has performed it neither it nor a page reloaded     *)
(* since can ask on that socket again (WriteFacts).  From the grant until  *)
(* the answer of that page the server spares the operation, so a           *)
(* revocation that waits for the authorized operations waits for it.       *)
(* A check-in has no such socket; CheckinFacts are what the commit lease   *)
(* gives while one page alone holds the folder and is not reloaded.        *)
(***************************************************************************)
EXTENDS UserSpace, FiniteSetTheorems, FunctionTheorems, TLAPS

OpRecord == [kind : Kinds \union {"none"}, epoch : 0..MaxEpochs, out : Outcomes,
             owner : 0..MaxSocks, lease : BOOLEAN,
             staged : {"no", "file", "removing"}, got : BOOLEAN, ups : SUBSET Tabs]
Cell == [st : Steps, sock : 0..MaxSocks]

(* A page knows a socket it has open or asked on.  No two pages know the   *)
(* same one, and sockets still to be opened are known to none.             *)
Knows(t, s) == s # 0 /\ (sockOf[t] = s \/ \E o \in Ops : tab[t][o].sock = s)
SocketFacts ==
  /\ \A t \in Tabs, s \in 0..MaxSocks : Knows(t, s) => s <= nextSock
  /\ \A t, u \in Tabs, s \in 0..MaxSocks : Knows(t, s) /\ Knows(u, s) => t = u

(* An operation not created yet has left no trace.                         *)
Untouched(o) ==
  /\ ops[o] = Unused /\ wrote[o] = 0
  /\ \A t \in Tabs : tab[t][o] = Idle

(* What a kind of operation never uses.                                    *)
KindFacts(o) ==
  /\ ops[o].kind = "none" => Untouched(o)
  /\ ops[o].kind # "checkout" => ops[o].ups = {}
  /\ ops[o].kind # "write" => ops[o].owner = 0
  /\ ops[o].kind # "checkin" => ~ops[o].lease

(* A write and its generations: only the server that is current grants,    *)
(* so what an ended drain found unauthorized stays so.                     *)
DrainFacts(o) ==
  ops[o].kind = "write" /\ Authorised(ops[o]) =>
    /\ drained <= ops[o].epoch
    /\ drain # NoDrain /\ ops[o].epoch < drain.epoch => o \in drain.ids

(* A write and its pages.                                                  *)
WriteFacts(o) == ops[o].kind = "write" =>
  /\ ops[o].out \in {"pending", "ok", "failed", "rejected", "removed"}
  /\ ops[o].owner <= nextSock
  /\ ops[o].out \in {"rejected", "removed"} => ops[o].owner = 0
  /\ ops[o].owner = 0 => wrote[o] = 0
  /\ wrote[o] <= 1
  /\ ops[o].out = "ok" => wrote[o] = 1
  /\ \A t \in Tabs :
       /\ tab[t][o].st \in {"none", "asked", "executing", "done", "failed", "gone"}
       /\ tab[t][o].st = "asked" => tab[t][o].sock = sockOf[t] /\ sockOf[t] # 0
       /\ tab[t][o].st \in {"executing", "done", "failed"} =>
            tab[t][o].sock = ops[o].owner /\ ops[o].owner # 0
       /\ tab[t][o].st \in {"asked", "executing"} /\ tab[t][o].sock = ops[o].owner =>
            ops[o].out = "pending"
       /\ tab[t][o].st = "done" => wrote[o] = 1
       /\ ops[o].owner # 0 /\ sockOf[t] = ops[o].owner => tab[t][o].st # "none"
       /\ wrote[o] = 1 /\ tab[t][o].sock = ops[o].owner =>
            tab[t][o].st \notin {"asked", "executing"}

(* One page alone holds the folder and was not reloaded.                   *)
Alone == Cardinality(holders) = 1 /\ reloads = 0

CheckinFacts(o) == ops[o].kind = "checkin" /\ Alone =>
  /\ ops[o].out \in {"staging", "validated"} =>
       ~ops[o].lease /\ wrote[o] = 0 /\ \A t \in Tabs : tab[t][o].st = "none"
  /\ wrote[o] > 0 => ops[o].lease /\ ops[o].out \in {"pending", "ok", "removed"}
  /\ \A t \in Tabs :
       /\ tab[t][o].st \in {"none", "downloaded", "leased", "writing", "written", "refused",
                            "failed", "gone"}
       /\ tab[t][o].st \in {"downloaded", "leased", "writing", "written", "refused"} => t \in holders
       /\ tab[t][o].st \in {"leased", "writing", "written", "refused"} =>
            ops[o].lease /\ ops[o].out \in {"pending", "removed"}
       /\ t \in holders /\ tab[t][o].st \notin {"written", "gone"} => wrote[o] = 0

OpFacts(o) == KindFacts(o) /\ DrainFacts(o) /\ WriteFacts(o) /\ CheckinFacts(o)

IInv ==
  /\ TypeOK /\ SocketFacts /\ drain.epoch <= epoch
  /\ \A o \in Ops : (o > count) = (ops[o].kind = "none")
  /\ \A o \in Ops : OpFacts(o)

------------------------------------------------------------------------------
(* The outcome of an operation: the first one counts, nothing else of it   *)
(* changes that the facts speak of.                                        *)
LEMMA EndedOutcome ==
  ASSUME NEW r \in OpRecord, NEW out \in Outcomes
  PROVE  /\ Ended(r, out) \in OpRecord
         /\ Ended(r, out).out = IF r.out = "pending" THEN out ELSE r.out
         /\ Ended(r, out).kind = r.kind /\ Ended(r, out).epoch = r.epoch
         /\ Ended(r, out).owner = r.owner /\ Ended(r, out).lease = r.lease
         /\ Ended(r, out).ups = r.ups /\ Ended(r, out).got = r.got
<1>1. CASE r.out # "pending"
  BY <1>1 DEF Ended
<1>2. CASE r.out = "pending"
  <2> DEFINE g == IF ~IsTransfer(r) \/ (r.kind = "checkout" /\ out = "ok")
                  THEN r.staged ELSE "removing"
             q == [r EXCEPT !.out = out, !.staged = g]
  <2>1. Ended(r, out) = q
    BY <1>2 DEF Ended
  <2>2. g \in {"no", "file", "removing"}
    BY DEF OpRecord
  <2> HIDE DEF g
  <2>3. /\ q \in OpRecord /\ q.out = out /\ q.kind = r.kind /\ q.epoch = r.epoch
        /\ q.owner = r.owner /\ q.lease = r.lease /\ q.ups = r.ups /\ q.got = r.got
    BY <2>2 DEF OpRecord
  <2> QED BY <1>2, <2>1, <2>3
<1> QED BY <1>1, <1>2

(* A page that goes on with an operation keeps the socket it asked on.     *)
LEMMA BecomesCell ==
  ASSUME IInv, NEW t \in Tabs, NEW o \in Ops, NEW st \in Steps, Becomes(t, o, st)
  PROVE  \E c \in Cell : /\ c.st = st /\ c.sock = tab[t][o].sock
                          /\ tab' = [tab EXCEPT ![t][o] = c]
<1> DEFINE c == [tab[t][o] EXCEPT !.st = st]
<1>1. tab \in [Tabs -> [Ops -> Cell]]
  BY DEF IInv, TypeOK, Cell
<1>2. c \in Cell /\ c.st = st /\ c.sock = tab[t][o].sock
  BY <1>1 DEF Cell
<1>3. tab' = [tab EXCEPT ![t][o] = c]
  BY <1>1 DEF Becomes
<1> QED BY <1>2, <1>3

(* What is said of an operation depends on it, on the pages' part in it    *)
(* and on the sockets and generations only.                                *)
LEMMA Frame ==
  ASSUME NEW p \in Ops, OpFacts(p),
         ops'[p] = ops[p], wrote'[p] = wrote[p], \A u \in Tabs : tab'[u][p] = tab[u][p],
         UNCHANGED <<sockOf, nextSock, holders, reloads, drain, drained>>
  PROVE  OpFacts(p)'
<1>1. KindFacts(p)'
  BY DEF OpFacts, KindFacts, Untouched
<1>2. DrainFacts(p)'
  BY DEF OpFacts, DrainFacts
<1>3. WriteFacts(p)'
  BY DEF OpFacts, WriteFacts
<1>4. CheckinFacts(p)'
  BY DEF OpFacts, CheckinFacts, Alone
<1> QED BY <1>1, <1>2, <1>3, <1>4 DEF OpFacts

(* A step of one page and one operation keeps what is said of the others.  *)
LEMMA OnePage ==
  ASSUME IInv, NEW o \in Ops, NEW t \in Tabs, NEW r \in OpRecord, NEW c \in Cell, NEW w \in Nat,
         ops' = [ops EXCEPT ![o] = r], r.kind = ops[o].kind,
         tab' = [tab EXCEPT ![t][o] = c], c.sock = tab[t][o].sock \/ c.sock = sockOf[t],
         wrote' = [wrote EXCEPT ![o] = w],
         UNCHANGED <<count, mount, life, link>>, faults' \in 0..MaxFaults,
         OpFacts(o)'
  PROVE  IInv'
<1>1. /\ ops \in [Ops -> OpRecord] /\ tab \in [Tabs -> [Ops -> Cell]] /\ wrote \in [Ops -> Nat]
      /\ sockOf \in [Tabs -> 0..MaxSocks] /\ nextSock \in 0..MaxSocks
  BY DEF IInv, TypeOK, OpRecord, Cell
<1>2. /\ ops' \in [Ops -> OpRecord] /\ tab' \in [Tabs -> [Ops -> Cell]] /\ wrote' \in [Ops -> Nat]
  BY <1>1
<1>3. UNCHANGED <<sockOf, nextSock, srv, holders, reloads, mount, epoch, running, drain,
                  drained, deleted, count>>
  BY DEF link, life
<1>4. TypeOK'
  BY <1>2, <1>3 DEF IInv, TypeOK, OpRecord, Cell
<1>5. \A u \in Tabs, s \in 0..MaxSocks : Knows(u, s)' => Knows(u, s)
  BY <1>1, <1>3 DEF Knows
<1>6. SocketFacts'
  BY <1>3, <1>5 DEF IInv, SocketFacts
<1>7. \A p \in Ops : (p > count)' = (ops'[p].kind = "none")
  BY <1>1, <1>3 DEF IInv
<1>8. ASSUME NEW p \in Ops, p # o PROVE OpFacts(p)'
  BY <1>1, <1>3, <1>8, Frame DEF IInv
<1> QED BY <1>3, <1>4, <1>6, <1>7, <1>8 DEF IInv

(* The same without a page.                                                *)
LEMMA OneOp ==
  ASSUME IInv, NEW o \in Ops, NEW r \in OpRecord,
         ops' = [ops EXCEPT ![o] = r], r.kind = ops[o].kind,
         UNCHANGED <<count, wrote, page, srv, mount, holders, life, reloads, faults>>,
         OpFacts(o)'
  PROVE  IInv'
<1>1. PICK t \in Tabs : TRUE
  BY UserSpaceAssumption
<1>2. tab \in [Tabs -> [Ops -> Cell]] /\ wrote \in [Ops -> Nat] /\ faults \in 0..MaxFaults
  BY DEF IInv, TypeOK, Cell
<1>3. /\ tab' = [tab EXCEPT ![t][o] = tab[t][o]] /\ wrote' = [wrote EXCEPT ![o] = wrote[o]]
      /\ tab[t][o] \in Cell /\ wrote[o] \in Nat
  BY <1>2 DEF page
<1> QED BY <1>2, <1>3, OnePage DEF page, link

------------------------------------------------------------------------------
(* The child's requests.                                                   *)
LEMMA NewKeeps ==
  ASSUME IInv, NEW kind \in Kinds, NEW out \in {"pending", "staging"}, NEW staged \in {"no", "file"},
         kind # "checkin" => out = "pending", New(kind, out, staged)
  PROVE  IInv'
<1>n. PICK n : n = count + 1
  OBVIOUS
<1> DEFINE r == [Unused EXCEPT !.kind = kind, !.epoch = epoch, !.out = out, !.staged = staged]
<1>1. /\ ops \in [Ops -> OpRecord] /\ count \in 0..MaxOps /\ MaxOps \in Nat
      /\ sockOf \in [Tabs -> 0..MaxSocks] /\ nextSock \in 0..MaxSocks /\ MaxSocks \in Nat
      /\ epoch \in 0..MaxEpochs /\ MaxEpochs \in Nat
  BY UserSpaceAssumption DEF IInv, TypeOK, OpRecord
<1>2. /\ count < MaxOps /\ count' = n /\ ops' = [ops EXCEPT ![n] = r]
      /\ UNCHANGED <<wrote, tab, sockOf, nextSock, srv, mount, holders, epoch, running, drain,
                     drained, deleted, reloads, faults>>
  BY <1>n DEF New, page, life
<1>3. n \in Ops /\ Untouched(n)
  <2>1. n \in Ops /\ n > count
    BY <1>1, <1>2, <1>n DEF Ops
  <2> QED BY <2>1 DEF IInv, OpFacts, KindFacts
<1>4. /\ r \in OpRecord /\ r.kind = kind /\ r.out = out /\ r.owner = 0 /\ r.lease = FALSE
      /\ r.ups = {}
  <2>1. Unused \in OpRecord
    BY <1>1 DEF Unused, OpRecord, Outcomes
  <2>2. out \in Outcomes /\ staged \in {"no", "file", "removing"} /\ kind \in Kinds \union {"none"}
    BY <1>1 DEF Outcomes
  <2>3. Unused.owner = 0 /\ Unused.lease = FALSE /\ Unused.ups = {}
    BY DEF Unused
  <2> QED BY <1>1, <2>1, <2>2, <2>3 DEF OpRecord
<1> HIDE DEF r
<1>5. ops'[n] = r /\ \A p \in Ops \ {n} : ops'[p] = ops[p]
  BY <1>1, <1>2, <1>3
<1>6. TypeOK'
  <2>1. ops' \in [Ops -> OpRecord] /\ count' \in 0..MaxOps
    BY <1>1, <1>2, <1>3, <1>4, <1>n
  <2> QED BY <1>2, <2>1 DEF IInv, TypeOK, OpRecord
<1>7. SocketFacts'
  BY <1>2 DEF IInv, SocketFacts, Knows
<1>8. \A p \in Ops : (p > count)' = (ops'[p].kind = "none")
  <2> SUFFICES ASSUME NEW p \in Ops PROVE (p > count') = (ops'[p].kind = "none")
    OBVIOUS
  <2>1. CASE p = n
    BY <1>1, <1>2, <1>4, <1>5, <1>n, <2>1 DEF Kinds
  <2>2. CASE p # n
    BY <1>1, <1>2, <1>5, <1>n, <2>2 DEF IInv, Ops
  <2> QED BY <2>1, <2>2
<1>9. OpFacts(n)'
  <2>1. wrote'[n] = 0 /\ \A t \in Tabs : tab'[t][n] = Idle
    BY <1>2, <1>3 DEF Untouched
  <2>2. KindFacts(n)' /\ DrainFacts(n)'
    BY <1>4, <1>5 DEF KindFacts, DrainFacts, Authorised, Kinds
  <2>3. WriteFacts(n)'
    BY <1>1, <1>2, <1>4, <1>5, <2>1 DEF WriteFacts, Idle
  <2>4. CheckinFacts(n)'
    BY <1>4, <1>5, <2>1 DEF CheckinFacts, Idle
  <2> QED BY <2>2, <2>3, <2>4 DEF OpFacts
<1>10. \A p \in Ops \ {n} : OpFacts(p)'
  BY <1>2, <1>5, Frame DEF IInv
<1> QED BY <1>2, <1>6, <1>7, <1>8, <1>9, <1>10 DEF IInv

(* The server's own steps on one operation.                                *)
LEMMA ServerStepKeeps ==
  ASSUME IInv, NEW o \in Ops, ServerStep(o)
  PROVE  IInv'
<1> DEFINE r == ops[o]
<1>1. /\ ops \in [Ops -> OpRecord] /\ r \in OpRecord /\ OpFacts(o)
  BY DEF IInv, TypeOK, OpRecord
<1>2. UNCHANGED <<count, wrote, page, srv, mount, holders, life, reloads, faults>>
  BY DEF ServerStep, FinishStaging, CreateTransfer, Expire, RemoveStaged, Consume
(* The changes these steps make to an operation.                           *)
<1>3. ASSUME NEW q \in OpRecord, ops' = [ops EXCEPT ![o] = q],
             q.kind = r.kind, q.owner = r.owner, q.lease = r.lease, q.ups = r.ups,
             q.epoch = r.epoch, r.kind # "none",
             \/ q.out = r.out
             \/ r.kind # "write" /\ r.out = "staging" /\ q.out \in {"validated", "rejected"}
             \/ r.kind # "write" /\ r.out = "validated" /\ q.out = "pending"
             \/ r.out = "pending" /\ ~Authorised(r) /\ q.out = "rejected"
             \/ r.kind = "checkout"
      PROVE  IInv'
  <2>1. ops'[o] = q
    BY <1>1, <1>3
  <2>2. UNCHANGED <<tab, sockOf, nextSock, holders, drain, drained, wrote, reloads>>
    BY <1>2 DEF page, life
  <2>3. KindFacts(o)'
    BY <1>1, <1>3, <2>1 DEF OpFacts, KindFacts
  <2>4. DrainFacts(o)'
    BY <1>1, <1>3, <2>1, <2>2 DEF OpFacts, DrainFacts, Authorised
  <2>5. WriteFacts(o)'
    <3>1. CASE q.out = r.out
      BY <1>1, <1>3, <2>1, <2>2, <3>1 DEF OpFacts, WriteFacts
    <3>2. CASE r.kind = "write" /\ q.out # r.out
      <4>1. r.out = "pending" /\ r.owner = 0 /\ q.out = "rejected"
        BY <1>1, <1>3, <3>2 DEF Authorised, OpRecord, OpFacts, WriteFacts
      <4> QED BY <1>1, <1>3, <2>1, <2>2, <4>1 DEF OpFacts, WriteFacts
    <3>3. CASE r.kind # "write"
      BY <1>3, <2>1, <3>3 DEF WriteFacts
    <3> QED BY <3>1, <3>2, <3>3
  <2>6. CheckinFacts(o)'
    <3>1. CASE q.out = r.out
      BY <1>1, <1>3, <2>1, <2>2, <3>1 DEF OpFacts, CheckinFacts, Alone
    <3>2. CASE r.kind = "checkin" /\ q.out # r.out /\ Alone
      <4>1. CheckinFacts(o) /\ ~r.lease
        BY <1>1, <1>3, <3>2 DEF OpFacts, CheckinFacts, Authorised
      <4> QED BY <1>3, <2>1, <2>2, <3>2, <4>1 DEF CheckinFacts
    <3>3. CASE r.kind # "checkin" \/ ~Alone
      BY <1>3, <2>1, <2>2, <3>3 DEF CheckinFacts, Alone
    <3> QED BY <3>1, <3>2, <3>3
  <2>7. OpFacts(o)'
    BY <2>3, <2>4, <2>5, <2>6 DEF OpFacts
  <2> QED BY <1>2, <1>3, <2>7, OneOp
<1>4. ASSUME r.kind = "none" PROVE r = Unused
  BY <1>1, <1>4 DEF OpFacts, KindFacts, Untouched
<1> HIDE DEF r
<1>5. CASE FinishStaging(o)
  <2> DEFINE q == IF r.epoch = epoch /\ ~deleted THEN [r EXCEPT !.out = "validated"]
                  ELSE [r EXCEPT !.out = "rejected", !.staged = "no"]
  <2>1. r.out = "staging" /\ ops' = [ops EXCEPT ![o] = q]
    BY <1>1, <1>5 DEF FinishStaging, r
  <2>2. /\ q \in OpRecord /\ q.kind = r.kind /\ q.owner = r.owner /\ q.lease = r.lease
        /\ q.ups = r.ups /\ q.epoch = r.epoch /\ q.out \in {"validated", "rejected"}
    BY <1>1 DEF OpRecord, Outcomes
  <2>3. r.kind # "none" /\ r.kind # "write"
    BY <1>1, <1>4, <2>1 DEF Unused, OpFacts, WriteFacts, r
  <2> HIDE DEF q
  <2> QED BY <1>3, <2>1, <2>2, <2>3
<1>6. CASE CreateTransfer(o)
  <2> DEFINE q == [r EXCEPT !.out = "pending"]
  <2>1. r.out = "validated" /\ ops' = [ops EXCEPT ![o] = q]
    BY <1>1, <1>6 DEF CreateTransfer, r
  <2>2. /\ q \in OpRecord /\ q.kind = r.kind /\ q.owner = r.owner /\ q.lease = r.lease
        /\ q.ups = r.ups /\ q.epoch = r.epoch /\ q.out = "pending"
    BY <1>1 DEF OpRecord, Outcomes
  <2>3. r.kind # "none" /\ r.kind # "write"
    BY <1>1, <1>4, <2>1 DEF Unused, OpFacts, WriteFacts, r
  <2> HIDE DEF q
  <2> QED BY <1>3, <2>1, <2>2, <2>3
<1>7. CASE Expire(o)
  <2>1. r.out = "pending" /\ ~Authorised(r) /\ ops' = [ops EXCEPT ![o] = Ended(r, "rejected")]
    BY <1>1, <1>7 DEF Expire, r
  <2>2. r.kind # "none"
    BY <1>4, <2>1 DEF Unused
  <2> QED BY <1>1, <1>3, <2>1, <2>2, EndedOutcome DEF Outcomes
<1>8. CASE RemoveStaged(o)
  <2> DEFINE q == [r EXCEPT !.staged = "no"]
  <2>1. r.staged = "removing" /\ ops' = [ops EXCEPT ![o] = q]
    BY <1>1, <1>8 DEF RemoveStaged, r
  <2>2. /\ q \in OpRecord /\ q.kind = r.kind /\ q.owner = r.owner /\ q.lease = r.lease
        /\ q.ups = r.ups /\ q.epoch = r.epoch /\ q.out = r.out
    BY <1>1 DEF OpRecord
  <2>3. r.kind # "none"
    BY <1>4, <2>1 DEF Unused
  <2> HIDE DEF q
  <2> QED BY <1>3, <2>1, <2>2, <2>3
<1>9. CASE Consume(o)
  <2> DEFINE q == [r EXCEPT !.out = "consumed", !.staged = "no"]
  <2>1. r.kind = "checkout" /\ ops' = [ops EXCEPT ![o] = q]
    BY <1>1, <1>9 DEF Consume, r
  <2>2. /\ q \in OpRecord /\ q.kind = r.kind /\ q.owner = r.owner /\ q.lease = r.lease
        /\ q.ups = r.ups /\ q.epoch = r.epoch
    BY <1>1 DEF OpRecord, Outcomes
  <2> HIDE DEF q
  <2> QED BY <1>3, <2>1, <2>2
<1> QED BY <1>5, <1>6, <1>7, <1>8, <1>9 DEF ServerStep

------------------------------------------------------------------------------
(* The pages.  Of reads and check-outs nothing is said but what they never *)
(* use.                                                                    *)
LEMMA PlainFacts ==
  ASSUME IInv, NEW o \in Ops, ops[o].kind \in {"read", "checkout"},
         ops'[o].kind = ops[o].kind, ops'[o].owner = ops[o].owner, ops'[o].lease = ops[o].lease,
         ops[o].kind = "read" => ops'[o].ups = ops[o].ups
  PROVE  OpFacts(o)'
<1>1. KindFacts(o)
  BY DEF IInv, OpFacts
<1>2. KindFacts(o)'
  BY <1>1 DEF KindFacts
<1> QED BY <1>2 DEF OpFacts, DrainFacts, WriteFacts, CheckinFacts

LEMMA ReadStepKeeps ==
  ASSUME IInv, NEW o \in Ops, NEW t \in Tabs, PerformRead(t, o) \/ AnswerRead(t, o)
  PROVE  IInv'
<1> DEFINE r == ops[o]
<1>1. /\ ops \in [Ops -> OpRecord] /\ r \in OpRecord /\ wrote \in [Ops -> Nat]
      /\ tab \in [Tabs -> [Ops -> Cell]] /\ faults \in 0..MaxFaults
  BY DEF IInv, TypeOK, OpRecord, Cell
<1>2. UNCHANGED <<count, wrote, mount, life, link, faults>> /\ r.kind = "read"
  BY DEF PerformRead, AnswerRead
<1>3. PICK st \in Steps : Becomes(t, o, st)
  BY DEF PerformRead, AnswerRead, Steps
<1>4. PICK c \in Cell : /\ c.st = st /\ c.sock = tab[t][o].sock /\ tab' = [tab EXCEPT ![t][o] = c]
  BY <1>3, BecomesCell
<1>5. PICK q \in OpRecord : /\ ops' = [ops EXCEPT ![o] = q] /\ q.kind = r.kind
                           /\ q.owner = r.owner /\ q.lease = r.lease /\ q.ups = r.ups
  <2>1. CASE ops' = ops
    BY <1>1, <2>1
  <2>2. CASE ops' # ops
    <3>1. PICK out \in Outcomes : ops' = [ops EXCEPT ![o] = Ended(r, out)]
      BY <1>1, <2>2 DEF PerformRead, AnswerRead, Outcomes
    <3> HIDE DEF r
    <3> QED BY <1>1, <3>1, EndedOutcome
  <2> QED BY <2>1, <2>2
<1>6. OpFacts(o)'
  BY <1>1, <1>2, <1>5, PlainFacts
<1>7. wrote' = [wrote EXCEPT ![o] = wrote[o]] /\ wrote[o] \in Nat
  BY <1>1, <1>2
<1> QED BY <1>1, <1>2, <1>4, <1>5, <1>6, <1>7, OnePage

(* The writes.  The socket the page asked on is known to it alone.         *)
LEMMA WriteStepKeeps ==
  ASSUME IInv, NEW o \in Ops, NEW t \in Tabs,
         \/ AskAuthorization(t, o) \/ Authorise(t, o) \/ StartWrite(t, o)
         \/ PerformWrite(t, o) \/ AnswerWrite(t, o)
  PROVE  IInv'
<1> DEFINE r == ops[o]
           f == tab[t][o]
<1>1. /\ ops \in [Ops -> OpRecord] /\ r \in OpRecord /\ wrote \in [Ops -> Nat]
      /\ tab \in [Tabs -> [Ops -> Cell]] /\ f \in Cell /\ faults \in 0..MaxFaults
      /\ sockOf \in [Tabs -> 0..MaxSocks] /\ nextSock \in 0..MaxSocks /\ MaxSocks \in Nat
      /\ KindFacts(o) /\ DrainFacts(o) /\ WriteFacts(o) /\ SocketFacts
  BY UserSpaceAssumption DEF IInv, TypeOK, OpRecord, Cell, OpFacts
<1>2. /\ UNCHANGED <<count, mount, life, link, faults>> /\ r.kind = "write"
      /\ UNCHANGED <<sockOf, nextSock, drain, drained, epoch, deleted>>
  BY DEF AskAuthorization, Authorise, StartWrite, PerformWrite, AnswerWrite, life, link
<1>3. \A u \in Tabs \ {t} : f.sock # 0 => sockOf[u] # f.sock /\ tab[u][o].sock # f.sock
  BY <1>1 DEF SocketFacts, Knows, Cell
<1>4. f.sock <= nextSock
  BY <1>1 DEF SocketFacts, Knows, Cell
<1>5. ASSUME NEW q \in OpRecord, NEW c \in Cell, NEW w \in Nat,
             ops' = [ops EXCEPT ![o] = q], q.kind = "write", ~q.lease, q.ups = {},
             tab' = [tab EXCEPT ![t][o] = c], c.sock = f.sock \/ c.sock = sockOf[t],
             wrote' = [wrote EXCEPT ![o] = w], DrainFacts(o)', WriteFacts(o)'
      PROVE  IInv'
  <2>1. ops'[o] = q
    BY <1>1, <1>5
  <2>2. KindFacts(o)' /\ CheckinFacts(o)'
    BY <1>5, <2>1 DEF KindFacts, CheckinFacts
  <2> QED BY <1>1, <1>2, <1>5, <2>2, OnePage DEF OpFacts
<1>7. ~r.lease /\ r.ups = {} /\ r.owner \in 0..nextSock
  BY <1>1, <1>2 DEF KindFacts, WriteFacts, OpRecord
<1>8. /\ ops' = ops => ops' = [ops EXCEPT ![o] = r]
      /\ wrote' = wrote => wrote' = [wrote EXCEPT ![o] = wrote[o]]
      /\ wrote[o] \in Nat
  BY <1>1
<1>9. ASSUME NEW c, tab' = [tab EXCEPT ![t][o] = c]
      PROVE  tab'[t][o] = c /\ \A u \in Tabs \ {t} : tab'[u][o] = tab[u][o]
  BY <1>1, <1>9
<1>10. CASE AskAuthorization(t, o)
  <2> DEFINE c == [st |-> "asked", sock |-> sockOf[t]]
  <2>1. f.st = "none" /\ sockOf[t] # 0 /\ tab' = [tab EXCEPT ![t][o] = c] /\ ops' = ops /\ wrote' = wrote
    BY <1>10 DEF AskAuthorization, Live
  <2>2. c \in Cell
    BY <1>1 DEF Cell, Steps
  <2>3. WriteFacts(o)'
    BY <1>1, <1>2, <2>1, <1>9 DEF WriteFacts
  <2>4. DrainFacts(o)'
    BY <1>1, <1>2, <2>1 DEF DrainFacts
  <2> QED BY <1>1, <1>2, <1>5, <1>7, <1>8, <2>1, <2>2, <2>3, <2>4
<1>11. CASE Authorise(t, o)
  <2>1. f.st = "asked" /\ wrote' = wrote /\ f.sock = sockOf[t] /\ f.sock # 0
    BY <1>1, <1>2, <1>11 DEF Authorise, WriteFacts
  <2>2. CASE Grantable(o, f.sock)
    <3> DEFINE q == [r EXCEPT !.owner = f.sock]
    <3>1. ops' = [ops EXCEPT ![o] = q] /\ tab' = tab
      BY <1>1, <1>11, <2>2 DEF Authorise
    <3>2. r.out = "pending" /\ r.owner = 0 /\ r.epoch = epoch
      BY <2>2 DEF Grantable, Current
    <3>3. /\ q \in OpRecord /\ q.kind = r.kind /\ q.owner = f.sock /\ q.out = r.out
          /\ q.epoch = r.epoch /\ q.lease = r.lease /\ q.ups = r.ups
      BY <1>1 DEF OpRecord, Cell
    <3> HIDE DEF q
    <3>4. ops'[o] = q
      BY <1>1, <3>1
    <3>5. DrainFacts(o)'
      <4>1. drained \in 0..epoch /\ drain.epoch \in Nat /\ epoch \in Nat /\ drain.epoch <= epoch
        BY UserSpaceAssumption DEF IInv, TypeOK
      <4> QED BY <1>2, <3>2, <3>3, <3>4, <4>1 DEF DrainFacts
    <3>6. WriteFacts(o)'
      BY <1>1, <1>2, <1>3, <1>4, <2>1, <3>1, <3>2, <3>3, <3>4 DEF WriteFacts
    <3>7. tab' = [tab EXCEPT ![t][o] = f]
      BY <1>1, <3>1
    <3>8. q.kind = "write" /\ ~q.lease /\ q.ups = {} /\ wrote' = [wrote EXCEPT ![o] = wrote[o]]
      BY <1>2, <1>7, <1>8, <2>1, <3>3
    <3> HIDE DEF r, f
    <3> QED BY <1>1, <1>5, <1>8, <3>1, <3>3, <3>5, <3>6, <3>7, <3>8
  <2>3. CASE ~Grantable(o, f.sock)
    <3>1. ops' = ops /\ Becomes(t, o, "gone")
      BY <1>11, <2>3 DEF Authorise
    <3>2. PICK c \in Cell : c.st = "gone" /\ c.sock = f.sock /\ tab' = [tab EXCEPT ![t][o] = c]
      BY <3>1, BecomesCell DEF Steps
    <3>3. WriteFacts(o)'
      BY <1>1, <1>2, <2>1, <3>1, <3>2, <1>9 DEF WriteFacts
    <3>4. DrainFacts(o)'
      BY <1>1, <1>2, <3>1 DEF DrainFacts
    <3> QED BY <1>1, <1>2, <1>5, <1>7, <1>8, <2>1, <3>1, <3>2, <3>3, <3>4
  <2> QED BY <2>2, <2>3
<1>12. CASE StartWrite(t, o)
  <2>1. f.st = "asked" /\ f.sock = r.owner /\ f.sock # 0 /\ ops' = ops /\ wrote' = wrote
    BY <1>1, <1>2, <1>12 DEF StartWrite, Granted, WriteFacts
  <2>2. PICK c \in Cell : c.st = "executing" /\ c.sock = f.sock /\ tab' = [tab EXCEPT ![t][o] = c]
    BY <1>12, BecomesCell DEF StartWrite, Steps
  <2>3. WriteFacts(o)'
    BY <1>1, <1>2, <2>1, <2>2, <1>9 DEF WriteFacts
  <2>4. DrainFacts(o)'
    BY <1>1, <1>2, <2>1 DEF DrainFacts
  <2> QED BY <1>1, <1>2, <1>5, <1>7, <1>8, <2>1, <2>2, <2>3, <2>4
(* The write: whoever executes it has not written, and nobody else holds   *)
(* the socket.                                                             *)
<1>13. CASE PerformWrite(t, o)
  <2>0. f.st = "executing" /\ ops' = ops
    BY <1>13 DEF PerformWrite
  <2>1. f.sock = r.owner /\ f.sock # 0 /\ wrote[o] = 0
    <3>1. f.sock = r.owner /\ r.owner # 0 /\ wrote[o] <= 1 /\ wrote[o] # 1
      BY <1>1, <1>2, <2>0 DEF WriteFacts
    <3> QED BY <1>8, <3>1
  <2>2. \/ wrote' = [wrote EXCEPT ![o] = 1] /\ Becomes(t, o, "done")
        \/ wrote' = [wrote EXCEPT ![o] = 1] /\ Becomes(t, o, "failed")
        \/ wrote' = [wrote EXCEPT ![o] = 0] /\ Becomes(t, o, "failed")
    BY <1>1, <1>13, <2>1 DEF PerformWrite
  <2>3. PICK w \in {0, 1}, st \in {"done", "failed"} :
          wrote' = [wrote EXCEPT ![o] = w] /\ Becomes(t, o, st) /\ (st = "done" => w = 1)
    BY <2>2
  <2>4. PICK c \in Cell : /\ c.st = st
                         /\ c.sock = f.sock /\ tab' = [tab EXCEPT ![t][o] = c]
    BY <2>3, BecomesCell DEF Steps
  <2>5. wrote'[o] = w
    BY <1>1, <2>3
  <2>6. WriteFacts(o)'
    BY <1>1, <1>2, <1>3, <2>0, <2>1, <2>3, <2>4, <2>5, <1>9 DEF WriteFacts
  <2>7. DrainFacts(o)'
    BY <1>1, <1>2, <2>0 DEF DrainFacts
  <2> QED BY <1>1, <1>2, <1>5, <1>7, <1>8, <2>0, <2>3, <2>4, <2>6, <2>7
<1>14. CASE AnswerWrite(t, o)
  <2>1. /\ f.st \in {"done", "failed"} /\ f.sock = r.owner /\ f.sock # 0 /\ wrote' = wrote
        /\ f.st = "done" => wrote[o] = 1
    BY <1>1, <1>2, <1>14 DEF AnswerWrite, WriteFacts
  <2>2. PICK c \in Cell : c.st = "gone" /\ c.sock = f.sock /\ tab' = [tab EXCEPT ![t][o] = c]
    BY <1>14, BecomesCell DEF AnswerWrite, Steps
  <2>3. PICK q \in OpRecord :
          /\ ops' = [ops EXCEPT ![o] = q] /\ q.kind = r.kind /\ q.owner = r.owner
          /\ q.epoch = r.epoch /\ q.lease = r.lease /\ q.ups = r.ups
          /\ q.out = r.out \/ q.out = (IF f.st = "done" THEN "ok" ELSE "failed")
    <3>1. CASE ops' = ops
      BY <1>1, <1>8, <3>1
    <3>2. CASE ops' # ops
      <4>1. ops' = [ops EXCEPT ![o] = Ended(r, IF f.st = "done" THEN "ok" ELSE "failed")]
        BY <1>1, <1>14, <3>2 DEF AnswerWrite
      <4>2. (IF f.st = "done" THEN "ok" ELSE "failed") \in Outcomes
        BY DEF Outcomes
      <4> HIDE DEF r, f
      <4> QED BY <1>1, <4>1, <4>2, EndedOutcome
    <3> QED BY <3>1, <3>2
  <2>4. ops'[o] = q
    BY <1>1, <2>3
  <2>5. WriteFacts(o)'
    BY <1>1, <1>2, <1>3, <2>1, <2>2, <2>3, <2>4, <1>9 DEF WriteFacts
  <2>6. DrainFacts(o)'
    <3>1. Authorised(q) => Authorised(r)
      BY <2>3 DEF Authorised
    <3>2. DrainFacts(o) /\ q.kind = r.kind /\ q.epoch = r.epoch /\ drain' = drain /\ drained' = drained
      BY <1>1, <1>2, <2>3
    <3> QED BY <2>4, <3>1, <3>2 DEF DrainFacts
  <2>7. q.kind = "write" /\ ~q.lease /\ q.ups = {} /\ wrote' = [wrote EXCEPT ![o] = wrote[o]]
    BY <1>2, <1>7, <1>8, <2>1, <2>3
  <2> HIDE DEF r, f
  <2> QED BY <1>5, <1>8, <2>2, <2>3, <2>5, <2>6, <2>7
<1> QED BY <1>10, <1>11, <1>12, <1>13, <1>14

(* A terminal report leaves the operation as it is or ends it.             *)
LEMMA CompleteOutcome ==
  ASSUME NEW r \in OpRecord, NEW ok \in BOOLEAN, NEW withLease \in BOOLEAN
  PROVE  /\ Complete(r, ok, withLease) \in OpRecord
         /\ Complete(r, ok, withLease).kind = r.kind
         /\ Complete(r, ok, withLease).owner = r.owner
         /\ Complete(r, ok, withLease).lease = r.lease
         /\ Complete(r, ok, withLease).ups = r.ups
         /\ r.out # "pending" => Complete(r, ok, withLease) = r
         /\ Complete(r, ok, withLease).out \in {r.out, "rejected", "failed", "ok"}
         /\ r.lease /\ ~withLease => Complete(r, ok, withLease) = r
         /\ r.lease /\ ok => Complete(r, ok, withLease).out \in {r.out, "ok"}
<1> DEFINE q == Complete(r, ok, withLease)
<1>1. \/ q = r
      \/ /\ r.out = "pending"
         /\ \/ q = Ended(r, "rejected") /\ ~Authorised(r)
            \/ q = Ended(r, "failed") /\ ~ok /\ ~(r.lease /\ ~withLease)
            \/ q = Ended(r, "ok") /\ ~(r.lease /\ ~withLease)
  BY DEF Complete, Stale
<1>2. {"rejected", "failed", "ok"} \subseteq Outcomes
  BY DEF Outcomes
<1>3. r.out = "pending" /\ r.lease => Authorised(r)
  BY DEF Authorised
<1> HIDE DEF q
<1>4. /\ q \in OpRecord /\ q.kind = r.kind /\ q.owner = r.owner /\ q.lease = r.lease
      /\ q.ups = r.ups
  BY <1>1, <1>2, EndedOutcome
<1>5. r.out # "pending" => q = r
  BY <1>1
<1>6. q.out \in {r.out, "rejected", "failed", "ok"}
  BY <1>1, <1>2, EndedOutcome
<1>7. r.lease /\ ~withLease => q = r
  BY <1>1, <1>3
<1>8. r.lease /\ ok => q.out \in {r.out, "ok"}
  BY <1>1, <1>2, <1>3, EndedOutcome
<1> QED BY <1>4, <1>5, <1>6, <1>7, <1>8 DEF q

LEMMA CheckoutStepKeeps ==
  ASSUME IInv, NEW o \in Ops, NEW t \in Tabs,
         BeginUpload(t, o) \/ FinishUpload(t, o) \/ CompleteCheckout(t, o)
  PROVE  IInv'
<1> DEFINE r == ops[o]
<1>1. /\ ops \in [Ops -> OpRecord] /\ r \in OpRecord /\ wrote \in [Ops -> Nat]
      /\ tab \in [Tabs -> [Ops -> Cell]] /\ faults \in 0..MaxFaults /\ KindFacts(o)
  BY DEF IInv, TypeOK, OpRecord, Cell, OpFacts
<1>2. UNCHANGED <<count, wrote, mount, life, link, faults>> /\ r.kind = "checkout"
  BY <1>1 DEF BeginUpload, FinishUpload, CompleteCheckout, KindFacts
<1>3. PICK st \in Steps : Becomes(t, o, st)
  <2>1. CASE FinishUpload(t, o)
    <3>1. tab[t][o].st \in Steps
      BY <1>1 DEF Cell
    <3> QED BY <2>1, <3>1 DEF FinishUpload, Steps
  <2>2. CASE BeginUpload(t, o) \/ CompleteCheckout(t, o)
    BY <2>2 DEF BeginUpload, CompleteCheckout, Steps
  <2> QED BY <2>1, <2>2
<1>4. PICK c \in Cell : /\ c.st = st /\ c.sock = tab[t][o].sock /\ tab' = [tab EXCEPT ![t][o] = c]
  BY <1>3, BecomesCell
<1>5. PICK q \in OpRecord : /\ ops' = [ops EXCEPT ![o] = q] /\ q.kind = r.kind
                           /\ q.owner = r.owner /\ q.lease = r.lease
  <2>1. CASE BeginUpload(t, o)
    <3>1. CASE ops' = ops
      BY <1>1, <3>1
    <3>2. CASE ops' = [ops EXCEPT ![o].ups = @ \union {t}]
      <4>1. [r EXCEPT !.ups = @ \union {t}] \in OpRecord
        BY <1>1 DEF OpRecord
      <4> QED BY <1>1, <3>2, <4>1 DEF OpRecord
    <3>3. CASE ops' = [ops EXCEPT ![o] = Ended(r, "rejected")]
      <4> HIDE DEF r
      <4> QED BY <1>1, <3>3, EndedOutcome DEF Outcomes
    <3> QED BY <2>1, <3>1, <3>2, <3>3 DEF BeginUpload
  <2>2. CASE FinishUpload(t, o)
    <3> DEFINE x == [r EXCEPT !.ups = @ \ {t}]
    <3>1. x \in OpRecord /\ x.kind = r.kind /\ x.owner = r.owner /\ x.lease = r.lease
      BY <1>1 DEF OpRecord
    <3>2. \/ ops' = [ops EXCEPT ![o] = [x EXCEPT !.staged = IF @ = "no" THEN "file" ELSE @, !.got = TRUE]]
          \/ ops' = [ops EXCEPT ![o] = Ended([x EXCEPT !.staged = IF @ = "file" THEN "no" ELSE @], "rejected")]
      BY <1>1, <2>2 DEF FinishUpload
    <3> HIDE DEF x, r
    <3>3. ASSUME NEW g \in {"no", "file", "removing"}, NEW b \in BOOLEAN
          PROVE  LET y == [x EXCEPT !.staged = g, !.got = b] IN
                 y \in OpRecord /\ y.kind = x.kind /\ y.owner = x.owner /\ y.lease = x.lease
      BY <3>1 DEF OpRecord
    <3>4. ASSUME NEW g \in {"no", "file", "removing"}
          PROVE  LET y == [x EXCEPT !.staged = g] IN
                 y \in OpRecord /\ y.kind = x.kind /\ y.owner = x.owner /\ y.lease = x.lease
      BY <3>1 DEF OpRecord
    <3>5. x.staged \in {"no", "file", "removing"}
      BY <3>1 DEF OpRecord
    <3>6. CASE ops' = [ops EXCEPT ![o] = [x EXCEPT !.staged = IF @ = "no" THEN "file" ELSE @, !.got = TRUE]]
      <4> DEFINE y == [x EXCEPT !.staged = IF @ = "no" THEN "file" ELSE @, !.got = TRUE]
      <4>1. y \in OpRecord /\ y.kind = x.kind /\ y.owner = x.owner /\ y.lease = x.lease
        BY <3>3, <3>5
      <4>2. ops' = [ops EXCEPT ![o] = y]
        BY <3>6
      <4> HIDE DEF y
      <4> QED BY <3>1, <4>1, <4>2
    <3>7. CASE ops' = [ops EXCEPT ![o] = Ended([x EXCEPT !.staged = IF @ = "file" THEN "no" ELSE @], "rejected")]
      <4> DEFINE y == [x EXCEPT !.staged = IF @ = "file" THEN "no" ELSE @]
      <4>1. y \in OpRecord /\ y.kind = x.kind /\ y.owner = x.owner /\ y.lease = x.lease
        BY <3>4, <3>5
      <4>2. ops' = [ops EXCEPT ![o] = Ended(y, "rejected")]
        BY <3>7
      <4> HIDE DEF y
      <4>3. "rejected" \in Outcomes
        BY DEF Outcomes
      <4>4. /\ Ended(y, "rejected") \in OpRecord /\ Ended(y, "rejected").kind = y.kind
            /\ Ended(y, "rejected").owner = y.owner /\ Ended(y, "rejected").lease = y.lease
        BY <4>1, <4>3, EndedOutcome
      <4> QED BY <3>1, <4>1, <4>2, <4>4
    <3> QED BY <3>2, <3>6, <3>7
  <2>3. CASE CompleteCheckout(t, o)
    <3>1. PICK ok \in BOOLEAN : ops' = [ops EXCEPT ![o] = Complete(r, ok, FALSE)]
      BY <1>1, <2>3 DEF CompleteCheckout
    <3> HIDE DEF r
    <3> QED BY <1>1, <3>1, CompleteOutcome
  <2> QED BY <2>1, <2>2, <2>3
<1>6. OpFacts(o)'
  BY <1>1, <1>2, <1>5, PlainFacts
<1>7. wrote' = [wrote EXCEPT ![o] = wrote[o]] /\ wrote[o] \in Nat
  BY <1>1, <1>2
<1> QED BY <1>1, <1>2, <1>4, <1>5, <1>6, <1>7, OnePage

(* The check-ins.  While one page alone holds the folder, it alone gets    *)
(* beyond the download; a lease it was given is never taken back, and no   *)
(* report without it ends the operation.                                   *)
LEMMA CheckinStepKeeps ==
  ASSUME IInv, NEW o \in Ops, NEW t \in Tabs,
         \/ Download(t, o) \/ Commit(t, o) \/ Recheck(t, o) \/ CloseFile(t, o)
         \/ CompleteCheckin(t, o)
  PROVE  IInv'
<1> DEFINE r == ops[o]
           f == tab[t][o]
<1>1. /\ ops \in [Ops -> OpRecord] /\ r \in OpRecord /\ wrote \in [Ops -> Nat]
      /\ tab \in [Tabs -> [Ops -> Cell]] /\ f \in Cell /\ faults \in 0..MaxFaults
      /\ MaxFaults \in Nat /\ wrote[o] \in Nat
      /\ KindFacts(o) /\ WriteFacts(o) /\ CheckinFacts(o)
  BY UserSpaceAssumption DEF IInv, TypeOK, OpRecord, Cell, OpFacts
<1>2. /\ UNCHANGED <<count, mount, life, link>> /\ faults' \in 0..MaxFaults
      /\ UNCHANGED <<sockOf, nextSock, holders, reloads>>
  BY <1>1 DEF Download, Commit, Recheck, CloseFile, CompleteCheckin, life, link
<1>3. Alone => \A u, v \in holders : u = v
  <2>1. IsFiniteSet(holders)
    BY UserSpaceAssumption, FS_Subset DEF IInv, TypeOK
  <2> QED BY <2>1, FS_Singleton DEF Alone
<1>4. Alone' = Alone
  BY <1>2 DEF Alone
<1>5. ASSUME NEW q \in OpRecord, NEW c \in Cell, NEW w \in Nat,
             ops' = [ops EXCEPT ![o] = q], q.kind = r.kind, q.owner = r.owner, q.ups = r.ups,
             tab' = [tab EXCEPT ![t][o] = c], c.sock = f.sock,
             wrote' = [wrote EXCEPT ![o] = w],
             \/ r.kind = "checkin" /\ CheckinFacts(o)'
             \/ r.kind \in {"read", "checkout"} /\ q.lease = r.lease
      PROVE  IInv'
  <2>1. ops'[o] = q
    BY <1>1, <1>5
  <2>2. CASE r.kind = "checkin"
    <3>1. KindFacts(o)' /\ WriteFacts(o)' /\ DrainFacts(o)'
      BY <1>1, <1>5, <2>1, <2>2 DEF KindFacts, WriteFacts, DrainFacts
    <3>2. OpFacts(o)'
      BY <1>5, <2>2, <3>1 DEF OpFacts
    <3> QED BY <1>2, <1>5, <3>2, OnePage
  <2>3. CASE r.kind \in {"read", "checkout"}
    <3>1. OpFacts(o)'
      BY <1>5, <2>1, <2>3, PlainFacts
    <3> QED BY <1>2, <1>5, <3>1, OnePage
  <2> QED BY <1>5, <2>2, <2>3
<1>6. ASSUME NEW c, tab' = [tab EXCEPT ![t][o] = c]
      PROVE  tab'[t][o] = c /\ \A u \in Tabs \ {t} : tab'[u][o] = tab[u][o]
  BY <1>1, <1>6
(* What the other pages are not doing while this one is the holder.        *)
<1>7. ASSUME r.kind = "checkin", Alone, NEW u \in Tabs \ {t}, t \in holders
      PROVE  tab[u][o].st \in {"none", "failed", "gone"} /\ u \notin holders
  BY <1>1, <1>3, <1>7 DEF CheckinFacts
<1>8. ASSUME NEW q \in OpRecord, ops' = [ops EXCEPT ![o] = q] PROVE ops'[o] = q
  BY <1>1, <1>8
<1>9. ASSUME NEW w, wrote' = [wrote EXCEPT ![o] = w] PROVE wrote'[o] = w
  BY <1>1, <1>9
<1>10. ops = [ops EXCEPT ![o] = r] /\ wrote = [wrote EXCEPT ![o] = wrote[o]]
  BY <1>1
<1>11. CASE Download(t, o)
  <2>1. /\ r.kind = "checkin" /\ f.st = "none" /\ r.out \notin {"staging", "validated"}
        /\ wrote' = [wrote EXCEPT ![o] = wrote[o]]
    BY <1>10, <1>11 DEF Download
  <2>2. PICK q \in OpRecord, st \in {"failed", "downloaded"} :
          /\ ops' = [ops EXCEPT ![o] = q] /\ Becomes(t, o, st)
          /\ q.kind = r.kind /\ q.owner = r.owner /\ q.ups = r.ups /\ q.lease = r.lease
          /\ st = "downloaded" => t \in holders
          /\ q.out # r.out => q.out = "rejected" /\ t \in holders
    <3> HIDE DEF r
    <3>1. CASE t \notin holders \/ wrote[o] > 0
      BY <1>1, <1>10, <1>11, <3>1 DEF Download
    <3>2. CASE ~(t \notin holders \/ wrote[o] > 0) /\ Current(ops[o])
      <4> DEFINE q == [r EXCEPT !.got = TRUE]
      <4>1. /\ q \in OpRecord /\ q.kind = r.kind /\ q.owner = r.owner /\ q.ups = r.ups
            /\ q.lease = r.lease /\ q.out = r.out
        BY <1>1 DEF OpRecord
      <4>2. ops' = [ops EXCEPT ![o] = q] /\ Becomes(t, o, "downloaded") /\ t \in holders
        BY <1>1, <1>11, <3>2 DEF Download, r
      <4> HIDE DEF q
      <4> QED BY <4>1, <4>2
    <3>3. CASE ~(t \notin holders \/ wrote[o] > 0) /\ ~Current(ops[o])
      <4>1. ops' = [ops EXCEPT ![o] = r] \/ ops' = [ops EXCEPT ![o] = Ended(r, "rejected")]
        BY <1>1, <1>10, <1>11, <3>3 DEF Download, r
      <4>2. Becomes(t, o, "failed") /\ t \in holders
        BY <1>11, <3>3 DEF Download
      <4>3. LET q == Ended(r, "rejected") IN
            /\ q \in OpRecord /\ q.kind = r.kind /\ q.owner = r.owner /\ q.ups = r.ups
            /\ q.lease = r.lease /\ q.out \in {r.out, "rejected"}
        BY <1>1, EndedOutcome DEF Outcomes
      <4> QED BY <1>1, <4>1, <4>2, <4>3
    <3> QED BY <3>1, <3>2, <3>3
  <2>3. PICK c \in Cell : c.st = st /\ c.sock = f.sock /\ tab' = [tab EXCEPT ![t][o] = c]
    BY <2>2, BecomesCell DEF Steps
  <2>4. CheckinFacts(o)'
    <3> SUFFICES ASSUME Alone PROVE CheckinFacts(o)'
      BY <1>4 DEF CheckinFacts
    <3>1. ops'[o] = q /\ wrote'[o] = wrote[o] /\ tab'[t][o] = c
          /\ \A u \in Tabs \ {t} : tab'[u][o] = tab[u][o]
      BY <1>6, <1>8, <1>9, <2>1, <2>2, <2>3
    <3>2. t \in holders => wrote[o] = 0
      BY <1>1, <2>1 DEF CheckinFacts
    <3> QED BY <1>1, <1>2, <1>7, <2>1, <2>2, <2>3, <3>1, <3>2 DEF CheckinFacts
  <2> QED BY <1>1, <1>5, <2>1, <2>2, <2>3, <2>4
<1>12. CASE Commit(t, o)
  <2>1. /\ r.kind = "checkin" /\ f.st = "downloaded" /\ ops' = [ops EXCEPT ![o] = Leased(r)]
        /\ wrote' = [wrote EXCEPT ![o] = wrote[o]]
    BY <1>10, <1>12 DEF Commit
  <2>2. PICK st \in {"leased", "failed"} :
          Becomes(t, o, st) /\ (st = "leased" => Authorised(Leased(r)) /\ Leased(r).out = "pending")
    BY <1>12 DEF Commit, Authorised
  <2> DEFINE q == Leased(r)
  <2>3. /\ q \in OpRecord /\ q.kind = r.kind /\ q.owner = r.owner /\ q.ups = r.ups
        /\ q.out \in {r.out, "rejected"} /\ (q.out # r.out => r.out = "pending")
    <3> HIDE DEF r
    <3>1. LET x == [r EXCEPT !.lease = TRUE] IN
          /\ x \in OpRecord /\ x.kind = r.kind /\ x.owner = r.owner /\ x.ups = r.ups /\ x.out = r.out
      BY <1>1 DEF OpRecord
    <3>2. LET x == Ended(r, "rejected") IN
          /\ x \in OpRecord /\ x.kind = r.kind /\ x.owner = r.owner /\ x.ups = r.ups
          /\ x.out = IF r.out = "pending" THEN "rejected" ELSE r.out
      BY <1>1, EndedOutcome DEF Outcomes
    <3> QED BY <1>1, <3>1, <3>2 DEF Leased
  <2>4. PICK c \in Cell : c.st = st /\ c.sock = f.sock /\ tab' = [tab EXCEPT ![t][o] = c]
    BY <2>2, BecomesCell DEF Steps
  <2> HIDE DEF q
  <2>5. CheckinFacts(o)'
    <3> SUFFICES ASSUME Alone PROVE CheckinFacts(o)'
      BY <1>4 DEF CheckinFacts
    <3>1. ops'[o] = q /\ wrote'[o] = wrote[o] /\ tab'[t][o] = c
          /\ \A u \in Tabs \ {t} : tab'[u][o] = tab[u][o]
      BY <1>6, <1>8, <1>9, <2>1, <2>3, <2>4 DEF q
    <3>2. t \in holders /\ wrote[o] = 0 /\ q.out \notin {"staging", "validated"}
      BY <1>1, <2>1, <2>3 DEF CheckinFacts
    <3>3. st = "leased" => q.lease /\ q.out = "pending"
      <4>1. q.owner = 0
        BY <1>1, <2>1, <2>3 DEF KindFacts
      <4> QED BY <2>2, <4>1 DEF Authorised, q
    <3> QED BY <1>1, <1>2, <1>7, <2>1, <2>3, <2>4, <3>1, <3>2, <3>3 DEF CheckinFacts
  <2> QED BY <1>1, <1>5, <2>1, <2>3, <2>4, <2>5 DEF q
(* Pages in these two states check in, or no kind of which anything is     *)
(* said.                                                                   *)
<1>13. CASE Recheck(t, o) \/ CloseFile(t, o)
  <2>1. f.st \in {"leased", "writing"} /\ ops' = [ops EXCEPT ![o] = r]
    BY <1>10, <1>13 DEF Recheck, CloseFile
  <2>2. PICK st \in {"writing", "refused", "written"}, w \in Nat :
          /\ Becomes(t, o, st) /\ wrote' = [wrote EXCEPT ![o] = w]
          /\ st # "written" => w = wrote[o]
    <3>1. wrote[o] + 1 \in Nat
      BY <1>1
    <3> QED BY <1>1, <1>10, <1>13, <3>1 DEF Recheck, CloseFile
  <2>3. PICK c \in Cell : c.st = st /\ c.sock = f.sock /\ tab' = [tab EXCEPT ![t][o] = c]
    BY <2>2, BecomesCell DEF Steps
  <2>4. r.kind \in {"read", "checkout", "checkin"}
    <3>1. r.kind # "write"
      BY <1>1, <2>1 DEF WriteFacts
    <3>2. r.kind # "none"
      BY <1>1, <2>1 DEF KindFacts, Untouched, Idle
    <3> QED BY <1>1, <3>1, <3>2 DEF OpRecord, Kinds
  <2>5. r.kind = "checkin" => CheckinFacts(o)'
    <3> SUFFICES ASSUME Alone, r.kind = "checkin" PROVE CheckinFacts(o)'
      BY <1>4 DEF CheckinFacts
    <3>1. ops'[o] = r /\ wrote'[o] = w /\ tab'[t][o] = c
          /\ \A u \in Tabs \ {t} : tab'[u][o] = tab[u][o]
      BY <1>1, <1>6, <1>8, <1>9, <2>1, <2>2, <2>3
    <3>2. t \in holders /\ wrote[o] = 0 /\ r.lease /\ r.out \in {"pending", "removed"}
      BY <1>1, <2>1 DEF CheckinFacts
    <3> QED BY <1>1, <1>2, <1>7, <2>2, <2>3, <3>1, <3>2 DEF CheckinFacts
  <2> QED BY <1>1, <1>5, <2>1, <2>2, <2>3, <2>4, <2>5
<1>14. CASE CompleteCheckin(t, o)
  <2>1. /\ r.kind = "checkin" /\ f.st \in {"written", "refused", "failed"}
        /\ Becomes(t, o, "gone") /\ wrote' = [wrote EXCEPT ![o] = wrote[o]]
    BY <1>10, <1>14 DEF CompleteCheckin
  <2>2. PICK c \in Cell : c.st = "gone" /\ c.sock = f.sock /\ tab' = [tab EXCEPT ![t][o] = c]
    BY <2>1, BecomesCell DEF Steps
  <2>3. PICK q \in OpRecord :
          /\ ops' = [ops EXCEPT ![o] = q] /\ q.kind = r.kind /\ q.owner = r.owner
          /\ q.ups = r.ups /\ q.lease = r.lease
          /\ q.out \in {r.out, "rejected", "failed", "ok"} /\ (r.out # "pending" => q = r)
          /\ r.lease /\ f.st = "failed" => q = r
          /\ r.lease /\ f.st = "written" => q.out \in {r.out, "ok"}
    <3>1. \/ ops' = [ops EXCEPT ![o] = r]
          \/ ops' = [ops EXCEPT ![o] = Complete(r, f.st = "written", f.st # "failed")]
      BY <1>10, <1>14 DEF CompleteCheckin
    <3> HIDE DEF r, f
    <3>2. CASE ops' = [ops EXCEPT ![o] = r]
      BY <1>1, <3>2
    <3>3. CASE ops' = [ops EXCEPT ![o] = Complete(r, f.st = "written", f.st # "failed")]
      <4> DEFINE ok == f.st = "written"
                 withLease == f.st # "failed"
                 q == Complete(r, ok, withLease)
      <4>1. /\ ok \in BOOLEAN /\ withLease \in BOOLEAN
            /\ f.st = "failed" => ~withLease
            /\ f.st = "written" => ok
        OBVIOUS
      <4>2. ops' = [ops EXCEPT ![o] = q]
        BY <3>3
      <4> HIDE DEF ok, withLease
      <4>3. /\ q \in OpRecord /\ q.kind = r.kind /\ q.owner = r.owner
            /\ q.ups = r.ups /\ q.lease = r.lease
            /\ q.out \in {r.out, "rejected", "failed", "ok"} /\ (r.out # "pending" => q = r)
            /\ r.lease /\ ~withLease => q = r
            /\ r.lease /\ ok => q.out \in {r.out, "ok"}
        BY <1>1, <4>1, CompleteOutcome
      <4> HIDE DEF q
      <4> QED BY <4>1, <4>2, <4>3
    <3> QED BY <3>1, <3>2, <3>3
  <2>4. CheckinFacts(o)'
    <3> SUFFICES ASSUME Alone PROVE CheckinFacts(o)'
      BY <1>4 DEF CheckinFacts
    <3>1. ops'[o] = q /\ wrote'[o] = wrote[o] /\ tab'[t][o] = c
          /\ \A u \in Tabs \ {t} : tab'[u][o] = tab[u][o]
      BY <1>6, <1>8, <1>9, <2>1, <2>2, <2>3
    <3>2. r.out \notin {"staging", "validated"} /\ q.out \notin {"staging", "validated"}
      BY <1>1, <2>1, <2>3 DEF CheckinFacts
    <3>3. CASE f.st = "written"
      <4>1. t \in holders /\ r.lease /\ r.out \in {"pending", "removed"}
        BY <1>1, <2>1, <3>3 DEF CheckinFacts
      <4> QED BY <1>1, <1>2, <1>7, <2>1, <2>2, <2>3, <3>1, <3>2, <3>3, <4>1 DEF CheckinFacts
    <3>4. CASE f.st = "refused"
      <4>1. t \in holders /\ r.lease /\ wrote[o] = 0
        BY <1>1, <2>1, <3>4 DEF CheckinFacts
      <4> QED BY <1>1, <1>2, <1>7, <2>1, <2>2, <2>3, <3>1, <3>2, <3>4, <4>1 DEF CheckinFacts
    <3>5. CASE f.st = "failed"
      <4>1. CASE r.lease
        <5>1. q = r
          BY <2>3, <3>5, <4>1
        <5> QED BY <1>1, <1>2, <2>1, <2>2, <3>1, <3>2, <3>5, <5>1 DEF CheckinFacts
      <4>2. CASE ~r.lease
        <5>1. wrote[o] = 0 /\ \A u \in Tabs : tab[u][o].st \in {"none", "downloaded", "failed", "gone"}
          BY <1>1, <2>1, <4>2 DEF CheckinFacts
        <5> QED BY <1>1, <1>2, <2>1, <2>2, <2>3, <3>1, <3>2, <5>1 DEF CheckinFacts
      <4> QED BY <4>1, <4>2
    <3> QED BY <2>1, <3>3, <3>4, <3>5
  <2> QED BY <1>1, <1>5, <2>1, <2>2, <2>3, <2>4
<1> QED BY <1>11, <1>12, <1>13, <1>14

------------------------------------------------------------------------------
(* Sockets, pages, mounts.                                                 *)
LEMMA SocketStepKeeps ==
  ASSUME IInv, NEW t \in Tabs, PageLosesSocket(t) \/ Reconnect(t) \/ Reload(t)
  PROVE  IInv'
<1>1. /\ ops \in [Ops -> OpRecord] /\ wrote \in [Ops -> Nat] /\ faults \in 0..MaxFaults
      /\ tab \in [Tabs -> [Ops -> Cell]] /\ sockOf \in [Tabs -> 0..MaxSocks]
      /\ nextSock \in 0..MaxSocks /\ srv \subseteq 1..MaxSocks /\ reloads \in 0..1
      /\ MaxFaults \in Nat /\ MaxSocks \in Nat
      /\ \A o \in Ops : KindFacts(o) /\ DrainFacts(o) /\ WriteFacts(o) /\ CheckinFacts(o)
      /\ SocketFacts
  BY UserSpaceAssumption DEF IInv, TypeOK, OpRecord, Cell, OpFacts
<1>2. UNCHANGED <<ops, count, wrote, mount, holders, epoch, running, drain, drained, deleted>>
  BY DEF PageLosesSocket, Reconnect, Reload, life
(* Such a step forgets sockets or opens a fresh one, and of operations it  *)
(* forgets some.                                                           *)
<1>3. ASSUME tab' \in [Tabs -> [Ops -> Cell]], sockOf' \in [Tabs -> 0..MaxSocks],
             nextSock' \in 0..MaxSocks, srv' \subseteq 1..MaxSocks, reloads' \in 0..1,
             faults' \in 0..MaxFaults, reloads' = 0 => reloads = 0,
             \A u \in Tabs, o \in Ops :
               \/ /\ tab'[u][o] = tab[u][o]
                  /\ ops[o].kind = "write" /\ tab[u][o].st = "asked" => sockOf'[u] = sockOf[u]
               \/ tab[u][o].st = "asked" /\ tab'[u][o].st = "gone" /\ tab'[u][o].sock = tab[u][o].sock
               \/ tab'[u][o] = Idle /\ sockOf'[u] = 0 /\ reloads' = 1,
             \A u \in Tabs : \/ sockOf'[u] \in {0, sockOf[u]} /\ nextSock <= nextSock'
                            \/ /\ sockOf'[u] = nextSock + 1 /\ nextSock' = nextSock + 1
                               /\ \A v \in Tabs : v # u => sockOf'[v] = sockOf[v]
      PROVE  IInv'
  <2>1. TypeOK'
    BY <1>2, <1>3 DEF IInv, TypeOK, OpRecord, Cell
  <2>2. \A u \in Tabs, s \in 0..MaxSocks :
          Knows(u, s)' => Knows(u, s) \/ (s = sockOf'[u] /\ s = nextSock + 1 /\ nextSock' = nextSock + 1)
    BY <1>1, <1>3 DEF Knows, Idle
  <2>3. SocketFacts'
    <3>1. nextSock <= nextSock'
      BY <1>1, <1>3, UserSpaceAssumption
    <3>2. \A u \in Tabs, s \in 0..MaxSocks : Knows(u, s)' => s <= nextSock'
      BY <1>1, <1>3, <2>2, <3>1 DEF SocketFacts
    <3>3. ASSUME NEW u \in Tabs, NEW v \in Tabs, NEW s \in 0..MaxSocks, Knows(u, s)', Knows(v, s)'
          PROVE  u = v
      <4>1. CASE s <= nextSock
        BY <1>1, <2>2, <3>3, <4>1 DEF SocketFacts
      <4>2. CASE ~(s <= nextSock)
        <5>1. ~Knows(u, s) /\ ~Knows(v, s)
          BY <1>1, <4>2 DEF SocketFacts
        <5>2. s = sockOf'[u] /\ s = sockOf'[v] /\ s = nextSock + 1
          BY <2>2, <3>3, <5>1
        <5>3. s # 0 /\ nextSock + 1 # nextSock
          BY <1>1, <5>2
        <5>4. sockOf[u] # s /\ sockOf[v] # s
          BY <5>1, <5>3 DEF Knows
        <5> QED BY <1>3, <5>2, <5>3, <5>4
      <4> QED BY <4>1, <4>2
    <3> QED BY <3>2, <3>3 DEF SocketFacts
  <2>4. ASSUME NEW o \in Ops PROVE OpFacts(o)'
    <3>1. KindFacts(o)'
      BY <1>1, <1>2, <1>3 DEF KindFacts, Untouched, Unused, Idle
    <3>2. DrainFacts(o)'
      BY <1>1, <1>2 DEF DrainFacts
    <3>3. WriteFacts(o)'
      <4> SUFFICES ASSUME ops[o].kind = "write" PROVE WriteFacts(o)'
        BY <1>2 DEF WriteFacts
      <4>1. WriteFacts(o) /\ nextSock <= nextSock' /\ ops[o].owner \in Nat
        BY <1>1, <1>3, UserSpaceAssumption DEF OpRecord
      <4>2. ASSUME NEW u \in Tabs
            PROVE  ops[o].owner # 0 /\ sockOf'[u] = ops[o].owner =>
                     sockOf'[u] = sockOf[u]
        BY <1>1, <1>3, <4>1, <4>2 DEF WriteFacts
      <4>3. ASSUME NEW u \in Tabs
            PROVE  LET c == tab'[u][o]  s == sockOf'[u]  q == ops[o] IN
                   /\ c.st \in {"none", "asked", "executing", "done", "failed", "gone"}
                   /\ c.st = "asked" => c.sock = s /\ s # 0
                   /\ c.st \in {"executing", "done", "failed"} => c.sock = q.owner /\ q.owner # 0
                   /\ c.st \in {"asked", "executing"} /\ c.sock = q.owner => q.out = "pending"
                   /\ c.st = "done" => wrote[o] = 1
                   /\ q.owner # 0 /\ s = q.owner => c.st # "none"
                   /\ wrote[o] = 1 /\ c.sock = q.owner => c.st \notin {"asked", "executing"}
        <5>1. CASE tab'[u][o] = tab[u][o] /\ (tab[u][o].st = "asked" => sockOf'[u] = sockOf[u])
          BY <4>1, <4>2, <5>1 DEF WriteFacts
        <5>2. CASE /\ tab[u][o].st = "asked" /\ tab'[u][o].st = "gone"
                   /\ tab'[u][o].sock = tab[u][o].sock
          BY <5>2
        <5>3. CASE tab'[u][o] = Idle /\ sockOf'[u] = 0
          BY <4>1, <5>3 DEF Idle
        <5> QED BY <1>3, <5>1, <5>2, <5>3
      <4>4. ops[o].owner <= nextSock'
        BY <1>1, <1>3, <4>1 DEF WriteFacts
      <4> QED BY <1>2, <4>1, <4>3, <4>4 DEF WriteFacts
    <3>4. CheckinFacts(o)'
      BY <1>1, <1>2, <1>3 DEF CheckinFacts, Alone
    <3> QED BY <3>1, <3>2, <3>3, <3>4 DEF OpFacts
  <2> QED BY <1>2, <2>1, <2>3, <2>4 DEF IInv
<1>4. CASE PageLosesSocket(t)
  <2>1. /\ sockOf[t] # 0 /\ tab' = [tab EXCEPT ![t] = Discarded(tab[t], sockOf[t])]
        /\ sockOf' = [sockOf EXCEPT ![t] = 0] /\ nextSock' = nextSock /\ srv' = srv
        /\ reloads' = reloads /\ faults' \in 0..MaxFaults
    BY <1>1, <1>4 DEF PageLosesSocket
  <2>2. ASSUME NEW o \in Ops
        PROVE  LET c == Discarded(tab[t], sockOf[t])[o] IN
               /\ c \in Cell
               /\ \/ c = tab[t][o] /\ ~(tab[t][o].st = "asked" /\ tab[t][o].sock = sockOf[t])
                  \/ tab[t][o].st = "asked" /\ c.st = "gone" /\ c.sock = tab[t][o].sock
    BY <1>1 DEF Discarded, Cell, Steps
  <2>3. Discarded(tab[t], sockOf[t]) \in [Ops -> Cell]
    BY <2>2 DEF Discarded
  <2>4. tab' \in [Tabs -> [Ops -> Cell]] /\ sockOf' \in [Tabs -> 0..MaxSocks]
    BY <1>1, <2>1, <2>3
  <2>5. \A u \in Tabs, o \in Ops :
          IF u = t THEN tab'[u][o] = Discarded(tab[t], sockOf[t])[o] /\ sockOf'[u] = 0
          ELSE tab'[u][o] = tab[u][o] /\ sockOf'[u] = sockOf[u]
    BY <1>1, <2>1
  <2>6. \A o \in Ops : ops[o].kind = "write" /\ tab[t][o].st = "asked" => tab[t][o].sock = sockOf[t]
    BY <1>1 DEF WriteFacts
  <2> QED BY <1>1, <1>3, <2>1, <2>2, <2>4, <2>5, <2>6
<1>5. CASE Reconnect(t)
  <2>1. /\ nextSock < MaxSocks /\ nextSock' = nextSock + 1 /\ sockOf[t] = 0
        /\ sockOf' = [sockOf EXCEPT ![t] = nextSock + 1]
        /\ srv' = srv \union {nextSock + 1} /\ tab' = tab /\ reloads' = reloads /\ faults' = faults
    BY <1>5 DEF Reconnect
  <2>2. \A u \in Tabs : sockOf'[u] = IF u = t THEN nextSock + 1 ELSE sockOf[u]
    BY <1>1, <2>1
  <2>3. \A o \in Ops : ~(ops[o].kind = "write" /\ tab[t][o].st = "asked")
    BY <1>1, <2>1 DEF WriteFacts
  <2>4. sockOf' \in [Tabs -> 0..MaxSocks] /\ nextSock' \in 0..MaxSocks /\ srv' \subseteq 1..MaxSocks
    BY <1>1, <2>1
  <2> QED BY <1>1, <1>3, <2>1, <2>2, <2>3, <2>4
<1>6. CASE Reload(t)
  <2>1. /\ faults' \in 0..MaxFaults /\ reloads' = 1 /\ tab' = [tab EXCEPT ![t] = [o \in Ops |-> Idle]]
        /\ sockOf' = [sockOf EXCEPT ![t] = 0] /\ nextSock' = nextSock /\ srv' = srv
    BY <1>1, <1>6 DEF Reload
  <2>2. Idle \in Cell
    BY <1>1 DEF Idle, Cell, Steps
  <2>3. \A u \in Tabs, o \in Ops :
          IF u = t THEN tab'[u][o] = Idle /\ sockOf'[u] = 0
          ELSE tab'[u][o] = tab[u][o] /\ sockOf'[u] = sockOf[u]
    BY <1>1, <2>1
  <2>4. tab' \in [Tabs -> [Ops -> Cell]] /\ sockOf' \in [Tabs -> 0..MaxSocks]
    BY <1>1, <2>1, <2>2
  <2> QED BY <1>1, <1>3, <2>1, <2>3, <2>4
<1> QED BY <1>4, <1>5, <1>6

------------------------------------------------------------------------------
(* What the server does to all operations at once: it spares the writes    *)
(* some page was authorized for.                                           *)
Swept(r, q) ==
  /\ q \in OpRecord /\ q.kind = r.kind /\ q.epoch = r.epoch /\ q.owner = r.owner
  /\ q.lease = r.lease /\ q.ups = r.ups
  /\ r.kind = "none" => q = r
  /\ \/ q.out = r.out
     \/ r.out = "pending" /\ ~Authorised(r) /\ q.out \in {"rejected", "removed"}
     \/ r.out = "pending" /\ r.kind = "checkin" /\ q.out = "removed"
     \/ r.kind = "checkout"

LEMMA EndedSwept ==
  ASSUME NEW r \in OpRecord, r.kind = "none" => r = Unused
  PROVE  /\ Swept(r, r) /\ Swept(r, RejectedBy(r, "rejected"))
         /\ ~Authorised(r) \/ r.kind = "checkin" \/ r.kind = "checkout" => Swept(r, Ended(r, "removed"))
<1>1. Swept(r, r)
  BY DEF Swept
<1>2. ASSUME NEW out \in {"rejected", "removed"},
             ~Authorised(r) \/ r.kind = "checkout" \/ (r.kind = "checkin" /\ out = "removed")
      PROVE  Swept(r, Ended(r, out))
  <2> DEFINE q == Ended(r, out)
  <2>1. /\ q \in OpRecord /\ q.kind = r.kind /\ q.epoch = r.epoch /\ q.owner = r.owner
        /\ q.lease = r.lease /\ q.ups = r.ups /\ q.out = IF r.out = "pending" THEN out ELSE r.out
    BY EndedOutcome DEF Outcomes
  <2>2. r.kind = "none" => q = r
    BY DEF Ended, Unused
  <2> HIDE DEF q
  <2>3. Swept(r, q)
    BY <1>2, <2>1, <2>2 DEF Swept
  <2> QED BY <2>3 DEF q
<1> QED BY <1>1, <1>2 DEF RejectedBy, Spared

LEMMA SweepKeeps ==
  ASSUME IInv, ops' = [o \in Ops |-> ops'[o]], \A o \in Ops : Swept(ops[o], ops'[o]),
         UNCHANGED <<count, wrote, page, holders, reloads>>,
         srv' \subseteq 1..MaxSocks, mount' \in {"off", "ro", "rw"}, deleted' \in BOOLEAN,
         epoch' \in 0..MaxEpochs, running' \in {0, epoch'}, drained' \in 0..epoch',
         drain' \in [epoch : 0..MaxEpochs, ids : SUBSET Ops], drain'.epoch <= epoch',
         faults' \in 0..MaxFaults, \A o \in Ops : DrainFacts(o)'
  PROVE  IInv'
<1>1. /\ ops \in [Ops -> OpRecord] /\ tab \in [Tabs -> [Ops -> Cell]] /\ wrote \in [Ops -> Nat]
      /\ \A o \in Ops : KindFacts(o) /\ WriteFacts(o) /\ CheckinFacts(o)
  BY DEF IInv, TypeOK, OpRecord, Cell, OpFacts
<1>2. UNCHANGED <<count, wrote, tab, sockOf, nextSock, holders, reloads>>
  BY DEF page
<1>3. ops' \in [Ops -> OpRecord]
  BY DEF Swept
<1>4. TypeOK'
  BY <1>2, <1>3 DEF IInv, TypeOK, OpRecord
<1>5. SocketFacts'
  BY <1>2 DEF IInv, SocketFacts, Knows
<1>6. \A o \in Ops : (o > count)' = (ops'[o].kind = "none")
  BY <1>2 DEF IInv, Swept
<1>7. ASSUME NEW o \in Ops PROVE OpFacts(o)'
  <2>1. Swept(ops[o], ops'[o])
    OBVIOUS
  <2>2. KindFacts(o)'
    BY <1>1, <1>2, <2>1 DEF KindFacts, Untouched, Swept
  <2>3. WriteFacts(o)'
    <3>1. CASE ops'[o].out = ops[o].out
      BY <1>1, <1>2, <2>1, <3>1 DEF WriteFacts, Swept
    <3>2. CASE ops[o].kind = "write" /\ ops'[o].out # ops[o].out
      <4>1. ops[o].out = "pending" /\ ops[o].owner = 0 /\ ops'[o].out \in {"rejected", "removed"}
        BY <1>1, <2>1, <3>2 DEF Swept, Authorised
      <4> QED BY <1>1, <1>2, <2>1, <4>1 DEF WriteFacts, Swept
    <3>3. CASE ops[o].kind # "write"
      BY <2>1, <3>3 DEF WriteFacts, Swept
    <3> QED BY <3>1, <3>2, <3>3
  <2>4. CheckinFacts(o)'
    <3>1. CASE ops'[o].out = ops[o].out
      BY <1>1, <1>2, <2>1, <3>1 DEF CheckinFacts, Alone, Swept
    <3>2. CASE ops[o].kind = "checkin" /\ ops'[o].out # ops[o].out /\ Alone
      <4>1. /\ ops[o].out = "pending" /\ ops'[o].lease = ops[o].lease /\ ops'[o].kind = "checkin"
            /\ ops'[o].out = "removed" \/ (~ops[o].lease /\ ops'[o].out = "rejected")
        BY <1>1, <2>1, <3>2 DEF Swept, Authorised
      <4> QED BY <1>1, <1>2, <3>2, <4>1 DEF CheckinFacts, Alone
    <3>3. CASE ~(ops[o].kind = "checkin" /\ Alone)
      BY <1>2, <2>1, <3>3 DEF CheckinFacts, Alone, Swept
    <3> QED BY <3>1, <3>2, <3>3
  <2> QED BY <2>2, <2>3, <2>4 DEF OpFacts
<1> QED BY <1>2, <1>4, <1>5, <1>6, <1>7 DEF IInv

LEMMA TablesSwept ==
  ASSUME IInv
  PROVE  /\ Offline(ops) = [o \in Ops |-> Offline(ops)[o]]
         /\ Revoked(ops) = [o \in Ops |-> Revoked(ops)[o]]
         /\ ops = [o \in Ops |-> ops[o]]
         /\ \A o \in Ops : /\ Swept(ops[o], ops[o]) /\ Swept(ops[o], Offline(ops)[o])
                            /\ Swept(ops[o], Revoked(ops)[o])
<1>1. ops \in [Ops -> OpRecord] /\ \A o \in Ops : KindFacts(o)
  BY DEF IInv, TypeOK, OpRecord, OpFacts
<1>2. ASSUME NEW o \in Ops
      PROVE  /\ Swept(ops[o], ops[o]) /\ Swept(ops[o], Offline(ops)[o])
             /\ Swept(ops[o], Revoked(ops)[o])
  <2> DEFINE r == ops[o]
  <2>1. r \in OpRecord /\ (r.kind = "none" => r = Unused)
    BY <1>1 DEF KindFacts, Untouched
  <2>2. Swept(r, r) /\ Swept(r, RejectedBy(r, "rejected"))
    BY <2>1, EndedSwept
  <2>3. ASSUME r.kind = "checkout"
        PROVE  Swept(r, [r EXCEPT !.out = "rejected", !.staged = "removing"])
    BY <2>1, <2>3 DEF Swept, OpRecord, Outcomes
  <2>4. Offline(ops)[o] \in {r, RejectedBy(r, "rejected")}
    BY DEF Offline
  <2>5. \/ Revoked(ops)[o] \in {r, RejectedBy(r, "rejected")}
        \/ r.kind = "checkout" /\ Revoked(ops)[o] = [r EXCEPT !.out = "rejected", !.staged = "removing"]
    BY DEF Revoked
  <2> HIDE DEF r
  <2>6. Swept(r, Offline(ops)[o]) /\ Swept(r, Revoked(ops)[o])
    BY <2>2, <2>3, <2>4, <2>5
  <2> QED BY <2>2, <2>6 DEF r
<1> QED BY <1>1, <1>2 DEF Offline, Revoked

(* Sweeping authorizes nothing.                                            *)
LEMMA SweptAuthorised ==
  ASSUME NEW r, NEW q, Swept(r, q), Authorised(q), r.kind = "write"
  PROVE  Authorised(r)
BY DEF Swept, Authorised

LEMMA MountStepKeeps ==
  ASSUME IInv,
         \/ \E s \in 1..MaxSocks : ServerLosesSocket(s)
         \/ \E m \in {"off", "ro", "rw"} : SetUserSpaces(m)
  PROVE  IInv'
<1>1. /\ srv \subseteq 1..MaxSocks /\ mount \in {"off", "ro", "rw"} /\ faults \in 0..MaxFaults
      /\ deleted \in BOOLEAN /\ epoch \in 0..MaxEpochs /\ running \in {0, epoch}
      /\ drained \in 0..epoch /\ drain \in [epoch : 0..MaxEpochs, ids : SUBSET Ops]
      /\ drain.epoch <= epoch /\ MaxFaults \in Nat /\ \A o \in Ops : DrainFacts(o)
  BY UserSpaceAssumption DEF IInv, TypeOK, OpFacts
<1>2. /\ UNCHANGED <<count, wrote, page, holders, reloads, epoch, running, drain, drained, deleted>>
      /\ srv' \subseteq 1..MaxSocks /\ mount' \in {"off", "ro", "rw"} /\ faults' \in 0..MaxFaults
      /\ ops' = ops \/ ops' = Offline(ops)
  <2>1. ASSUME NEW s \in 1..MaxSocks, ServerLosesSocket(s)
        PROVE  /\ srv' \subseteq srv /\ mount' \in {"off", mount} /\ faults' \in {faults, faults + 1}
               /\ (faults' # faults => faults < MaxFaults) /\ ops' \in {ops, Offline(ops)}
               /\ UNCHANGED <<count, wrote, page, holders, reloads, life>>
    BY <2>1 DEF ServerLosesSocket
  <2>2. ASSUME NEW m \in {"off", "ro", "rw"}, SetUserSpaces(m)
        PROVE  /\ srv' = srv /\ mount' = m /\ faults' = faults + 1 /\ faults < MaxFaults
               /\ UNCHANGED <<ops, count, wrote, page, holders, reloads, life>>
    BY <2>2 DEF SetUserSpaces
  <2>3. CASE \E s \in 1..MaxSocks : ServerLosesSocket(s)
    <3>1. /\ srv' \subseteq srv /\ mount' \in {"off", mount} /\ faults' \in {faults, faults + 1}
          /\ (faults' # faults => faults < MaxFaults) /\ ops' \in {ops, Offline(ops)}
          /\ UNCHANGED <<count, wrote, page, holders, reloads, life>>
      BY <2>1, <2>3
    <3>2. faults' \in 0..MaxFaults
      BY <1>1, <3>1
    <3>3. UNCHANGED <<count, wrote, page, holders, reloads, epoch, running, drain, drained, deleted>>
      BY <3>1 DEF life
    <3> QED BY <1>1, <3>1, <3>2, <3>3
  <2>4. CASE \E m \in {"off", "ro", "rw"} : SetUserSpaces(m)
    <3>1. /\ srv' = srv /\ mount' \in {"off", "ro", "rw"} /\ faults' = faults + 1
          /\ faults < MaxFaults /\ UNCHANGED <<ops, count, wrote, page, holders, reloads, life>>
      BY <2>2, <2>4
    <3>2. faults' \in 0..MaxFaults
      BY <1>1, <3>1
    <3>3. UNCHANGED <<count, wrote, page, holders, reloads, epoch, running, drain, drained, deleted>>
      BY <3>1 DEF life
    <3> QED BY <1>1, <3>1, <3>2, <3>3
  <2> QED BY <2>3, <2>4
<1>3. ops' = [o \in Ops |-> ops'[o]] /\ \A o \in Ops : Swept(ops[o], ops'[o])
  BY <1>2, TablesSwept
<1>4. \A o \in Ops : DrainFacts(o)'
  <2> SUFFICES ASSUME NEW o \in Ops, ops'[o].kind = "write", Authorised(ops'[o])
               PROVE  DrainFacts(o)'
    BY DEF DrainFacts
  <2>1. ops[o].kind = "write" /\ ops'[o].epoch = ops[o].epoch
    BY <1>3 DEF Swept
  <2>2. Authorised(ops[o])
    BY <1>3, <2>1, SweptAuthorised
  <2> QED BY <1>1, <1>2, <2>1, <2>2 DEF DrainFacts
<1> QED BY <1>1, <1>2, <1>3, <1>4, SweepKeeps

------------------------------------------------------------------------------
(* Runtime generations.  A revocation notes every write still authorized;  *)
(* a drain ends, and a launch is let through, only without them.           *)
LEMMA GenerationStepKeeps ==
  ASSUME IInv,
         \/ \E awaited \in BOOLEAN : Revoke(awaited)
         \/ DrainEnds \/ DrainTimesOut \/ Launch \/ Delete
  PROVE  IInv'
<1>1. /\ srv \subseteq 1..MaxSocks /\ mount \in {"off", "ro", "rw"} /\ faults \in 0..MaxFaults
      /\ deleted \in BOOLEAN /\ epoch \in 0..MaxEpochs /\ running \in {0, epoch}
      /\ drained \in 0..epoch /\ drain \in [epoch : 0..MaxEpochs, ids : SUBSET Ops]
      /\ drain.epoch <= epoch /\ MaxEpochs \in Nat
      /\ \A o \in Ops : DrainFacts(o) /\ KindFacts(o)
      /\ ops \in [Ops -> OpRecord] /\ epoch \in Nat /\ drained \in Nat /\ drain.epoch \in Nat
  BY UserSpaceAssumption DEF IInv, TypeOK, OpFacts, OpRecord
<1>2. NoDrain \in [epoch : 0..MaxEpochs, ids : SUBSET Ops] /\ NoDrain.epoch = 0
  BY <1>1 DEF NoDrain
<1>3. UNCHANGED <<count, wrote, page, holders, reloads, faults>>
  BY DEF Revoke, DrainEnds, DrainTimesOut, Launch, Delete
<1>4. ASSUME \A o \in Ops : Swept(ops[o], ops'[o])
      PROVE  \A o \in Ops : ops'[o].kind = "write" /\ Authorised(ops'[o]) =>
                /\ ops[o].kind = "write" /\ Authorised(ops[o]) /\ ops'[o].epoch = ops[o].epoch
                /\ drained <= ops'[o].epoch /\ ops'[o].epoch \in Nat
                /\ drain # NoDrain /\ ops'[o].epoch < drain.epoch => o \in drain.ids
  <2> SUFFICES ASSUME NEW o \in Ops, ops'[o].kind = "write", Authorised(ops'[o])
               PROVE  /\ ops[o].kind = "write" /\ Authorised(ops[o]) /\ ops'[o].epoch = ops[o].epoch
                      /\ drained <= ops'[o].epoch /\ ops'[o].epoch \in Nat
                      /\ drain # NoDrain /\ ops'[o].epoch < drain.epoch => o \in drain.ids
    OBVIOUS
  <2>1. ops[o].kind = "write" /\ ops'[o].epoch = ops[o].epoch
    BY <1>4 DEF Swept
  <2>2. Authorised(ops[o])
    BY <1>4, <2>1, SweptAuthorised
  <2>3. ops[o].epoch \in Nat
    BY <1>1 DEF OpRecord
  <2> QED BY <1>1, <2>1, <2>2, <2>3 DEF DrainFacts
<1>5. \A f : Draining(f) \in SUBSET Ops /\ \A o \in Ops : Authorised(f[o]) => o \in Draining(f)
  BY DEF Draining
<1>6. ASSUME NEW awaited \in BOOLEAN, Revoke(awaited) PROVE IInv'
  <2>1. /\ epoch' = epoch + 1 /\ epoch < MaxEpochs /\ running' = 0 /\ ops' = Revoked(ops)
        /\ UNCHANGED <<srv, mount, deleted, drained>>
        /\ drain' = drain \/ drain' = [epoch |-> epoch + 1, ids |-> Draining(ops')]
    BY <1>6 DEF Revoke
  <2>2. ops' = [o \in Ops |-> ops'[o]] /\ \A o \in Ops : Swept(ops[o], ops'[o])
    BY <2>1, TablesSwept
  <2>3. drain' \in [epoch : 0..MaxEpochs, ids : SUBSET Ops] /\ drain'.epoch <= epoch'
    BY <1>1, <1>5, <2>1
  <2>4. \A o \in Ops : DrainFacts(o)'
    BY <1>4, <1>5, <2>1, <2>2 DEF DrainFacts
  <2>5. epoch' \in 0..MaxEpochs /\ running' \in {0, epoch'} /\ drained' \in 0..epoch'
    BY <1>1, <2>1
  <2> QED BY <1>1, <1>3, <2>1, <2>2, <2>3, <2>4, <2>5, SweepKeeps
<1>7. CASE DrainEnds
  <2>1. /\ drain # NoDrain /\ drain.ids \intersect Draining(ops) = {}
        /\ drained' = drain.epoch /\ drain' = NoDrain
        /\ UNCHANGED <<ops, srv, mount, epoch, running, deleted>>
    BY <1>7 DEF DrainEnds
  <2>2. ops' = [o \in Ops |-> ops'[o]] /\ \A o \in Ops : Swept(ops[o], ops'[o])
    BY <2>1, TablesSwept
  <2>3. \A o \in Ops : DrainFacts(o)'
    BY <1>1, <1>4, <1>5, <2>1, <2>2 DEF DrainFacts
  <2>4. drained' \in 0..epoch' /\ drain'.epoch <= epoch'
    BY <1>1, <1>2, <2>1
  <2> QED BY <1>1, <1>2, <1>3, <2>1, <2>2, <2>3, <2>4, SweepKeeps
<1>8. CASE DrainTimesOut
  <2>1. drain' = NoDrain /\ UNCHANGED <<ops, srv, mount, epoch, running, drained, deleted>>
    BY <1>8 DEF DrainTimesOut
  <2>2. ops' = [o \in Ops |-> ops'[o]] /\ \A o \in Ops : Swept(ops[o], ops'[o])
    BY <2>1, TablesSwept
  <2>3. \A o \in Ops : DrainFacts(o)'
    BY <1>1, <1>4, <2>1, <2>2 DEF DrainFacts
  <2> QED BY <1>1, <1>2, <1>3, <2>1, <2>2, <2>3, SweepKeeps
<1>9. CASE Launch
  <2>1. /\ epoch' = epoch + 1 /\ epoch < MaxEpochs /\ ops' = Revoked(ops) /\ drain = NoDrain
        /\ running' = Issued(ops')
        /\ drained' = IF Draining(ops') = {} THEN epoch + 1 ELSE drained
        /\ UNCHANGED <<srv, mount, drain, deleted>>
    BY <1>9 DEF Launch
  <2>2. ops' = [o \in Ops |-> ops'[o]] /\ \A o \in Ops : Swept(ops[o], ops'[o])
    BY <2>1, TablesSwept
  <2>3. \A o \in Ops : DrainFacts(o)'
    BY <1>4, <1>5, <2>1, <2>2 DEF DrainFacts
  <2>4. epoch' \in 0..MaxEpochs /\ running' \in {0, epoch'} /\ drained' \in 0..epoch'
        /\ drain'.epoch <= epoch'
    BY <1>1, <2>1 DEF Issued
  <2> QED BY <1>1, <1>3, <2>1, <2>2, <2>3, <2>4, SweepKeeps
<1>10. CASE Delete
  <2>1. /\ srv' = {} /\ UNCHANGED <<epoch, running, drain, drained>>
        /\ mount' \in {"off", mount} /\ deleted' \in {deleted, TRUE}
    BY <1>10 DEF Delete
  <2>2. ops' = [o \in Ops |-> ops'[o]] /\ \A o \in Ops : Swept(ops[o], ops'[o])
    <3>1. CASE \E o \in Ops : Authorised(ops[o]) /\ ops[o].kind = "write"
      BY <1>10, <3>1, TablesSwept DEF Delete
    <3>2. CASE ~\E o \in Ops : Authorised(ops[o]) /\ ops[o].kind = "write"
      <4>1. ops' = [o \in Ops |->
                      IF ops[o].kind = "checkout" /\ ops[o].out = "ok"
                      THEN [ops[o] EXCEPT !.out = "removed", !.staged = "removing"]
                      ELSE Ended(ops[o], "removed")]
        BY <1>10, <3>2 DEF Delete
      <4>2. ASSUME NEW o \in Ops PROVE Swept(ops[o], ops'[o])
        <5> DEFINE r == ops[o]
        <5>1. r \in OpRecord /\ (r.kind = "none" => r = Unused) /\ KindFacts(o)
          BY <1>1 DEF KindFacts, Untouched
        <5>2. CASE r.kind = "checkout" /\ r.out = "ok"
          BY <4>1, <5>1, <5>2 DEF Swept, OpRecord, Outcomes
        <5>3. CASE ~(r.kind = "checkout" /\ r.out = "ok")
          <6>1. ~Authorised(r) \/ r.kind = "checkin" \/ r.kind = "checkout"
            BY <3>2, <5>1 DEF Authorised, KindFacts
          <6>2. ops'[o] = Ended(r, "removed")
            BY <4>1, <5>3
          <6> QED BY <5>1, <6>1, <6>2, EndedSwept
        <5> QED BY <5>2, <5>3
      <4> QED BY <4>1, <4>2
    <3> QED BY <3>1, <3>2
  <2>3. \A o \in Ops : DrainFacts(o)'
    BY <1>4, <2>1, <2>2 DEF DrainFacts
  <2> QED BY <1>1, <1>3, <2>1, <2>2, <2>3, SweepKeeps
<1> QED BY <1>6, <1>7, <1>8, <1>9, <1>10

------------------------------------------------------------------------------
(* The first sockets are different ones: there are as many as pages.       *)
LEMMA FirstSocksDiffer ==
  /\ FirstSocks \in [Tabs -> 1..Cardinality(Tabs)]
  /\ \A s, t \in Tabs : FirstSocks[s] = FirstSocks[t] => s = t
<1>1. ExistsBijection(1..Cardinality(Tabs), Tabs)
  BY UserSpaceAssumption, FS_CardinalityType
<1>2. ExistsBijection(Tabs, 1..Cardinality(Tabs))
  BY <1>1, Fun_ExistsBijSymmetric
<1>3. PICK f : f \in Bijection(Tabs, 1..Cardinality(Tabs))
  BY <1>2 DEF ExistsBijection
<1>4. /\ f \in [Tabs -> 1..Cardinality(Tabs)]
      /\ \A s, t \in Tabs : f[s] = f[t] => s = t
  BY <1>3 DEF Bijection, Injection, IsInjective
<1> QED BY <1>4 DEF FirstSocks

LEMMA InitIInv == Init => IInv
<1> SUFFICES ASSUME Init PROVE IInv
  OBVIOUS
<1>1. /\ MaxOps \in Nat /\ MaxEpochs \in Nat \ {0} /\ MaxFaults \in Nat /\ MaxSocks \in Nat
      /\ Cardinality(Tabs) \in Nat /\ Cardinality(Tabs) <= MaxSocks
  BY UserSpaceAssumption, FS_CardinalityType
<1>2. /\ sockOf \in [Tabs -> 1..Cardinality(Tabs)] /\ nextSock = Cardinality(Tabs)
      /\ \A s, t \in Tabs : sockOf[s] = sockOf[t] => s = t
  BY FirstSocksDiffer DEF Init
<1>3. \A o \in Ops : Untouched(o)
  BY DEF Init, Untouched
<1>4. /\ count = 0 /\ epoch = 1 /\ drain = NoDrain /\ drained = 1 /\ running = 1
      /\ holders \subseteq Tabs /\ mount = "rw" /\ deleted = FALSE /\ reloads = 0 /\ faults = 0
      /\ srv = 1..Cardinality(Tabs)
  BY DEF Init
<1>5. ops \in [Ops -> OpRecord] /\ wrote \in [Ops -> Nat] /\ tab \in [Tabs -> [Ops -> Cell]]
  <2>1. Unused \in OpRecord /\ Idle \in Cell
    BY <1>1 DEF Unused, Idle, OpRecord, Cell, Outcomes, Steps
  <2> QED BY <2>1 DEF Init
<1>6. TypeOK
  <2>1. sockOf \in [Tabs -> 0..MaxSocks] /\ nextSock \in 0..MaxSocks /\ srv \subseteq 1..MaxSocks
    BY <1>1, <1>2, <1>4
  <2>2. /\ count \in 0..MaxOps /\ epoch \in 0..MaxEpochs /\ drained \in 0..epoch
        /\ reloads \in 0..1 /\ faults \in 0..MaxFaults
    BY <1>1, <1>4
  <2>4. running \in {0, epoch} /\ deleted \in BOOLEAN /\ mount \in {"off", "ro", "rw"}
    BY <1>4
  <2>3. drain \in [epoch : 0..MaxEpochs, ids : SUBSET Ops]
    <3>1. 0 \in 0..MaxEpochs /\ {} \in SUBSET Ops
      BY <1>1
    <3> QED BY <1>4, <3>1 DEF NoDrain
  <2> QED BY <1>4, <1>5, <2>1, <2>2, <2>3, <2>4 DEF TypeOK, OpRecord, Cell
<1>7. SocketFacts
  BY <1>1, <1>2, <1>3 DEF SocketFacts, Knows, Untouched, Idle
<1>8. ASSUME NEW o \in Ops
      PROVE  (o > count) = (ops[o].kind = "none") /\ OpFacts(o)
  <2>1. o > count /\ ops[o] = Unused
    BY <1>1, <1>3, <1>4 DEF Untouched, Ops
  <2>2. KindFacts(o) /\ DrainFacts(o) /\ WriteFacts(o) /\ CheckinFacts(o)
    BY <1>3, <2>1 DEF KindFacts, DrainFacts, WriteFacts, CheckinFacts, Unused
  <2> QED BY <2>1, <2>2 DEF OpFacts, Unused
<1> QED BY <1>1, <1>4, <1>6, <1>7, <1>8 DEF IInv, NoDrain

LEMMA NextIInv == IInv /\ [Next]_vars => IInv'
<1> SUFFICES ASSUME IInv, [Next]_vars PROVE IInv'
  OBVIOUS
<1>1. CASE RequestRead \/ RequestWrite \/ RequestCheckout \/ RequestCheckin
  BY <1>1, NewKeeps DEF RequestRead, RequestWrite, RequestCheckout, RequestCheckin, Kinds
<1>2. ASSUME NEW o \in Ops, ServerStep(o) PROVE IInv'
  BY <1>2, ServerStepKeeps
<1>3. ASSUME NEW o \in Ops, NEW t \in Tabs, PageStep(t, o) PROVE IInv'
  <2>1. CASE PerformRead(t, o) \/ AnswerRead(t, o)
    BY <2>1, ReadStepKeeps
  <2>2. CASE \/ AskAuthorization(t, o) \/ Authorise(t, o) \/ StartWrite(t, o)
             \/ PerformWrite(t, o) \/ AnswerWrite(t, o)
    BY <2>2, WriteStepKeeps
  <2>3. CASE BeginUpload(t, o) \/ FinishUpload(t, o) \/ CompleteCheckout(t, o)
    BY <2>3, CheckoutStepKeeps
  <2>4. CASE \/ Download(t, o) \/ Commit(t, o) \/ Recheck(t, o) \/ CloseFile(t, o)
             \/ CompleteCheckin(t, o)
    BY <2>4, CheckinStepKeeps
  <2> QED BY <1>3, <2>1, <2>2, <2>3, <2>4 DEF PageStep
<1>4. ASSUME NEW t \in Tabs, PageLosesSocket(t) \/ Reconnect(t) \/ Reload(t) PROVE IInv'
  BY <1>4, SocketStepKeeps
<1>5. CASE \/ \E s \in 1..MaxSocks : ServerLosesSocket(s)
           \/ \E m \in {"off", "ro", "rw"} : SetUserSpaces(m)
  BY <1>5, MountStepKeeps
<1>6. CASE \/ \E awaited \in BOOLEAN : Revoke(awaited)
           \/ DrainEnds \/ DrainTimesOut \/ Launch \/ Delete
  BY <1>6, GenerationStepKeeps
<1>7. CASE UNCHANGED vars
  <2>1. /\ UNCHANGED <<ops, count, wrote, tab, sockOf, nextSock, srv, mount, holders, epoch,
                       running, drain, drained, deleted, reloads, faults>>
    BY <1>7 DEF vars, page, life
  <2>2. TypeOK' /\ SocketFacts'
    BY <2>1 DEF IInv, TypeOK, SocketFacts, Knows
  <2>3. \A o \in Ops : OpFacts(o)'
    BY <2>1, Frame DEF IInv
  <2> QED BY <2>1, <2>2, <2>3 DEF IInv
<1> QED BY <1>1, <1>2, <1>3, <1>4, <1>5, <1>6, <1>7 DEF Next

------------------------------------------------------------------------------
(* The inductive invariant holds of every state of the specification.      *)
THEOREM UserSpaceInvariant == Spec => []IInv
<1> QED BY InitIInv, NextIInv, PTL DEF Spec

(* Fields of the broker and of the pages.                                  *)
THEOREM UserSpaceTypes == Spec => []TypeOK
<1>1. IInv => TypeOK
  BY DEF IInv
<1> QED BY <1>1, UserSpaceInvariant, PTL

(* Two pages never execute the same write.                                 *)
LEMMA OneExecutes ==
  ASSUME IInv, NEW o \in Ops, Mutation(o), NEW t \in Tabs, MayWrite(t, o)
  PROVE  /\ tab[t][o].st = "executing" /\ Authorised(ops[o]) /\ wrote[o] = 0
         /\ \A u \in Tabs : MayWrite(u, o) => u = t
<1>1. WriteFacts(o) /\ SocketFacts /\ wrote[o] \in Nat /\ ops[o].owner \in 0..MaxSocks
  BY DEF IInv, OpFacts, TypeOK
<1>2. ASSUME NEW u \in Tabs, MayWrite(u, o)
      PROVE  /\ tab[u][o].st = "executing" /\ tab[u][o].sock = ops[o].owner
             /\ ops[o].owner # 0 /\ ops[o].out = "pending" /\ wrote[o] <= 1 /\ wrote[o] # 1
  BY <1>1, <1>2 DEF WriteFacts, MayWrite, Mutation
<1>3. \A u \in Tabs : MayWrite(u, o) => Knows(u, ops[o].owner)
  BY <1>2 DEF Knows
<1> QED BY <1>1, <1>2, <1>3 DEF SocketFacts, Authorised

(* What the server declares failed was never written and never will be,    *)
(* and what it reports as done was written: from the grant to the answer   *)
(* of the page that holds it, every other end spares the write.            *)
THEOREM OutcomesTruthful == Spec => []Truthful
<1>1. IInv => Truthful
  <2> SUFFICES ASSUME IInv, NEW o \in Ops, Mutation(o)
               PROVE  /\ ops[o].out \in {"rejected", "removed"} =>
                            wrote[o] = 0 /\ \A t \in Tabs : ~MayWrite(t, o)
                      /\ ops[o].out = "ok" => wrote[o] = 1
    BY DEF Truthful
  <2>1. WriteFacts(o) /\ ops[o].kind = "write"
    BY DEF IInv, OpFacts, Mutation
  <2> QED BY <2>1 DEF WriteFacts, MayWrite
<1> QED BY <1>1, UserSpaceInvariant, PTL

(* However many pages receive a write and however often it is replayed to  *)
(* them, one of them at most performs it.                                  *)
THEOREM WrittenAtMostOnce == Spec => []AtMostOnce
<1>1. IInv => AtMostOnce
  <2> SUFFICES ASSUME IInv, NEW o \in Ops, Mutation(o)
               PROVE  wrote[o] + Cardinality({t \in Tabs : MayWrite(t, o)}) <= 1
    BY DEF AtMostOnce
  <2> DEFINE M == {t \in Tabs : MayWrite(t, o)}
  <2>1. wrote[o] \in Nat /\ wrote[o] <= 1
    BY DEF IInv, OpFacts, TypeOK, WriteFacts, Mutation
  <2>2. CASE M = {}
    <3>1. Cardinality(M) = 0
      BY <2>2, FS_EmptySet
    <3> QED BY <2>1, <3>1
  <2>3. CASE M # {}
    <3>1. PICK t \in Tabs : MayWrite(t, o)
      BY <2>3
    <3>2. M = {t} /\ wrote[o] = 0
      BY <3>1, OneExecutes
    <3>3. Cardinality(M) = 1
      BY <3>2, FS_Singleton
    <3> QED BY <3>2, <3>3
  <2> QED BY <2>2, <2>3
<1> QED BY <1>1, UserSpaceInvariant, PTL

(* Once a stop was reported complete, or the next child has its            *)
(* capability, no page is inside a write of an older generation.           *)
THEOREM GenerationsFenced == Spec => []Fenced
<1>1. IInv => Fenced
  <2> SUFFICES ASSUME IInv, NEW o \in Ops, NEW t \in Tabs, Mutation(o), MayWrite(t, o),
                      ops[o].epoch < drained
               PROVE  FALSE
    BY DEF Fenced
  <2>1. Authorised(ops[o])
    BY OneExecutes
  <2>2. drained <= ops[o].epoch
    BY <2>1 DEF IInv, OpFacts, DrainFacts, Mutation
  <2>3. ops[o].epoch \in Int /\ drained \in Int
    BY DEF IInv, TypeOK
  <2> QED BY <2>2, <2>3
<1> QED BY <1>1, UserSpaceInvariant, PTL

(* While one page alone holds the folder and was never reloaded, a         *)
(* check-in reported as failed was not written and never will be, unless   *)
(* its session was removed after it had been given the commit lease.       *)
THEOREM CheckinsTruthful == Spec => []CheckinTruthful
<1>1. IInv => CheckinTruthful
  <2> SUFFICES ASSUME IInv, Alone, NEW o \in Ops, ops[o].kind = "checkin",
                      ops[o].out \in {"failed", "rejected", "removed"},
                      ~(ops[o].out = "removed" /\ ops[o].lease)
               PROVE  wrote[o] = 0 /\ \A t \in Tabs : ~MayWrite(t, o)
    BY DEF CheckinTruthful, Alone
  <2>1. CheckinFacts(o) /\ wrote[o] \in Nat
    BY DEF IInv, OpFacts, TypeOK
  <2> QED BY <2>1 DEF CheckinFacts, MayWrite
<1> QED BY <1>1, UserSpaceInvariant, PTL
================================================================================
