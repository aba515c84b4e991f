----------------------- MODULE MessageDeliveryProofs -----------------------
(***************************************************************************)
(* Proofs about MessageDelivery, for any number of prompts, generations,   *)
(* dropped connections, rejections and crashes.                            *)
(***************************************************************************)
EXTENDS MessageDelivery, SequenceTheorems, TLAPS

(* session.json holds what the server has in memory. *)
Saved == disk = [queue |-> queue, processed |-> processed]

(* What waits in the offline queue has been accepted before. *)
QueueFacts ==
  /\ IsInjective(queue)
  /\ \A m \in ToSet(queue) : m \in processed \/ m \in injected

(* A pending call carries its own prompt, which is neither queued nor      *)
(* recorded yet; the flusher's call carries the head of the queue.         *)
CallFacts ==
  /\ \A m \in Messages : rpc[m].st # "idle" =>
       /\ rpc[m].m = m /\ m \notin ToSet(queue) /\ m \notin processed
       /\ m \in Prompts \/ m \in injected
  /\ rpc[Flusher].st # "idle" => queue # <<>> /\ rpc[Flusher].m = Head(queue)

(* The flusher has handed over m, as far as it knows. *)
HandedOver(m) == rpc[Flusher].m = m /\ rpc[Flusher].st \in {"taken", "ok", "lost"}

(* A prompt that may still be sent has run at most once per crash. *)
Sendable(m) ==
  \/ m \in ToSet(queue) /\ ~HandedOver(m)
  \/ rpc[m].st \in {"sent", "error"}
  \/ m \in Prompts /\ m \notin processed /\ rpc[m].st = "idle"
  \/ m \in Injections /\ m \notin injected

RunFacts ==
  \A m \in Messages :
    /\ ran[m] <= 1 + crashes
    /\ Sendable(m) => ran[m] <= crashes

(* A call that Pi took, or answered with success, has run. *)
TakenFacts == \A s \in Senders : rpc[s].st \in {"taken", "ok"} => ran[rpc[s].m] > 0

Acks == {"agent_message", "agent_message_accepted"}

(* The browser is told, and acknowledges, only what is recorded. *)
FrameFacts ==
  /\ \A i \in 1..Len(down) : down[i].type \in Acks => down[i].m \in processed
  /\ \A m \in acked : m \in processed \/ m \in injected

Held(m) == m \in ToSet(disk.queue) \/ ran[m] > 0 \/ m \in unknown

HeldFacts == \A m \in Messages : m \in processed \/ m \in acked => Held(m)

IInv ==
  /\ TypeOK /\ Saved /\ QueueFacts /\ CallFacts /\ RunFacts /\ TakenFacts
  /\ FrameFacts /\ HeldFacts

-----------------------------------------------------------------------------
(* Sequences and the sets of their elements. *)

(* Appending adds one element; a sequence without repetitions stays one if *)
(* the element is new (enqueueAgentMessage, the unacknowledged map).       *)
LEMMA AppendFacts ==
  ASSUME NEW S, NEW s \in Seq(S), NEW x \in S
  PROVE  /\ Append(s, x) \in Seq(S)
         /\ ToSet(Append(s, x)) = ToSet(s) \cup {x}
         /\ x \notin ToSet(s) /\ IsInjective(s) => IsInjective(Append(s, x))
         /\ Append(s, x) # <<>> /\ (s # <<>> => Head(Append(s, x)) = Head(s))
BY AppendProperties DEF ToSet, IsInjective

(* The head and the tail make up the sequence, disjointly if nothing       *)
(* repeats (offlineQueue.shift).                                           *)
LEMMA TailFacts ==
  ASSUME NEW S, NEW s \in Seq(S), s # <<>>
  PROVE  /\ Head(s) \in S /\ Tail(s) \in Seq(S)
         /\ Head(s) \in ToSet(s)
         /\ ToSet(s) = ToSet(Tail(s)) \cup {Head(s)}
         /\ IsInjective(s) => IsInjective(Tail(s)) /\ Head(s) \notin ToSet(Tail(s))
<1> DEFINE t == Tail(s)
<1>1. /\ Head(s) \in S /\ t \in Seq(S)
      /\ Len(s) \in Nat \ {0} /\ Len(t) = Len(s) - 1
      /\ \A j \in 1..Len(t) : t[j] = s[j + 1]
      /\ Head(s) = s[1]
  BY HeadTailProperties
<1>2. DOMAIN t = 1..Len(t) /\ DOMAIN s = 1..Len(s)
  BY <1>1
<1> HIDE DEF t
<1>3. ToSet(t) \subseteq ToSet(s) /\ Head(s) \in ToSet(s)
  BY <1>1, <1>2 DEF ToSet
<1>4. ASSUME NEW x \in ToSet(s), x # Head(s) PROVE x \in ToSet(t)
  <2>1. PICK j \in 1..Len(s) : s[j] = x
    BY <1>2, <1>4 DEF ToSet
  <2>2. j - 1 \in 1..Len(t) /\ t[j - 1] = s[j]
    BY <1>1, <1>4, <2>1
  <2> QED BY <1>2, <2>1, <2>2 DEF ToSet
<1>5. IsInjective(s) => IsInjective(t) /\ Head(s) \notin ToSet(t)
  BY <1>1, <1>2 DEF IsInjective, ToSet
<1> QED BY <1>1, <1>3, <1>4, <1>5 DEF t

(* Deleting a key from a map in insertion order. *)
LEMMA RemoveAtFacts ==
  ASSUME NEW S, NEW s \in Seq(S), NEW i \in 1..Len(s), IsInjective(s)
  PROVE  /\ RemoveAt(s, i) \in Seq(S)
         /\ IsInjective(RemoveAt(s, i))
         /\ ToSet(RemoveAt(s, i)) = ToSet(s) \ {s[i]}
<1> DEFINE r == RemoveAt(s, i)
<1>1. /\ r \in Seq(S) /\ Len(r) = Len(s) - 1
      /\ \A j \in 1..Len(r) : r[j] = IF j < i THEN s[j] ELSE s[j + 1]
  <2>1. /\ SubSeq(s, 1, i - 1) \in Seq(S)
        /\ Len(SubSeq(s, 1, i - 1)) = i - 1
        /\ \A j \in 1..(i - 1) : SubSeq(s, 1, i - 1)[j] = s[j]
    BY SubSeqProperties
  <2>2. /\ SubSeq(s, i + 1, Len(s)) \in Seq(S)
        /\ Len(SubSeq(s, i + 1, Len(s))) = Len(s) - i
        /\ \A j \in 1..(Len(s) - i) : SubSeq(s, i + 1, Len(s))[j] = s[i + j]
    <3>1. \A j \in (i + 1)..Len(s) : s[j] \in S
      OBVIOUS
    <3>2. i + 1 \in Int /\ Len(s) \in Int
      OBVIOUS
    <3> QED BY <3>1, <3>2, SubSeqProperties
  <2> DEFINE a == SubSeq(s, 1, i - 1)
             b == SubSeq(s, i + 1, Len(s))
  <2>3. /\ a \o b \in Seq(S) /\ Len(a \o b) = Len(a) + Len(b)
        /\ \A j \in 1..Len(a) + Len(b) : (a \o b)[j] =
             IF j <= Len(a) THEN a[j] ELSE b[j - Len(a)]
    BY <2>1, <2>2, ConcatProperties
  <2>4. r = a \o b
    BY DEF RemoveAt
  <2> HIDE DEF a, b, r
  <2>5. Len(a) = i - 1 /\ Len(b) = Len(s) - i
    BY <2>1, <2>2 DEF a, b
  <2>6. ASSUME NEW j \in 1..Len(r) PROVE r[j] = IF j < i THEN s[j] ELSE s[j + 1]
    <3>1. CASE j < i
      BY <3>1, <2>1, <2>3, <2>4, <2>5 DEF a
    <3>2. CASE j >= i
      <4>1. r[j] = b[j - (i - 1)] /\ j - (i - 1) \in 1..(Len(s) - i)
        BY <3>2, <2>3, <2>4, <2>5
      <4>2. b[j - (i - 1)] = s[i + (j - (i - 1))]
        BY <4>1, <2>2 DEF b
      <4>3. i + (j - (i - 1)) = j + 1 /\ ~(j < i)
        BY <3>2, <2>3, <2>4, <2>5
      <4> QED BY <4>1, <4>2, <4>3
    <3> QED BY <3>1, <3>2
  <2>7. r \in Seq(S) /\ Len(r) = Len(s) - 1
    BY <2>3, <2>4, <2>5
  <2> QED BY <2>6, <2>7
<1> HIDE DEF r
<1>2. DOMAIN r = 1..Len(r) /\ DOMAIN s = 1..Len(s)
  BY <1>1, LenProperties
<1>3. IsInjective(r)
  <2> SUFFICES ASSUME NEW a \in 1..Len(r), NEW b \in 1..Len(r), r[a] = r[b]
               PROVE  a = b
    BY <1>2 DEF IsInjective
  <2>1. \A j, k \in 1..Len(s) : s[j] = s[k] => j = k
    BY <1>2 DEF IsInjective
  <2> QED BY <1>1, <2>1
<1>4. ToSet(r) = ToSet(s) \ {s[i]}
  <2>1. ASSUME NEW x \in ToSet(r) PROVE x \in ToSet(s) \ {s[i]}
    BY <2>1, <1>1, <1>2 DEF ToSet, IsInjective
  <2>2. ASSUME NEW x \in ToSet(s), x # s[i] PROVE x \in ToSet(r)
    <3>1. PICK j \in 1..Len(s) : s[j] = x
      BY <2>2, <1>2 DEF ToSet
    <3>2. CASE j < i
      BY <3>1, <3>2, <1>1, <1>2 DEF ToSet
    <3>3. CASE j > i
      <4>1. j - 1 \in 1..Len(r) /\ r[j - 1] = s[j]
        BY <3>3, <1>1
      <4> QED BY <4>1, <3>1, <1>2 DEF ToSet
    <3> QED BY <2>2, <3>1, <3>2, <3>3
  <2> QED BY <2>1, <2>2
<1> QED BY <1>1, <1>3, <1>4 DEF r

-----------------------------------------------------------------------------
(* Calls and broadcasts. *)

(* A call whose state alone changes keeps its prompt (a settled or taken   *)
(* transport.prompt()).                                                    *)
LEMMA CallMoves ==
  ASSUME rpc \in [Senders -> Calls], NEW s \in Senders, NEW x \in Settled \cup {"taken"},
         rpc' = [rpc EXCEPT ![s].st = x]
  PROVE  /\ rpc' \in [Senders -> Calls]
         /\ rpc'[s].st = x
         /\ \A t \in Senders : rpc'[t].m = rpc[t].m /\ (t # s => rpc'[t].st = rpc[t].st)
<1>1. rpc[s] \in Calls
  OBVIOUS
<1>2. [rpc[s] EXCEPT !.st = x] \in Calls
  BY <1>1 DEF Calls
<1>3. [rpc[s] EXCEPT !.st = x].st = x /\ [rpc[s] EXCEPT !.st = x].m = rpc[s].m
  BY <1>1 DEF Calls
<1>4. rpc' = [rpc EXCEPT ![s] = [rpc[s] EXCEPT !.st = x]]
  OBVIOUS
<1> QED BY <1>2, <1>3, <1>4

(* A sender starts a call or returns from one. *)
LEMMA CallSet ==
  ASSUME TypeOK, NEW s \in Senders, NEW m \in Messages,
         rpc' = [rpc EXCEPT ![s] = Sent(m)] \/ rpc' = [rpc EXCEPT ![s] = Idle]
  PROVE  /\ rpc' \in [Senders -> Calls]
         /\ \A t \in Senders : t # s => rpc'[t] = rpc[t]
         /\ rpc' = [rpc EXCEPT ![s] = Sent(m)] => rpc'[s].st = "sent" /\ rpc'[s].m = m
         /\ rpc' = [rpc EXCEPT ![s] = Idle] => rpc'[s].st = "idle" /\ rpc'[s].m = Flusher
<1>1. rpc \in [Senders -> Calls] /\ adapter \in Nat
  BY DEF TypeOK, ServerType
<1>2. Idle \in Calls /\ Sent(m) \in Calls
  BY <1>1 DEF Calls, Idle, Sent, Senders
<1>3. Idle.st = "idle" /\ Idle.m = Flusher /\ Sent(m).st = "sent" /\ Sent(m).m = m
  BY DEF Idle, Sent
<1> QED BY <1>1, <1>2, <1>3

(* What the browser, the socket and the adapter do leaves the server's     *)
(* record of prompts alone.                                                *)
LEMMA ServerUntouched ==
  ASSUME IInv, UNCHANGED <<queue, processed, disk, rpc, ran, injected, crashes>>
  PROVE  Saved' /\ QueueFacts' /\ CallFacts' /\ RunFacts' /\ TakenFacts'
BY DEF IInv, Saved, QueueFacts, CallFacts, RunFacts, Sendable, HandedOver, TakenFacts

(* Calls that move on without a new prompt being taken: from sent to an    *)
(* error or to lost, from taken to success or to lost.                     *)
LEMMA CallsMoveOn ==
  ASSUME IInv, UNCHANGED <<queue, processed, disk, ran, injected, crashes>>,
         \A t \in Senders : /\ rpc'[t].m = rpc[t].m
                            /\ \/ rpc'[t].st = rpc[t].st
                               \/ rpc[t].st = "sent" /\ rpc'[t].st \in {"error", "lost"}
                               \/ rpc[t].st = "taken" /\ rpc'[t].st \in {"ok", "lost"}
  PROVE  Saved' /\ QueueFacts' /\ CallFacts' /\ RunFacts' /\ TakenFacts'
<1> USE DEF Messages, Senders
<1>1. Saved' /\ QueueFacts' /\ CallFacts' /\ TakenFacts'
  BY DEF IInv, Saved, QueueFacts, CallFacts, TakenFacts
<1>2. ASSUME NEW m \in Messages, Sendable(m)' PROVE Sendable(m)
  BY <1>2 DEF Sendable, HandedOver
<1>3. RunFacts'
  BY <1>2 DEF IInv, RunFacts
<1> QED BY <1>1, <1>3

(* Every open socket gets the frames, in order (broadcastToSession). *)
LEMMA BroadcastFacts ==
  ASSUME down \in Seq(DownFrames), NEW fs \in Seq(DownFrames), Broadcast(fs)
  PROVE  /\ down' \in Seq(DownFrames)
         /\ \A i \in 1..Len(down') : \/ i \in 1..Len(down) /\ down'[i] = down[i]
                                     \/ \E j \in 1..Len(fs) : down'[i] = fs[j]
<1>1. CASE down' = down
  BY <1>1
<1>2. CASE down' = down \o fs
  <2>1. /\ down' \in Seq(DownFrames) /\ Len(down') = Len(down) + Len(fs)
        /\ \A i \in 1..Len(down) + Len(fs) :
             down'[i] = IF i <= Len(down) THEN down[i] ELSE fs[i - Len(down)]
    BY <1>2, ConcatProperties
  <2>2. ASSUME NEW i \in 1..Len(down'), i > Len(down)
        PROVE  i - Len(down) \in 1..Len(fs) /\ down'[i] = fs[i - Len(down)]
    BY <2>1, <2>2
  <2>3. ASSUME NEW i \in 1..Len(down'), i <= Len(down)
        PROVE  i \in 1..Len(down) /\ down'[i] = down[i]
    BY <2>1, <2>3
  <2>4. \A i \in 1..Len(down') : i <= Len(down) \/ i > Len(down)
    BY <2>1
  <2> QED BY <2>1, <2>2, <2>3, <2>4
<1> QED BY <1>1, <1>2 DEF Broadcast

(* Acceptance of a prompt is published and acknowledged. *)
LEMMA PublishFacts ==
  ASSUME down \in Seq(DownFrames), gen \in Nat, NEW m \in Messages, NEW q,
         RememberAndPublish(m, q)
  PROVE  /\ down' \in Seq(DownFrames)
         /\ \A i \in 1..Len(down') : \/ i \in 1..Len(down) /\ down'[i] = down[i]
                                     \/ down'[i].m = m
<1> DEFINE a == PublishAcceptedAgentMessage(m)
           b == AcceptedFrame(m)
<1>1. a \in DownFrames /\ b \in DownFrames /\ a.m = m /\ b.m = m
  BY DEF PublishAcceptedAgentMessage, AcceptedFrame, DownFrames, Senders
<1>2. Broadcast(<<a, b>>)
  BY DEF RememberAndPublish
<1> HIDE DEF a, b
<1>3. /\ <<a, b>> \in Seq(DownFrames)
      /\ \A j \in 1..Len(<<a, b>>) : <<a, b>>[j] = a \/ <<a, b>>[j] = b
  BY <1>1
<1> QED BY <1>1, <1>2, <1>3, BroadcastFacts

-----------------------------------------------------------------------------
(* The invariant holds initially. *)

(* It holds in the state of a new session (restoreSession of nothing). *)
LEMMA InitIInv == Init => IInv
<1> SUFFICES ASSUME Init PROVE IInv
  OBVIOUS
<1> USE DeliveryAssumption DEF Init
<1>0. MaxCrashes \in Nat
  BY DEF Init
<1>1. TypeOK
  <2>1. BrowserType
    BY DEF BrowserType, IsInjective, ToSet
  <2>2. SocketType
    BY DEF SocketType
  <2>3. FlagType
    BY DEF FlagType
  <2>4. rpc \in [Senders -> Calls]
    BY DEF Calls, Settled, Idle, Senders
  <2>5. disk \in [queue : Seq(Messages), processed : SUBSET Prompts]
    OBVIOUS
  <2>6. ServerType
    BY <2>4, <2>5 DEF ServerType
  <2>7. OutcomeType
    BY <1>0 DEF OutcomeType
  <2> QED BY <2>1, <2>2, <2>3, <2>6, <2>7 DEF TypeOK
<1>2. Saved /\ QueueFacts /\ CallFacts
  BY DEF Saved, QueueFacts, CallFacts, Messages, Senders, Idle, IsInjective, ToSet
<1>3. RunFacts /\ TakenFacts /\ FrameFacts /\ HeldFacts
  BY DEF RunFacts, TakenFacts, FrameFacts, HeldFacts, Messages, Senders, Idle
<1> QED BY <1>1, <1>2, <1>3 DEF IInv

-----------------------------------------------------------------------------
(* Each action preserves the invariant. *)

(* sendToSession remembers a prompt that is neither acknowledged nor       *)
(* remembered yet.                                                         *)
LEMMA SendToSessionStep ==
  ASSUME IInv, NEW m \in Prompts, SendToSession(m) PROVE IInv'
<1> USE DeliveryAssumption DEF IInv, SendToSession, piVars, storeVars
<1>1. BrowserType'
  BY AppendFacts DEF TypeOK, BrowserType
<1>2. SocketType' /\ FlagType'
  BY DEF TypeOK, BrowserType, SocketType, FlagType, UpFrames
<1>3. ServerType' /\ OutcomeType'
  BY DEF TypeOK, ServerType, OutcomeType
<1>4. FrameFacts' /\ HeldFacts'
  BY DEF FrameFacts, HeldFacts, Held
<1> QED BY <1>1, <1>2, <1>3, <1>4, ServerUntouched DEF TypeOK

(* handleBrowserOpen announces the session, and a close loses both         *)
(* directions: neither tells the browser of a prompt.                      *)
LEMMA SocketStep ==
  ASSUME IInv, HandleBrowserOpen \/ HandleBrowserClose PROVE IInv'
<1> USE DEF IInv, HandleBrowserOpen, HandleBrowserClose, browserVars, piVars,
            storeVars
<1>1. BrowserType' /\ ServerType'
  BY DEF TypeOK, BrowserType, ServerType
<1>2. SocketType'
  <2>1. CASE HandleBrowserOpen
    BY <2>1 DEF TypeOK, SocketType, ServerType, DownFrames, Senders
  <2>2. CASE HandleBrowserClose
    BY <2>2 DEF SocketType
  <2> QED BY <2>1, <2>2
<1>3. FlagType'
  BY DEF TypeOK, FlagType
<1>4. OutcomeType'
  BY DeliveryAssumption DEF TypeOK, OutcomeType
<1>5. FrameFacts' /\ HeldFacts'
  BY DEF FrameFacts, HeldFacts, Held, Acks
<1> QED BY <1>1, <1>2, <1>3, <1>4, <1>5, ServerUntouched DEF TypeOK

(* attachPiAdapter saves what is in memory and announces the generation.   *)
LEMMA AttachStep ==
  ASSUME IInv, AttachPiAdapter PROVE IInv'
<1> DEFINE frame == [type |-> "session_init", m |-> Flusher, gen |-> gen + 1]
<1> USE DEF IInv, AttachPiAdapter, browserVars
<1>1. frame \in DownFrames /\ frame.type \notin Acks /\ gen + 1 \in Nat /\ down \in Seq(DownFrames)
  BY DEF TypeOK, ServerType, SocketType, DownFrames, Senders, Acks
<1>2. frame.type = "session_init" /\ Broadcast(<<frame>>)
  OBVIOUS
<1> HIDE DEF frame
<1>3. /\ down' \in Seq(DownFrames)
      /\ \A i \in 1..Len(down') : \/ i \in 1..Len(down) /\ down'[i] = down[i]
                                  \/ down'[i] = frame
  <2>1. <<frame>> \in Seq(DownFrames) /\ \A j \in 1..Len(<<frame>>) : <<frame>>[j] = frame
    BY <1>1
  <2> QED BY <1>1, <1>2, <2>1, BroadcastFacts
<1>4. BrowserType' /\ OutcomeType'
  BY DEF TypeOK, BrowserType, OutcomeType
<1>5. SocketType'
  BY <1>3 DEF TypeOK, SocketType
<1>6. FlagType'
  BY DEF TypeOK, FlagType
<1>7. ServerType'
  BY <1>1 DEF TypeOK, ServerType
<1>8. UNCHANGED <<queue, processed, disk, rpc, ran, injected, crashes>>
  BY DEF Saved
<1>9. FrameFacts'
  BY <1>1, <1>3, <1>8 DEF FrameFacts
<1>10. HeldFacts'
  BY <1>8 DEF HeldFacts, Held
<1> QED BY <1>4, <1>5, <1>6, <1>7, <1>8, <1>9, <1>10, ServerUntouched DEF TypeOK

(* detachPiAdapter. *)
LEMMA DetachStep ==
  ASSUME IInv, DetachPiAdapter PROVE IInv'
<1> USE DEF IInv, DetachPiAdapter, browserVars, socketVars, storeVars
<1>1. BrowserType' /\ SocketType' /\ ServerType' /\ OutcomeType'
  BY DEF TypeOK, BrowserType, SocketType, ServerType, OutcomeType
<1>2. FlagType'
  BY DEF TypeOK, FlagType
<1>3. FrameFacts' /\ HeldFacts'
  BY DEF FrameFacts, HeldFacts, Held
<1> QED BY <1>1, <1>2, <1>3, ServerUntouched DEF TypeOK

(* The end of a transport settles every pending call as lost. *)
LEMMA TransportClosesStep ==
  ASSUME IInv, TransportCloses PROVE IInv'
<1> USE DEF IInv, TransportCloses, browserVars, socketVars, storeVars
<1>1. rpc \in [Senders -> Calls]
  BY DEF TypeOK, ServerType
<1>2. ASSUME NEW t \in Senders
      PROVE  /\ rpc'[t] \in Calls /\ rpc'[t].m = rpc[t].m
             /\ rpc'[t].st = IF Pending(t) THEN "lost" ELSE rpc[t].st
  <2>1. rpc[t] \in Calls
    BY <1>1
  <2> QED BY <2>1 DEF Calls, Settled
<1>3. rpc' \in [Senders -> Calls]
  BY <1>2
<1>4. BrowserType' /\ SocketType' /\ OutcomeType'
  BY DEF TypeOK, BrowserType, SocketType, OutcomeType
<1>5. FlagType'
  BY DEF TypeOK, FlagType
<1>6. ServerType'
  BY <1>3 DEF TypeOK, ServerType
<1>7. Saved' /\ QueueFacts' /\ CallFacts' /\ RunFacts' /\ TakenFacts'
  BY <1>2, CallsMoveOn DEF Pending
<1>8. FrameFacts' /\ HeldFacts'
  BY DEF FrameFacts, HeldFacts, Held
<1> QED BY <1>4, <1>5, <1>6, <1>7, <1>8 DEF TypeOK

(* An answer, an error and a timeout settle one call. *)
LEMMA OneCallSettlesStep ==
  ASSUME IInv, NEW s \in Senders, AnswerRead(s) \/ PiRejects(s) \/ PromptTimesOut(s)
  PROVE  IInv'
<1> USE DEF IInv, AnswerRead, PiRejects, PromptTimesOut, Pending, browserVars,
            socketVars, piVars, storeVars
<1>1. rpc \in [Senders -> Calls]
  BY DEF TypeOK, ServerType
<1>2. PICK x \in Settled :
        /\ rpc' = [rpc EXCEPT ![s].st = x]
        /\ \/ rpc[s].st = "taken" /\ x = "ok"
           \/ rpc[s].st = "sent" /\ x = "error"
           \/ rpc[s].st \in {"sent", "taken"} /\ x = "lost"
  BY DEF Settled
<1>3. /\ rpc' \in [Senders -> Calls] /\ rpc'[s].st = x
      /\ \A t \in Senders : rpc'[t].m = rpc[t].m /\ (t # s => rpc'[t].st = rpc[t].st)
  BY <1>1, <1>2, CallMoves
<1>4. BrowserType' /\ SocketType'
  BY DEF TypeOK, BrowserType, SocketType
<1>5. FlagType'
  BY DEF TypeOK, FlagType
<1>6. ServerType'
  BY <1>3 DEF TypeOK, ServerType
<1>7. UNCHANGED <<queue, processed, disk, ran, injected, crashes>>
  OBVIOUS
<1>8. Saved' /\ QueueFacts' /\ CallFacts' /\ RunFacts' /\ TakenFacts'
  <2>1. ASSUME NEW t \in Senders
        PROVE  /\ rpc'[t].m = rpc[t].m
               /\ \/ rpc'[t].st = rpc[t].st
                  \/ rpc[t].st = "sent" /\ rpc'[t].st \in {"error", "lost"}
                  \/ rpc[t].st = "taken" /\ rpc'[t].st \in {"ok", "lost"}
    BY <1>2, <1>3
  <2> QED BY <2>1, <1>7, CallsMoveOn
<1>9. FrameFacts' /\ HeldFacts'
  BY DEF FrameFacts, HeldFacts, Held
<1>10. OutcomeType'
  BY DeliveryAssumption DEF TypeOK, OutcomeType
<1> QED BY <1>4, <1>5, <1>6, <1>8, <1>9, <1>10 DEF TypeOK

(* Pi takes a prompt: it was still to be sent, so this run is at most the  *)
(* one beyond those the crashes account for.                               *)
LEMMA PiAcceptsStep ==
  ASSUME IInv, NEW s \in Senders, PiAccepts(s) PROVE IInv'
<1> USE DeliveryAssumption
    DEF IInv, PiAccepts, Messages, browserVars, socketVars, piVars, storeVars
<1>1. rpc \in [Senders -> Calls] /\ queue \in Seq(Messages) /\ ran \in [Messages -> Nat]
      /\ crashes \in Nat
  BY DEF TypeOK, ServerType, OutcomeType
<1>2. /\ rpc' \in [Senders -> Calls] /\ rpc'[s].st = "taken"
      /\ \A t \in Senders : rpc'[t].m = rpc[t].m /\ (t # s => rpc'[t].st = rpc[t].st)
  BY <1>1, CallMoves
<1>3. PICK m \in Messages :
        /\ m = rpc[s].m
        /\ s \in Messages => m = s
        /\ s = Flusher => m \in ToSet(queue)
  BY <1>1, TailFacts DEF CallFacts, Senders
<1>4. Sendable(m)
  BY <1>3 DEF Sendable, HandedOver, Senders
<1>5. ran' \in [Messages -> Nat] /\ ran'[m] = ran[m] + 1
      /\ \A n \in Messages : n # m => ran'[n] = ran[n]
  BY <1>1, <1>3
<1>6. BrowserType' /\ SocketType' /\ ServerType'
  BY <1>2 DEF TypeOK, BrowserType, SocketType, ServerType
<1>7. FlagType'
  BY DEF TypeOK, FlagType
<1>8. OutcomeType'
  BY <1>5 DEF TypeOK, OutcomeType
<1>9. Saved' /\ QueueFacts' /\ FrameFacts'
  BY DEF Saved, QueueFacts, FrameFacts
<1>10. CallFacts'
  BY <1>2 DEF CallFacts, Senders
<1>11. ~Sendable(m)'
  <2>1. CASE s = Flusher
    BY <2>1, <1>1, <1>2, <1>3 DEF Sendable, HandedOver, CallFacts, QueueFacts, Senders,
       TypeOK, BrowserType, ServerType
  <2>2. CASE s \in Messages
    BY <2>2, <1>2, <1>3 DEF Sendable, CallFacts, Senders
  <2> QED BY <2>1, <2>2 DEF Senders
<1>12. ASSUME NEW n \in Messages, n # m, Sendable(n)' PROVE Sendable(n)
  BY <1>2, <1>3, <1>12 DEF Sendable, HandedOver, Senders
<1>13. RunFacts'
  BY <1>1, <1>3, <1>4, <1>5, <1>11, <1>12 DEF RunFacts
<1>14. TakenFacts'
  BY <1>1, <1>2, <1>3, <1>5 DEF TakenFacts, CallFacts, Senders
<1>15. HeldFacts'
  BY <1>1, <1>5 DEF HeldFacts, Held
<1> QED BY <1>6, <1>7, <1>8, <1>9, <1>10, <1>13, <1>14, <1>15 DEF TypeOK

(* A crash drops calls and frames; what was saved equals what was lost.    *)
LEMMA CrashStep ==
  ASSUME IInv, Crash PROVE IInv'
<1> USE DeliveryAssumption DEF IInv, Crash, browserVars
<1>1. queue' = queue /\ processed' = processed
  BY DEF Saved
<1>2. /\ rpc' \in [Senders -> Calls]
      /\ \A s \in Senders : rpc'[s].st = "idle" /\ rpc'[s].m = Flusher
  BY DEF Idle, Calls, Senders
<1>3. BrowserType' /\ SocketType'
  BY DEF TypeOK, BrowserType, SocketType
<1>4. FlagType'
  BY DEF TypeOK, FlagType
<1>5. ServerType'
  BY <1>1, <1>2 DEF TypeOK, ServerType
<1>6. OutcomeType'
  BY DEF TypeOK, OutcomeType
<1>7. Saved' /\ QueueFacts'
  BY <1>1 DEF Saved, QueueFacts
<1>8. CallFacts' /\ TakenFacts'
  BY <1>2 DEF CallFacts, TakenFacts, Messages, Senders
<1>9. RunFacts'
  BY DEF RunFacts, TypeOK, OutcomeType
<1>10. FrameFacts'
  <2>1. Len(down') = 0
    OBVIOUS
  <2> QED BY <1>1, <2>1 DEF FrameFacts
<1>11. HeldFacts'
  BY <1>1 DEF HeldFacts, Held
<1> QED BY <1>3, <1>4, <1>5, <1>6, <1>7, <1>8, <1>9, <1>10, <1>11 DEF TypeOK

(* flushOfflineQueue sends the head and leaves it in the queue. *)
LEMMA FlushOfflineQueueStep ==
  ASSUME IInv, FlushOfflineQueue PROVE IInv'
<1> USE DeliveryAssumption
    DEF IInv, FlushOfflineQueue, browserVars, socketVars, piVars, storeVars
<1>1. Head(queue) \in Messages
  BY TailFacts DEF TypeOK, ServerType
<1>2. /\ rpc' \in [Senders -> Calls]
      /\ \A t \in Messages : rpc'[t] = rpc[t]
      /\ rpc'[Flusher].st = "sent" /\ rpc'[Flusher].m = Head(queue)
  BY <1>1, CallSet DEF Senders, Messages
<1>3. BrowserType' /\ SocketType' /\ ServerType' /\ OutcomeType'
  BY <1>2 DEF TypeOK, BrowserType, SocketType, ServerType, OutcomeType
<1>4. FlagType'
  BY DEF TypeOK, FlagType
<1>5. Saved' /\ QueueFacts' /\ FrameFacts' /\ HeldFacts'
  BY DEF Saved, QueueFacts, FrameFacts, HeldFacts, Held
<1>6. CallFacts' /\ TakenFacts'
  BY <1>2 DEF CallFacts, TakenFacts, Senders
<1>7. RunFacts'
  BY <1>2 DEF RunFacts, Sendable, HandedOver
<1> QED BY <1>3, <1>4, <1>5, <1>6, <1>7 DEF TypeOK

(* The flush resumes: on any outcome but an error the head leaves the      *)
(* queue, having run or being announced as unknown.                        *)
LEMMA FlushSettlesStep ==
  ASSUME IInv, FlushSettles PROVE IInv'
<1> USE DeliveryAssumption DEF IInv, browserVars, socketVars, piVars, Messages
<1>1. /\ rpc \in [Senders -> Calls] /\ queue \in Seq(Messages) /\ ran \in [Messages -> Nat]
      /\ crashes \in Nat
  BY DEF TypeOK, ServerType, OutcomeType
<1>2. /\ rpc[Flusher].st \in Settled
      /\ \/ rpc' = [rpc EXCEPT ![Flusher] = Sent(rpc[Flusher].m)]
         \/ rpc' = [rpc EXCEPT ![Flusher] = Idle]
      /\ UNCHANGED <<browserVars, socketVars, piVars, ran, refused, crashes>>
  BY DEF FlushSettles
<1>3. PICK m \in Messages : m = rpc[Flusher].m /\ queue # <<>> /\ m = Head(queue)
  BY <1>1, <1>2, TailFacts DEF CallFacts, Settled
<1>4. /\ rpc' \in [Senders -> Calls]
      /\ \A t \in Messages : rpc'[t] = rpc[t]
      /\ \/ rpc'[Flusher].st = "sent" /\ rpc'[Flusher].m = m
         \/ rpc'[Flusher].st = "idle" /\ rpc'[Flusher].m = Flusher
      /\ rpc' = [rpc EXCEPT ![Flusher] = Idle] => rpc'[Flusher].st = "idle"
  BY <1>2, <1>3, CallSet DEF Senders
<1>5. FlagType'
  BY <1>2 DEF TypeOK, FlagType
<1>6. BrowserType' /\ SocketType'
  BY <1>2 DEF TypeOK, BrowserType, SocketType
<1>7. CASE rpc[Flusher].st = "error"
  <2>1. UNCHANGED <<storeVars, unknown>>
    BY <1>7 DEF FlushSettles
  <2> USE <2>1, <1>2, <1>4 DEF storeVars
  <2>2. ServerType' /\ OutcomeType'
    BY DEF TypeOK, ServerType, OutcomeType
  <2>3. Saved' /\ QueueFacts' /\ FrameFacts' /\ HeldFacts'
    BY DEF Saved, QueueFacts, FrameFacts, HeldFacts, Held
  <2>4. CallFacts' /\ TakenFacts'
    BY <1>3 DEF CallFacts, TakenFacts, Senders
  <2>5. RunFacts'
    BY <1>7 DEF RunFacts, Sendable, HandedOver
  <2> QED BY <1>5, <1>6, <2>2, <2>3, <2>4, <2>5 DEF TypeOK
<1>8. CASE rpc[Flusher].st \in {"ok", "lost"}
  <2>1. /\ rpc' = [rpc EXCEPT ![Flusher] = Idle]
        /\ queue' = Tail(queue) /\ processed' = processed
        /\ disk' = [queue |-> Tail(queue), processed |-> processed]
        /\ unknown' = IF rpc[Flusher].st = "lost" THEN unknown \cup {m} ELSE unknown
    BY <1>3, <1>8 DEF FlushSettles, Persist
  <2>2. /\ queue' \in Seq(Messages) /\ IsInjective(queue')
        /\ ToSet(queue) = ToSet(queue') \cup {m} /\ m \notin ToSet(queue')
    BY <2>1, <1>1, <1>3, TailFacts DEF QueueFacts
  <2>3. rpc[Flusher].st = "ok" => ran[m] > 0
    BY <1>3 DEF TakenFacts, Senders
  <2>4. disk' \in [queue : Seq(Messages), processed : SUBSET Prompts]
    BY <2>1, <2>2 DEF TypeOK, ServerType
  <2>5. ServerType' /\ OutcomeType'
    BY <1>2, <1>3, <1>4, <2>1, <2>2, <2>4 DEF TypeOK, ServerType, OutcomeType
  <2>6. Saved' /\ QueueFacts' /\ FrameFacts'
    BY <1>2, <2>1, <2>2 DEF Saved, QueueFacts, FrameFacts
  <2>7. CallFacts' /\ TakenFacts'
    BY <1>2, <1>4, <2>1, <2>2 DEF CallFacts, TakenFacts, Senders
  <2>8. ASSUME NEW n \in Messages, Sendable(n)' PROVE Sendable(n)
    BY <1>2, <1>3, <1>4, <2>1, <2>2, <2>8 DEF Sendable, HandedOver
  <2>9. RunFacts'
    BY <1>2, <2>8 DEF RunFacts
  <2>10. disk.queue = queue /\ disk'.queue = queue'
    BY <2>1 DEF Saved
  <2>11. HeldFacts'
    BY <1>2, <1>8, <2>1, <2>2, <2>3, <2>10 DEF HeldFacts, Held
  <2> QED BY <1>5, <1>6, <2>5, <2>6, <2>7, <2>9, <2>11 DEF TypeOK
<1> QED BY <1>2, <1>7, <1>8 DEF Settled

(* injectUserMessage: a fresh prompt is sent, queued or refused. *)
LEMMA InjectUserMessageStep ==
  ASSUME IInv, NEW m \in Injections, InjectUserMessage(m) PROVE IInv'
<1> USE DeliveryAssumption DEF IInv, socketVars, piVars, Messages
<1>1. /\ rpc \in [Senders -> Calls] /\ queue \in Seq(Messages) /\ ran \in [Messages -> Nat]
      /\ crashes \in Nat /\ m \notin Prompts /\ m \notin processed /\ m \notin injected
  BY DEF TypeOK, ServerType, OutcomeType, InjectUserMessage
<1>2. m \notin ToSet(queue) /\ rpc[m].st = "idle"
  BY <1>1 DEF QueueFacts, CallFacts
<1>3. /\ injected' = injected \cup {m}
      /\ UNCHANGED <<unacked, bgen, socketVars, piVars, ran, unknown, crashes>>
  BY DEF InjectUserMessage
<1>4. FlagType'
  BY <1>3 DEF TypeOK, FlagType
<1>5. SocketType'
  BY <1>3 DEF TypeOK, SocketType
<1>6. acked' = acked \/ acked' = acked \cup {m}
  BY DEF InjectUserMessage
<1>7. BrowserType'
  <2>1. m \notin ToSet(unacked)
    BY <1>1 DEF TypeOK, BrowserType, ToSet
  <2> QED BY <1>3, <1>6, <2>1 DEF TypeOK, BrowserType
<1>8. refused' \subseteq Messages
  BY DEF InjectUserMessage, TypeOK, OutcomeType
<1>9. OutcomeType'
  BY <1>3, <1>8 DEF TypeOK, OutcomeType
<1>10. Sendable(m)
  BY <1>1 DEF Sendable
<1>11. CASE Connected
  <2>1. rpc' = [rpc EXCEPT ![m] = Sent(m)] /\ UNCHANGED <<acked, storeVars>>
    BY <1>11 DEF InjectUserMessage
  <2>2. /\ rpc' \in [Senders -> Calls] /\ rpc'[m].st = "sent" /\ rpc'[m].m = m
        /\ \A t \in Senders : t # m => rpc'[t] = rpc[t]
    BY <2>1, CallSet DEF Senders
  <2> USE <1>3, <2>1, <2>2 DEF storeVars
  <2>3. ServerType'
    BY DEF TypeOK, ServerType
  <2>4. Saved' /\ QueueFacts' /\ FrameFacts' /\ HeldFacts'
    BY DEF Saved, QueueFacts, FrameFacts, HeldFacts, Held
  <2>5. CallFacts' /\ TakenFacts'
    BY <1>1, <1>2 DEF CallFacts, TakenFacts, Senders
  <2>6. ASSUME NEW n \in Messages, Sendable(n)' PROVE Sendable(n)
    BY <1>1, <1>10, <2>6 DEF Sendable, HandedOver, Senders
  <2>7. RunFacts'
    BY <2>6 DEF RunFacts
  <2> QED BY <1>4, <1>5, <1>7, <1>9, <2>3, <2>4, <2>5, <2>7 DEF TypeOK
<1>12. CASE ~Connected /\ Len(queue) < QueueLimit
  <2>1. /\ rpc' = rpc /\ acked' = acked \cup {m} /\ processed' = processed
        /\ queue' = Append(queue, m)
        /\ disk' = [queue |-> queue', processed |-> processed]
    <3>1. ~(Len(queue) >= QueueLimit)
      BY <1>1, <1>12
    <3>2. Enqueued(m) = Append(queue, m)
      BY <1>2 DEF Enqueued
    <3>3. Persist(Append(queue, m), processed) /\ acked' = acked \cup {m} /\ rpc' = rpc
      BY <1>12, <3>1, <3>2 DEF InjectUserMessage
    <3> QED BY <3>3 DEF Persist
  <2>2. /\ queue' \in Seq(Messages) /\ IsInjective(queue') /\ queue' # <<>>
        /\ ToSet(queue') = ToSet(queue) \cup {m}
        /\ queue # <<>> => Head(queue') = Head(queue)
    BY <1>1, <1>2, <2>1, AppendFacts DEF QueueFacts
  <2> USE <1>3, <2>1, <2>2
  <2>3. disk' \in [queue : Seq(Messages), processed : SUBSET Prompts]
    BY DEF TypeOK, ServerType
  <2>4. ServerType'
    BY <2>3 DEF TypeOK, ServerType
  <2>5. Saved' /\ QueueFacts' /\ FrameFacts'
    BY DEF Saved, QueueFacts, FrameFacts
  <2>6. CallFacts' /\ TakenFacts'
    BY <1>2 DEF CallFacts, TakenFacts, Senders
  <2>7. ASSUME NEW n \in Messages, Sendable(n)' PROVE Sendable(n)
    BY <1>10, <2>7 DEF Sendable, HandedOver
  <2>8. RunFacts'
    BY <2>7 DEF RunFacts
  <2>9. disk.queue = queue /\ disk'.queue = queue'
    BY DEF Saved
  <2>10. HeldFacts'
    BY <2>9 DEF HeldFacts, Held
  <2> QED BY <1>4, <1>5, <1>7, <1>9, <2>4, <2>5, <2>6, <2>8, <2>10 DEF TypeOK
<1>13. CASE ~Connected /\ Len(queue) >= QueueLimit
  <2>1. UNCHANGED <<rpc, acked, storeVars>>
    BY <1>13, <1>1 DEF InjectUserMessage
  <2> USE <1>3, <2>1 DEF storeVars
  <2>2. ServerType'
    BY DEF TypeOK, ServerType
  <2>3. Saved' /\ QueueFacts' /\ FrameFacts' /\ HeldFacts' /\ TakenFacts'
    BY DEF Saved, QueueFacts, FrameFacts, HeldFacts, Held, TakenFacts
  <2>4. CallFacts'
    BY DEF CallFacts
  <2>5. RunFacts'
    BY DEF RunFacts, Sendable, HandedOver
  <2> QED BY <1>4, <1>5, <1>7, <1>9, <2>2, <2>3, <2>4, <2>5 DEF TypeOK
<1> QED BY <1>1, <1>11, <1>12, <1>13

(* acceptAgentMessage resumes for an injected prompt. *)
LEMMA InjectionSettlesStep ==
  ASSUME IInv, NEW m \in Injections, InjectionSettles(m) PROVE IInv'
<1> USE DeliveryAssumption
    DEF IInv, InjectionSettles, socketVars, piVars, storeVars, Messages
<1>1. /\ rpc \in [Senders -> Calls] /\ m \notin Prompts /\ m \notin processed
      /\ rpc[m].st \in {"ok", "error", "lost"}
  BY DEF TypeOK, ServerType, Settled
<1>2. m \in injected /\ m \notin ToSet(queue) /\ rpc[m].m = m
  BY <1>1 DEF CallFacts
<1>3. /\ rpc' \in [Senders -> Calls] /\ rpc'[m].st = "idle"
      /\ \A t \in Senders : t # m => rpc'[t] = rpc[t]
  BY CallSet DEF Senders
<1>4. rpc[m].st = "ok" => ran[m] > 0
  BY <1>2 DEF TakenFacts, Senders
<1>5. BrowserType'
  <2>1. m \notin ToSet(unacked)
    BY <1>1 DEF TypeOK, BrowserType, ToSet
  <2>2. acked' \subseteq acked \cup {m}
    OBVIOUS
  <2> QED BY <2>1, <2>2 DEF TypeOK, BrowserType
<1>6. SocketType' /\ ServerType' /\ OutcomeType'
  BY <1>3 DEF TypeOK, SocketType, ServerType, OutcomeType
<1>7. FlagType'
  BY DEF TypeOK, FlagType
<1>8. Saved' /\ QueueFacts'
  BY DEF Saved, QueueFacts
<1>9. CallFacts' /\ TakenFacts'
  BY <1>1, <1>3 DEF CallFacts, TakenFacts, Senders
<1>10. RunFacts'
  BY <1>1, <1>2, <1>3 DEF RunFacts, Sendable, HandedOver, Senders
<1>11. FrameFacts'
  <2>1. acked' \subseteq acked \cup {m}
    OBVIOUS
  <2> QED BY <2>1, <1>2 DEF FrameFacts
<1>12. HeldFacts'
  BY <1>1, <1>4 DEF HeldFacts, Held
<1> QED BY <1>5, <1>6, <1>7, <1>8, <1>9, <1>10, <1>11, <1>12 DEF TypeOK

(* The browser adopts a generation and resends, or acknowledges a prompt   *)
(* the server has recorded.                                                *)
LEMMA HandleServerMessageStep ==
  ASSUME IInv, HandleServerMessage PROVE IInv'
<1> USE DEF IInv
<1>1. /\ down \in Seq(DownFrames) /\ up \in Seq(UpFrames) /\ unacked \in Seq(Prompts)
      /\ IsInjective(unacked)
  BY DEF TypeOK, SocketType, BrowserType
<1> DEFINE handled == /\ ReceiveInit(Head(down)) \/ ReceiveAcceptance(Head(down))
                      /\ down' = Tail(down) /\ UNCHANGED conn
<1>2. /\ down # <<>>
      /\ UNCHANGED <<piVars, storeVars, rpc, ran, unknown, refused, crashes>>
      /\ handled \/ ReceiveClose(Head(down))
  BY DEF HandleServerMessage
<1>3. PICK f \in DownFrames :
        /\ f = Head(down)
        /\ f.type \in Acks => f.m \in processed
  <2>1. Head(down) \in DownFrames /\ Head(down) = down[1] /\ 1 \in 1..Len(down)
    BY <1>1, <1>2
  <2> QED BY <2>1 DEF FrameFacts
<1>4. /\ down' \in Seq(DownFrames)
      /\ \A i \in 1..Len(down') : i + 1 \in 1..Len(down) /\ down'[i] = down[i + 1]
  <2>1. CASE down' = Tail(down)
    BY <1>1, <1>2, <2>1
  <2>2. CASE down' = <<>>
    BY <2>2
  <2> QED BY <1>2, <2>1, <2>2 DEF ReceiveClose
<1>5. injected' = injected
  BY <1>2, <1>3 DEF ReceiveInit, ReceiveAcceptance, ReceiveClose, Acknowledge, browserVars
<1>6. FlagType'
  BY <1>2 DEF TypeOK, FlagType, ReceiveClose, piVars
<1>7. ServerType' /\ OutcomeType'
  BY <1>2 DEF TypeOK, ServerType, OutcomeType, piVars, storeVars
<1>8. Saved' /\ QueueFacts' /\ CallFacts' /\ RunFacts' /\ TakenFacts'
  BY <1>2, <1>5, ServerUntouched DEF storeVars
<1>9. CASE UNCHANGED <<unacked, acked>> /\ bgen' \in Nat /\ up' \in Seq(UpFrames)
  <2>1. BrowserType' /\ SocketType'
    BY <1>4, <1>5, <1>9 DEF TypeOK, BrowserType, SocketType
  <2>2. FrameFacts' /\ HeldFacts'
    BY <1>2, <1>4, <1>5, <1>9 DEF FrameFacts, HeldFacts, Held, storeVars
  <2> QED BY <1>6, <1>7, <1>8, <2>1, <2>2 DEF TypeOK
<1>10. CASE ReceiveInit(f)
  <2> DEFINE again == [i \in 1..Len(unacked) |-> [m |-> unacked[i], gen |-> f.gen]]
  <2>1. f.gen \in Nat
    BY DEF DownFrames
  <2>2. again \in Seq(UpFrames)
    BY <1>1, <2>1 DEF UpFrames
  <2>3. up' = up \o again /\ bgen' = f.gen /\ UNCHANGED <<unacked, acked>>
    BY <1>10 DEF ReceiveInit
  <2> HIDE DEF again
  <2> QED BY <1>1, <1>9, <2>1, <2>2, <2>3, ConcatProperties
<1>11. CASE ReceiveAcceptance(f)
  <2>1. f.type \in Acks /\ up' = up /\ f.gen \in Nat
    BY <1>11 DEF ReceiveAcceptance, DownFrames, Acks
  <2>2. CASE UNCHANGED browserVars
    BY <1>1, <1>9, <2>1, <2>2 DEF browserVars, TypeOK, BrowserType
  <2>3. CASE bgen' = f.gen /\ f.m \notin ToSet(unacked) /\ UNCHANGED <<unacked, acked>>
    BY <1>1, <1>9, <2>1, <2>3
  <2>4. CASE /\ bgen' = f.gen /\ acked' = acked \cup {f.m}
             /\ \E i \in 1..Len(unacked) : unacked[i] = f.m /\ unacked' = RemoveAt(unacked, i)
    <3>1. /\ unacked' \in Seq(Prompts) /\ IsInjective(unacked')
          /\ ToSet(unacked') = ToSet(unacked) \ {f.m}
      BY <1>1, <2>4, RemoveAtFacts
    <3>2. f.m \in processed /\ f.m \in Messages
      BY <1>3, <2>1 DEF TypeOK, ServerType, Messages
    <3>3. BrowserType' /\ SocketType'
      BY <1>1, <1>4, <1>5, <2>1, <2>4, <3>1, <3>2 DEF TypeOK, BrowserType, SocketType
    <3>4. FrameFacts' /\ HeldFacts'
      BY <1>2, <1>4, <1>5, <2>4, <3>2 DEF FrameFacts, HeldFacts, Held, storeVars
    <3> QED BY <1>6, <1>7, <1>8, <3>3, <3>4 DEF TypeOK
  <2> QED BY <1>11, <2>2, <2>3, <2>4 DEF ReceiveAcceptance, Acknowledge
<1>12. CASE ReceiveClose(f)
  <2>1. UNCHANGED <<unacked, acked, bgen>> /\ up' = <<>>
    BY <1>12 DEF ReceiveClose, browserVars
  <2> QED BY <1>9, <2>1 DEF TypeOK, BrowserType
<1> QED BY <1>2, <1>3, <1>10, <1>11, <1>12

(* A prompt call starts for a prompt that is not recorded: first try, or   *)
(* again on a replacement adapter after an error.                          *)
LEMMA CallStarts ==
  ASSUME IInv, NEW m \in Prompts, m \notin processed, rpc[m].st \in {"idle", "error"},
         rpc' = [rpc EXCEPT ![m] = Sent(m)],
         UNCHANGED <<storeVars, ran, injected, crashes>>
  PROVE  /\ rpc' \in [Senders -> Calls]
         /\ Saved' /\ QueueFacts' /\ CallFacts' /\ RunFacts' /\ TakenFacts'
<1> USE DeliveryAssumption DEF IInv, storeVars, Messages
<1>1. m \notin ToSet(queue) /\ m \notin Injections
  BY DEF QueueFacts, TypeOK, BrowserType
<1>2. /\ rpc' \in [Senders -> Calls] /\ rpc'[m].st = "sent" /\ rpc'[m].m = m
      /\ \A t \in Senders : t # m => rpc'[t] = rpc[t]
  BY CallSet DEF Senders
<1>3. Saved' /\ QueueFacts'
  BY DEF Saved, QueueFacts
<1>4. CallFacts' /\ TakenFacts'
  BY <1>1, <1>2 DEF CallFacts, TakenFacts, Senders
<1>5. Sendable(m)
  BY DEF Sendable
<1>6. ASSUME NEW n \in Messages, Sendable(n)' PROVE Sendable(n)
  BY <1>2, <1>5, <1>6 DEF Sendable, HandedOver, Senders
<1>7. RunFacts'
  BY <1>6 DEF RunFacts
<1> QED BY <1>2, <1>3, <1>4, <1>7

(* The prompt goes to the offline queue, or is refused with an error when  *)
(* the queue is full; no call for it remains.                              *)
LEMMA PromptQueued ==
  ASSUME IInv, NEW m \in Prompts, m \notin processed, rpc[m].st \in {"idle", "error"},
         AcceptQueued(m), rpc' \in [Senders -> Calls], rpc'[m].st = "idle",
         \A t \in Senders : t # m => rpc'[t] = rpc[t],
         UNCHANGED <<ran, injected, acked, unknown, crashes>>
  PROVE  /\ down' \in Seq(DownFrames)
         /\ queue' \in Seq(Messages) /\ processed' \subseteq Prompts
         /\ disk' \in [queue : Seq(Messages), processed : SUBSET Prompts]
         /\ refused' \subseteq Messages
         /\ Saved' /\ QueueFacts' /\ CallFacts' /\ RunFacts' /\ TakenFacts'
         /\ FrameFacts' /\ HeldFacts'
<1> USE DeliveryAssumption DEF IInv, Messages
<1>1. /\ queue \in Seq(Messages) /\ processed \subseteq Prompts /\ gen \in Nat
      /\ disk \in [queue : Seq(Messages), processed : SUBSET Prompts]
      /\ down \in Seq(DownFrames) /\ refused \subseteq Messages
  BY DEF TypeOK, ServerType, SocketType, OutcomeType
<1>2. m \notin ToSet(queue) /\ m \notin Injections
  BY DEF QueueFacts, TypeOK, BrowserType
<1>3. Sendable(m)
  BY DEF Sendable
<1>4. CASE RememberAndPublish(m, Enqueued(m)) /\ UNCHANGED refused
  <2>1. Enqueued(m) = Append(queue, m)
    BY <1>2 DEF Enqueued
  <2>2. /\ queue' = Append(queue, m) /\ processed' = processed \cup {m}
        /\ disk' = [queue |-> queue', processed |-> processed']
    BY <1>4, <2>1 DEF RememberAndPublish, Persist
  <2>3. /\ queue' \in Seq(Messages) /\ IsInjective(queue') /\ queue' # <<>>
        /\ ToSet(queue') = ToSet(queue) \cup {m}
        /\ queue # <<>> => Head(queue') = Head(queue)
    BY <1>1, <1>2, <2>2, AppendFacts DEF QueueFacts
  <2>4. disk' \in [queue : Seq(Messages), processed : SUBSET Prompts]
    BY <1>1, <2>2, <2>3
  <2>5. /\ down' \in Seq(DownFrames)
        /\ \A i \in 1..Len(down') : \/ i \in 1..Len(down) /\ down'[i] = down[i]
                                    \/ down'[i].m = m
    BY <1>1, <1>4, PublishFacts
  <2>6. Saved' /\ QueueFacts'
    BY <2>2, <2>3 DEF Saved, QueueFacts
  <2>7. CallFacts' /\ TakenFacts'
    BY <1>2, <2>2, <2>3 DEF CallFacts, TakenFacts, Senders
  <2>8. ASSUME NEW n \in Messages, Sendable(n)' PROVE Sendable(n)
    BY <1>3, <2>2, <2>3, <2>8 DEF Sendable, HandedOver, Senders
  <2>9. RunFacts'
    BY <2>8 DEF RunFacts
  <2>10. FrameFacts'
    BY <2>2, <2>5 DEF FrameFacts
  <2>11. disk.queue = queue /\ disk'.queue = queue'
    BY <2>2 DEF Saved
  <2>12. HeldFacts'
    BY <2>2, <2>3, <2>11 DEF HeldFacts, Held
  <2> QED BY <1>1, <1>4, <2>2, <2>3, <2>4, <2>5, <2>6, <2>7, <2>9, <2>10, <2>12
<1>5. CASE refused' = refused \cup {m} /\ UNCHANGED <<storeVars, down>>
  <2> USE <1>5 DEF storeVars
  <2>1. Saved' /\ QueueFacts' /\ FrameFacts' /\ HeldFacts'
    BY DEF Saved, QueueFacts, FrameFacts, HeldFacts, Held
  <2>2. CallFacts' /\ TakenFacts'
    BY DEF CallFacts, TakenFacts, Senders
  <2>3. ASSUME NEW n \in Messages, Sendable(n)' PROVE Sendable(n)
    BY <1>3, <2>3 DEF Sendable, HandedOver, Senders
  <2>4. RunFacts'
    BY <2>3 DEF RunFacts
  <2> QED BY <1>1, <2>1, <2>2, <2>4
<1> QED BY <1>4, <1>5 DEF AcceptQueued

(* A frame of the browser: dropped, ignored, acknowledged again, sent to   *)
(* Pi, queued or refused.                                                  *)
LEMMA HandleBrowserMessageStep ==
  ASSUME IInv, HandleBrowserMessage PROVE IInv'
<1> USE DEF IInv
<1>1. /\ up # <<>>
      /\ UNCHANGED <<browserVars, conn, piVars, ran, unknown, crashes>>
  BY DEF HandleBrowserMessage
<1>2. PICK f \in UpFrames :
        \/ IngestDrops(f) /\ UNCHANGED <<storeVars, rpc, refused>>
        \/ /\ RouteStale(f) \/ RouteDuplicate(f) \/ AcceptBrowserAgentMessage(f)
           /\ up' = Tail(up)
  BY <1>1, TailFacts DEF HandleBrowserMessage, TypeOK, SocketType
<1>3. /\ f.m \in Prompts /\ f.m \in Messages
      /\ rpc \in [Senders -> Calls] /\ down \in Seq(DownFrames) /\ gen \in Nat
  BY DEF UpFrames, Messages, TypeOK, ServerType, SocketType
<1>4. up' \in Seq(UpFrames)
  <2>1. CASE up' = Tail(up)
    BY <1>1, <2>1, TailFacts DEF TypeOK, SocketType
  <2>2. CASE up' = <<>>
    BY <2>2
  <2> QED BY <1>2, <2>1, <2>2 DEF IngestDrops
<1>5. BrowserType'
  BY <1>1 DEF browserVars, TypeOK, BrowserType
<1>6. FlagType'
  BY <1>1 DEF TypeOK, FlagType, piVars
<1>7. CASE UNCHANGED <<storeVars, rpc, refused>> /\ down' \in Seq(DownFrames) /\ FrameFacts'
  <2>1. Saved' /\ QueueFacts' /\ CallFacts' /\ RunFacts' /\ TakenFacts'
    BY <1>1, <1>7, ServerUntouched DEF browserVars, storeVars
  <2>2. SocketType' /\ ServerType' /\ OutcomeType'
    BY <1>1, <1>4, <1>7
       DEF TypeOK, SocketType, ServerType, OutcomeType, piVars, storeVars
  <2>3. HeldFacts'
    BY <1>1, <1>7 DEF HeldFacts, Held, browserVars, storeVars
  <2> QED BY <1>5, <1>6, <1>7, <2>1, <2>2, <2>3 DEF TypeOK
<1>8. ASSUME UNCHANGED <<storeVars, down>> PROVE FrameFacts'
  BY <1>1, <1>8 DEF FrameFacts, storeVars, browserVars
<1>9. CASE RouteStale(f)
  BY <1>3, <1>7, <1>8, <1>9 DEF RouteStale
<1>10. CASE RouteDuplicate(f)
  <2> DEFINE frame == AcceptedFrame(f.m)
  <2>1. frame \in DownFrames /\ frame.m = f.m
    BY <1>3 DEF AcceptedFrame, DownFrames, Senders
  <2>2. f.m \in processed /\ Broadcast(<<frame>>) /\ UNCHANGED <<storeVars, rpc, refused>>
    BY <1>10 DEF RouteDuplicate
  <2> HIDE DEF frame
  <2>3. <<frame>> \in Seq(DownFrames) /\ \A j \in 1..Len(<<frame>>) : <<frame>>[j] = frame
    BY <2>1
  <2>4. /\ down' \in Seq(DownFrames)
        /\ \A i \in 1..Len(down') : \/ i \in 1..Len(down) /\ down'[i] = down[i]
                                    \/ down'[i] = frame
    BY <1>3, <2>2, <2>3, BroadcastFacts
  <2>5. FrameFacts'
    BY <1>1, <2>1, <2>2, <2>4 DEF FrameFacts, storeVars, browserVars
  <2> QED BY <1>7, <2>2, <2>4, <2>5
<1>11. CASE AcceptBrowserAgentMessage(f)
  <2>1. f.m \notin processed
    BY <1>11 DEF AcceptBrowserAgentMessage
  <2>2. CASE UNCHANGED <<down, storeVars, rpc, refused>>
    BY <1>3, <1>7, <1>8, <2>2
  <2>3. CASE /\ rpc[f.m].st = "idle" /\ rpc' = [rpc EXCEPT ![f.m] = Sent(f.m)]
             /\ UNCHANGED <<down, storeVars, refused>>
    <3>1. /\ rpc' \in [Senders -> Calls]
          /\ Saved' /\ QueueFacts' /\ CallFacts' /\ RunFacts' /\ TakenFacts'
      BY <1>1, <1>3, <2>1, <2>3, CallStarts DEF browserVars
    <3>2. SocketType' /\ ServerType' /\ OutcomeType'
      BY <1>1, <1>4, <2>3, <3>1
         DEF TypeOK, SocketType, ServerType, OutcomeType, piVars, storeVars
    <3>3. HeldFacts'
      BY <1>1, <2>3 DEF HeldFacts, Held, browserVars, storeVars
    <3> QED BY <1>5, <1>6, <1>8, <2>3, <3>1, <3>2, <3>3 DEF TypeOK
  <2>4. CASE rpc[f.m].st = "idle" /\ AcceptQueued(f.m) /\ UNCHANGED rpc
    <3>1. /\ down' \in Seq(DownFrames) /\ refused' \subseteq Messages
          /\ queue' \in Seq(Messages) /\ processed' \subseteq Prompts
          /\ disk' \in [queue : Seq(Messages), processed : SUBSET Prompts]
          /\ Saved' /\ QueueFacts' /\ CallFacts' /\ RunFacts' /\ TakenFacts'
          /\ FrameFacts' /\ HeldFacts'
      BY <1>1, <1>3, <2>1, <2>4, PromptQueued DEF browserVars
    <3>2. SocketType' /\ ServerType' /\ OutcomeType'
      BY <1>1, <1>4, <2>4, <3>1
         DEF TypeOK, SocketType, ServerType, OutcomeType, piVars
    <3> QED BY <1>5, <1>6, <3>1, <3>2 DEF TypeOK
  <2> QED BY <1>11, <2>2, <2>3, <2>4 DEF AcceptBrowserAgentMessage
<1>12. CASE IngestDrops(f) /\ UNCHANGED <<storeVars, rpc, refused>>
  <2> DEFINE close == [type |-> "close", m |-> Flusher, gen |-> gen]
  <2>1. close \in DownFrames /\ close.type \notin Acks
    BY <1>3 DEF DownFrames, Senders, Acks
  <2> HIDE DEF close
  <2>2. CASE down' = Append(down, close)
    <3>1. /\ down' \in Seq(DownFrames)
          /\ \A i \in 1..Len(down') : \/ i \in 1..Len(down) /\ down'[i] = down[i]
                                      \/ down'[i] = close
      BY <1>3, <2>1, <2>2, AppendProperties
    <3>2. FrameFacts'
      BY <1>1, <1>12, <2>1, <3>1 DEF FrameFacts, storeVars, browserVars
    <3> QED BY <1>7, <1>12, <3>1, <3>2
  <2>3. CASE UNCHANGED down
    BY <1>3, <1>7, <1>8, <1>12, <2>3
  <2> QED BY <1>12, <2>2, <2>3 DEF IngestDrops, close
<1> QED BY <1>2, <1>9, <1>10, <1>11, <1>12

(* acceptBrowserAgentMessage resumes: the prompt is recorded and announced *)
(* unless Pi refused it; then it is tried again, queued or refused.        *)
LEMMA PromptSettlesStep ==
  ASSUME IInv, NEW m \in Prompts, PromptSettles(m) PROVE IInv'
<1> USE DeliveryAssumption DEF IInv, Messages
<1>1. /\ rpc \in [Senders -> Calls] /\ down \in Seq(DownFrames) /\ gen \in Nat
      /\ queue \in Seq(Messages) /\ processed \subseteq Prompts
      /\ ran \in [Messages -> Nat] /\ m \notin Injections
  BY DEF TypeOK, ServerType, SocketType, OutcomeType
<1>2. /\ rpc[m].st \in Settled
      /\ UNCHANGED <<browserVars, conn, up, piVars, ran, crashes>>
  BY DEF PromptSettles
<1>3. m \notin processed /\ m \notin ToSet(queue) /\ rpc[m].m = m
  BY <1>2 DEF CallFacts, Settled
<1>4. BrowserType'
  BY <1>2 DEF browserVars, TypeOK, BrowserType
<1>5. FlagType'
  BY <1>2 DEF TypeOK, FlagType, piVars
<1>6. ASSUME rpc' = [rpc EXCEPT ![m] = Idle]
      PROVE  /\ rpc' \in [Senders -> Calls] /\ rpc'[m].st = "idle"
             /\ \A t \in Senders : t # m => rpc'[t] = rpc[t]
  BY <1>6, CallSet DEF Senders
<1>7. CASE rpc[m].st = "error" /\ RetryRejected(m) /\ UNCHANGED unknown
  <2>1. CASE /\ rpc' = [rpc EXCEPT ![m] = Sent(m)]
             /\ UNCHANGED <<down, storeVars, refused>>
    <3>1. /\ rpc' \in [Senders -> Calls]
          /\ Saved' /\ QueueFacts' /\ CallFacts' /\ RunFacts' /\ TakenFacts'
      BY <1>2, <1>3, <1>7, <2>1, CallStarts DEF browserVars
    <3>2. SocketType' /\ ServerType' /\ OutcomeType'
      BY <1>2, <1>7, <2>1, <3>1
         DEF TypeOK, SocketType, ServerType, OutcomeType, piVars, storeVars
    <3>3. FrameFacts' /\ HeldFacts'
      BY <1>2, <1>7, <2>1 DEF FrameFacts, HeldFacts, Held, browserVars, storeVars
    <3> QED BY <1>4, <1>5, <3>1, <3>2, <3>3 DEF TypeOK
  <2>2. CASE /\ rpc' = [rpc EXCEPT ![m] = Idle] /\ refused' = refused \cup {m}
             /\ UNCHANGED <<down, storeVars>>
    <3>1. SocketType' /\ ServerType' /\ OutcomeType'
      BY <1>2, <1>6, <1>7, <2>2
         DEF TypeOK, SocketType, ServerType, OutcomeType, piVars, storeVars
    <3>2. FrameFacts' /\ HeldFacts'
      BY <1>2, <1>7, <2>2 DEF FrameFacts, HeldFacts, Held, browserVars, storeVars
    <3>3. Saved' /\ QueueFacts'
      BY <1>2, <2>2 DEF Saved, QueueFacts, browserVars, storeVars
    <3>4. CallFacts' /\ TakenFacts'
      BY <1>2, <1>6, <2>2 DEF CallFacts, TakenFacts, Senders, browserVars, storeVars
    <3>5. ASSUME NEW n \in Messages, Sendable(n)' PROVE Sendable(n)
      BY <1>2, <1>6, <1>7, <2>2, <3>5
         DEF Sendable, HandedOver, Senders, browserVars, storeVars
    <3>6. RunFacts'
      BY <1>2, <3>5 DEF RunFacts
    <3> QED BY <1>4, <1>5, <3>1, <3>2, <3>3, <3>4, <3>6 DEF TypeOK
  <2>3. CASE rpc' = [rpc EXCEPT ![m] = Idle] /\ AcceptQueued(m)
    <3>1. /\ down' \in Seq(DownFrames) /\ refused' \subseteq Messages
          /\ queue' \in Seq(Messages) /\ processed' \subseteq Prompts
          /\ disk' \in [queue : Seq(Messages), processed : SUBSET Prompts]
          /\ Saved' /\ QueueFacts' /\ CallFacts' /\ RunFacts' /\ TakenFacts'
          /\ FrameFacts' /\ HeldFacts'
      BY <1>2, <1>3, <1>6, <1>7, <2>3, PromptQueued DEF browserVars
    <3>2. SocketType' /\ ServerType' /\ OutcomeType'
      BY <1>2, <1>6, <1>7, <2>3, <3>1
         DEF TypeOK, SocketType, ServerType, OutcomeType, piVars
    <3> QED BY <1>4, <1>5, <3>1, <3>2 DEF TypeOK
  <2> QED BY <1>7, <2>1, <2>2, <2>3 DEF RetryRejected
<1>8. CASE /\ rpc[m].st \in {"ok", "lost"} /\ RememberAndPublish(m, queue)
           /\ rpc' = [rpc EXCEPT ![m] = Idle]
           /\ unknown' = IF rpc[m].st = "lost" THEN unknown \cup {m} ELSE unknown
           /\ UNCHANGED refused
  <2>1. /\ queue' = queue /\ processed' = processed \cup {m}
        /\ disk' = [queue |-> queue', processed |-> processed']
    BY <1>8 DEF RememberAndPublish, Persist
  <2>2. disk' \in [queue : Seq(Messages), processed : SUBSET Prompts]
    BY <1>1, <2>1
  <2>3. /\ down' \in Seq(DownFrames)
        /\ \A i \in 1..Len(down') : \/ i \in 1..Len(down) /\ down'[i] = down[i]
                                    \/ down'[i].m = m
    BY <1>1, <1>8, PublishFacts
  <2>4. SocketType' /\ ServerType' /\ OutcomeType'
    BY <1>1, <1>2, <1>6, <1>8, <2>1, <2>2, <2>3
       DEF TypeOK, SocketType, ServerType, OutcomeType, piVars
  <2>5. Saved' /\ QueueFacts' /\ FrameFacts'
    BY <1>2, <2>1, <2>3 DEF Saved, QueueFacts, FrameFacts, browserVars
  <2>6. CallFacts' /\ TakenFacts'
    BY <1>2, <1>6, <1>8, <2>1 DEF CallFacts, TakenFacts, Senders, browserVars
  <2>7. ASSUME NEW n \in Messages, Sendable(n)' PROVE Sendable(n)
    BY <1>1, <1>2, <1>3, <1>6, <1>8, <2>1, <2>7
       DEF Sendable, HandedOver, Senders, browserVars
  <2>8. RunFacts'
    BY <1>2, <2>7 DEF RunFacts
  <2>9. disk.queue = queue /\ disk'.queue = queue'
    BY <2>1 DEF Saved
  <2>10. rpc[m].st = "ok" => ran[m] > 0
    BY <1>3 DEF TakenFacts, Senders
  <2>11. HeldFacts'
    BY <1>2, <1>8, <2>1, <2>9, <2>10 DEF HeldFacts, Held, browserVars
  <2> QED BY <1>4, <1>5, <2>4, <2>5, <2>6, <2>8, <2>11 DEF TypeOK
<1> QED BY <1>7, <1>8 DEF PromptSettles

LEMMA NextIInv == IInv /\ [Next]_vars => IInv'
<1> SUFFICES ASSUME IInv, [Next]_vars PROVE IInv'
  OBVIOUS
<1>1. ASSUME NEW m \in Prompts, SendToSession(m) \/ PromptSettles(m) PROVE IInv'
  BY <1>1, SendToSessionStep, PromptSettlesStep
<1>2. ASSUME NEW m \in Injections, InjectUserMessage(m) \/ InjectionSettles(m) PROVE IInv'
  BY <1>2, InjectUserMessageStep, InjectionSettlesStep
<1>3. CASE HandleServerMessage
  BY <1>3, HandleServerMessageStep
<1>4. CASE HandleBrowserOpen \/ HandleBrowserClose
  BY <1>4, SocketStep
<1>5. CASE HandleBrowserMessage
  BY <1>5, HandleBrowserMessageStep
<1>6. CASE FlushOfflineQueue
  BY <1>6, FlushOfflineQueueStep
<1>7. CASE FlushSettles
  BY <1>7, FlushSettlesStep
<1>8. CASE AttachPiAdapter
  BY <1>8, AttachStep
<1>9. CASE TransportCloses
  BY <1>9, TransportClosesStep
<1>10. CASE DetachPiAdapter
  BY <1>10, DetachStep
<1>11. ASSUME NEW s \in Senders,
              PiAccepts(s) \/ AnswerRead(s) \/ PiRejects(s) \/ PromptTimesOut(s)
       PROVE  IInv'
  BY <1>11, PiAcceptsStep, OneCallSettlesStep
<1>12. CASE Crash
  BY <1>12, CrashStep
<1>13. CASE UNCHANGED vars
  <2> USE <1>13 DEF IInv, vars, browserVars, socketVars, piVars, storeVars
  <2>1. BrowserType' /\ SocketType' /\ ServerType' /\ OutcomeType'
    BY DEF TypeOK, BrowserType, SocketType, ServerType, OutcomeType
  <2>2. FlagType'
    BY DEF TypeOK, FlagType
  <2>3. Saved' /\ QueueFacts' /\ CallFacts' /\ RunFacts' /\ TakenFacts'
    BY ServerUntouched
  <2>4. FrameFacts' /\ HeldFacts'
    BY DEF FrameFacts, HeldFacts, Held
  <2> QED BY <2>1, <2>2, <2>3, <2>4 DEF TypeOK
<1> QED BY <1>1, <1>2, <1>3, <1>4, <1>5, <1>6, <1>7, <1>8, <1>9, <1>10, <1>11,
           <1>12, <1>13 DEF Next

-----------------------------------------------------------------------------
(* The inductive invariant holds in every reachable state of the delivery  *)
(* path: browser map, socket, WsBridge, session.json, adapter and crashes. *)
THEOREM DeliveryInvariant == Spec => []IInv
BY InitIInv, NextIInv, PTL DEF Spec

(* Every variable of the delivery path has its type, and the browser's     *)
(* unacknowledged map has distinct keys, none of them acknowledged.        *)
THEOREM DeliveryTypes == Spec => []TypeOK
<1>1. IInv => TypeOK
  BY DEF IInv
<1> QED BY <1>1, DeliveryInvariant, PTL

(* A prompt whose sender was told it is taken is never lost: it is queued  *)
(* in session.json, Pi accepted it, or it was announced as unknown         *)
(* (persistSessionSync before the acknowledgement).                        *)
THEOREM NoPromptLost == Spec => []AcknowledgedNeverLost
<1>1. IInv => AcknowledgedNeverLost
  <2> SUFFICES ASSUME IInv, NEW m \in acked
               PROVE  m \in ToSet(disk.queue) \/ ran[m] > 0 \/ m \in unknown
    BY DEF AcknowledgedNeverLost
  <2>1. m \in Messages
    BY DEF IInv, TypeOK, BrowserType
  <2> QED BY <2>1 DEF IInv, HeldFacts, Held
<1> QED BY <1>1, DeliveryInvariant, PTL

(* Pi accepts a prompt at most once, and at most once more for each server *)
(* crash, for every resend, duplicate frame, retry and generation          *)
(* (processedClientMessageIds, the reservation, the offline queue).        *)
THEOREM NoRepeatWithoutCrash == Spec => []AtMostOncePerCrash
<1>1. IInv => AtMostOncePerCrash
  BY DEF IInv, RunFacts, AtMostOncePerCrash
<1> QED BY <1>1, DeliveryInvariant, PTL

(* A prompt is never in two hands: not queued twice, not queued while its  *)
(* own call is pending, and the flush holds the head of the queue.         *)
THEOREM OneHolderAlways == Spec => []OneHolder
<1>1. IInv => OneHolder
  BY DEF IInv, QueueFacts, CallFacts, OneHolder, Messages
<1> QED BY <1>1, DeliveryInvariant, PTL
=============================================================================
