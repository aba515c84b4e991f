-------------------------- MODULE MessageDelivery --------------------------
(***************************************************************************)
(* The delivery of user prompts, end to end: from the browser's            *)
(* unacknowledged-message map (web/src/ws.ts), over a WebSocket that may   *)
(* drop, through the server's WsBridge (web/server/ws-bridge.ts) with its  *)
(* reservation, de-duplication and offline queue, its session.json         *)
(* (ws-bridge-persist.ts), and the Pi adapter (pi-adapter.ts), to a Pi     *)
(* child that may reject a prompt, not answer, or exit.  The server may    *)
(* crash at any step and restart from session.json.                        *)
(*                                                                         *)
(* One session and one browser.  A prompt is its client message id.        *)
(* JavaScript runs to the next await, so each action below is the code     *)
(* between two awaits of its handler.                                      *)
(***************************************************************************)
EXTENDS Integers, Sequences, FiniteSets, SequencesExt

CONSTANTS
  Prompts,        \* ids of the prompts a user types into the browser
  Oversize,       \* those whose frame exceeds BROWSER_WS_MAX_MESSAGE_BYTES
  Invalid,        \* those whose text exceeds USER_MESSAGE_MAX_BYTES, or malformed
  Injections,     \* ids of the prompts server code injects (injectUserMessage)
  Flusher,        \* the sender that drains the offline queue
  QueueLimit,     \* OFFLINE_QUEUE_LIMIT
  MaxMessages,    \* bound: prompts typed and injected in all
  MaxGeneration,  \* bound: Pi generations attached between two crashes
  MaxCrashes      \* bound: server crashes

ASSUME DeliveryAssumption ==
  /\ Prompts \cap Injections = {}
  /\ Oversize \subseteq Prompts /\ Invalid \subseteq Prompts \ Oversize
  /\ Flusher \notin Prompts \cup Injections
  /\ QueueLimit \in Nat \ {0}
  /\ {MaxMessages, MaxGeneration, MaxCrashes} \subseteq Nat

VARIABLES
  \* the senders: the browser tab (ws.ts) and the server code that injects
  unacked,    \* unacknowledgedAgentMessages, in insertion order
  bgen,       \* the session generation in the browser's store
  injected,   \* the injections made so far
  acked,      \* the prompts whose sender has been told they are taken
  \* the WebSocket
  conn,       \* is the socket open?
  up,         \* agent_message frames to the server
  down,       \* frames to the browser
  \* the server's Session (ws-bridge-types.ts)
  gen,        \* session.state.generation
  adapter,    \* generation of session.piAdapter, 0 for null
  live,       \* is the adapter's transport open?
  queue,      \* offlineQueue
  processed,  \* processedClientMessageIds
  rpc,        \* the prompt call each sender awaits
  disk,       \* the queue and the processed ids in session.json
  \* what happened outside the server's memory
  ran,        \* how often Pi accepted each prompt
  unknown,    \* prompts announced with "pi_delivery_unknown"
  refused,    \* prompts answered with an error
  crashes

browserVars == <<unacked, bgen, injected, acked>>
socketVars  == <<conn, up, down>>
piVars      == <<gen, adapter, live>>
storeVars   == <<queue, processed, disk>>
vars == <<browserVars, socketVars, piVars, storeVars, rpc, ran, unknown,
          refused, crashes>>

Messages == Prompts \cup Injections
Senders  == Messages \cup {Flusher}

(* A sender's transport.prompt(): "sent" until Pi reads it and "taken"     *)
(* once Pi accepted it; settled as "ok" or "error" when the answer is      *)
(* read, or as "lost" when the transport gives up on it (child exit, RPC   *)
(* timeout).  The sender resumes from a settled call in a later step.      *)
Idle == [st |-> "idle", m |-> Flusher, adapter |-> 0]
Settled == {"ok", "error", "lost"}
Calls == [st : Settled \cup {"idle", "sent", "taken"}, m : Senders, adapter : Nat]
Pending(s) == rpc[s].st \in {"sent", "taken"}
Sent(m) == [st |-> "sent", m |-> m, adapter |-> adapter]

(* PiAdapter.isConnected() of the session's adapter. *)
Connected == adapter # 0 /\ live

Init ==
  /\ unacked = <<>> /\ bgen = 0 /\ injected = {} /\ acked = {}
  /\ conn = FALSE /\ up = <<>> /\ down = <<>>
  /\ gen = 0 /\ adapter = 0 /\ live = FALSE
  /\ queue = <<>> /\ processed = {}
  /\ disk = [queue |-> <<>>, processed |-> {}]
  /\ rpc = [s \in Senders |-> Idle]
  /\ ran = [m \in Messages |-> 0]
  /\ unknown = {} /\ refused = {}
  /\ crashes = 0

(* The server has closed the socket and the browser does not know it yet:  *)
(* nothing is sent on it and nothing read from it any more.                *)
Closing == down # <<>> /\ Last(down).type = "close"

(* Somebody still types or injects. *)
MoreMessages ==
  Cardinality(ToSet(unacked) \cup acked \cup refused \cup injected) < MaxMessages

-----------------------------------------------------------------------------
(* The browser. *)

(* sendToSession of an agent_message: only on an open socket, remembered   *)
(* before it is sent.                                                      *)
SendToSession(m) ==
  /\ conn /\ MoreMessages
  /\ m \notin acked \cup refused \cup ToSet(unacked)
  /\ unacked' = Append(unacked, m)
  /\ up' = Append(up, [m |-> m, gen |-> bgen])
  /\ UNCHANGED <<bgen, injected, acked, conn, down, piVars, storeVars, rpc, ran, unknown,
                 refused, crashes>>

(* session_init: adopt the generation and resend every unacknowledged      *)
(* prompt, in order, under it.                                             *)
ReceiveInit(f) ==
  /\ f.type = "session_init"
  /\ bgen' = f.gen
  /\ up' = up \o [i \in 1..Len(unacked) |-> [m |-> unacked[i], gen |-> f.gen]]
  /\ UNCHANGED <<unacked, injected, acked>>

(* The prompt leaves the map, if it is still there. *)
Acknowledge(m) ==
  /\ \/ /\ \E i \in 1..Len(unacked) : unacked[i] = m /\ unacked' = RemoveAt(unacked, i)
        /\ acked' = acked \cup {m}
     \/ /\ m \notin ToSet(unacked)
        /\ UNCHANGED <<unacked, acked>>
  /\ UNCHANGED injected

(* The published agent_message acknowledges unless it is of an older       *)
(* generation; agent_message_accepted only if it is of this one.           *)
IsCurrent(f) == IF f.type = "agent_message" THEN f.gen >= bgen ELSE f.gen = bgen

ReceiveAcceptance(f) ==
  /\ f.type \notin {"session_init", "close"}
  /\ IF IsCurrent(f)
     THEN Acknowledge(f.m) /\ bgen' = f.gen
     ELSE UNCHANGED browserVars
  /\ UNCHANGED up

(* onclose, behind everything the server sent before it closed the socket. *)
ReceiveClose(f) ==
  /\ f.type = "close"
  /\ conn' = FALSE /\ up' = <<>> /\ down' = <<>>
  /\ UNCHANGED browserVars

HandleServerMessage ==
  /\ conn /\ down # <<>>
  /\ LET f == Head(down)
     IN \/ /\ ReceiveInit(f) \/ ReceiveAcceptance(f)
           /\ down' = Tail(down) /\ UNCHANGED conn
        \/ ReceiveClose(f)
  /\ UNCHANGED <<piVars, storeVars, rpc, ran, unknown, refused, crashes>>

(* connectSession, from the page or from its reconnect timer, and the      *)
(* server's handleBrowserOpen, which answers with session_init.            *)
HandleBrowserOpen ==
  /\ ~conn
  /\ conn' = TRUE
  /\ down' = <<[type |-> "session_init", m |-> Flusher, gen |-> gen]>>
  /\ UNCHANGED <<browserVars, up, piVars, storeVars, rpc, ran, unknown, refused,
                 crashes>>

(* The connection breaks: what was under way in either direction is lost.  *)
(* (With only the server's close under way, that is its arrival.)          *)
HandleBrowserClose ==
  /\ conn /\ (Closing => Len(down) > 1)
  /\ conn' = FALSE /\ up' = <<>> /\ down' = <<>>
  /\ UNCHANGED <<browserVars, piVars, storeVars, rpc, ran, unknown, refused, crashes>>

-----------------------------------------------------------------------------
(* The server accepts a prompt. *)

Broadcast(frames) == down' = IF conn /\ ~Closing THEN down \o frames ELSE down

AcceptedFrame(m) == [type |-> "agent_message_accepted", m |-> m, gen |-> gen]

PublishAcceptedAgentMessage(m) == [type |-> "agent_message", m |-> m, gen |-> gen]

Mutant_Persist(q, p) == queue' = q /\ processed' = p /\ UNCHANGED disk

(* persistSessionRecordSync of the queue q and the processed ids p. *)
Persist(q, p) ==
  /\ queue' = q /\ processed' = p
  /\ disk' = [queue |-> q, processed |-> p]

(* Push unless present. *)
Enqueued(m) == IF m \in ToSet(queue) THEN queue ELSE Append(queue, m)

Mutant_RememberAndPublish(m, q) ==
  /\ Persist(q, processed)
  /\ Broadcast(<<PublishAcceptedAgentMessage(m), AcceptedFrame(m)>>)

(* rememberClientMessage, then the publication and acknowledgement to      *)
(* every open socket.                                                      *)
RememberAndPublish(m, q) ==
  /\ Persist(q, processed \cup {m})
  /\ Broadcast(<<PublishAcceptedAgentMessage(m), AcceptedFrame(m)>>)

(* enqueueAgentMessage and the rest of acceptBrowserAgentMessage. *)
AcceptQueued(m) ==
  \/ /\ Len(queue) < QueueLimit
     /\ RememberAndPublish(m, Enqueued(m))
     /\ UNCHANGED refused
  \/ /\ Len(queue) >= QueueLimit
     /\ refused' = refused \cup {m}
     /\ UNCHANGED <<storeVars, down>>

(* routeBrowserMessage's two early returns: a frame of another generation, *)
(* and an id already taken, which is acknowledged again.                   *)
RouteStale(f) ==
  /\ f.gen # gen
  /\ UNCHANGED <<down, storeVars, rpc, refused>>

Mutant_RouteDuplicate(f) ==
  /\ f.gen = gen /\ f.m \in processed
  /\ UNCHANGED <<down, storeVars, rpc, refused>>

RouteDuplicate(f) ==
  /\ f.gen = gen /\ f.m \in processed
  /\ Broadcast(<<AcceptedFrame(f.m)>>)
  /\ UNCHANGED <<storeVars, rpc, refused>>

Mutant_AcceptBrowserAgentMessage(f) ==
  /\ f.gen = gen /\ f.m \notin processed
  /\ \/ /\ Connected
        /\ rpc' = [rpc EXCEPT ![f.m] = Sent(f.m)]
        /\ UNCHANGED <<down, storeVars, refused>>
     \/ /\ ~Connected
        /\ AcceptQueued(f.m)
        /\ UNCHANGED rpc

(* acceptBrowserAgentMessage up to its await: nothing while the id is      *)
(* reserved, a prompt call if Pi is connected, the offline queue if not.   *)
AcceptBrowserAgentMessage(f) ==
  /\ f.gen = gen /\ f.m \notin processed
  /\ \/ /\ rpc[f.m].st # "idle"
        /\ UNCHANGED <<down, storeVars, rpc, refused>>
     \/ /\ rpc[f.m].st = "idle" /\ Connected
        /\ rpc' = [rpc EXCEPT ![f.m] = Sent(f.m)]
        /\ UNCHANGED <<down, storeVars, refused>>
     \/ /\ rpc[f.m].st = "idle" /\ ~Connected
        /\ AcceptQueued(f.m)
        /\ UNCHANGED rpc

(* Frames that go no further, without an answer: one over the byte limit,  *)
(* for which the socket is closed with what is behind it, and one that     *)
(* fails parseBrowserMessage or the limit on the text.                     *)
IngestDrops(f) ==
  \/ /\ f.m \in Oversize
     /\ up' = <<>> /\ down' = Append(down, [type |-> "close", m |-> Flusher, gen |-> gen])
  \/ /\ f.m \in Invalid
     /\ up' = Tail(up) /\ UNCHANGED down

HandleBrowserMessage ==
  /\ conn /\ ~Closing /\ up # <<>>
  /\ LET f == Head(up)
     IN \/ /\ IngestDrops(f)
           /\ UNCHANGED <<storeVars, rpc, refused>>
        \/ /\ f.m \notin Oversize \cup Invalid
           /\ RouteStale(f) \/ RouteDuplicate(f) \/ AcceptBrowserAgentMessage(f)
           /\ up' = Tail(up)
  /\ UNCHANGED <<browserVars, conn, piVars, ran, unknown, crashes>>

(* The loop of acceptBrowserAgentMessage after a definite rejection: try a *)
(* replacement adapter, give up on the same one, or queue when none.       *)
RetryRejected(m) ==
  \/ /\ Connected /\ adapter # rpc[m].adapter
     /\ rpc' = [rpc EXCEPT ![m] = Sent(m)]
     /\ UNCHANGED <<down, storeVars, refused>>
  \/ /\ Connected /\ adapter = rpc[m].adapter
     /\ rpc' = [rpc EXCEPT ![m] = Idle]
     /\ refused' = refused \cup {m}
     /\ UNCHANGED <<down, storeVars>>
  \/ /\ ~Connected
     /\ rpc' = [rpc EXCEPT ![m] = Idle]
     /\ AcceptQueued(m)

(* acceptBrowserAgentMessage resumes with the delivery's result. *)
PromptSettles(m) ==
  /\ rpc[m].st \in Settled
  /\ \/ /\ rpc[m].st = "error"
        /\ RetryRejected(m)
        /\ UNCHANGED unknown
     \/ /\ rpc[m].st \in {"ok", "lost"}
        /\ RememberAndPublish(m, queue)
        /\ rpc' = [rpc EXCEPT ![m] = Idle]
        /\ unknown' = IF rpc[m].st = "lost" THEN unknown \cup {m} ELSE unknown
        /\ UNCHANGED refused
  /\ UNCHANGED <<browserVars, conn, up, piVars, ran, crashes>>

(* injectUserMessage and acceptAgentMessage: the caller awaits the result, *)
(* and every call makes a fresh id.                                        *)
InjectUserMessage(m) ==
  /\ m \notin injected /\ MoreMessages
  /\ injected' = injected \cup {m}
  /\ \/ /\ Connected
        /\ rpc' = [rpc EXCEPT ![m] = Sent(m)]
        /\ UNCHANGED <<acked, refused, storeVars>>
     \/ /\ ~Connected /\ Len(queue) < QueueLimit
        /\ Persist(Enqueued(m), processed)
        /\ acked' = acked \cup {m}
        /\ UNCHANGED <<rpc, refused>>
     \/ /\ ~Connected /\ Len(queue) >= QueueLimit
        /\ refused' = refused \cup {m}
        /\ UNCHANGED <<rpc, acked, storeVars>>
  /\ UNCHANGED <<unacked, bgen, socketVars, piVars, ran, unknown, crashes>>

InjectionSettles(m) ==
  /\ rpc[m].st \in Settled
  /\ rpc' = [rpc EXCEPT ![m] = Idle]
  /\ acked' = IF rpc[m].st = "error" THEN acked ELSE acked \cup {m}
  /\ refused' = IF rpc[m].st = "error" THEN refused \cup {m} ELSE refused
  /\ unknown' = IF rpc[m].st = "lost" THEN unknown \cup {m} ELSE unknown
  /\ UNCHANGED <<unacked, bgen, injected, socketVars, piVars, storeVars, ran, crashes>>

-----------------------------------------------------------------------------
(* The offline queue is drained one head at a time: after a launch, and    *)
(* whenever Pi reports that it is ready.  One flush at a time.             *)
FlushOfflineQueue ==
  /\ rpc[Flusher].st = "idle"
  /\ Connected /\ queue # <<>>
  /\ rpc' = [rpc EXCEPT ![Flusher] = Sent(Head(queue))]
  /\ UNCHANGED <<browserVars, socketVars, piVars, storeVars, ran, unknown,
                 refused, crashes>>

(* The head leaves the queue, durably, on any outcome but a rejection; a   *)
(* rejection is retried only on a replacement adapter.                     *)
FlushSettles ==
  LET c == rpc[Flusher] IN
  /\ c.st \in Settled
  /\ \/ /\ c.st = "error" /\ Connected /\ adapter # c.adapter
        /\ rpc' = [rpc EXCEPT ![Flusher] = Sent(c.m)]
        /\ UNCHANGED <<storeVars, unknown>>
     \/ /\ c.st = "error" /\ (~Connected \/ adapter = c.adapter)
        /\ rpc' = [rpc EXCEPT ![Flusher] = Idle]
        /\ UNCHANGED <<storeVars, unknown>>
     \/ /\ c.st \in {"ok", "lost"} /\ queue # <<>> /\ Head(queue) = c.m
        /\ rpc' = [rpc EXCEPT ![Flusher] = Idle]
        /\ Persist(Tail(queue), processed)
        /\ unknown' = IF c.st = "lost" THEN unknown \cup {c.m} ELSE unknown
  /\ UNCHANGED <<browserVars, socketVars, piVars, ran, refused, crashes>>

-----------------------------------------------------------------------------
(* Pi, its transport and the server process. *)

(* attachPiAdapter, at the end of a launch: the next generation is         *)
(* announced with session_init.                                            *)
AttachPiAdapter ==
  /\ ~Connected /\ gen < MaxGeneration
  /\ gen' = gen + 1 /\ adapter' = gen + 1 /\ live' = TRUE
  /\ disk' = [queue |-> queue, processed |-> processed]
  /\ Broadcast(<<[type |-> "session_init", m |-> Flusher, gen |-> gen + 1]>>)
  /\ UNCHANGED <<browserVars, conn, up, queue, processed, rpc, ran, unknown,
                 refused, crashes>>

(* The child exits: its transport rejects every pending call, and answers  *)
(* still in the pipe are not read.                                         *)
TransportCloses ==
  /\ Connected
  /\ live' = FALSE
  /\ rpc' = [s \in Senders |->
               IF Pending(s) THEN [rpc[s] EXCEPT !.st = "lost"] ELSE rpc[s]]
  /\ UNCHANGED <<browserVars, socketVars, gen, adapter, storeVars, ran, unknown,
                 refused, crashes>>

DetachPiAdapter ==
  /\ adapter # 0 /\ ~live
  /\ adapter' = 0
  /\ UNCHANGED <<browserVars, socketVars, gen, live, storeVars, rpc, ran, unknown,
                 refused, crashes>>

(* Pi accepts the prompt; from here on it runs, whoever learns of it. *)
PiAccepts(s) ==
  /\ rpc[s].st = "sent"
  /\ rpc' = [rpc EXCEPT ![s].st = "taken"]
  /\ ran' = [ran EXCEPT ![rpc[s].m] = @ + 1]
  /\ UNCHANGED <<browserVars, socketVars, piVars, storeVars, unknown, refused,
                 crashes>>

AnswerRead(s) ==
  /\ rpc[s].st = "taken"
  /\ rpc' = [rpc EXCEPT ![s].st = "ok"]
  /\ UNCHANGED <<browserVars, socketVars, piVars, storeVars, ran, unknown, refused,
                 crashes>>

PiRejects(s) ==
  /\ rpc[s].st = "sent"
  /\ rpc' = [rpc EXCEPT ![s].st = "error"]
  /\ UNCHANGED <<browserVars, socketVars, piVars, storeVars, ran, unknown, refused, crashes>>

(* The RPC timeout: the answer is late or never comes. *)
PromptTimesOut(s) ==
  /\ Pending(s)
  /\ rpc' = [rpc EXCEPT ![s].st = "lost"]
  /\ UNCHANGED <<browserVars, socketVars, piVars, storeVars, ran, unknown, refused,
                 crashes>>

(* The server process dies and restarts from session.json (restoreSession). *)
Crash ==
  /\ crashes < MaxCrashes
  /\ crashes' = crashes + 1
  /\ conn' = FALSE /\ up' = <<>> /\ down' = <<>>
  /\ gen' = 0 /\ adapter' = 0 /\ live' = FALSE
  /\ queue' = disk.queue /\ processed' = disk.processed
  /\ rpc' = [s \in Senders |-> Idle]
  /\ UNCHANGED <<browserVars, disk, ran, unknown, refused>>

Next ==
  \/ \E m \in Prompts : SendToSession(m) \/ PromptSettles(m)
  \/ \E m \in Injections : InjectUserMessage(m) \/ InjectionSettles(m)
  \/ HandleServerMessage \/ HandleBrowserOpen \/ HandleBrowserClose
  \/ HandleBrowserMessage
  \/ FlushOfflineQueue \/ FlushSettles
  \/ AttachPiAdapter \/ TransportCloses \/ DetachPiAdapter
  \/ \E s \in Senders : PiAccepts(s) \/ AnswerRead(s) \/ PiRejects(s) \/ PromptTimesOut(s)
  \/ Crash

Spec == Init /\ [][Next]_vars

(* The event loop runs every handler and continuation, every pending RPC   *)
(* has an armed timer, and the browser's reconnect timer fires.  Users,    *)
(* launches, rejections and crashes owe nothing.  A connection that breaks *)
(* again each time before the browser is served owes nobody an answer: the *)
(* network breaks it finitely often.                                       *)
FairSpec ==
  /\ Spec
  /\ WF_vars(HandleServerMessage) /\ WF_vars(HandleBrowserMessage)
  /\ WF_vars(HandleBrowserOpen)
  /\ \A s \in Senders : WF_vars(PromptTimesOut(s))
  /\ \A m \in Prompts : WF_vars(PromptSettles(m))
  /\ <>[][~HandleBrowserClose]_vars

-----------------------------------------------------------------------------
UpFrames   == [m : Prompts, gen : Nat]
DownFrames == [type : {"session_init", "agent_message", "agent_message_accepted", "close"},
               m : Senders, gen : Nat]

BrowserType ==
  /\ unacked \in Seq(Prompts) /\ IsInjective(unacked)
  /\ bgen \in Nat /\ injected \subseteq Injections /\ acked \subseteq Messages
  /\ acked \cap ToSet(unacked) = {}

SocketType == up \in Seq(UpFrames) /\ down \in Seq(DownFrames)

FlagType == conn \in BOOLEAN /\ live \in BOOLEAN

ServerType ==
  /\ gen \in Nat /\ adapter \in {0, gen}
  /\ queue \in Seq(Messages) /\ processed \subseteq Prompts
  /\ disk \in [queue : Seq(Messages), processed : SUBSET Prompts]
  /\ rpc \in [Senders -> Calls]

OutcomeType ==
  /\ ran \in [Messages -> Nat]
  /\ unknown \subseteq Messages /\ refused \subseteq Messages
  /\ crashes \in 0..MaxCrashes

(* Every variable has its type; a browser prompt is unacknowledged at most *)
(* once (the Map's keys) and never both acknowledged and unacknowledged.   *)
TypeOK == BrowserType /\ SocketType /\ FlagType /\ ServerType /\ OutcomeType

(* A prompt whose sender was told it is taken is not lost: session.json    *)
(* still queues it, or Pi accepted it, or the user was told that its       *)
(* delivery is unknown.  (persistSessionSync: "Persist delivery acceptance *)
(* before it is acknowledged to a browser.")                               *)
AcknowledgedNeverLost ==
  \A m \in acked :
    \/ m \in ToSet(disk.queue)
    \/ ran[m] > 0
    \/ m \in unknown

(* Pi runs a prompt at most once, however often the browser resends it and *)
(* whatever generations come and go, except that each crash may cost one   *)
(* repetition.  (ws-bridge.test.ts: "deliver at most once".)               *)
AtMostOncePerCrash == \A m \in Messages : ran[m] <= 1 + crashes

(* A prompt is never in two hands: while a call for it is pending it is    *)
(* not also waiting in the offline queue, except as the head being         *)
(* flushed, and no prompt is queued twice.                                 *)
OneHolder ==
  /\ IsInjective(queue)
  /\ \A m \in Prompts : rpc[m].st # "idle" => m \notin ToSet(queue)
  /\ rpc[Flusher].st # "idle" => queue # <<>> /\ Head(queue) = rpc[Flusher].m

(* A prompt behind one over the byte limit never reaches the server: each  *)
(* resending closes the socket again.                                      *)
Blocked(m) ==
  \E i, j \in 1..Len(unacked) : i < j /\ unacked[i] \in Oversize /\ unacked[j] = m

(* Every prompt that the server's limits admit, and that is not behind one *)
(* over the byte limit, is answered: it is acknowledged, or an error is    *)
(* published for it.  The prompts the server drops are not: the browser    *)
(* keeps them and resends them on every connection.                        *)
EveryPromptAnswered ==
  \A m \in Prompts \ (Oversize \cup Invalid) :
    (m \in ToSet(unacked) /\ ~Blocked(m)) ~> (m \in acked \/ m \in refused)
=============================================================================
