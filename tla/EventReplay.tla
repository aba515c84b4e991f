----------------------------- MODULE EventReplay -----------------------------
(***************************************************************************)
(* How one browser page follows one session: the bridge numbers every      *)
(* event, keeps the last ones in a bounded buffer and sends each to the    *)
(* open socket; the page drops what its cursor has passed, reconnects when *)
(* the socket fails, and subscribes again with its cursor, upon which the  *)
(* bridge replays the buffer or sends the history Pi keeps on disk.        *)
(*                                                                         *)
(* Server: ws-bridge*.ts, session-message-buffers.ts and                   *)
(* bounded-message-buffer.ts.  Page: ws.ts, interactions-slice.ts.         *)
(*                                                                         *)
(* Only the page's current socket is a variable.  Frames of an older one   *)
(* are ignored by the page (connections.isCurrent) and a subscription of   *)
(* an older one sends into a closed socket, so neither has an effect.      *)
(* Acknowledgements (session_ack) are stored by the bridge and never read. *)
(***************************************************************************)
EXTENDS Integers, Sequences, SequencesExt, FiniteSets

CONSTANTS Asks,        \* interaction requests Pi may make
          Msgs,        \* agent messages Pi may write
          BufMax,      \* EVENT_BUFFER_LIMIT
          MaxSteps,    \* bound: what Pi, its launcher and the users do
          MaxFaults    \* bound: sockets lost, timers that fire too early,
                       \* restarts of the server, pages hidden, networks back

ASSUME ReplayAssumption ==
  /\ BufMax \in Nat \ {0}
  /\ {MaxSteps, MaxFaults} \subseteq Nat

VARIABLES
  gen,      \* session.state.generation
  adapter,  \* session.piAdapter is attached
  run,      \* session.state.runState
  interactions, \* keys of session.interactionKinds
  nextSeq,  \* session.nextEventSeq
  buffer,   \* session.eventBuffer
  disk,     \* messages in the Pi JSONL
  subs,     \* handleSessionSubscribe calls that await a history
  link,     \* the page's socket: none, connecting, up, or cut (gone unnoticed)
  up, down, \* frames in flight to the server, to the page
  cli,      \* the page: cursor, messages, notes, pending asks, generation, run
            \* state, and whether the page set that itself (own)
  page,     \* the page's timers and visibility
  steps, faults \* what counts against the bounds

server == <<gen, adapter, run, interactions, nextSeq, buffer, disk>>
pageVars == <<server, subs, link, up, down, cli, page, steps, faults>>

RunStates == {"disconnected", "ready", "running", "asking"}  \* of the bridge
ShownStates == RunStates \cup {"stopped"}                     \* of the page
Buffered(e) == e.t # "init"
HistoryBacked(e) == e.t = "msg"

(***************************************************************************)
(* Frames to the page.  A published event carries its number; a frame sent *)
(* to one socket only carries none, which is written 0.                    *)
(***************************************************************************)
Event(t, arg, g) == [t |-> t, arg |-> arg, gen |-> g, seq |-> 0]
RunFrame == Event("run", run, gen)
AskSnapshot(asks, g) == [t |-> "snap", arg |-> asks, gen |-> g, seq |-> 0]
History(reason, msgs) == [t |-> "hist", arg |-> msgs, reason |-> reason, seq |-> 0]
Replay(events) == [t |-> "replay", arg |-> events, seq |-> 0]

-----------------------------------------------------------------------------
(* The server: numbering, buffering and sending.                           *)

Mutant_Numbered(events) ==
  [i \in DOMAIN events |->
     [events[i] EXCEPT !.seq = nextSeq + Len(SelectSeq(SubSeq(events, 1, i), Buffered)) - 1]]
Numbered(events) == [i \in DOMAIN events |-> [events[i] EXCEPT !.seq = nextSeq + i - 1]]

(* The elements of s at the places in I, in order.                          *)
Selected(s, I) ==
  LET upTo[n \in 0..Len(s)] ==
        IF n = 0 THEN <<>>
        ELSE IF n \in I THEN Append(upTo[n - 1], s[n]) ELSE upTo[n - 1]
  IN  upTo[Len(s)]

(* BoundedMessageBuffer.append and trim.  fits is FALSE for an event that   *)
(* alone exceeds the byte budget: it is numbered and sent, not kept.        *)
Kept(events, fits) ==
  LET kept == IF fits THEN {i \in DOMAIN events : Buffered(events[i])} ELSE {}
      all  == buffer \o Selected(events, kept)
  IN  SubSeq(all, IF Len(all) > BufMax THEN Len(all) - BufMax + 1 ELSE 1, Len(all))

Send(frames) == down' = IF link = "up" THEN down \o frames ELSE down

(* broadcastToBrowsers for the events of one handler, in order, with the    *)
(* point-to-point frames the handler sends before and after them.           *)
Broadcast(before, events, after, fits) ==
  /\ nextSeq' = nextSeq + Len(events)
  /\ buffer' = Kept(Numbered(events), fits)
  /\ Send(before \o Numbered(events) \o after)

Publish(events) == Broadcast(<<>>, events, <<>>, TRUE)

Unserved == UNCHANGED <<subs, link, cli, page, faults>>
Step == steps < MaxSteps /\ steps' = steps + 1

(* Pi completes an assistant message: it is in the JSONL when its event is  *)
(* published.                                                               *)
PiMessage(m) ==
  /\ Step
  /\ adapter /\ m \notin disk
  /\ disk' = disk \cup {m}
  /\ \E fits \in BOOLEAN : Broadcast(<<>>, <<Event("msg", m, gen)>>, <<>>, fits)
  /\ UNCHANGED <<gen, adapter, run, interactions, up>> /\ Unserved

(* The interaction_request case: the run state is published first.          *)
PiAsk(a) ==
  /\ Step
  /\ adapter
  /\ interactions' = interactions \cup {a}
  /\ run' = "asking"
  /\ Publish(<<Event("run", "asking", gen), Event("ask", a, gen)>>)
  /\ UNCHANGED <<gen, adapter, disk, up>> /\ Unserved

(* The run_state case: ready forgets the pending interactions.              *)
Mutant_StillPending(s) == interactions
StillPending(s) == IF s = "ready" THEN {} ELSE interactions

PiRun(s) ==
  /\ Step
  /\ adapter
  /\ run' = s
  /\ interactions' = StillPending(s)
  /\ Publish(<<Event("run", s, gen)>>)
  /\ UNCHANGED <<gen, adapter, disk, up>> /\ Unserved

(* expirePendingInteraction, by its timer.                                  *)
AskExpires(a) ==
  /\ Step
  /\ a \in interactions
  /\ interactions' = interactions \ {a}
  /\ Publish(<<Event("done", a, gen)>>)
  /\ UNCHANGED <<gen, adapter, run, disk, up>> /\ Unserved

(* acceptInteractionResponse: of an ask that is no longer active an error   *)
(* is published.                                                            *)
Accept(a) ==
  /\ IF a \in interactions
     THEN /\ interactions' = interactions \ {a}
          /\ run' = "running"
          /\ Publish(<<Event("done", a, gen), Event("run", "running", gen)>>)
     ELSE /\ Publish(<<Event("err", "stale", gen)>>)
          /\ UNCHANGED <<interactions, run>>
  /\ UNCHANGED <<gen, adapter, disk>> /\ Unserved

(* Another browser of the session answers.                                  *)
OtherAnswers(a) == Step /\ a \in interactions /\ Accept(a) /\ UNCHANGED up

(* The answer of this page arrives.                                         *)
Answered ==
  /\ link = "up" /\ up # <<>> /\ Head(up).t = "answer"
  /\ up' = Tail(up)
  /\ Accept(Head(up).arg)
  /\ UNCHANGED steps

(* detachPiAdapter: the empty snapshot goes out before the run state.       *)
Detach ==
  /\ Step
  /\ adapter
  /\ adapter' = FALSE
  /\ interactions' = {}
  /\ run' = "disconnected"
  /\ Broadcast(<<AskSnapshot({}, gen)>>, <<Event("run", "disconnected", gen)>>, <<>>, TRUE)
  /\ UNCHANGED <<gen, disk, up>> /\ Unserved

(* attachPiAdapter of the next generation: session_init is numbered and not *)
(* buffered, and an empty snapshot follows it.                              *)
Attach(s) ==
  /\ Step
  /\ ~adapter
  /\ adapter' = TRUE
  /\ gen' = gen + 1
  /\ run' = s
  /\ interactions' = {}
  /\ Broadcast(<<>>, <<Event("init", s, gen + 1)>>, <<AskSnapshot({}, gen + 1)>>, TRUE)
  /\ UNCHANGED <<disk, up>> /\ Unserved

(* broadcastLifecycleUpdate: the orchestrator has launched the session and  *)
(* attached its adapter, or killed it and detached.  The event is numbered  *)
(* and buffered as any other, but neither the run state nor a generation is *)
(* part of it.                                                              *)
Lifecycle(s) ==
  /\ Step
  /\ adapter = (s = "enabled")
  /\ Publish(<<Event("life", s, gen)>>)
  /\ UNCHANGED <<gen, adapter, run, interactions, disk, up>> /\ Unserved

(* The server process restarts: numbers and buffer live in memory only.     *)
(* Frames on their way to the page may still arrive.                        *)
Restart ==
  /\ faults < MaxFaults
  /\ faults' = faults + 1
  /\ adapter' = FALSE /\ run' = "disconnected" /\ interactions' = {}
  /\ nextSeq' = 1 /\ buffer' = <<>>
  /\ subs' = <<>> /\ up' = <<>>
  /\ link' = IF link = "none" THEN "none" ELSE "cut"
  /\ UNCHANGED <<gen, disk, down, cli, page, steps>>

-----------------------------------------------------------------------------
(* The server: subscriptions.                                              *)

(* What handleSessionSubscribe sends after its history, if any, and the     *)
(* interaction snapshot its caller sends when it is done.  events are the   *)
(* missed ones; a history stands in for the messages among them.            *)
Missed(from, withHistory) ==
  Selected(buffer, {i \in DOMAIN buffer :
                      buffer[i].seq > from /\ ~(withHistory /\ HistoryBacked(buffer[i]))})

Closing(events) ==
  (IF events = <<>> THEN <<>> ELSE <<Replay(events)>>)
     \o <<RunFrame, AskSnapshot(interactions, gen)>>

Await(from, reason) ==
  /\ subs' = Append(subs, [from |-> from, reason |-> reason, read |-> FALSE,
                           ok |-> TRUE, msgs |-> {}])
  /\ UNCHANGED down

Earliest == Head(buffer).seq

(* A cursor beyond the last number is of an earlier server: start from 0.   *)
Subscribe ==
  /\ link = "up" /\ up # <<>> /\ Head(up).t = "subscribe"
  /\ up' = Tail(up)
  /\ LET n     == Head(up).arg
         ahead == n > nextSeq - 1
         from  == IF ahead THEN 0 ELSE n
     IN  CASE from = 0 -> Await(0, IF ahead THEN "recovery" ELSE "initial")
           [] from > 0 /\ buffer = <<>> -> Await(from, "recovery")
           [] from > 0 /\ buffer # <<>> /\ from < Earliest - 1 -> Await(from, "gap")
           [] OTHER -> Send(Closing(Missed(from, FALSE))) /\ UNCHANGED subs
  /\ UNCHANGED <<server, link, cli, page, steps, faults>>

(* readHistory takes the document at one moment; the continuation runs      *)
(* later.                                                                   *)
ReadHistory(i) ==
  /\ ~subs[i].read
  /\ \E ok \in BOOLEAN :
       subs' = [subs EXCEPT ![i].read = TRUE, ![i].ok = ok,
                            ![i].msgs = IF ok THEN disk ELSE {}]
  /\ UNCHANGED <<server, link, up, down, cli, page, steps, faults>>

SendHistory(i) ==
  LET s       == subs[i]
      first   == IF s.ok THEN History(s.reason, s.msgs) ELSE Event("err", "history", gen)
      alone   == s.reason = "recovery" /\ s.from > 0
      events  == IF alone THEN <<>> ELSE Missed(s.from, TRUE)
  IN  /\ s.read
      /\ subs' = RemoveAt(subs, i)
      /\ Send(<<first>> \o Closing(events))
      /\ UNCHANGED <<server, link, up, cli, page, steps, faults>>

-----------------------------------------------------------------------------
(* The page: what a frame does to it.                                      *)

(* applyCoreEvent, the error case and the session_lifecycle_update case,    *)
(* which looks at no generation: of a closed session the run state becomes  *)
(* one the bridge never had.                                                *)
Applied(c, e) ==
  IF e.t = "err" THEN [c EXCEPT !.notes = TRUE]
  ELSE IF e.t = "life"
       THEN IF e.arg = "closed" THEN [c EXCEPT !.run = "stopped", !.own = FALSE] ELSE c
  ELSE IF e.gen < c.gen THEN c
  ELSE LET d == [c EXCEPT !.gen = e.gen]
       IN  CASE e.t = "msg"  -> [d EXCEPT !.msgs = @ \cup {e.arg}]
             [] e.t = "ask"  -> [d EXCEPT !.pending = @ \cup {e.arg}, !.run = "asking",
                                          !.own = FALSE]
             [] e.t = "done" -> [d EXCEPT !.pending = @ \ {e.arg}]
             [] OTHER        -> [d EXCEPT !.run = e.arg, !.own = FALSE,
                                          !.pending = IF e.arg = "ready" THEN {} ELSE @]

(* The session_init case; one without a number starts a new connection.     *)
Initialised(c, e) ==
  [c EXCEPT !.seq = IF e.seq = 0 THEN 0 ELSE @,
            !.pending = IF c.gen # 0 /\ c.gen # e.gen THEN {} ELSE @,
            !.gen = e.gen, !.run = e.arg, !.own = FALSE]

(* applyHistory with reset.                                                 *)
Rewritten(c, h) ==
  [c EXCEPT !.seq = IF h.reason = "recovery" THEN 0 ELSE @,
            !.msgs = h.arg, !.notes = FALSE, !.pending = {}]

Snapshotted(c, e) == IF e.gen = c.gen THEN [c EXCEPT !.pending = e.arg] ELSE c

(* The event_replay case: the events the cursor has not passed, in order.   *)
ReplayOne(d, e) == IF e.seq <= d.seq THEN d ELSE Applied([d EXCEPT !.seq = e.seq], e)

Replayed(c, events) ==
  LET after[n \in 0..Len(events)] ==
        IF n = 0 THEN c ELSE ReplayOne(after[n - 1], events[n])
  IN  after[Len(events)]

(* handleParsedMessage.                                                     *)
Handled(c, f) ==
  LET d == [c EXCEPT !.seq = IF f.seq > @ THEN f.seq ELSE @]
  IN  IF f.seq # 0 /\ f.seq <= c.seq THEN c
      ELSE CASE f.t = "init"   -> Initialised(d, f)
             [] f.t = "snap"   -> Snapshotted(d, f)
             [] f.t = "hist"   -> Rewritten(d, f)
             [] f.t = "replay" -> Replayed(d, f.arg)
             [] OTHER          -> Applied(d, f)

(* A frame arrives: any valid one clears the health timer.                  *)
Deliver ==
  /\ link \in {"up", "cut"} /\ down # <<>>
  /\ down' = Tail(down)
  /\ cli' = Handled(cli, Head(down))
  /\ page' = [page EXCEPT !.health = "none"]
  /\ UNCHANGED <<server, subs, link, up, steps, faults>>

-----------------------------------------------------------------------------
(* The page: its socket.                                                   *)

Hydrated == cli.msgs # {} \/ cli.notes
SubscribeSeq == IF Hydrated THEN cli.seq ELSE 0

(* A frame the page sends; into a socket that is cut it is lost.            *)
Post(t, arg) == IF link = "up" THEN Append(up, [t |-> t, arg |-> arg]) ELSE up

(* handleBrowserOpen and the page's onopen.                                 *)
Open ==
  /\ link = "connecting"
  /\ link' = "up"
  /\ down' = <<Event("init", run, gen), AskSnapshot(interactions, gen)>>
               \o (IF adapter THEN <<>> ELSE <<Event("run", "disconnected", gen)>>)
  /\ up' = <<[t |-> "subscribe", arg |-> SubscribeSeq]>>
  /\ page' = [page EXCEPT !.retry = FALSE]
  /\ UNCHANGED <<server, subs, cli, steps, faults>>

(* connectSession: a usable socket is kept, and asked again for the history *)
(* if the page shows nothing.                                               *)
Connect(p) ==
  \/ /\ link = "none"
     /\ link' = "connecting"
     /\ page' = [p EXCEPT !.health = "connect"]
     /\ UNCHANGED up
  \/ /\ link # "none"
     /\ up' = IF link # "connecting" /\ ~Hydrated THEN Post("subscribe", 0) ELSE up
     /\ page' = p
     /\ UNCHANGED link

(* The reconnect timer.                                                     *)
Retry ==
  /\ page.retry
  /\ Connect([page EXCEPT !.retry = FALSE])
  /\ UNCHANGED <<server, subs, down, cli, steps, faults>>

Mutant_Unlinked ==
  /\ link' = "none" /\ up' = <<>> /\ down' = <<>> /\ subs' = <<>>
  /\ page' = [page EXCEPT !.health = "none"]
(* The socket is removed from the registry and a reconnect scheduled.       *)
Unlinked ==
  /\ link' = "none" /\ up' = <<>> /\ down' = <<>> /\ subs' = <<>>
  /\ page' = [page EXCEPT !.health = "none", !.retry = @ \/ ~page.hidden]

(* The connection is lost; the server notices at once, the page later.      *)
Cut ==
  /\ link \in {"connecting", "up"}
  /\ faults < MaxFaults
  /\ faults' = faults + 1
  /\ link' = "cut"
  /\ up' = <<>> /\ subs' = <<>>
  /\ UNCHANGED <<server, down, cli, page, steps>>

(* onclose.                                                                 *)
Closed == link = "cut" /\ Unlinked /\ UNCHANGED <<server, cli, steps, faults>>

(* replaceUnresponsiveSocket: no frame came in time.  Of a socket that is   *)
(* not cut this is a fault.                                                 *)
HealthTimer ==
  /\ page.health # "none"
  /\ link = "cut" \/ faults < MaxFaults
  /\ faults' = IF link = "cut" THEN faults ELSE faults + 1
  /\ Unlinked
  /\ UNCHANGED <<server, cli, steps>>

(* visibilitychange to hidden drops the timers.                             *)
Hide ==
  /\ ~page.hidden
  /\ faults < MaxFaults
  /\ faults' = faults + 1
  /\ page' = [hidden |-> TRUE, retry |-> FALSE, health |-> "none"]
  /\ UNCHANGED <<server, subs, link, up, down, cli, steps>>

(* resumeActiveConnections, when the page is shown or the network is back.  *)
Resumed(p) ==
  \/ /\ link \in {"up", "cut"}
     /\ up' = Post("subscribe", SubscribeSeq)
     /\ page' = [p EXCEPT !.health = "reconcile"]
     /\ UNCHANGED link
  \/ /\ link = "connecting"
     /\ page' = [p EXCEPT !.health = "connect"]
     /\ UNCHANGED <<link, up>>
  \/ /\ link = "none"
     /\ Connect(p)

Resume ==
  /\ page.hidden \/ faults < MaxFaults
  /\ faults' = IF page.hidden THEN faults ELSE faults + 1
  /\ Resumed([page EXCEPT !.hidden = FALSE])
  /\ UNCHANGED <<server, subs, down, cli, steps>>

(* The user answers an interaction the page shows; it is marked as being    *)
(* submitted until the server has the answer.                               *)
AnswerAsk(a) ==
  /\ Step
  /\ a \in cli.pending /\ link = "up"
  /\ [t |-> "answer", arg |-> a] \notin Range(up)
  /\ up' = Post("answer", a)
  /\ UNCHANGED <<server, subs, link, down, cli, page, faults>>

(* The user sends a prompt: the page shows the session running at once, and *)
(* whatever becomes of the prompt no frame takes that back but one with a   *)
(* run state.  The prompt's own way is MessageDelivery's.                   *)
SendPrompt ==
  /\ Step
  /\ link \in {"up", "cut"}
  /\ cli' = [cli EXCEPT !.run = "running", !.own = TRUE]
  /\ UNCHANGED <<server, subs, link, up, down, page, faults>>

-----------------------------------------------------------------------------
PageInit ==
  /\ gen = 1 /\ adapter = TRUE /\ run = "ready" /\ interactions = {}
  /\ nextSeq = 1 /\ buffer = <<>> /\ disk = {}
  /\ subs = <<>> /\ link = "connecting" /\ up = <<>> /\ down = <<>>
  /\ cli = [seq |-> 0, msgs |-> {}, notes |-> FALSE, pending |-> {},
            run |-> "disconnected", own |-> FALSE, gen |-> 0]
  /\ page = [hidden |-> FALSE, retry |-> FALSE, health |-> "connect"]
  /\ steps = 0 /\ faults = 0

PiStep ==
  \/ \E m \in Msgs : PiMessage(m)
  \/ \E a \in Asks : PiAsk(a) \/ AskExpires(a) \/ OtherAnswers(a)
  \/ \E s \in {"ready", "running"} : PiRun(s) \/ Attach(s)
  \/ Detach
  \/ \E s \in {"enabled", "closed"} : Lifecycle(s)

Served ==
  \/ Subscribe
  \/ Answered
  \/ \E i \in DOMAIN subs : ReadHistory(i) \/ SendHistory(i)

PageNext ==
  \/ PiStep
  \/ Served
  \/ Deliver \/ Open \/ Retry \/ Closed
  \/ Restart \/ Cut \/ HealthTimer \/ Hide \/ Resume
  \/ \E a \in Asks : AnswerAsk(a)
  \/ SendPrompt

PageSpec == PageInit /\ [][PageNext]_pageVars

(* The server handles what it received, the network delivers, a timer that  *)
(* is armed fires, and a lost connection is reported in the end (the server *)
(* pings its sockets).  Nobody has to show a hidden page again.             *)
PageFairSpec ==
  /\ PageSpec
  /\ WF_pageVars(Served) /\ WF_pageVars(Deliver) /\ WF_pageVars(Open)
  /\ WF_pageVars(Retry) /\ WF_pageVars(Closed)

-----------------------------------------------------------------------------
(* Interactions wait for an attached adapter only, and the buffer holds the *)
(* latest replayable events in the order of their numbers.                  *)
PageTypeOK ==
  /\ gen \in Nat /\ adapter \in BOOLEAN /\ run \in RunStates
  /\ interactions \subseteq Asks /\ (interactions # {} => adapter)
  /\ nextSeq \in Nat \ {0}
  /\ Len(buffer) <= BufMax
  /\ \A i \in DOMAIN buffer : /\ Buffered(buffer[i]) /\ buffer[i].seq < nextSeq
                              /\ i > 1 => buffer[i - 1].seq < buffer[i].seq
  /\ disk \subseteq Msgs
  /\ link \in {"none", "connecting", "up", "cut"}
  /\ (link # "up" => up = <<>> /\ subs = <<>>)
  /\ cli \in [seq : Nat, msgs : SUBSET Msgs, notes : BOOLEAN, pending : SUBSET Asks,
              run : ShownStates, own : BOOLEAN, gen : Nat]
  /\ page \in [hidden : BOOLEAN, retry : BOOLEAN, health : {"none", "connect", "reconcile"}]

Quiet == link = "up" /\ up = <<>> /\ down = <<>> /\ subs = <<>>

(* Once all frames are handled the page asks for exactly the interactions   *)
(* Pi waits for: the histories that clear them, the replays that bring old  *)
(* ones back and the answers of others leave no difference.                 *)
PendingAgree == Quiet => cli.pending = interactions

(* ... and shows the run state of the session, with two exceptions: of a    *)
(* session closed by a kill it shows "stopped" where the bridge has         *)
(* "disconnected", and after a prompt of its own it shows "running" until   *)
(* the next run state comes, which a prompt the server drops or refuses     *)
(* does not bring.                                                          *)
RunAgree ==
  Quiet => \/ cli.run = run
           \/ cli.run = "stopped" /\ run = "disconnected"
           \/ cli.own

(* What the page shows is the state of the session, after any sequence of   *)
(* drops, replays, snapshots and server restarts.                           *)
PageAgrees == PageTypeOK /\ PendingAgree /\ RunAgree

(* The highest number a frame carries, and whether the frame that starts a  *)
(* connection is still in flight.                                           *)
Number(f) == IF f.t = "replay" THEN Last(f.arg).seq ELSE f.seq
Starting == \E i \in DOMAIN down : down[i].t = "init" /\ down[i].seq = 0

(* The numbers of a connection never make the page drop a live event: each  *)
(* is past the cursor and past everything in flight before it.              *)
LiveNotDropped ==
  \A k \in DOMAIN down :
    down[k].seq # 0 =>
      /\ ~Starting => down[k].seq > cli.seq
      /\ \A i \in 1..(k - 1) : Number(down[i]) < down[k].seq

(* "Agent messages are recoverable from the exact Pi JSONL": once all       *)
(* frames are handled, a page that was not told of an error shows every     *)
(* message Pi has on disk.                                                  *)
HistoryShown == Quiet /\ ~cli.notes => disk \subseteq cli.msgs

(* A page that stays visible is connected and up to date again and again,   *)
(* whatever was lost, restarted or hidden before.                           *)
CatchesUp == <>[](~page.hidden) => []<>Quiet

=============================================================================
