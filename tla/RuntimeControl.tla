--------------------------- MODULE RuntimeControl ---------------------------
(***************************************************************************)
(* One session of the split deployment: the Web process drives a Pi child  *)
(* it does not own, through the control socket of the Runtime process.     *)
(* The Web side is RemotePiRuntimeBackend over RuntimeControlClient, the   *)
(* Runtime side RuntimeControlServer, PiRuntimeService and its PiLauncher. *)
(* Connections are numbered; requests of a connection that is gone go on   *)
(* at the Runtime, and their answers are dropped.                          *)
(*                                                                         *)
(* Operators named Mutant_... are faulty variants of the definition that   *)
(* follows them, kept to show that the properties can fail.                *)
(***************************************************************************)
EXTENDS Naturals, Sequences, FiniteSets

CONSTANTS
    MaxJobs,      \* bound: launches, kills and relaunches the Web asks for
    MaxDrops,     \* bound: connections that break
    MaxRestarts,  \* bound: restarts of the Web process
    MaxStubborn   \* bound: kills the child survives

ASSUME ControlAssumption ==
    /\ MaxJobs \in Nat /\ MaxDrops \in Nat /\ MaxRestarts \in Nat /\ MaxStubborn \in Nat

VARIABLES
    job,       \* the Web's operation under way (the orchestrator serializes them)
    web,       \* generation last attached, transport of the sessions map, killed by us
    open,      \* generations whose RemotePiRpcTransport is not closed
    sock,      \* the client's connection: number, and whether it is usable
    late,      \* the close event of an older connection has not fired yet
    inbox,     \* frames on their way to the client, on its connection
    work,      \* requests at the Runtime, with the place of their handler
    prepared,  \* PiRuntimeService.prepared: generation and nonce
    active,    \* PiRuntimeService.active: generation and connection
    lgen,      \* PiLauncher.generations
    linfo,     \* PiLauncher.sessions: state of the session
    children,  \* Pi processes: generation, connection of their events, stage
    delivered, \* pairs: generation of a request, generation of the child it reached
    missed,    \* last generation whose exit was handled before its transport listened
    jobs, nonces, drops, restarts, stubborn

vars == <<job, web, open, sock, late, inbox, work, prepared, active, lgen, linfo, children,
          delivered, missed, jobs, nonces, drops, restarts, stubborn>>
webVars == <<job, web, open, missed, jobs>>
netVars == <<sock, late, inbox>>
serviceVars == <<prepared, active, nonces>>
launcherVars == <<lgen, linfo, children>>
faults == <<drops, restarts, stubborn>>

Nobody == [gen |-> 0, conn |-> 0]
Idle == [kind |-> "none", pc |-> "idle", gen |-> 0]

Init ==
    /\ job = Idle
    /\ web = [gen |-> 0, cur |-> 0, killed |-> FALSE] /\ open = {}
    /\ sock = [id |-> 0, up |-> FALSE] /\ late = FALSE /\ inbox = <<>>
    /\ work = {}
    /\ prepared = [gen |-> 0, nonce |-> 0] /\ active = Nobody /\ nonces = 0
    /\ lgen = 0 /\ linfo = "none" /\ children = {}
    /\ delivered = {} /\ missed = 0 /\ jobs = 0 /\ drops = 0 /\ restarts = 0 /\ stubborn = 0

\* PiLauncher.runtimes: a child is entered once it is ready.
Runtimes == {c \in children : c.stage # "starting"}

-----------------------------------------------------------------------------
(* The Web process *)

Request(op, gen, conn, arg) ==
    [op |-> op, gen |-> gen, conn |-> conn, arg |-> arg, job |-> jobs', pc |-> "sent"]

\* RuntimeControlClient.request: connects if the socket is gone, and writes.
Send(op, gen, arg, frames) ==
    LET id == IF sock.up THEN sock.id ELSE sock.id + 1
    IN  /\ sock' = [id |-> id, up |-> TRUE]
        /\ inbox' = IF sock.up THEN frames ELSE <<>>
        /\ work' = work \cup {Request(op, gen, id, arg)}

\* launch begins by asking for the status.
BeginLaunch(frames) ==
    /\ job' = [kind |-> "launch", pc |-> "status", gen |-> web.gen + 1]
    /\ Send("status", web.gen + 1, 0, frames)

Prepare(frames) ==
    /\ job' = [job EXCEPT !.pc = "prepare"]
    /\ Send("prepare", job.gen, 0, frames)

EndJob(frames) ==
    job' = Idle /\ inbox' = frames /\ UNCHANGED <<sock, work>>

\* activateSession and createSession.
StartLaunch ==
    /\ job.pc = "idle" /\ web.cur \notin open
    /\ jobs < MaxJobs /\ jobs' = jobs + 1
    /\ BeginLaunch(inbox)
    /\ web' = [web EXCEPT !.killed = FALSE]
    /\ UNCHANGED <<open, missed, late, serviceVars, launcherVars, delivered, faults>>

\* killSession, and relaunchSession, which launches whatever the kill answers.
\* Without a transport there is nothing to ask the Runtime for.
StartKill(kind) ==
    /\ job.pc = "idle" /\ web.cur # 0
    /\ jobs < MaxJobs /\ jobs' = jobs + 1
    /\ job' = [kind |-> kind, pc |-> "kill", gen |-> web.gen]
    /\ Send("kill", web.gen, 0, inbox)
    /\ UNCHANGED <<web, open, missed, late, serviceVars, launcherVars, delivered, faults>>

AfterKill(frames) == IF job.kind = "relaunch" THEN BeginLaunch(frames) ELSE EndJob(frames)

\* attachRemoteSession: an older transport that is still open stays open.
Attach ==
    /\ web' = [gen |-> job.gen, cur |-> job.gen, killed |-> FALSE]
    /\ open' = open \cup {job.gen}

\* The answer that ends a launch resolves its promise; handleData goes on with the
\* frames of the same chunk before the launch takes it up.
Resolve(frames) ==
    job' = [job EXCEPT !.pc = "attach"] /\ inbox' = frames /\ UNCHANGED <<sock, work>>

\* The launch takes up its answer: from here on the exits of the child are heard.
Attached ==
    /\ job.pc = "attach" /\ jobs' = jobs
    /\ Attach /\ EndJob(inbox)
    /\ UNCHANGED <<missed, late, serviceVars, launcherVars, delivered, faults>>

\* handleData, a response: it continues the job that awaits it, if any.
Receive ==
    LET f == Head(inbox)
        rest == Tail(inbox)
        awaited == f.job = jobs /\ f.op = job.pc
    IN  /\ inbox # <<>> /\ f.op # "lifecycle"
        /\ jobs' = jobs
        /\ \/ /\ ~awaited
              /\ inbox' = rest /\ UNCHANGED <<job, web, open, sock, work>>
           \/ /\ awaited /\ f.op = "status"
              /\ IF f.ok /\ f.alive
                 THEN IF f.gen = job.gen THEN Resolve(rest) ELSE EndJob(rest)
                 ELSE Prepare(rest)
              /\ UNCHANGED <<web, open>>
           \/ /\ awaited /\ f.op = "prepare" /\ f.ok
              /\ job' = [job EXCEPT !.pc = "bootstrap"]
              /\ Send("bootstrap", job.gen, f.gen, rest) /\ UNCHANGED <<web, open>>
           \/ /\ awaited /\ f.op = "bootstrap" /\ f.ok
              /\ Resolve(rest) /\ UNCHANGED <<web, open>>
           \/ /\ awaited /\ f.op \in {"prepare", "bootstrap"} /\ ~f.ok
              /\ EndJob(rest) /\ UNCHANGED <<web, open>>
           \/ /\ awaited /\ f.op = "kill" /\ f.ok
              /\ open' = open \ {web.cur}
              /\ web' = [web EXCEPT !.cur = 0, !.killed = f.alive /\ job.kind = "kill"]
              /\ AfterKill(rest)
           \/ /\ awaited /\ f.op = "kill" /\ ~f.ok
              /\ AfterKill(rest) /\ UNCHANGED <<web, open>>
        /\ UNCHANGED <<missed, late, serviceVars, launcherVars, delivered, faults>>

\* A lifecycle event of the transport's own scope closes it; an event nobody has
\* subscribed to yet is lost.
ReceiveExit ==
    LET f == Head(inbox)
    IN  /\ inbox # <<>> /\ f.op = "lifecycle"
        /\ inbox' = Tail(inbox)
        /\ open' = open \ {f.gen}
        /\ web' = IF f.gen \in open /\ web.gen = f.gen THEN [web EXCEPT !.cur = 0] ELSE web
        /\ missed' = IF job.pc = "attach" /\ f.gen = job.gen THEN f.gen ELSE missed
        /\ UNCHANGED <<job, jobs, sock, late, work, serviceVars, launcherVars, delivered, faults>>

\* A call of an open transport, and the interrupt a call sends when it times out.
Call(g) ==
    /\ g \in open
    /\ LET id == IF sock.up THEN sock.id ELSE sock.id + 1
           r == [op |-> "request", gen |-> g, conn |-> id, arg |-> 0, job |-> 0, pc |-> "sent"]
       IN  /\ r \notin work /\ work' = work \cup {r}
           /\ sock' = [id |-> id, up |-> TRUE]
           /\ inbox' = IF sock.up THEN inbox ELSE <<>>
    /\ UNCHANGED <<webVars, late, serviceVars, launcherVars, delivered, faults>>

\* The socket is destroyed; its close event fires later.
Drop ==
    /\ sock.up /\ ~late /\ drops < MaxDrops /\ drops' = drops + 1
    /\ sock' = [sock EXCEPT !.up = FALSE] /\ inbox' = <<>> /\ late' = TRUE
    /\ UNCHANGED <<webVars, work, serviceVars, launcherVars, delivered, restarts, stubborn>>

\* Faulty handler: the requests that wait are not rejected.
Mutant_CloseEvent ==
    /\ late /\ late' = FALSE
    /\ UNCHANGED <<webVars, sock, inbox, work, serviceVars, launcherVars, delivered, faults>>

\* client.fail rejects whatever is pending, a request of the next connection too.
CloseEvent ==
    /\ late /\ late' = FALSE /\ jobs' = jobs
    /\ CASE job.pc \in {"idle", "attach"} -> UNCHANGED <<job, sock, inbox, work>>
         [] job.pc = "status" -> Prepare(inbox)
         [] job.pc = "kill" -> AfterKill(inbox)
         [] OTHER -> EndJob(inbox)
    /\ UNCHANGED <<web, open, missed, serviceVars, launcherVars, delivered, faults>>

\* The Web process restarts; session.json keeps no generation.
Restart ==
    /\ restarts < MaxRestarts /\ restarts' = restarts + 1
    /\ job' = Idle /\ web' = [gen |-> 0, cur |-> 0, killed |-> FALSE] /\ open' = {}
    /\ missed' = 0 /\ sock' = [sock EXCEPT !.up = FALSE] /\ late' = FALSE /\ inbox' = <<>>
    /\ UNCHANGED <<work, serviceVars, launcherVars, delivered, jobs, drops, stubborn>>

-----------------------------------------------------------------------------
(* The Runtime process *)

\* A frame on a connection: lost unless the client still uses it.
Deliver(conn, frame) ==
    inbox' = IF sock.up /\ sock.id = conn THEN Append(inbox, frame) ELSE inbox

Reply(r, ok, alive, gen) ==
    /\ work' = work \ {r}
    /\ Deliver(r.conn, [op |-> r.op, job |-> r.job, ok |-> ok, alive |-> alive, gen |-> gen])

Advance(r, pc, arg) ==
    work' = (work \ {r}) \cup {[r EXCEPT !.pc = pc, !.arg = arg]} /\ UNCHANGED inbox

\* rebindActiveConnection throws for another scope.
Stale(r) == active.gen # 0 /\ active.gen # r.gen

\* An entry of the scope gets the request's connection; its events do not.
Rebound(r) == IF active.gen # 0 THEN [active EXCEPT !.conn = r.conn] ELSE active

ServeStatus(r) ==
    /\ r.op = "status"
    /\ IF Stale(r) THEN Reply(r, FALSE, FALSE, 0) /\ UNCHANGED active
       ELSE /\ active' = Rebound(r)
            /\ \/ \E c \in Runtimes : Reply(r, TRUE, TRUE, c.gen)
               \/ Runtimes = {} /\ Reply(r, TRUE, FALSE, 0)
    /\ UNCHANGED <<prepared, nonces, launcherVars, delivered, stubborn>>

\* launch.prepare: a new nonce replaces the one of the same scope.
ServePrepare(r) ==
    /\ r.op = "prepare"
    /\ IF active.gen = 0 /\ prepared.gen \in {0, r.gen}
       THEN /\ nonces' = nonces + 1
            /\ prepared' = [gen |-> r.gen, nonce |-> nonces + 1]
            /\ Reply(r, TRUE, FALSE, nonces + 1)
       ELSE Reply(r, FALSE, FALSE, 0) /\ UNCHANGED <<prepared, nonces>>
    /\ UNCHANGED <<active, launcherVars, delivered, stubborn>>

\* normalizeBootstrap: the payload is bound to the launcher's next generation.
Binds(gen) == gen = lgen + 1

\* launch.bootstrap up to the spawn; the launcher counts a generation it then refuses.
ServeBootstrap(r) ==
    /\ r.op = "bootstrap" /\ r.pc = "sent"
    /\ IF prepared # [gen |-> r.gen, nonce |-> r.arg]
       THEN Reply(r, FALSE, FALSE, 0) /\ UNCHANGED <<prepared, launcherVars>>
       ELSE /\ prepared' = [gen |-> 0, nonce |-> 0]
            /\ \/ /\ Runtimes # {} /\ Reply(r, FALSE, FALSE, 0) /\ UNCHANGED launcherVars
               \/ /\ Runtimes = {} /\ ~Binds(r.gen)
                  /\ lgen' = lgen + 1 /\ Reply(r, FALSE, FALSE, 0)
                  /\ UNCHANGED <<linfo, children>>
               \/ /\ Runtimes = {} /\ Binds(r.gen)
                  /\ lgen' = lgen + 1 /\ linfo' = "live"
                  /\ children' = children \cup {[gen |-> lgen + 1, conn |-> r.conn, stage |-> "starting"]}
                  /\ Advance(r, "starting", lgen + 1)
    /\ UNCHANGED <<active, nonces, delivered, stubborn>>

Launching(r, c) == r.op = "bootstrap" /\ c.gen = r.arg

\* Pi is ready; a transport whose generation is no longer the launcher's is not.
Publish(r, c) ==
    /\ Launching(r, c) /\ r.pc = "starting" /\ lgen = c.gen
    /\ children' = (children \ {c}) \cup {[c EXCEPT !.stage = "up"]}
    /\ Advance(r, "publishing", r.arg)
    /\ UNCHANGED <<lgen, linfo, serviceVars, delivered, stubborn>>

\* The launch throws: before Pi was ready ...
LaunchFails(r, c) ==
    /\ Launching(r, c) /\ r.pc = "starting"
    /\ children' = children \ {c}
    /\ linfo' = IF lgen = c.gen THEN "exited" ELSE linfo
    /\ Reply(r, FALSE, FALSE, 0)
    /\ UNCHANGED <<lgen, serviceVars, delivered, stubborn>>

\* ... or with a child that survives the SIGKILL, which is kept ...
LaunchRetains(r, c) ==
    /\ Launching(r, c) /\ r.pc = "starting" /\ stubborn < MaxStubborn
    /\ stubborn' = stubborn + 1
    /\ children' = (children \ {c}) \cup {[c EXCEPT !.stage = "terminating"]}
    /\ lgen' = IF lgen > c.gen THEN lgen ELSE c.gen + 1
    /\ Reply(r, FALSE, FALSE, 0)
    /\ UNCHANGED <<linfo, serviceVars, delivered>>

\* ... or after it was published, when its bootstrap was never consumed.
LaunchUndone(r, c) ==
    /\ Launching(r, c) /\ r.pc = "publishing" /\ c.stage = "up"
    /\ children' = (children \ {c}) \cup {[c EXCEPT !.stage = "terminating"]}
    /\ lgen' = IF lgen > c.gen THEN lgen ELSE c.gen + 1
    /\ Advance(r, "undoing", r.arg)
    /\ UNCHANGED <<linfo, serviceVars, delivered, stubborn>>

UndoneAnswer(r) ==
    /\ r.op = "bootstrap" /\ r.pc = "undoing"
    /\ \A c \in children : c.gen # r.arg
    /\ Reply(r, FALSE, FALSE, 0)
    /\ UNCHANGED <<serviceVars, launcherVars, delivered, stubborn>>

\* The launch returns: the scope is active, also when the child has exited meanwhile.
LaunchReturns(r) ==
    /\ r.op = "bootstrap" /\ r.pc = "publishing"
    /\ linfo' = "live"
    /\ active' = [gen |-> r.gen, conn |-> r.conn]
    /\ Reply(r, TRUE, TRUE, r.gen)
    /\ UNCHANGED <<prepared, nonces, lgen, children, delivered, stubborn>>

\* Faulty onExit: the entry of the session stays.
Mutant_Exited == active

\* onExit deletes the session's entry, whichever scope it has.
Exited == Nobody

\* The child exits: its event goes to the connection it was launched from.
ChildExits(c) ==
    /\ c.stage \in {"up", "terminating"}
    /\ children' = children \ {c} /\ linfo' = "exited"
    /\ active' = Exited
    /\ Deliver(c.conn, [op |-> "lifecycle", gen |-> c.gen])
    /\ UNCHANGED <<webVars, sock, late, work, prepared, nonces, lgen, delivered, faults>>

\* kill: without an entry there is nothing to do; without a child the launcher
\* answers from the state it remembers.
ServeKill(r) ==
    /\ r.op = "kill" /\ r.pc = "sent"
    /\ IF Stale(r) THEN Reply(r, FALSE, FALSE, 0) /\ UNCHANGED <<active, launcherVars>>
       ELSE \/ /\ active.gen = 0 /\ Reply(r, TRUE, TRUE, 0) /\ UNCHANGED <<active, launcherVars>>
            \/ /\ active.gen # 0 /\ Runtimes = {}
               /\ active' = Nobody
               /\ Reply(r, TRUE, linfo \in {"none", "exited"}, 0) /\ UNCHANGED launcherVars
            \/ \E c \in Runtimes :
               /\ active.gen # 0
               /\ active' = Rebound(r)
               /\ children' = (children \ {c}) \cup {[c EXCEPT !.stage = "terminating"]}
               /\ lgen' = IF lgen > c.gen THEN lgen ELSE c.gen + 1
               /\ Advance(r, "killing", c.gen) /\ UNCHANGED linfo
    /\ UNCHANGED <<prepared, nonces, delivered, stubborn>>

\* Faulty kill: the answer does not wait for the process.
Mutant_Gone(gen) == TRUE

\* waitForChildExit.
Gone(gen) == \A c \in children : c.gen # gen

\* The awaited kill returns; the entry is deleted whatever it returned.
KillReturns(r) ==
    /\ r.op = "kill" /\ r.pc = "killing"
    /\ \/ Gone(r.arg) /\ Reply(r, TRUE, TRUE, 0) /\ UNCHANGED stubborn
       \/ /\ ~Gone(r.arg) /\ stubborn < MaxStubborn /\ stubborn' = stubborn + 1
          /\ Reply(r, TRUE, FALSE, 0)
    /\ active' = Nobody
    /\ UNCHANGED <<prepared, nonces, launcherVars, delivered>>

\* Faulty check: the scope of the request is not compared.
Mutant_Transport(r) == {c \in Runtimes : c.stage = "up"}

\* transport(): entry, child and launcher have the generation of the request.
Transport(r) == {c \in Runtimes : c.stage = "up" /\ active.gen = r.gen /\ c.gen = r.gen}

ServeRequest(r) ==
    /\ r.op = "request"
    /\ work' = work \ {r}
    /\ active' = IF Stale(r) THEN active ELSE Rebound(r)
    /\ delivered' = delivered \cup {<<r.gen, c.gen>> : c \in Transport(r)}
    /\ UNCHANGED <<inbox, prepared, nonces, launcherVars, stubborn>>

Serve(r) ==
    /\ \/ ServeStatus(r) \/ ServePrepare(r) \/ ServeBootstrap(r)
       \/ \E c \in children :
             Publish(r, c) \/ LaunchFails(r, c) \/ LaunchRetains(r, c) \/ LaunchUndone(r, c)
       \/ UndoneAnswer(r) \/ LaunchReturns(r)
       \/ ServeKill(r) \/ KillReturns(r) \/ ServeRequest(r)
    /\ UNCHANGED <<webVars, sock, late, drops, restarts>>

-----------------------------------------------------------------------------
Next ==
    \/ StartLaunch \/ \E kind \in {"kill", "relaunch"} : StartKill(kind)
    \/ Receive \/ ReceiveExit \/ Attached \/ \E g \in open : Call(g)
    \/ Drop \/ CloseEvent \/ Restart
    \/ \E r \in work : Serve(r)
    \/ \E c \in children : ChildExits(c)

Spec == Init /\ [][Next]_vars

\* Frames arrive, handlers run and their awaits have timeouts, and a child that was
\* sent SIGKILL exits in the end.
Fairness ==
    /\ WF_vars(Receive) /\ WF_vars(ReceiveExit) /\ WF_vars(Attached) /\ WF_vars(CloseEvent)
    /\ WF_vars(\E r \in work : r.op # "request" /\ Serve(r))
    /\ WF_vars(\E c \in children : c.stage = "terminating" /\ ChildExits(c))

FairSpec == Spec /\ Fairness

-----------------------------------------------------------------------------
(* Properties *)

\* The maps of both processes hold what they may hold; a request rebinds an entry and
\* never makes one.
TypeOK ==
    /\ job.pc \in {"idle", "status", "prepare", "bootstrap", "attach", "kill"}
    /\ web.cur \in {0, web.gen} /\ open \subseteq 1..MaxJobs
    /\ prepared.gen = 0 <=> prepared.nonce = 0
    /\ active.gen \in 0..MaxJobs /\ active.conn <= sock.id
    /\ active.gen = 0 <=> active.conn = 0
    /\ linfo \in {"none", "live", "exited"}
    /\ \A c \in children : c.gen <= lgen /\ c.stage \in {"starting", "up", "terminating"}

\* The Runtime never has two Pi processes of the session, although the launcher enters
\* a child only when it is ready and a broken connection lets the Web launch again.
OneChild == Cardinality(children) <= 1

\* A request reaches a child of its own generation: a transport that missed the exit
\* of its child never talks to the next one.
RightChild == \A d \in delivered : d[1] = d[2]

\* One child, and whoever talks to a child talks to the right one.
ChildSound == TypeOK /\ OneChild /\ RightChild

\* While no connection broke and every kill succeeded, a session the Web shows as
\* killed has no process.
KilledIsGone ==
    web.killed /\ drops = 0 /\ restarts = 0 /\ stubborn = 0 => children = {}

\* While no connection broke and every kill succeeded, both processes agree between
\* two operations which generation is active, also when the child exited in the middle
\* of its launch.  The exception: its exit came in one chunk with the answer of its
\* launch and was handled before the launch subscribed, so the Web never learns of it.
AgreeWhenQuiet ==
    drops = 0 /\ restarts = 0 /\ stubborn = 0 /\ job.pc = "idle" /\ inbox = <<>>
        => web.cur = active.gen \/ (active.gen = 0 /\ web.cur = missed)

\* Every launch and every kill of the Web ends, whatever connection breaks.
JobEnds == job.pc # "idle" ~> job.pc = "idle"

\* The comment at the status request of RemotePiRuntimeBackend.launch: it rebinds the
\* event connection, so that the events of an adopted Pi reach the Web.
AdoptedHears ==
    \A c \in children :
        c.gen = web.cur /\ web.cur \in open /\ sock.up /\ active.conn = sock.id
            => c.conn = sock.id

\* The comment at nextLaunchGeneration: it is the generation the next launch binds.
LaunchBinds ==
    \A r \in work :
        /\ r.op = "bootstrap" /\ r.pc = "sent"
        /\ drops = 0 /\ restarts = 0 /\ stubborn = 0
        => Binds(r.gen)
=============================================================================
