------------------------ MODULE RuntimeControlProofs ------------------------
(***************************************************************************)
(* For every number of jobs, broken connections, restarts of the Web and   *)
(* failing kills: the Runtime has one Pi process of the session at most    *)
(* and requests reach the child of their own generation.  While nothing    *)
(* breaks, what the Web shows as killed is gone and both processes agree   *)
(* between two operations.                                                 *)
(***************************************************************************)
EXTENDS RuntimeControl, FiniteSetTheorems, TLAPS

Asked == {"status", "prepare", "bootstrap"}
Control == Asked \cup {"kill"}
InLaunch == Asked \cup {"attach"}
Places == {"sent", "starting", "publishing", "undoing", "killing"}
Stages == {"starting", "up", "terminating"}

Answers == [op : Control, job : Nat, ok : BOOLEAN, alive : BOOLEAN, gen : Nat]
Exits == [op : {"lifecycle"}, gen : Nat]
Frames == Answers \cup Exits
Requests == [op : Control \cup {"request"}, gen : Nat, conn : Nat, arg : Nat, job : Nat, pc : Places]
Processes == [gen : Nat, conn : Nat, stage : Stages]
Jobs == [kind : {"none", "launch", "kill", "relaunch"}, pc : {"idle", "attach"} \cup Control, gen : Nat]

(* Every field of both processes.                                          *)
Types ==
    /\ job \in Jobs
    /\ web \in [gen : Nat, cur : Nat, killed : BOOLEAN]
    /\ open \subseteq Nat
    /\ sock \in [id : Nat, up : BOOLEAN] /\ late \in BOOLEAN
    /\ inbox \in Seq(Frames)
    /\ work \subseteq Requests
    /\ prepared \in [gen : Nat, nonce : Nat] /\ active \in [gen : Nat, conn : Nat]
    /\ lgen \in Nat /\ linfo \in {"none", "live", "exited"}
    /\ children \subseteq Processes
    /\ missed \in Nat /\ jobs \in Nat /\ nonces \in Nat /\ drops \in Nat /\ restarts \in Nat /\ stubborn \in Nat

(* The Web counts a generation only when a child of it was ready, so it    *)
(* never runs ahead of the launcher.                                       *)
JobFacts ==
    /\ web.cur \in {0, web.gen} /\ web.gen <= lgen /\ web.gen <= jobs /\ jobs <= MaxJobs
    /\ open \subseteq 1..web.gen
    /\ web.cur # 0 => web.cur \in open
    /\ job.pc = "idle" <=> job.kind = "none"
    /\ job.pc \in InLaunch <=> job.kind = "launch"
    /\ job.pc # "idle" => web.gen < jobs
    /\ job.kind = "launch" => job.gen = web.gen + 1

WebFacts == JobFacts /\ (sock.up => sock.id # 0)

(* The maps of the service: an entry has a generation and a connection.    *)
ServiceFacts ==
    /\ prepared.gen = 0 <=> prepared.nonce = 0
    /\ active.gen <= jobs /\ active.conn <= sock.id
    /\ active.gen = 0 <=> active.conn = 0

(* A request under way; only those of the current job can be awaited.      *)
Awaitable(j) == j = jobs /\ job.pc # "idle"

RequestFact(r) ==
    /\ r.gen # 0 /\ r.gen <= jobs /\ r.gen <= lgen + 1
    /\ r.conn # 0 /\ r.conn <= sock.id /\ r.job <= jobs
    /\ r.pc \in {"starting", "publishing", "undoing"} => r.op = "bootstrap" /\ r.arg = r.gen /\ r.arg <= lgen
    /\ r.pc = "killing" => r.op = "kill"
    /\ r.op \in Asked /\ Awaitable(r.job) => job.kind = "launch" /\ r.gen = job.gen

RequestFacts == \A r \in work : RequestFact(r)

(* No child of this generation will be published any more.                 *)
Ready(g) == g <= lgen /\ \A c \in children : c.stage = "starting" => c.gen # g

(* An answer on its way.  One that says a child is there names a child     *)
(* that was published, and so does the answer a launch is about to take    *)
(* up.                                                                     *)
Announces(f) == f.op \in {"status", "bootstrap"} /\ f.ok /\ f.alive

AnswerFact(f) ==
    /\ f.job <= jobs
    /\ f.op = "bootstrap" /\ f.ok =>
         f.alive /\ (Awaitable(f.job) => job.kind = "launch" /\ f.gen = job.gen)
    /\ Announces(f) => Ready(f.gen)

Received == {inbox[i] : i \in 1..Len(inbox)}

AnswerFacts ==
    /\ \A f \in Received : f.op # "lifecycle" => AnswerFact(f)
    /\ job.pc = "attach" => Ready(job.gen)

(* One child at most; while it starts, no request of a later generation    *)
(* exists, so that none binds the launcher's next one.                     *)
ChildFact(c) ==
    /\ c.gen # 0 /\ c.gen <= lgen /\ c.conn # 0 /\ c.conn <= sock.id
    /\ c.stage = "starting" =>
         /\ web.gen < c.gen
         /\ \A r \in work : r.gen <= c.gen /\ (r.pc \in {"publishing", "undoing"} => r.arg # c.gen)

ChildFacts == (\A c, d \in children : c = d) /\ \A c \in children : ChildFact(c)

-----------------------------------------------------------------------------
(* While no connection broke, the Web did not restart and every kill       *)
(* succeeded.                                                              *)
Undisturbed == drops = 0 /\ restarts = 0 /\ stubborn = 0

IsAnswer(i) == inbox[i].op # "lifecycle"
IsExit(i, g) == inbox[i].op = "lifecycle" /\ inbox[i].gen = g
NoAnswers == \A i \in 1..Len(inbox) : ~IsAnswer(i)
NoKillAnswer == \A i \in 1..Len(inbox) : inbox[i].op # "kill"
Launched(i) == inbox[i].op = "bootstrap" /\ inbox[i].ok

(* There is one connection.                                                *)
OneConnection == ~late /\ sock.id <= 1 /\ (sock.id = 1 => sock.up) /\ (~sock.up => inbox = <<>>)

(* A job has one request or one answer under way.                          *)
OneInFlight ==
    /\ \A r \in work : r.op # "request" => job.pc = r.op /\ r.job = jobs /\ NoAnswers
    /\ \A r, q \in work : r.op # "request" /\ q.op # "request" => r = q
    /\ \A i \in 1..Len(inbox) : IsAnswer(i) => job.pc = inbox[i].op /\ inbox[i].job = jobs
    /\ \A i, k \in 1..Len(inbox) : IsAnswer(i) /\ IsAnswer(k) => k = i

(* A child is that of the entry, or its launch is under way.               *)
ChildKnown(c) ==
    \/ c.stage # "starting" /\ active.gen = c.gen
    \/ active.gen = 0 /\ \E r \in work : r.op = "bootstrap" /\ r.pc # "sent" /\ r.arg = c.gen

Accounted ==
    /\ \A c \in children : ChildKnown(c)
    /\ \A r \in work : r.op = "kill" => r.gen = web.gen
    /\ \A r \in work : r.pc = "killing" => \A c \in children : c.gen = r.arg

(* What an answer tells the Web, and what the exits behind it take back.   *)
Tells(i) ==
    /\ inbox[i].op = "status" => ~inbox[i].alive
    /\ inbox[i].op = "kill" => inbox[i].ok /\ active.gen = 0 /\ (inbox[i].alive => children = {})
    /\ Launched(i) /\ (\E k \in 1..Len(inbox) : k > i /\ IsExit(k, job.gen)) => active.gen = 0
    /\ Launched(i) /\ (\A k \in 1..Len(inbox) : k > i => ~IsExit(k, job.gen)) => active.gen = job.gen

(* The Web is told of the exit that emptied the entry, or it has the same  *)
(* generation as the entry, or that exit was lost to it.                   *)
AgreedOn(g) ==
    \/ active.gen = 0 /\ \E i \in 1..Len(inbox) : IsExit(i, g)
    \/ active.gen = g /\ \A i \in 1..Len(inbox) : ~IsExit(i, g)
    \/ active.gen = 0 /\ g \in {0, missed}

Told ==
    /\ \A i \in 1..Len(inbox) : Tells(i)
    /\ job.kind = "launch" => web.cur = 0
    /\ job.pc \in Asked /\ (\A i \in 1..Len(inbox) : ~Launched(i)) => active.gen = 0
    /\ job.pc = "attach" => AgreedOn(job.gen)
    /\ job.kind # "launch" /\ NoKillAnswer => AgreedOn(web.cur)
    /\ web.killed => job.pc = "idle" /\ web.cur = 0 /\ children = {}

QuietFacts == OneConnection /\ OneInFlight /\ Accounted /\ Told

Quiet == Undisturbed => QuietFacts

Safe == Types /\ WebFacts /\ ServiceFacts /\ RequestFacts /\ AnswerFacts /\ ChildFacts /\ RightChild

IInv == Safe /\ Quiet

-----------------------------------------------------------------------------
(* Frames and requests *)

LEMMA TailFacts ==
    ASSUME NEW s \in Seq(Frames), s # <<>>
    PROVE  /\ Len(s) \in Nat \ {0} /\ Head(s) = s[1] /\ Head(s) \in Frames
           /\ Tail(s) \in Seq(Frames) /\ Len(Tail(s)) = Len(s) - 1
           /\ \A i \in 1..Len(Tail(s)) : i + 1 \in 1..Len(s) /\ Tail(s)[i] = s[i+1]
  OBVIOUS

LEMMA AppendFacts ==
    ASSUME NEW s \in Seq(Frames), NEW f \in Frames
    PROVE  /\ Append(s, f) \in Seq(Frames) /\ Len(Append(s, f)) = Len(s) + 1
           /\ \A i \in 1..Len(s) : Append(s, f)[i] = s[i]
           /\ Append(s, f)[Len(s) + 1] = f
  OBVIOUS

LEMMA ReceivedTyped == Types => Received \subseteq Frames
  BY DEF Types, Received

(* The client takes the first frame, or loses all of them.                 *)
LEMMA ReceivedKept ==
    ASSUME Types, inbox' \in {inbox, <<>>} \/ (inbox # <<>> /\ inbox' = Tail(inbox))
    PROVE  Received' \subseteq Received
  <1>1. CASE inbox' = inbox
    BY <1>1 DEF Received
  <1>2. CASE inbox' = <<>>
    <2>1. Len(inbox') = 0
      BY <1>2
    <2> QED
      BY <2>1 DEF Received
  <1>3. CASE inbox # <<>> /\ inbox' = Tail(inbox)
    <2>1. inbox \in Seq(Frames)
      BY DEF Types
    <2>2. \A i \in 1..Len(inbox') : i + 1 \in 1..Len(inbox) /\ inbox'[i] = inbox[i+1]
      BY <1>3, <2>1, TailFacts
    <2> QED
      BY <2>2 DEF Received
  <1> QED
    BY <1>1, <1>2, <1>3

(* Send puts one request of the current job on the client's connection.    *)
Sent(r, op, gen, arg, frames) ==
    /\ r = [op |-> op, gen |-> gen, conn |-> sock'.id, arg |-> arg, job |-> jobs', pc |-> "sent"]
    /\ work' = work \cup {r}
    /\ sock' \in [id : Nat, up : BOOLEAN] /\ sock'.up /\ sock.id <= sock'.id /\ sock'.id # 0
    /\ sock.up => sock'.id = sock.id
    /\ ~sock.up => sock'.id = sock.id + 1
    /\ inbox' \in Seq(Frames) /\ (inbox' = frames \/ inbox' = <<>>)
    /\ sock.up => inbox' = frames

LEMMA SendFacts ==
    ASSUME NEW op \in Control, NEW gen \in Nat, NEW arg \in Nat, NEW frames \in Seq(Frames),
           Types, WebFacts, jobs' \in Nat, Send(op, gen, arg, frames)
    PROVE  \E r \in Requests : Sent(r, op, gen, arg, frames)
  <1> DEFINE r == [op |-> op, gen |-> gen, conn |-> sock'.id, arg |-> arg, job |-> jobs', pc |-> "sent"]
  <1>1. /\ sock' \in [id : Nat, up : BOOLEAN] /\ sock'.up /\ sock.id <= sock'.id /\ sock'.id # 0
        /\ sock.up => sock'.id = sock.id
        /\ ~sock.up => sock'.id = sock.id + 1
    <2>1. CASE sock.up
      BY <2>1 DEF Send, Types, WebFacts
    <2>2. CASE ~sock.up
      <3>1. sock' = [id |-> sock.id + 1, up |-> TRUE]
        BY <2>2 DEF Send
      <3>2. sock.id \in Nat
        BY DEF Types
      <3> QED
        BY <2>2, <3>1, <3>2
    <2> QED
      BY <2>1, <2>2
  <1>2. work' = work \cup {r}
    BY DEF Send, Request
  <1>3. r \in Requests
    BY <1>1 DEF Requests, Control, Places
  <1>4. /\ inbox' \in Seq(Frames) /\ (inbox' = frames \/ inbox' = <<>>)
        /\ sock.up => inbox' = frames
    BY DEF Send
  <1> HIDE DEF r
  <1>5. WITNESS r \in Requests
  <1> QED
    BY <1>1, <1>2, <1>4 DEF r, Sent

LEMMA InitHolds == Init => IInv
  <1> SUFFICES ASSUME Init PROVE IInv
    OBVIOUS
  <1>1. Types
    <2>1. job \in Jobs
      BY DEF Init, Idle, Jobs
    <2>2. web \in [gen : Nat, cur : Nat, killed : BOOLEAN]
      BY DEF Init
    <2>3. sock \in [id : Nat, up : BOOLEAN] /\ late \in BOOLEAN
      BY DEF Init
    <2>4. inbox \in Seq(Frames)
      BY DEF Init
    <2>5. prepared \in [gen : Nat, nonce : Nat] /\ active \in [gen : Nat, conn : Nat]
      BY DEF Init, Nobody
    <2> QED
      BY <2>1, <2>2, <2>3, <2>4, <2>5 DEF Init, Types
  <1>2. WebFacts /\ ServiceFacts
    BY ControlAssumption DEF Init, WebFacts, JobFacts, ServiceFacts, Idle, Nobody, Asked, InLaunch
  <1>3. RequestFacts /\ ChildFacts /\ RightChild
    BY DEF Init, RequestFacts, ChildFacts, RightChild
  <1>4. inbox = <<>> /\ Len(inbox) = 0 /\ 1..Len(inbox) = {}
    BY DEF Init
  <1>5. AnswerFacts
    BY <1>4 DEF AnswerFacts, Received, Init, Idle
  <1>6. OneConnection /\ OneInFlight /\ Accounted
    BY <1>4 DEF Init, OneConnection, OneInFlight, Accounted
  <1>7. Told
    BY <1>4 DEF Init, Told, AgreedOn, Nobody, Idle, Asked
  <1> QED
    BY <1>1, <1>2, <1>3, <1>5, <1>6, <1>7 DEF IInv, Safe, Quiet, QuietFacts

-----------------------------------------------------------------------------
(* Steps of the Web: whatever it does, it adds requests of its own         *)
(* generation or the next one, and it takes a generation as its own only   *)
(* when an answer announces a published child of it.                       *)

NewRequest(r) ==
    /\ r.pc = "sent" /\ r.gen # 0 /\ r.gen <= jobs' /\ r.gen <= web.gen + 1
    /\ r.conn # 0 /\ r.conn <= sock'.id /\ r.job <= jobs'
    /\ r.op \in Asked /\ r.job = jobs' /\ job'.pc # "idle" => job'.kind = "launch" /\ r.gen = job'.gen

Announced(g) ==
    \/ \E f \in Received : Announces(f) /\ f.gen = g
    \/ job.pc = "attach" /\ job.gen = g

SameJob ==
    \/ job'.pc = "idle"
    \/ jobs' = jobs + 1
    \/ jobs' = jobs /\ job.pc # "idle" /\ (job.kind = "launch" => job'.kind = "launch" /\ job'.gen = job.gen)

WebStep ==
    /\ Types' /\ WebFacts' /\ SameJob
    /\ jobs <= jobs' /\ sock.id <= sock'.id
    /\ \A r \in work' : r \in work \/ NewRequest(r)
    /\ Received' \subseteq Received
    /\ \/ web'.gen \in {0, web.gen}
       \/ web'.gen = web.gen + 1 /\ Announced(web'.gen)
    /\ job'.pc = "attach" => Announced(job'.gen)
    /\ UNCHANGED <<serviceVars, launcherVars, delivered>>

LEMMA AnnouncedReady == ASSUME AnswerFacts, NEW g, Announced(g) PROVE Ready(g)
  BY DEF AnswerFacts, AnswerFact, Announced, Announces

LEMMA WebStepSafe == ASSUME Safe, WebStep PROVE Safe'
  <1>1. Types /\ WebFacts /\ ServiceFacts /\ RequestFacts /\ AnswerFacts /\ ChildFacts /\ RightChild
    BY DEF Safe
  <1>2. /\ work' \subseteq Requests /\ work \subseteq Requests /\ children \subseteq Processes
        /\ lgen \in Nat /\ jobs \in Nat /\ jobs' \in Nat /\ sock.id \in Nat /\ sock'.id \in Nat
        /\ web.gen \in Nat /\ web'.gen \in Nat /\ active.gen \in Nat /\ active.conn \in Nat
        /\ lgen' = lgen /\ children' = children /\ active' = active /\ prepared' = prepared
        /\ delivered' = delivered /\ jobs <= jobs' /\ sock.id <= sock'.id
    <2>1. /\ work \subseteq Requests /\ children \subseteq Processes
          /\ lgen \in Nat /\ jobs \in Nat /\ sock.id \in Nat /\ web.gen \in Nat
          /\ active.gen \in Nat /\ active.conn \in Nat
      BY <1>1 DEF Types
    <2>2. work' \subseteq Requests /\ jobs' \in Nat /\ sock'.id \in Nat /\ web'.gen \in Nat
      BY DEF WebStep, Types
    <2> QED
      BY <2>1, <2>2 DEF WebStep, serviceVars, launcherVars
  <1>7. Received \subseteq Frames /\ Received' \subseteq Received
    BY <1>1, ReceivedTyped DEF WebStep
  <1>3. ServiceFacts'
    BY <1>1, <1>2 DEF ServiceFacts
  <1>4. RequestFacts'
    <2> SUFFICES ASSUME NEW r \in work' PROVE RequestFact(r)'
      BY DEF RequestFacts
    <2>1. CASE r \in work
      <3>1. RequestFact(r) /\ r \in Requests
        BY <1>1, <1>2, <2>1 DEF RequestFacts
      <3>2. r.op \in Asked /\ Awaitable(r.job)' => job'.kind = "launch" /\ r.gen = job'.gen
        BY <1>2, <3>1 DEF Requests, RequestFact, Awaitable, WebStep, SameJob
      <3> QED
        BY <1>2, <3>1, <3>2 DEF Requests, RequestFact
    <2>2. CASE NewRequest(r)
      BY <1>1, <1>2, <2>2 DEF Requests, RequestFact, Awaitable, NewRequest, WebFacts, JobFacts
    <2> QED
      BY <2>1, <2>2 DEF WebStep
  <1>5. AnswerFacts'
    <2>0. job'.pc = "attach" => Ready(job.gen)'
      BY <1>1, <1>2, AnnouncedReady DEF WebStep, Ready
    <2> SUFFICES ASSUME NEW f \in Received', f.op # "lifecycle" PROVE AnswerFact(f)'
      BY <2>0 DEF AnswerFacts
    <2>1. AnswerFact(f) /\ f \in Answers
      BY <1>1, <1>7 DEF AnswerFacts, Frames, Exits
    <2>2. f.op = "bootstrap" /\ f.ok /\ Awaitable(f.job)' => job'.kind = "launch" /\ f.gen = job'.gen
      BY <1>2, <2>1 DEF Answers, AnswerFact, Awaitable, WebStep, SameJob
    <2> QED
      BY <1>2, <2>1, <2>2 DEF AnswerFact, Announces, Answers, Ready
  <1>6. ChildFacts'
    <2> SUFFICES ASSUME NEW c \in children PROVE ChildFact(c)'
      BY <1>1, <1>2 DEF ChildFacts
    <2>1. ChildFact(c) /\ c \in Processes
      BY <1>1, <1>2 DEF ChildFacts
    <2>2. CASE c.stage # "starting"
      BY <1>2, <2>1, <2>2 DEF ChildFact, Processes
    <2>3. CASE c.stage = "starting"
      <3>1. web'.gen < c.gen
        <4>1. \A g : Announced(g) => g # c.gen
          BY <1>1, <2>3, AnnouncedReady DEF Ready
        <4> QED
          BY <1>2, <2>1, <2>3, <4>1 DEF ChildFact, Processes, WebStep
      <3>2. ASSUME NEW r \in work'
            PROVE  r.gen <= c.gen /\ (r.pc \in {"publishing", "undoing"} => r.arg # c.gen)
        BY <1>2, <2>1, <2>3 DEF ChildFact, Processes, Requests, NewRequest, WebStep
      <3> QED
        BY <1>2, <2>1, <3>1, <3>2 DEF ChildFact, Processes
    <2> QED
      BY <2>2, <2>3
  <1> QED
    BY <1>1, <1>2, <1>3, <1>4, <1>5, <1>6 DEF Safe, RightChild, WebStep

(* What the Web changes of its own.                                        *)
WebMoves ==
    /\ job' \in Jobs /\ web' \in [gen : Nat, cur : Nat, killed : BOOLEAN] /\ open' \subseteq Nat
    /\ jobs' \in Nat /\ jobs <= jobs' /\ late' \in BOOLEAN
    /\ missed' \in Nat /\ drops' \in Nat /\ restarts' \in Nat /\ stubborn' \in Nat
    /\ JobFacts' /\ SameJob
    /\ \/ web'.gen \in {0, web.gen}
       \/ web'.gen = web.gen + 1 /\ Announced(web'.gen)
    /\ job'.pc = "attach" => Announced(job'.gen)
    /\ UNCHANGED <<serviceVars, launcherVars, delivered>>

LEMMA MovesTypes ==
    ASSUME Types, WebMoves, work' \subseteq Requests, sock' \in [id : Nat, up : BOOLEAN], inbox' \in Seq(Frames)
    PROVE  Types'
  <1>1. /\ prepared' = prepared /\ active' = active /\ nonces' = nonces
        /\ lgen' = lgen /\ linfo' = linfo /\ children' = children
    BY DEF WebMoves, serviceVars, launcherVars
  <1> QED
    BY <1>1 DEF Types, WebMoves

FramesLeft(frames) == frames = inbox \/ (inbox # <<>> /\ frames = Tail(inbox))

LEMMA FramesLeftTyped == ASSUME Types, NEW frames, FramesLeft(frames) PROVE frames \in Seq(Frames)
  BY TailFacts DEF Types, FramesLeft

LEMMA SendsStep ==
    ASSUME Safe, WebMoves, NEW op \in Control, NEW gen \in Nat, NEW arg \in Nat, NEW frames,
           FramesLeft(frames), Send(op, gen, arg, frames),
           gen # 0, gen <= jobs', gen <= web.gen + 1,
           op \in Asked /\ job'.pc # "idle" => job'.kind = "launch" /\ gen = job'.gen
    PROVE  WebStep
  <1>1. Types /\ WebFacts
    BY DEF Safe
  <1>2. frames \in Seq(Frames)
    BY <1>1, FramesLeftTyped
  <1>3. PICK r \in Requests : Sent(r, op, gen, arg, frames)
    BY <1>1, <1>2, SendFacts DEF WebMoves
  <1>4. /\ r.op = op /\ r.gen = gen /\ r.conn = sock'.id /\ r.job = jobs' /\ r.pc = "sent"
        /\ work' = work \cup {r} /\ sock.id <= sock'.id /\ sock'.id # 0 /\ sock'.id \in Nat
    BY <1>3 DEF Sent
  <1>5. Types'
    <2>1. work' \subseteq Requests /\ sock' \in [id : Nat, up : BOOLEAN] /\ inbox' \in Seq(Frames)
      BY <1>1, <1>3 DEF Types, Sent
    <2> QED
      BY <1>1, <2>1, MovesTypes
  <1>6. WebFacts'
    BY <1>4 DEF WebMoves, WebFacts
  <1>7. \A q \in work' : q \in work \/ NewRequest(q)
    <2>1. NewRequest(r)
      BY <1>4 DEF NewRequest, WebMoves
    <2> QED
      BY <1>4, <2>1
  <1>8. Received' \subseteq Received
    BY <1>1, <1>3, ReceivedKept DEF Sent, FramesLeft
  <1> QED
    BY <1>4, <1>5, <1>6, <1>7, <1>8 DEF WebStep, WebMoves

LEMMA EndsStep ==
    ASSUME Safe, WebMoves, NEW frames, FramesLeft(frames), inbox' = frames, work' = work, sock' = sock
    PROVE  WebStep
  <1>1. Types /\ WebFacts
    BY DEF Safe
  <1>2. Types'
    <2>1. work' \subseteq Requests /\ sock' \in [id : Nat, up : BOOLEAN] /\ inbox' \in Seq(Frames)
      BY <1>1, FramesLeftTyped DEF Types
    <2> QED
      BY <1>1, <2>1, MovesTypes
  <1>3. Received' \subseteq Received
    BY <1>1, ReceivedKept DEF FramesLeft
  <1>4. sock.id \in Nat /\ sock'.id = sock.id
    BY <1>1 DEF Types
  <1> QED
    BY <1>1, <1>2, <1>3, <1>4 DEF WebStep, WebMoves, WebFacts

LEMMA StartLaunchStep == ASSUME Safe, StartLaunch PROVE WebStep
  <1>1. Types /\ WebFacts
    BY DEF Safe
  <1>2. /\ job.pc = "idle" /\ web.cur \notin open /\ jobs < MaxJobs /\ jobs' = jobs + 1
        /\ job' = [kind |-> "launch", pc |-> "status", gen |-> web.gen + 1]
        /\ web' = [web EXCEPT !.killed = FALSE]
        /\ open' = open /\ missed' = missed /\ late' = late /\ drops' = drops /\ restarts' = restarts /\ stubborn' = stubborn
        /\ UNCHANGED <<serviceVars, launcherVars, delivered>>
        /\ Send("status", web.gen + 1, 0, inbox)
    BY DEF StartLaunch, BeginLaunch, faults
  <1>3. web.gen \in Nat /\ web.cur \in Nat /\ jobs \in Nat /\ lgen \in Nat /\ lgen' = lgen
    BY <1>1, <1>2 DEF Types, launcherVars
  <1>4. web' \in [gen : Nat, cur : Nat, killed : BOOLEAN] /\ web'.gen = web.gen /\ web'.cur = web.cur
    BY <1>1, <1>2 DEF Types
  <1>5. job' \in Jobs /\ job'.kind = "launch" /\ job'.pc = "status" /\ job'.gen = web.gen + 1
    BY <1>2, <1>3 DEF Jobs, Control, Asked
  <1>6. JobFacts'
    BY <1>1, <1>2, <1>3, <1>4, <1>5, ControlAssumption DEF WebFacts, JobFacts, Asked, InLaunch
  <1>7. WebMoves
    <2>1. open \subseteq Nat /\ missed \in Nat /\ late \in BOOLEAN /\ drops \in Nat /\ restarts \in Nat /\ stubborn \in Nat
      BY <1>1 DEF Types
    <2>2. SameJob /\ jobs' \in Nat /\ jobs <= jobs'
      BY <1>2, <1>3 DEF SameJob
    <2> QED
      BY <1>2, <1>4, <1>5, <1>6, <2>1, <2>2 DEF WebMoves
  <1>8. /\ "status" \in Control /\ web.gen + 1 \in Nat /\ web.gen + 1 <= jobs' /\ FramesLeft(inbox)
        /\ web.gen + 1 # 0 /\ web.gen + 1 <= web.gen + 1 /\ 0 \in Nat
    BY <1>1, <1>2, <1>3 DEF Control, Asked, FramesLeft, WebFacts, JobFacts
  <1>9. Send("status", web.gen + 1, 0, inbox) /\ job'.kind = "launch" /\ job'.gen = web.gen + 1
    BY <1>2, <1>5
  <1> HIDE DEF WebMoves
  <1> QED
    BY <1>7, <1>8, <1>9, SendsStep

LEMMA StartKillStep == ASSUME Safe, NEW kind \in {"kill", "relaunch"}, StartKill(kind) PROVE WebStep
  <1>1. Types /\ WebFacts
    BY DEF Safe
  <1>2. /\ job.pc = "idle" /\ web.cur # 0 /\ jobs < MaxJobs /\ jobs' = jobs + 1
        /\ job' = [kind |-> kind, pc |-> "kill", gen |-> web.gen] /\ web' = web
        /\ open' = open /\ missed' = missed /\ late' = late /\ drops' = drops /\ restarts' = restarts /\ stubborn' = stubborn
        /\ UNCHANGED <<serviceVars, launcherVars, delivered>>
        /\ Send("kill", web.gen, 0, inbox)
    BY DEF StartKill, faults
  <1>3. web.gen \in Nat /\ web.cur \in Nat /\ jobs \in Nat /\ lgen \in Nat /\ lgen' = lgen
    BY <1>1, <1>2 DEF Types, launcherVars
  <1>5. job' \in Jobs /\ job'.kind = kind /\ job'.pc = "kill" /\ job'.gen = web.gen
    BY <1>2, <1>3 DEF Jobs, Control, Asked
  <1>6. JobFacts'
    BY <1>1, <1>2, <1>3, <1>5, ControlAssumption DEF WebFacts, JobFacts, Asked, InLaunch
  <1>7. WebMoves
    BY <1>1, <1>2, <1>3, <1>5, <1>6 DEF WebMoves, Types, SameJob
  <1>8. /\ "kill" \in Control /\ "kill" \notin Asked /\ web.gen <= jobs' /\ FramesLeft(inbox)
        /\ web.gen # 0 /\ web.gen <= web.gen + 1
    BY <1>1, <1>2, <1>3 DEF Control, Asked, FramesLeft, WebFacts, JobFacts
  <1> QED
    BY <1>2, <1>3, <1>5, <1>7, <1>8, SendsStep

(* A step of a job under way: how it leaves the map and the transports.    *)
Continues ==
    /\ jobs' = jobs /\ late' \in BOOLEAN
    /\ UNCHANGED <<missed, serviceVars, launcherVars, delivered, faults>>

WebOk ==
    /\ web' \in [gen : Nat, cur : Nat, killed : BOOLEAN]
    /\ open' \subseteq 1..web'.gen /\ web'.cur \in {0, web'.gen} /\ (web'.cur # 0 => web'.cur \in open')

LEMMA SameOk == ASSUME Safe, UNCHANGED <<web, open>> PROVE WebOk /\ web'.gen = web.gen
  BY DEF Safe, Types, WebFacts, JobFacts, WebOk

LEMMA KilledOk ==
    ASSUME Safe, NEW b \in BOOLEAN, open' = open \ {web.cur}, web' = [web EXCEPT !.cur = 0, !.killed = b]
    PROVE  WebOk /\ web'.gen = web.gen
  <1>1. web \in [gen : Nat, cur : Nat, killed : BOOLEAN] /\ open \subseteq 1..web.gen
    BY DEF Safe, Types, WebFacts, JobFacts
  <1>2. /\ web' \in [gen : Nat, cur : Nat, killed : BOOLEAN]
        /\ web'.gen = web.gen /\ web'.cur = 0
    BY <1>1
  <1> QED
    BY <1>1, <1>2 DEF WebOk

LEMMA AttachOk ==
    ASSUME Safe, job.kind = "launch", Attach
    PROVE  WebOk /\ web'.gen = web.gen + 1 /\ web'.gen = job.gen
  <1>1. web \in [gen : Nat, cur : Nat, killed : BOOLEAN] /\ open \subseteq 1..web.gen /\ job.gen = web.gen + 1
    BY DEF Safe, Types, WebFacts, JobFacts
  <1>2. /\ web' \in [gen : Nat, cur : Nat, killed : BOOLEAN]
        /\ web'.gen = web.gen + 1 /\ web'.cur = web.gen + 1 /\ open' = open \cup {web.gen + 1}
    BY <1>1 DEF Attach
  <1>3. open' \subseteq 1..web'.gen
    <2> DEFINE g == web.gen
    <2>1. g \in Nat /\ open \subseteq 1..g /\ open' = open \cup {g + 1} /\ web'.gen = g + 1
      BY <1>1, <1>2
    <2> HIDE DEF g
    <2> QED
      BY <2>1
  <1> QED
    BY <1>1, <1>2, <1>3 DEF WebOk

LEMMA MovesEnd ==
    ASSUME Safe, Continues, WebOk, job' = Idle,
           \/ web'.gen = web.gen
           \/ web'.gen = web.gen + 1 /\ job.pc # "idle" /\ Announced(web'.gen)
    PROVE  WebMoves
  <1>1. Types /\ JobFacts /\ AnswerFacts
    BY DEF Safe, WebFacts
  <1>2. job' \in Jobs /\ job'.pc = "idle" /\ job'.kind = "none"
    BY DEF Idle, Jobs
  <1>3. web'.gen <= lgen
    BY <1>1, AnnouncedReady DEF Ready, JobFacts
  <1>4. web.gen \in Nat /\ web'.gen \in Nat /\ jobs \in Nat /\ lgen' = lgen /\ jobs' = jobs
    BY <1>1 DEF Types, Continues, WebOk, launcherVars
  <1>5. web'.gen <= jobs
    BY <1>1, <1>4 DEF JobFacts
  <1>6. JobFacts'
    BY <1>1, <1>2, <1>3, <1>4, <1>5 DEF JobFacts, WebOk, Asked, InLaunch
  <1>7. /\ missed \in Nat /\ drops \in Nat /\ restarts \in Nat /\ stubborn \in Nat
        /\ missed' = missed /\ drops' = drops /\ restarts' = restarts /\ stubborn' = stubborn
    BY <1>1 DEF Types, Continues, faults
  <1>8. open' \subseteq Nat
    BY DEF WebOk
  <1> QED
    BY <1>2, <1>4, <1>6, <1>7, <1>8 DEF WebMoves, WebOk, Continues, SameJob

LEMMA MovesLaunch ==
    ASSUME Safe, Continues, WebOk, web'.gen = web.gen, job.pc # "idle",
           job' \in Jobs, job'.kind = "launch", job'.pc \in InLaunch, job'.gen = web.gen + 1,
           job'.pc = "attach" => Announced(job'.gen)
    PROVE  WebMoves
  <1>1. Types /\ JobFacts
    BY DEF Safe, WebFacts
  <1>2. /\ web.gen \in Nat /\ jobs \in Nat /\ lgen' = lgen /\ jobs' = jobs
        /\ missed \in Nat /\ drops \in Nat /\ restarts \in Nat /\ stubborn \in Nat
        /\ missed' = missed /\ drops' = drops /\ restarts' = restarts /\ stubborn' = stubborn
    BY <1>1 DEF Types, Continues, launcherVars, faults
  <1>3. JobFacts'
    BY <1>1, <1>2 DEF JobFacts, WebOk, Asked, InLaunch
  <1>4. SameJob
    BY <1>1, <1>2 DEF SameJob, JobFacts
  <1>5. open' \subseteq Nat
    BY DEF WebOk
  <1> QED
    BY <1>2, <1>3, <1>4, <1>5 DEF WebMoves, WebOk, Continues

LEMMA EndJobStep ==
    ASSUME Safe, WebMoves, NEW frames, FramesLeft(frames), EndJob(frames)
    PROVE  WebStep
  BY EndsStep DEF EndJob

LEMMA BeginLaunchStep ==
    ASSUME Safe, Continues, WebOk, web'.gen = web.gen, job.pc # "idle",
           NEW frames, FramesLeft(frames), BeginLaunch(frames)
    PROVE  WebStep
  <1>1. web.gen \in Nat /\ jobs \in Nat /\ web.gen < jobs /\ jobs' = jobs
    BY DEF Safe, Types, WebFacts, JobFacts, Continues
  <1>2. job' \in Jobs /\ job'.kind = "launch" /\ job'.pc = "status" /\ job'.gen = web.gen + 1
    BY <1>1 DEF BeginLaunch, Jobs, Control, Asked
  <1>3. WebMoves
    BY <1>2, MovesLaunch DEF Asked, InLaunch
  <1>4. /\ "status" \in Control /\ web.gen + 1 \in Nat /\ web.gen + 1 <= jobs'
        /\ web.gen + 1 # 0 /\ web.gen + 1 <= web.gen + 1 /\ 0 \in Nat
    BY <1>1 DEF Control, Asked
  <1>5. Send("status", web.gen + 1, 0, frames)
    BY DEF BeginLaunch
  <1> QED
    BY <1>2, <1>3, <1>4, <1>5, SendsStep

LEMMA AfterKillStep ==
    ASSUME Safe, Continues, WebOk, web'.gen = web.gen, job.pc # "idle",
           NEW frames, FramesLeft(frames), AfterKill(frames)
    PROVE  WebStep
  <1>1. CASE job.kind = "relaunch"
    BY <1>1, BeginLaunchStep DEF AfterKill
  <1>2. CASE job.kind # "relaunch"
    <2>1. EndJob(frames)
      BY <1>2 DEF AfterKill
    <2> QED
      BY <2>1, MovesEnd, EndJobStep DEF EndJob
  <1> QED
    BY <1>1, <1>2

LEMMA AskStep ==
    ASSUME Safe, Continues, UNCHANGED <<web, open>>, job.kind = "launch",
           NEW op \in {"prepare", "bootstrap"}, NEW arg \in Nat, NEW frames, FramesLeft(frames),
           job' = [job EXCEPT !.pc = op], Send(op, job.gen, arg, frames)
    PROVE  WebStep
  <1>1. web.gen \in Nat /\ jobs \in Nat /\ web.gen < jobs /\ jobs' = jobs /\ job.gen = web.gen + 1 /\ job \in Jobs
        /\ job.pc # "idle"
    BY DEF Safe, Types, WebFacts, JobFacts, Continues
  <1>2. job' \in Jobs /\ job'.kind = "launch" /\ job'.pc = op /\ job'.gen = web.gen + 1
    BY <1>1 DEF Jobs, Control, Asked
  <1>3. WebMoves
    BY <1>1, <1>2, SameOk, MovesLaunch DEF Asked, InLaunch
  <1>4. /\ op \in Control /\ job.gen \in Nat /\ job.gen <= jobs' /\ job.gen # 0 /\ job.gen <= web.gen + 1
        /\ job.gen = job'.gen
    BY <1>1, <1>2 DEF Control, Asked
  <1> QED
    BY <1>2, <1>3, <1>4, SendsStep

LEMMA ResolveStep ==
    ASSUME Safe, Continues, UNCHANGED <<web, open>>, job.kind = "launch", Announced(job.gen),
           NEW frames, FramesLeft(frames), Resolve(frames)
    PROVE  WebStep
  <1>1. job.gen = web.gen + 1 /\ job \in Jobs /\ job.pc # "idle"
    BY DEF Safe, Types, WebFacts, JobFacts
  <1>2. job' \in Jobs /\ job'.kind = "launch" /\ job'.pc = "attach" /\ job'.gen = job.gen
    BY <1>1 DEF Resolve, Jobs
  <1>3. WebMoves
    BY <1>1, <1>2, SameOk, MovesLaunch DEF InLaunch
  <1> QED
    BY <1>3, EndsStep DEF Resolve

LEMMA AttachedStep == ASSUME Safe, Attached PROVE WebStep
  <1>1. /\ job.pc = "attach" /\ Attach /\ EndJob(inbox) /\ jobs' = jobs
        /\ UNCHANGED <<missed, late, serviceVars, launcherVars, delivered, faults>>
    BY DEF Attached
  <1>2. Types /\ JobFacts /\ FramesLeft(inbox)
    BY DEF Safe, WebFacts, FramesLeft
  <1>3. job.kind = "launch" /\ Announced(job.gen)
    BY <1>1, <1>2 DEF JobFacts, InLaunch, Announced
  <1>4. WebOk /\ web'.gen = web.gen + 1 /\ web'.gen = job.gen
    BY <1>1, <1>3, AttachOk
  <1>5. Continues
    BY <1>1, <1>2 DEF Continues, Types
  <1>6. WebMoves
    BY <1>1, <1>3, <1>4, <1>5, MovesEnd DEF EndJob
  <1> QED
    BY <1>1, <1>2, <1>6, EndJobStep

LEMMA ReceiveStep == ASSUME Safe, Receive PROVE WebStep
  <1> DEFINE f == Head(inbox)
             rest == Tail(inbox)
             awaited == f.job = jobs /\ f.op = job.pc
  <1>1. inbox # <<>> /\ f.op # "lifecycle" /\ jobs' = jobs
        /\ UNCHANGED <<missed, late, serviceVars, launcherVars, delivered, faults>>
    BY DEF Receive
  <1>2. Types /\ JobFacts /\ AnswerFacts
    BY DEF Safe, WebFacts
  <1>3. FramesLeft(rest)
    BY <1>1 DEF FramesLeft
  <1>4. f \in Answers /\ f \in Received /\ AnswerFact(f)
    <2>1. inbox \in Seq(Frames) /\ inbox # <<>>
      BY <1>1, <1>2 DEF Types
    <2>2. f = inbox[1] /\ 1 \in 1..Len(inbox) /\ f \in Frames
      BY <2>1, TailFacts
    <2>3. f \in Received
      BY <2>2 DEF Received
    <2> QED
      BY <1>1, <1>2, <2>2, <2>3 DEF AnswerFacts, Frames, Exits
  <1>5. Continues
    BY <1>1, <1>2 DEF Continues, Types
  <1>6. CASE ~awaited /\ inbox' = rest /\ UNCHANGED <<job, web, open, sock, work>>
    <2>1. WebMoves
      BY <1>2, <1>5, <1>6 DEF WebMoves, Continues, SameJob, Types, JobFacts, Announced, launcherVars, faults
    <2> QED
      BY <1>3, <1>6, <2>1, EndsStep
  <1> HIDE DEF f, rest
  <1>7. CASE /\ awaited /\ f.op = "status"
             /\ IF f.ok /\ f.alive
                THEN IF f.gen = job.gen THEN Resolve(rest) ELSE EndJob(rest)
                ELSE Prepare(rest)
             /\ UNCHANGED <<web, open>>
    <2>1. job.kind = "launch" /\ job.pc # "idle"
      BY <1>2, <1>7 DEF JobFacts, Asked, InLaunch
    <2>2. CASE f.ok /\ f.alive /\ f.gen = job.gen
      <3>1. Resolve(rest) /\ UNCHANGED <<web, open>> /\ Announced(job.gen)
        BY <1>4, <1>7, <2>2 DEF Announces, Announced
      <3> QED
        BY <1>3, <1>5, <2>1, <3>1, ResolveStep
    <2>3. CASE f.ok /\ f.alive /\ f.gen # job.gen
      <3>1. UNCHANGED <<web, open>> /\ EndJob(rest)
        BY <1>7, <2>3
      <3> QED
        BY <1>3, <1>5, <3>1, SameOk, MovesEnd, EndJobStep DEF EndJob
    <2>4. CASE ~(f.ok /\ f.alive)
      <3>1. UNCHANGED <<web, open>> /\ Prepare(rest)
        BY <1>7, <2>4
      <3> QED
        BY <1>3, <1>5, <2>1, <3>1, AskStep DEF Prepare
    <2> QED
      BY <2>2, <2>3, <2>4
  <1>8. CASE /\ awaited /\ f.op = "prepare" /\ f.ok
             /\ job' = [job EXCEPT !.pc = "bootstrap"]
             /\ Send("bootstrap", job.gen, f.gen, rest) /\ UNCHANGED <<web, open>>
    <2>1. job.kind = "launch" /\ f.gen \in Nat
      BY <1>2, <1>4, <1>8 DEF JobFacts, Asked, InLaunch, Answers
    <2> QED
      BY <1>3, <1>5, <1>8, <2>1, AskStep
  <1>9. CASE awaited /\ f.op = "bootstrap" /\ f.ok /\ Resolve(rest) /\ UNCHANGED <<web, open>>
    <2>1. job.kind = "launch" /\ job.pc # "idle"
      BY <1>2, <1>9 DEF JobFacts, Asked, InLaunch
    <2>2. Announced(job.gen)
      BY <1>4, <1>9, <2>1 DEF AnswerFact, Announces, Announced, Awaitable
    <2> QED
      BY <1>3, <1>5, <1>9, <2>1, <2>2, ResolveStep
  <1>10. CASE awaited /\ f.op \in {"prepare", "bootstrap"} /\ ~f.ok /\ EndJob(rest) /\ UNCHANGED <<web, open>>
    BY <1>3, <1>5, <1>10, SameOk, MovesEnd, EndJobStep DEF EndJob
  <1>11. CASE /\ awaited /\ f.op = "kill" /\ f.ok
              /\ open' = open \ {web.cur}
              /\ web' = [web EXCEPT !.cur = 0, !.killed = f.alive /\ job.kind = "kill"]
              /\ AfterKill(rest)
    <2>1. job.pc # "idle" /\ (f.alive /\ job.kind = "kill") \in BOOLEAN
      BY <1>11
    <2>2. WebOk /\ web'.gen = web.gen
      BY <1>11, <2>1, KilledOk
    <2> QED
      BY <1>3, <1>5, <1>11, <2>1, <2>2, AfterKillStep
  <1>12. CASE awaited /\ f.op = "kill" /\ ~f.ok /\ AfterKill(rest) /\ UNCHANGED <<web, open>>
    <2>1. job.pc # "idle"
      BY <1>12
    <2> QED
      BY <1>3, <1>5, <1>12, <2>1, SameOk, AfterKillStep
  <1> QED
    BY <1>6, <1>7, <1>8, <1>9, <1>10, <1>11, <1>12 DEF Receive, f, rest

LEMMA ReceiveExitStep == ASSUME Safe, ReceiveExit PROVE WebStep
  <1> DEFINE f == Head(inbox)
  <1>1. /\ inbox # <<>> /\ inbox' = Tail(inbox) /\ open' = open \ {f.gen}
        /\ web' = IF f.gen \in open /\ web.gen = f.gen THEN [web EXCEPT !.cur = 0] ELSE web
        /\ missed' \in {missed, f.gen}
        /\ UNCHANGED <<job, jobs, sock, late, work, serviceVars, launcherVars, delivered, faults>>
    BY DEF ReceiveExit
  <1>2. Types /\ JobFacts
    BY DEF Safe, WebFacts
  <1>3. web \in [gen : Nat, cur : Nat, killed : BOOLEAN]
    BY <1>2 DEF Types
  <1>7. missed' \in Nat
    <2>1. inbox \in Seq(Frames) /\ missed \in Nat
      BY <1>2 DEF Types
    <2>2. f \in Frames
      BY <1>1, <2>1, TailFacts
    <2>3. f.gen \in Nat
      BY <2>2 DEF Frames, Answers, Exits
    <2> QED
      BY <1>1, <2>1, <2>3
  <1> HIDE DEF f
  <1>4. /\ web' \in [gen : Nat, cur : Nat, killed : BOOLEAN] /\ web'.gen = web.gen
        /\ web'.cur \in {0, web.cur} /\ (web'.cur # 0 => ~(f.gen \in open /\ web.gen = f.gen))
    BY <1>1, <1>3
  <1>5. JobFacts'
    BY <1>1, <1>2, <1>3, <1>4 DEF JobFacts, launcherVars
  <1>6. WebMoves
    <2>1. /\ job \in Jobs /\ late \in BOOLEAN /\ jobs \in Nat
          /\ drops \in Nat /\ restarts \in Nat /\ stubborn \in Nat /\ open \subseteq Nat
      BY <1>2 DEF Types
    <2>2. SameJob
      BY <1>1, <1>2 DEF SameJob, JobFacts
    <2> QED
      BY <1>1, <1>4, <1>5, <1>7, <2>1, <2>2 DEF WebMoves, Announced, faults
  <1> QED
    BY <1>1, <1>6, EndsStep DEF FramesLeft

LEMMA CloseEventStep == ASSUME Safe, CloseEvent PROVE WebStep
  <1>1. /\ late' = FALSE /\ jobs' = jobs
        /\ UNCHANGED <<web, open, missed, serviceVars, launcherVars, delivered, faults>>
    BY DEF CloseEvent
  <1>2. Types /\ JobFacts /\ FramesLeft(inbox)
    BY DEF Safe, WebFacts, FramesLeft
  <1>3. Continues /\ WebOk /\ web'.gen = web.gen
    BY <1>1, SameOk DEF Continues
  <1>4. CASE job.pc \in {"idle", "attach"}
    <2>1. UNCHANGED <<job, sock, inbox, work>>
      BY <1>4 DEF CloseEvent
    <2>2. WebMoves
      <3>1. /\ job \in Jobs /\ jobs \in Nat /\ web \in [gen : Nat, cur : Nat, killed : BOOLEAN]
            /\ missed \in Nat /\ drops \in Nat /\ restarts \in Nat /\ stubborn \in Nat
            /\ open \subseteq Nat
        BY <1>2 DEF Types
      <3>2. SameJob /\ JobFacts'
        BY <1>1, <1>2, <1>4, <2>1 DEF SameJob, JobFacts, launcherVars
      <3>3. /\ late' \in BOOLEAN /\ job' = job /\ web' = web /\ open' = open /\ jobs' = jobs
            /\ missed' = missed /\ drops' = drops /\ restarts' = restarts /\ stubborn' = stubborn
        BY <1>1, <2>1 DEF faults
      <3> QED
        BY <1>1, <3>1, <3>2, <3>3 DEF WebMoves, Announced
    <2> QED
      BY <1>2, <2>1, <2>2, EndsStep
  <1>5. CASE job.pc = "status"
    <2>1. Prepare(inbox) /\ job.kind = "launch"
      BY <1>2, <1>5 DEF CloseEvent, JobFacts, Asked, InLaunch
    <2> QED
      BY <1>1, <1>2, <1>3, <2>1, AskStep DEF Prepare
  <1>6. CASE job.pc = "kill"
    <2>1. AfterKill(inbox) /\ job.pc # "idle"
      BY <1>6 DEF CloseEvent
    <2> QED
      BY <1>2, <1>3, <2>1, AfterKillStep
  <1>7. CASE job.pc \notin {"idle", "attach", "status", "kill"}
    <2>1. EndJob(inbox)
      BY <1>7 DEF CloseEvent
    <2> QED
      BY <1>2, <1>3, <2>1, MovesEnd, EndJobStep DEF EndJob
  <1> QED
    BY <1>4, <1>5, <1>6, <1>7

(* A call connects if the socket is gone, like any other request.          *)
Called(g, r) ==
    /\ r = [op |-> "request", gen |-> g, conn |-> sock'.id, arg |-> 0, job |-> 0, pc |-> "sent"]
    /\ r \in Requests /\ work' = work \cup {r}
    /\ sock' \in [id : Nat, up : BOOLEAN] /\ sock'.up /\ sock.id <= sock'.id /\ sock'.id # 0
    /\ inbox' \in {inbox, <<>>} /\ (sock.up => sock' = sock /\ inbox' = inbox)
    /\ ~sock.up => sock'.id = sock.id + 1
    /\ UNCHANGED <<webVars, late, serviceVars, launcherVars, delivered, faults>>

LEMMA CallFacts == ASSUME Types, WebFacts, NEW g \in open, Call(g) PROVE \E r \in Requests : Called(g, r)
  <1> DEFINE id == IF sock.up THEN sock.id ELSE sock.id + 1
             r == [op |-> "request", gen |-> g, conn |-> id, arg |-> 0, job |-> 0, pc |-> "sent"]
  <1>1. /\ work' = work \cup {r} /\ sock' = [id |-> id, up |-> TRUE]
        /\ inbox' = (IF sock.up THEN inbox ELSE <<>>)
        /\ UNCHANGED <<webVars, late, serviceVars, launcherVars, delivered, faults>>
    BY DEF Call
  <1>2. /\ sock \in [id : Nat, up : BOOLEAN] /\ sock = [id |-> sock.id, up |-> sock.up]
        /\ (sock.up => sock.id # 0) /\ g \in Nat
    BY DEF Types, WebFacts
  <1>3. /\ id \in Nat /\ sock.id <= id /\ id # 0 /\ (sock.up => id = sock.id)
        /\ ~sock.up => id = sock.id + 1
    BY <1>2
  <1> HIDE DEF id
  <1>4. r \in Requests /\ sock'.id = id
    BY <1>1, <1>2, <1>3 DEF Requests, Places
  <1>5. Called(g, r)
    BY <1>1, <1>2, <1>3, <1>4 DEF Called
  <1> QED
    BY <1>4, <1>5

LEMMA CallStep == ASSUME Safe, NEW g \in open, Call(g) PROVE WebStep
  <1>1. Types /\ WebFacts
    BY DEF Safe
  <1>2. PICK r \in Requests : Called(g, r)
    BY <1>1, CallFacts
  <1>3. web.gen \in Nat /\ jobs \in Nat /\ web.gen <= jobs /\ g \in 1..web.gen
    BY <1>1 DEF Types, WebFacts, JobFacts
  <1>4. /\ r.op = "request" /\ r.gen = g /\ r.conn = sock'.id /\ r.job = 0 /\ r.pc = "sent"
        /\ work' = work \cup {r} /\ sock.id <= sock'.id /\ sock'.id \in Nat /\ sock'.id # 0
    BY <1>2 DEF Called
  <1>5. job' = job /\ web' = web /\ open' = open /\ missed' = missed /\ jobs' = jobs
    BY <1>2 DEF Called, webVars
  <1>6. Types'
    <2>1. work \subseteq Requests /\ inbox \in Seq(Frames)
      BY <1>1 DEF Types
    <2>2. work' \subseteq Requests
      BY <1>4, <2>1
    <2>3. inbox' \in Seq(Frames)
      <3>1. inbox' = inbox \/ inbox' = <<>>
        BY <1>2 DEF Called
      <3>2. <<>> \in Seq(Frames)
        OBVIOUS
      <3> QED
        BY <2>1, <3>1, <3>2
    <2> QED
      BY <1>1, <1>2, <1>5, <2>2, <2>3 DEF Types, Called, serviceVars, launcherVars, faults
  <1>7. WebFacts' /\ SameJob
    BY <1>1, <1>2, <1>5 DEF WebFacts, JobFacts, SameJob, Called, launcherVars
  <1>8. \A q \in work' : q \in work \/ NewRequest(q)
    <2>1. NewRequest(r)
      BY <1>3, <1>4, <1>5 DEF NewRequest, Asked
    <2> QED
      BY <1>4, <2>1
  <1>9. Received' \subseteq Received
    BY <1>1, <1>2, ReceivedKept DEF Called
  <1> QED
    BY <1>2, <1>3, <1>4, <1>5, <1>6, <1>7, <1>8, <1>9 DEF WebStep, Announced, Called

LEMMA DropStep == ASSUME Safe, Drop \/ Restart PROVE WebStep
  <1>1. Types /\ WebFacts
    BY DEF Safe
  <1>2. /\ sock' = [sock EXCEPT !.up = FALSE] /\ inbox' = <<>> /\ work' = work /\ jobs' = jobs
        /\ UNCHANGED <<serviceVars, launcherVars, delivered>> /\ late' \in BOOLEAN
    BY DEF Drop, Restart, webVars
  <1>3. /\ missed' \in Nat /\ drops' \in Nat /\ restarts' \in Nat /\ stubborn' \in Nat
    <2>1. missed \in Nat /\ drops \in Nat /\ restarts \in Nat /\ stubborn \in Nat
      BY <1>1 DEF Types
    <2>2. missed' \in {missed, 0} /\ drops' \in {drops, drops + 1} /\ restarts' \in {restarts, restarts + 1}
          /\ stubborn' = stubborn
      BY DEF Drop, Restart, webVars
    <2> QED
      BY <2>1, <2>2
  <1>4. \/ job' = job /\ web' = web /\ open' = open
        \/ job' = Idle /\ web' = [gen |-> 0, cur |-> 0, killed |-> FALSE] /\ open' = {}
    BY DEF Drop, Restart, webVars
  <1>5. sock' \in [id : Nat, up : BOOLEAN] /\ sock'.id = sock.id /\ ~sock'.up /\ sock.id \in Nat
    BY <1>1, <1>2 DEF Types
  <1>6. /\ job' \in Jobs /\ web' \in [gen : Nat, cur : Nat, killed : BOOLEAN] /\ open' \subseteq Nat
        /\ lgen \in Nat /\ lgen' = lgen /\ jobs \in Nat
    <2>1. job \in Jobs /\ web \in [gen : Nat, cur : Nat, killed : BOOLEAN] /\ open \subseteq Nat
      BY <1>1 DEF Types
    <2>2. Idle \in Jobs /\ [gen |-> 0, cur |-> 0, killed |-> FALSE] \in [gen : Nat, cur : Nat, killed : BOOLEAN]
      BY DEF Idle, Jobs
    <2>3. lgen \in Nat /\ lgen' = lgen /\ jobs \in Nat
      BY <1>1, <1>2 DEF Types, launcherVars
    <2> QED
      BY <1>4, <2>1, <2>2, <2>3
  <1>7. JobFacts' /\ SameJob /\ web'.gen \in {0, web.gen}
    <2>1. CASE job' = job /\ web' = web /\ open' = open
      BY <1>1, <1>2, <1>6, <2>1 DEF JobFacts, WebFacts, SameJob
    <2>2. CASE job' = Idle /\ web' = [gen |-> 0, cur |-> 0, killed |-> FALSE] /\ open' = {}
      <3>1. job'.pc = "idle" /\ job'.kind = "none" /\ web'.gen = 0 /\ web'.cur = 0
        BY <2>2 DEF Idle
      <3>2. JobFacts'
        BY <1>1, <1>2, <1>6, <2>2, <3>1 DEF JobFacts, WebFacts, Asked, InLaunch
      <3> QED
        BY <3>1, <3>2 DEF SameJob
    <2> QED
      BY <1>4, <2>1, <2>2
  <1>8. WebMoves
    <2>1. job'.pc = "attach" => Announced(job'.gen)
      BY <1>4 DEF Announced, Idle
    <2> QED
      BY <1>2, <1>3, <1>6, <1>7, <2>1 DEF WebMoves
  <1>9. Types'
    <2>1. work' \subseteq Requests /\ inbox' \in Seq(Frames)
      BY <1>1, <1>2 DEF Types
    <2> QED
      BY <1>1, <1>5, <1>8, <2>1, MovesTypes
  <1>10. Received' \subseteq Received
    BY <1>1, <1>2, ReceivedKept
  <1> QED
    BY <1>2, <1>5, <1>6, <1>7, <1>8, <1>9, <1>10 DEF WebStep, WebFacts, WebMoves

(* No step of the Web disturbs the Runtime's side.                         *)
LEMMA WebSafe ==
    ASSUME Safe, \/ StartLaunch \/ \E kind \in {"kill", "relaunch"} : StartKill(kind)
                 \/ Receive \/ ReceiveExit \/ Attached \/ \E g \in open : Call(g)
                 \/ Drop \/ CloseEvent \/ Restart
    PROVE  Safe'
  BY WebStepSafe, StartLaunchStep, StartKillStep, ReceiveStep, ReceiveExitStep, AttachedStep, CallStep, DropStep, CloseEventStep

-----------------------------------------------------------------------------
(* Steps of the Runtime: a handler takes one request further or answers    *)
(* it, and changes the one child.                                          *)

NoneStarting == \A c \in children : c.stage # "starting"

Moved(q) ==
    /\ \E r \in work : q.op = r.op /\ q.gen = r.gen /\ q.conn = r.conn /\ q.job = r.job
    /\ q.pc \in {"starting", "publishing", "undoing"} => q.op = "bootstrap" /\ q.arg = q.gen /\ q.arg <= lgen'
    /\ q.pc = "killing" => q.op = "kill"
    /\ q.pc \in {"publishing", "undoing"} => NoneStarting'

ChildMoved(c) ==
    /\ c.gen # 0 /\ c.gen <= lgen' /\ c.conn # 0 /\ c.conn <= sock.id
    /\ c.stage = "starting" => c.gen = lgen + 1

RuntimeStep ==
    /\ Types' /\ ServiceFacts' /\ RightChild' /\ lgen <= lgen'
    /\ \A q \in work' : q \in work \/ Moved(q)
    /\ \A f \in Received' : f.op # "lifecycle" => f \in Received \/ AnswerFact(f)'
    /\ \A c, d \in children' : c = d
    /\ \A c \in children' : c \in children \/ ChildMoved(c)
    /\ UNCHANGED <<webVars, sock, late>>

LEMMA RuntimeStepSafe == ASSUME Safe, RuntimeStep PROVE Safe'
  <1>1. Types /\ WebFacts /\ RequestFacts /\ AnswerFacts /\ ChildFacts
    BY DEF Safe
  <1>2. /\ work \subseteq Requests /\ children \subseteq Processes /\ Received \subseteq Frames
        /\ lgen \in Nat /\ jobs \in Nat /\ sock.id \in Nat /\ web.gen \in Nat
    BY <1>1, ReceivedTyped DEF Types
  <1>3. /\ work' \subseteq Requests /\ children' \subseteq Processes /\ lgen' \in Nat /\ lgen <= lgen'
        /\ jobs' = jobs /\ job' = job /\ web' = web /\ open' = open /\ sock' = sock
    BY DEF RuntimeStep, Types, webVars
  <1>4. WebFacts'
    BY <1>1, <1>2, <1>3 DEF WebFacts, JobFacts
  <1>5. RequestFacts'
    <2> SUFFICES ASSUME NEW q \in work' PROVE RequestFact(q)'
      BY DEF RequestFacts
    <2>1. PICK r \in work : q = r \/ (Moved(q) /\ q.op = r.op /\ q.gen = r.gen /\ q.conn = r.conn /\ q.job = r.job)
      BY DEF RuntimeStep, Moved
    <2>2. RequestFact(r) /\ r \in Requests /\ q \in Requests
      BY <1>1, <1>2, <1>3 DEF RequestFacts
    <2> QED
      BY <1>2, <1>3, <2>1, <2>2 DEF RequestFact, Requests, Moved, Awaitable
  <1>6. AnswerFacts'
    <2>0. \A g \in Nat : Ready(g) => Ready(g)'
      BY <1>2, <1>3 DEF Ready, RuntimeStep, ChildMoved
    <2>3. job'.pc = "attach" => Ready(job.gen)'
      BY <1>1, <1>3, <2>0 DEF AnswerFacts, Types, Jobs
    <2> SUFFICES ASSUME NEW f \in Received', f.op # "lifecycle", f \in Received PROVE AnswerFact(f)'
      BY <2>3 DEF AnswerFacts, RuntimeStep
    <2>1. AnswerFact(f) /\ f \in Answers
      BY <1>1, <1>2 DEF AnswerFacts, Frames, Exits
    <2>2. Announces(f) => Ready(f.gen)'
      BY <2>0, <2>1 DEF AnswerFact, Answers
    <2> QED
      BY <1>2, <1>3, <2>1, <2>2 DEF AnswerFact, Awaitable, Announces, Answers
  <1>7. ChildFacts'
    <2> SUFFICES ASSUME NEW c \in children' PROVE ChildFact(c)'
      BY DEF ChildFacts, RuntimeStep
    <2>1. c \in Processes /\ (c \in children => ChildFact(c)) /\ (c \in children \/ ChildMoved(c))
      BY <1>1, <1>3 DEF ChildFacts, RuntimeStep
    <2>2. c.gen # 0 /\ c.gen <= lgen' /\ c.conn # 0 /\ c.conn <= sock.id
      BY <1>2, <1>3, <2>1 DEF ChildFact, ChildMoved, Processes
    <2>3. ASSUME c.stage = "starting"
          PROVE  web.gen < c.gen /\ (c \in children \/ c.gen = lgen + 1)
      BY <1>1, <1>2, <2>1, <2>3 DEF ChildFact, ChildMoved, WebFacts, JobFacts
    <2>4. ASSUME c.stage = "starting", NEW q \in work'
          PROVE  q.gen <= c.gen /\ (q.pc \in {"publishing", "undoing"} => q.arg # c.gen)
      <3>1. PICK r \in work : q.gen = r.gen /\ (q = r \/ (q.pc \in {"publishing", "undoing"} => NoneStarting'))
        BY DEF RuntimeStep, Moved
      <3>2. RequestFact(r) /\ r \in Requests /\ q \in Requests
        BY <1>1, <1>2, <1>3 DEF RequestFacts
      <3>3. ~NoneStarting'
        BY <2>4 DEF NoneStarting
      <3>4. CASE c \in children
        BY <2>1, <2>4, <3>1, <3>3, <3>4 DEF ChildFact
      <3>5. CASE c.gen = lgen + 1
        BY <1>2, <2>4, <3>1, <3>2, <3>3, <3>5 DEF RequestFact, Requests
      <3> QED
        BY <2>3, <2>4, <3>4, <3>5
    <2> QED
      BY <1>3, <2>2, <2>3, <2>4 DEF ChildFact
  <1> QED
    BY <1>4, <1>5, <1>6, <1>7 DEF Safe, RuntimeStep

Answer(r, ok, alive, gen) == [op |-> r.op, job |-> r.job, ok |-> ok, alive |-> alive, gen |-> gen]

LEMMA DeliverFacts ==
    ASSUME Types, NEW conn, NEW f \in Frames, Deliver(conn, f)
    PROVE  inbox' \in Seq(Frames) /\ Received' \subseteq Received \cup {f}
  <1>1. CASE inbox' = inbox
    BY <1>1 DEF Types, Received
  <1>2. CASE inbox' = Append(inbox, f)
    <2>1. /\ inbox \in Seq(Frames) /\ inbox' \in Seq(Frames) /\ Len(inbox') = Len(inbox) + 1
          /\ \A i \in 1..Len(inbox) : inbox'[i] = inbox[i]
          /\ inbox'[Len(inbox) + 1] = f
      BY <1>2, AppendFacts DEF Types
    <2>2. \A i \in 1..Len(inbox') : i \in 1..Len(inbox) \/ i = Len(inbox) + 1
      BY <2>1
    <2> QED
      BY <2>1, <2>2 DEF Received
  <1> QED
    BY <1>1, <1>2 DEF Deliver

LEMMA ReplyFacts ==
    ASSUME Types, NEW r \in work, r.op \in Control, NEW ok \in BOOLEAN, NEW alive \in BOOLEAN, NEW gen \in Nat,
           Reply(r, ok, alive, gen)
    PROVE  /\ work' = work \ {r} /\ work' \subseteq Requests /\ inbox' \in Seq(Frames)
           /\ Received' \subseteq Received \cup {Answer(r, ok, alive, gen)}
           /\ Answer(r, ok, alive, gen) \in Answers
  <1>1. r \in Requests
    BY DEF Types
  <1>2. Answer(r, ok, alive, gen) \in Answers
    BY <1>1 DEF Answer, Answers, Requests
  <1>3. Deliver(r.conn, Answer(r, ok, alive, gen))
    BY DEF Reply, Answer
  <1>4. work' = work \ {r} /\ work' \subseteq Requests
    BY DEF Reply, Types
  <1> QED
    BY <1>2, <1>3, <1>4, DeliverFacts DEF Frames

Advanced(q, r, pc, arg) ==
    /\ q.op = r.op /\ q.gen = r.gen /\ q.conn = r.conn /\ q.job = r.job /\ q.pc = pc /\ q.arg = arg
    /\ work' = (work \ {r}) \cup {q} /\ work' \subseteq Requests
    /\ inbox' = inbox /\ inbox' \in Seq(Frames) /\ Received' = Received

LEMMA AdvanceFacts ==
    ASSUME Types, NEW r \in work, NEW pc \in Places, NEW arg \in Nat, Advance(r, pc, arg)
    PROVE  \E q \in Requests : Advanced(q, r, pc, arg)
  <1>1. r \in Requests /\ work \subseteq Requests /\ inbox \in Seq(Frames)
    BY DEF Types
  <1> DEFINE q == [r EXCEPT !.pc = pc, !.arg = arg]
  <1>2. /\ q \in Requests
        /\ q.op = r.op /\ q.gen = r.gen /\ q.conn = r.conn /\ q.job = r.job /\ q.pc = pc /\ q.arg = arg
    BY <1>1 DEF Requests
  <1>3. work' = (work \ {r}) \cup {q} /\ inbox' = inbox
    BY DEF Advance
  <1> HIDE DEF q
  <1>4. work' \subseteq Requests /\ Received' = Received
    BY <1>1, <1>2, <1>3 DEF Received
  <1>5. Advanced(q, r, pc, arg)
    BY <1>1, <1>2, <1>3, <1>4 DEF Advanced
  <1> QED
    BY <1>2, <1>5

(* What every handler leaves alone, and what it may change.                *)
Handled ==
    /\ UNCHANGED <<webVars, sock, late, drops, restarts>>
    /\ prepared' \in [gen : Nat, nonce : Nat] /\ active' \in [gen : Nat, conn : Nat] /\ nonces' \in Nat
    /\ lgen' \in Nat /\ linfo' \in {"none", "live", "exited"} /\ children' \subseteq Processes
    /\ stubborn' \in Nat

LEMMA HandledTypes == ASSUME Types, Handled, work' \subseteq Requests, inbox' \in Seq(Frames) PROVE Types'
  <1>1. /\ job' = job /\ web' = web /\ open' = open /\ missed' = missed /\ jobs' = jobs
        /\ sock' = sock /\ late' = late /\ drops' = drops /\ restarts' = restarts
    BY DEF Handled, webVars
  <1> QED
    BY <1>1 DEF Types, Handled

(* A handler that answers: what the answer must say.                       *)
LEMMA AnswersStep ==
    ASSUME Safe, Handled, ServiceFacts', RightChild', lgen <= lgen',
           NEW r \in work, r.op \in Control, NEW ok \in BOOLEAN, NEW alive \in BOOLEAN, NEW gen \in Nat,
           Reply(r, ok, alive, gen),
           r.op = "bootstrap" /\ ok => alive /\ gen = r.gen,
           r.op \in {"status", "bootstrap"} /\ ok /\ alive =>
               gen <= lgen' /\ \A c \in children' : c.stage = "starting" => c.gen # gen,
           \A c, d \in children' : c = d,
           \A c \in children' : c \in children \/ ChildMoved(c)
    PROVE  RuntimeStep
  <1> DEFINE f == Answer(r, ok, alive, gen)
  <1>1. Types /\ RequestFact(r) /\ r \in Requests
    BY DEF Safe, RequestFacts, Types
  <1>2. /\ work' = work \ {r} /\ work' \subseteq Requests /\ inbox' \in Seq(Frames)
        /\ Received' \subseteq Received \cup {f}
    BY <1>1, ReplyFacts
  <1>3. f.op = r.op /\ f.job = r.job /\ f.ok = ok /\ f.alive = alive /\ f.gen = gen
    BY DEF Answer
  <1> HIDE DEF f
  <1>4. Types'
    BY <1>1, <1>2, HandledTypes
  <1>5. jobs' = jobs /\ job' = job
    BY DEF Handled, webVars
  <1>6. AnswerFact(f)'
    BY <1>1, <1>3, <1>5 DEF AnswerFact, RequestFact, Requests, Awaitable, Announces, Ready, Asked
  <1> QED
    BY <1>2, <1>4, <1>6 DEF RuntimeStep, Handled

LEMMA AdvancesStep ==
    ASSUME Safe, Handled, ServiceFacts', RightChild', lgen <= lgen',
           NEW r \in work, NEW pc \in Places, NEW arg \in Nat, Advance(r, pc, arg),
           pc \in {"starting", "publishing", "undoing"} => r.op = "bootstrap" /\ arg = r.gen /\ arg <= lgen',
           pc = "killing" => r.op = "kill",
           pc \in {"publishing", "undoing"} => NoneStarting',
           \A c, d \in children' : c = d,
           \A c \in children' : c \in children \/ ChildMoved(c)
    PROVE  RuntimeStep
  <1>1. Types
    BY DEF Safe
  <1>2. PICK q \in Requests : Advanced(q, r, pc, arg)
    BY <1>1, AdvanceFacts
  <1>3. Types'
    BY <1>1, <1>2, HandledTypes DEF Advanced
  <1>4. Moved(q)
    BY <1>2 DEF Moved, Advanced
  <1> QED
    BY <1>2, <1>3, <1>4 DEF RuntimeStep, Handled, Advanced

(* Facts every handler starts from.                                        *)
Before(r) ==
    /\ Types /\ RequestFact(r) /\ r \in Requests /\ ServiceFacts /\ RightChild /\ ChildFacts
    /\ \A c \in children : ChildFact(c) /\ c \in Processes
    /\ lgen \in Nat /\ nonces \in Nat /\ stubborn \in Nat /\ sock.id \in Nat /\ jobs \in Nat
    /\ r.gen \in Nat /\ r.conn \in Nat /\ active.gen \in Nat /\ active.conn \in Nat

LEMMA BeforeHolds == ASSUME Safe, NEW r \in work PROVE Before(r)
  <1>1. Types /\ RequestFact(r) /\ r \in Requests /\ ServiceFacts /\ RightChild /\ ChildFacts
    BY DEF Safe, RequestFacts, Types
  <1>2. \A c \in children : ChildFact(c) /\ c \in Processes
    BY <1>1 DEF ChildFacts, Types
  <1>3. /\ lgen \in Nat /\ nonces \in Nat /\ stubborn \in Nat /\ sock.id \in Nat /\ jobs \in Nat
        /\ active.gen \in Nat /\ active.conn \in Nat
    BY <1>1 DEF Types
  <1>4. r.gen \in Nat /\ r.conn \in Nat
    BY <1>1 DEF Requests
  <1> QED
    BY <1>1, <1>2, <1>3, <1>4 DEF Before

Frame == UNCHANGED <<webVars, sock, late, drops, restarts>>

LEMMA ReboundFacts ==
    ASSUME Safe, NEW r \in work
    PROVE  /\ Rebound(r) \in [gen : Nat, conn : Nat] /\ Rebound(r).gen = active.gen
           /\ Rebound(r).conn <= sock.id /\ (Rebound(r).gen = 0 <=> Rebound(r).conn = 0)
  <1>1. Before(r)
    BY BeforeHolds
  <1>2. active \in [gen : Nat, conn : Nat]
    BY <1>1 DEF Before, Types
  <1>3. CASE active.gen # 0
    BY <1>1, <1>2, <1>3 DEF Rebound, Before, RequestFact
  <1>4. CASE active.gen = 0
    BY <1>1, <1>2, <1>4 DEF Rebound, Before, ServiceFacts
  <1> QED
    BY <1>3, <1>4

LEMMA ServeStatusStep == ASSUME Safe, NEW r \in work, ServeStatus(r), Frame PROVE RuntimeStep
  <1>1. Before(r)
    BY BeforeHolds
  <1>2. /\ r.op = "status" /\ r.op \in Control
        /\ prepared' = prepared /\ nonces' = nonces /\ lgen' = lgen /\ linfo' = linfo /\ children' = children
        /\ delivered' = delivered /\ stubborn' = stubborn
    BY DEF ServeStatus, launcherVars, Control, Asked
  <1>3. active' \in {active, Rebound(r)}
    BY DEF ServeStatus
  <1>4. jobs' = jobs /\ sock' = sock
    BY DEF Frame, webVars
  <1>5. ServiceFacts' /\ RightChild' /\ active' \in [gen : Nat, conn : Nat]
    BY <1>1, <1>2, <1>3, <1>4, ReboundFacts DEF Before, ServiceFacts, RightChild, Types
  <1>6. Handled
    BY <1>1, <1>2, <1>5 DEF Handled, Frame, Before, Types
  <1>7. lgen <= lgen' /\ \A c, d \in children' : c = d
    BY <1>1, <1>2 DEF Before, ChildFacts
  <1>8. CASE \E c \in Runtimes : Reply(r, TRUE, TRUE, c.gen)
    <2>1. PICK c \in children : c.stage # "starting" /\ Reply(r, TRUE, TRUE, c.gen)
      BY <1>8 DEF Runtimes
    <2>2. c.gen \in Nat /\ c.gen <= lgen' /\ \A d \in children' : d.stage # "starting"
      BY <1>1, <1>2, <2>1 DEF Before, ChildFacts, ChildFact, Processes
    <2> QED
      BY <1>2, <1>5, <1>6, <1>7, <2>1, <2>2, AnswersStep
  <1>9. CASE Reply(r, TRUE, FALSE, 0) \/ Reply(r, FALSE, FALSE, 0)
    BY <1>2, <1>5, <1>6, <1>7, <1>9, AnswersStep
  <1> QED
    BY <1>8, <1>9 DEF ServeStatus

LEMMA ServePrepareStep == ASSUME Safe, NEW r \in work, ServePrepare(r), Frame PROVE RuntimeStep
  <1>1. Before(r)
    BY BeforeHolds
  <1>2. /\ r.op = "prepare" /\ r.op \in Control
        /\ active' = active /\ lgen' = lgen /\ linfo' = linfo /\ children' = children
        /\ delivered' = delivered /\ stubborn' = stubborn
    BY DEF ServePrepare, launcherVars, Control, Asked
  <1>3. \/ prepared' = prepared /\ nonces' = nonces
        \/ prepared' = [gen |-> r.gen, nonce |-> nonces + 1] /\ nonces' = nonces + 1
    BY DEF ServePrepare
  <1>4. jobs' = jobs /\ sock' = sock
    BY DEF Frame, webVars
  <1>5. prepared' \in [gen : Nat, nonce : Nat] /\ nonces' \in Nat /\ (prepared'.gen = 0 <=> prepared'.nonce = 0)
    <2>1. CASE prepared' = prepared /\ nonces' = nonces
      BY <1>1, <2>1 DEF Before, Types, ServiceFacts
    <2>2. CASE prepared' = [gen |-> r.gen, nonce |-> nonces + 1] /\ nonces' = nonces + 1
      BY <1>1, <2>2 DEF Before, RequestFact
    <2> QED
      BY <1>3, <2>1, <2>2
  <1>6. ServiceFacts' /\ RightChild'
    BY <1>1, <1>2, <1>4, <1>5 DEF Before, ServiceFacts, RightChild
  <1>7. Handled
    BY <1>1, <1>2, <1>5 DEF Handled, Frame, Before, Types
  <1>8. lgen <= lgen' /\ \A c, d \in children' : c = d
    BY <1>1, <1>2 DEF Before, ChildFacts
  <1>9. nonces + 1 \in Nat
    <2>1. nonces \in Nat
      BY <1>1 DEF Before
    <2> QED
      BY <2>1
  <1>10. Reply(r, TRUE, FALSE, nonces + 1) \/ Reply(r, FALSE, FALSE, 0)
    BY DEF ServePrepare
  <1> QED
    BY <1>2, <1>6, <1>7, <1>8, <1>9, <1>10, AnswersStep

(* The step that could make a second child: a request that binds the       *)
(* launcher's next generation leaves no child that is still starting.      *)
LEMMA ServeBootstrapStep == ASSUME Safe, NEW r \in work, ServeBootstrap(r), Frame PROVE RuntimeStep
  <1>1. Before(r)
    BY BeforeHolds
  <1>2. /\ r.op = "bootstrap" /\ r.op \in Control /\ r.pc = "sent"
        /\ active' = active /\ nonces' = nonces /\ delivered' = delivered /\ stubborn' = stubborn
    BY DEF ServeBootstrap, Control, Asked
  <1>3. prepared' \in {prepared, [gen |-> 0, nonce |-> 0]}
    BY DEF ServeBootstrap
  <1>4. jobs' = jobs /\ sock' = sock
    BY DEF Frame, webVars
  <1>5. prepared' \in [gen : Nat, nonce : Nat] /\ (prepared'.gen = 0 <=> prepared'.nonce = 0)
    BY <1>1, <1>3 DEF Before, Types, ServiceFacts
  <1>6. ServiceFacts' /\ RightChild'
    BY <1>1, <1>2, <1>4, <1>5 DEF Before, ServiceFacts, RightChild
  <1>7. CASE Reply(r, FALSE, FALSE, 0) /\ lgen' \in {lgen, lgen + 1} /\ linfo' = linfo /\ children' = children
    <2>1. lgen' \in Nat /\ lgen <= lgen' /\ \A c, d \in children' : c = d
      BY <1>1, <1>7 DEF Before, ChildFacts
    <2>2. Handled
      BY <1>1, <1>2, <1>5, <1>7, <2>1 DEF Handled, Frame, Before, Types
    <2> QED
      BY <1>2, <1>6, <1>7, <2>1, <2>2, AnswersStep
  <1>8. CASE /\ Runtimes = {} /\ Binds(r.gen) /\ lgen' = lgen + 1 /\ linfo' = "live"
             /\ children' = children \cup {[gen |-> lgen + 1, conn |-> r.conn, stage |-> "starting"]}
             /\ Advance(r, "starting", lgen + 1)
    <2>1. r.gen = lgen + 1 /\ lgen' \in Nat /\ lgen <= lgen' /\ lgen + 1 \in Nat
      BY <1>1, <1>8 DEF Binds, Before
    <2>2. children = {}
      <3> SUFFICES ASSUME NEW c \in children PROVE FALSE
        OBVIOUS
      <3>1. c.stage = "starting"
        BY <1>8 DEF Runtimes
      <3>2. r.gen <= c.gen /\ c.gen <= lgen /\ c.gen \in Nat
        BY <1>1, <3>1 DEF Before, ChildFact, Processes
      <3> QED
        BY <1>1, <2>1, <3>2 DEF Before
    <2> DEFINE d == [gen |-> lgen + 1, conn |-> r.conn, stage |-> "starting"]
    <2>3. d \in Processes /\ d.gen = lgen + 1 /\ d.conn = r.conn /\ children' = {d}
      BY <1>1, <1>8, <2>1, <2>2 DEF Processes, Stages, Before
    <2> HIDE DEF d
    <2>4. ChildMoved(d)
      BY <1>1, <1>8, <2>1, <2>3 DEF ChildMoved, Before, RequestFact
    <2>5. Handled
      BY <1>1, <1>2, <1>5, <1>8, <2>1, <2>3 DEF Handled, Frame, Before, Types
    <2>6. \A c \in children' : c = d
      BY <2>3
    <2> QED
      BY <1>2, <1>6, <1>8, <2>1, <2>4, <2>5, <2>6, AdvancesStep DEF Places
  <1> QED
    BY <1>7, <1>8 DEF ServeBootstrap, launcherVars

(* The child of a launch, and what becomes of it.                          *)
LEMMA RestagedFacts ==
    ASSUME Safe, NEW r \in work, NEW c \in children, NEW stage \in {"up", "terminating"},
           children' = (children \ {c}) \cup {[c EXCEPT !.stage = stage]}, lgen' \in Nat, lgen <= lgen'
    PROVE  /\ children' \subseteq Processes /\ NoneStarting' /\ \A d, e \in children' : d = e
           /\ \A d \in children' : d \in children \/ ChildMoved(d)
  <1>1. Before(r)
    BY BeforeHolds
  <1> DEFINE n == [c EXCEPT !.stage = stage]
  <1>2. c \in Processes /\ ChildFact(c) /\ children = {c}
    BY <1>1 DEF Before, ChildFacts
  <1>3. n \in Processes /\ n.gen = c.gen /\ n.conn = c.conn /\ n.stage = stage
    BY <1>2 DEF Processes, Stages
  <1>4. children' = {n}
    BY <1>2
  <1> HIDE DEF n
  <1>5. ChildMoved(n)
    BY <1>1, <1>2, <1>3 DEF ChildMoved, ChildFact, Processes, Before
  <1> QED
    BY <1>3, <1>4, <1>5 DEF NoneStarting

LEMMA PublishStep == ASSUME Safe, NEW r \in work, NEW c \in children, Publish(r, c), Frame PROVE RuntimeStep
  <1>1. Before(r)
    BY BeforeHolds
  <1>2. /\ r.op = "bootstrap" /\ r.pc = "starting" /\ c.gen = r.arg
        /\ children' = (children \ {c}) \cup {[c EXCEPT !.stage = "up"]}
        /\ Advance(r, "publishing", r.arg)
        /\ lgen' = lgen /\ linfo' = linfo /\ prepared' = prepared /\ active' = active /\ nonces' = nonces
        /\ delivered' = delivered /\ stubborn' = stubborn
    BY DEF Publish, Launching, serviceVars
  <1>3. jobs' = jobs /\ sock' = sock
    BY DEF Frame, webVars
  <1>4. ServiceFacts' /\ RightChild' /\ lgen <= lgen' /\ lgen' \in Nat
    BY <1>1, <1>2, <1>3 DEF Before, ServiceFacts, RightChild
  <1>5. /\ children' \subseteq Processes /\ NoneStarting' /\ \A d, e \in children' : d = e
        /\ \A d \in children' : d \in children \/ ChildMoved(d)
    BY <1>2, <1>4, RestagedFacts
  <1>6. Handled
    BY <1>1, <1>2, <1>4, <1>5 DEF Handled, Frame, Before, Types
  <1>7. r.arg \in Nat /\ r.arg = r.gen /\ r.arg <= lgen'
    BY <1>1, <1>2 DEF Before, RequestFact
  <1> QED
    BY <1>2, <1>4, <1>5, <1>6, <1>7, AdvancesStep DEF Places

LEMMA LaunchUndoneStep == ASSUME Safe, NEW r \in work, NEW c \in children, LaunchUndone(r, c), Frame PROVE RuntimeStep
  <1>1. Before(r)
    BY BeforeHolds
  <1>2. /\ r.op = "bootstrap" /\ r.pc = "publishing" /\ c.gen = r.arg
        /\ children' = (children \ {c}) \cup {[c EXCEPT !.stage = "terminating"]}
        /\ Advance(r, "undoing", r.arg) /\ lgen' = IF lgen > c.gen THEN lgen ELSE c.gen + 1
        /\ linfo' = linfo /\ prepared' = prepared /\ active' = active /\ nonces' = nonces
        /\ delivered' = delivered /\ stubborn' = stubborn
    BY DEF LaunchUndone, Launching, serviceVars
  <1>3. jobs' = jobs /\ sock' = sock
    BY DEF Frame, webVars
  <1>4. lgen <= lgen' /\ lgen' \in Nat
    BY <1>1, <1>2 DEF Before, ChildFact, Processes
  <1>5. ServiceFacts' /\ RightChild'
    BY <1>1, <1>2, <1>3 DEF Before, ServiceFacts, RightChild
  <1>6. /\ children' \subseteq Processes /\ NoneStarting' /\ \A d, e \in children' : d = e
        /\ \A d \in children' : d \in children \/ ChildMoved(d)
    BY <1>2, <1>4, RestagedFacts
  <1>7. Handled
    BY <1>1, <1>2, <1>4, <1>6 DEF Handled, Frame, Before, Types
  <1>8. r.arg \in Nat /\ r.arg = r.gen /\ r.arg <= lgen'
    BY <1>1, <1>2, <1>4 DEF Before, RequestFact
  <1> QED
    BY <1>2, <1>4, <1>5, <1>6, <1>7, <1>8, AdvancesStep DEF Places

LEMMA LaunchFailsStep ==
    ASSUME Safe, NEW r \in work, NEW c \in children, LaunchFails(r, c) \/ LaunchRetains(r, c), Frame
    PROVE  RuntimeStep
  <1>1. Before(r)
    BY BeforeHolds
  <1>2. /\ r.op = "bootstrap" /\ r.op \in Control /\ Reply(r, FALSE, FALSE, 0)
        /\ linfo' \in {linfo, "exited"} /\ prepared' = prepared /\ active' = active /\ nonces' = nonces
        /\ delivered' = delivered /\ stubborn' \in {stubborn, stubborn + 1}
    BY DEF LaunchFails, LaunchRetains, Launching, serviceVars, Control, Asked
  <1>3. jobs' = jobs /\ sock' = sock
    BY DEF Frame, webVars
  <1>4. ServiceFacts' /\ RightChild'
    BY <1>1, <1>2, <1>3 DEF Before, ServiceFacts, RightChild
  <1>5. stubborn' \in Nat /\ linfo' \in {"none", "live", "exited"}
    BY <1>1, <1>2 DEF Before, Types
  <1>6. lgen <= lgen' /\ lgen' \in Nat
    <2>1. lgen \in Nat /\ c.gen \in Nat /\ lgen' \in {lgen, c.gen + 1} /\ (lgen' = lgen \/ ~(lgen > c.gen))
      BY <1>1 DEF Before, Processes, LaunchFails, LaunchRetains
    <2> QED
      BY <2>1
  <1>7. /\ children' \subseteq Processes /\ \A d, e \in children' : d = e
        /\ \A d \in children' : d \in children \/ ChildMoved(d)
    <2>1. CASE LaunchFails(r, c)
      BY <1>1, <2>1 DEF LaunchFails, Before, ChildFacts, Types
    <2>2. CASE LaunchRetains(r, c)
      BY <1>6, <2>2, RestagedFacts DEF LaunchRetains
    <2> QED
      BY <2>1, <2>2
  <1>8. Handled
    BY <1>1, <1>2, <1>5, <1>6, <1>7 DEF Handled, Frame, Before, Types
  <1> QED
    BY <1>2, <1>4, <1>6, <1>7, <1>8, AnswersStep

LEMMA LaunchReturnsStep ==
    ASSUME Safe, NEW r \in work, UndoneAnswer(r) \/ LaunchReturns(r), Frame
    PROVE  RuntimeStep
  <1>1. Before(r)
    BY BeforeHolds
  <1>2. /\ r.op = "bootstrap" /\ r.op \in Control /\ linfo' \in {linfo, "live"}
        /\ active' \in {active, [gen |-> r.gen, conn |-> r.conn]}
        /\ prepared' = prepared /\ nonces' = nonces /\ lgen' = lgen /\ children' = children
        /\ delivered' = delivered /\ stubborn' = stubborn
    BY DEF UndoneAnswer, LaunchReturns, serviceVars, launcherVars, Control, Asked
  <1>3. jobs' = jobs /\ sock' = sock
    BY DEF Frame, webVars
  <1>4. /\ active' \in [gen : Nat, conn : Nat] /\ active'.gen <= jobs /\ active'.conn <= sock.id
        /\ active'.gen = 0 <=> active'.conn = 0
    <2>1. CASE active' = active
      BY <1>1, <2>1 DEF Before, ServiceFacts, Types
    <2>2. CASE active' = [gen |-> r.gen, conn |-> r.conn]
      BY <1>1, <2>2 DEF Before, RequestFact
    <2> QED
      BY <1>2, <2>1, <2>2
  <1>5. ServiceFacts' /\ RightChild'
    BY <1>1, <1>2, <1>3, <1>4 DEF Before, ServiceFacts, RightChild
  <1>6. Handled
    BY <1>1, <1>2, <1>4 DEF Handled, Frame, Before, Types
  <1>7. lgen <= lgen' /\ \A c, d \in children' : c = d
    BY <1>1, <1>2 DEF Before, ChildFacts
  <1>8. CASE UndoneAnswer(r)
    <2>1. Reply(r, FALSE, FALSE, 0)
      BY <1>8 DEF UndoneAnswer
    <2> QED
      BY <1>2, <1>5, <1>6, <1>7, <2>1, AnswersStep
  <1>9. CASE LaunchReturns(r)
    <2>1. Reply(r, TRUE, TRUE, r.gen) /\ r.pc = "publishing"
      BY <1>9 DEF LaunchReturns
    <2>2. r.gen <= lgen' /\ r.gen \in Nat /\ \A c \in children' : c.stage = "starting" => c.gen # r.gen
      BY <1>1, <1>2, <2>1 DEF Before, RequestFact, ChildFact
    <2> QED
      BY <1>2, <1>5, <1>6, <1>7, <2>1, <2>2, AnswersStep
  <1> QED
    BY <1>8, <1>9

LEMMA ServeKillStep == ASSUME Safe, NEW r \in work, ServeKill(r), Frame PROVE RuntimeStep
  <1>1. Before(r)
    BY BeforeHolds
  <1>2. /\ r.op = "kill" /\ r.op \in Control
        /\ prepared' = prepared /\ nonces' = nonces /\ delivered' = delivered /\ stubborn' = stubborn
    BY DEF ServeKill, Control
  <1>3. jobs' = jobs /\ sock' = sock
    BY DEF Frame, webVars
  <1>4. active' \in {active, Nobody, Rebound(r)}
    BY DEF ServeKill
  <1>5. /\ active' \in [gen : Nat, conn : Nat] /\ active'.gen <= jobs /\ active'.conn <= sock.id
        /\ active'.gen = 0 <=> active'.conn = 0
    <2>1. CASE active' \in {active, Rebound(r)}
      BY <1>1, <2>1, ReboundFacts DEF Before, ServiceFacts, Types
    <2>2. CASE active' = Nobody
      BY <1>1, <2>2 DEF Before, Nobody
    <2> QED
      BY <1>4, <2>1, <2>2
  <1>6. ServiceFacts' /\ RightChild'
    BY <1>1, <1>2, <1>3, <1>5 DEF Before, ServiceFacts, RightChild
  <1>7. CASE /\ lgen' = lgen /\ linfo' = linfo /\ children' = children
             /\ \E ok, alive \in BOOLEAN : Reply(r, ok, alive, 0)
    <2>1. Handled /\ lgen <= lgen' /\ \A c, d \in children' : c = d
      BY <1>1, <1>2, <1>5, <1>7 DEF Handled, Frame, Before, Types, ChildFacts
    <2>2. PICK ok \in BOOLEAN, alive \in BOOLEAN : Reply(r, ok, alive, 0)
      BY <1>7
    <2> QED
      BY <1>2, <1>6, <1>7, <2>1, <2>2, AnswersStep
  <1>8. ASSUME NEW c \in children,
               /\ children' = (children \ {c}) \cup {[c EXCEPT !.stage = "terminating"]}
               /\ lgen' = IF lgen > c.gen THEN lgen ELSE c.gen + 1
               /\ Advance(r, "killing", c.gen) /\ linfo' = linfo
        PROVE  RuntimeStep
    <2>1. lgen <= lgen' /\ lgen' \in Nat /\ c.gen \in Nat
      BY <1>1, <1>8 DEF Before, ChildFact, Processes
    <2>2. /\ children' \subseteq Processes /\ NoneStarting' /\ \A d, e \in children' : d = e
          /\ \A d \in children' : d \in children \/ ChildMoved(d)
      BY <1>8, <2>1, RestagedFacts
    <2>3. Handled
      BY <1>1, <1>2, <1>5, <1>8, <2>1, <2>2 DEF Handled, Frame, Before, Types
    <2> QED
      BY <1>2, <1>6, <1>8, <2>1, <2>2, <2>3, AdvancesStep DEF Places
  <1>9. \/ /\ lgen' = lgen /\ linfo' = linfo /\ children' = children
           /\ \E ok, alive \in BOOLEAN : Reply(r, ok, alive, 0)
        \/ \E c \in children :
             /\ children' = (children \ {c}) \cup {[c EXCEPT !.stage = "terminating"]}
             /\ lgen' = IF lgen > c.gen THEN lgen ELSE c.gen + 1
             /\ Advance(r, "killing", c.gen) /\ linfo' = linfo
    <2>1. (linfo \in {"none", "exited"}) \in BOOLEAN
      OBVIOUS
    <2> QED
      BY <2>1 DEF ServeKill, launcherVars, Runtimes
  <1> QED
    BY <1>7, <1>8, <1>9

LEMMA KillReturnsStep == ASSUME Safe, NEW r \in work, KillReturns(r), Frame PROVE RuntimeStep
  <1>1. Before(r)
    BY BeforeHolds
  <1>2. /\ r.op = "kill" /\ r.op \in Control /\ active' = Nobody
        /\ prepared' = prepared /\ nonces' = nonces /\ delivered' = delivered
        /\ stubborn' \in {stubborn, stubborn + 1} /\ lgen' = lgen /\ linfo' = linfo /\ children' = children
    BY DEF KillReturns, launcherVars, Control
  <1>3. jobs' = jobs /\ sock' = sock
    BY DEF Frame, webVars
  <1>4. active' \in [gen : Nat, conn : Nat] /\ active'.gen = 0 /\ active'.conn = 0 /\ stubborn' \in Nat
    BY <1>1, <1>2 DEF Nobody, Before
  <1>5. ServiceFacts' /\ RightChild'
    BY <1>1, <1>2, <1>3, <1>4 DEF Before, ServiceFacts, RightChild
  <1>6. Handled
    BY <1>1, <1>2, <1>4 DEF Handled, Frame, Before, Types
  <1>7. lgen <= lgen' /\ \A c, d \in children' : c = d
    BY <1>1, <1>2 DEF Before, ChildFacts
  <1>8. Reply(r, TRUE, TRUE, 0) \/ Reply(r, TRUE, FALSE, 0)
    BY DEF KillReturns
  <1> QED
    BY <1>2, <1>5, <1>6, <1>7, <1>8, AnswersStep

LEMMA ServeRequestStep == ASSUME Safe, NEW r \in work, ServeRequest(r), Frame PROVE RuntimeStep
  <1>1. Before(r)
    BY BeforeHolds
  <1>2. /\ work' = work \ {r} /\ active' \in {active, Rebound(r)} /\ inbox' = inbox
        /\ delivered' = delivered \cup {<<r.gen, c.gen>> : c \in Transport(r)}
        /\ prepared' = prepared /\ nonces' = nonces /\ stubborn' = stubborn
        /\ lgen' = lgen /\ linfo' = linfo /\ children' = children
    BY DEF ServeRequest, launcherVars
  <1>3. jobs' = jobs /\ sock' = sock
    BY DEF Frame, webVars
  <1>4. /\ active' \in [gen : Nat, conn : Nat] /\ active'.gen <= jobs /\ active'.conn <= sock.id
        /\ active'.gen = 0 <=> active'.conn = 0
    BY <1>1, <1>2, ReboundFacts DEF Before, ServiceFacts, Types
  <1>5. ServiceFacts'
    BY <1>1, <1>2, <1>3, <1>4 DEF Before, ServiceFacts
  <1>6. RightChild'
    BY <1>1, <1>2 DEF Before, RightChild, Transport
  <1>7. Handled
    BY <1>1, <1>2, <1>4 DEF Handled, Frame, Before, Types
  <1>8. Types'
    BY <1>1, <1>2, <1>7, HandledTypes DEF Before, Types
  <1>9. Received' = Received
    BY <1>2 DEF Received
  <1> QED
    BY <1>1, <1>2, <1>5, <1>6, <1>7, <1>8, <1>9 DEF RuntimeStep, Handled, Before, ChildFacts

LEMMA ChildExitsStep == ASSUME Safe, NEW c \in children, ChildExits(c) PROVE RuntimeStep
  <1>1. /\ Types /\ ServiceFacts /\ RightChild /\ ChildFacts
    BY DEF Safe
  <1> DEFINE f == [op |-> "lifecycle", gen |-> c.gen]
  <1>2. /\ children' = children \ {c} /\ linfo' = "exited" /\ active' = Nobody /\ Deliver(c.conn, f)
        /\ UNCHANGED <<webVars, sock, late>> /\ work' = work /\ prepared' = prepared /\ nonces' = nonces
        /\ lgen' = lgen /\ delivered' = delivered /\ drops' = drops /\ restarts' = restarts /\ stubborn' = stubborn
    BY DEF ChildExits, Exited, faults
  <1>3. f \in Exits /\ f \in Frames /\ f.op = "lifecycle"
    BY <1>1 DEF Exits, Frames, Types, Processes
  <1> HIDE DEF f
  <1>4. inbox' \in Seq(Frames) /\ Received' \subseteq Received \cup {f}
    BY <1>1, <1>2, <1>3, DeliverFacts
  <1>5. active' \in [gen : Nat, conn : Nat] /\ active'.gen = 0 /\ active'.conn = 0
    BY <1>2 DEF Nobody
  <1>6. /\ lgen \in Nat /\ jobs \in Nat /\ sock.id \in Nat /\ jobs' = jobs /\ sock' = sock
    BY <1>1, <1>2 DEF Types, webVars
  <1>7. ServiceFacts' /\ RightChild'
    BY <1>1, <1>2, <1>5, <1>6 DEF ServiceFacts, RightChild
  <1>8. Handled
    BY <1>1, <1>2, <1>5 DEF Handled, Types
  <1>9. Types'
    BY <1>1, <1>2, <1>4, <1>8, HandledTypes DEF Types
  <1> QED
    BY <1>1, <1>2, <1>3, <1>4, <1>6, <1>7, <1>9 DEF RuntimeStep, ChildFacts

LEMMA ServeSafe == ASSUME Safe, NEW r \in work, Serve(r) PROVE Safe'
  <1>1. Frame
    BY DEF Serve, Frame
  <1> QED
    BY <1>1, RuntimeStepSafe, ServeStatusStep, ServePrepareStep, ServeBootstrapStep, PublishStep, LaunchFailsStep,
       LaunchUndoneStep, LaunchReturnsStep, ServeKillStep, KillReturnsStep, ServeRequestStep DEF Serve

LEMMA SafeStep == Safe /\ [Next]_vars => Safe'
  <1> SUFFICES ASSUME Safe, [Next]_vars PROVE Safe'
    OBVIOUS
  <1>1. CASE UNCHANGED vars
    BY <1>1 DEF vars, Safe, Types, WebFacts, JobFacts, ServiceFacts, RequestFacts, RequestFact, AnswerFacts,
       AnswerFact, Announces, Awaitable, Ready, Received, ChildFacts, ChildFact, RightChild
  <1>2. ASSUME NEW r \in work, Serve(r) PROVE Safe'
    BY <1>2, ServeSafe
  <1>3. ASSUME NEW c \in children, ChildExits(c) PROVE Safe'
    BY <1>3, ChildExitsStep, RuntimeStepSafe
  <1> QED
    BY <1>1, <1>2, <1>3, WebSafe DEF Next

(* Both processes keep their types, the Runtime has one child at most, and *)
(* no request reaches a child of another generation: for every number of   *)
(* jobs, broken connections, restarts and failing kills.                   *)
THEOREM OneSoundChild == Spec => []ChildSound
  <1>1. Init => Safe
    BY InitHolds DEF IInv
  <1>2. Safe => ChildSound
    <2> SUFFICES ASSUME Safe PROVE ChildSound
      OBVIOUS
    <2>1. Types /\ WebFacts /\ ServiceFacts /\ ChildFacts /\ RightChild
      BY DEF Safe
    <2>2. OneChild
      <3>1. CASE children = {}
        BY <3>1, FS_EmptySet DEF OneChild
      <3>2. CASE children # {}
        <4>1. PICK c : children = {c}
          BY <2>1, <3>2 DEF ChildFacts
        <4> QED
          <5>1. Cardinality({c}) = 1
            BY FS_Singleton
          <5>2. Cardinality(children) <= 1
            BY <4>1, <5>1
          <5> QED
            BY <5>2 DEF OneChild
      <3> QED
        BY <3>1, <3>2
    <2>3. TypeOK
      <3>1. job.pc \in {"idle", "status", "prepare", "bootstrap", "attach", "kill"}
        BY <2>1 DEF Types, Jobs, Control, Asked
      <3>2. open \subseteq 1..MaxJobs /\ active.gen \in 0..MaxJobs
        BY <2>1, ControlAssumption DEF Types, WebFacts, JobFacts, ServiceFacts
      <3>3. \A c \in children : c.gen <= lgen /\ c.stage \in {"starting", "up", "terminating"}
        BY <2>1 DEF ChildFacts, ChildFact, Types, Processes, Stages
      <3> QED
        BY <2>1, <3>1, <3>2, <3>3 DEF TypeOK, Types, WebFacts, JobFacts, ServiceFacts
    <2> QED
      BY <2>1, <2>2, <2>3 DEF ChildSound
  <1> QED
    BY <1>1, <1>2, SafeStep, PTL DEF Spec

-----------------------------------------------------------------------------
(* While nothing breaks: the Web's steps *)

NoControl == \A r \in work : r.op = "request"

(* A step of the Web that leaves one request at most and no answer.        *)
LEMMA WebQuiet ==
    ASSUME Safe, QuietFacts, Types', OneConnection', NoControl, NoAnswers',
           active' = active, children' = children,
           \/ work' = work
           \/ \E r \in Requests :
                /\ work' = work \cup {r} /\ r.op = job'.pc /\ r.job = jobs' /\ r.pc = "sent"
                /\ r.op = "kill" => r.gen = web'.gen,
           job'.kind = "launch" => web'.cur = 0,
           job'.pc \in Asked => active.gen = 0,
           job'.pc = "attach" => AgreedOn(job.gen)',
           job'.kind # "launch" => AgreedOn(web.cur)',
           web'.killed => job'.pc = "idle" /\ web'.cur = 0 /\ children = {}
    PROVE  QuietFacts'
  <1>1. OneInFlight'
    BY DEF OneInFlight, NoControl, NoAnswers
  <1>2. Accounted'
    <2>1. ASSUME NEW c \in children PROVE ChildKnown(c)'
      BY DEF QuietFacts, Accounted, ChildKnown
    <2>2. ASSUME NEW r \in work', r.op = "kill" PROVE r.gen = web'.gen
      BY <2>2 DEF NoControl
    <2>3. ASSUME NEW r \in work', r.pc = "killing" PROVE \A c \in children : c.gen = r.arg
      BY <2>3 DEF QuietFacts, Accounted
    <2> QED
      BY <2>1, <2>2, <2>3 DEF Accounted
  <1>3. Told'
    <2>1. \A i \in 1..Len(inbox') : Tells(i)'
      BY DEF NoAnswers, IsAnswer, Tells, Launched
    <2> QED
      BY <2>1 DEF Told
  <1> QED
    BY <1>1, <1>2, <1>3 DEF QuietFacts

LEMMA SendQuiet ==
    ASSUME Safe, OneConnection, late' = late, NEW op \in Control, NEW gen \in Nat, NEW arg \in Nat,
           NEW frames, FramesLeft(frames), jobs' \in Nat, Send(op, gen, arg, frames)
    PROVE  /\ OneConnection' /\ inbox' = frames
           /\ \E r \in Requests : work' = work \cup {r} /\ r.op = op /\ r.gen = gen /\ r.job = jobs' /\ r.pc = "sent"
  <1>1. Types /\ WebFacts
    BY DEF Safe
  <1>2. frames \in Seq(Frames)
    BY <1>1, FramesLeftTyped
  <1>3. PICK r \in Requests : Sent(r, op, gen, arg, frames)
    BY <1>1, <1>2, SendFacts
  <1>4. sock.id \in Nat /\ sock.up \in BOOLEAN
    BY <1>1 DEF Types
  <1>5. inbox' = frames
    BY <1>3, <1>4 DEF Sent, OneConnection, FramesLeft
  <1>6. sock'.id = 1
    BY <1>1, <1>3, <1>4 DEF Sent, OneConnection, WebFacts
  <1>7. sock'.up
    BY <1>3 DEF Sent
  <1>8. OneConnection'
    BY <1>6, <1>7 DEF OneConnection
  <1>9. work' = work \cup {r} /\ r.op = op /\ r.gen = gen /\ r.job = jobs' /\ r.pc = "sent"
    BY <1>3 DEF Sent
  <1> QED
    BY <1>5, <1>8, <1>9

LEMMA IdleFacts == ASSUME Safe, QuietFacts, job.pc = "idle" PROVE NoControl /\ NoAnswers /\ AgreedOn(web.cur)
  <1>1. Types /\ job.kind = "none"
    BY DEF Safe, WebFacts, JobFacts
  <1>2. NoControl
    BY <1>1 DEF QuietFacts, OneInFlight, NoControl, Types, Requests, Control, Asked
  <1>3. NoAnswers
    <2> SUFFICES ASSUME NEW i \in 1..Len(inbox), IsAnswer(i) PROVE FALSE
      BY DEF NoAnswers
    <2>1. inbox[i] \in Answers
      BY <1>1 DEF Types, Frames, Exits, IsAnswer
    <2>2. inbox[i].op = "idle"
      BY DEF QuietFacts, OneInFlight
    <2> QED
      BY <2>1, <2>2 DEF Answers, Control, Asked
  <1>4. NoKillAnswer
    BY <1>3 DEF NoAnswers, NoKillAnswer, IsAnswer
  <1> QED
    BY <1>1, <1>2, <1>3, <1>4 DEF QuietFacts, Told

LEMMA StartLaunchQuiet == ASSUME Safe, QuietFacts, Types', StartLaunch PROVE QuietFacts'
  <1>1. /\ job.pc = "idle" /\ web.cur \notin open /\ jobs' = jobs + 1
        /\ job' = [kind |-> "launch", pc |-> "status", gen |-> web.gen + 1]
        /\ web' = [web EXCEPT !.killed = FALSE] /\ late' = late /\ active' = active /\ children' = children
        /\ Send("status", web.gen + 1, 0, inbox)
    BY DEF StartLaunch, BeginLaunch, serviceVars, launcherVars
  <1>2. Types /\ WebFacts
    BY DEF Safe
  <1>3. NoControl /\ NoAnswers /\ AgreedOn(web.cur)
    BY <1>1, IdleFacts
  <1>4. web.cur = 0
    BY <1>1, <1>2 DEF WebFacts, JobFacts
  <1>5. active.gen = 0
    BY <1>3, <1>4 DEF AgreedOn
  <1>6. "status" \in Control /\ web.gen + 1 \in Nat /\ jobs' \in Nat /\ FramesLeft(inbox)
    <2>1. web.gen \in Nat /\ jobs \in Nat
      BY <1>2 DEF Types
    <2> QED
      BY <1>1, <2>1 DEF Control, Asked, FramesLeft
  <1>7. /\ OneConnection' /\ inbox' = inbox
        /\ \E r \in Requests : work' = work \cup {r} /\ r.op = "status" /\ r.gen = web.gen + 1 /\ r.job = jobs' /\ r.pc = "sent"
    BY <1>1, <1>6, SendQuiet DEF QuietFacts
  <1>8. NoAnswers'
    BY <1>3, <1>7 DEF NoAnswers, IsAnswer
  <1>9. web'.cur = 0 /\ ~web'.killed /\ job'.kind = "launch" /\ job'.pc = "status"
    BY <1>1, <1>2, <1>4 DEF Types
  <1> QED
    BY <1>1, <1>3, <1>5, <1>7, <1>8, <1>9, WebQuiet

LEMMA StartKillQuiet ==
    ASSUME Safe, QuietFacts, Types', NEW kind \in {"kill", "relaunch"}, StartKill(kind)
    PROVE  QuietFacts'
  <1>1. /\ job.pc = "idle" /\ web.cur # 0 /\ jobs' = jobs + 1
        /\ job' = [kind |-> kind, pc |-> "kill", gen |-> web.gen]
        /\ web' = web /\ late' = late /\ active' = active /\ children' = children
        /\ Send("kill", web.gen, 0, inbox)
    BY DEF StartKill, serviceVars, launcherVars
  <1>2. Types /\ WebFacts
    BY DEF Safe
  <1>3. NoControl /\ NoAnswers /\ AgreedOn(web.cur)
    BY <1>1, IdleFacts
  <1>4. "kill" \in Control /\ web.gen \in Nat /\ jobs' \in Nat /\ FramesLeft(inbox)
    BY <1>1, <1>2 DEF Control, Types, FramesLeft
  <1>5. /\ OneConnection' /\ inbox' = inbox
        /\ \E r \in Requests : work' = work \cup {r} /\ r.op = "kill" /\ r.gen = web.gen /\ r.job = jobs' /\ r.pc = "sent"
    BY <1>1, <1>4, SendQuiet DEF QuietFacts
  <1>6. NoAnswers' /\ AgreedOn(web.cur)'
    <2>1. missed' = missed
      BY DEF StartKill
    <2> QED
      BY <1>1, <1>3, <1>5, <2>1 DEF NoAnswers, IsAnswer, AgreedOn, IsExit
  <1>7. ~web'.killed /\ job'.kind = kind /\ job'.pc = "kill" /\ web'.gen = web.gen /\ job'.pc \notin Asked
    BY <1>1 DEF QuietFacts, Told, Asked
  <1> QED
    BY <1>1, <1>3, <1>5, <1>6, <1>7, WebQuiet

LEMMA AfterKillQuiet ==
    ASSUME Safe, QuietFacts, Types', NoControl, NoAnswers', late' = late, active' = active, children' = children,
           NEW frames, FramesLeft(frames), frames # <<>> => sock.up,
           jobs' = jobs, web'.gen = web.gen, web'.cur = 0, active.gen = 0,
           web'.killed => job.kind = "kill" /\ children = {}, AfterKill(frames)
    PROVE  QuietFacts'
  <1>1. Types
    BY DEF Safe
  <1>2. web.gen \in Nat /\ jobs \in Nat
    BY <1>1 DEF Types
  <1>3. CASE job.kind = "relaunch"
    <2>1. /\ job' = [kind |-> "launch", pc |-> "status", gen |-> web.gen + 1]
          /\ Send("status", web.gen + 1, 0, frames)
      BY <1>3 DEF AfterKill, BeginLaunch
    <2>2. "status" \in Control /\ web.gen + 1 \in Nat /\ jobs' \in Nat
      BY <1>2 DEF Control, Asked
    <2>3. /\ OneConnection'
          /\ \E r \in Requests : work' = work \cup {r} /\ r.op = "status" /\ r.gen = web.gen + 1 /\ r.job = jobs' /\ r.pc = "sent"
      BY <2>1, <2>2, SendQuiet DEF QuietFacts
    <2>4. ~web'.killed /\ job'.kind = "launch" /\ job'.pc = "status"
      BY <1>3, <2>1
    <2> QED
      BY <2>3, <2>4, WebQuiet
  <1>4. CASE job.kind # "relaunch"
    <2>1. job' = Idle /\ inbox' = frames /\ sock' = sock /\ work' = work
      BY <1>4 DEF AfterKill, EndJob
    <2>2. OneConnection'
      BY <2>1 DEF QuietFacts, OneConnection
    <2>3. job'.kind = "none" /\ job'.pc = "idle" /\ job'.pc \notin Asked
      BY <2>1 DEF Idle, Asked
    <2>4. AgreedOn(web.cur)'
      BY DEF AgreedOn
    <2> QED
      BY <2>1, <2>2, <2>3, <2>4, WebQuiet
  <1> QED
    BY <1>3, <1>4

LEMMA ReceiveQuiet == ASSUME Safe, QuietFacts, Types', Receive PROVE QuietFacts'
  <1> DEFINE f == Head(inbox)
             rest == Tail(inbox)
             awaited == f.job = jobs /\ f.op = job.pc
  <1>1. inbox # <<>> /\ f.op # "lifecycle" /\ jobs' = jobs
        /\ UNCHANGED <<missed, late, serviceVars, launcherVars, delivered, faults>>
    BY DEF Receive
  <1>2. Types /\ WebFacts /\ inbox \in Seq(Frames)
    BY DEF Safe, Types
  <1>3. FramesLeft(rest)
    BY <1>1 DEF FramesLeft
  <1>4. /\ f = inbox[1] /\ 1 \in 1..Len(inbox) /\ Len(rest) = Len(inbox) - 1 /\ Len(inbox) \in Nat \ {0}
        /\ \A i \in 1..Len(rest) : i + 1 \in 1..Len(inbox) /\ rest[i] = inbox[i+1]
    BY <1>1, <1>2, TailFacts
  <1>5. IsAnswer(1) /\ awaited /\ Tells(1) /\ job.pc # "idle" /\ job.pc # "attach"
    <2>1. IsAnswer(1)
      BY <1>1, <1>4 DEF IsAnswer
    <2>2. awaited
      BY <1>4, <2>1 DEF QuietFacts, OneInFlight
    <2>3. f \in Answers
      BY <1>1, <1>2, TailFacts DEF Frames, Exits
    <2>4. job.pc # "idle" /\ job.pc # "attach"
      BY <2>2, <2>3 DEF Answers, Control, Asked
    <2> QED
      BY <1>4, <2>1, <2>2, <2>4 DEF QuietFacts, Told
  <1>6. NoControl
    BY <1>4, <1>5 DEF QuietFacts, OneInFlight, NoAnswers, NoControl
  <1>7. \A i \in 1..Len(rest) : rest[i].op = "lifecycle"
    <2> SUFFICES ASSUME NEW i \in 1..Len(rest), rest[i].op # "lifecycle" PROVE FALSE
      OBVIOUS
    <2>1. IsAnswer(i+1) /\ i + 1 \in 1..Len(inbox)
      BY <1>4 DEF IsAnswer
    <2>2. i + 1 = 1
      BY <1>4, <1>5, <2>1 DEF QuietFacts, OneInFlight
    <2> QED
      BY <2>2
  <1>8. sock.up /\ ~web.killed
    BY <1>1, <1>5 DEF QuietFacts, OneConnection, Told
  <1>9. late' = late /\ active' = active /\ children' = children /\ jobs' = jobs /\ jobs' \in Nat
        /\ missed' = missed
    BY <1>1, <1>2 DEF serviceVars, launcherVars, Types
  <1>10. \A i \in 1..Len(inbox) : i # 1 => inbox[i].op = "lifecycle"
    BY <1>4, <1>5 DEF QuietFacts, OneInFlight, IsAnswer
  <1> HIDE DEF f, rest
  <1>11. job.kind = "launch" /\ ~(f.op = "bootstrap" /\ f.ok) => web.cur = 0 /\ active.gen = 0
    <2>1. job.kind = "launch" => job.pc \in Asked
      BY <1>2, <1>5 DEF WebFacts, JobFacts, InLaunch
    <2> QED
      BY <1>4, <1>10, <2>1 DEF QuietFacts, Told, Launched
  <1>12. inbox' = rest => NoAnswers'
    BY <1>7 DEF NoAnswers, IsAnswer
  <1>13. ASSUME EndJob(rest), UNCHANGED <<web, open>>, job.kind = "launch", ~(f.op = "bootstrap" /\ f.ok)
         PROVE  QuietFacts'
    <2>1. job' = Idle /\ inbox' = rest /\ sock' = sock /\ work' = work
      BY <1>13 DEF EndJob
    <2>2. OneConnection' /\ NoAnswers'
      BY <1>8, <1>9, <1>12, <2>1 DEF QuietFacts, OneConnection
    <2>3. job'.kind = "none" /\ job'.pc = "idle" /\ job'.pc \notin Asked
      BY <2>1 DEF Idle, Asked
    <2>4. AgreedOn(web.cur)' /\ ~web'.killed
      BY <1>8, <1>9, <1>11, <1>13 DEF AgreedOn
    <2> QED
      BY <1>6, <1>9, <2>1, <2>2, <2>3, <2>4, WebQuiet
  <1>14. ASSUME NEW op \in {"prepare", "bootstrap"}, NEW arg \in Nat, job' = [job EXCEPT !.pc = op],
                Send(op, job.gen, arg, rest), UNCHANGED <<web, open>>, job.kind = "launch",
                ~(f.op = "bootstrap" /\ f.ok)
         PROVE  QuietFacts'
    <2>1. op \in Control /\ job.gen \in Nat /\ job \in Jobs
      BY <1>2 DEF Control, Asked, Types, Jobs
    <2>2. /\ OneConnection' /\ inbox' = rest
          /\ \E r \in Requests : work' = work \cup {r} /\ r.op = op /\ r.gen = job.gen /\ r.job = jobs' /\ r.pc = "sent"
      BY <1>3, <1>9, <1>14, <2>1, SendQuiet DEF QuietFacts
    <2>3. job'.kind = "launch" /\ job'.pc = op
      BY <1>14, <2>1 DEF Jobs
    <2>4. NoAnswers' /\ web'.cur = 0 /\ active.gen = 0 /\ ~web'.killed
      BY <1>8, <1>11, <1>12, <1>14, <2>2
    <2> QED
      BY <1>6, <1>9, <2>2, <2>3, <2>4, WebQuiet
  <1>15. CASE /\ awaited /\ f.op = "status"
              /\ IF f.ok /\ f.alive
                 THEN IF f.gen = job.gen THEN Resolve(rest) ELSE EndJob(rest)
                 ELSE Prepare(rest)
              /\ UNCHANGED <<web, open>>
    <2>1. job.kind = "launch" /\ ~f.alive
      BY <1>2, <1>4, <1>5, <1>15 DEF WebFacts, JobFacts, Asked, InLaunch, Tells
    <2> QED
      BY <1>14, <1>15, <2>1 DEF Prepare
  <1>16. CASE /\ awaited /\ f.op = "prepare" /\ f.ok
              /\ job' = [job EXCEPT !.pc = "bootstrap"]
              /\ Send("bootstrap", job.gen, f.gen, rest) /\ UNCHANGED <<web, open>>
    <2>1. job.kind = "launch"
      BY <1>2, <1>16 DEF WebFacts, JobFacts, Asked, InLaunch
    <2>2. f.gen \in Nat
      BY <1>1, <1>2, TailFacts DEF Frames, Exits, Answers, f
    <2> QED
      BY <1>14, <1>16, <2>1, <2>2
  <1>17. CASE awaited /\ f.op = "bootstrap" /\ f.ok /\ Resolve(rest) /\ UNCHANGED <<web, open>>
    <2>1. job' = [job EXCEPT !.pc = "attach"] /\ inbox' = rest /\ sock' = sock /\ work' = work
      BY <1>17 DEF Resolve
    <2>2. OneConnection' /\ NoAnswers'
      BY <1>8, <1>9, <1>12, <2>1 DEF QuietFacts, OneConnection
    <2>3. /\ job'.kind = "launch" /\ job'.pc = "attach" /\ job'.pc \notin Asked /\ job'.gen = job.gen
          /\ web'.cur = 0 /\ ~web'.killed
      <3>1. job \in Jobs /\ job.kind = "launch" /\ web.cur = 0
        BY <1>2, <1>17 DEF Types, WebFacts, JobFacts, Asked, InLaunch, QuietFacts, Told
      <3> QED
        BY <1>8, <1>17, <2>1, <3>1 DEF Jobs, Asked
    <2>4. Launched(1)
      BY <1>4, <1>17 DEF Launched
    <2>5. AgreedOn(job.gen)'
      <3>1. CASE \E k \in 1..Len(inbox) : k > 1 /\ IsExit(k, job.gen)
        <4>1. active.gen = 0
          BY <1>5, <2>4, <3>1 DEF Tells
        <4>2. PICK k \in 1..Len(inbox) : k > 1 /\ IsExit(k, job.gen)
          BY <3>1
        <4>3. k - 1 \in 1..Len(rest) /\ rest[k-1] = inbox[k]
          BY <1>4, <4>2
        <4>4. IsExit(k-1, job.gen)'
          BY <2>1, <2>3, <4>2, <4>3 DEF IsExit
        <4> QED
          BY <1>9, <2>1, <4>1, <4>3, <4>4 DEF AgreedOn
      <3>2. CASE \A k \in 1..Len(inbox) : k > 1 => ~IsExit(k, job.gen)
        <4>1. active.gen = job.gen
          BY <1>5, <2>4, <3>2 DEF Tells
        <4>2. ASSUME NEW i \in 1..Len(inbox') PROVE ~IsExit(i, job.gen)'
          <5>1. i + 1 \in 1..Len(inbox) /\ inbox'[i] = inbox[i+1] /\ i + 1 > 1
            BY <1>4, <2>1
          <5>2. ~IsExit(i+1, job.gen)
            BY <3>2, <5>1
          <5> QED
            BY <2>3, <5>1, <5>2 DEF IsExit
        <4> QED
          BY <1>9, <2>3, <4>1, <4>2 DEF AgreedOn
      <3> QED
        BY <3>1, <3>2
    <2> QED
      BY <1>6, <1>9, <2>1, <2>2, <2>3, <2>5, WebQuiet
  <1>18. CASE awaited /\ f.op \in {"prepare", "bootstrap"} /\ ~f.ok /\ EndJob(rest) /\ UNCHANGED <<web, open>>
    <2>1. job.kind = "launch"
      BY <1>2, <1>18 DEF WebFacts, JobFacts, Asked, InLaunch
    <2> QED
      BY <1>13, <1>18, <2>1
  <1>19. CASE /\ awaited /\ f.op = "kill" /\ f.ok
              /\ open' = open \ {web.cur}
              /\ web' = [web EXCEPT !.cur = 0, !.killed = f.alive /\ job.kind = "kill"]
              /\ AfterKill(rest)
    <2>1. active.gen = 0 /\ (f.alive => children = {})
      BY <1>4, <1>5, <1>19 DEF Tells
    <2>2. web \in [gen : Nat, cur : Nat, killed : BOOLEAN]
      BY <1>2 DEF Types
    <2>3. web'.gen = web.gen /\ web'.cur = 0 /\ web'.killed = (f.alive /\ job.kind = "kill")
      BY <1>19, <2>2
    <2>4. inbox' = rest
      <3>1. CASE job.kind = "relaunch"
        <4>1. Send("status", web.gen + 1, 0, rest)
          BY <1>19, <3>1 DEF AfterKill, BeginLaunch
        <4> QED
          BY <1>8, <4>1 DEF Send
      <3>2. CASE job.kind # "relaunch"
        BY <1>19, <3>2 DEF AfterKill, EndJob
      <3> QED
        BY <3>1, <3>2
    <2>5. NoAnswers'
      BY <1>12, <2>4
    <2> QED
      BY <1>3, <1>6, <1>8, <1>9, <1>19, <2>1, <2>3, <2>5, AfterKillQuiet
  <1>20. CASE awaited /\ f.op = "kill" /\ ~f.ok /\ AfterKill(rest) /\ UNCHANGED <<web, open>>
    BY <1>4, <1>5, <1>20 DEF Tells
  <1> QED
    BY <1>5, <1>15, <1>16, <1>17, <1>18, <1>19, <1>20 DEF Receive, f, rest

LEMMA ReceiveExitQuiet == ASSUME Safe, QuietFacts, ReceiveExit PROVE QuietFacts'
  <1> DEFINE f == Head(inbox)
  <1>1. /\ inbox # <<>> /\ f.op = "lifecycle" /\ inbox' = Tail(inbox)
        /\ web' = IF f.gen \in open /\ web.gen = f.gen THEN [web EXCEPT !.cur = 0] ELSE web
        /\ missed' = IF job.pc = "attach" /\ f.gen = job.gen THEN f.gen ELSE missed
        /\ UNCHANGED <<job, jobs, sock, late, work, serviceVars, launcherVars, delivered, faults>>
    BY DEF ReceiveExit
  <1>2. Types /\ WebFacts /\ inbox \in Seq(Frames) /\ web \in [gen : Nat, cur : Nat, killed : BOOLEAN]
    BY DEF Safe, Types
  <1>3. /\ f = inbox[1] /\ 1 \in 1..Len(inbox) /\ Len(inbox') = Len(inbox) - 1 /\ Len(inbox) \in Nat \ {0}
        /\ \A i \in 1..Len(inbox') : i + 1 \in 1..Len(inbox) /\ inbox'[i] = inbox[i+1]
    BY <1>1, <1>2, TailFacts
  <1>4. /\ job' = job /\ jobs' = jobs /\ sock' = sock /\ late' = late /\ work' = work
        /\ active' = active /\ children' = children
        /\ job.kind # "launch" => missed' = missed
    BY <1>1, <1>2 DEF serviceVars, launcherVars, WebFacts, JobFacts, InLaunch
  <1> HIDE DEF f
  <1>5. /\ web'.gen = web.gen /\ web'.killed = web.killed
        /\ f.gen \in open /\ web.gen = f.gen => web'.cur = 0
        /\ ~(f.gen \in open /\ web.gen = f.gen) => web'.cur = web.cur
    BY <1>1, <1>2
  <1>6. /\ \A i \in 1..Len(inbox) : i # 1 => i - 1 \in 1..Len(inbox') /\ inbox'[i-1] = inbox[i]
        /\ ~IsAnswer(1)
    BY <1>1, <1>3 DEF IsAnswer
  <1>7. OneConnection'
    BY <1>1, <1>4 DEF QuietFacts, OneConnection
  <1>8. OneInFlight'
    <2>1. \A i \in 1..Len(inbox') : IsAnswer(i)' => i + 1 \in 1..Len(inbox) /\ IsAnswer(i+1) /\ inbox'[i] = inbox[i+1]
      BY <1>3 DEF IsAnswer
    <2>2. NoAnswers => NoAnswers'
      BY <2>1 DEF NoAnswers
    <2>3. \A r \in work' : r.op # "request" => job'.pc = r.op /\ r.job = jobs' /\ NoAnswers'
      BY <1>4, <2>2 DEF QuietFacts, OneInFlight
    <2>4. \A r, q \in work' : r.op # "request" /\ q.op # "request" => r = q
      BY <1>4 DEF QuietFacts, OneInFlight
    <2>5. \A i \in 1..Len(inbox') : IsAnswer(i)' => job'.pc = inbox'[i].op /\ inbox'[i].job = jobs'
      BY <1>4, <2>1 DEF QuietFacts, OneInFlight
    <2>6. ASSUME NEW i \in 1..Len(inbox'), NEW k \in 1..Len(inbox'), IsAnswer(i)', IsAnswer(k)' PROVE k = i
      <3>1. k + 1 = i + 1
        BY <2>1, <2>6 DEF QuietFacts, OneInFlight
      <3> QED
        BY <3>1
    <2> QED
      BY <2>3, <2>4, <2>5, <2>6 DEF OneInFlight
  <1>9. Accounted'
    BY <1>4, <1>5 DEF QuietFacts, Accounted, ChildKnown
  <1>10. ASSUME NEW i \in 1..Len(inbox') PROVE Tells(i)'
    <2>1. i + 1 \in 1..Len(inbox) /\ inbox'[i] = inbox[i+1] /\ Tells(i+1)
      BY <1>3 DEF QuietFacts, Told
    <2>2. Launched(i)' => Launched(i+1)
      BY <2>1 DEF Launched
    <2>3. ASSUME Launched(i)', NEW k \in 1..Len(inbox'), k > i, IsExit(k, job.gen)' PROVE active.gen = 0
      <3>1. k + 1 \in 1..Len(inbox) /\ k + 1 > i + 1 /\ inbox'[k] = inbox[k+1]
        BY <1>3, <2>3
      <3>2. IsExit(k+1, job.gen)
        BY <1>4, <2>3, <3>1 DEF IsExit
      <3> QED
        BY <2>1, <2>2, <2>3, <3>1, <3>2 DEF Tells
    <2>4. ASSUME Launched(i)', \A k \in 1..Len(inbox') : k > i => ~IsExit(k, job.gen)' PROVE active.gen = job.gen
      <3>1. ASSUME NEW k \in 1..Len(inbox), k > i + 1 PROVE ~IsExit(k, job.gen)
        <4>1. k # 1 /\ k - 1 > i
          BY <3>1
        <4>2. k - 1 \in 1..Len(inbox') /\ inbox'[k-1] = inbox[k]
          BY <1>6, <4>1
        <4> QED
          BY <1>4, <2>4, <4>1, <4>2 DEF IsExit
      <3> QED
        BY <2>1, <2>2, <2>4, <3>1 DEF Tells
    <2> QED
      BY <1>4, <2>1, <2>3, <2>4 DEF Tells
  <1>11. /\ job'.kind = "launch" => web'.cur = 0
         /\ job'.pc \in Asked /\ (\A i \in 1..Len(inbox') : ~Launched(i)') => active'.gen = 0
    <2>1. job.kind = "launch" => web'.cur = 0
      BY <1>5 DEF QuietFacts, Told
    <2>2. ASSUME \A i \in 1..Len(inbox') : ~Launched(i)', NEW i \in 1..Len(inbox) PROVE ~Launched(i)
      <3>1. CASE i = 1
        BY <1>6, <3>1 DEF IsAnswer, Launched
      <3>2. CASE i # 1
        BY <1>6, <2>2, <3>2 DEF Launched
      <3> QED
        BY <3>1, <3>2
    <2> QED
      BY <1>4, <2>1, <2>2 DEF QuietFacts, Told
  <1>15. ASSUME NEW g, AgreedOn(g), f.gen # g, missed' = missed PROVE AgreedOn(g)'
    <2>1. CASE active.gen = 0 /\ \E i \in 1..Len(inbox) : IsExit(i, g)
      <3>1. PICK i \in 1..Len(inbox) : IsExit(i, g)
        BY <2>1
      <3>2. i # 1
        BY <1>3, <1>15, <3>1 DEF IsExit
      <3>3. i - 1 \in 1..Len(inbox') /\ IsExit(i-1, g)'
        BY <1>6, <3>1, <3>2 DEF IsExit
      <3> QED
        BY <1>4, <2>1, <3>3 DEF AgreedOn
    <2>2. CASE active.gen = g /\ \A i \in 1..Len(inbox) : ~IsExit(i, g)
      <3>1. \A i \in 1..Len(inbox') : ~IsExit(i, g)'
        BY <1>3, <2>2 DEF IsExit
      <3> QED
        BY <1>4, <2>2, <3>1 DEF AgreedOn
    <2>3. CASE active.gen = 0 /\ g \in {0, missed}
      BY <1>4, <1>15, <2>3 DEF AgreedOn
    <2> QED
      BY <1>15, <2>1, <2>2, <2>3 DEF AgreedOn
  <1>16. ASSUME NEW g, AgreedOn(g), f.gen = g PROVE active.gen = 0
    <2>1. IsExit(1, g)
      BY <1>1, <1>3, <1>16 DEF IsExit
    <2> QED
      BY <1>3, <1>16, <2>1 DEF AgreedOn
  <1>17. ASSUME job.pc = "attach" PROVE AgreedOn(job.gen)'
    <2>1. AgreedOn(job.gen)
      BY <1>17 DEF QuietFacts, Told
    <2>2. CASE f.gen = job.gen
      <3>1. active.gen = 0 /\ missed' = job.gen
        BY <1>1, <1>16, <1>17, <2>1, <2>2
      <3> QED
        BY <1>4, <3>1 DEF AgreedOn
    <2>3. CASE f.gen # job.gen
      <3>1. missed' = missed
        BY <1>1, <2>3
      <3> QED
        BY <1>4, <1>15, <2>1, <2>3, <3>1
    <2> QED
      BY <2>2, <2>3
  <1>12. ASSUME job.kind # "launch", NoKillAnswer' PROVE AgreedOn(web.cur)'
    <2>1. NoKillAnswer
      <3> SUFFICES ASSUME NEW i \in 1..Len(inbox) PROVE inbox[i].op # "kill"
        BY DEF NoKillAnswer
      <3>1. CASE i = 1
        BY <1>6, <3>1 DEF IsAnswer
      <3>2. CASE i # 1
        BY <1>6, <1>12, <3>2 DEF NoKillAnswer
      <3> QED
        BY <3>1, <3>2
    <2>2. AgreedOn(web.cur) /\ missed' = missed
      BY <1>4, <1>12, <2>1 DEF QuietFacts, Told
    <2>3. web.cur \in {0, web.gen} /\ (web.cur # 0 => web.cur \in open)
      BY <1>2 DEF WebFacts, JobFacts
    <2>4. CASE f.gen = web.cur
      <3>1. active.gen = 0
        BY <1>16, <2>2, <2>4
      <3>2. web'.cur = 0
        BY <1>5, <2>3, <2>4
      <3> QED
        BY <1>4, <3>1, <3>2 DEF AgreedOn
    <2>5. CASE f.gen # web.cur
      <3>1. CASE web'.cur = web.cur
        <4>1. \A g : g = web.cur /\ AgreedOn(g) => AgreedOn(g)'
          BY <1>15, <2>2, <2>5
        <4> QED
          BY <2>2, <3>1, <4>1 DEF AgreedOn, IsExit
      <3>2. CASE web'.cur # web.cur
        <4>1. web.cur = 0 /\ web'.cur = 0
          BY <1>5, <2>3, <2>5, <3>2
        <4> QED
          BY <3>2, <4>1
      <3> QED
        BY <3>1, <3>2
    <2> QED
      BY <2>4, <2>5
  <1>13. web'.killed => job'.pc = "idle" /\ web'.cur = 0 /\ children' = {}
    BY <1>4, <1>5 DEF QuietFacts, Told
  <1>14. Told'
    BY <1>4, <1>10, <1>11, <1>12, <1>13, <1>17 DEF Told
  <1> QED
    BY <1>7, <1>8, <1>9, <1>14 DEF QuietFacts

(* What the launch heard before it listened was kept from it.              *)
LEMMA AttachedQuiet == ASSUME Safe, QuietFacts, Types', Attached PROVE QuietFacts'
  <1>1. /\ job.pc = "attach" /\ Attach /\ job' = Idle /\ inbox' = inbox /\ sock' = sock /\ work' = work
        /\ late' = late /\ missed' = missed /\ active' = active /\ children' = children
    BY DEF Attached, EndJob, serviceVars, launcherVars
  <1>2. Types
    BY DEF Safe
  <1>3. NoControl
    BY <1>1, <1>2 DEF QuietFacts, OneInFlight, NoControl, Types, Requests, Control, Asked
  <1>4. NoAnswers'
    <2> SUFFICES ASSUME NEW i \in 1..Len(inbox), IsAnswer(i) PROVE FALSE
      BY <1>1 DEF NoAnswers, IsAnswer
    <2>0. inbox \in Seq(Frames)
      BY <1>2 DEF Types
    <2>3. inbox[i] \in Frames
      BY <2>0
    <2>1. inbox[i] \in Answers
      BY <2>3 DEF Frames, Exits, IsAnswer
    <2>2. inbox[i].op = "attach"
      BY <1>1 DEF QuietFacts, OneInFlight
    <2> QED
      BY <2>1, <2>2 DEF Answers, Control, Asked
  <1>5. web'.cur = job.gen /\ ~web'.killed
    BY <1>1 DEF Attach
  <1>6. AgreedOn(job.gen)
    BY <1>1 DEF QuietFacts, Told
  <1>7. AgreedOn(web.cur)'
    BY <1>1, <1>5, <1>6 DEF AgreedOn, IsExit
  <1>8. OneConnection'
    BY <1>1 DEF QuietFacts, OneConnection
  <1>9. job'.kind = "none" /\ job'.pc = "idle" /\ job'.pc \notin Asked
    BY <1>1 DEF Idle, Asked
  <1> QED
    BY <1>1, <1>3, <1>4, <1>5, <1>7, <1>8, <1>9, WebQuiet

LEMMA CallQuiet == ASSUME Safe, QuietFacts, NEW g \in open, Call(g) PROVE QuietFacts'
  <1>1. Types /\ WebFacts
    BY DEF Safe
  <1>2. PICK r \in Requests : Called(g, r)
    BY <1>1, CallFacts
  <1>3. /\ work' = work \cup {r} /\ job' = job /\ web' = web /\ jobs' = jobs /\ late' = late
        /\ missed' = missed /\ active' = active /\ children' = children
    BY <1>2 DEF Called, webVars, serviceVars, launcherVars
  <1>4. r.op = "request" /\ r.pc = "sent"
    BY <1>2 DEF Called
  <1>5. inbox' = inbox
    BY <1>2 DEF Called, QuietFacts, OneConnection
  <1>6. OneConnection'
    <2>1. sock.id \in Nat /\ sock.up \in BOOLEAN
      BY <1>1 DEF Types
    <2>2. sock'.up /\ (sock.up => sock' = sock) /\ (~sock.up => sock'.id = sock.id + 1)
      BY <1>2 DEF Called
    <2>3. ~late /\ sock.id <= 1 /\ (sock.id = 1 => sock.up)
      BY DEF QuietFacts, OneConnection
    <2>4. sock'.id <= 1
      BY <2>1, <2>2, <2>3
    <2> QED
      BY <1>3, <2>2, <2>3, <2>4 DEF OneConnection
  <1>7. OneInFlight'
    BY <1>3, <1>4, <1>5 DEF QuietFacts, OneInFlight, NoAnswers, IsAnswer
  <1>8. Accounted'
    BY <1>3, <1>4 DEF QuietFacts, Accounted, ChildKnown
  <1>9. Told'
    BY <1>3, <1>5 DEF QuietFacts, Told, Tells, Launched, IsExit, NoKillAnswer, AgreedOn
  <1> QED
    BY <1>6, <1>7, <1>8, <1>9 DEF QuietFacts

-----------------------------------------------------------------------------
(* While nothing breaks: the Runtime's steps *)

(* Where the Web stands while a request of its job is at the Runtime.      *)
Serving(r) ==
    /\ NoAnswers /\ NoKillAnswer /\ job.pc = r.op /\ r.job = jobs /\ job.pc # "idle"
    /\ sock.up /\ r.conn = sock.id /\ ~web.killed /\ r.op \in Control
    /\ \A q \in work : q.op # "request" => q = r
    /\ r.op \in Asked => job.kind = "launch" /\ active.gen = 0 /\ web.cur = 0 /\ r.gen = job.gen
    /\ r.op = "kill" => job.kind # "launch" /\ AgreedOn(web.cur) /\ r.gen = web.gen

LEMMA ServingHolds == ASSUME Safe, QuietFacts, NEW r \in work, r.op # "request" PROVE Serving(r)
  <1>1. Before(r) /\ WebFacts
    BY BeforeHolds DEF Safe
  <1>2. NoAnswers /\ job.pc = r.op /\ r.job = jobs /\ \A q \in work : q.op # "request" => q = r
    BY DEF QuietFacts, OneInFlight
  <1>3. NoKillAnswer /\ \A i \in 1..Len(inbox) : ~Launched(i)
    BY <1>2 DEF NoAnswers, IsAnswer, NoKillAnswer, Launched
  <1>4. r.op \in Control /\ job.pc # "idle"
    BY <1>1, <1>2 DEF Before, Requests, Control, Asked
  <1>5. sock.up /\ r.conn = sock.id
    <2>1. r.conn # 0 /\ r.conn <= sock.id /\ r.conn \in Nat /\ sock.id \in Nat
      BY <1>1 DEF Before, RequestFact
    <2>2. sock.id <= 1 /\ (sock.id = 1 => sock.up)
      BY DEF QuietFacts, OneConnection
    <2>3. sock.id = 1 /\ r.conn = 1
      BY <2>1, <2>2
    <2> QED
      BY <2>2, <2>3
  <1>6. ~web.killed
    BY <1>4 DEF QuietFacts, Told
  <1>7. ASSUME r.op \in Asked PROVE job.kind = "launch" /\ active.gen = 0 /\ web.cur = 0 /\ r.gen = job.gen
    <2>1. job.kind = "launch" /\ r.gen = job.gen
      BY <1>1, <1>2, <1>4, <1>7 DEF Before, RequestFact, Awaitable
    <2> QED
      BY <1>2, <1>3, <1>7, <2>1 DEF QuietFacts, Told
  <1>8. ASSUME r.op = "kill" PROVE job.kind # "launch" /\ AgreedOn(web.cur) /\ r.gen = web.gen
    <2>1. job.kind # "launch"
      BY <1>1, <1>2, <1>8 DEF WebFacts, JobFacts, Asked, InLaunch
    <2> QED
      BY <1>3, <1>8, <2>1 DEF QuietFacts, Told, Accounted
  <1> QED
    BY <1>2, <1>3, <1>4, <1>5, <1>6, <1>7, <1>8 DEF Serving

(* With an empty entry a child exists only inside its launch.              *)
LEMMA NoChild ==
    ASSUME Safe, QuietFacts, NEW r \in work, r.op # "request", active.gen = 0,
           r.op = "bootstrap" => r.pc = "sent"
    PROVE  children = {}
  <1> SUFFICES ASSUME NEW c \in children PROVE FALSE
    OBVIOUS
  <1>1. Serving(r) /\ Before(r)
    BY ServingHolds, BeforeHolds
  <1>2. c.gen # 0
    BY <1>1 DEF Before, ChildFact
  <1>3. ChildKnown(c)
    BY DEF QuietFacts, Accounted
  <1> QED
    BY <1>1, <1>2, <1>3 DEF ChildKnown, Serving

LEMMA ReplyQuiet ==
    ASSUME Safe, QuietFacts, Frame, NEW r \in work, r.op # "request",
           NEW ok \in BOOLEAN, NEW alive \in BOOLEAN, NEW gen \in Nat, Reply(r, ok, alive, gen),
           \A c \in children' : c.stage # "starting" /\ active'.gen = c.gen,
           r.op = "status" => ~alive,
           r.op = "kill" => ok /\ active'.gen = 0 /\ (alive => children' = {}),
           r.op = "bootstrap" /\ ok => active'.gen = job.gen,
           r.op \in Asked /\ ~(r.op = "bootstrap" /\ ok) => active'.gen = 0
    PROVE  QuietFacts'
  <1> DEFINE f == Answer(r, ok, alive, gen)
  <1>1. Serving(r)
    BY ServingHolds
  <1>2. Types
    BY DEF Safe
  <1>3. f \in Frames /\ f.op = r.op /\ f.job = r.job /\ f.ok = ok /\ f.alive = alive
    BY <1>1, <1>2, ReplyFacts DEF Answer, Frames, Serving
  <1>4. inbox' = Append(inbox, f) /\ work' = work \ {r}
    BY <1>1 DEF Reply, Deliver, Answer, Serving
  <1>5. /\ job' = job /\ web' = web /\ missed' = missed /\ jobs' = jobs /\ sock' = sock /\ late' = late
    BY DEF Frame, webVars
  <1> HIDE DEF f
  <1>6. /\ inbox \in Seq(Frames) /\ Len(inbox) \in Nat /\ Len(inbox') = Len(inbox) + 1
        /\ \A i \in 1..Len(inbox) : inbox'[i] = inbox[i]
        /\ inbox'[Len(inbox) + 1] = f /\ inbox' # <<>>
    BY <1>2, <1>3, <1>4, AppendFacts DEF Types
  <1>7. \A i \in 1..Len(inbox') : i = Len(inbox) + 1 \/ (i \in 1..Len(inbox) /\ inbox'[i].op = "lifecycle")
    BY <1>1, <1>6 DEF Serving, NoAnswers, IsAnswer
  <1>8. OneConnection'
    BY <1>1, <1>5 DEF QuietFacts, OneConnection, Serving
  <1>9. OneInFlight'
    <2>1. \A q \in work' : q.op = "request"
      BY <1>1, <1>4 DEF Serving
    <2>2. \A i \in 1..Len(inbox') : IsAnswer(i)' => i = Len(inbox) + 1
      BY <1>7 DEF IsAnswer
    <2> QED
      BY <1>1, <1>3, <1>5, <1>6, <2>1, <2>2 DEF OneInFlight, Serving
  <1>10. Accounted'
    <2>1. \A q \in work' : q.op = "request" /\ q \in work
      BY <1>1, <1>4 DEF Serving
    <2>2. \A q \in work' : q.pc # "killing"
      BY <2>1 DEF Safe, RequestFacts, RequestFact
    <2> QED
      BY <2>1, <2>2 DEF Accounted, ChildKnown
  <1>11. ASSUME NEW i \in 1..Len(inbox') PROVE Tells(i)'
    <2>1. CASE i = Len(inbox) + 1
      <3>1. inbox'[i] = f
        BY <1>6, <2>1
      <3>2. \A k \in 1..Len(inbox') : ~(k > i)
        BY <1>6, <2>1
      <3> QED
        BY <1>3, <1>5, <3>1, <3>2 DEF Tells, Launched
    <2>2. CASE inbox'[i].op = "lifecycle"
      BY <2>2 DEF Tells, Launched
    <2> QED
      BY <1>7, <2>1, <2>2
  <1>12. PICK n \in 1..Len(inbox') : inbox'[n] = f
    BY <1>6
  <1>13. /\ job'.kind = "launch" => web'.cur = 0
         /\ job'.pc \in Asked /\ (\A i \in 1..Len(inbox') : ~Launched(i)') => active'.gen = 0
         /\ job'.pc # "attach"
    <2>1. job.kind = "launch" => web.cur = 0
      BY DEF QuietFacts, Told
    <2>2. r.op = "bootstrap" /\ ok => Launched(n)'
      BY <1>3, <1>12 DEF Launched
    <2>3. job.pc # "attach"
      BY <1>1 DEF Serving, Control, Asked
    <2> QED
      BY <1>1, <1>5, <1>12, <2>1, <2>2, <2>3 DEF Serving
  <1>14. job'.kind # "launch" => ~NoKillAnswer'
    <2> SUFFICES ASSUME job.kind # "launch" PROVE ~NoKillAnswer'
      BY <1>5
    <2>1. r.op = "kill"
      BY <1>1 DEF Serving, Control
    <2> QED
      BY <1>3, <1>12, <2>1 DEF NoKillAnswer
  <1>15. Told'
    BY <1>1, <1>5, <1>11, <1>13, <1>14 DEF Told, Serving
  <1> QED
    BY <1>8, <1>9, <1>10, <1>15 DEF QuietFacts

(* An answer after which the Runtime has neither an entry nor a child.     *)
LEMMA LaunchRefused ==
    ASSUME Safe, QuietFacts, Frame, NEW r \in work, r.op \in Asked, NEW ok \in BOOLEAN, NEW gen \in Nat,
           Reply(r, ok, FALSE, gen), r.op = "bootstrap" => ~ok, active'.gen = 0, children' = {}
    PROVE  QuietFacts'
  <1>1. r.op # "request" /\ r.op # "kill" /\ FALSE \in BOOLEAN
    BY DEF Asked
  <1>2. \A c \in children' : c.stage # "starting" /\ active'.gen = c.gen
    OBVIOUS
  <1>3. r.op = "status" => ~FALSE
    OBVIOUS
  <1>4. r.op = "kill" => ok /\ active'.gen = 0 /\ (FALSE => children' = {})
    BY <1>1
  <1>5. r.op = "bootstrap" /\ ok => active'.gen = job.gen
    OBVIOUS
  <1>6. r.op \in Asked /\ ~(r.op = "bootstrap" /\ ok) => active'.gen = 0
    OBVIOUS
  <1> QED
    BY <1>1, <1>2, <1>3, <1>4, <1>5, <1>6, ReplyQuiet, Zenon

LEMMA KillAnswered ==
    ASSUME Safe, QuietFacts, Frame, NEW r \in work, r.op = "kill", NEW alive \in BOOLEAN,
           Reply(r, TRUE, alive, 0), active'.gen = 0, children' = {}
    PROVE  QuietFacts'
  <1>1. r.op # "request" /\ r.op \notin Asked /\ r.op # "status" /\ r.op # "bootstrap"
    BY DEF Asked
  <1>2. TRUE \in BOOLEAN /\ 0 \in Nat
    OBVIOUS
  <1>3. \A c \in children' : c.stage # "starting" /\ active'.gen = c.gen
    OBVIOUS
  <1>4. r.op = "kill" => TRUE /\ active'.gen = 0 /\ (alive => children' = {})
    OBVIOUS
  <1> QED
    BY <1>1, <1>2, <1>3, <1>4, ReplyQuiet, Zenon

LEMMA AdvanceQuiet ==
    ASSUME Safe, QuietFacts, Frame, NEW r \in work, r.op # "request",
           NEW pc \in Places, NEW arg \in Nat, Advance(r, pc, arg), active'.gen = active.gen,
           \A c \in children' : \/ c.stage # "starting" /\ active.gen = c.gen
                                \/ active.gen = 0 /\ r.op = "bootstrap" /\ pc # "sent" /\ arg = c.gen,
           pc = "killing" => \A c \in children' : c.gen = arg
    PROVE  QuietFacts'
  <1>1. Serving(r)
    BY ServingHolds
  <1>2. Types
    BY DEF Safe
  <1>3. PICK q \in Requests : Advanced(q, r, pc, arg)
    BY <1>2, AdvanceFacts
  <1>4. /\ q.op = r.op /\ q.gen = r.gen /\ q.job = r.job /\ q.pc = pc /\ q.arg = arg
        /\ work' = (work \ {r}) \cup {q} /\ inbox' = inbox
    BY <1>3 DEF Advanced
  <1>5. /\ job' = job /\ web' = web /\ missed' = missed /\ jobs' = jobs /\ sock' = sock /\ late' = late
    BY DEF Frame, webVars
  <1>6. OneConnection'
    BY <1>4, <1>5 DEF QuietFacts, OneConnection
  <1>7. NoAnswers' /\ NoKillAnswer' /\ \A i \in 1..Len(inbox') : ~Launched(i)' /\ inbox'[i].op = "lifecycle"
    BY <1>1, <1>4 DEF Serving, NoAnswers, IsAnswer, NoKillAnswer, Launched
  <1>8. \A p \in work' : p = q \/ (p \in work /\ p.op = "request")
    BY <1>1, <1>4 DEF Serving
  <1>9. OneInFlight'
    BY <1>1, <1>4, <1>5, <1>7, <1>8 DEF OneInFlight, Serving, NoAnswers
  <1>10. Accounted'
    <2>1. ASSUME NEW c \in children' PROVE ChildKnown(c)'
      BY <1>4 DEF ChildKnown
    <2>2. ASSUME NEW p \in work', p.op = "kill" PROVE p.gen = web'.gen
      BY <1>1, <1>4, <1>5, <1>8, <2>2 DEF Serving
    <2>3. ASSUME NEW p \in work', p.pc = "killing" PROVE \A c \in children' : c.gen = p.arg
      <3>1. p = q
        BY <1>8, <2>3 DEF Safe, RequestFacts, RequestFact
      <3> QED
        BY <1>4, <2>3, <3>1
    <2> QED
      BY <2>1, <2>2, <2>3 DEF Accounted
  <1>11. Told'
    <2>1. \A i \in 1..Len(inbox') : Tells(i)'
      BY <1>7 DEF Tells
    <2>2. job.kind # "launch" => AgreedOn(web.cur)'
      <3>1. job.kind # "launch" => AgreedOn(web.cur)
        BY <1>1 DEF Serving, Control
      <3> QED
        BY <1>4, <1>5, <3>1 DEF AgreedOn, IsExit
    <2>3. /\ job.kind = "launch" => web.cur = 0
          /\ job.pc \in Asked => active.gen = 0
          /\ job.pc # "attach"
      BY <1>1 DEF Serving, QuietFacts, Told, Control, Asked
    <2> QED
      BY <1>1, <1>5, <2>1, <2>2, <2>3 DEF Told, Serving
  <1> QED
    BY <1>6, <1>9, <1>10, <1>11 DEF QuietFacts

LEMMA ServeStatusQuiet == ASSUME Safe, QuietFacts, Frame, NEW r \in work, ServeStatus(r) PROVE QuietFacts'
  <1>1. r.op = "status" /\ children' = children
    BY DEF ServeStatus, launcherVars
  <1>2. Serving(r)
    BY <1>1, ServingHolds
  <1>3. active.gen = 0
    BY <1>1, <1>2 DEF Serving, Asked
  <1>4. children = {}
    BY <1>1, <1>3, NoChild
  <1>5. Reply(r, TRUE, FALSE, 0) /\ active' = Rebound(r)
    BY <1>3, <1>4 DEF ServeStatus, Stale, Runtimes
  <1>6. active'.gen = 0
    BY <1>3, <1>5, ReboundFacts
  <1>7. r.op \in Asked /\ r.op # "bootstrap" /\ TRUE \in BOOLEAN /\ 0 \in Nat /\ children' = {}
    BY <1>1, <1>4 DEF Asked
  <1> QED
    BY <1>5, <1>6, <1>7, LaunchRefused, Zenon

LEMMA ServePrepareQuiet == ASSUME Safe, QuietFacts, Frame, NEW r \in work, ServePrepare(r) PROVE QuietFacts'
  <1>1. r.op = "prepare" /\ children' = children /\ active' = active
    BY DEF ServePrepare, launcherVars
  <1>2. Serving(r) /\ nonces \in Nat
    BY <1>1, ServingHolds DEF Safe, Types
  <1>3. active.gen = 0
    BY <1>1, <1>2 DEF Serving, Asked
  <1>4. children = {}
    BY <1>1, <1>3, NoChild
  <1>5. PICK ok \in BOOLEAN, gen \in Nat : Reply(r, ok, FALSE, gen)
    <2>1. nonces + 1 \in Nat
      BY <1>2
    <2> QED
      BY <2>1 DEF ServePrepare
  <1>6. r.op \in Asked /\ r.op # "bootstrap" /\ children' = {} /\ active'.gen = 0
    BY <1>1, <1>3, <1>4 DEF Asked
  <1> QED
    BY <1>5, <1>6, LaunchRefused, Zenon

LEMMA ServeBootstrapQuiet == ASSUME Safe, QuietFacts, Frame, NEW r \in work, ServeBootstrap(r) PROVE QuietFacts'
  <1>1. r.op = "bootstrap" /\ r.pc = "sent" /\ active' = active
    BY DEF ServeBootstrap
  <1>2. Serving(r) /\ lgen \in Nat
    BY <1>1, ServingHolds DEF Safe, Types
  <1>3. active.gen = 0
    BY <1>1, <1>2 DEF Serving, Asked
  <1>4. children = {}
    BY <1>1, <1>3, NoChild
  <1>5. CASE Reply(r, FALSE, FALSE, 0) /\ children' = children
    <2>1. r.op \in Asked /\ children' = {} /\ active'.gen = 0 /\ FALSE \in BOOLEAN /\ 0 \in Nat
      BY <1>1, <1>3, <1>4, <1>5 DEF Asked
    <2> QED
      BY <1>5, <2>1, LaunchRefused, Zenon
  <1>6. CASE /\ children' = children \cup {[gen |-> lgen + 1, conn |-> r.conn, stage |-> "starting"]}
             /\ Advance(r, "starting", lgen + 1)
    <2>1. \A c \in children' : c.gen = lgen + 1
      BY <1>4, <1>6
    <2> QED
      BY <1>1, <1>2, <1>3, <1>6, <2>1, AdvanceQuiet DEF Places
  <1> QED
    BY <1>5, <1>6 DEF ServeBootstrap, launcherVars

(* A child that changes its stage in a launch or a kill.                   *)
LEMMA RestagedOne ==
    ASSUME Safe, NEW c \in children, NEW stage \in {"up", "terminating"},
           children' = (children \ {c}) \cup {[c EXCEPT !.stage = stage]}
    PROVE  \A d \in children' : d.gen = c.gen /\ d.stage = stage
  <1>1. c \in Processes /\ children = {c}
    BY DEF Safe, Types, ChildFacts
  <1>2. children' = {[c EXCEPT !.stage = stage]}
    BY <1>1
  <1> QED
    BY <1>1, <1>2 DEF Processes

LEMMA LaunchMovesQuiet ==
    ASSUME Safe, QuietFacts, Frame, NEW r \in work, NEW c \in children, Publish(r, c) \/ LaunchUndone(r, c)
    PROVE  QuietFacts'
  <1>1. r.op = "bootstrap" /\ c.gen = r.arg /\ active' = active
    BY DEF Publish, LaunchUndone, Launching, serviceVars
  <1>2. Serving(r) /\ r.arg \in Nat
    BY <1>1, ServingHolds DEF Safe, Types, Requests
  <1>3. active.gen = 0
    BY <1>1, <1>2 DEF Serving, Asked
  <1>4. PICK stage \in {"up", "terminating"}, pc \in {"publishing", "undoing"} :
          /\ children' = (children \ {c}) \cup {[c EXCEPT !.stage = stage]}
          /\ Advance(r, pc, r.arg)
    BY DEF Publish, LaunchUndone
  <1>5. \A d \in children' : d.gen = r.arg
    BY <1>1, <1>4, RestagedOne
  <1> QED
    BY <1>1, <1>2, <1>3, <1>4, <1>5, AdvanceQuiet DEF Places

(* The answer of a launch that failed comes when its child is gone.        *)
LEMMA LaunchFailsQuiet ==
    ASSUME Safe, QuietFacts, Frame, NEW r \in work,
           UndoneAnswer(r) \/ \E c \in children : LaunchFails(r, c)
    PROVE  QuietFacts'
  <1>1. r.op = "bootstrap" /\ active' = active /\ Reply(r, FALSE, FALSE, 0)
    BY DEF UndoneAnswer, LaunchFails, Launching, serviceVars
  <1>2. Serving(r)
    BY <1>1, ServingHolds
  <1>3. active.gen = 0
    BY <1>1, <1>2 DEF Serving, Asked
  <1>4. children' = {}
    <2>1. CASE UndoneAnswer(r)
      <3>1. children' = children /\ \A c \in children : c.gen # r.arg
        BY <2>1 DEF UndoneAnswer, launcherVars
      <3>2. ASSUME NEW c \in children PROVE FALSE
        <4>1. ChildKnown(c) /\ c.gen # 0
          BY DEF QuietFacts, Accounted, Safe, ChildFacts, ChildFact
        <4> QED
          BY <1>2, <1>3, <3>1, <4>1 DEF ChildKnown, Serving
      <3> QED
        BY <3>1, <3>2
    <2>2. ASSUME NEW c \in children, LaunchFails(r, c) PROVE children' = {}
      BY <2>2 DEF LaunchFails, Safe, ChildFacts
    <2> QED
      BY <2>1, <2>2
  <1>5. r.op \in Asked /\ active'.gen = 0 /\ FALSE \in BOOLEAN /\ 0 \in Nat
    BY <1>1, <1>3 DEF Asked
  <1> QED
    BY <1>1, <1>4, <1>5, LaunchRefused, Zenon

LEMMA LaunchReturnsQuiet == ASSUME Safe, QuietFacts, Frame, NEW r \in work, LaunchReturns(r) PROVE QuietFacts'
  <1>1. /\ r.op = "bootstrap" /\ r.pc = "publishing" /\ active' = [gen |-> r.gen, conn |-> r.conn]
        /\ Reply(r, TRUE, TRUE, r.gen) /\ children' = children
    BY DEF LaunchReturns
  <1>2. Serving(r) /\ Before(r)
    BY <1>1, ServingHolds, BeforeHolds
  <1>3. active.gen = 0 /\ active'.gen = job.gen /\ r.gen \in Nat
    BY <1>1, <1>2 DEF Serving, Asked, Before
  <1>4. ASSUME NEW c \in children' PROVE c.stage # "starting" /\ active'.gen = c.gen
    <2>1. ChildKnown(c) /\ c.gen # 0 /\ (c.stage = "starting" => r.arg # c.gen)
      BY <1>1, <1>2 DEF QuietFacts, Accounted, Before, ChildFact
    <2>2. r.arg = c.gen
      BY <1>2, <1>3, <2>1 DEF ChildKnown, Serving
    <2>3. r.arg = r.gen
      BY <1>1, <1>2 DEF Before, RequestFact
    <2> QED
      BY <1>1, <2>1, <2>2, <2>3
  <1> QED
    BY <1>1, <1>3, <1>4, ReplyQuiet

LEMMA ServeKillQuiet == ASSUME Safe, QuietFacts, Frame, NEW r \in work, ServeKill(r) PROVE QuietFacts'
  <1>1. r.op = "kill" /\ r.pc = "sent"
    BY DEF ServeKill
  <1>2. Serving(r) /\ Before(r)
    BY <1>1, ServingHolds, BeforeHolds
  <1>3. AgreedOn(web.cur) /\ r.gen = web.gen /\ web.cur \in {0, web.gen}
    BY <1>1, <1>2 DEF Serving, Safe, WebFacts, JobFacts
  <1>4. ~Stale(r)
    BY <1>3 DEF Stale, AgreedOn
  <1>5. ASSUME active.gen = 0, active' = active, children' = children, Reply(r, TRUE, TRUE, 0) PROVE QuietFacts'
    <2>1. children = {}
      BY <1>1, <1>5, NoChild
    <2> QED
      BY <1>1, <1>5, <2>1, KillAnswered
  <1>6. ASSUME active.gen # 0, Runtimes = {}, active' = Nobody, children' = children,
               Reply(r, TRUE, linfo \in {"none", "exited"}, 0)
        PROVE  QuietFacts'
    <2>1. children = {}
      BY <1>6 DEF Runtimes, QuietFacts, Accounted, ChildKnown
    <2>2. active'.gen = 0 /\ (linfo \in {"none", "exited"}) \in BOOLEAN
      BY <1>6 DEF Nobody
    <2> QED
      BY <1>1, <1>6, <2>1, <2>2, KillAnswered
  <1>7. ASSUME NEW c \in Runtimes, active.gen # 0, active' = Rebound(r),
               children' = (children \ {c}) \cup {[c EXCEPT !.stage = "terminating"]},
               Advance(r, "killing", c.gen)
        PROVE  QuietFacts'
    <2>1. c \in children /\ c.gen \in Nat
      BY <1>2 DEF Runtimes, Before, Processes
    <2>2. active.gen = c.gen
      BY <1>7, <2>1 DEF QuietFacts, Accounted, ChildKnown
    <2>3. \A d \in children' : d.gen = c.gen /\ d.stage = "terminating"
      BY <1>7, <2>1, RestagedOne
    <2>4. active'.gen = active.gen
      BY <1>7, ReboundFacts
    <2> QED
      BY <1>1, <1>7, <2>1, <2>2, <2>3, <2>4, AdvanceQuiet DEF Places
  <1> QED
    BY <1>4, <1>5, <1>6, <1>7 DEF ServeKill, launcherVars

LEMMA KillReturnsQuiet ==
    ASSUME Safe, QuietFacts, Frame, NEW r \in work, KillReturns(r), stubborn' = stubborn
    PROVE  QuietFacts'
  <1>1. r.op = "kill" /\ r.pc = "killing" /\ active' = Nobody /\ children' = children
    BY DEF KillReturns, launcherVars
  <1>2. Gone(r.arg) /\ Reply(r, TRUE, TRUE, 0)
    <2>1. stubborn \in Nat /\ stubborn + 1 # stubborn
      BY DEF Safe, Types
    <2> QED
      BY <2>1 DEF KillReturns
  <1>3. children = {}
    BY <1>1, <1>2 DEF Gone, QuietFacts, Accounted
  <1>4. active'.gen = 0
    BY <1>1 DEF Nobody
  <1> QED
    BY <1>1, <1>2, <1>3, <1>4, KillAnswered

LEMMA ServeRequestQuiet == ASSUME Safe, QuietFacts, Frame, NEW r \in work, ServeRequest(r) PROVE QuietFacts'
  <1>1. /\ r.op = "request" /\ work' = work \ {r} /\ inbox' = inbox /\ children' = children
        /\ active' \in {active, Rebound(r)}
    BY DEF ServeRequest, launcherVars
  <1>2. active'.gen = active.gen
    BY <1>1, ReboundFacts
  <1>3. job' = job /\ web' = web /\ missed' = missed /\ jobs' = jobs /\ sock' = sock /\ late' = late
    BY DEF Frame, webVars
  <1>4. OneConnection'
    BY <1>1, <1>3 DEF QuietFacts, OneConnection
  <1>5. OneInFlight'
    BY <1>1, <1>3 DEF QuietFacts, OneInFlight, NoAnswers, IsAnswer
  <1>6. Accounted'
    <2>1. \A c \in children' : ChildKnown(c)'
      BY <1>1, <1>2 DEF QuietFacts, Accounted, ChildKnown
    <2> QED
      BY <1>1, <1>3, <2>1 DEF QuietFacts, Accounted
  <1>7. Told'
    BY <1>1, <1>2, <1>3 DEF QuietFacts, Told, Tells, Launched, IsExit, NoKillAnswer, AgreedOn
  <1> QED
    BY <1>4, <1>5, <1>6, <1>7 DEF QuietFacts

LEMMA ChildExitsQuiet == ASSUME Safe, QuietFacts, NEW c \in children, ChildExits(c) PROVE QuietFacts'
  <1> DEFINE f == [op |-> "lifecycle", gen |-> c.gen]
  <1>1. /\ c.stage # "starting" /\ children' = children \ {c} /\ active' = Nobody /\ Deliver(c.conn, f)
        /\ job' = job /\ web' = web /\ missed' = missed /\ jobs' = jobs /\ sock' = sock /\ late' = late /\ work' = work
    BY DEF ChildExits, Exited, webVars
  <1>2. Types /\ ChildFact(c) /\ c \in Processes /\ inbox \in Seq(Frames) /\ sock.id \in Nat
    BY DEF Safe, ChildFacts, Types
  <1>3. f \in Frames /\ f.op = "lifecycle" /\ f.gen = c.gen
    BY <1>2 DEF Frames, Exits, Processes
  <1>4. sock.up /\ sock.id = c.conn
    <2>1. c.conn \in Nat /\ c.conn # 0 /\ c.conn <= sock.id
      BY <1>2 DEF ChildFact, Processes
    <2>2. sock.id <= 1 /\ (sock.id = 1 => sock.up)
      BY DEF QuietFacts, OneConnection
    <2>3. sock.id = 1 /\ c.conn = 1
      BY <1>2, <2>1, <2>2
    <2> QED
      BY <2>2, <2>3
  <1>5. inbox' = Append(inbox, f)
    BY <1>1, <1>4 DEF Deliver
  <1> HIDE DEF f
  <1>6. /\ Len(inbox) \in Nat /\ Len(inbox') = Len(inbox) + 1
        /\ \A i \in 1..Len(inbox) : inbox'[i] = inbox[i]
        /\ inbox'[Len(inbox) + 1] = f
    BY <1>2, <1>3, <1>5, AppendFacts
  <1>7. PICK n \in 1..Len(inbox') : inbox'[n] = f /\ \A i \in 1..Len(inbox) : n > i
    BY <1>6
  <1>8. /\ \A i \in 1..Len(inbox') : inbox'[i] = f \/ i \in 1..Len(inbox)
        /\ \A i \in 1..Len(inbox) : i \in 1..Len(inbox') /\ inbox'[i] = inbox[i]
    BY <1>6
  <1>9. children' = {} /\ active'.gen = 0
    BY <1>1 DEF Nobody, Safe, ChildFacts
  <1>10. active.gen = c.gen \/ (active.gen = 0 /\ NoAnswers)
    <2>1. ChildKnown(c)
      BY DEF QuietFacts, Accounted
    <2> QED
      BY <2>1 DEF ChildKnown, QuietFacts, OneInFlight
  <1>11. OneConnection'
    BY <1>1, <1>4 DEF QuietFacts, OneConnection
  <1>12. OneInFlight'
    <2>1. \A i \in 1..Len(inbox') : IsAnswer(i)' => i \in 1..Len(inbox) /\ IsAnswer(i) /\ inbox'[i] = inbox[i]
      BY <1>3, <1>8 DEF IsAnswer
    <2>2. NoAnswers => NoAnswers'
      BY <2>1 DEF NoAnswers
    <2>3. \A r \in work' : r.op # "request" => job'.pc = r.op /\ r.job = jobs' /\ NoAnswers'
      BY <1>1, <2>2 DEF QuietFacts, OneInFlight
    <2>4. \A r, q \in work' : r.op # "request" /\ q.op # "request" => r = q
      BY <1>1 DEF QuietFacts, OneInFlight
    <2>5. \A i \in 1..Len(inbox') : IsAnswer(i)' => job'.pc = inbox'[i].op /\ inbox'[i].job = jobs'
      BY <1>1, <2>1 DEF QuietFacts, OneInFlight
    <2>6. \A i, k \in 1..Len(inbox') : IsAnswer(i)' /\ IsAnswer(k)' => k = i
      BY <2>1 DEF QuietFacts, OneInFlight
    <2> QED
      BY <2>3, <2>4, <2>5, <2>6 DEF OneInFlight
  <1>13. Accounted'
    BY <1>1, <1>9 DEF QuietFacts, Accounted
  <1>14. ASSUME NEW i \in 1..Len(inbox') PROVE Tells(i)'
    <2>1. CASE inbox'[i] = f
      BY <1>3, <2>1 DEF Tells, Launched
    <2>2. CASE i \in 1..Len(inbox)
      <3>1. Tells(i) /\ inbox'[i] = inbox[i]
        BY <1>8, <2>2 DEF QuietFacts, Told
      <3>2. ASSUME Launched(i)', \A k \in 1..Len(inbox') : k > i => ~IsExit(k, job.gen)' PROVE FALSE
        <4>1. Launched(i) /\ ~NoAnswers
          BY <2>2, <3>1, <3>2 DEF Launched, NoAnswers, IsAnswer
        <4>2. \A k \in 1..Len(inbox) : k > i => ~IsExit(k, job.gen)
          BY <1>1, <1>8, <3>2 DEF IsExit
        <4>3. c.gen = job.gen
          BY <1>10, <3>1, <4>1, <4>2 DEF Tells
        <4>4. IsExit(n, job.gen)' /\ n > i
          BY <1>1, <1>3, <1>7, <2>2, <4>3 DEF IsExit
        <4> QED
          BY <3>2, <4>4
      <3> QED
        BY <1>9, <3>1, <3>2 DEF Tells
    <2> QED
      BY <1>8, <2>1, <2>2
  <1>15. /\ job'.kind = "launch" => web'.cur = 0
         /\ active'.gen = 0
    BY <1>1, <1>9 DEF QuietFacts, Told
  <1>19. ASSUME NEW g, AgreedOn(g) PROVE AgreedOn(g)'
    <2>1. CASE \E i \in 1..Len(inbox) : IsExit(i, g)
      BY <1>8, <1>9, <2>1 DEF AgreedOn, IsExit
    <2>2. CASE active.gen = g /\ g # 0
      <3>1. IsExit(n, g)'
        BY <1>3, <1>7, <1>10, <2>2 DEF IsExit
      <3> QED
        BY <1>7, <1>9, <3>1 DEF AgreedOn
    <2>3. CASE g \in {0, missed}
      BY <1>1, <1>9, <2>3 DEF AgreedOn
    <2> QED
      BY <1>19, <2>1, <2>2, <2>3 DEF AgreedOn
  <1>20. job.pc = "attach" => AgreedOn(job.gen)'
    <2>1. job.pc = "attach" => AgreedOn(job.gen)
      BY DEF QuietFacts, Told
    <2>2. \A g : g = job.gen /\ AgreedOn(g) => AgreedOn(g)'
      BY <1>19
    <2> QED
      BY <1>1, <2>1, <2>2 DEF AgreedOn, IsExit
  <1>16. ASSUME job.kind # "launch", NoKillAnswer' PROVE AgreedOn(web.cur)'
    <2>1. NoKillAnswer
      BY <1>8, <1>16 DEF NoKillAnswer
    <2>2. AgreedOn(web.cur)
      BY <1>16, <2>1 DEF QuietFacts, Told
    <2>3. \A g : g = web.cur /\ AgreedOn(g) => AgreedOn(g)'
      BY <1>19
    <2> QED
      BY <1>1, <2>2, <2>3 DEF AgreedOn, IsExit
  <1>17. web'.killed => job'.pc = "idle" /\ web'.cur = 0 /\ children' = {}
    BY <1>1, <1>9 DEF QuietFacts, Told
  <1>18. Told'
    BY <1>1, <1>14, <1>15, <1>16, <1>17, <1>20 DEF Told
  <1> QED
    BY <1>11, <1>12, <1>13, <1>18 DEF QuietFacts

LEMMA ServeQuiet ==
    ASSUME Safe, QuietFacts, NEW r \in work, Serve(r), stubborn' = stubborn
    PROVE  QuietFacts'
  <1>1. Frame
    BY DEF Serve, Frame
  <1>2. ASSUME NEW c \in children PROVE ~LaunchRetains(r, c)
    <2>1. stubborn \in Nat /\ stubborn + 1 # stubborn
      BY DEF Safe, Types
    <2> QED
      BY <2>1 DEF LaunchRetains
  <1> QED
    BY <1>1, <1>2, ServeStatusQuiet, ServePrepareQuiet, ServeBootstrapQuiet, LaunchMovesQuiet, LaunchFailsQuiet,
       LaunchReturnsQuiet, ServeKillQuiet, KillReturnsQuiet, ServeRequestQuiet DEF Serve

(* The counters of what broke only grow.                                   *)
LEMMA FaultsGrow ==
    ASSUME Safe, Next
    PROVE  drops' \in {drops, drops + 1} /\ restarts' \in {restarts, restarts + 1} /\ stubborn' \in {stubborn, stubborn + 1}
  <1>1. CASE \E r \in work : Serve(r)
    <2>1. PICK r \in work : Serve(r)
      BY <1>1
    <2>2. drops' = drops /\ restarts' = restarts
      BY <2>1 DEF Serve
    <2>3. stubborn' \in {stubborn, stubborn + 1}
      BY <2>1 DEF Serve, ServeStatus, ServePrepare, ServeBootstrap, Publish, LaunchFails, LaunchRetains,
         LaunchUndone, UndoneAnswer, LaunchReturns, ServeKill, KillReturns, ServeRequest
    <2> QED
      BY <2>2, <2>3
  <1>2. CASE StartLaunch \/ (\E kind \in {"kill", "relaunch"} : StartKill(kind)) \/ Receive \/ ReceiveExit
             \/ Attached \/ CloseEvent \/ (\E g \in open : Call(g)) \/ \E c \in children : ChildExits(c)
    BY <1>2 DEF StartLaunch, StartKill, Receive, ReceiveExit, Attached, CloseEvent, Call, ChildExits, faults
  <1>3. CASE Drop \/ Restart
    BY <1>3 DEF Drop, Restart
  <1> QED
    BY <1>1, <1>2, <1>3 DEF Next

LEMMA QuietStep == ASSUME Safe, Safe', Quiet, [Next]_vars PROVE Quiet'
  <1>1. CASE UNCHANGED vars
    BY <1>1 DEF vars, Quiet, Undisturbed, QuietFacts, OneConnection, OneInFlight, NoAnswers, IsAnswer, Accounted,
       ChildKnown, Told, Tells, Launched, IsExit, NoKillAnswer, AgreedOn
  <1>2. CASE Next
    <2> SUFFICES ASSUME Undisturbed' PROVE QuietFacts'
      BY DEF Quiet
    <2>1. drops \in Nat /\ restarts \in Nat /\ stubborn \in Nat /\ Types'
      BY DEF Safe, Types
    <2>2. Undisturbed /\ drops' = drops /\ restarts' = restarts /\ stubborn' = stubborn
      BY <1>2, <2>1, FaultsGrow DEF Undisturbed
    <2>3. QuietFacts /\ ~late
      BY <2>2 DEF Quiet, QuietFacts, OneConnection
    <2>4. ~Drop /\ ~Restart /\ ~CloseEvent
      <3>1. drops + 1 # drops /\ restarts + 1 # restarts
        BY <2>1
      <3> QED
        BY <2>2, <2>3, <3>1 DEF Drop, Restart, CloseEvent
    <2>5. ASSUME NEW r \in work, Serve(r) PROVE QuietFacts'
      BY <2>2, <2>3, <2>5, ServeQuiet
    <2> QED
      BY <1>2, <2>1, <2>3, <2>4, <2>5, StartLaunchQuiet, StartKillQuiet, ReceiveQuiet, ReceiveExitQuiet, AttachedQuiet, CallQuiet,
         ChildExitsQuiet DEF Next
  <1> QED
    BY <1>1, <1>2

-----------------------------------------------------------------------------
(* What the two processes promise each other *)

(* The inductive invariant of both processes, their connection and what is *)
(* on it.                                                                  *)
THEOREM RuntimeInvariant == Spec => []IInv
  <1>1. IInv /\ [Next]_vars => IInv'
    BY SafeStep, QuietStep DEF IInv
  <1> QED
    BY InitHolds, <1>1, PTL DEF Spec

(* While no connection broke, the Web did not restart and every kill       *)
(* succeeded, a session the Web shows as killed has no process left at the *)
(* Runtime, for every number of launches, kills and relaunches.            *)
THEOREM KilledLeavesNoChild == Spec => []KilledIsGone
  <1>1. IInv => KilledIsGone
    BY DEF IInv, Quiet, Undisturbed, QuietFacts, Told, KilledIsGone
  <1> QED
    BY RuntimeInvariant, <1>1, PTL

(* Under the same conditions the Web and the Runtime agree, between two    *)
(* operations and once every frame is read, which generation is active,    *)
(* unless the exit of the Web's came with the answer of its launch and was *)
(* handled before the launch listened.                                     *)
THEOREM ProcessesAgree == Spec => []AgreeWhenQuiet
  <1>1. IInv => AgreeWhenQuiet
    <2> SUFFICES ASSUME IInv, Undisturbed, job.pc = "idle", inbox = <<>>
                 PROVE  web.cur = active.gen \/ (active.gen = 0 /\ web.cur = missed)
      BY DEF AgreeWhenQuiet, Undisturbed
    <2>1. AgreedOn(web.cur)
      BY IdleFacts DEF IInv, Quiet
    <2>2. Len(inbox) = 0
      OBVIOUS
    <2> QED
      BY <2>1, <2>2 DEF AgreedOn
  <1> QED
    BY RuntimeInvariant, <1>1, PTL
=============================================================================
