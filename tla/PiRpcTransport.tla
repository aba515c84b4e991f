--------------------------- MODULE PiRpcTransport ---------------------------
(***************************************************************************)
(* web/server/pi-rpc-transport.ts: the generation-bound transport between  *)
(* the server and one native Pi rpc-entry child.  A request is correlated  *)
(* by its number (pi-<generation>-<n>); its frame waits on writeTail for   *)
(* the writes before it, which backpressure may hold up for any time, so   *)
(* timers, abort signals, answers, child exit and generation changes race  *)
(* with the write.  A data event that carries several good lines is        *)
(* several HandleStdoutLine steps; one that carries a bad frame is a       *)
(* single HandleFrameError step, which drops the lines before it as well.  *)
(* Operators named Mutant_... are faulty variants of the definition that   *)
(* follows them, kept to show that the properties can fail.                *)
(***************************************************************************)
EXTENDS Naturals, Sequences, FiniteSets

CONSTANTS
    MaxRequests,  \* bound: requests one generation issues
    MaxUiFrames,  \* bound: extension UI responses sent (no correlation)
    MaxStdout     \* bound: lines in the stdout pipe at one time

ASSUME TransportAssumption ==
    /\ MaxRequests \in Nat
    /\ MaxUiFrames \in Nat
    /\ MaxStdout \in Nat

Ids == 1..MaxRequests
UiFrame == 0          \* a frame without request id (sendExtensionUiResponse)
Frames == {UiFrame} \cup Ids

\* The abort signal a request is given; remote: abortRemoteOnSignal is set and the
\* request is not itself the abort command.
Signals == {"none", "local", "remote"}

CallFailures == {"request_timeout", "aborted", "frame_too_large"}
CloseCodes == {"stale_generation", "protocol_error", "invalid_frame",
               "incomplete_frame", "stdout_eof", "closed", "write_failed",
               "child_exit", "child_error"}
Outcomes == {"unused", "waiting", "resolved"} \cup CallFailures \cup CloseCodes

\* Lines the child may print: an answer to a request, under the request's command
\* or under another one; a notification; a record that is not valid or an answer
\* without an id; a frame the decoder refuses (CRLF, empty, too large, bad UTF-8).
Answers == [kind : {"response", "mismatch"}, id : Ids]
OtherLines == [kind : {"notification", "malformed", "badFrame"}]
Lines == Answers \cup OtherLines

VARIABLES
    current,         \* isGenerationCurrent(): the launcher still owns this generation
    closedError,     \* "none", or the code of the error that closed the transport
    requestCounter,  \* the last request number handed out
    signal,          \* request number -> the abort signal it was given
    pending,         \* keys of the pending map
    outcome,         \* request number -> what its promise has been settled with
    writeTail,       \* frames whose write operation has not begun
    writing,         \* a write is between stdin.write() and its callback and drain
    written,         \* frames handed to the child, in order
    uiFrames,        \* UI frames sent so far
    stdout           \* lines printed by the child and not yet read

vars == <<current, closedError, requestCounter, signal, pending, outcome,
          writeTail, writing, written, uiFrames, stdout>>

callState == <<closedError, requestCounter, signal, pending, outcome>>
writeState == <<writeTail, writing, written, uiFrames>>
envState == <<current, stdout>>

IsOpen == closedError = "none"
Settled(i) == outcome[i] \notin {"unused", "waiting"}
IsWritten(i) == \E k \in DOMAIN written : written[k] = i

Init ==
    /\ current = TRUE
    /\ closedError = "none"
    /\ requestCounter = 0
    /\ signal = [i \in Ids |-> "none"]
    /\ pending = {}
    /\ outcome = [i \in Ids |-> "unused"]
    /\ writeTail = <<>>
    /\ writing = FALSE
    /\ written = <<>>
    /\ uiFrames = 0
    /\ stdout = <<>>

-----------------------------------------------------------------------------
(* Closing *)

\* Faulty finish(): without the early return, the last close wins.
Mutant_finish_Reopens(code) ==
    /\ closedError' = code
    /\ pending' = {}
    /\ outcome' = [i \in Ids |-> IF i \in pending THEN code ELSE outcome[i]]
    /\ stdout' = <<>>
    /\ UNCHANGED <<requestCounter, signal>>

\* finish(): the first close wins; every pending caller is rejected with it, and
\* with the listeners detached nobody reads what is left in the pipe.
finish(code) ==
    /\ IsOpen
    /\ closedError' = code
    /\ pending' = {}
    /\ outcome' = [i \in Ids |-> IF i \in pending THEN code ELSE outcome[i]]
    /\ stdout' = <<>>
    /\ UNCHANGED <<requestCounter, signal>>

\* invalidateGeneration() and dispose().
InvalidateGeneration ==
    /\ finish("stale_generation")
    /\ UNCHANGED <<writeState, current>>

Dispose ==
    /\ finish("closed")
    /\ UNCHANGED <<writeState, current>>

\* The launcher moves to another generation, or starts shutting down.
GenerationSuperseded ==
    /\ IsOpen /\ current
    /\ current' = FALSE
    /\ UNCHANGED <<callState, writeState, stdout>>

\* handleChildExit and handleChildError; after a close their listeners are gone.
HandleChildExit ==
    /\ finish("child_exit")
    /\ UNCHANGED <<writeState, current>>

HandleChildError ==
    /\ finish("child_error")
    /\ UNCHANGED <<writeState, current>>

\* handleStdoutEnd: a partial record left in the decoder, or a clean end.
HandleStdoutEnd ==
    /\ stdout = <<>>
    /\ \/ finish("incomplete_frame")
       \/ finish("stdout_eof")
    /\ UNCHANGED <<writeState, current>>

HandleStdoutError ==
    /\ finish("closed")
    /\ UNCHANGED <<writeState, current>>

-----------------------------------------------------------------------------
(* Requests *)

\* request() on a transport whose generation is stale: assertUsable closes it.
RequestStale ==
    /\ ~current
    /\ finish("stale_generation")
    /\ UNCHANGED <<writeState, current>>

\* request(): a new number, a timer, and the frame at the end of writeTail.
Request(sig) ==
    LET id == requestCounter + 1 IN
    /\ IsOpen /\ current
    /\ requestCounter < MaxRequests
    /\ requestCounter' = id
    /\ signal' = [signal EXCEPT ![id] = sig]
    /\ pending' = pending \cup {id}
    /\ outcome' = [outcome EXCEPT ![id] = "waiting"]
    /\ writeTail' = Append(writeTail, id)
    /\ UNCHANGED <<closedError, writing, written, uiFrames, envState>>

\* request() whose own frame is refused by enqueueWrite, or whose signal is
\* already aborted and which asks for no remote abort.
RequestRefused(sig, failure) ==
    LET id == requestCounter + 1 IN
    /\ IsOpen /\ current
    /\ requestCounter < MaxRequests
    /\ failure = "aborted" => sig = "local"
    /\ requestCounter' = id
    /\ signal' = [signal EXCEPT ![id] = sig]
    /\ outcome' = [outcome EXCEPT ![id] = failure]
    /\ UNCHANGED <<closedError, pending, writeState, envState>>

\* request() with an aborted signal and abortRemoteOnSignal: the request is
\* rejected unwritten and an abort request of the transport's own follows it.
RequestAbortedRemotely ==
    LET id == requestCounter + 1
        abortId == requestCounter + 2 IN
    /\ IsOpen /\ current
    /\ abortId <= MaxRequests
    /\ requestCounter' = abortId
    /\ signal' = [signal EXCEPT ![id] = "remote", ![abortId] = "none"]
    /\ pending' = pending \cup {abortId}
    /\ outcome' = [outcome EXCEPT ![id] = "aborted", ![abortId] = "waiting"]
    /\ writeTail' = Append(writeTail, abortId)
    /\ UNCHANGED <<closedError, writing, written, uiFrames, envState>>

\* Faulty timer: armed when the frame is written rather than in request().
Mutant_RequestTimeout_ArmedLate(id) ==
    /\ id \in pending /\ IsWritten(id)
    /\ pending' = pending \ {id}
    /\ outcome' = [outcome EXCEPT ![id] = "request_timeout"]
    /\ UNCHANGED <<closedError, requestCounter, signal, writeState, envState>>

\* The request timer fires.
RequestTimeout(id) ==
    /\ id \in pending
    /\ pending' = pending \ {id}
    /\ outcome' = [outcome EXCEPT ![id] = "request_timeout"]
    /\ UNCHANGED <<closedError, requestCounter, signal, writeState, envState>>

\* onAbort without a remote abort.
Abort(id) ==
    /\ id \in pending
    /\ signal[id] = "local"
    /\ pending' = pending \ {id}
    /\ outcome' = [outcome EXCEPT ![id] = "aborted"]
    /\ UNCHANGED <<closedError, requestCounter, signal, writeState, envState>>

\* Faulty onAbort: the abort request overtakes the queued frames.
Mutant_AbortRemotely(id) ==
    LET abortId == requestCounter + 1 IN
    /\ id \in pending /\ current
    /\ signal[id] = "remote"
    /\ requestCounter < MaxRequests
    /\ requestCounter' = abortId
    /\ signal' = [signal EXCEPT ![abortId] = "none"]
    /\ pending' = (pending \ {id}) \cup {abortId}
    /\ outcome' = [outcome EXCEPT ![id] = "aborted", ![abortId] = "waiting"]
    /\ writeTail' = <<abortId>> \o writeTail
    /\ UNCHANGED <<closedError, writing, written, uiFrames, envState>>

\* onAbort with abortRemoteOnSignal: the abort request is issued in the same
\* step; if the generation is stale, issuing it closes the transport instead.
AbortRemotely(id) ==
    LET abortId == requestCounter + 1 IN
    /\ id \in pending
    /\ signal[id] = "remote"
    /\ \/ /\ current
          /\ requestCounter < MaxRequests
          /\ requestCounter' = abortId
          /\ signal' = [signal EXCEPT ![abortId] = "none"]
          /\ pending' = (pending \ {id}) \cup {abortId}
          /\ outcome' = [outcome EXCEPT ![id] = "aborted", ![abortId] = "waiting"]
          /\ writeTail' = Append(writeTail, abortId)
          /\ UNCHANGED <<closedError, stdout>>
       \/ /\ ~current
          /\ closedError' = "stale_generation"
          /\ pending' = {}
          /\ outcome' = [i \in Ids |->
                           IF i = id THEN "aborted"
                           ELSE IF i \in pending THEN "stale_generation" ELSE outcome[i]]
          /\ stdout' = <<>>
          /\ UNCHANGED <<requestCounter, signal, writeTail>>
    /\ UNCHANGED <<writing, written, uiFrames, current>>

\* sendInput()/sendExtensionUiResponse(): queued unconditionally, no pending entry.
SendExtensionUiResponse ==
    /\ uiFrames < MaxUiFrames
    /\ uiFrames' = uiFrames + 1
    /\ writeTail' = Append(writeTail, UiFrame)
    /\ UNCHANGED <<callState, writing, written, envState>>

-----------------------------------------------------------------------------
(* Writing: one operation of writeTail at a time, in order *)

\* Faulty check: a queued frame is always written.
Mutant_shouldWrite(frame) == TRUE

\* A frame with a pending identity is written only while that identity is pending.
shouldWrite(frame) == frame = UiFrame \/ frame \in pending

\* The operation begins: assertUsable, the pending check, then stdin.write().
BeginWrite ==
    LET frame == Head(writeTail) IN
    /\ ~writing
    /\ writeTail # <<>>
    /\ writeTail' = Tail(writeTail)
    /\ \/ /\ ~IsOpen
          /\ UNCHANGED <<callState, stdout, writing, written>>
       \/ /\ IsOpen /\ ~current
          /\ finish("stale_generation")
          /\ UNCHANGED <<writing, written>>
       \/ /\ IsOpen /\ current /\ ~shouldWrite(frame)
          /\ UNCHANGED <<callState, stdout, writing, written>>
       \/ /\ IsOpen /\ current /\ shouldWrite(frame)  \* stdin destroyed or ended
          /\ finish("write_failed")
          /\ UNCHANGED <<writing, written>>
       \/ /\ IsOpen /\ current /\ shouldWrite(frame)
          /\ written' = Append(written, frame)
          /\ writing' = TRUE
          /\ UNCHANGED <<callState, stdout>>
    /\ UNCHANGED <<uiFrames, current>>

\* The write callback ran and the stream drained.
CompleteWrite ==
    /\ writing
    /\ writing' = FALSE
    /\ UNCHANGED <<callState, writeTail, written, uiFrames, envState>>

\* stdin errors or closes, during a write or between writes.
StdinFails ==
    /\ IsOpen \/ writing
    /\ writing' = FALSE
    /\ IF IsOpen THEN finish("write_failed") ELSE UNCHANGED <<callState, stdout>>
    /\ UNCHANGED <<writeTail, written, uiFrames, current>>

-----------------------------------------------------------------------------
(* The child (external) and the lines it prints *)

\* The child answers what it has read, in any order and possibly late or twice,
\* notifies, or prints something the protocol does not allow.  Once the transport
\* has closed nobody reads the pipe.
ChildPrints(line) ==
    /\ IsOpen
    /\ Len(stdout) < MaxStdout
    /\ line.kind = "response" => \E k \in DOMAIN written : written[k] = line.id
    /\ stdout' = Append(stdout, line)
    /\ UNCHANGED <<current, callState, writeState>>

\* handleLine() for an open transport of the current generation.
handleLine(line) ==
    \/ /\ line.kind = "malformed"
       /\ finish("protocol_error")
    \/ /\ line.kind = "notification"
       /\ stdout' = Tail(stdout)
       /\ UNCHANGED callState
    \/ /\ line.kind \in {"response", "mismatch"}
       /\ line.id \notin pending                      \* onLateResponse
       /\ stdout' = Tail(stdout)
       /\ UNCHANGED callState
    \/ /\ line.kind = "mismatch"
       /\ line.id \in pending
       /\ finish("protocol_error")
    \/ /\ line.kind = "response"
       /\ line.id \in pending
       /\ pending' = pending \ {line.id}
       /\ outcome' = [outcome EXCEPT ![line.id] = "resolved"]
       /\ stdout' = Tail(stdout)
       /\ UNCHANGED <<closedError, requestCounter, signal>>

\* handleStdoutData, one good line; a stale generation closes before parsing.
HandleStdoutLine ==
    /\ IsOpen
    /\ stdout # <<>>
    /\ Head(stdout).kind # "badFrame"
    /\ IF current THEN handleLine(Head(stdout)) ELSE finish("stale_generation")
    /\ UNCHANGED <<current, writeState>>

\* handleStdoutData, a chunk with a bad frame: the decoder throws before any line
\* of the chunk is handled.
HandleFrameError ==
    /\ \E k \in DOMAIN stdout : stdout[k].kind = "badFrame"
    /\ IF current THEN finish("invalid_frame") ELSE finish("stale_generation")
    /\ UNCHANGED <<current, writeState>>

-----------------------------------------------------------------------------
Next ==
    \/ InvalidateGeneration
    \/ Dispose
    \/ GenerationSuperseded
    \/ HandleChildExit
    \/ HandleChildError
    \/ HandleStdoutEnd
    \/ HandleStdoutError
    \/ RequestStale
    \/ \E sig \in Signals : Request(sig)
    \/ \E sig \in Signals, failure \in {"aborted", "frame_too_large"} :
          RequestRefused(sig, failure)
    \/ RequestAbortedRemotely
    \/ \E id \in Ids : RequestTimeout(id) \/ Abort(id) \/ AbortRemotely(id)
    \/ SendExtensionUiResponse
    \/ BeginWrite
    \/ CompleteWrite
    \/ StdinFails
    \/ \E line \in Lines : ChildPrints(line)
    \/ HandleStdoutLine
    \/ HandleFrameError

Spec == Init /\ [][Next]_vars

\* Request timers are armed in request() and always fire; nothing is assumed of
\* the child, of the pipes or of the write callback.
FairSpec == Spec /\ \A id \in Ids : WF_vars(RequestTimeout(id))

-----------------------------------------------------------------------------
(* Properties *)

\* Every variable has its type.
TypeOK ==
    /\ current \in BOOLEAN
    /\ closedError \in {"none"} \cup CloseCodes
    /\ requestCounter \in 0..MaxRequests
    /\ signal \in [Ids -> Signals]
    /\ pending \in SUBSET Ids
    /\ outcome \in [Ids -> Outcomes]
    /\ writeTail \in Seq(Frames)
    /\ writing \in BOOLEAN
    /\ written \in Seq(Frames)
    /\ uiFrames \in 0..MaxUiFrames
    /\ stdout \in Seq(Lines)

\* The waiting callers are exactly the pending map, and none waits once the
\* transport is closed: exit, protocol corruption, a failed write and a
\* generation change all reject every pending request (finish).
NoOrphanedCaller ==
    /\ \A i \in Ids : outcome[i] = "waiting" <=> i \in pending
    /\ ~IsOpen => \A i \in Ids : outcome[i] # "waiting"

\* A promise that was settled keeps its outcome: a late answer, a timer or an
\* abort that loses the race changes nothing.
OutcomeStable ==
    [][\A i \in Ids : Settled(i) => outcome'[i] = outcome[i]]_vars

\* A request that expired or was aborted while it waited behind a slow write is
\* never handed to the child afterwards (the shouldWrite check).
ExpiredNeverWritten ==
    [][\A i \in Ids : (Settled(i) /\ ~IsWritten(i)) => ~IsWritten(i)']_vars

\* A caller is told of success only for a request whose frame reached the child.
ResolvedWasWritten == \A i \in Ids : outcome[i] = "resolved" => IsWritten(i)

\* The child sees requests in the order they were issued, each at most once,
\* whatever was skipped in between: requests written, then requests queued,
\* have strictly increasing numbers.
WriteOrder ==
    LET lane == written \o writeTail IN
    \A a, b \in DOMAIN lane :
        a < b /\ lane[a] # UiFrame /\ lane[b] # UiFrame => lane[a] < lane[b]

\* What crossed stdin matches what callers were told and in which order they asked.
FramesSound == ResolvedWasWritten /\ WriteOrder

\* Every caller hears back, even when backpressure never ends and the child
\* never answers: finitely many requests are made, and from some point on none
\* of them waits.
CallerAlwaysSettles == <>[](\A i \in Ids : outcome[i] # "waiting")

\* The transport keeps the promise of RpcCalls.
C == INSTANCE RpcCalls WITH
       MaxRequests <- MaxRequests, CallFailures <- CallFailures, CloseCodes <- CloseCodes,
       closedError <- closedError, outcome <- outcome
ImplementsCalls == C!CallsSpec
=============================================================================
