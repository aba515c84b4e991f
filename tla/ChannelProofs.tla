---------------------------- MODULE ChannelProofs ----------------------------
(***************************************************************************)
(* Proofs about the two channels of a session: PiRpcTransport, to the Pi   *)
(* child, and EventReplay, to the page of a browser.                       *)
(*                                                                         *)
(* PiRpcTransport, for any number of requests, UI frames and lines in the  *)
(* pipe.  The inductive invariant adds to the type and to NoOrphanedCaller *)
(* that numbers not handed out yet are untouched; without it a new request *)
(* could reuse the number of a settled one.                                *)
(*                                                                         *)
(* EventReplay, for any interactions, messages, buffer limit and bounds.   *)
(* PageAgrees speaks of a page with nothing in flight, so the inductive    *)
(* invariant has to say what every frame in flight is for: handled in      *)
(* order, they take the page to the state of the session (Follows).  The   *)
(* two functions of the model that recurse over a sequence, upTo and       *)
(* after, are reasoned about by their least counterexample (LeastNumber).  *)
(***************************************************************************)
EXTENDS PiRpcTransport, EventReplay, SequenceTheorems, WellFoundedInduction, TLAPS

-----------------------------------------------------------------------------
(* PiRpcTransport *)

\* Numbers above requestCounter have never been used (nextRequestId).
FreshUnused == \A i \in Ids : i > requestCounter => outcome[i] = "unused"

Inv == TypeOK /\ NoOrphanedCaller /\ FreshUnused

-----------------------------------------------------------------------------
\* Initially nobody waits and no number is used.
LEMMA InitInv == Init => Inv
<1> SUFFICES ASSUME Init PROVE Inv
  OBVIOUS
<1> USE TransportAssumption DEF Init, Ids
<1>1. requestCounter \in 0..MaxRequests /\ uiFrames \in 0..MaxUiFrames
  OBVIOUS
<1>2. signal \in [Ids -> Signals] /\ outcome \in [Ids -> Outcomes] /\ pending \in SUBSET Ids
  BY DEF Signals, Outcomes
<1>3. writeTail \in Seq(Frames) /\ written \in Seq(Frames) /\ stdout \in Seq(Lines)
  OBVIOUS
<1>4. NoOrphanedCaller /\ FreshUnused
  BY DEF NoOrphanedCaller, FreshUnused, IsOpen
<1> QED BY <1>1, <1>2, <1>3, <1>4 DEF Inv, TypeOK

\* A step of the specification keeps the invariant, action by action.
LEMMA NextInv == Inv /\ [Next]_vars => Inv'
<1> SUFFICES ASSUME Inv, [Next]_vars PROVE Inv'
  OBVIOUS
<1> USE TransportAssumption DEF Inv, Ids, Signals, Frames
<1>fin. ASSUME NEW code \in CloseCodes, finish(code),
               writeTail' \in Seq(Frames), writing' \in BOOLEAN, written' \in Seq(Frames),
               uiFrames' \in 0..MaxUiFrames, current' \in BOOLEAN
        PROVE  Inv'
  BY <1>fin DEF TypeOK, NoOrphanedCaller, FreshUnused, finish, IsOpen, Outcomes, CloseCodes,
     CallFailures
<1>1. CASE InvalidateGeneration \/ Dispose \/ HandleChildExit \/ HandleChildError
           \/ HandleStdoutEnd \/ HandleStdoutError \/ RequestStale
  BY <1>1, <1>fin DEF TypeOK, InvalidateGeneration, Dispose, HandleChildExit,
     HandleChildError, HandleStdoutEnd, HandleStdoutError, RequestStale, writeState,
     envState, CloseCodes
<1>2. CASE GenerationSuperseded
  BY <1>2 DEF TypeOK, NoOrphanedCaller, FreshUnused, GenerationSuperseded, IsOpen,
     callState, writeState
<1>3. ASSUME NEW sig \in Signals, Request(sig) PROVE Inv'
  <2>1. requestCounter + 1 \in Ids /\ requestCounter + 1 \notin pending
    BY <1>3 DEF Request, TypeOK, NoOrphanedCaller, FreshUnused
  <2>2. NoOrphanedCaller' /\ FreshUnused'
    BY <1>3, <2>1 DEF Request, TypeOK, NoOrphanedCaller, FreshUnused, IsOpen
  <2>3. TypeOK'
    BY <1>3, <2>1 DEF Request, TypeOK, envState, Outcomes, CloseCodes, CallFailures
  <2> QED BY <2>2, <2>3
<1>4. ASSUME NEW sig \in Signals, NEW failure \in {"aborted", "frame_too_large"},
             RequestRefused(sig, failure)
      PROVE  Inv'
  BY <1>4 DEF TypeOK, NoOrphanedCaller, FreshUnused, RequestRefused, IsOpen, envState,
     writeState, Outcomes, CloseCodes, CallFailures
<1>5. CASE RequestAbortedRemotely
  <2> DEFINE id == requestCounter + 1
             abortId == requestCounter + 2
  <2>1. /\ id \in Ids /\ abortId \in Ids /\ id # abortId
        /\ id \notin pending /\ abortId \notin pending
    BY <1>5 DEF RequestAbortedRemotely, TypeOK, NoOrphanedCaller, FreshUnused
  <2>2. /\ IsOpen /\ requestCounter' = abortId
        /\ signal' = [signal EXCEPT ![id] = "remote", ![abortId] = "none"]
        /\ pending' = pending \cup {abortId}
        /\ outcome' = [outcome EXCEPT ![id] = "aborted", ![abortId] = "waiting"]
        /\ writeTail' = Append(writeTail, abortId)
        /\ UNCHANGED <<closedError, stdout, writing, written, uiFrames, current>>
    BY <1>5 DEF RequestAbortedRemotely, envState
  <2>3. requestCounter \in Nat /\ requestCounter' = id + 1
    BY <2>2 DEF TypeOK
  <2>4. \A i \in Ids : outcome'[i] = IF i = abortId THEN "waiting"
                                     ELSE IF i = id THEN "aborted" ELSE outcome[i]
    BY <2>1, <2>2 DEF TypeOK
  <2>5. NoOrphanedCaller'
    BY <2>1, <2>2, <2>4 DEF TypeOK, NoOrphanedCaller, IsOpen
  <2>6. FreshUnused'
    BY <2>1, <2>3, <2>4 DEF TypeOK, FreshUnused
  <2>7. TypeOK'
    BY <2>1, <2>2 DEF TypeOK, Outcomes, CloseCodes, CallFailures
  <2> QED BY <2>5, <2>6, <2>7
<1>6. ASSUME NEW id \in Ids, RequestTimeout(id) \/ Abort(id) PROVE Inv'
  BY <1>6 DEF TypeOK, NoOrphanedCaller, FreshUnused, RequestTimeout, Abort, IsOpen,
     envState, writeState, Outcomes, CloseCodes, CallFailures
<1>7. ASSUME NEW id \in Ids, AbortRemotely(id) PROVE Inv'
  <2> DEFINE abortId == requestCounter + 1
  <2>1. id \in pending /\ outcome[id] = "waiting" /\ id <= requestCounter /\ id # abortId
    BY <1>7 DEF AbortRemotely, TypeOK, NoOrphanedCaller, FreshUnused
  <2>2. CASE current
    <3>1. /\ abortId \in Ids
          /\ requestCounter' = abortId
          /\ signal' = [signal EXCEPT ![abortId] = "none"]
          /\ pending' = (pending \ {id}) \cup {abortId}
          /\ outcome' = [outcome EXCEPT ![id] = "aborted", ![abortId] = "waiting"]
          /\ writeTail' = Append(writeTail, abortId)
          /\ UNCHANGED <<closedError, stdout, writing, written, uiFrames, current>>
      BY <1>7, <2>2 DEF AbortRemotely, TypeOK
    <3>2. \A i \in Ids : outcome'[i] = IF i = abortId THEN "waiting"
                                       ELSE IF i = id THEN "aborted" ELSE outcome[i]
      BY <3>1 DEF TypeOK
    <3>3. NoOrphanedCaller' /\ FreshUnused'
      BY <2>1, <3>1, <3>2 DEF TypeOK, NoOrphanedCaller, FreshUnused, IsOpen
    <3>4. TypeOK'
      BY <3>1 DEF TypeOK, Outcomes, CloseCodes, CallFailures
    <3> QED BY <3>3, <3>4
  <2>3. CASE ~current
    <3>1. /\ closedError' = "stale_generation" /\ pending' = {}
          /\ outcome' = [i \in Ids |-> IF i = id THEN "aborted"
                            ELSE IF i \in pending THEN "stale_generation" ELSE outcome[i]]
          /\ stdout' = <<>>
          /\ UNCHANGED <<requestCounter, signal, writeTail, writing, written, uiFrames, current>>
      BY <1>7, <2>3 DEF AbortRemotely
    <3>2. NoOrphanedCaller' /\ FreshUnused'
      BY <2>1, <3>1 DEF TypeOK, NoOrphanedCaller, FreshUnused, IsOpen
    <3>3. TypeOK'
      BY <3>1 DEF TypeOK, Outcomes, CloseCodes, CallFailures
    <3> QED BY <3>2, <3>3
  <2> QED BY <2>2, <2>3
<1>8. CASE SendExtensionUiResponse
  BY <1>8 DEF TypeOK, NoOrphanedCaller, FreshUnused, SendExtensionUiResponse, IsOpen,
     callState, envState, UiFrame
<1>9. CASE BeginWrite
  <2>1. /\ writeTail' \in Seq(Frames) /\ written' \in Seq(Frames)
        /\ writing' \in BOOLEAN /\ uiFrames' \in 0..MaxUiFrames /\ current' \in BOOLEAN
    <3>1. Head(writeTail) \in Frames /\ Tail(writeTail) \in Seq(Frames)
      BY <1>9 DEF BeginWrite, TypeOK
    <3>2. written' \in {written, Append(written, Head(writeTail))}
      BY <1>9 DEF BeginWrite
    <3>3. (writing' = writing \/ writing' = TRUE) /\ UNCHANGED <<uiFrames, current>>
      BY <1>9 DEF BeginWrite
    <3>4. writeTail' = Tail(writeTail)
      BY <1>9 DEF BeginWrite
    <3>5. written' \in Seq(Frames)
      <4>1. Append(written, Head(writeTail)) \in Seq(Frames)
        BY <3>1 DEF TypeOK, UiFrame
      <4> QED BY <3>2, <4>1 DEF TypeOK
    <3>6. writing' \in BOOLEAN /\ uiFrames' \in 0..MaxUiFrames /\ current' \in BOOLEAN
      BY <3>3 DEF TypeOK
    <3> QED BY <3>1, <3>4, <3>5, <3>6
  <2>2. CASE finish("stale_generation") \/ finish("write_failed")
    BY <2>1, <2>2, <1>fin DEF CloseCodes
  <2>3. CASE UNCHANGED <<callState, stdout>>
    BY <2>1, <2>3 DEF TypeOK, NoOrphanedCaller, FreshUnused, IsOpen, callState
  <2> QED BY <1>9, <2>2, <2>3 DEF BeginWrite, callState
<1>10. CASE CompleteWrite
  BY <1>10 DEF TypeOK, NoOrphanedCaller, FreshUnused, CompleteWrite, IsOpen, callState,
     envState
<1>11. CASE StdinFails
  <2>1. CASE IsOpen
    BY <1>11, <2>1, <1>fin DEF StdinFails, TypeOK, CloseCodes
  <2>2. CASE ~IsOpen
    BY <1>11, <2>2 DEF StdinFails, TypeOK, NoOrphanedCaller, FreshUnused, IsOpen, callState
  <2> QED BY <2>1, <2>2
<1>12. ASSUME NEW line \in Lines, ChildPrints(line) PROVE Inv'
  BY <1>12 DEF TypeOK, NoOrphanedCaller, FreshUnused, ChildPrints, IsOpen, callState,
     writeState
<1>13. CASE HandleStdoutLine \/ HandleFrameError
  <2>1. UNCHANGED <<current, writeState>> /\ IsOpen
    BY <1>13 DEF HandleStdoutLine, HandleFrameError, finish
  <2>2. ASSUME NEW code \in CloseCodes, finish(code) PROVE Inv'
    BY <2>1, <2>2, <1>fin DEF writeState, TypeOK
  <2>3. CASE UNCHANGED callState /\ stdout # <<>> /\ stdout' = Tail(stdout)
    BY <2>1, <2>3 DEF TypeOK, NoOrphanedCaller, FreshUnused, IsOpen, callState, writeState
  <2>4. ASSUME NEW id \in pending,
               pending' = pending \ {id}, outcome' = [outcome EXCEPT ![id] = "resolved"],
               stdout # <<>>, stdout' = Tail(stdout),
               UNCHANGED <<closedError, requestCounter, signal>>
        PROVE  Inv'
    BY <2>1, <2>4 DEF TypeOK, NoOrphanedCaller, FreshUnused, IsOpen, writeState, Outcomes,
       CloseCodes, CallFailures
  <2> QED BY <1>13, <2>2, <2>3, <2>4
          DEF HandleStdoutLine, HandleFrameError, handleLine, CloseCodes
<1>14. CASE UNCHANGED vars
  BY <1>14 DEF TypeOK, NoOrphanedCaller, FreshUnused, IsOpen, vars
<1> QED
  BY <1>1, <1>2, <1>3, <1>4, <1>5, <1>6, <1>7, <1>8, <1>9, <1>10, <1>11, <1>12, <1>13,
     <1>14 DEF Next

\* Every reachable state has its type: in particular a promise is only ever
\* settled with one of the codes of PiRpcTransportErrorCode.
THEOREM TypeCorrect == Spec => []TypeOK
  BY InitInv, NextInv, PTL DEF Spec, Inv

\* finish() leaves no caller waiting, whatever closed the transport, and the
\* pending map never loses track of a waiting caller while it is open.
THEOREM NobodyOrphaned == Spec => []NoOrphanedCaller
  BY InitInv, NextInv, PTL DEF Spec, Inv

-----------------------------------------------------------------------------
(* The transport implements RpcCalls *)

\* finish() is a Close step of the abstract ledger in which no call fails on its
\* own account.
LEMMA FinishCloses ==
  ASSUME Inv, NEW code \in CloseCodes, finish(code)
  PROVE  C!CallsNext
<1>1. C!Close(code, {}, "aborted")
  <2>1. outcome' = [i \in 1..MaxRequests |->
                      IF outcome[i] = "waiting" THEN code ELSE outcome[i]]
    BY DEF finish, Inv, NoOrphanedCaller, Ids
  <2> QED BY <2>1 DEF finish, IsOpen, C!Close, C!Calls, CallFailures
<1> QED BY <1>1 DEF C!CallsNext, CallFailures

\* A step of the transport is a step of the ledger or leaves it alone.
LEMMA StepRefines == Inv /\ [Next]_vars => [C!CallsNext]_(C!callVars)
<1> SUFFICES ASSUME Inv, [Next]_vars, ~UNCHANGED C!callVars PROVE C!CallsNext
  OBVIOUS
<1> USE TransportAssumption DEF Ids, C!Calls
<1>1. CASE InvalidateGeneration \/ Dispose \/ HandleChildExit \/ HandleChildError
           \/ HandleStdoutEnd \/ HandleStdoutError \/ RequestStale
  BY <1>1, FinishCloses DEF InvalidateGeneration, Dispose, HandleChildExit,
     HandleChildError, HandleStdoutEnd, HandleStdoutError, RequestStale, CloseCodes
<1>2. CASE GenerationSuperseded \/ SendExtensionUiResponse \/ CompleteWrite
           \/ (\E line \in Lines : ChildPrints(line)) \/ UNCHANGED vars
  BY <1>2 DEF GenerationSuperseded, SendExtensionUiResponse, CompleteWrite, ChildPrints,
     callState, vars, C!callVars
<1>3. ASSUME NEW sig \in Signals, Request(sig) PROVE C!CallsNext
  <2>1. C!Start(requestCounter + 1, "waiting")
    BY <1>3 DEF Inv, TypeOK, FreshUnused, Request, IsOpen, C!Start
  <2> QED BY <2>1, <1>3 DEF C!CallsNext, Request, Inv, TypeOK
<1>4. ASSUME NEW sig \in Signals, NEW failure \in {"aborted", "frame_too_large"},
             RequestRefused(sig, failure)
      PROVE  C!CallsNext
  <2>1. C!Start(requestCounter + 1, failure)
    BY <1>4 DEF Inv, TypeOK, FreshUnused, RequestRefused, IsOpen, C!Start, CallFailures
  <2> QED BY <2>1, <1>4 DEF C!CallsNext, RequestRefused, Inv, TypeOK, CallFailures
<1>5. CASE RequestAbortedRemotely
  <2>1. C!SettleAndStart(requestCounter + 1, "aborted", requestCounter + 2)
    BY <1>5 DEF Inv, TypeOK, FreshUnused, RequestAbortedRemotely, IsOpen,
       C!SettleAndStart, CallFailures
  <2> QED BY <2>1, <1>5 DEF C!CallsNext, RequestAbortedRemotely, Inv, TypeOK, CallFailures
<1>6. ASSUME NEW id \in Ids, RequestTimeout(id) \/ Abort(id) PROVE C!CallsNext
  <2>1. C!Settle(id, "request_timeout") \/ C!Settle(id, "aborted")
    BY <1>6 DEF Inv, NoOrphanedCaller, RequestTimeout, Abort, IsOpen, C!Settle, CallFailures
  <2> QED BY <2>1 DEF C!CallsNext, CallFailures
<1>7. ASSUME NEW id \in Ids, AbortRemotely(id) PROVE C!CallsNext
  <2>1. outcome[id] = "waiting" /\ id <= requestCounter /\ IsOpen
    BY <1>7 DEF AbortRemotely, Inv, TypeOK, NoOrphanedCaller, FreshUnused
  <2>2. CASE current
    <3>1. C!SettleAndStart(id, "aborted", requestCounter + 1)
      BY <1>7, <2>1, <2>2 DEF Inv, TypeOK, FreshUnused, AbortRemotely, IsOpen,
         C!SettleAndStart, CallFailures
    <3> QED BY <3>1, <1>7, <2>2
            DEF C!CallsNext, AbortRemotely, Inv, TypeOK, CallFailures
  <2>3. CASE ~current
    <3>1. outcome' = [i \in 1..MaxRequests |-> IF i \in {id} THEN "aborted"
              ELSE IF outcome[i] = "waiting" THEN "stale_generation" ELSE outcome[i]]
      BY <1>7, <2>3 DEF AbortRemotely, Inv, NoOrphanedCaller
    <3>2. C!Close("stale_generation", {id}, "aborted")
      BY <1>7, <2>1, <2>3, <3>1 DEF AbortRemotely, IsOpen, C!Close, CallFailures, CloseCodes
    <3> QED BY <3>2 DEF C!CallsNext, CallFailures, CloseCodes
  <2> QED BY <2>2, <2>3
<1>8. CASE BeginWrite \/ StdinFails
  BY <1>8, FinishCloses DEF BeginWrite, StdinFails, callState, C!callVars, CloseCodes
<1>9. CASE HandleStdoutLine \/ HandleFrameError
  <2>1. ASSUME NEW id \in pending, outcome' = [outcome EXCEPT ![id] = "resolved"],
               UNCHANGED closedError
        PROVE  C!CallsNext
    <3>1. id \in Ids /\ C!Settle(id, "resolved")
      BY <2>1 DEF Inv, TypeOK, NoOrphanedCaller, IsOpen, C!Settle
    <3> QED BY <3>1 DEF C!CallsNext
  <2> QED BY <1>9, <2>1, FinishCloses
          DEF HandleStdoutLine, HandleFrameError, handleLine, callState, C!callVars,
              CloseCodes
<1> QED
  BY <1>1, <1>2, <1>3, <1>4, <1>5, <1>6, <1>7, <1>8, <1>9 DEF Next

\* pi-rpc-transport.ts keeps the promise of RpcCalls: a call settles once, and
\* closing settles every waiting call with the close code.
THEOREM RefinesCalls == Spec => ImplementsCalls
<1>1. Init => C!CallsInit
  BY DEF Init, C!CallsInit, C!Calls, Ids
<1> QED
  BY <1>1, InitInv, NextInv, StepRefines, PTL DEF Spec, ImplementsCalls, C!CallsSpec

\* In the ledger a settled call keeps its outcome; hence in the transport.
LEMMA SettledStays ==
  ASSUME Inv, [C!CallsNext]_(C!callVars), NEW i \in Ids, Settled(i)
  PROVE  outcome'[i] = outcome[i]
  BY DEF Inv, TypeOK, Ids, Settled, C!CallsNext, C!callVars, C!Calls, C!Start, C!Settle,
     C!SettleAndStart, C!Close

\* No timer, abort, late answer or close changes the outcome of a settled promise.
THEOREM OutcomesStable == Spec => OutcomeStable
<1>1. Inv /\ [Next]_vars => [\A i \in Ids : Settled(i) => outcome'[i] = outcome[i]]_vars
  BY StepRefines, SettledStays
<1> QED
  BY <1>1, InitInv, NextInv, PTL DEF Spec, OutcomeStable

-----------------------------------------------------------------------------
(* What reaches the child *)

\* Only BeginWrite extends written, and only with a frame that may be written.
LEMMA WritesChecked ==
  ASSUME [Next]_vars
  PROVE  \/ written' = written
         \/ shouldWrite(Head(writeTail)) /\ written' = Append(written, Head(writeTail))
<1> USE DEF writeState, callState
<1>1. CASE UNCHANGED written
  BY <1>1
<1>2. CASE BeginWrite
  BY <1>2 DEF BeginWrite
<1> QED
  BY <1>1, <1>2 DEF Next, vars, InvalidateGeneration, Dispose, GenerationSuperseded,
     HandleChildExit, HandleChildError, HandleStdoutEnd, HandleStdoutError, RequestStale,
     Request, RequestRefused, RequestAbortedRemotely, RequestTimeout, Abort, AbortRemotely,
     SendExtensionUiResponse, CompleteWrite, StdinFails, ChildPrints, HandleStdoutLine,
     HandleFrameError

\* A request settled while its frame waited behind a slow write is never handed
\* to the child: the pending check of enqueueWrite comes after the wait.
THEOREM ExpiredStaysUnwritten == Spec => ExpiredNeverWritten
<1>1. ASSUME Inv, [Next]_vars, NEW i \in Ids, Settled(i), ~IsWritten(i)
      PROVE  ~IsWritten(i)'
  <2>1. CASE written' = written
    BY <1>1, <2>1 DEF IsWritten
  <2>2. CASE shouldWrite(Head(writeTail)) /\ written' = Append(written, Head(writeTail))
    <3>1. Head(writeTail) # i
      BY <1>1, <2>2 DEF shouldWrite, Settled, Inv, NoOrphanedCaller, UiFrame, Ids
    <3> QED BY <1>1, <2>2, <3>1 DEF IsWritten, Inv, TypeOK
  <2> QED BY <1>1, <2>1, <2>2, WritesChecked
<1>2. Inv /\ [Next]_vars
        => [\A i \in Ids : (Settled(i) /\ ~IsWritten(i)) => ~IsWritten(i)']_vars
  BY <1>1
<1> QED
  BY <1>2, InitInv, NextInv, PTL DEF Spec, ExpiredNeverWritten
-----------------------------------------------------------------------------
(* What was written, in which order, and what was told of it *)

\* Requests of a sequence of frames are in the order of their numbers.
Ascending(s) ==
    \A a, b \in DOMAIN s : a < b /\ s[a] # UiFrame /\ s[b] # UiFrame => s[a] < s[b]

\* Every request that is queued comes after every request that was written.
Behind == \A a \in DOMAIN written, b \in DOMAIN writeTail :
              written[a] # UiFrame /\ writeTail[b] # UiFrame => written[a] < writeTail[b]

\* Frames carry numbers handed out before (nextRequestId).
Issued ==
    /\ \A a \in DOMAIN written : written[a] <= requestCounter
    /\ \A b \in DOMAIN writeTail : writeTail[b] <= requestCounter

LaneInv == Ascending(written) /\ Ascending(writeTail) /\ Behind /\ Issued

\* The child answers only what it has read, so an answer in the pipe is to a frame
\* that was written.
AnswersWritten ==
    \A k \in DOMAIN stdout : stdout[k].kind = "response" => IsWritten(stdout[k].id)

FramesInv == LaneInv /\ AnswersWritten /\ ResolvedWasWritten

\* What one step does to the frames: nothing, a frame at the end of the queue (one
\* without a number or one with a new number), or the head of the queue is taken.
LEMMA LaneSteps ==
  ASSUME Inv, [Next]_vars
  PROVE  /\ requestCounter' \in Nat /\ requestCounter <= requestCounter'
         /\ \/ UNCHANGED <<writeTail, written>>
            \/ /\ written' = written
               /\ \E f \in Frames :
                    /\ writeTail' = Append(writeTail, f)
                    /\ f = UiFrame \/ (requestCounter < f /\ f <= requestCounter')
            \/ /\ writeTail # <<>> /\ writeTail' = Tail(writeTail)
               /\ written' \in {written, Append(written, Head(writeTail))}
<1> USE DEF writeState, callState
<1>1. requestCounter \in Nat /\ MaxRequests \in Nat
  BY TransportAssumption DEF Inv, TypeOK
<1>2. ASSUME UNCHANGED <<writeTail, written>>,
             requestCounter' \in {requestCounter, requestCounter + 1}
      PROVE  /\ requestCounter' \in Nat /\ requestCounter <= requestCounter'
             /\ UNCHANGED <<writeTail, written>>
  BY <1>1, <1>2
<1>3. CASE InvalidateGeneration \/ Dispose \/ HandleChildExit \/ HandleChildError \/ HandleStdoutEnd
           \/ HandleStdoutError \/ RequestStale \/ GenerationSuperseded \/ StdinFails \/ CompleteWrite
           \/ HandleStdoutLine \/ HandleFrameError \/ UNCHANGED vars
  BY <1>2, <1>3 DEF InvalidateGeneration, Dispose, HandleChildExit, HandleChildError, HandleStdoutEnd,
     HandleStdoutError, RequestStale, GenerationSuperseded, StdinFails, CompleteWrite, HandleStdoutLine,
     HandleFrameError, handleLine, finish, vars
<1>4. ASSUME NEW sig \in Signals, NEW failure \in {"aborted", "frame_too_large"},
             RequestRefused(sig, failure)
      PROVE  UNCHANGED <<writeTail, written>> /\ requestCounter' = requestCounter + 1
  BY <1>4 DEF RequestRefused
<1>5. ASSUME NEW id \in Ids, RequestTimeout(id) \/ Abort(id)
      PROVE  UNCHANGED <<writeTail, written, requestCounter>>
  BY <1>5 DEF RequestTimeout, Abort
<1>6. ASSUME NEW line \in Lines, ChildPrints(line) PROVE UNCHANGED <<writeTail, written, requestCounter>>
  BY <1>6 DEF ChildPrints
<1>7. ASSUME NEW n \in 1..2, requestCounter + n <= MaxRequests, requestCounter' = requestCounter + n,
             writeTail' = Append(writeTail, requestCounter + n), written' = written
      PROVE  /\ requestCounter' \in Nat /\ requestCounter <= requestCounter'
             /\ \E f \in Frames :
                  /\ writeTail' = Append(writeTail, f)
                  /\ f = UiFrame \/ (requestCounter < f /\ f <= requestCounter')
  <2>1. requestCounter + n \in Frames
    BY <1>1, <1>7 DEF Frames, Ids
  <2> QED BY <1>1, <1>7, <2>1
<1>8. ASSUME NEW sig \in Signals, Request(sig)
      PROVE  /\ requestCounter' \in Nat /\ requestCounter <= requestCounter' /\ written' = written
             /\ \E f \in Frames :
                  /\ writeTail' = Append(writeTail, f)
                  /\ f = UiFrame \/ (requestCounter < f /\ f <= requestCounter')
  <2>1. requestCounter + 1 <= MaxRequests /\ written' = written
    BY <1>1, <1>8 DEF Request
  <2> QED BY <1>7, <1>8, <2>1 DEF Request
<1>9. CASE RequestAbortedRemotely
  BY <1>7, <1>9 DEF RequestAbortedRemotely
<1>10. ASSUME NEW id \in Ids, AbortRemotely(id)
       PROVE  \/ UNCHANGED <<writeTail, written, requestCounter>>
              \/ /\ requestCounter' \in Nat /\ requestCounter <= requestCounter' /\ written' = written
                 /\ \E f \in Frames :
                      /\ writeTail' = Append(writeTail, f)
                      /\ f = UiFrame \/ (requestCounter < f /\ f <= requestCounter')
  <2>1. CASE current
    <3>1. requestCounter + 1 <= MaxRequests /\ written' = written
      BY <1>1, <1>10, <2>1 DEF AbortRemotely
    <3> QED BY <1>7, <1>10, <2>1, <3>1 DEF AbortRemotely
  <2>2. CASE ~current
    BY <1>10, <2>2 DEF AbortRemotely
  <2> QED BY <2>1, <2>2
<1>11. CASE SendExtensionUiResponse
  <2>1. UiFrame \in Frames /\ requestCounter' = requestCounter
    BY <1>11 DEF SendExtensionUiResponse, Frames
  <2> QED BY <1>1, <1>11, <2>1 DEF SendExtensionUiResponse
<1>12. CASE BeginWrite
  <2>1. requestCounter' = requestCounter
    BY <1>12 DEF BeginWrite, finish
  <2> QED BY <1>1, <1>12, <2>1 DEF BeginWrite
<1> QED
  BY <1>2, <1>3, <1>4, <1>5, <1>6, <1>8, <1>9, <1>10, <1>11, <1>12 DEF Next

\* Facts about the two ends of a queue of frames.
LEMMA AppendedFrames ==
  ASSUME NEW s \in Seq(Frames), NEW f \in Frames
  PROVE  \A k \in DOMAIN Append(s, f) :
            \/ k \in DOMAIN s /\ Append(s, f)[k] = s[k]
            \/ Append(s, f)[k] = f /\ \A j \in DOMAIN s : j < k
  OBVIOUS

LEMMA TakenFrames ==
  ASSUME NEW s \in Seq(Frames), s # <<>>
  PROVE  /\ 1 \in DOMAIN s /\ Head(s) = s[1] /\ Head(s) \in Frames /\ Tail(s) \in Seq(Frames)
         /\ \A k \in DOMAIN Tail(s) : k \in Nat \ {0} /\ k + 1 \in DOMAIN s /\ Tail(s)[k] = s[k+1]
  OBVIOUS

LEMMA LaneStep == ASSUME Inv, LaneInv, [Next]_vars PROVE LaneInv'
<1>1. /\ writeTail \in Seq(Frames) /\ written \in Seq(Frames) /\ requestCounter \in Nat
      /\ \A f \in Frames : f \in Nat
  BY TransportAssumption DEF Inv, TypeOK, Frames, Ids, UiFrame
<1>2. /\ \A a \in DOMAIN written : a \in Nat /\ written[a] \in Nat
      /\ \A b \in DOMAIN writeTail : b \in Nat /\ writeTail[b] \in Nat
  BY <1>1
<1>3. requestCounter' \in Nat /\ requestCounter <= requestCounter'
  BY LaneSteps
<1>4. CASE UNCHANGED <<writeTail, written>>
  BY <1>1, <1>2, <1>3, <1>4 DEF LaneInv, Ascending, Behind, Issued
<1>5. ASSUME NEW f \in Frames, written' = written, writeTail' = Append(writeTail, f),
             f = UiFrame \/ (requestCounter < f /\ f <= requestCounter')
      PROVE  LaneInv'
  <2>1. \A k \in DOMAIN writeTail' :
            \/ k \in DOMAIN writeTail /\ writeTail'[k] = writeTail[k]
            \/ writeTail'[k] = f /\ \A j \in DOMAIN writeTail : j < k
    BY <1>1, <1>5, AppendedFrames
  <2>2. f \in Nat /\ f <= requestCounter'
    BY <1>1, <1>3, <1>5 DEF UiFrame
  <2>3. \A k \in DOMAIN writeTail' : k \in Nat
    BY <1>1, <1>5
  <2>4. Issued'
    BY <1>1, <1>2, <1>3, <1>5, <2>1, <2>2 DEF LaneInv, Issued
  <2>5. Behind'
    BY <1>1, <1>2, <1>5, <2>1, <2>2 DEF LaneInv, Behind, Issued
  <2>6. Ascending(writeTail')
    <3> SUFFICES ASSUME NEW a \in DOMAIN writeTail', NEW b \in DOMAIN writeTail', a < b,
                        writeTail'[a] # UiFrame, writeTail'[b] # UiFrame
                 PROVE  writeTail'[a] < writeTail'[b]
      BY DEF Ascending
    <3>1. a \in DOMAIN writeTail /\ writeTail'[a] = writeTail[a]
      <4>1. CASE b \in DOMAIN writeTail
        BY <1>2, <2>1, <2>3, <4>1
      <4>2. CASE b \notin DOMAIN writeTail
        <5>1. b = Len(writeTail) + 1
          BY <1>1, <1>5, <4>2
        <5> QED BY <1>1, <1>5, <5>1
      <4> QED BY <4>1, <4>2
    <3> QED BY <1>1, <1>2, <1>5, <2>1, <2>2, <3>1 DEF LaneInv, Ascending, Issued
  <2> QED BY <1>5, <2>4, <2>5, <2>6 DEF LaneInv
<1>6. ASSUME writeTail # <<>>, writeTail' = Tail(writeTail),
             written' \in {written, Append(written, Head(writeTail))}
      PROVE  LaneInv'
  <2> DEFINE f == Head(writeTail)
  <2>1. /\ 1 \in DOMAIN writeTail /\ f = writeTail[1] /\ f \in Frames
        /\ \A k \in DOMAIN writeTail' :
             k \in Nat \ {0} /\ k + 1 \in DOMAIN writeTail /\ writeTail'[k] = writeTail[k+1]
    BY <1>1, <1>6, TakenFrames
  <2> HIDE DEF f
  <2>2. /\ \A k \in DOMAIN written' :
             \/ k \in DOMAIN written /\ written'[k] = written[k]
             \/ written'[k] = f /\ \A j \in DOMAIN written : j < k
        /\ \A j, k \in DOMAIN written' : j < k => j \in DOMAIN written /\ written'[j] = written[j]
        /\ \A k \in DOMAIN written' : k \in Nat
    <3>1. CASE written' = written
      BY <1>1, <3>1
    <3>2. CASE written' = Append(written, f)
      BY <1>1, <2>1, <3>2
    <3> QED BY <1>6, <3>1, <3>2 DEF f
  <2>3. Ascending(writeTail')
    <3> SUFFICES ASSUME NEW a \in DOMAIN writeTail', NEW b \in DOMAIN writeTail', a < b,
                        writeTail'[a] # UiFrame, writeTail'[b] # UiFrame
                 PROVE  writeTail'[a] < writeTail'[b]
      BY DEF Ascending
    <3>1. a + 1 < b + 1
      BY <2>1
    <3> QED BY <2>1, <3>1 DEF LaneInv, Ascending
  <2>4. \A k \in DOMAIN writeTail' : writeTail'[k] # UiFrame /\ f # UiFrame => f < writeTail'[k]
    <3> SUFFICES ASSUME NEW k \in DOMAIN writeTail', writeTail'[k] # UiFrame, f # UiFrame
                 PROVE  f < writeTail'[k]
      OBVIOUS
    <3>1. 1 < k + 1 /\ k + 1 \in DOMAIN writeTail /\ writeTail'[k] = writeTail[k+1]
      BY <2>1
    <3> QED BY <2>1, <3>1 DEF LaneInv, Ascending
  <2>5. Behind'
    BY <2>1, <2>2, <2>4 DEF LaneInv, Behind
  <2>6. Ascending(written')
    <3> SUFFICES ASSUME NEW a \in DOMAIN written', NEW b \in DOMAIN written', a < b,
                        written'[a] # UiFrame, written'[b] # UiFrame
                 PROVE  written'[a] < written'[b]
      BY DEF Ascending
    <3>1. a \in DOMAIN written /\ written'[a] = written[a]
      BY <2>2
    <3>2. CASE b \in DOMAIN written /\ written'[b] = written[b]
      BY <3>1, <3>2 DEF LaneInv, Ascending
    <3>3. CASE written'[b] = f
      BY <2>1, <3>1, <3>3 DEF LaneInv, Behind
    <3> QED BY <2>2, <3>2, <3>3
  <2>7. Issued'
    BY <1>1, <1>2, <1>3, <2>1, <2>2 DEF LaneInv, Issued
  <2> QED BY <2>3, <2>5, <2>6, <2>7 DEF LaneInv
<1> QED BY <1>4, <1>5, <1>6, LaneSteps

\* Written frames stay written.
LEMMA WrittenStays == ASSUME Inv, [Next]_vars, NEW i, IsWritten(i) PROVE IsWritten(i)'
<1>1. written \in Seq(Frames) /\ (writeTail # <<>> => Head(writeTail) \in Frames)
  BY DEF Inv, TypeOK
<1>2. CASE written' = written
  BY <1>2 DEF IsWritten
<1>3. CASE writeTail # <<>> /\ written' = Append(written, Head(writeTail))
  BY <1>1, <1>3 DEF IsWritten
<1> QED BY <1>2, <1>3, LaneSteps

\* The pipe gains a line the child prints, or loses lines.
LEMMA PipeStep == ASSUME Inv, AnswersWritten, [Next]_vars PROVE AnswersWritten'
<1> USE DEF writeState, callState, envState
<1>1. stdout \in Seq(Lines)
  BY DEF Inv, TypeOK
<1>2. CASE stdout' = stdout
  BY <1>2, WrittenStays DEF AnswersWritten
<1>3. CASE stdout' = <<>>
  BY <1>3 DEF AnswersWritten
<1>4. CASE stdout # <<>> /\ stdout' = Tail(stdout)
  <2>1. \A k \in DOMAIN stdout' : k + 1 \in DOMAIN stdout /\ stdout'[k] = stdout[k+1]
    BY <1>1, <1>4
  <2> QED BY <2>1, WrittenStays DEF AnswersWritten
<1>5. ASSUME NEW line \in Lines, ChildPrints(line) PROVE AnswersWritten'
  <2>1. stdout' = Append(stdout, line) /\ (line.kind = "response" => IsWritten(line.id))
    BY <1>5 DEF ChildPrints, IsWritten
  <2>2. \A k \in DOMAIN stdout' : (k \in DOMAIN stdout /\ stdout'[k] = stdout[k]) \/ stdout'[k] = line
    BY <1>1, <2>1
  <2> QED BY <2>1, <2>2, WrittenStays DEF AnswersWritten
<1>6. CASE HandleStdoutLine \/ HandleFrameError
  BY <1>2, <1>3, <1>4, <1>6 DEF HandleStdoutLine, HandleFrameError, handleLine, finish
<1>7. CASE BeginWrite \/ StdinFails
  BY <1>2, <1>3, <1>7 DEF BeginWrite, StdinFails, finish
<1>8. ASSUME NEW id \in Ids, RequestTimeout(id) \/ Abort(id) \/ AbortRemotely(id) PROVE AnswersWritten'
  BY <1>2, <1>3, <1>8 DEF RequestTimeout, Abort, AbortRemotely
<1> QED
  BY <1>2, <1>3, <1>5, <1>6, <1>7, <1>8 DEF Next, vars, InvalidateGeneration, Dispose, GenerationSuperseded,
     HandleChildExit, HandleChildError, HandleStdoutEnd, HandleStdoutError, RequestStale, finish,
     Request, RequestRefused, RequestAbortedRemotely, SendExtensionUiResponse, CompleteWrite

\* Only an answer in the pipe resolves a call.
LEMMA ResolvedStep ==
  ASSUME Inv, AnswersWritten, ResolvedWasWritten, [Next]_vars
  PROVE  ResolvedWasWritten'
<1> USE DEF writeState, callState, envState
<1> SUFFICES ASSUME NEW i \in Ids, outcome'[i] = "resolved" PROVE IsWritten(i)'
  BY DEF ResolvedWasWritten
<1>1. CASE outcome[i] = "resolved"
  BY <1>1, WrittenStays DEF ResolvedWasWritten
<1>2. ASSUME outcome[i] # "resolved" PROVE IsWritten(i)
  <2>1. outcome \in [Ids -> Outcomes]
    BY DEF Inv, TypeOK
  <2>2. ASSUME NEW code \in CloseCodes PROVE ~finish(code)
    BY <1>2, <2>1, <2>2 DEF finish, CloseCodes
  <2>3. ASSUME NEW id \in Ids, RequestTimeout(id) \/ Abort(id) \/ AbortRemotely(id) PROVE FALSE
    BY <1>2, <2>1, <2>3 DEF RequestTimeout, Abort, AbortRemotely
  <2>4. ASSUME NEW sig \in Signals, Request(sig) PROVE FALSE
    BY <1>2, <2>1, <2>4 DEF Request
  <2>5. ASSUME NEW sig \in Signals, NEW failure \in {"aborted", "frame_too_large"},
               RequestRefused(sig, failure)
        PROVE  FALSE
    BY <1>2, <2>1, <2>5 DEF RequestRefused
  <2>6. ~RequestAbortedRemotely
    BY <1>2, <2>1 DEF RequestAbortedRemotely
  <2>7. outcome' # outcome
    BY <1>2
  <2>8. HandleStdoutLine
    BY <2>2, <2>3, <2>4, <2>5, <2>6, <2>7 DEF Next, vars, InvalidateGeneration, Dispose, GenerationSuperseded,
       HandleChildExit, HandleChildError, HandleStdoutEnd, HandleStdoutError, RequestStale, CloseCodes,
       SendExtensionUiResponse, BeginWrite, CompleteWrite, StdinFails, ChildPrints, HandleFrameError
  <2>9. stdout # <<>> /\ Head(stdout).kind = "response" /\ outcome' = [outcome EXCEPT ![Head(stdout).id] = "resolved"]
    BY <2>2, <2>7, <2>8 DEF HandleStdoutLine, handleLine, CloseCodes
  <2>10. Head(stdout).id = i
    BY <1>2, <2>1, <2>9
  <2>11. 1 \in DOMAIN stdout /\ Head(stdout) = stdout[1]
    BY <2>9 DEF Inv, TypeOK
  <2> QED BY <2>9, <2>10, <2>11 DEF AnswersWritten
<1> QED BY <1>1, <1>2, WrittenStays

\* A caller is told of success only for a request that reached the child, and the
\* child sees requests in the order they were issued, each at most once, whatever
\* expired, was aborted or waited in between.
THEOREM FramesAreSound == Spec => []FramesSound
<1>1. Init => FramesInv
  BY DEF Init, FramesInv, LaneInv, Ascending, Behind, Issued, AnswersWritten, ResolvedWasWritten
<1>2. Inv /\ FramesInv /\ [Next]_vars => FramesInv'
  BY LaneStep, PipeStep, ResolvedStep DEF FramesInv
<1>3. Inv /\ FramesInv => FramesSound
  <2> SUFFICES ASSUME Inv, FramesInv PROVE WriteOrder
    BY DEF FramesInv, FramesSound
  <2> DEFINE lane == written \o writeTail
  <2>1. writeTail \in Seq(Frames) /\ written \in Seq(Frames)
    BY DEF Inv, TypeOK
  <2>2. /\ Len(written) \in Nat /\ DOMAIN written = 1..Len(written)
        /\ Len(writeTail) \in Nat /\ DOMAIN writeTail = 1..Len(writeTail)
        /\ DOMAIN lane = 1..(Len(written) + Len(writeTail))
        /\ \A k \in DOMAIN lane :
             lane[k] = IF k <= Len(written) THEN written[k] ELSE writeTail[k - Len(written)]
    BY <2>1
  <2> HIDE DEF lane
  <2>3. ASSUME NEW a \in DOMAIN lane, NEW b \in DOMAIN lane, a < b, lane[a] # UiFrame, lane[b] # UiFrame
        PROVE  lane[a] < lane[b]
    <3>1. CASE b <= Len(written)
      <4>1. a \in DOMAIN written /\ b \in DOMAIN written /\ lane[a] = written[a] /\ lane[b] = written[b]
        BY <2>2, <2>3, <3>1
      <4> QED BY <2>3, <4>1 DEF FramesInv, LaneInv, Ascending
    <3>2. CASE a <= Len(written) /\ ~(b <= Len(written))
      <4>1. /\ a \in DOMAIN written /\ b - Len(written) \in DOMAIN writeTail
            /\ lane[a] = written[a] /\ lane[b] = writeTail[b - Len(written)]
        BY <2>2, <2>3, <3>2
      <4> QED BY <2>3, <4>1 DEF FramesInv, LaneInv, Behind
    <3>3. CASE ~(a <= Len(written))
      <4>1. /\ a - Len(written) \in DOMAIN writeTail /\ b - Len(written) \in DOMAIN writeTail
            /\ lane[a] = writeTail[a - Len(written)] /\ lane[b] = writeTail[b - Len(written)]
            /\ a - Len(written) < b - Len(written)
        BY <2>2, <2>3, <3>3
      <4> QED BY <2>3, <4>1 DEF FramesInv, LaneInv, Ascending
    <3> QED BY <3>1, <3>2, <3>3
  <2> QED BY <2>3 DEF WriteOrder, lane
<1> QED
  BY <1>1, <1>2, <1>3, InitInv, NextInv, PTL DEF Spec

-----------------------------------------------------------------------------
(* EventReplay: sequences *)

\* A set of natural numbers that is not empty has a least element: the form in which
\* the induction over sequences is used below.
LEMMA LeastNumber ==
    ASSUME NEW T, T \subseteq Nat, T # {}
    PROVE  \E x \in T : \A y \in T : x <= y
<1> DEFINE R == OpToRel(<, Nat)
<1>1. IsWellFoundedOn(R, Nat)
  BY NatLessThanWellFounded
<1>2. R = {ss \in Nat \X Nat : ss[1] < ss[2]}
  BY DEF OpToRel
<1> HIDE DEF R
<1>3. \E x \in T : \A y \in T : ~ (<<y, x>> \in R)
  BY <1>1, WFMin
<1>4. \A x, y \in Nat : y < x => <<y, x>> \in R
  BY <1>2
<1>5. \A x, y \in Nat : y < x \/ x <= y
  OBVIOUS
<1> QED BY <1>3, <1>4, <1>5

\* f is the function upTo of Selected, as far as m.
SelectedUpTo(s, I, m, f) ==
    f = [n \in 0..m |-> IF n = 0 THEN <<>>
                        ELSE IF n \in I THEN Append(f[n - 1], s[n]) ELSE f[n - 1]]

\* The recursion of Selected has a solution.
LEMMA SelectedIsDefined ==
    ASSUME NEW s, NEW I, Len(s) \in Nat
    PROVE  \E f : SelectedUpTo(s, I, Len(s), f) /\ Selected(s, I) = f[Len(s)]
<1> DEFINE T == {m \in 0..Len(s) : ~ \E f : SelectedUpTo(s, I, m, f)}
<1>1. SUFFICES ASSUME T # {} PROVE FALSE
  <2>1. \E f : SelectedUpTo(s, I, Len(s), f)
    BY <1>1
  <2>2. Selected(s, I) = (CHOOSE f : SelectedUpTo(s, I, Len(s), f))[Len(s)]
    BY DEF Selected, SelectedUpTo
  <2> HIDE DEF T
  <2>3. SelectedUpTo(s, I, Len(s), CHOOSE f : SelectedUpTo(s, I, Len(s), f))
    BY <2>1
  <2> QED BY <2>2, <2>3
<1>2. PICK m \in T : \A k \in T : m <= k
  <2>1. T \subseteq Nat
    OBVIOUS
  <2> HIDE DEF T
  <2> QED BY <1>1, <2>1, LeastNumber
<1>3. m # 0
  <2>1. SelectedUpTo(s, I, 0, [n \in 0..0 |-> <<>>])
    BY DEF SelectedUpTo
  <2> QED BY <1>2, <2>1
<1>4. m - 1 \in 0..Len(s) /\ m - 1 \notin T /\ m \in 0..Len(s)
  BY <1>2, <1>3
<1>5. PICK f : SelectedUpTo(s, I, m - 1, f)
  BY <1>4
<1> DEFINE g == [n \in 0..m |-> IF n = m THEN IF m \in I THEN Append(f[m - 1], s[m]) ELSE f[m - 1]
                                ELSE f[n]]
<1>6. \A n \in 0..(m - 1) : f[n] = IF n = 0 THEN <<>> ELSE IF n \in I THEN Append(f[n - 1], s[n]) ELSE f[n - 1]
  BY <1>5 DEF SelectedUpTo
<1>7. \A n \in 0..m : g[n] = IF n = 0 THEN <<>> ELSE IF n \in I THEN Append(g[n - 1], s[n]) ELSE g[n - 1]
  BY <1>3, <1>4, <1>6
<1>8. SelectedUpTo(s, I, m, g)
  BY <1>7 DEF SelectedUpTo
<1> QED BY <1>2, <1>8

\* r consists of elements of s at places of I up to m, in the order they have in s.
InOrder(r, s, I, m) ==
    \E g \in [1..Len(r) -> I \cap (1..m)] :
      /\ \A i, j \in 1..Len(r) : i < j => g[i] < g[j]
      /\ \A i \in 1..Len(r) : r[i] = s[g[i]]

\* A selection is a subsequence of what it was selected from.
LEMMA SelectedFacts ==
    ASSUME NEW S, NEW s \in Seq(S), NEW I
    PROVE  Selected(s, I) \in Seq(S) /\ InOrder(Selected(s, I), s, I, Len(s))
<1>1. Len(s) \in Nat
  OBVIOUS
<1>2. PICK f : SelectedUpTo(s, I, Len(s), f) /\ Selected(s, I) = f[Len(s)]
  BY <1>1, SelectedIsDefined
<1>3. \A n \in 0..Len(s) : f[n] = IF n = 0 THEN <<>> ELSE IF n \in I THEN Append(f[n - 1], s[n]) ELSE f[n - 1]
  BY <1>2 DEF SelectedUpTo
<1> DEFINE T == {m \in 0..Len(s) : ~(f[m] \in Seq(S) /\ InOrder(f[m], s, I, m))}
<1>4. SUFFICES ASSUME T # {} PROVE FALSE
  BY <1>1, <1>2
<1>5. PICK m \in T : \A k \in T : m <= k
  <2>1. T \subseteq Nat
    OBVIOUS
  <2> HIDE DEF T
  <2> QED BY <1>4, <2>1, LeastNumber
<1>6. /\ m \in 0..Len(s) /\ ~(f[m] \in Seq(S) /\ InOrder(f[m], s, I, m))
      /\ \A k \in 0..Len(s) : k < m => f[k] \in Seq(S) /\ InOrder(f[k], s, I, k)
  BY <1>5
<1> HIDE DEF T
<1>7. m # 0
  <2>1. f[0] = <<>> /\ <<>> \in Seq(S)
    BY <1>1, <1>3
  <2>2. InOrder(<<>>, s, I, 0)
    <3>1. Len(<<>>) = 0 /\ \A i : i \notin 1..0
      OBVIOUS
    <3>2. [i \in 1..0 |-> 1] \in [1..0 -> I \cap (1..0)]
      OBVIOUS
    <3> QED BY <3>1, <3>2 DEF InOrder
  <2> QED BY <1>6, <2>1, <2>2
<1>8. /\ m - 1 \in 0..Len(s) /\ m \in 1..Len(s) /\ m \in 0..Len(s)
      /\ f[m - 1] \in Seq(S) /\ InOrder(f[m - 1], s, I, m - 1)
  BY <1>1, <1>6, <1>7
<1> DEFINE r == f[m - 1]
<1>9. PICK g \in [1..Len(r) -> I \cap (1..(m - 1))] :
        /\ \A i, j \in 1..Len(r) : i < j => g[i] < g[j]
        /\ \A i \in 1..Len(r) : r[i] = s[g[i]]
  BY <1>8 DEF InOrder
<1>10. CASE m \in I
  <2>1. f[m] = Append(r, s[m])
    BY <1>3, <1>7, <1>8, <1>10
  <2>2. s[m] \in S
    BY <1>8
  <2> DEFINE h == [i \in 1..(Len(r) + 1) |-> IF i = Len(r) + 1 THEN m ELSE g[i]]
  <2>3. f[m] \in Seq(S) /\ Len(f[m]) = Len(r) + 1 /\ Len(r) \in Nat
    BY <1>8, <2>1, <2>2
  <2>4. h \in [1..Len(f[m]) -> I \cap (1..m)]
    BY <1>8, <1>9, <1>10, <2>3
  <2>5. \A i, j \in 1..Len(f[m]) : i < j => h[i] < h[j]
    <3> SUFFICES ASSUME NEW i \in 1..(Len(r) + 1), NEW j \in 1..(Len(r) + 1), i < j PROVE h[i] < h[j]
      BY <2>3
    <3>1. i \in 1..Len(r) /\ g[i] \in 1..(m - 1) /\ h[i] = g[i]
      BY <1>9, <2>3
    <3>2. CASE j = Len(r) + 1
      BY <1>8, <2>3, <3>1, <3>2
    <3>3. CASE j # Len(r) + 1
      <4>1. j \in 1..Len(r) /\ h[j] = g[j]
        BY <2>3, <3>3
      <4> QED BY <1>9, <3>1, <4>1
    <3> QED BY <3>2, <3>3
  <2>6. \A i \in 1..Len(f[m]) : f[m][i] = s[h[i]]
    BY <1>8, <1>9, <2>1, <2>3
  <2>7. InOrder(f[m], s, I, m)
    BY <2>4, <2>5, <2>6 DEF InOrder
  <2> QED BY <1>6, <2>3, <2>7
<1>11. CASE m \notin I
  <2>1. f[m] = r
    BY <1>3, <1>7, <1>8, <1>11
  <2>2. g \in [1..Len(r) -> I \cap (1..m)]
    BY <1>8, <1>9
  <2>3. InOrder(f[m], s, I, m)
    BY <1>9, <2>1, <2>2 DEF InOrder
  <2> QED BY <1>6, <1>8, <2>1, <2>3
<1> QED BY <1>10, <1>11

-----------------------------------------------------------------------------
(* PageFrames, and what one does to the page *)

Pages == [seq : Nat, msgs : SUBSET Msgs, notes : BOOLEAN, pending : SUBSET Asks,
          run : ShownStates, own : BOOLEAN, gen : Nat]

Events ==
         [t : {"msg"}, arg : Msgs, gen : Nat, seq : Nat]
    \cup [t : {"ask", "done"}, arg : Asks, gen : Nat, seq : Nat]
    \cup [t : {"run", "init"}, arg : RunStates, gen : Nat, seq : Nat]
    \cup [t : {"life"}, arg : {"enabled", "closed"}, gen : Nat, seq : Nat]
    \cup [t : {"err"}, arg : {"stale", "history"}, gen : Nat, seq : Nat]

\* session_init is never buffered, so never replayed.
Replayable == {e \in Events : e.t # "init"}

Snapshots == [t : {"snap"}, arg : SUBSET Asks, gen : Nat, seq : {0}]
Histories == [t : {"hist"}, arg : SUBSET Msgs, reason : {"initial", "recovery", "gap"}, seq : {0}]

\* The events of a replay come in the order of their numbers.
Replays ==
    {f \in [t : {"replay"}, arg : Seq(Replayable), seq : {0}] :
       f.arg # <<>> /\ \A i \in DOMAIN f.arg : f.arg[i].seq <= Last(f.arg).seq}

PageFrames == Events \cup Snapshots \cup Histories \cup Replays

\* The fields of an event.
LEMMA EventFields ==
    ASSUME NEW e \in Events
    PROVE  /\ e.t \in {"msg", "ask", "done", "run", "init", "life", "err"} /\ e.gen \in Nat /\ e.seq \in Nat
           /\ e.t = "msg" => e.arg \in Msgs
           /\ e.t \in {"ask", "done"} => e.arg \in Asks
           /\ e.t \in {"run", "init"} => e.arg \in RunStates
  BY DEF Events

\* The fields of the page.
LEMMA PageFields ==
    ASSUME NEW c \in Pages
    PROVE  /\ c.seq \in Nat /\ c.msgs \subseteq Msgs /\ c.notes \in BOOLEAN
           /\ c.pending \subseteq Asks /\ c.run \in ShownStates /\ c.own \in BOOLEAN /\ c.gen \in Nat
  BY DEF Pages

\* applyCoreEvent leaves the cursor alone and never takes the generation back.
LEMMA AppliedFacts ==
    ASSUME NEW c \in Pages, NEW e \in Replayable
    PROVE  /\ Applied(c, e) \in Pages
           /\ Applied(c, e).seq = c.seq
           /\ Applied(c, e).gen = (IF e.t \in {"err", "life"} \/ e.gen < c.gen THEN c.gen ELSE e.gen)
<1>0. e \in Events /\ e.t # "init"
  BY DEF Replayable
<1> USE EventFields, PageFields
<1>1. CASE e.t = "err"
  <2>1. Applied(c, e) = [c EXCEPT !.notes = TRUE]
    BY <1>1 DEF Applied
  <2> QED BY <1>1, <2>1 DEF Pages
<1>4. CASE e.t = "life"
  <2>1. Applied(c, e) = IF e.arg = "closed" THEN [c EXCEPT !.run = "stopped", !.own = FALSE] ELSE c
    BY <1>4 DEF Applied
  <2>2. "stopped" \in ShownStates
    BY DEF ShownStates
  <2> QED BY <1>4, <2>1, <2>2 DEF Pages
<1>2. CASE e.t \notin {"err", "life"} /\ e.gen < c.gen
  BY <1>2 DEF Applied
<1>3. CASE e.t \notin {"err", "life"} /\ ~(e.gen < c.gen)
  <2> DEFINE d == [c EXCEPT !.gen = e.gen]
  <2>1. d \in Pages /\ d.seq = c.seq /\ d.gen = e.gen
    BY <1>0 DEF Pages
  <2>2. Applied(c, e) = CASE e.t = "msg"  -> [d EXCEPT !.msgs = @ \cup {e.arg}]
             [] e.t = "ask"  -> [d EXCEPT !.pending = @ \cup {e.arg}, !.run = "asking",
                                          !.own = FALSE]
             [] e.t = "done" -> [d EXCEPT !.pending = @ \ {e.arg}]
             [] OTHER        -> [d EXCEPT !.run = e.arg, !.own = FALSE,
                                          !.pending = IF e.arg = "ready" THEN {} ELSE @]
    BY <1>3 DEF Applied
  <2> HIDE DEF d
  <2>3. CASE e.t = "msg"
    <3>1. Applied(c, e) = [d EXCEPT !.msgs = @ \cup {e.arg}]
      BY <2>2, <2>3
    <3> QED BY <1>0, <1>3, <2>1, <2>3, <3>1 DEF Pages
  <2>4. CASE e.t = "ask"
    <3>1. Applied(c, e) = [d EXCEPT !.pending = @ \cup {e.arg}, !.run = "asking", !.own = FALSE]
      BY <2>2, <2>4
    <3>2. (d.pending \cup {e.arg}) \subseteq Asks /\ "asking" \in ShownStates
      BY <1>0, <2>1, <2>4 DEF RunStates, ShownStates
    <3> QED BY <1>3, <2>1, <2>4, <3>1, <3>2 DEF Pages
  <2>5. CASE e.t = "done"
    <3>1. Applied(c, e) = [d EXCEPT !.pending = @ \ {e.arg}]
      BY <2>2, <2>5
    <3> QED BY <1>0, <1>3, <2>1, <2>5, <3>1 DEF Pages
  <2>6. CASE e.t = "run"
    <3>1. Applied(c, e) = [d EXCEPT !.run = e.arg, !.own = FALSE,
                                    !.pending = IF e.arg = "ready" THEN {} ELSE @]
      BY <2>2, <2>6
    <3>2. e.arg \in ShownStates
      BY <1>0, <2>6 DEF ShownStates
    <3> QED BY <1>0, <1>3, <2>1, <2>6, <3>1, <3>2 DEF Pages
  <2> QED BY <1>0, <1>3, <2>3, <2>4, <2>5, <2>6
<1> QED BY <1>1, <1>2, <1>3, <1>4

\* after is the function of Replayed, as far as m.
ReplayedUpTo(c, events, m, f) ==
    f = [n \in 0..m |-> IF n = 0 THEN c ELSE ReplayOne(f[n - 1], events[n])]

\* The recursion of Replayed has a solution.
LEMMA ReplayedIsDefined ==
    ASSUME NEW c, NEW events, Len(events) \in Nat
    PROVE  \E f : ReplayedUpTo(c, events, Len(events), f) /\ Replayed(c, events) = f[Len(events)]
<1> DEFINE T == {m \in 0..Len(events) : ~ \E f : ReplayedUpTo(c, events, m, f)}
<1>1. SUFFICES ASSUME T # {} PROVE FALSE
  <2>1. \E f : ReplayedUpTo(c, events, Len(events), f)
    BY <1>1
  <2>2. Replayed(c, events) = (CHOOSE f : ReplayedUpTo(c, events, Len(events), f))[Len(events)]
    BY DEF Replayed, ReplayedUpTo
  <2> HIDE DEF T
  <2>3. ReplayedUpTo(c, events, Len(events), CHOOSE f : ReplayedUpTo(c, events, Len(events), f))
    BY <2>1
  <2> QED BY <2>2, <2>3
<1>2. PICK m \in T : \A k \in T : m <= k
  <2>1. T \subseteq Nat
    OBVIOUS
  <2> HIDE DEF T
  <2> QED BY <1>1, <2>1, LeastNumber
<1>3. m # 0
  <2>1. ReplayedUpTo(c, events, 0, [n \in 0..0 |-> c])
    BY DEF ReplayedUpTo
  <2> QED BY <1>2, <2>1
<1>4. m - 1 \in 0..Len(events) /\ m - 1 \notin T /\ m \in 0..Len(events)
  BY <1>2, <1>3
<1>5. PICK f : ReplayedUpTo(c, events, m - 1, f)
  BY <1>4
<1> DEFINE g == [n \in 0..m |-> IF n = m THEN ReplayOne(f[m - 1], events[m]) ELSE f[n]]
<1>6. \A n \in 0..(m - 1) : f[n] = IF n = 0 THEN c ELSE ReplayOne(f[n - 1], events[n])
  BY <1>5 DEF ReplayedUpTo
<1>7. \A n \in 0..m : g[n] = IF n = 0 THEN c ELSE ReplayOne(g[n - 1], events[n])
  BY <1>3, <1>4, <1>6
<1>8. ReplayedUpTo(c, events, m, g)
  BY <1>7 DEF ReplayedUpTo
<1> QED BY <1>2, <1>8

\* A replay moves neither the cursor nor the generation past those of its events.
LEMMA ReplayedFacts ==
    ASSUME NEW c \in Pages, NEW events \in Seq(Replayable), NEW top \in Nat, NEW g \in Nat,
           c.seq <= top, c.gen <= g,
           \A i \in 1..Len(events) : events[i].seq <= top
    PROVE  /\ Replayed(c, events) \in Pages /\ Replayed(c, events).seq <= top
           /\ (\A i \in 1..Len(events) : events[i].gen <= g) => Replayed(c, events).gen <= g
<1>1. Len(events) \in Nat
  OBVIOUS
<1>2. PICK f : ReplayedUpTo(c, events, Len(events), f) /\ Replayed(c, events) = f[Len(events)]
  BY <1>1, ReplayedIsDefined
<1>3. \A n \in 0..Len(events) : f[n] = IF n = 0 THEN c ELSE ReplayOne(f[n - 1], events[n])
  BY <1>2 DEF ReplayedUpTo
<1> DEFINE Old == \A i \in 1..Len(events) : events[i].gen <= g
           Good(p) == p \in Pages /\ p.seq <= top /\ (Old => p.gen <= g)
           T == {m \in 0..Len(events) : ~Good(f[m])}
<1>4. SUFFICES ASSUME T # {} PROVE FALSE
  BY <1>1, <1>2
<1>5. PICK m \in T : \A k \in T : m <= k
  <2>1. T \subseteq Nat
    OBVIOUS
  <2> HIDE DEF T
  <2> QED BY <1>4, <2>1, LeastNumber
<1> HIDE DEF Good
<1>6. m \in 0..Len(events) /\ ~Good(f[m]) /\ \A k \in 0..Len(events) : k < m => Good(f[k])
  BY <1>5
<1> HIDE DEF T
<1>7. m # 0
  <2>1. f[0] = c
    BY <1>1, <1>3
  <2> QED BY <1>6, <2>1 DEF Good
<1>8. m \in 1..Len(events) /\ Good(f[m - 1]) /\ f[m] = ReplayOne(f[m - 1], events[m])
  BY <1>1, <1>3, <1>6, <1>7
<1> DEFINE p == f[m - 1]
           e == events[m]
<1> HIDE DEF p, e
<1>9. p \in Pages /\ p.seq <= top /\ (Old => p.gen <= g) /\ f[m] = ReplayOne(p, e)
  BY <1>8 DEF p, e, Good
<1>10. e \in Replayable /\ e.seq <= top /\ e.seq \in Nat /\ (Old => e.gen <= g)
  <2>1. e \in Replayable /\ e.seq <= top /\ (Old => e.gen <= g)
    BY <1>8 DEF e
  <2> QED BY <2>1, EventFields DEF Replayable
<1>11. CASE e.seq <= p.seq
  BY <1>6, <1>9, <1>11 DEF ReplayOne, Good
<1>12. CASE ~(e.seq <= p.seq)
  <2> DEFINE d == [p EXCEPT !.seq = e.seq]
  <2>1. d \in Pages /\ d.seq = e.seq /\ d.gen = p.gen
    BY <1>9, <1>10 DEF Pages
  <2>2. f[m] = Applied(d, e)
    BY <1>9, <1>12 DEF ReplayOne
  <2> HIDE DEF d
  <2>3. /\ f[m] \in Pages /\ f[m].seq = d.seq
        /\ f[m].gen = (IF e.t \in {"err", "life"} \/ e.gen < d.gen THEN d.gen ELSE e.gen)
    BY <1>10, <2>1, <2>2, AppliedFacts
  <2>4. Good(f[m])
    BY <1>9, <1>10, <2>1, <2>3 DEF Good
  <2> QED BY <1>6, <2>4
<1> QED BY <1>11, <1>12

\* The number of a frame is a natural number.
LEMMA NumberFacts ==
    ASSUME NEW f \in PageFrames
    PROVE  /\ Number(f) \in Nat /\ f.seq \in Nat /\ f.seq <= Number(f)
           /\ f.seq # 0 => f \in Events
<1>1. CASE f \in Events
  <2>1. f.seq \in Nat /\ f.t # "replay"
    BY <1>1, EventFields
  <2> QED BY <1>1, <2>1 DEF Number
<1>2. CASE f \in Snapshots
  BY <1>2 DEF Snapshots, Number
<1>3. CASE f \in Histories
  BY <1>3 DEF Histories, Number
<1>4. CASE f \in Replays
  <2>1. f.t = "replay" /\ f.seq = 0 /\ f.arg \in Seq(Replayable) /\ f.arg # <<>>
    BY <1>4 DEF Replays
  <2>2. Last(f.arg) \in Replayable
    BY <2>1 DEF Last
  <2>3. Last(f.arg).seq \in Nat
    BY <2>2, EventFields DEF Replayable
  <2> QED BY <2>1, <2>3 DEF Number
<1> QED BY <1>1, <1>2, <1>3, <1>4 DEF PageFrames

\* The page as handleParsedMessage finds it once the cursor has passed the frame.
Passed(c, f) == [c EXCEPT !.seq = IF f.seq > @ THEN f.seq ELSE @]

\* Moving the cursor changes nothing else.
LEMMA PassedFacts ==
    ASSUME NEW c \in Pages, NEW f \in PageFrames
    PROVE  /\ Passed(c, f) \in Pages
           /\ Passed(c, f).seq = (IF f.seq > c.seq THEN f.seq ELSE c.seq)
           /\ Passed(c, f).pending = c.pending /\ Passed(c, f).run = c.run
           /\ Passed(c, f).own = c.own /\ Passed(c, f).gen = c.gen
  BY PageFields, NumberFacts DEF Passed, Pages

\* A frame that is not dropped, by its kind.
LEMMA HandledKinds ==
    ASSUME NEW c \in Pages, NEW f \in PageFrames, f.seq = 0 \/ f.seq > c.seq
    PROVE  /\ f.t = "init" => Handled(c, f) = Initialised(Passed(c, f), f)
           /\ f.t = "snap" => Handled(c, f) = Snapshotted(Passed(c, f), f)
           /\ f.t = "hist" => Handled(c, f) = Rewritten(Passed(c, f), f)
           /\ f.t = "replay" => Handled(c, f) = Replayed(Passed(c, f), f.arg)
           /\ f.t \notin {"init", "snap", "hist", "replay"} => Handled(c, f) = Applied(Passed(c, f), f)
<1>1. f.seq \in Nat /\ c.seq \in Nat
  BY NumberFacts, PageFields
<1>2. ~(f.seq # 0 /\ f.seq <= c.seq)
  BY <1>1
<1>3. Handled(c, f) = CASE f.t = "init"   -> Initialised(Passed(c, f), f)
             [] f.t = "snap"   -> Snapshotted(Passed(c, f), f)
             [] f.t = "hist"   -> Rewritten(Passed(c, f), f)
             [] f.t = "replay" -> Replayed(Passed(c, f), f.arg)
             [] OTHER          -> Applied(Passed(c, f), f)
  BY <1>2 DEF Handled, Passed
<1> QED BY <1>3

\* A frame leaves a page, moves the cursor no further than its own number, and the
\* one that starts a connection takes it back to 0.
LEMMA HandledFacts ==
    ASSUME NEW c \in Pages, NEW f \in PageFrames
    PROVE  /\ Handled(c, f) \in Pages
           /\ Handled(c, f).seq <= c.seq \/ Handled(c, f).seq <= Number(f)
           /\ f.t = "init" /\ f.seq = 0 => Handled(c, f).seq = 0
<1>1. f.seq \in Nat /\ c.seq \in Nat /\ Number(f) \in Nat /\ f.seq <= Number(f)
  BY NumberFacts, PageFields
<1>2. CASE f.seq # 0 /\ f.seq <= c.seq
  <2>1. Handled(c, f) = c
    BY <1>2 DEF Handled
  <2> QED BY <1>1, <1>2, <2>1
<1>3. CASE f.seq = 0 \/ f.seq > c.seq
  <2> DEFINE d == Passed(c, f)
             top == IF f.seq > c.seq THEN f.seq ELSE c.seq
  <2>1. d \in Pages /\ d.seq = top /\ top \in Nat
    BY <1>1, PassedFacts
  <2>2. top <= c.seq \/ top <= Number(f)
    BY <1>1
  <2>3. /\ d.seq \in Nat /\ d.msgs \subseteq Msgs /\ d.notes \in BOOLEAN
        /\ d.pending \subseteq Asks /\ d.run \in ShownStates /\ d.gen \in Nat
    BY <2>1, PageFields
  <2> HIDE DEF d, top
  <2>4. CASE f \in Events /\ f.t = "init"
    <3>1. Handled(c, f) = Initialised(d, f)
      BY <1>3, <2>4, HandledKinds DEF d
    <3>2. f.arg \in ShownStates /\ f.gen \in Nat
      BY <2>4, EventFields DEF ShownStates
    <3> DEFINE q == IF f.seq = 0 THEN 0 ELSE d.seq
               p == IF d.gen # 0 /\ d.gen # f.gen THEN {} ELSE d.pending
    <3>3. q \in Nat /\ p \subseteq Asks /\ q <= top /\ (f.seq = 0 => q = 0)
      BY <2>1, <2>3
    <3>4. Initialised(d, f) = [d EXCEPT !.seq = q, !.pending = p, !.gen = f.gen, !.run = f.arg, !.own = FALSE]
      BY DEF Initialised
    <3> HIDE DEF q, p
    <3> DEFINE u == [d EXCEPT !.seq = q, !.pending = p, !.gen = f.gen, !.run = f.arg]
    <3>6. u \in Pages /\ u.seq = q
      BY <2>1, <3>2, <3>3 DEF Pages
    <3>7. Initialised(d, f) = [u EXCEPT !.own = FALSE]
      BY <2>1, <3>4 DEF Pages
    <3> HIDE DEF u
    <3>5. Handled(c, f) \in Pages /\ Handled(c, f).seq = q
      BY <3>1, <3>6, <3>7 DEF Pages
    <3> QED BY <1>1, <2>1, <2>2, <3>3, <3>5
  <2>5. CASE f \in Events /\ f.t # "init"
    <3>1. f.t \in {"msg", "ask", "done", "run", "life", "err"} /\ f \in Replayable
      BY <2>5, EventFields DEF Replayable
    <3>2. Handled(c, f) = Applied(d, f)
      BY <1>3, <3>1, HandledKinds DEF d
    <3>3. Handled(c, f) \in Pages /\ Handled(c, f).seq = d.seq
      BY <2>1, <3>1, <3>2, AppliedFacts
    <3> QED BY <2>1, <2>2, <2>5, <3>3
  <2>6. CASE f \in Snapshots
    <3>1. f.t = "snap" /\ f.arg \subseteq Asks
      BY <2>6 DEF Snapshots
    <3>2. Handled(c, f) = Snapshotted(d, f)
      BY <1>3, <3>1, HandledKinds DEF d
    <3>3. Handled(c, f) \in Pages /\ Handled(c, f).seq = d.seq
      BY <2>1, <3>1, <3>2 DEF Snapshotted, Pages
    <3> QED BY <2>1, <2>2, <3>1, <3>3
  <2>7. CASE f \in Histories
    <3>1. f.t = "hist" /\ f.arg \subseteq Msgs
      BY <2>7 DEF Histories
    <3>2. Handled(c, f) = Rewritten(d, f)
      BY <1>3, <3>1, HandledKinds DEF d
    <3> DEFINE q == IF f.reason = "recovery" THEN 0 ELSE d.seq
    <3>3. q \in Nat /\ q <= top
      BY <2>1, <2>3
    <3>4. Rewritten(d, f) = [d EXCEPT !.seq = q, !.msgs = f.arg, !.notes = FALSE, !.pending = {}]
      BY DEF Rewritten
    <3> HIDE DEF q
    <3> DEFINE u == [d EXCEPT !.seq = q, !.msgs = f.arg, !.pending = {}]
    <3>5. u \in Pages /\ u.seq = q
      BY <2>1, <3>1, <3>3 DEF Pages
    <3>6. Rewritten(d, f) = [u EXCEPT !.notes = FALSE]
      BY <2>1, <3>4 DEF Pages
    <3> HIDE DEF u
    <3>7. Handled(c, f) \in Pages /\ Handled(c, f).seq = q
      BY <3>2, <3>5, <3>6 DEF Pages
    <3> QED BY <1>1, <2>1, <2>2, <3>1, <3>3, <3>7
  <2>8. CASE f \in Replays
    <3>1. /\ f.t = "replay" /\ f.seq = 0 /\ f.arg \in Seq(Replayable)
          /\ \A i \in DOMAIN f.arg : f.arg[i].seq <= Number(f)
      BY <2>8 DEF Replays, Number
    <3>2. Handled(c, f) = Replayed(d, f.arg)
      BY <1>3, <3>1, HandledKinds DEF d
    <3> DEFINE m == IF top <= Number(f) THEN Number(f) ELSE top
    <3>3. m \in Nat /\ d.seq <= m /\ (m <= c.seq \/ m <= Number(f)) /\ Number(f) <= m
      BY <1>1, <2>1, <2>2
    <3>4. \A i \in 1..Len(f.arg) : f.arg[i].seq <= m
      <4> SUFFICES ASSUME NEW i \in 1..Len(f.arg) PROVE f.arg[i].seq <= m
        OBVIOUS
      <4>1. f.arg[i].seq <= Number(f) /\ f.arg[i] \in Replayable
        BY <3>1
      <4>2. f.arg[i].seq \in Nat
        BY <4>1, EventFields DEF Replayable
      <4> QED BY <1>1, <3>3, <4>1, <4>2
    <3> HIDE DEF m
    <3>5. Replayed(d, f.arg) \in Pages /\ Replayed(d, f.arg).seq <= m
      BY <2>1, <2>3, <3>1, <3>3, <3>4, ReplayedFacts
    <3>6. Replayed(d, f.arg).seq \in Nat
      BY <3>5, PageFields
    <3> QED BY <1>1, <3>1, <3>2, <3>3, <3>5, <3>6
  <2> QED BY <2>4, <2>5, <2>6, <2>7, <2>8 DEF PageFrames
<1> QED BY <1>1, <1>2, <1>3

\* What an event of the page's generation or a later one does to the page.
LEMMA AppliedFields ==
    ASSUME NEW c \in Pages, NEW e \in Replayable, c.gen <= e.gen
    PROVE  /\ e.t \in {"msg", "err"} =>
                /\ Applied(c, e).pending = c.pending
                /\ Applied(c, e).run = c.run /\ Applied(c, e).own = c.own
           /\ e.t = "ask" =>
                Applied(c, e).pending = c.pending \cup {e.arg} /\ Applied(c, e).run = "asking"
           /\ e.t = "done" =>
                /\ Applied(c, e).pending = c.pending \ {e.arg}
                /\ Applied(c, e).run = c.run /\ Applied(c, e).own = c.own
           /\ e.t = "life" =>
                /\ Applied(c, e).pending = c.pending
                /\ \/ Applied(c, e).run = c.run /\ Applied(c, e).own = c.own
                   \/ e.arg = "closed" /\ Applied(c, e).run = "stopped"
           /\ e.t = "run" =>
                /\ Applied(c, e).pending = (IF e.arg = "ready" THEN {} ELSE c.pending)
                /\ Applied(c, e).run = e.arg
<1>0. e \in Events /\ e.t # "init" /\ e.gen \in Nat /\ c.gen \in Nat
  BY EventFields, PageFields DEF Replayable
<1>1. CASE e.t = "err"
  <2>1. Applied(c, e) = [c EXCEPT !.notes = TRUE]
    BY <1>1 DEF Applied
  <2> QED BY <1>1, <2>1 DEF Pages
<1>3. CASE e.t = "life"
  <2>1. Applied(c, e) = IF e.arg = "closed" THEN [c EXCEPT !.run = "stopped", !.own = FALSE] ELSE c
    BY <1>3 DEF Applied
  <2> QED BY <1>3, <2>1 DEF Pages
<1>2. CASE e.t \notin {"err", "life"}
  <2> DEFINE d == [c EXCEPT !.gen = e.gen]
  <2>1. d \in Pages /\ d.pending = c.pending /\ d.run = c.run /\ d.own = c.own
    BY <1>0 DEF Pages
  <2>2. Applied(c, e) = CASE e.t = "msg"  -> [d EXCEPT !.msgs = @ \cup {e.arg}]
             [] e.t = "ask"  -> [d EXCEPT !.pending = @ \cup {e.arg}, !.run = "asking",
                                          !.own = FALSE]
             [] e.t = "done" -> [d EXCEPT !.pending = @ \ {e.arg}]
             [] OTHER        -> [d EXCEPT !.run = e.arg, !.own = FALSE,
                                          !.pending = IF e.arg = "ready" THEN {} ELSE @]
    BY <1>0, <1>2 DEF Applied
  <2> HIDE DEF d
  <2>3. CASE e.t = "msg"
    BY <2>1, <2>2, <2>3 DEF Pages
  <2>4. CASE e.t = "ask"
    BY <2>1, <2>2, <2>4 DEF Pages
  <2>5. CASE e.t = "done"
    BY <2>1, <2>2, <2>5 DEF Pages
  <2>6. CASE e.t = "run"
    BY <2>1, <2>2, <2>6 DEF Pages
  <2>7. e.t \in {"msg", "ask", "done", "run"}
    BY <1>0, <1>2, EventFields
  <2> QED BY <2>3, <2>4, <2>5, <2>6, <2>7
<1> QED BY <1>1, <1>2, <1>3

\* What a page e may show as the run state of a session that is in r: r itself, the end
\* it was told of, or what it set when it sent a prompt.
Right(e, r) == e.run = r \/ e.own \/ (e.run = "stopped" /\ r = "disconnected")

\* The page e shows the interactions I and the run state r of generation g, and its
\* cursor is behind n, the next number.
Shows(e, I, r, g, n) == e \in Pages /\ e.pending = I /\ Right(e, r) /\ e.gen = g /\ e.seq < n

\* A session is reported closed only when it is disconnected.
Timely(f, r) == f.t = "life" /\ f.arg = "closed" => r = "disconnected"

\* The interactions and the run state a page shows after the event f, if they were I
\* and r before.
Asked(I, f) ==
    CASE f.t = "ask"  -> I \cup {f.arg}
      [] f.t = "done" -> I \ {f.arg}
      [] OTHER        -> IF f.t = "run" /\ f.arg = "ready" THEN {} ELSE I

Ran(r, f) == CASE f.t = "ask" -> "asking" [] f.t = "run" -> f.arg [] OTHER -> r

\* An event published with the next number: the page follows.
LEMMA HandledPublished ==
    ASSUME NEW I, NEW r, NEW g \in Nat, NEW n \in Nat \ {0}, NEW e, Shows(e, I, r, g, n),
           NEW f \in Replayable, f.seq = n, f.gen = g, Timely(f, r)
    PROVE  Shows(Handled(e, f), Asked(I, f), Ran(r, f), g, n + 1)
<1>1. e \in Pages /\ e.pending = I /\ Right(e, r) /\ e.gen = g /\ e.seq < n /\ e.seq \in Nat
  BY PageFields DEF Shows
<1>2. /\ f \in Events /\ f \in PageFrames /\ f.t \in {"msg", "ask", "done", "run", "life", "err"}
  BY EventFields DEF Replayable, PageFrames
<1> DEFINE d == Passed(e, f)
<1>3. d \in Pages /\ d.seq = n /\ d.pending = I /\ Right(d, r) /\ d.gen = g
  BY <1>1, <1>2, PassedFacts DEF Right
<1>4. Handled(e, f) = Applied(d, f)
  BY <1>1, <1>2, HandledKinds
<1> HIDE DEF d
<1>5. Applied(d, f) \in Pages /\ Applied(d, f).seq = n /\ Applied(d, f).gen = g
  BY <1>3, AppliedFacts
<1>6. d.gen <= f.gen
  BY <1>3
<1>7. /\ f.t \in {"msg", "err"} => Applied(d, f).pending = I /\ Right(Applied(d, f), r)
      /\ f.t = "ask" => Applied(d, f).pending = I \cup {f.arg} /\ Applied(d, f).run = "asking"
      /\ f.t = "done" => Applied(d, f).pending = I \ {f.arg} /\ Right(Applied(d, f), r)
      /\ f.t = "life" => Applied(d, f).pending = I /\ Right(Applied(d, f), r)
      /\ f.t = "run" => /\ Applied(d, f).pending = (IF f.arg = "ready" THEN {} ELSE I)
                        /\ Applied(d, f).run = f.arg
  BY <1>3, <1>6, AppliedFields DEF Right, Timely
<1>8. n < n + 1
  OBVIOUS
<1>9. Applied(d, f).pending = Asked(I, f) /\ Right(Applied(d, f), Ran(r, f))
  BY <1>2, <1>7 DEF Asked, Ran, Right
<1> QED BY <1>4, <1>5, <1>8, <1>9 DEF Shows

\* A snapshot of the page's generation.
LEMMA HandledSnapshot ==
    ASSUME NEW r, NEW g \in Nat, NEW n \in Nat, NEW e \in Pages,
           Right(e, r), e.gen = g, e.seq < n, NEW asks \in SUBSET Asks
    PROVE  /\ AskSnapshot(asks, g) \in PageFrames
           /\ Shows(Handled(e, AskSnapshot(asks, g)), asks, r, g, n)
<1> DEFINE f == AskSnapshot(asks, g)
           d == Passed(e, f)
<1>1. f \in PageFrames /\ f.t = "snap" /\ f.seq = 0 /\ f.arg = asks /\ f.gen = g
  BY DEF AskSnapshot, Snapshots, PageFrames
<1> HIDE DEF f
<1>2. d \in Pages /\ d.seq = e.seq /\ Right(d, r) /\ d.gen = g
  BY <1>1, PassedFacts, PageFields DEF Right
<1>3. Handled(e, f) = Snapshotted(d, f)
  BY <1>1, HandledKinds
<1> HIDE DEF d
<1>4. Handled(e, f) = [d EXCEPT !.pending = asks]
  BY <1>1, <1>2, <1>3 DEF Snapshotted
<1>5. Shows(Handled(e, f), asks, r, g, n)
  BY <1>2, <1>4 DEF Shows, Pages, Right
<1> QED BY <1>1, <1>5 DEF f

\* The run state sent to one page: it takes the page to the session's generation.
LEMMA HandledRun ==
    ASSUME NEW s \in RunStates, NEW g \in Nat, NEW n \in Nat, NEW e \in Pages,
           e.gen <= g, e.seq < n
    PROVE  /\ Event("run", s, g) \in PageFrames
           /\ Shows(Handled(e, Event("run", s, g)),
                    IF s = "ready" THEN {} ELSE e.pending, s, g, n)
<1> DEFINE f == Event("run", s, g)
           d == Passed(e, f)
<1>1. f \in Replayable /\ f \in PageFrames /\ f.t = "run" /\ f.seq = 0 /\ f.arg = s /\ f.gen = g
  BY DEF Event, Events, Replayable, PageFrames
<1> HIDE DEF f
<1>2. d \in Pages /\ d.seq = e.seq /\ d.pending = e.pending /\ d.gen = e.gen /\ e.gen \in Nat
  BY <1>1, PassedFacts, PageFields
<1>3. Handled(e, f) = Applied(d, f)
  BY <1>1, HandledKinds
<1> HIDE DEF d
<1>4. /\ Applied(d, f) \in Pages /\ Applied(d, f).seq = e.seq /\ Applied(d, f).gen = g
      /\ Applied(d, f).pending = (IF s = "ready" THEN {} ELSE e.pending) /\ Applied(d, f).run = s
  BY <1>1, <1>2, AppliedFacts, AppliedFields
<1>5. Shows(Handled(e, f), IF s = "ready" THEN {} ELSE e.pending, s, g, n)
  BY <1>3, <1>4 DEF Shows, Right
<1> QED BY <1>1, <1>5 DEF f

\* session_init takes the page to its generation and run state, with the number it has.
LEMMA HandledInit ==
    ASSUME NEW s \in RunStates, NEW g \in Nat, NEW n \in Nat, NEW e \in Pages, NEW f,
           f = [Event("init", s, g) EXCEPT !.seq = n], n = 0 \/ e.seq < n
    PROVE  /\ f \in Events
           /\ Handled(e, f) \in Pages /\ Handled(e, f).run = s /\ Handled(e, f).gen = g
           /\ Handled(e, f).seq = n
<1>1. f \in Events /\ f \in PageFrames /\ f.t = "init" /\ f.seq = n /\ f.arg = s /\ f.gen = g
  BY DEF Event, Events, PageFrames
<1> DEFINE d == Passed(e, f)
<1>2. d \in Pages /\ (n # 0 => d.seq = n) /\ e.seq \in Nat
  BY <1>1, PassedFacts, PageFields
<1>3. Handled(e, f) = Initialised(d, f)
  BY <1>1, <1>2, HandledKinds
<1>4. Handled(e, f) \in Pages
  BY <1>1, HandledFacts
<1> HIDE DEF d
<1> DEFINE q == IF f.seq = 0 THEN 0 ELSE d.seq
           p == IF d.gen # 0 /\ d.gen # f.gen THEN {} ELSE d.pending
<1>5. Initialised(d, f) = [d EXCEPT !.seq = q, !.pending = p, !.gen = f.gen, !.run = f.arg, !.own = FALSE]
  BY DEF Initialised
<1>6. q = n
  BY <1>1, <1>2
<1> HIDE DEF q, p
<1> QED BY <1>1, <1>2, <1>3, <1>4, <1>5, <1>6 DEF Pages

\* Neither the generation nor the cursor of the page is beyond those of the session.
NotBeyond(e, g, n) == e \in Pages /\ e.gen <= g /\ e.seq < n

\* A history, or the error in place of one, takes the page to nothing the session has
\* not reached.
LEMMA HandledHistory ==
    ASSUME NEW g \in Nat, NEW n \in Nat, NEW e, NotBeyond(e, g, n),
           NEW f, f \in Histories \/ f = Event("err", "history", g)
    PROVE  f \in PageFrames /\ f.seq = 0 /\ Number(f) = 0 /\ f.t # "init" /\ NotBeyond(Handled(e, f), g, n)
<1> DEFINE d == Passed(e, f)
<1>0. e \in Pages /\ e.gen <= g /\ e.seq < n /\ e.seq \in Nat
  BY PageFields DEF NotBeyond
<1>1. CASE f \in Histories
  <2>1. f \in PageFrames /\ f.t = "hist" /\ f.seq = 0
    BY <1>1 DEF Histories, PageFrames
  <2>2. d \in Pages /\ d.seq = e.seq /\ d.gen = e.gen
    BY <1>0, <2>1, PassedFacts
  <2>3. Handled(e, f) = Rewritten(d, f)
    BY <1>0, <2>1, HandledKinds
  <2>4. Handled(e, f) \in Pages
    BY <1>0, <2>1, HandledFacts
  <2> HIDE DEF d
  <2> DEFINE q == IF f.reason = "recovery" THEN 0 ELSE d.seq
  <2>5. Rewritten(d, f) = [d EXCEPT !.seq = q, !.msgs = f.arg, !.notes = FALSE, !.pending = {}]
    BY DEF Rewritten
  <2>6. q < n
    BY <1>0, <2>2
  <2> HIDE DEF q
  <2>7. Handled(e, f).seq = q /\ Handled(e, f).gen = d.gen
    BY <2>2, <2>3, <2>5 DEF Pages
  <2> QED BY <1>0, <2>1, <2>2, <2>4, <2>6, <2>7 DEF NotBeyond, Number
<1>2. CASE f = Event("err", "history", g)
  <2>1. f \in Replayable /\ f \in PageFrames /\ f.t = "err" /\ f.seq = 0
    BY <1>2 DEF Event, Events, Replayable, PageFrames
  <2>2. d \in Pages /\ d.seq = e.seq /\ d.gen = e.gen
    BY <1>0, <2>1, PassedFacts
  <2>3. Handled(e, f) = Applied(d, f)
    BY <1>0, <2>1, HandledKinds
  <2> HIDE DEF d
  <2>4. Handled(e, f) \in Pages /\ Handled(e, f).seq = e.seq /\ Handled(e, f).gen = e.gen
    BY <2>1, <2>2, <2>3, AppliedFacts
  <2> QED BY <1>0, <2>1, <2>4 DEF NotBeyond, Number
<1> QED BY <1>1, <1>2

\* Nor does a replay.
LEMMA HandledReplay ==
    ASSUME NEW g \in Nat, NEW n \in Nat, NEW e, NotBeyond(e, g, n),
           NEW events \in Seq(Replayable), Replay(events) \in Replays,
           \A i \in 1..Len(events) : events[i].seq < n /\ events[i].gen <= g
    PROVE  NotBeyond(Handled(e, Replay(events)), g, n)
<1> DEFINE f == Replay(events)
           d == Passed(e, f)
<1>0. e \in Pages /\ e.gen <= g /\ e.seq < n /\ e.seq \in Nat
  BY PageFields DEF NotBeyond
<1>1. f \in PageFrames /\ f.t = "replay" /\ f.seq = 0 /\ f.arg = events
  BY DEF Replay, PageFrames
<1> HIDE DEF f
<1>2. d \in Pages /\ d.seq = e.seq /\ d.gen = e.gen
  BY <1>0, <1>1, PassedFacts
<1>3. Handled(e, f) = Replayed(d, events)
  BY <1>0, <1>1, HandledKinds
<1> HIDE DEF d
<1>4. n - 1 \in Nat /\ d.seq <= n - 1 /\ d.gen <= g
  BY <1>0, <1>2
<1>5. \A i \in 1..Len(events) : events[i].seq <= n - 1
  <2> SUFFICES ASSUME NEW i \in 1..Len(events) PROVE events[i].seq <= n - 1
    OBVIOUS
  <2>1. events[i] \in Replayable /\ events[i].seq < n
    OBVIOUS
  <2>2. events[i].seq \in Nat
    BY <2>1, EventFields DEF Replayable
  <2> QED BY <2>1, <2>2
<1>6. Replayed(d, events) \in Pages /\ Replayed(d, events).seq <= n - 1 /\ Replayed(d, events).gen <= g
  BY <1>2, <1>4, <1>5, ReplayedFacts
<1>7. Replayed(d, events).seq \in Nat
  BY <1>6, PageFields
<1>8. NotBeyond(Handled(e, f), g, n)
  BY <1>3, <1>6, <1>7 DEF NotBeyond
<1> QED BY <1>8 DEF f

-----------------------------------------------------------------------------
(* The frames in flight *)

\* Once the page c has handled the frames, in order, it is e.
Ends(c, frames, e) ==
    \E s \in [0..Len(frames) -> Pages] :
      /\ s[0] = c /\ s[Len(frames)] = e
      /\ \A i \in 1..Len(frames) : s[i] = Handled(s[i - 1], frames[i])

\* Without frames the page stays what it is.
LEMMA EndsEmpty ==
    ASSUME NEW c \in Pages
    PROVE  Ends(c, <<>>, c) /\ \A e : Ends(c, <<>>, e) => e = c
<1> DEFINE z == [i \in 0..0 |-> c]
<1>1. z \in [0..0 -> Pages] /\ z[0] = c
  OBVIOUS
<1>2. Len(<<>>) = 0 /\ \A i : i \notin 1..0
  OBVIOUS
<1> HIDE DEF z
<1>3. Ends(c, <<>>, c)
  BY <1>1, <1>2 DEF Ends
<1>4. \A e : Ends(c, <<>>, e) => e = c
  BY <1>2 DEF Ends
<1> QED BY <1>3, <1>4

\* One frame more, behind the others.
LEMMA EndsPush ==
    ASSUME NEW c, NEW d \in Seq(PageFrames), NEW e \in Pages, Ends(c, d, e), NEW f \in PageFrames
    PROVE  Ends(c, d \o <<f>>, Handled(e, f))
<1>1. PICK s \in [0..Len(d) -> Pages] :
        /\ s[0] = c /\ s[Len(d)] = e
        /\ \A i \in 1..Len(d) : s[i] = Handled(s[i - 1], d[i])
  BY DEF Ends
<1> DEFINE m == Len(d)
           b == d \o <<f>>
           z == [i \in 0..(m + 1) |-> IF i = m + 1 THEN Handled(e, f) ELSE s[i]]
<1>2. m \in Nat /\ Len(b) = m + 1 /\ b[m + 1] = f /\ \A i \in 1..m : b[i] = d[i]
  OBVIOUS
<1>3. Handled(e, f) \in Pages
  BY HandledFacts
<1>4. z \in [0..(m + 1) -> Pages]
  <2> SUFFICES ASSUME NEW i \in 0..(m + 1) PROVE (IF i = m + 1 THEN Handled(e, f) ELSE s[i]) \in Pages
    OBVIOUS
  <2>1. i # m + 1 => i \in 0..Len(d)
    BY <1>2
  <2> QED BY <1>1, <1>3, <2>1
<1>5. z[0] = c /\ z[m + 1] = Handled(e, f) /\ z[m] = e
  BY <1>1, <1>2
<1>6. \A i \in 1..(m + 1) : z[i] = Handled(z[i - 1], b[i])
  <2> SUFFICES ASSUME NEW i \in 1..(m + 1) PROVE z[i] = Handled(z[i - 1], b[i])
    OBVIOUS
  <2>1. CASE i = m + 1
    <3>1. i - 1 = m
      BY <1>2, <2>1
    <3> QED BY <1>2, <1>5, <2>1, <3>1
  <2>2. CASE i # m + 1
    <3>1. i \in 1..m /\ i \in 0..(m + 1) /\ i - 1 \in 0..(m + 1) /\ i - 1 # m + 1
      BY <1>2, <2>2
    <3>2. z[i] = s[i] /\ z[i - 1] = s[i - 1] /\ b[i] = d[i]
      BY <1>2, <2>2, <3>1
    <3>3. s[i] = Handled(s[i - 1], d[i])
      BY <1>1, <3>1
    <3> QED BY <3>2, <3>3
  <2> QED BY <2>1, <2>2
<1> HIDE DEF m, b, z
<1>7. Ends(c, b, Handled(e, f))
  BY <1>2, <1>4, <1>5, <1>6 DEF Ends
<1> QED BY <1>7 DEF b

\* The first frame is handled.
LEMMA EndsTail ==
    ASSUME NEW c, NEW d \in Seq(PageFrames), d # <<>>, NEW e, Ends(c, d, e)
    PROVE  Ends(Handled(c, Head(d)), Tail(d), e)
<1>1. PICK s \in [0..Len(d) -> Pages] :
        /\ s[0] = c /\ s[Len(d)] = e
        /\ \A i \in 1..Len(d) : s[i] = Handled(s[i - 1], d[i])
  BY DEF Ends
<1> DEFINE m == Len(d) - 1
           b == Tail(d)
           z == [i \in 0..m |-> s[i + 1]]
<1>2. /\ Len(d) \in Nat /\ m \in Nat /\ Len(b) = m /\ Head(d) = d[1]
      /\ \A i \in 1..m : b[i] = d[i + 1]
  OBVIOUS
<1>3. z \in [0..m -> Pages]
  BY <1>1, <1>2
<1>4. s[1] = Handled(c, Head(d))
  <2>1. 1 \in 1..Len(d) /\ 1 - 1 = 0
    BY <1>2
  <2>2. s[1] = Handled(s[1 - 1], d[1])
    BY <1>1, <2>1
  <2> QED BY <1>1, <1>2, <2>1, <2>2
<1>5. z[0] = Handled(c, Head(d)) /\ z[m] = e
  <2>1. 0 \in 0..m /\ m \in 0..m /\ 0 + 1 = 1 /\ m + 1 = Len(d)
    BY <1>2
  <2> QED BY <1>1, <1>4, <2>1
<1>6. \A i \in 1..m : z[i] = Handled(z[i - 1], b[i])
  <2> SUFFICES ASSUME NEW i \in 1..m PROVE z[i] = Handled(z[i - 1], b[i])
    OBVIOUS
  <2>1. i + 1 \in 1..Len(d) /\ i \in 0..m /\ i - 1 \in 0..m /\ (i - 1) + 1 = i /\ (i + 1) - 1 = i
    BY <1>2
  <2>2. z[i] = s[i + 1] /\ z[i - 1] = s[i] /\ b[i] = d[i + 1]
    BY <1>2, <2>1
  <2>3. s[i + 1] = Handled(s[i], d[i + 1])
    BY <1>1, <2>1
  <2> QED BY <2>2, <2>3
<1> HIDE DEF m, b, z
<1>7. Ends(Handled(c, Head(d)), b, e)
  BY <1>2, <1>3, <1>5, <1>6 DEF Ends
<1> QED BY <1>7 DEF b

\* The page c when the user has sent a prompt.
Prompted(c) == [c EXCEPT !.run = "running", !.own = TRUE]

LEMMA PromptedFields ==
    ASSUME NEW c \in Pages
    PROVE  /\ Prompted(c) \in Pages /\ Prompted(c).own
           /\ Prompted(c).seq = c.seq /\ Prompted(c).msgs = c.msgs /\ Prompted(c).notes = c.notes
           /\ Prompted(c).pending = c.pending /\ Prompted(c).gen = c.gen
<1>1. "running" \in ShownStates
  BY DEF ShownStates, RunStates
<1> QED BY <1>1 DEF Prompted, Pages

\* An event either sets the run state, or does what it does without the prompt.
LEMMA PromptedApplied ==
    ASSUME NEW c \in Pages, NEW e \in Replayable
    PROVE  Applied(Prompted(c), e) \in {Applied(c, e), Prompted(Applied(c, e))}
<1>0. e \in Events /\ e.t # "init" /\ Prompted(c).gen = c.gen
  BY PromptedFields DEF Replayable
<1>1. CASE e.t = "err"
  <2>1. /\ Applied(c, e) = [c EXCEPT !.notes = TRUE]
        /\ Applied(Prompted(c), e) = [Prompted(c) EXCEPT !.notes = TRUE]
    BY <1>1 DEF Applied
  <2> QED BY <2>1 DEF Prompted, Pages
<1>2. CASE e.t = "life"
  <2>1. \A d : Applied(d, e) = IF e.arg = "closed" THEN [d EXCEPT !.run = "stopped", !.own = FALSE] ELSE d
    BY <1>2 DEF Applied
  <2> QED BY <2>1 DEF Prompted, Pages
<1>3. CASE e.t \notin {"err", "life"} /\ e.gen < c.gen
  BY <1>0, <1>3 DEF Applied
<1>4. CASE e.t \notin {"err", "life"} /\ ~(e.gen < c.gen)
  <2> DEFINE d == [c EXCEPT !.gen = e.gen]
             b == [Prompted(c) EXCEPT !.gen = e.gen]
  <2>1. d \in Pages /\ b = Prompted(d)
    BY <1>0, EventFields DEF Prompted, Pages
  <2>2. Applied(c, e) = CASE e.t = "msg"  -> [d EXCEPT !.msgs = @ \cup {e.arg}]
             [] e.t = "ask"  -> [d EXCEPT !.pending = @ \cup {e.arg}, !.run = "asking",
                                          !.own = FALSE]
             [] e.t = "done" -> [d EXCEPT !.pending = @ \ {e.arg}]
             [] OTHER        -> [d EXCEPT !.run = e.arg, !.own = FALSE,
                                          !.pending = IF e.arg = "ready" THEN {} ELSE @]
    BY <1>4 DEF Applied
  <2>3. Applied(Prompted(c), e) =
           CASE e.t = "msg"  -> [b EXCEPT !.msgs = @ \cup {e.arg}]
             [] e.t = "ask"  -> [b EXCEPT !.pending = @ \cup {e.arg}, !.run = "asking",
                                          !.own = FALSE]
             [] e.t = "done" -> [b EXCEPT !.pending = @ \ {e.arg}]
             [] OTHER        -> [b EXCEPT !.run = e.arg, !.own = FALSE,
                                          !.pending = IF e.arg = "ready" THEN {} ELSE @]
    BY <1>0, <1>4 DEF Applied
  <2> HIDE DEF d, b
  <2>4. CASE e.t = "msg"
    BY <2>1, <2>2, <2>3, <2>4 DEF Prompted, Pages
  <2>8. \A p : [d EXCEPT !.pending = p, !.run = e.arg, !.own = FALSE]
               = [Prompted(d) EXCEPT !.pending = p, !.run = e.arg, !.own = FALSE]
    BY <2>1 DEF Prompted, Pages
  <2>9. \A p : [d EXCEPT !.pending = p, !.run = "asking", !.own = FALSE]
               = [Prompted(d) EXCEPT !.pending = p, !.run = "asking", !.own = FALSE]
    BY <2>1 DEF Prompted, Pages
  <2>10. b.pending = d.pending
    BY <2>1, PromptedFields
  <2>5. CASE e.t = "ask"
    <3>1. Applied(c, e) = [d EXCEPT !.pending = d.pending \cup {e.arg}, !.run = "asking", !.own = FALSE]
      BY <2>1, <2>2, <2>5 DEF Pages
    <3>2. Applied(Prompted(c), e)
            = [Prompted(d) EXCEPT !.pending = d.pending \cup {e.arg}, !.run = "asking", !.own = FALSE]
      BY <2>1, <2>3, <2>5, <2>10
    <3> QED BY <2>9, <3>1, <3>2
  <2>6. CASE e.t = "done"
    BY <2>1, <2>2, <2>3, <2>6 DEF Prompted, Pages
  <2>7. CASE e.t = "run"
    <3> DEFINE p == IF e.arg = "ready" THEN {} ELSE d.pending
    <3>1. Applied(c, e) = [d EXCEPT !.pending = p, !.run = e.arg, !.own = FALSE]
      BY <2>1, <2>2, <2>7 DEF Pages
    <3>2. Applied(Prompted(c), e) = [Prompted(d) EXCEPT !.pending = p, !.run = e.arg, !.own = FALSE]
      BY <2>1, <2>3, <2>7, <2>10 DEF Pages, Prompted
    <3> HIDE DEF p
    <3> QED BY <2>8, <3>1, <3>2
  <2> QED BY <1>0, <1>4, <2>4, <2>5, <2>6, <2>7, EventFields
<1> QED BY <1>1, <1>2, <1>3, <1>4

\* Nor does a replay.
LEMMA PromptedReplayed ==
    ASSUME NEW c \in Pages, NEW events \in Seq(Replayable)
    PROVE  Replayed(Prompted(c), events) \in {Replayed(c, events), Prompted(Replayed(c, events))}
<1>1. Len(events) \in Nat
  OBVIOUS
<1>2. PICK f : ReplayedUpTo(c, events, Len(events), f) /\ Replayed(c, events) = f[Len(events)]
  BY <1>1, ReplayedIsDefined
<1>3. PICK g : /\ ReplayedUpTo(Prompted(c), events, Len(events), g)
               /\ Replayed(Prompted(c), events) = g[Len(events)]
  BY <1>1, ReplayedIsDefined
<1>4. \A n \in 0..Len(events) :
        /\ f[n] = IF n = 0 THEN c ELSE ReplayOne(f[n - 1], events[n])
        /\ g[n] = IF n = 0 THEN Prompted(c) ELSE ReplayOne(g[n - 1], events[n])
  BY <1>2, <1>3 DEF ReplayedUpTo
<1> DEFINE Good(n) == f[n] \in Pages /\ g[n] \in {f[n], Prompted(f[n])}
           T == {m \in 0..Len(events) : ~Good(m)}
<1>5. SUFFICES ASSUME T # {} PROVE FALSE
  BY <1>1, <1>2, <1>3
<1>6. PICK m \in T : \A k \in T : m <= k
  <2>1. T \subseteq Nat
    OBVIOUS
  <2> HIDE DEF T
  <2> QED BY <1>5, <2>1, LeastNumber
<1> HIDE DEF Good
<1>7. m \in 0..Len(events) /\ ~Good(m) /\ \A k \in 0..Len(events) : k < m => Good(k)
  BY <1>6
<1> HIDE DEF T
<1>8. m # 0
  <2>1. f[0] = c /\ g[0] = Prompted(c)
    BY <1>1, <1>4
  <2> QED BY <1>7, <2>1 DEF Good
<1>9. /\ m \in 1..Len(events) /\ Good(m - 1)
      /\ f[m] = ReplayOne(f[m - 1], events[m]) /\ g[m] = ReplayOne(g[m - 1], events[m])
  BY <1>1, <1>4, <1>7, <1>8
<1> DEFINE p == f[m - 1]
           q == g[m - 1]
           e == events[m]
<1> HIDE DEF p, q, e
<1>10. p \in Pages /\ q \in {p, Prompted(p)} /\ f[m] = ReplayOne(p, e) /\ g[m] = ReplayOne(q, e)
  BY <1>9 DEF p, q, e, Good
<1>11. e \in Replayable /\ e.seq \in Nat
  <2>1. e \in Replayable
    BY <1>9 DEF e
  <2> QED BY <2>1, EventFields DEF Replayable
<1>12. CASE e.seq <= p.seq
  <2>1. f[m] = p /\ g[m] = q
    BY <1>10, <1>12, PromptedFields DEF ReplayOne
  <2> QED BY <1>7, <1>10, <2>1 DEF Good
<1>13. CASE ~(e.seq <= p.seq)
  <2> DEFINE d == [p EXCEPT !.seq = e.seq]
  <2>1. d \in Pages
    BY <1>10, <1>11 DEF Pages
  <2>2. [Prompted(p) EXCEPT !.seq = e.seq] = Prompted(d)
    BY <1>10 DEF Prompted, Pages
  <2>3. f[m] = Applied(d, e) /\ g[m] \in {Applied(d, e), Applied(Prompted(d), e)}
    BY <1>10, <1>13, <2>2, PromptedFields DEF ReplayOne
  <2> HIDE DEF d
  <2>4. Applied(d, e) \in Pages
    BY <1>11, <2>1, AppliedFacts
  <2> QED BY <1>7, <1>11, <2>1, <2>3, <2>4, PromptedApplied DEF Good
<1> QED BY <1>12, <1>13

\* Nor does any frame.
LEMMA PromptedHandled ==
    ASSUME NEW c \in Pages, NEW f \in PageFrames
    PROVE  Handled(Prompted(c), f) \in {Handled(c, f), Prompted(Handled(c, f))}
<1>0. f.seq \in Nat /\ c.seq \in Nat /\ Prompted(c) \in Pages /\ Prompted(c).seq = c.seq
  BY NumberFacts, PageFields, PromptedFields
<1>1. CASE f.seq # 0 /\ f.seq <= c.seq
  BY <1>0, <1>1 DEF Handled
<1>2. CASE f.seq = 0 \/ f.seq > c.seq
  <2> DEFINE d == Passed(c, f)
  <2>1. d \in Pages
    BY PassedFacts
  <2>2. Passed(Prompted(c), f) = Prompted(d)
    BY <1>0 DEF Passed, Prompted, Pages
  <2>3. /\ f.t = "init" => /\ Handled(c, f) = Initialised(d, f)
                           /\ Handled(Prompted(c), f) = Initialised(Prompted(d), f)
        /\ f.t = "snap" => /\ Handled(c, f) = Snapshotted(d, f)
                           /\ Handled(Prompted(c), f) = Snapshotted(Prompted(d), f)
        /\ f.t = "hist" => /\ Handled(c, f) = Rewritten(d, f)
                           /\ Handled(Prompted(c), f) = Rewritten(Prompted(d), f)
        /\ f.t = "replay" => /\ Handled(c, f) = Replayed(d, f.arg)
                             /\ Handled(Prompted(c), f) = Replayed(Prompted(d), f.arg)
        /\ f.t \notin {"init", "snap", "hist", "replay"} =>
              /\ Handled(c, f) = Applied(d, f)
              /\ Handled(Prompted(c), f) = Applied(Prompted(d), f)
    BY <1>0, <1>2, <2>2, HandledKinds
  <2> HIDE DEF d
  <2>4. CASE f.t = "init"
    <3>1. Initialised(Prompted(d), f) = Initialised(d, f)
      BY <2>1 DEF Initialised, Prompted, Pages
    <3> QED BY <2>3, <2>4, <3>1
  <2>5. CASE f.t = "snap"
    <3>1. Snapshotted(Prompted(d), f) = Prompted(Snapshotted(d, f))
      BY <2>1 DEF Snapshotted, Prompted, Pages
    <3> QED BY <2>3, <2>5, <3>1
  <2>6. CASE f.t = "hist"
    <3>1. Rewritten(Prompted(d), f) = Prompted(Rewritten(d, f))
      BY <2>1 DEF Rewritten, Prompted, Pages
    <3> QED BY <2>3, <2>6, <3>1
  <2>7. CASE f.t = "replay"
    <3>1. f \in Replays
      BY <2>7, EventFields DEF PageFrames, Snapshots, Histories
    <3>2. f.arg \in Seq(Replayable)
      BY <3>1 DEF Replays
    <3> QED BY <2>1, <2>3, <2>7, <3>2, PromptedReplayed
  <2>8. CASE f.t \notin {"init", "snap", "hist", "replay"}
    <3>1. f \in Replayable
      BY <2>8 DEF PageFrames, Snapshots, Histories, Replays, Replayable
    <3> QED BY <2>1, <2>3, <2>8, <3>1, PromptedApplied
  <2> QED BY <2>4, <2>5, <2>6, <2>7, <2>8
<1> QED BY <1>0, <1>1, <1>2

\* A prompt is sent while frames are in flight: the page ends where it would have, or
\* there with the run state the prompt set.
LEMMA PromptedEnds ==
    ASSUME NEW c \in Pages, NEW d \in Seq(PageFrames), NEW e \in Pages, Ends(c, d, e)
    PROVE  \E z \in {e, Prompted(e)} : Ends(Prompted(c), d, z)
<1>1. PICK s \in [0..Len(d) -> Pages] :
        /\ s[0] = c /\ s[Len(d)] = e
        /\ \A i \in 1..Len(d) : s[i] = Handled(s[i - 1], d[i])
  BY DEF Ends
<1>2. Len(d) \in Nat /\ \A i \in 1..Len(d) : d[i] \in PageFrames
  OBVIOUS
<1> DEFINE Reset(k) == Handled(Prompted(s[k - 1]), d[k]) = s[k]
           z == [i \in 0..Len(d) |-> IF \E k \in 1..i : Reset(k) THEN s[i] ELSE Prompted(s[i])]
<1>3. z \in [0..Len(d) -> Pages]
  BY <1>1, PromptedFields
<1>4. z[0] = Prompted(c)
  <2>1. \A k : k \notin 1..0
    OBVIOUS
  <2> QED BY <1>1, <1>2, <2>1
<1>5. z[Len(d)] \in {e, Prompted(e)}
  BY <1>1, <1>2
<1>6. ASSUME NEW i \in 1..Len(d) PROVE z[i] = Handled(z[i - 1], d[i])
  <2>1. i \in 0..Len(d) /\ i - 1 \in 0..Len(d) /\ (\A k \in 1..i : k \in 1..(i - 1) \/ k = i)
        /\ \A k \in 1..(i - 1) : k \in 1..i
    BY <1>2
  <2>2. s[i] = Handled(s[i - 1], d[i]) /\ s[i - 1] \in Pages /\ d[i] \in PageFrames /\ i \in 1..i
    BY <1>1, <1>2, <2>1
  <2>3. /\ z[i] = IF \E k \in 1..i : Reset(k) THEN s[i] ELSE Prompted(s[i])
        /\ z[i - 1] = IF \E k \in 1..(i - 1) : Reset(k) THEN s[i - 1] ELSE Prompted(s[i - 1])
    BY <2>1
  <2>4. Handled(Prompted(s[i - 1]), d[i]) \in {s[i], Prompted(s[i])}
    BY <2>2, PromptedHandled
  <2>5. Reset(i) <=> Handled(Prompted(s[i - 1]), d[i]) = s[i]
    OBVIOUS
  <2> HIDE DEF z, Reset
  <2>6. CASE \E k \in 1..(i - 1) : Reset(k)
    BY <2>1, <2>2, <2>3, <2>6
  <2>7. CASE ~(\E k \in 1..(i - 1) : Reset(k)) /\ Reset(i)
    BY <2>2, <2>3, <2>5, <2>7
  <2>8. CASE ~(\E k \in 1..(i - 1) : Reset(k)) /\ ~Reset(i)
    BY <2>1, <2>3, <2>4, <2>5, <2>8
  <2> QED BY <2>6, <2>7, <2>8
<1> HIDE DEF z
<1>7. Ends(Prompted(c), d, z[Len(d)])
  BY <1>3, <1>4, <1>6 DEF Ends
<1> QED BY <1>5, <1>7

\* Starting and LiveNotDropped of any frames d and any page c.
StartsIn(d) == \E i \in 1..Len(d) : d[i].t = "init" /\ d[i].seq = 0

LiveIn(d, c) ==
    \A k \in 1..Len(d) :
      d[k].seq # 0 =>
        /\ ~StartsIn(d) => d[k].seq > c.seq
        /\ \A i \in 1..(k - 1) : Number(d[i]) < d[k].seq

\* Nothing in flight, nor the cursor of the page, has reached the next number n.
Below(d, c, n) ==
    /\ \A k \in 1..Len(d) : Number(d[k]) < n
    /\ ~StartsIn(d) => c.seq < n

\* A frame sent behind the others is past them if it has a number.
LEMMA PushFrame ==
    ASSUME NEW c \in Pages, NEW d \in Seq(PageFrames), NEW n \in Nat, NEW n2 \in Nat, n <= n2,
           LiveIn(d, c), Below(d, c, n),
           NEW f \in PageFrames, Number(f) < n2, f.seq # 0 => n <= f.seq,
           f.t = "init" => f.seq # 0
    PROVE  d \o <<f>> \in Seq(PageFrames) /\ LiveIn(d \o <<f>>, c) /\ Below(d \o <<f>>, c, n2)
<1> DEFINE b == d \o <<f>>
           m == Len(d)
<1>1. /\ m \in Nat /\ Len(b) = m + 1 /\ b[m + 1] = f /\ \A i \in 1..m : b[i] = d[i]
      /\ b \in Seq(PageFrames)
  OBVIOUS
<1>2. c.seq \in Nat /\ f.seq \in Nat /\ Number(f) \in Nat
  BY PageFields, NumberFacts
<1>3. \A i \in 1..m : d[i] \in PageFrames /\ Number(d[i]) \in Nat /\ d[i].seq \in Nat
  BY NumberFacts
<1> HIDE DEF b
<1>4. StartsIn(b) <=> StartsIn(d)
  <2>1. ASSUME StartsIn(b) PROVE StartsIn(d)
    <3>1. PICK i \in 1..(m + 1) : b[i].t = "init" /\ b[i].seq = 0
      BY <1>1, <2>1 DEF StartsIn
    <3>2. i # m + 1
      BY <1>1, <3>1
    <3>3. i \in 1..m
      BY <1>1, <3>1, <3>2
    <3> QED BY <1>1, <3>1, <3>3 DEF StartsIn
  <2>2. ASSUME StartsIn(d) PROVE StartsIn(b)
    <3>1. PICK i \in 1..m : d[i].t = "init" /\ d[i].seq = 0
      BY <2>2 DEF StartsIn
    <3>2. i \in 1..(m + 1) /\ b[i] = d[i]
      BY <1>1
    <3> QED BY <1>1, <3>1, <3>2 DEF StartsIn
  <2> QED BY <2>1, <2>2
<1>5. Below(b, c, n2)
  <2>1. \A k \in 1..(m + 1) : Number(b[k]) < n2
    <3> SUFFICES ASSUME NEW k \in 1..(m + 1) PROVE Number(b[k]) < n2
      OBVIOUS
    <3>1. CASE k = m + 1
      BY <1>1, <3>1
    <3>2. CASE k # m + 1
      <4>1. k \in 1..m /\ b[k] = d[k]
        BY <1>1, <3>2
      <4>2. Number(d[k]) < n /\ Number(d[k]) \in Nat
        BY <1>3, <4>1 DEF Below
      <4> QED BY <4>1, <4>2
    <3> QED BY <3>1, <3>2
  <2>2. ~StartsIn(b) => c.seq < n2
    BY <1>2, <1>4 DEF Below
  <2> QED BY <1>1, <2>1, <2>2 DEF Below
<1>6. LiveIn(b, c)
  <2> SUFFICES ASSUME NEW k \in 1..(m + 1), b[k].seq # 0
               PROVE  /\ ~StartsIn(b) => b[k].seq > c.seq
                      /\ \A i \in 1..(k - 1) : Number(b[i]) < b[k].seq
    BY <1>1 DEF LiveIn
  <2>1. CASE k = m + 1
    <3>1. b[k] = f /\ f.seq # 0 /\ n <= f.seq
      BY <1>1, <2>1
    <3>2. ~StartsIn(b) => b[k].seq > c.seq
      BY <1>2, <1>4, <3>1 DEF Below
    <3>3. ASSUME NEW i \in 1..(k - 1) PROVE Number(b[i]) < b[k].seq
      <4>1. i \in 1..m /\ b[i] = d[i]
        BY <1>1, <2>1
      <4>2. Number(d[i]) < n /\ Number(d[i]) \in Nat
        BY <1>3, <4>1 DEF Below
      <4> QED BY <1>2, <3>1, <4>1, <4>2
    <3> QED BY <3>2, <3>3
  <2>2. CASE k # m + 1
    <3>1. k \in 1..m /\ b[k] = d[k]
      BY <1>1, <2>2
    <3>2. /\ ~StartsIn(d) => d[k].seq > c.seq
          /\ \A i \in 1..(k - 1) : Number(d[i]) < d[k].seq
      BY <3>1 DEF LiveIn
    <3>3. ASSUME NEW i \in 1..(k - 1) PROVE Number(b[i]) < b[k].seq
      <4>1. b[i] = d[i]
        BY <1>1, <3>1
      <4> QED BY <3>1, <3>2, <4>1
    <3> QED BY <1>4, <3>1, <3>2, <3>3
  <2> QED BY <2>1, <2>2
<1> QED BY <1>1, <1>5, <1>6 DEF b

\* The first frame is handled: it moves the cursor no further than what is behind it.
LEMMA TailFrames ==
    ASSUME NEW c \in Pages, NEW d \in Seq(PageFrames), d # <<>>, LiveIn(d, c)
    PROVE  /\ Tail(d) \in Seq(PageFrames) /\ LiveIn(Tail(d), Handled(c, Head(d)))
           /\ \A n \in Nat \ {0} : Below(d, c, n) => Below(Tail(d), Handled(c, Head(d)), n)
<1> DEFINE m == Len(d) - 1
           b == Tail(d)
           f == Head(d)
           p == Handled(c, f)
<1>1. /\ Len(d) \in Nat /\ m \in Nat /\ Len(b) = m /\ f = d[1] /\ 1 \in 1..Len(d)
      /\ f \in PageFrames /\ b \in Seq(PageFrames)
      /\ \A i \in 1..m : b[i] = d[i + 1] /\ i + 1 \in 1..Len(d)
  OBVIOUS
<1>2. /\ p \in Pages /\ (p.seq <= c.seq \/ p.seq <= Number(f))
      /\ f.t = "init" /\ f.seq = 0 => p.seq = 0
  BY <1>1, HandledFacts
<1>3. c.seq \in Nat /\ p.seq \in Nat /\ Number(f) \in Nat
  BY <1>1, <1>2, HandledFacts, PageFields, NumberFacts
<1>4. \A i \in 1..Len(d) : Number(d[i]) \in Nat /\ d[i].seq \in Nat
  BY NumberFacts
<1> HIDE DEF m, b, f, p
\* Either the first frame started the connection or none in flight does.
<1>5. ~StartsIn(b) => p.seq = 0 \/ ~StartsIn(d)
  <2> SUFFICES ASSUME ~StartsIn(b), StartsIn(d) PROVE p.seq = 0
    OBVIOUS
  <2>1. PICK i \in 1..Len(d) : d[i].t = "init" /\ d[i].seq = 0
    BY DEF StartsIn
  <2>2. i = 1
    <3> SUFFICES ASSUME i # 1 PROVE FALSE
      OBVIOUS
    <3>1. i - 1 \in 1..m
      BY <1>1 DEF m
    <3>2. b[i - 1] = d[i]
      BY <1>1, <3>1
    <3> QED BY <1>1, <2>1, <3>1, <3>2 DEF StartsIn
  <2> QED BY <1>1, <1>2, <2>1, <2>2
<1>6. LiveIn(b, p)
  <2> SUFFICES ASSUME NEW k \in 1..m, b[k].seq # 0
               PROVE  /\ ~StartsIn(b) => b[k].seq > p.seq
                      /\ \A i \in 1..(k - 1) : Number(b[i]) < b[k].seq
    BY <1>1 DEF LiveIn
  <2>1. b[k] = d[k + 1] /\ k + 1 \in 1..Len(d)
    BY <1>1
  <2>2. /\ ~StartsIn(d) => d[k + 1].seq > c.seq
        /\ \A i \in 1..k : Number(d[i]) < d[k + 1].seq
    <3>1. /\ ~StartsIn(d) => d[k + 1].seq > c.seq
          /\ \A i \in 1..((k + 1) - 1) : Number(d[i]) < d[k + 1].seq
      BY <2>1 DEF LiveIn
    <3>2. (k + 1) - 1 = k
      OBVIOUS
    <3> QED BY <3>1, <3>2
  <2>3. ~StartsIn(b) => b[k].seq > p.seq
    <3>1. 1 \in 1..k
      OBVIOUS
    <3>2. Number(f) < d[k + 1].seq
      BY <1>1, <2>2, <3>1
    <3>3. d[k + 1].seq \in Nat /\ d[k + 1].seq # 0
      BY <1>4, <2>1
    <3> QED BY <1>2, <1>3, <1>5, <2>1, <2>2, <3>2, <3>3
  <2>4. ASSUME NEW i \in 1..(k - 1) PROVE Number(b[i]) < b[k].seq
    <3>1. i \in 1..m /\ i + 1 \in 1..k
      BY <1>1
    <3>2. b[i] = d[i + 1]
      BY <1>1, <3>1
    <3> QED BY <2>1, <2>2, <3>1, <3>2
  <2> QED BY <2>3, <2>4
<1>7. ASSUME NEW n \in Nat \ {0}, Below(d, c, n) PROVE Below(b, p, n)
  <2>1. \A k \in 1..m : Number(b[k]) < n
    BY <1>1, <1>7 DEF Below
  <2>2. ~StartsIn(b) => p.seq < n
    <3>1. Number(f) < n /\ (~StartsIn(d) => c.seq < n)
      BY <1>1, <1>7 DEF Below
    <3> QED BY <1>2, <1>3, <1>5, <3>1
  <2> QED BY <1>1, <2>1, <2>2 DEF Below
<1> QED BY <1>1, <1>6, <1>7 DEF b, f, p

\* The page c, once it has handled the frames d, shows I, r and g.
Follows(d, c, I, r, g, n) ==
    /\ d \in Seq(PageFrames) /\ LiveIn(d, c) /\ Below(d, c, n)
    /\ \E e : Ends(c, d, e) /\ Shows(e, I, r, g, n)

\* The page c, once it has handled the frames d, is not beyond the session.
Lags(d, c, g, n) ==
    /\ d \in Seq(PageFrames) /\ LiveIn(d, c) /\ Below(d, c, n)
    /\ \E e : Ends(c, d, e) /\ NotBeyond(e, g, n)

\* A page that follows lags at most.
LEMMA FollowsLags ==
    ASSUME NEW c, NEW d, NEW I, NEW r, NEW g \in Nat, NEW n, Follows(d, c, I, r, g, n)
    PROVE  Lags(d, c, g, n)
<1>1. g <= g
  OBVIOUS
<1> QED BY <1>1 DEF Follows, Lags, Shows, NotBeyond

\* An event is published with the next number.
LEMMA SendPublished ==
    ASSUME NEW c \in Pages, NEW d, NEW I, NEW r, NEW g \in Nat, NEW n \in Nat \ {0},
           Follows(d, c, I, r, g, n), NEW f \in Replayable, f.seq = n, f.gen = g, Timely(f, r)
    PROVE  Follows(d \o <<f>>, c, Asked(I, f), Ran(r, f), g, n + 1)
<1>1. f \in PageFrames /\ f.t # "replay" /\ f.t # "init"
  BY EventFields DEF Replayable, PageFrames
<1>2. PICK e : Ends(c, d, e) /\ Shows(e, I, r, g, n)
  BY DEF Follows
<1>3. d \in Seq(PageFrames) /\ LiveIn(d, c) /\ Below(d, c, n) /\ e \in Pages
  BY <1>2 DEF Follows, Shows
<1>4. n \in Nat /\ n + 1 \in Nat /\ n <= n + 1 /\ n < n + 1 /\ n <= n
  OBVIOUS
<1>5. Number(f) < n + 1 /\ n <= f.seq
  BY <1>1, <1>4 DEF Number
<1>6. d \o <<f>> \in Seq(PageFrames) /\ LiveIn(d \o <<f>>, c) /\ Below(d \o <<f>>, c, n + 1)
  BY <1>1, <1>3, <1>4, <1>5, PushFrame
<1>7. Ends(c, d \o <<f>>, Handled(e, f))
  BY <1>1, <1>2, <1>3, EndsPush
<1>8. Shows(Handled(e, f), Asked(I, f), Ran(r, f), g, n + 1)
  BY <1>2, HandledPublished
<1> QED BY <1>6, <1>7, <1>8 DEF Follows

\* A frame without a number is sent to this page.
LEMMA PushUnnumbered ==
    ASSUME NEW c \in Pages, NEW d \in Seq(PageFrames), NEW n \in Nat,
           LiveIn(d, c), Below(d, c, n),
           NEW f \in PageFrames, f.seq = 0, Number(f) < n, f.t # "init"
    PROVE  d \o <<f>> \in Seq(PageFrames) /\ LiveIn(d \o <<f>>, c) /\ Below(d \o <<f>>, c, n)
<1>1. n <= n
  OBVIOUS
<1> QED BY <1>1, PushFrame

\* A snapshot of the interactions is sent to a page of this generation.
LEMMA SendSnapshot ==
    ASSUME NEW c \in Pages, NEW d, NEW I, NEW r, NEW g \in Nat, NEW n \in Nat \ {0},
           Follows(d, c, I, r, g, n), NEW asks \in SUBSET Asks
    PROVE  Follows(d \o <<AskSnapshot(asks, g)>>, c, asks, r, g, n)
<1> DEFINE f == AskSnapshot(asks, g)
<1>1. PICK e : Ends(c, d, e) /\ Shows(e, I, r, g, n)
  BY DEF Follows
<1>2. /\ d \in Seq(PageFrames) /\ LiveIn(d, c) /\ Below(d, c, n)
      /\ e \in Pages /\ Right(e, r) /\ e.gen = g /\ e.seq < n
  BY <1>1 DEF Follows, Shows
<1>3. f \in PageFrames /\ Shows(Handled(e, f), asks, r, g, n)
  BY <1>2, HandledSnapshot
<1>4. f.seq = 0 /\ f.t # "init" /\ Number(f) = 0
  BY DEF AskSnapshot, Number
<1> HIDE DEF f
<1>5. d \o <<f>> \in Seq(PageFrames) /\ LiveIn(d \o <<f>>, c) /\ Below(d \o <<f>>, c, n)
  BY <1>2, <1>3, <1>4, PushUnnumbered
<1>6. Ends(c, d \o <<f>>, Handled(e, f))
  BY <1>1, <1>2, <1>3, EndsPush
<1>7. Follows(d \o <<f>>, c, asks, r, g, n)
  BY <1>3, <1>5, <1>6 DEF Follows
<1> QED BY <1>7 DEF f

\* The run state is sent to a page that lags.
LEMMA SendRun ==
    ASSUME NEW c \in Pages, NEW d, NEW s \in RunStates, NEW g \in Nat, NEW n \in Nat \ {0}, Lags(d, c, g, n)
    PROVE  \E I : Follows(d \o <<Event("run", s, g)>>, c, I, s, g, n)
<1> DEFINE f == Event("run", s, g)
<1>1. PICK e : Ends(c, d, e) /\ NotBeyond(e, g, n)
  BY DEF Lags
<1>2. /\ d \in Seq(PageFrames) /\ LiveIn(d, c) /\ Below(d, c, n)
      /\ e \in Pages /\ e.gen <= g /\ e.seq < n
  BY <1>1 DEF Lags, NotBeyond
<1> DEFINE I == IF s = "ready" THEN {} ELSE e.pending
<1>3. f \in PageFrames /\ Shows(Handled(e, f), I, s, g, n)
  BY <1>2, HandledRun
<1>4. f.seq = 0 /\ f.t # "init" /\ Number(f) = 0
  BY DEF Event, Number
<1> HIDE DEF f, I
<1>5. d \o <<f>> \in Seq(PageFrames) /\ LiveIn(d \o <<f>>, c) /\ Below(d \o <<f>>, c, n)
  BY <1>2, <1>3, <1>4, PushUnnumbered
<1>6. Ends(c, d \o <<f>>, Handled(e, f))
  BY <1>1, <1>2, <1>3, EndsPush
<1>7. Follows(d \o <<f>>, c, I, s, g, n)
  BY <1>3, <1>5, <1>6 DEF Follows
<1> QED BY <1>7 DEF f

\* session_init of the next generation is published.
LEMMA SendInit ==
    ASSUME NEW c \in Pages, NEW d, NEW s \in RunStates, NEW I, NEW r, NEW g \in Nat,
           NEW n \in Nat \ {0}, Follows(d, c, I, r, g, n), NEW h \in Nat,
           NEW f, f = [Event("init", s, h) EXCEPT !.seq = n]
    PROVE  \E J : Follows(d \o <<f>>, c, J, s, h, n + 1)
<1>1. PICK e : Ends(c, d, e) /\ Shows(e, I, r, g, n)
  BY DEF Follows
<1>2. d \in Seq(PageFrames) /\ LiveIn(d, c) /\ Below(d, c, n) /\ e \in Pages /\ e.seq < n
  BY <1>1 DEF Follows, Shows
<1> DEFINE J == Handled(e, f).pending
<1>3. /\ f \in Events /\ f \in PageFrames
      /\ Handled(e, f) \in Pages /\ Handled(e, f).run = s /\ Handled(e, f).gen = h
      /\ Handled(e, f).seq = n
  BY <1>2, HandledInit DEF PageFrames
<1>4. n \in Nat /\ n + 1 \in Nat /\ n <= n + 1 /\ n < n + 1 /\ n <= n
  OBVIOUS
<1>5. f.seq = n /\ f.t = "init" /\ Number(f) = n
  BY DEF Event, Number
<1>6. Shows(Handled(e, f), J, s, h, n + 1)
  BY <1>3, <1>4 DEF Shows, Right
<1>7. d \o <<f>> \in Seq(PageFrames) /\ LiveIn(d \o <<f>>, c) /\ Below(d \o <<f>>, c, n + 1)
  BY <1>2, <1>3, <1>4, <1>5, PushFrame
<1>8. Ends(c, d \o <<f>>, Handled(e, f))
  BY <1>1, <1>2, <1>3, EndsPush
<1> HIDE DEF J
<1> QED BY <1>6, <1>7, <1>8 DEF Follows

\* A history, or the error in place of one, is sent to a page that lags.
LEMMA SendFirst ==
    ASSUME NEW c \in Pages, NEW d, NEW g \in Nat, NEW n \in Nat \ {0}, Lags(d, c, g, n),
           NEW f, f \in Histories \/ f = Event("err", "history", g)
    PROVE  Lags(d \o <<f>>, c, g, n)
<1>1. PICK e : Ends(c, d, e) /\ NotBeyond(e, g, n)
  BY DEF Lags
<1>2. d \in Seq(PageFrames) /\ LiveIn(d, c) /\ Below(d, c, n) /\ e \in Pages
  BY <1>1 DEF Lags, NotBeyond
<1>3. f \in PageFrames /\ f.seq = 0 /\ Number(f) = 0 /\ f.t # "init" /\ NotBeyond(Handled(e, f), g, n)
  BY <1>1, HandledHistory
<1>4. d \o <<f>> \in Seq(PageFrames) /\ LiveIn(d \o <<f>>, c) /\ Below(d \o <<f>>, c, n)
  BY <1>2, <1>3, PushUnnumbered
<1>5. Ends(c, d \o <<f>>, Handled(e, f))
  BY <1>1, <1>2, <1>3, EndsPush
<1> QED BY <1>3, <1>4, <1>5 DEF Lags

-----------------------------------------------------------------------------
(* The buffer *)

\* The events of the buffer come in the order of their numbers, and neither these nor
\* the generations are beyond the session's.
BufferOK(b, n, g) ==
    /\ b \in Seq(Replayable)
    /\ \A i \in 1..Len(b) : b[i].seq < n /\ b[i].gen <= g
    /\ \A i, j \in 1..Len(b) : i < j => b[i].seq < b[j].seq

\* What is selected from a buffer is one.
LEMMA MissedOK ==
    ASSUME NEW n, NEW g, BufferOK(buffer, n, g), NEW from, NEW h
    PROVE  BufferOK(Missed(from, h), n, g)
<1> DEFINE I == {i \in DOMAIN buffer :
                   buffer[i].seq > from /\ ~(h /\ HistoryBacked(buffer[i]))}
           r == Selected(buffer, I)
<1>1. buffer \in Seq(Replayable) /\ Missed(from, h) = r
  BY DEF BufferOK, Missed
<1> HIDE DEF I
<1>2. r \in Seq(Replayable) /\ InOrder(r, buffer, I, Len(buffer))
  BY <1>1, SelectedFacts
<1>3. PICK z \in [1..Len(r) -> I \cap (1..Len(buffer))] :
        /\ \A i, j \in 1..Len(r) : i < j => z[i] < z[j]
        /\ \A i \in 1..Len(r) : r[i] = buffer[z[i]]
  BY <1>2 DEF InOrder
<1> HIDE DEF r
<1>4. \A i \in 1..Len(r) : z[i] \in 1..Len(buffer)
  BY <1>3
<1>5. BufferOK(r, n, g)
  BY <1>2, <1>3, <1>4 DEF BufferOK
<1> QED BY <1>1, <1>5

\* A replay of some of the buffer leaves the page where it lags at most.
LEMMA SendReplay ==
    ASSUME NEW c \in Pages, NEW d, NEW g \in Nat, NEW n \in Nat \ {0}, Lags(d, c, g, n),
           NEW b, BufferOK(b, n, g), b # <<>>
    PROVE  Lags(d \o <<Replay(b)>>, c, g, n)
<1> DEFINE f == Replay(b)
<1>1. PICK e : Ends(c, d, e) /\ NotBeyond(e, g, n)
  BY DEF Lags
<1>2. d \in Seq(PageFrames) /\ LiveIn(d, c) /\ Below(d, c, n) /\ e \in Pages
  BY <1>1 DEF Lags, NotBeyond
<1>3. b \in Seq(Replayable) /\ Len(b) \in Nat /\ Len(b) \in 1..Len(b) /\ DOMAIN b = 1..Len(b)
  BY DEF BufferOK
<1>4. \A i \in 1..Len(b) : b[i].seq \in Nat
  BY <1>3, EventFields DEF Replayable
<1>5. \A i \in 1..Len(b) : b[i].seq <= Last(b).seq
  <2> SUFFICES ASSUME NEW i \in 1..Len(b) PROVE b[i].seq <= b[Len(b)].seq
    BY DEF Last
  <2>1. CASE i = Len(b)
    BY <1>4, <2>1
  <2>2. CASE i # Len(b)
    <3>0. \A k \in Nat : \A j \in 1..k : j # k => j < k
      OBVIOUS
    <3>1. i < Len(b)
      BY <1>3, <2>2, <3>0
    <3>2. b[i].seq < b[Len(b)].seq
      BY <1>3, <3>1 DEF BufferOK
    <3> QED BY <1>3, <1>4, <3>2
  <2> QED BY <2>1, <2>2
<1>6. f.t = "replay" /\ f.arg = b /\ f.seq = 0 /\ f \in [t : {"replay"}, arg : Seq(Replayable), seq : {0}]
  BY <1>3 DEF Replay
<1>7. f \in Replays /\ f \in PageFrames
  BY <1>3, <1>5, <1>6 DEF Replays, PageFrames
<1>8. Number(f) < n
  BY <1>3, <1>6 DEF Number, Last, BufferOK
<1>9. NotBeyond(Handled(e, f), g, n)
  BY <1>1, <1>3, <1>7, HandledReplay DEF BufferOK
<1> HIDE DEF f
<1>10. d \o <<f>> \in Seq(PageFrames) /\ LiveIn(d \o <<f>>, c) /\ Below(d \o <<f>>, c, n)
  BY <1>2, <1>6, <1>7, <1>8, PushUnnumbered
<1>11. Ends(c, d \o <<f>>, Handled(e, f))
  BY <1>1, <1>2, <1>7, EndsPush
<1>12. Lags(d \o <<f>>, c, g, n)
  BY <1>9, <1>10, <1>11 DEF Lags
<1> QED BY <1>12 DEF f

\* A pair of frames.
LEMMA PairOfFrames ==
    ASSUME NEW S, NEW x \in S, NEW y \in S
    PROVE  <<x, y>> = <<x>> \o <<y>>
<1> DEFINE a == <<x>>
           b == <<y>>
           z == <<x, y>>
<1>1. a \in Seq(S) /\ Len(a) = 1 /\ a[1] = x /\ b \in Seq(S) /\ Len(b) = 1 /\ b[1] = y
  OBVIOUS
<1>2. z \in Seq(S) /\ Len(z) = 2 /\ z[1] = x /\ z[2] = y
  OBVIOUS
<1> HIDE DEF a, b, z
<1>3. a \o b \in Seq(S) /\ Len(a \o b) = 2 /\ (a \o b)[1] = x /\ (a \o b)[2] = y
  <2>1. /\ a \o b \in Seq(S) /\ Len(a \o b) = 1 + 1
        /\ \A i \in 1..(1 + 1) : (a \o b)[i] = IF i <= 1 THEN a[i] ELSE b[i - 1]
    BY <1>1, ConcatProperties
  <2>2. 1 \in 1..(1 + 1) /\ 2 \in 1..(1 + 1) /\ 1 + 1 = 2 /\ 2 - 1 = 1 /\ 1 <= 1 /\ ~(2 <= 1)
    OBVIOUS
  <2> QED BY <1>1, <2>1, <2>2
<1>4. \A i \in 1..2 : i = 1 \/ i = 2
  OBVIOUS
<1>5. z = a \o b
  BY <1>2, <1>3, <1>4, SeqEqual
<1> QED BY <1>5 DEF a, b, z

\* Two frames are one and then the other.
LEMMA TwoFrames ==
    ASSUME NEW S, NEW d \in Seq(S), NEW x \in S, NEW y \in S
    PROVE  d \o <<x, y>> = (d \o <<x>>) \o <<y>>
<1>1. <<x>> \in Seq(S) /\ <<y>> \in Seq(S)
  OBVIOUS
<1>2. <<x, y>> = <<x>> \o <<y>>
  BY PairOfFrames
<1> QED BY <1>1, <1>2, ConcatAssociative

\* Any subscription ends with the run state and the interactions of the session: the
\* page that lagged follows again.
LEMMA SendClosing ==
    ASSUME NEW c \in Pages, NEW d, gen \in Nat, nextSeq \in Nat \ {0}, run \in RunStates,
           interactions \subseteq Asks, Lags(d, c, gen, nextSeq),
           NEW b, BufferOK(b, nextSeq, gen)
    PROVE  Follows(d \o Closing(b), c, interactions, run, gen, nextSeq)
<1> DEFINE R == RunFrame
           A == AskSnapshot(interactions, gen)
<1>1. R = Event("run", run, gen)
  BY DEF RunFrame
<1>2. ASSUME NEW d2, Lags(d2, c, gen, nextSeq)
      PROVE  Follows(d2 \o <<R, A>>, c, interactions, run, gen, nextSeq)
  <2>1. PICK I : Follows(d2 \o <<R>>, c, I, run, gen, nextSeq)
    BY <1>1, <1>2, SendRun
  <2>2. Follows((d2 \o <<R>>) \o <<A>>, c, interactions, run, gen, nextSeq)
    BY <2>1, SendSnapshot
  <2>3. d2 \in Seq(PageFrames)
    BY <1>2 DEF Lags
  <2>4. R \in PageFrames /\ A \in PageFrames
    BY <1>1 DEF Event, Events, AskSnapshot, Snapshots, PageFrames
  <2> HIDE DEF R, A
  <2>5. d2 \o <<R, A>> = (d2 \o <<R>>) \o <<A>>
    BY <2>3, <2>4, TwoFrames
  <2> QED BY <2>2, <2>5
<1>3. CASE b = <<>>
  <2>1. Closing(b) = <<R, A>>
    BY <1>3 DEF Closing
  <2> QED BY <1>2, <2>1
<1>4. CASE b # <<>>
  <2>1. Lags(d \o <<Replay(b)>>, c, gen, nextSeq)
    BY <1>4, SendReplay
  <2>2. Closing(b) = <<Replay(b)>> \o <<R, A>>
    BY <1>4 DEF Closing
  <2>3. Follows((d \o <<Replay(b)>>) \o <<R, A>>, c, interactions, run, gen, nextSeq)
    BY <1>2, <2>1
  <2>4. d \in Seq(PageFrames)
    BY DEF Lags
  <2> DEFINE B == Replay(b)
  <2> HIDE DEF R, A, B
  <2>5. (d \o <<B>>) \o <<R, A>> = d \o (<<B>> \o <<R, A>>)
    <3>1. d \in Seq(PageFrames \cup {B, R, A}) /\ <<B>> \in Seq(PageFrames \cup {B, R, A})
          /\ <<R, A>> \in Seq(PageFrames \cup {B, R, A})
      BY <2>4
    <3> QED BY <3>1
  <2> QED BY <2>2, <2>3, <2>5 DEF B
<1> QED BY <1>3, <1>4

\* Published events carry the numbers from nextSeq on.
LEMMA NumberedFacts ==
    ASSUME nextSeq \in Nat, NEW x \in Seq(Events)
    PROVE  /\ Numbered(x) \in Seq(Events) /\ Len(Numbered(x)) = Len(x)
           /\ \A i \in 1..Len(x) : /\ Numbered(x)[i].seq = nextSeq + i - 1
                                   /\ Numbered(x)[i].t = x[i].t /\ Numbered(x)[i].gen = x[i].gen
<1> DEFINE y == [i \in 1..Len(x) |-> [x[i] EXCEPT !.seq = nextSeq + i - 1]]
<1>1. Len(x) \in Nat /\ DOMAIN x = 1..Len(x) /\ Numbered(x) = y
  BY DEF Numbered
<1>2. ASSUME NEW i \in 1..Len(x)
      PROVE  /\ y[i] \in Events /\ y[i].seq = nextSeq + i - 1
             /\ y[i].t = x[i].t /\ y[i].gen = x[i].gen
  <2>1. x[i] \in Events /\ nextSeq + i - 1 \in Nat /\ y[i] = [x[i] EXCEPT !.seq = nextSeq + i - 1]
    OBVIOUS
  <2>2. ASSUME NEW e \in Events, NEW q \in Nat
        PROVE  /\ [e EXCEPT !.seq = q] \in Events /\ [e EXCEPT !.seq = q].seq = q
               /\ [e EXCEPT !.seq = q].t = e.t /\ [e EXCEPT !.seq = q].gen = e.gen
    BY DEF Events
  <2> QED BY <2>1, <2>2
<1>3. y \in Seq(Events) /\ Len(y) = Len(x)
  BY <1>1, <1>2, IsASeq
<1> QED BY <1>1, <1>2, <1>3

\* One event.
LEMMA NumberedOne ==
    ASSUME nextSeq \in Nat, NEW x
    PROVE  Numbered(<<x>>) = <<[x EXCEPT !.seq = nextSeq]>>
<1>1. nextSeq + 1 - 1 = nextSeq
  OBVIOUS
<1> QED BY <1>1 DEF Numbered

\* Two events.
LEMMA NumberedTwo ==
    ASSUME nextSeq \in Nat, NEW x, NEW y
    PROVE  Numbered(<<x, y>>) = <<[x EXCEPT !.seq = nextSeq], [y EXCEPT !.seq = nextSeq + 1]>>
<1>1. nextSeq + 1 - 1 = nextSeq /\ nextSeq + 2 - 1 = nextSeq + 1
  OBVIOUS
<1> QED BY <1>1 DEF Numbered

\* The buffer followed by later events is a buffer.
LEMMA BufferConcat ==
    ASSUME NEW b, NEW n \in Nat, NEW g \in Nat, BufferOK(b, n, g),
           NEW r, NEW m \in Nat, NEW h \in Nat, BufferOK(r, m, h), n <= m, g <= h,
           \A i \in 1..Len(r) : n <= r[i].seq
    PROVE  BufferOK(b \o r, m, h)
<1> DEFINE z == b \o r
<1>1. b \in Seq(Replayable) /\ r \in Seq(Replayable)
  BY DEF BufferOK
<1>2. /\ z \in Seq(Replayable) /\ Len(z) = Len(b) + Len(r) /\ Len(b) \in Nat /\ Len(r) \in Nat
      /\ \A i \in 1..(Len(b) + Len(r)) : z[i] = IF i <= Len(b) THEN b[i] ELSE r[i - Len(b)]
  BY <1>1, ConcatProperties
<1>3. \A e \in Replayable : e.seq \in Nat /\ e.gen \in Nat
  BY EventFields DEF Replayable
<1> HIDE DEF z
<1>4. ASSUME NEW i \in 1..Len(z) PROVE z[i].seq < m /\ z[i].gen <= h
  <2>1. z[i] \in Replayable
    BY <1>2
  <2>2. CASE i <= Len(b)
    <3>1. i \in 1..Len(b) /\ z[i] = b[i]
      BY <1>2, <2>2
    <3>2. b[i].seq < n /\ b[i].gen <= g
      BY <3>1 DEF BufferOK
    <3> QED BY <1>3, <2>1, <3>1, <3>2
  <2>3. CASE ~(i <= Len(b))
    <3>1. i - Len(b) \in 1..Len(r) /\ z[i] = r[i - Len(b)]
      BY <1>2, <2>3
    <3> QED BY <3>1 DEF BufferOK
  <2> QED BY <2>2, <2>3
<1>5. ASSUME NEW i \in 1..Len(z), NEW j \in 1..Len(z), i < j PROVE z[i].seq < z[j].seq
  <2>1. z[i] \in Replayable /\ z[j] \in Replayable
    BY <1>2
  <2>2. CASE j <= Len(b)
    <3>1. i \in 1..Len(b) /\ j \in 1..Len(b) /\ z[i] = b[i] /\ z[j] = b[j]
      BY <1>2, <1>5, <2>2
    <3> QED BY <1>5, <3>1 DEF BufferOK
  <2>3. CASE ~(i <= Len(b))
    <3>1. /\ i - Len(b) \in 1..Len(r) /\ z[i] = r[i - Len(b)]
          /\ j - Len(b) \in 1..Len(r) /\ z[j] = r[j - Len(b)] /\ i - Len(b) < j - Len(b)
      BY <1>2, <1>5, <2>3
    <3> QED BY <3>1 DEF BufferOK
  <2>4. CASE i <= Len(b) /\ ~(j <= Len(b))
    <3>1. i \in 1..Len(b) /\ z[i] = b[i] /\ j - Len(b) \in 1..Len(r) /\ z[j] = r[j - Len(b)]
      BY <1>2, <2>4
    <3>2. b[i].seq < n /\ n <= r[j - Len(b)].seq
      BY <3>1 DEF BufferOK
    <3> QED BY <1>3, <2>1, <3>1, <3>2
  <2>5. j <= Len(b) \/ ~(i <= Len(b)) \/ (i <= Len(b) /\ ~(j <= Len(b)))
    OBVIOUS
  <2> QED BY <2>2, <2>3, <2>4, <2>5
<1>6. BufferOK(z, m, h)
  BY <1>2, <1>4, <1>5 DEF BufferOK
<1> QED BY <1>6 DEF z

\* trim keeps the end of the buffer.
LEMMA BufferTrimmed ==
    ASSUME NEW b, NEW n, NEW g, BufferOK(b, n, g), NEW z,
           z = SubSeq(b, IF Len(b) > BufMax THEN Len(b) - BufMax + 1 ELSE 1, Len(b))
    PROVE  BufferOK(z, n, g) /\ Len(z) <= BufMax
<1> DEFINE k == IF Len(b) > BufMax THEN Len(b) - BufMax + 1 ELSE 1
           m == Len(b) - k + 1
<1>1. b \in Seq(Replayable) /\ Len(b) \in Nat /\ BufMax \in Nat \ {0}
  BY ReplayAssumption DEF BufferOK
<1>2. k \in 1..(Len(b) + 1) /\ m \in Nat /\ m <= BufMax
  BY <1>1
<1> HIDE DEF k
<1>3. z \in Seq(Replayable) /\ Len(z) = m /\ \A i \in 1..m : z[i] = b[k + i - 1]
  <2>1. z = SubSeq(b, k, Len(b))
    BY DEF k
  <2>2. k \in Int /\ Len(b) \in Int /\ k <= Len(b) + 1 /\ \A i \in k..Len(b) : b[i] \in Replayable
    BY <1>1, <1>2
  <2>3. /\ SubSeq(b, k, Len(b)) \in Seq(Replayable)
        /\ Len(SubSeq(b, k, Len(b))) = IF k <= Len(b) THEN Len(b) - k + 1 ELSE 0
        /\ \A i \in 1..(Len(b) - k + 1) : SubSeq(b, k, Len(b))[i] = b[k + i - 1]
    BY <2>2, SubSeqProperties
  <2>4. (IF k <= Len(b) THEN Len(b) - k + 1 ELSE 0) = m
    BY <2>2
  <2> QED BY <2>1, <2>3, <2>4
<1>4. \A i \in 1..m : k + i - 1 \in 1..Len(b)
  BY <1>1, <1>2
<1>5. \A i, j \in 1..m : i < j => k + i - 1 < k + j - 1
  BY <1>1, <1>2
<1> HIDE DEF m
<1>6. \A i \in 1..m : z[i].seq < n /\ z[i].gen <= g
  BY <1>3, <1>4 DEF BufferOK
<1>7. ASSUME NEW i \in 1..m, NEW j \in 1..m, i < j PROVE z[i].seq < z[j].seq
  <2>1. k + i - 1 \in 1..Len(b) /\ k + j - 1 \in 1..Len(b) /\ k + i - 1 < k + j - 1
    BY <1>4, <1>5, <1>7
  <2> QED BY <1>3, <2>1 DEF BufferOK
<1> QED BY <1>2, <1>3, <1>6, <1>7 DEF BufferOK

\* Publishing keeps the buffer in order and within its limit.
LEMMA KeptOK ==
    ASSUME nextSeq \in Nat \ {0}, gen \in Nat, BufferOK(buffer, nextSeq, gen),
           NEW x \in Seq(Events), NEW h \in Nat, gen <= h,
           \A i \in 1..Len(x) : x[i].gen <= h, NEW fits
    PROVE  /\ BufferOK(Kept(Numbered(x), fits), nextSeq + Len(x), h)
           /\ Len(Kept(Numbered(x), fits)) <= BufMax
<1> DEFINE y == Numbered(x)
           I == IF fits THEN {i \in DOMAIN y : Buffered(y[i])} ELSE {}
           r == Selected(y, I)
           m == nextSeq + Len(x)
<1>1. /\ y \in Seq(Events) /\ Len(y) = Len(x) /\ Len(x) \in Nat /\ DOMAIN y = 1..Len(x)
      /\ \A i \in 1..Len(x) : y[i].seq = nextSeq + i - 1 /\ y[i].gen = x[i].gen
  BY NumberedFacts
<1>2. Kept(y, fits) = SubSeq(buffer \o r, IF Len(buffer \o r) > BufMax
                                          THEN Len(buffer \o r) - BufMax + 1 ELSE 1, Len(buffer \o r))
  BY DEF Kept
<1>3. \A i \in I \cap (1..Len(x)) : Buffered(y[i])
  OBVIOUS
<1> HIDE DEF y, I
<1>4. r \in Seq(Events) /\ InOrder(r, y, I, Len(y))
  BY <1>1, SelectedFacts
<1> HIDE DEF r
<1>5. PICK z \in [1..Len(r) -> I \cap (1..Len(x))] :
        /\ \A i, j \in 1..Len(r) : i < j => z[i] < z[j]
        /\ \A i \in 1..Len(r) : r[i] = y[z[i]]
  BY <1>1, <1>4 DEF InOrder
<1>6. m \in Nat /\ nextSeq <= m
  BY <1>1
<1>7. ASSUME NEW i \in 1..Len(r)
      PROVE  r[i] \in Replayable /\ r[i].seq < m /\ r[i].gen <= h /\ nextSeq <= r[i].seq
  <2>1. z[i] \in 1..Len(x) /\ z[i] \in I /\ r[i] = y[z[i]] /\ r[i] \in Events
    BY <1>4, <1>5
  <2>2. r[i].seq = nextSeq + z[i] - 1 /\ r[i].gen = x[z[i]].gen
    BY <1>1, <2>1
  <2>3. r[i].seq < m /\ nextSeq <= r[i].seq
    BY <1>1, <2>1, <2>2
  <2>4. r[i].t # "init"
    BY <1>3, <2>1 DEF Buffered
  <2> QED BY <2>1, <2>2, <2>3, <2>4 DEF Replayable
<1>8. ASSUME NEW i \in 1..Len(r), NEW j \in 1..Len(r), i < j PROVE r[i].seq < r[j].seq
  <2>1. z[i] \in 1..Len(x) /\ z[j] \in 1..Len(x) /\ z[i] < z[j] /\ r[i] = y[z[i]] /\ r[j] = y[z[j]]
    BY <1>5, <1>8
  <2>2. r[i].seq = nextSeq + z[i] - 1 /\ r[j].seq = nextSeq + z[j] - 1
    BY <1>1, <2>1
  <2> QED BY <1>1, <2>1, <2>2
<1> HIDE DEF m
<1>9. r \in Seq(Replayable)
  BY <1>4, <1>7
<1>10. BufferOK(r, m, h)
  BY <1>7, <1>8, <1>9 DEF BufferOK
<1>11. BufferOK(buffer \o r, m, h)
  BY <1>6, <1>7, <1>10, BufferConcat
<1>12. BufferOK(Kept(y, fits), m, h) /\ Len(Kept(y, fits)) <= BufMax
  BY <1>2, <1>11, BufferTrimmed
<1> QED BY <1>12 DEF y, m

-----------------------------------------------------------------------------
(* The inductive invariant *)

Requests == [t : {"subscribe"}, arg : Nat] \cup [t : {"answer"}, arg : Asks]

Subscriptions ==
    [from : Nat, reason : {"initial", "recovery", "gap"}, read : BOOLEAN, ok : BOOLEAN,
     msgs : SUBSET Msgs]

\* Without an adapter nothing is asked and the session is disconnected.
ServerInv ==
    /\ gen \in Nat /\ adapter \in BOOLEAN /\ run \in RunStates
    /\ interactions \subseteq Asks /\ (interactions # {} => adapter)
    /\ ~adapter => run = "disconnected"
    /\ nextSeq \in Nat \ {0} /\ disk \subseteq Msgs

BufferInv == BufferOK(buffer, nextSeq, gen) /\ Len(buffer) <= BufMax

LinkInv ==
    /\ link \in {"none", "connecting", "up", "cut"}
    /\ up \in Seq(Requests) /\ subs \in Seq(Subscriptions)
    /\ link # "up" => up = <<>> /\ subs = <<>>

Timers == [hidden : BOOLEAN, retry : BOOLEAN, health : {"none", "connect", "reconcile"}]

TimerInv == page \in Timers

FlightInv == cli \in Pages /\ down \in Seq(PageFrames) /\ LiveIn(down, cli)

\* The frames in flight on a connection that is up take the page to what the session is.
FollowInv == link = "up" => Follows(down, cli, interactions, run, gen, nextSeq)

ReplayInv == ServerInv /\ BufferInv /\ LinkInv /\ TimerInv /\ FlightInv /\ FollowInv

\* Initially the page is connecting.
LEMMA PageInitInv == PageInit => ReplayInv
<1> SUFFICES ASSUME PageInit PROVE ReplayInv
  OBVIOUS
<1>1. ServerInv
  <2>1. adapter = TRUE /\ interactions = {}
    BY DEF PageInit
  <2>2. gen \in Nat /\ run \in RunStates /\ nextSeq \in Nat \ {0} /\ disk \subseteq Msgs
    BY DEF PageInit, RunStates
  <2> QED BY <2>1, <2>2 DEF ServerInv
<1>2. BufferInv
  <2>1. buffer \in Seq(Replayable) /\ Len(buffer) = 0 /\ \A i : i \notin 1..0
    BY DEF PageInit
  <2> QED BY <2>1, ReplayAssumption DEF BufferInv, BufferOK
<1>3. LinkInv
  BY DEF PageInit, LinkInv
<1>4. TimerInv
  BY DEF PageInit, TimerInv, Timers
<1>5. FlightInv
  <2>1. cli \in Pages
    BY DEF PageInit, Pages, RunStates, ShownStates
  <2>2. down \in Seq(PageFrames) /\ Len(down) = 0 /\ \A i : i \notin 1..0
    BY DEF PageInit
  <2> QED BY <2>1, <2>2 DEF FlightInv, LiveIn
<1>6. FollowInv
  BY DEF PageInit, FollowInv
<1> QED BY <1>1, <1>2, <1>3, <1>4, <1>5, <1>6 DEF ReplayInv

\* One event is published: the page follows, if it is connected.
LEMMA BroadcastOne ==
    ASSUME ReplayInv, NEW x \in Replayable, x.gen = gen, Timely(x, run), NEW fits,
           Broadcast(<<>>, <<x>>, <<>>, fits), gen' = gen
    PROVE  /\ nextSeq' \in Nat \ {0} /\ BufferInv'
           /\ link # "up" => down' = down
           /\ link = "up" => Follows(down', cli, Asked(interactions, x), Ran(run, x), gen, nextSeq')
<1>1. /\ gen \in Nat /\ nextSeq \in Nat \ {0} /\ nextSeq \in Nat /\ BufferOK(buffer, nextSeq, gen)
      /\ cli \in Pages
  BY DEF ReplayInv, ServerInv, BufferInv, FlightInv
<1>2. <<x>> \in Seq(Events) /\ Len(<<x>>) = 1 /\ <<x>>[1] = x /\ x \in Events
  BY DEF Replayable
<1>3. nextSeq' = nextSeq + 1 /\ buffer' = Kept(Numbered(<<x>>), fits)
  BY <1>2 DEF Broadcast
<1>4. \A i \in 1..Len(<<x>>) : <<x>>[i].gen <= gen
  BY <1>1, <1>2
<1>5. BufferOK(buffer', nextSeq + 1, gen) /\ Len(buffer') <= BufMax
  <2>1. gen <= gen
    BY <1>1
  <2> QED BY <1>1, <1>2, <1>3, <1>4, <2>1, KeptOK
<1>6. BufferInv'
  BY <1>3, <1>5 DEF BufferInv
<1> DEFINE f == [x EXCEPT !.seq = nextSeq]
<1>7. f \in Replayable /\ f.seq = nextSeq /\ f.gen = gen /\ f.t = x.t /\ f.arg = x.arg
  BY <1>1, <1>2 DEF Replayable, Events
<1>8. <<>> \o Numbered(<<x>>) \o <<>> = <<f>>
  <2>1. Numbered(<<x>>) = <<f>> /\ <<f>> \in Seq({f})
    BY <1>1, NumberedOne
  <2> HIDE DEF f
  <2> QED BY <2>1, ConcatEmptySeq
<1> HIDE DEF f
<1>9. down' = IF link = "up" THEN down \o <<f>> ELSE down
  BY <1>8 DEF Broadcast, Send
<1>10. ASSUME link = "up"
       PROVE  Follows(down', cli, Asked(interactions, x), Ran(run, x), gen, nextSeq')
  <2>1. Follows(down, cli, interactions, run, gen, nextSeq)
    BY <1>10 DEF ReplayInv, FollowInv
  <2>2. Follows(down \o <<f>>, cli, Asked(interactions, f), Ran(run, f), gen, nextSeq + 1)
    BY <1>1, <1>7, <2>1, SendPublished DEF Timely
  <2>3. Asked(interactions, f) = Asked(interactions, x) /\ Ran(run, f) = Ran(run, x)
    BY <1>7 DEF Asked, Ran
  <2> QED BY <1>3, <1>9, <1>10, <2>2, <2>3
<1> QED BY <1>1, <1>3, <1>6, <1>9, <1>10

\* Two events are published by one handler.
LEMMA BroadcastTwo ==
    ASSUME ReplayInv, NEW x \in Replayable, x.gen = gen, x.t # "life",
           NEW y \in Replayable, y.gen = gen, y.t # "life",
           NEW fits, Broadcast(<<>>, <<x, y>>, <<>>, fits), gen' = gen
    PROVE  /\ nextSeq' \in Nat \ {0} /\ BufferInv'
           /\ link # "up" => down' = down
           /\ link = "up" => Follows(down', cli, Asked(Asked(interactions, x), y),
                                     Ran(Ran(run, x), y), gen, nextSeq')
<1>1. /\ gen \in Nat /\ nextSeq \in Nat \ {0} /\ nextSeq \in Nat /\ BufferOK(buffer, nextSeq, gen)
      /\ cli \in Pages
  BY DEF ReplayInv, ServerInv, BufferInv, FlightInv
<1> DEFINE w == <<x, y>>
<1>2. x \in Events /\ y \in Events
  BY DEF Replayable
<1>3. w \in Seq(Events) /\ Len(w) = 2 /\ w[1] = x /\ w[2] = y
  BY <1>2
<1>4. nextSeq' = nextSeq + 2 /\ buffer' = Kept(Numbered(w), fits)
  BY <1>3 DEF Broadcast
<1> DEFINE f == [x EXCEPT !.seq = nextSeq]
           h == [y EXCEPT !.seq = nextSeq + 1]
<1>5. /\ f \in Replayable /\ f.seq = nextSeq /\ f.gen = gen /\ f.t = x.t /\ f.arg = x.arg
      /\ h \in Replayable /\ h.seq = nextSeq + 1 /\ h.gen = gen /\ h.t = y.t /\ h.arg = y.arg
  BY <1>1, <1>2 DEF Replayable, Events
<1>6. Numbered(w) = <<f, h>>
  BY <1>1, NumberedTwo
<1> HIDE DEF w, f, h
<1>7. BufferInv'
  <2>1. gen <= gen /\ \A i \in 1..2 : i = 1 \/ i = 2
    BY <1>1
  <2>2. \A i \in 1..Len(w) : w[i].gen <= gen
    BY <1>3, <2>1
  <2>3. BufferOK(buffer', nextSeq + 2, gen) /\ Len(buffer') <= BufMax
    BY <1>1, <1>3, <1>4, <2>1, <2>2, KeptOK
  <2> QED BY <1>4, <2>3 DEF BufferInv
<1>8. <<>> \o Numbered(w) \o <<>> = <<f, h>>
  <2>1. <<f, h>> \in Seq({f, h})
    OBVIOUS
  <2> QED BY <1>6, <2>1, ConcatEmptySeq
<1>9. down' = IF link = "up" THEN down \o <<f, h>> ELSE down
  BY <1>8 DEF Broadcast, Send, w
<1>10. ASSUME link = "up"
       PROVE  Follows(down', cli, Asked(Asked(interactions, x), y), Ran(Ran(run, x), y), gen, nextSeq')
  <2>1. Follows(down, cli, interactions, run, gen, nextSeq)
    BY <1>10 DEF ReplayInv, FollowInv
  <2> DEFINE I == Asked(interactions, f)
             r == Ran(run, f)
  <2>2. Follows(down \o <<f>>, cli, I, r, gen, nextSeq + 1)
    BY <1>1, <1>5, <2>1, SendPublished DEF Timely
  <2>3. I = Asked(interactions, x) /\ r = Ran(run, x)
    BY <1>5 DEF Asked, Ran
  <2> HIDE DEF I, r
  <2>4. nextSeq + 1 \in Nat \ {0} /\ (nextSeq + 1) + 1 = nextSeq + 2
    BY <1>1
  <2>5. Follows((down \o <<f>>) \o <<h>>, cli, Asked(I, h), Ran(r, h), gen, (nextSeq + 1) + 1)
    BY <1>1, <1>5, <2>2, <2>4, SendPublished DEF Timely
  <2>6. Asked(I, h) = Asked(I, y) /\ Ran(r, h) = Ran(r, y)
    BY <1>5 DEF Asked, Ran
  <2>7. down \in Seq(PageFrames) /\ f \in PageFrames /\ h \in PageFrames
    BY <1>5, <2>1 DEF Follows, Replayable, PageFrames
  <2>8. down \o <<f, h>> = (down \o <<f>>) \o <<h>>
    BY <2>7, TwoFrames
  <2> QED BY <1>4, <1>9, <1>10, <2>3, <2>4, <2>5, <2>6, <2>8
<1>11. nextSeq' \in Nat \ {0}
  BY <1>1, <1>4
<1> QED BY <1>7, <1>9, <1>10, <1>11

\* A handler of the server that leaves the page and its socket alone keeps the invariant
\* if it keeps the server's part of it and the page follows.
LEMMA PublishedInv ==
    ASSUME ReplayInv, ServerInv', BufferInv', UNCHANGED <<subs, link, cli, page>>,
           up' = up \/ (up # <<>> /\ link = "up" /\ up' = Tail(up)),
           link # "up" => down' = down,
           link = "up" => Follows(down', cli, interactions', run', gen', nextSeq')
    PROVE  ReplayInv'
<1>1. LinkInv'
  <2>1. link' = link /\ subs' = subs /\ up \in Seq(Requests)
    BY DEF ReplayInv, LinkInv
  <2>2. up' \in Seq(Requests) /\ (link # "up" => up' = up)
    BY <2>1
  <2> QED BY <2>1, <2>2 DEF ReplayInv, LinkInv
<1>2. TimerInv'
  BY DEF ReplayInv, TimerInv
<1>3. FlightInv'
  <2>1. cli \in Pages /\ down \in Seq(PageFrames) /\ LiveIn(down, cli)
    BY DEF ReplayInv, FlightInv
  <2>2. link = "up" => down' \in Seq(PageFrames) /\ LiveIn(down', cli)
    BY DEF Follows
  <2>3. down' \in Seq(PageFrames) /\ LiveIn(down', cli)
    BY <2>1, <2>2
  <2> QED BY <2>1, <2>3 DEF FlightInv
<1>4. FollowInv'
  BY DEF FollowInv
<1> QED BY <1>1, <1>2, <1>3, <1>4 DEF ReplayInv

\* An event of the session's generation, as a handler writes it.
LEMMA EventTypes ==
    ASSUME gen \in Nat
    PROVE  /\ \A m \in Msgs : Event("msg", m, gen) \in Replayable
           /\ \A a \in Asks : Event("ask", a, gen) \in Replayable /\ Event("done", a, gen) \in Replayable
           /\ \A s \in RunStates : Event("run", s, gen) \in Replayable
           /\ \A s \in {"enabled", "closed"} : Event("life", s, gen) \in Replayable
           /\ Event("err", "stale", gen) \in Replayable
           /\ \A t, arg : /\ Event(t, arg, gen).gen = gen /\ Event(t, arg, gen).t = t
                          /\ Event(t, arg, gen).arg = arg
  BY DEF Event, Replayable, Events

\* Pi completes a message.
LEMMA PiMessageInv ==
    ASSUME ReplayInv, NEW m \in Msgs, PiMessage(m)
    PROVE  ReplayInv'
<1> DEFINE x == Event("msg", m, gen)
<1>1. PICK fits \in BOOLEAN : Broadcast(<<>>, <<x>>, <<>>, fits)
  BY DEF PiMessage
<1>2. UNCHANGED <<gen, adapter, run, interactions, up, subs, link, cli, page>> /\ disk' = disk \cup {m}
  BY DEF PiMessage, Unserved
<1>3. gen \in Nat
  BY DEF ReplayInv, ServerInv
<1>4. x \in Replayable /\ x.gen = gen /\ x.t = "msg"
  BY <1>3, EventTypes
<1> HIDE DEF x
<1>5. /\ nextSeq' \in Nat \ {0} /\ BufferInv' /\ (link # "up" => down' = down)
      /\ link = "up" => Follows(down', cli, Asked(interactions, x), Ran(run, x), gen, nextSeq')
  BY <1>1, <1>2, <1>4, BroadcastOne DEF Timely
<1>6. Asked(interactions, x) = interactions /\ Ran(run, x) = run
  BY <1>4 DEF Asked, Ran
<1>7. ServerInv'
  BY <1>2, <1>5 DEF ReplayInv, ServerInv
<1> QED BY <1>2, <1>5, <1>6, <1>7, PublishedInv

\* Pi asks: the run state goes first.
LEMMA PiAskInv ==
    ASSUME ReplayInv, NEW a \in Asks, PiAsk(a)
    PROVE  ReplayInv'
<1> DEFINE x == Event("run", "asking", gen)
           y == Event("ask", a, gen)
<1>1. Broadcast(<<>>, <<x, y>>, <<>>, TRUE)
  BY DEF PiAsk, Publish
<1>2. /\ UNCHANGED <<gen, adapter, disk, up, subs, link, cli, page>>
      /\ interactions' = interactions \cup {a} /\ run' = "asking" /\ adapter
  BY DEF PiAsk, Unserved
<1>3. gen \in Nat /\ "asking" \in RunStates
  BY DEF ReplayInv, ServerInv, RunStates
<1>4. /\ x \in Replayable /\ x.gen = gen /\ x.t = "run" /\ x.arg = "asking"
      /\ y \in Replayable /\ y.gen = gen /\ y.t = "ask" /\ y.arg = a
  BY <1>3, EventTypes
<1> HIDE DEF x, y
<1>5. /\ nextSeq' \in Nat \ {0} /\ BufferInv' /\ (link # "up" => down' = down)
      /\ link = "up" => Follows(down', cli, Asked(Asked(interactions, x), y),
                                Ran(Ran(run, x), y), gen, nextSeq')
  BY <1>1, <1>2, <1>4, BroadcastTwo
<1>6. Asked(Asked(interactions, x), y) = interactions' /\ Ran(Ran(run, x), y) = run'
  BY <1>2, <1>4 DEF Asked, Ran
<1>7. ServerInv'
  BY <1>2, <1>3, <1>5 DEF ReplayInv, ServerInv
<1> QED BY <1>2, <1>5, <1>6, <1>7, PublishedInv

\* Pi starts or ends a run.
LEMMA PiRunInv ==
    ASSUME ReplayInv, NEW s \in {"ready", "running"}, PiRun(s)
    PROVE  ReplayInv'
<1> DEFINE x == Event("run", s, gen)
<1>1. Broadcast(<<>>, <<x>>, <<>>, TRUE)
  BY DEF PiRun, Publish
<1>2. /\ UNCHANGED <<gen, adapter, disk, up, subs, link, cli, page>>
      /\ interactions' = StillPending(s) /\ run' = s /\ adapter
  BY DEF PiRun, Unserved
<1>3. gen \in Nat /\ s \in RunStates
  BY DEF ReplayInv, ServerInv, RunStates
<1>4. x \in Replayable /\ x.gen = gen /\ x.t = "run" /\ x.arg = s
  BY <1>3, EventTypes
<1> HIDE DEF x
<1>5. /\ nextSeq' \in Nat \ {0} /\ BufferInv' /\ (link # "up" => down' = down)
      /\ link = "up" => Follows(down', cli, Asked(interactions, x), Ran(run, x), gen, nextSeq')
  BY <1>1, <1>2, <1>4, BroadcastOne DEF Timely
<1>6. Asked(interactions, x) = interactions' /\ Ran(run, x) = run'
  BY <1>2, <1>4 DEF Asked, Ran, StillPending
<1>7. interactions' \subseteq Asks
  BY <1>2 DEF ReplayInv, ServerInv, StillPending
<1>8. ServerInv'
  BY <1>2, <1>3, <1>5, <1>7 DEF ReplayInv, ServerInv
<1> QED BY <1>2, <1>5, <1>6, <1>8, PublishedInv

\* An interaction expires.
LEMMA AskExpiresInv ==
    ASSUME ReplayInv, NEW a \in Asks, AskExpires(a)
    PROVE  ReplayInv'
<1> DEFINE x == Event("done", a, gen)
<1>1. Broadcast(<<>>, <<x>>, <<>>, TRUE)
  BY DEF AskExpires, Publish
<1>2. /\ UNCHANGED <<gen, adapter, run, disk, up, subs, link, cli, page>>
      /\ interactions' = interactions \ {a}
  BY DEF AskExpires, Unserved
<1>3. gen \in Nat
  BY DEF ReplayInv, ServerInv
<1>4. x \in Replayable /\ x.gen = gen /\ x.t = "done" /\ x.arg = a
  BY <1>3, EventTypes
<1> HIDE DEF x
<1>5. /\ nextSeq' \in Nat \ {0} /\ BufferInv' /\ (link # "up" => down' = down)
      /\ link = "up" => Follows(down', cli, Asked(interactions, x), Ran(run, x), gen, nextSeq')
  BY <1>1, <1>2, <1>4, BroadcastOne DEF Timely
<1>6. Asked(interactions, x) = interactions' /\ Ran(run, x) = run'
  BY <1>2, <1>4 DEF Asked, Ran
<1>7. ServerInv'
  BY <1>2, <1>5 DEF ReplayInv, ServerInv
<1> QED BY <1>2, <1>5, <1>6, <1>7, PublishedInv

\* An answer, of this page or of another browser, is accepted or refused as stale.
LEMMA AcceptInv ==
    ASSUME ReplayInv, NEW a \in Asks, Accept(a),
           up' = up \/ (up # <<>> /\ link = "up" /\ up' = Tail(up))
    PROVE  ReplayInv'
<1>1. UNCHANGED <<gen, adapter, disk, subs, link, cli, page>>
  BY DEF Accept, Unserved
<1>2. gen \in Nat /\ "running" \in RunStates
  BY DEF ReplayInv, ServerInv, RunStates
<1>3. CASE a \in interactions
  <2> DEFINE x == Event("done", a, gen)
             y == Event("run", "running", gen)
  <2>1. /\ Broadcast(<<>>, <<x, y>>, <<>>, TRUE)
        /\ interactions' = interactions \ {a} /\ run' = "running"
    BY <1>3 DEF Accept, Publish
  <2>2. /\ x \in Replayable /\ x.gen = gen /\ x.t = "done" /\ x.arg = a
        /\ y \in Replayable /\ y.gen = gen /\ y.t = "run" /\ y.arg = "running"
    BY <1>2, EventTypes
  <2> HIDE DEF x, y
  <2>3. /\ nextSeq' \in Nat \ {0} /\ BufferInv' /\ (link # "up" => down' = down)
        /\ link = "up" => Follows(down', cli, Asked(Asked(interactions, x), y),
                                  Ran(Ran(run, x), y), gen, nextSeq')
    BY <1>1, <2>1, <2>2, BroadcastTwo
  <2>4. Asked(Asked(interactions, x), y) = interactions' /\ Ran(Ran(run, x), y) = run'
    BY <2>1, <2>2 DEF Asked, Ran
  <2>5. adapter
    BY <1>3 DEF ReplayInv, ServerInv
  <2>6. ServerInv'
    BY <1>1, <1>2, <2>1, <2>3, <2>5 DEF ReplayInv, ServerInv
  <2> QED BY <1>1, <2>3, <2>4, <2>6, PublishedInv
<1>4. CASE a \notin interactions
  <2> DEFINE x == Event("err", "stale", gen)
  <2>1. Broadcast(<<>>, <<x>>, <<>>, TRUE) /\ interactions' = interactions /\ run' = run
    BY <1>4 DEF Accept, Publish
  <2>2. x \in Replayable /\ x.gen = gen /\ x.t = "err"
    BY <1>2, EventTypes
  <2> HIDE DEF x
  <2>3. /\ nextSeq' \in Nat \ {0} /\ BufferInv' /\ (link # "up" => down' = down)
        /\ link = "up" => Follows(down', cli, Asked(interactions, x), Ran(run, x), gen, nextSeq')
    BY <1>1, <2>1, <2>2, BroadcastOne DEF Timely
  <2>4. Asked(interactions, x) = interactions' /\ Ran(run, x) = run'
    BY <2>1, <2>2 DEF Asked, Ran
  <2>5. ServerInv'
    BY <1>1, <2>1, <2>3 DEF ReplayInv, ServerInv
  <2> QED BY <1>1, <2>3, <2>4, <2>5, PublishedInv
<1> QED BY <1>3, <1>4

\* The answer of this page arrives.
LEMMA AnsweredInv ==
    ASSUME ReplayInv, Answered
    PROVE  ReplayInv'
<1>1. link = "up" /\ up # <<>> /\ Head(up).t = "answer" /\ up' = Tail(up) /\ Accept(Head(up).arg)
  BY DEF Answered
<1>2. up \in Seq(Requests)
  BY DEF ReplayInv, LinkInv
<1>3. Head(up) \in Requests
  BY <1>1, <1>2
<1>4. Head(up).arg \in Asks
  BY <1>1, <1>3 DEF Requests
<1> QED BY <1>1, <1>4, AcceptInv

\* detachPiAdapter: the page drops the interactions before it learns of the run state.
LEMMA DetachInv ==
    ASSUME ReplayInv, Detach
    PROVE  ReplayInv'
<1> DEFINE A == AskSnapshot({}, gen)
           x == Event("run", "disconnected", gen)
           f == [x EXCEPT !.seq = nextSeq]
<1>1. /\ Broadcast(<<A>>, <<x>>, <<>>, TRUE)
      /\ UNCHANGED <<gen, disk, up, subs, link, cli, page>>
      /\ adapter' = FALSE /\ interactions' = {} /\ run' = "disconnected"
  BY DEF Detach, Unserved
<1>2. /\ gen \in Nat /\ gen <= gen /\ nextSeq \in Nat \ {0} /\ nextSeq \in Nat
      /\ BufferOK(buffer, nextSeq, gen) /\ cli \in Pages /\ "disconnected" \in RunStates
      /\ down \in Seq(PageFrames)
  BY DEF ReplayInv, ServerInv, BufferInv, FlightInv, RunStates
<1>3. x \in Replayable /\ x.gen = gen /\ x.t = "run" /\ x.arg = "disconnected" /\ x \in Events
  BY <1>2, EventTypes DEF Replayable
<1>4. f \in Replayable /\ f.seq = nextSeq /\ f.gen = gen /\ f.t = "run" /\ f.arg = "disconnected"
  BY <1>2 DEF Event, Replayable, Events
<1>5. Numbered(<<x>>) = <<f>>
  BY <1>2, NumberedOne
<1>6. A \in PageFrames /\ f \in PageFrames
  BY <1>2, <1>4 DEF AskSnapshot, Snapshots, Replayable, PageFrames
<1> HIDE DEF A, x, f
<1>7. nextSeq' = nextSeq + 1 /\ BufferInv'
  <2>1. <<x>> \in Seq(Events) /\ Len(<<x>>) = 1 /\ <<x>>[1] = x
    BY <1>3
  <2>2. nextSeq' = nextSeq + 1 /\ buffer' = Kept(Numbered(<<x>>), TRUE)
    BY <1>1, <2>1 DEF Broadcast
  <2>3. \A i \in 1..Len(<<x>>) : <<x>>[i].gen <= gen
    BY <1>2, <1>3, <2>1
  <2>4. BufferOK(buffer', nextSeq + 1, gen) /\ Len(buffer') <= BufMax
    BY <1>2, <2>1, <2>2, <2>3, KeptOK
  <2> QED BY <1>1, <2>2, <2>4 DEF BufferInv
<1>8. down' = IF link = "up" THEN (down \o <<A>>) \o <<f>> ELSE down
  <2>1. <<A>> \in Seq(PageFrames) /\ <<f>> \in Seq(PageFrames)
    BY <1>6
  <2>2. <<A>> \o <<f>> \in Seq(PageFrames)
    BY <2>1, ConcatProperties
  <2>3. <<A>> \o Numbered(<<x>>) \o <<>> = <<A>> \o <<f>>
    BY <1>5, <2>2, ConcatEmptySeq
  <2>4. (down \o <<A>>) \o <<f>> = down \o (<<A>> \o <<f>>)
    BY <1>2, <2>1, ConcatAssociative
  <2> QED BY <1>1, <2>3, <2>4 DEF Broadcast, Send
<1>9. ASSUME link = "up" PROVE Follows(down', cli, interactions', run', gen', nextSeq')
  <2>1. Follows(down, cli, interactions, run, gen, nextSeq)
    BY <1>9 DEF ReplayInv, FollowInv
  <2>2. Follows(down \o <<A>>, cli, {}, run, gen, nextSeq)
    BY <1>2, <2>1, SendSnapshot DEF A
  <2>3. Follows((down \o <<A>>) \o <<f>>, cli, Asked({}, f), Ran(run, f), gen, nextSeq + 1)
    BY <1>2, <1>4, <2>2, SendPublished DEF Timely
  <2>4. Asked({}, f) = {} /\ Ran(run, f) = "disconnected"
    BY <1>4 DEF Asked, Ran
  <2> QED BY <1>1, <1>7, <1>8, <1>9, <2>3, <2>4
<1>10. ServerInv'
  <2>1. adapter' \in BOOLEAN
    BY <1>1
  <2>2. interactions' \subseteq Asks /\ (interactions' # {} => adapter')
    BY <1>1
  <2>3. ~adapter' => run' = "disconnected"
    BY <1>1
  <2>4. gen' \in Nat /\ run' \in RunStates /\ nextSeq' \in Nat \ {0} /\ disk' \subseteq Msgs
    BY <1>1, <1>2, <1>7 DEF ReplayInv, ServerInv
  <2> QED BY <2>1, <2>2, <2>3, <2>4 DEF ServerInv
<1> QED BY <1>1, <1>7, <1>8, <1>9, <1>10, PublishedInv

\* attachPiAdapter: session_init of the next generation and an empty snapshot.
LEMMA AttachInv ==
    ASSUME ReplayInv, NEW s \in {"ready", "running"}, Attach(s)
    PROVE  ReplayInv'
<1> DEFINE x == Event("init", s, gen + 1)
           A == AskSnapshot({}, gen + 1)
           f == [x EXCEPT !.seq = nextSeq]
<1>1. /\ Broadcast(<<>>, <<x>>, <<A>>, TRUE)
      /\ UNCHANGED <<disk, up, subs, link, cli, page>>
      /\ adapter' = TRUE /\ interactions' = {} /\ run' = s /\ gen' = gen + 1
  BY DEF Attach, Unserved
<1>2. /\ gen \in Nat /\ gen <= gen + 1 /\ gen + 1 \in Nat /\ nextSeq \in Nat \ {0} /\ nextSeq \in Nat
      /\ BufferOK(buffer, nextSeq, gen) /\ cli \in Pages /\ s \in RunStates
      /\ down \in Seq(PageFrames)
  BY DEF ReplayInv, ServerInv, BufferInv, FlightInv, RunStates
<1>3. x \in Events /\ x.gen = gen + 1
  BY <1>2 DEF Event, Events
<1>4. f \in Events
  BY <1>2 DEF Event, Events
<1>5. Numbered(<<x>>) = <<f>>
  BY <1>2, NumberedOne
<1>6. A \in PageFrames /\ f \in PageFrames
  BY <1>2, <1>4 DEF AskSnapshot, Snapshots, PageFrames
<1> HIDE DEF A, x, f
<1>7. nextSeq' = nextSeq + 1 /\ BufferInv'
  <2>1. <<x>> \in Seq(Events) /\ Len(<<x>>) = 1 /\ <<x>>[1] = x
    BY <1>3
  <2>2. nextSeq' = nextSeq + 1 /\ buffer' = Kept(Numbered(<<x>>), TRUE)
    BY <1>1, <2>1 DEF Broadcast
  <2>3. \A i \in 1..Len(<<x>>) : <<x>>[i].gen <= gen + 1
    BY <1>2, <1>3, <2>1
  <2>4. BufferOK(buffer', nextSeq + 1, gen + 1) /\ Len(buffer') <= BufMax
    BY <1>2, <2>1, <2>2, <2>3, KeptOK
  <2> QED BY <1>1, <2>2, <2>4 DEF BufferInv
<1>8. down' = IF link = "up" THEN (down \o <<f>>) \o <<A>> ELSE down
  <2>1. <<A>> \in Seq(PageFrames) /\ <<f>> \in Seq(PageFrames)
    BY <1>6
  <2>2. <<>> \o Numbered(<<x>>) \o <<A>> = <<f>> \o <<A>>
    BY <1>5, <2>1, ConcatEmptySeq
  <2>3. (down \o <<f>>) \o <<A>> = down \o (<<f>> \o <<A>>)
    BY <1>2, <2>1, ConcatAssociative
  <2> QED BY <1>1, <2>2, <2>3 DEF Broadcast, Send
<1>9. ASSUME link = "up" PROVE Follows(down', cli, interactions', run', gen', nextSeq')
  <2>1. Follows(down, cli, interactions, run, gen, nextSeq)
    BY <1>9 DEF ReplayInv, FollowInv
  <2>2. PICK J : Follows(down \o <<f>>, cli, J, s, gen + 1, nextSeq + 1)
    BY <1>2, <2>1, SendInit DEF f, x
  <2>3. nextSeq + 1 \in Nat \ {0}
    BY <1>2
  <2>4. Follows((down \o <<f>>) \o <<A>>, cli, {}, s, gen + 1, nextSeq + 1)
    BY <1>2, <2>2, <2>3, SendSnapshot DEF A
  <2> QED BY <1>1, <1>7, <1>8, <1>9, <2>4
<1>10. ServerInv'
  BY <1>1, <1>2, <1>7 DEF ReplayInv, ServerInv
<1> QED BY <1>1, <1>7, <1>8, <1>9, <1>10, PublishedInv

\* The orchestrator reports that the session is open again, or closed.
LEMMA LifecycleInv ==
    ASSUME ReplayInv, NEW s \in {"enabled", "closed"}, Lifecycle(s)
    PROVE  ReplayInv'
<1> DEFINE x == Event("life", s, gen)
<1>1. Broadcast(<<>>, <<x>>, <<>>, TRUE)
  BY DEF Lifecycle, Publish
<1>2. /\ UNCHANGED <<gen, adapter, run, interactions, disk, up, subs, link, cli, page>>
      /\ adapter = (s = "enabled")
  BY DEF Lifecycle, Unserved
<1>3. gen \in Nat /\ (~adapter => run = "disconnected")
  BY DEF ReplayInv, ServerInv
<1>4. x \in Replayable /\ x.gen = gen /\ x.t = "life" /\ x.arg = s
  BY <1>3, EventTypes
<1> HIDE DEF x
<1>5. Timely(x, run)
  BY <1>2, <1>3, <1>4 DEF Timely
<1>6. /\ nextSeq' \in Nat \ {0} /\ BufferInv' /\ (link # "up" => down' = down)
      /\ link = "up" => Follows(down', cli, Asked(interactions, x), Ran(run, x), gen, nextSeq')
  BY <1>1, <1>2, <1>4, <1>5, BroadcastOne
<1>7. Asked(interactions, x) = interactions /\ Ran(run, x) = run
  BY <1>4 DEF Asked, Ran
<1>8. ServerInv'
  BY <1>2, <1>6 DEF ReplayInv, ServerInv
<1> QED BY <1>2, <1>6, <1>7, <1>8, PublishedInv

\* A lost connection, whatever it left in flight to the page.
LEMMA UnlinkedInv ==
    ASSUME ReplayInv, ServerInv', BufferInv', TimerInv', cli' = cli,
           down' = down \/ down' = <<>>, link' \in {"none", "cut"}, up' = <<>>, subs' = <<>>
    PROVE  ReplayInv'
<1>1. LinkInv'
  BY DEF LinkInv
<1>2. cli \in Pages /\ down \in Seq(PageFrames) /\ LiveIn(down, cli)
  BY DEF ReplayInv, FlightInv
<1>3. LiveIn(<<>>, cli)
  <2>1. Len(<<>>) = 0 /\ \A i : i \notin 1..0
    OBVIOUS
  <2> QED BY <2>1 DEF LiveIn
<1>4. FlightInv'
  <2>1. down' \in Seq(PageFrames) /\ LiveIn(down', cli)
    BY <1>2, <1>3, EmptySeq
  <2> QED BY <1>2, <2>1 DEF FlightInv
<1>5. FollowInv'
  BY DEF FollowInv
<1> QED BY <1>1, <1>4, <1>5 DEF ReplayInv

\* The server's state as it was.
LEMMA ServerUnchanged ==
    ASSUME ReplayInv, UNCHANGED server
    PROVE  ServerInv' /\ BufferInv'
  BY DEF ReplayInv, ServerInv, BufferInv, server

\* The server restarts.
LEMMA RestartInv ==
    ASSUME ReplayInv, Restart
    PROVE  ReplayInv'
<1>1. /\ adapter' = FALSE /\ run' = "disconnected" /\ interactions' = {}
      /\ nextSeq' = 1 /\ buffer' = <<>> /\ subs' = <<>> /\ up' = <<>>
      /\ link' = (IF link = "none" THEN "none" ELSE "cut")
      /\ gen' = gen /\ disk' = disk /\ down' = down /\ cli' = cli /\ page' = page
  BY DEF Restart
<1>2. ServerInv'
  <2>1. adapter' \in BOOLEAN
    BY <1>1
  <2>2. interactions' \subseteq Asks /\ (interactions' # {} => adapter')
    BY <1>1
  <2>3. ~adapter' => run' = "disconnected"
    BY <1>1
  <2>4. gen' \in Nat /\ run' \in RunStates /\ nextSeq' \in Nat \ {0} /\ disk' \subseteq Msgs
    BY <1>1 DEF ReplayInv, ServerInv, RunStates
  <2> QED BY <2>1, <2>2, <2>3, <2>4 DEF ServerInv
<1>3. BufferInv'
  <2>1. buffer' \in Seq(Replayable) /\ Len(buffer') = 0 /\ \A i : i \notin 1..0
    BY <1>1
  <2> QED BY <2>1, ReplayAssumption DEF BufferInv, BufferOK
<1>4. TimerInv'
  BY <1>1 DEF ReplayInv, TimerInv
<1> QED BY <1>1, <1>2, <1>3, <1>4, UnlinkedInv

\* The connection is lost.
LEMMA CutInv ==
    ASSUME ReplayInv, Cut
    PROVE  ReplayInv'
<1>1. link' = "cut" /\ up' = <<>> /\ subs' = <<>> /\ UNCHANGED <<server, down, cli, page>>
  BY DEF Cut
<1>2. TimerInv'
  BY <1>1 DEF ReplayInv, TimerInv
<1> QED BY <1>1, <1>2, ServerUnchanged, UnlinkedInv

\* The page gives up its socket: onclose, or the health timer.
LEMMA GivenUpInv ==
    ASSUME ReplayInv, Unlinked, UNCHANGED <<server, cli>>
    PROVE  ReplayInv'
<1>1. /\ link' = "none" /\ up' = <<>> /\ down' = <<>> /\ subs' = <<>>
      /\ page' = [page EXCEPT !.health = "none", !.retry = @ \/ ~page.hidden]
  BY DEF Unlinked
<1>2. TimerInv'
  <2>1. page \in Timers
    BY DEF ReplayInv, TimerInv
  <2>2. ASSUME NEW b \in BOOLEAN
        PROVE  [page EXCEPT !.health = "none", !.retry = b] \in Timers
    BY <2>1 DEF Timers
  <2>3. (page.retry \/ ~page.hidden) \in BOOLEAN
    OBVIOUS
  <2> QED BY <1>1, <2>2, <2>3 DEF TimerInv
<1> QED BY <1>1, <1>2, ServerUnchanged, UnlinkedInv

\* A request leaves the socket and its subscription waits for a history.
LEMMA AwaitInv ==
    ASSUME ReplayInv, link = "up", up # <<>>, up' = Tail(up),
           NEW from \in Nat, NEW reason \in {"initial", "recovery", "gap"}, Await(from, reason),
           UNCHANGED <<server, link, cli, page>>
    PROVE  ReplayInv'
<1> DEFINE z == [from |-> from, reason |-> reason, read |-> FALSE, ok |-> TRUE, msgs |-> {}]
<1>1. subs' = Append(subs, z) /\ down' = down
  BY DEF Await
<1>2. z \in Subscriptions
  BY DEF Subscriptions
<1> HIDE DEF z
<1>3. subs \in Seq(Subscriptions) /\ up \in Seq(Requests)
  BY DEF ReplayInv, LinkInv
<1>4. LinkInv'
  BY <1>1, <1>2, <1>3 DEF LinkInv
<1>5. ServerInv' /\ BufferInv'
  BY ServerUnchanged
<1>6. TimerInv' /\ FlightInv'
  BY <1>1 DEF ReplayInv, TimerInv, FlightInv
<1>7. FollowInv'
  BY <1>1 DEF ReplayInv, FollowInv, server
<1> QED BY <1>4, <1>5, <1>6, <1>7 DEF ReplayInv

\* A subscription within the buffer is answered at once.
LEMMA AnsweredAtOnce ==
    ASSUME ReplayInv, link = "up", up # <<>>, up' = Tail(up), NEW from,
           Send(Closing(Missed(from, FALSE))), UNCHANGED subs,
           UNCHANGED <<server, link, cli, page>>
    PROVE  ReplayInv'
<1>1. /\ gen \in Nat /\ nextSeq \in Nat \ {0} /\ run \in RunStates /\ interactions \subseteq Asks
      /\ cli \in Pages /\ BufferOK(buffer, nextSeq, gen)
      /\ Follows(down, cli, interactions, run, gen, nextSeq)
  BY DEF ReplayInv, ServerInv, BufferInv, FlightInv, FollowInv
<1>2. Lags(down, cli, gen, nextSeq)
  BY <1>1, FollowsLags
<1>3. BufferOK(Missed(from, FALSE), nextSeq, gen)
  BY <1>1, MissedOK
<1>4. Follows(down \o Closing(Missed(from, FALSE)), cli, interactions, run, gen, nextSeq)
  BY <1>1, <1>2, <1>3, SendClosing
<1>5. down' = down \o Closing(Missed(from, FALSE))
  BY DEF Send
<1>6. ServerInv' /\ BufferInv'
  BY ServerUnchanged
<1>7. Follows(down', cli, interactions', run', gen', nextSeq')
  BY <1>4, <1>5 DEF server
<1> QED BY <1>6, <1>7, PublishedInv

\* handleSessionSubscribe.
LEMMA SubscribeInv ==
    ASSUME ReplayInv, Subscribe
    PROVE  ReplayInv'
<1> DEFINE n     == Head(up).arg
           ahead == n > nextSeq - 1
           from  == IF ahead THEN 0 ELSE n
<1>1. /\ link = "up" /\ up # <<>> /\ Head(up).t = "subscribe" /\ up' = Tail(up)
      /\ CASE from = 0 -> Await(0, IF ahead THEN "recovery" ELSE "initial")
           [] from > 0 /\ buffer = <<>> -> Await(from, "recovery")
           [] from > 0 /\ buffer # <<>> /\ from < Earliest - 1 -> Await(from, "gap")
           [] OTHER -> Send(Closing(Missed(from, FALSE))) /\ UNCHANGED subs
      /\ UNCHANGED <<server, link, cli, page>>
  BY DEF Subscribe
<1>2. up \in Seq(Requests)
  BY DEF ReplayInv, LinkInv
<1>3. Head(up) \in Requests
  BY <1>1, <1>2
<1>4. n \in Nat
  BY <1>1, <1>3 DEF Requests
<1> HIDE DEF n, ahead
<1>5. from \in Nat
  BY <1>4
<1> HIDE DEF from
<1>6. CASE from = 0
  <2>1. Await(0, IF ahead THEN "recovery" ELSE "initial")
    BY <1>1, <1>5, <1>6
  <2>2. (IF ahead THEN "recovery" ELSE "initial") \in {"initial", "recovery", "gap"}
    OBVIOUS
  <2> QED BY <1>1, <2>1, <2>2, AwaitInv
<1>7. CASE from > 0 /\ buffer = <<>>
  <2>1. Await(from, "recovery")
    BY <1>1, <1>5, <1>7
  <2> QED BY <1>1, <1>5, <2>1, AwaitInv
<1>8. CASE from > 0 /\ buffer # <<>> /\ from < Earliest - 1
  <2>1. Await(from, "gap")
    BY <1>1, <1>5, <1>8
  <2> QED BY <1>1, <1>5, <2>1, AwaitInv
<1>9. CASE ~(from = 0) /\ ~(from > 0 /\ buffer = <<>>)
           /\ ~(from > 0 /\ buffer # <<>> /\ from < Earliest - 1)
  <2>1. Send(Closing(Missed(from, FALSE))) /\ UNCHANGED subs
    BY <1>1, <1>9
  <2> QED BY <1>1, <2>1, AnsweredAtOnce
<1> QED BY <1>6, <1>7, <1>8, <1>9

\* readHistory.
LEMMA ReadHistoryInv ==
    ASSUME ReplayInv, NEW i \in DOMAIN subs, ReadHistory(i)
    PROVE  ReplayInv'
<1>1. PICK ok \in BOOLEAN :
        subs' = [subs EXCEPT ![i].read = TRUE, ![i].ok = ok, ![i].msgs = IF ok THEN disk ELSE {}]
  BY DEF ReadHistory
<1>2. UNCHANGED <<server, link, up, down, cli, page>>
  BY DEF ReadHistory
<1>3. subs \in Seq(Subscriptions) /\ disk \subseteq Msgs
  BY DEF ReplayInv, LinkInv, ServerInv
<1> DEFINE m == IF ok THEN disk ELSE {}
           z == [subs[i] EXCEPT !.read = TRUE, !.ok = ok, !.msgs = m]
<1>4. subs[i] \in Subscriptions /\ i \in 1..Len(subs) /\ DOMAIN subs = 1..Len(subs)
  BY <1>3
<1>5. m \subseteq Msgs
  BY <1>3
<1> HIDE DEF m
<1>6. z \in Subscriptions
  BY <1>4, <1>5 DEF Subscriptions
<1>7. subs' = [subs EXCEPT ![i] = z]
  BY <1>1, <1>4 DEF m
<1> HIDE DEF z
<1>8. subs' \in Seq(Subscriptions) /\ subs # <<>>
  BY <1>3, <1>4, <1>6, <1>7, ExceptSeq
<1>9. LinkInv'
  BY <1>2, <1>8 DEF ReplayInv, LinkInv
<1>10. ServerInv' /\ BufferInv'
  BY <1>2, ServerUnchanged
<1>11. TimerInv' /\ FlightInv'
  BY <1>2 DEF ReplayInv, TimerInv, FlightInv
<1>12. FollowInv'
  BY <1>2 DEF ReplayInv, FollowInv, server
<1> QED BY <1>9, <1>10, <1>11, <1>12 DEF ReplayInv

\* The continuation of a subscription that awaited its history.
LEMMA SendHistoryInv ==
    ASSUME ReplayInv, NEW i \in DOMAIN subs, SendHistory(i)
    PROVE  ReplayInv'
<1> DEFINE s      == subs[i]
           first  == IF s.ok THEN History(s.reason, s.msgs) ELSE Event("err", "history", gen)
           alone  == s.reason = "recovery" /\ s.from > 0
           events == IF alone THEN <<>> ELSE Missed(s.from, TRUE)
<1>1. /\ subs' = RemoveAt(subs, i) /\ Send(<<first>> \o Closing(events))
      /\ UNCHANGED <<server, link, up, cli, page>>
  BY DEF SendHistory
<1>2. /\ gen \in Nat /\ nextSeq \in Nat \ {0} /\ run \in RunStates /\ interactions \subseteq Asks
      /\ cli \in Pages /\ BufferOK(buffer, nextSeq, gen) /\ subs \in Seq(Subscriptions)
  BY DEF ReplayInv, ServerInv, BufferInv, FlightInv, LinkInv
<1>3. i \in 1..Len(subs) /\ s \in Subscriptions /\ Len(subs) \in Nat
  BY <1>2
<1>4. link = "up"
  <2>1. subs # <<>>
    BY <1>2, <1>3
  <2> QED BY <2>1 DEF ReplayInv, LinkInv
<1>5. Lags(down, cli, gen, nextSeq) /\ down \in Seq(PageFrames)
  <2>1. Follows(down, cli, interactions, run, gen, nextSeq)
    BY <1>4 DEF ReplayInv, FollowInv
  <2> QED BY <1>2, <2>1, FollowsLags DEF Follows
<1>6. first \in Histories \/ first = Event("err", "history", gen)
  <2>1. s.reason \in {"initial", "recovery", "gap"} /\ s.msgs \subseteq Msgs
    BY <1>3 DEF Subscriptions
  <2>2. History(s.reason, s.msgs) \in Histories
    BY <2>1 DEF History, Histories
  <2> QED BY <2>2
<1>7. BufferOK(events, nextSeq, gen)
  <2>1. BufferOK(<<>>, nextSeq, gen)
    <3>1. <<>> \in Seq(Replayable) /\ Len(<<>>) = 0 /\ \A k : k \notin 1..0
      OBVIOUS
    <3> QED BY <3>1 DEF BufferOK
  <2>2. BufferOK(Missed(s.from, TRUE), nextSeq, gen)
    BY <1>2, MissedOK
  <2> QED BY <2>1, <2>2
<1> HIDE DEF s, first, alone, events
<1>8. Lags(down \o <<first>>, cli, gen, nextSeq)
  BY <1>2, <1>5, <1>6, SendFirst
<1>9. Follows((down \o <<first>>) \o Closing(events), cli, interactions, run, gen, nextSeq)
  BY <1>2, <1>7, <1>8, SendClosing
<1>10. down' = (down \o <<first>>) \o Closing(events)
  <2> DEFINE B == Replay(events)
             R == RunFrame
             A == AskSnapshot(interactions, gen)
             S == PageFrames \cup {first, B, R, A}
  <2>1. Closing(events) = (IF events = <<>> THEN <<>> ELSE <<B>>) \o <<R, A>>
    BY DEF Closing
  <2> HIDE DEF B, R, A
  <2>2. <<>> \in Seq(S) /\ <<B>> \in Seq(S) /\ <<R, A>> \in Seq(S) /\ <<first>> \in Seq(S)
    OBVIOUS
  <2>3. down \in Seq(S)
    BY <1>5, SeqMonotonic
  <2> HIDE DEF S
  <2>4. Closing(events) \in Seq(S)
    <3>1. (IF events = <<>> THEN <<>> ELSE <<B>>) \in Seq(S)
      BY <2>2
    <3> QED BY <2>1, <2>2, <3>1, ConcatProperties
  <2>5. (down \o <<first>>) \o Closing(events) = down \o (<<first>> \o Closing(events))
    BY <2>2, <2>3, <2>4, ConcatAssociative
  <2> QED BY <1>1, <1>4, <2>5 DEF Send
<1>11. Follows(down', cli', interactions', run', gen', nextSeq')
  BY <1>1, <1>9, <1>10 DEF server
<1>12. subs' \in Seq(Subscriptions)
  <2>1. \A k \in 1..Len(subs) : subs[k] \in Subscriptions
    BY <1>2
  <2>2. 1 \in Int /\ i - 1 \in Int /\ i + 1 \in Int /\ Len(subs) \in Int
    BY <1>3
  <2>3. /\ \A k \in 1..(i - 1) : subs[k] \in Subscriptions
        /\ \A k \in (i + 1)..Len(subs) : subs[k] \in Subscriptions
    BY <1>3, <2>1
  <2>4. SubSeq(subs, 1, i - 1) \in Seq(Subscriptions) /\ SubSeq(subs, i + 1, Len(subs)) \in Seq(Subscriptions)
    BY <2>2, <2>3, SubSeqProperties
  <2> QED BY <1>1, <2>4, ConcatProperties DEF RemoveAt
<1>13. LinkInv'
  BY <1>1, <1>4, <1>12 DEF ReplayInv, LinkInv
<1>14. ServerInv' /\ BufferInv'
  BY <1>1, ServerUnchanged
<1>15. TimerInv'
  BY <1>1 DEF ReplayInv, TimerInv
<1>16. FlightInv' /\ FollowInv'
  BY <1>1, <1>2, <1>11 DEF FlightInv, FollowInv, Follows
<1> QED BY <1>13, <1>14, <1>15, <1>16 DEF ReplayInv

\* The page handles a frame.
LEMMA DeliverInv ==
    ASSUME ReplayInv, Deliver
    PROVE  ReplayInv'
<1>1. /\ down # <<>> /\ down' = Tail(down) /\ cli' = Handled(cli, Head(down))
      /\ page' = [page EXCEPT !.health = "none"]
      /\ UNCHANGED <<server, subs, link, up>>
  BY DEF Deliver
<1>2. cli \in Pages /\ down \in Seq(PageFrames) /\ LiveIn(down, cli) /\ nextSeq \in Nat \ {0}
  BY DEF ReplayInv, FlightInv, ServerInv
<1>3. Head(down) \in PageFrames
  BY <1>1, <1>2
<1>4. /\ down' \in Seq(PageFrames) /\ LiveIn(down', cli')
      /\ Below(down, cli, nextSeq) => Below(down', cli', nextSeq)
  BY <1>1, <1>2, TailFrames
<1>5. cli' \in Pages
  BY <1>1, <1>2, <1>3, HandledFacts
<1>6. FlightInv'
  BY <1>4, <1>5 DEF FlightInv
<1>7. FollowInv'
  <2> SUFFICES ASSUME link' = "up" PROVE Follows(down', cli', interactions', run', gen', nextSeq')
    BY DEF FollowInv
  <2>1. Follows(down, cli, interactions, run, gen, nextSeq)
    BY <1>1 DEF ReplayInv, FollowInv
  <2>2. PICK e : Ends(cli, down, e) /\ Shows(e, interactions, run, gen, nextSeq)
    BY <2>1 DEF Follows
  <2>3. Ends(cli', down', e)
    BY <1>1, <1>2, <2>2, EndsTail
  <2>4. Below(down', cli', nextSeq)
    BY <1>4, <2>1 DEF Follows
  <2> QED BY <1>1, <1>4, <2>2, <2>3, <2>4 DEF Follows, server
<1>8. ServerInv' /\ BufferInv'
  BY <1>1, ServerUnchanged
<1>9. LinkInv'
  BY <1>1 DEF ReplayInv, LinkInv
<1>10. TimerInv'
  BY <1>1 DEF ReplayInv, TimerInv, Timers
<1> QED BY <1>6, <1>7, <1>8, <1>9, <1>10 DEF ReplayInv

\* The run state is sent to a page that follows and was to hear of nothing else.
LEMMA SendRunAgain ==
    ASSUME NEW c \in Pages, NEW d, NEW I, NEW r, NEW s \in RunStates \ {"ready"}, NEW g \in Nat,
           NEW n \in Nat \ {0}, Follows(d, c, I, r, g, n)
    PROVE  Follows(d \o <<Event("run", s, g)>>, c, I, s, g, n)
<1> DEFINE f == Event("run", s, g)
<1>1. PICK e : Ends(c, d, e) /\ Shows(e, I, r, g, n)
  BY DEF Follows
<1>2. /\ d \in Seq(PageFrames) /\ LiveIn(d, c) /\ Below(d, c, n)
      /\ e \in Pages /\ e.gen <= g /\ e.seq < n /\ e.pending = I
  BY <1>1 DEF Follows, Shows
<1>3. f \in PageFrames /\ Shows(Handled(e, f), I, s, g, n)
  BY <1>2, HandledRun
<1>4. f.seq = 0 /\ f.t # "init" /\ Number(f) = 0
  BY DEF Event, Number
<1> HIDE DEF f
<1>5. d \o <<f>> \in Seq(PageFrames) /\ LiveIn(d \o <<f>>, c) /\ Below(d \o <<f>>, c, n)
  BY <1>2, <1>3, <1>4, PushUnnumbered
<1>6. Ends(c, d \o <<f>>, Handled(e, f))
  BY <1>1, <1>2, <1>3, EndsPush
<1>7. Follows(d \o <<f>>, c, I, s, g, n)
  BY <1>3, <1>5, <1>6 DEF Follows
<1> QED BY <1>7 DEF f

\* The first frames of a connection take any page to what the session is.
LEMMA OpeningFollows ==
    ASSUME NEW c \in Pages, gen \in Nat, nextSeq \in Nat \ {0}, run \in RunStates,
           interactions \subseteq Asks, ~adapter => run = "disconnected"
    PROVE  Follows(<<Event("init", run, gen), AskSnapshot(interactions, gen)>>
                     \o (IF adapter THEN <<>> ELSE <<Event("run", "disconnected", gen)>>),
                   c, interactions, run, gen, nextSeq)
<1> DEFINE f == Event("init", run, gen)
           A == AskSnapshot(interactions, gen)
           R == Event("run", "disconnected", gen)
<1>1. f = [Event("init", run, gen) EXCEPT !.seq = 0] /\ f.t = "init" /\ f.seq = 0 /\ Number(f) = 0
  BY DEF Event, Number
<1>2. A \in PageFrames
  BY DEF AskSnapshot, Snapshots, PageFrames
<1>3. /\ f \in Events /\ f \in PageFrames /\ Handled(c, f) \in Pages /\ Handled(c, f).run = run
      /\ Handled(c, f).gen = gen /\ Handled(c, f).seq = 0
  BY <1>1, HandledInit DEF PageFrames
<1> HIDE DEF f
<1>4. <<f>> \in Seq(PageFrames) /\ Len(<<f>>) = 1 /\ <<f>>[1] = f /\ \A k \in 1..1 : k = 1
  BY <1>3
<1>5. LiveIn(<<f>>, c) /\ Below(<<f>>, c, nextSeq)
  <2>1. StartsIn(<<f>>)
    <3>1. 1 \in 1..Len(<<f>>)
      BY <1>4
    <3> QED BY <1>1, <1>4, <3>1 DEF StartsIn
  <2>2. LiveIn(<<f>>, c)
    BY <1>1, <1>4 DEF LiveIn
  <2> QED BY <1>1, <1>4, <2>1, <2>2 DEF Below
<1>6. Ends(c, <<f>>, Handled(c, f))
  <2>1. Ends(c, <<>>, c)
    BY EndsEmpty
  <2>2. <<>> \in Seq(PageFrames) /\ <<>> \o <<f>> = <<f>>
    BY <1>4, ConcatEmptySeq
  <2>3. Ends(c, <<>> \o <<f>>, Handled(c, f))
    BY <1>3, <2>1, <2>2, EndsPush
  <2> QED BY <2>2, <2>3
<1>7. Follows(<<f>>, c, Handled(c, f).pending, run, gen, nextSeq)
  <2>1. 0 < nextSeq
    OBVIOUS
  <2> QED BY <1>3, <1>4, <1>5, <1>6, <2>1 DEF Follows, Shows, Right
<1>8. Follows(<<f>> \o <<A>>, c, interactions, run, gen, nextSeq)
  BY <1>7, SendSnapshot
<1> HIDE DEF A
<1>9. <<f, A>> = <<f>> \o <<A>> /\ <<f, A>> \in Seq(PageFrames)
  BY <1>2, <1>3, PairOfFrames
<1>10. CASE adapter
  <2>1. <<f, A>> \o <<>> = <<f, A>>
    BY <1>9, ConcatEmptySeq
  <2> QED BY <1>8, <1>9, <1>10, <2>1 DEF f, A
<1>11. CASE ~adapter
  <2>1. Follows(<<f, A>> \o <<R>>, c, interactions, "disconnected", gen, nextSeq)
    <3>1. "disconnected" \in RunStates \ {"ready"}
      BY DEF RunStates
    <3> QED BY <1>8, <1>9, <3>1, SendRunAgain
  <2> QED BY <1>11, <2>1 DEF f, A
<1> QED BY <1>10, <1>11

\* The socket opens.
LEMMA OpenInv ==
    ASSUME ReplayInv, Open
    PROVE  ReplayInv'
<1>1. /\ link = "connecting" /\ link' = "up"
      /\ down' = <<Event("init", run, gen), AskSnapshot(interactions, gen)>>
                   \o (IF adapter THEN <<>> ELSE <<Event("run", "disconnected", gen)>>)
      /\ up' = <<[t |-> "subscribe", arg |-> SubscribeSeq]>>
      /\ page' = [page EXCEPT !.retry = FALSE]
      /\ UNCHANGED <<server, subs, cli>>
  BY DEF Open
<1>2. /\ cli \in Pages /\ gen \in Nat /\ nextSeq \in Nat \ {0} /\ run \in RunStates
      /\ interactions \subseteq Asks /\ (~adapter => run = "disconnected")
  BY DEF ReplayInv, ServerInv, FlightInv
<1>3. Follows(down', cli, interactions, run, gen, nextSeq)
  BY <1>1, <1>2, OpeningFollows
<1>4. FlightInv' /\ FollowInv'
  BY <1>1, <1>2, <1>3 DEF FlightInv, FollowInv, Follows, server
<1>5. LinkInv'
  <2>1. SubscribeSeq \in Nat
    BY <1>2, PageFields DEF SubscribeSeq
  <2>2. [t |-> "subscribe", arg |-> SubscribeSeq] \in Requests
    BY <2>1 DEF Requests
  <2>3. up' \in Seq(Requests)
    BY <1>1, <2>2
  <2> QED BY <1>1, <2>3 DEF ReplayInv, LinkInv
<1>6. TimerInv'
  BY <1>1 DEF ReplayInv, TimerInv, Timers
<1> QED BY <1>1, <1>4, <1>5, <1>6, ServerUnchanged DEF ReplayInv

\* The page writes a request, arms a timer or begins to connect: nothing else changes.
LEMMA SocketInv ==
    ASSUME ReplayInv, UNCHANGED <<server, subs, down, cli>>, page' \in Timers,
           up' \in Seq(Requests), link # "up" => up' = up,
           link' = link \/ (link = "none" /\ link' = "connecting")
    PROVE  ReplayInv'
<1>1. LinkInv'
  BY DEF ReplayInv, LinkInv
<1>2. TimerInv' /\ FlightInv'
  BY DEF ReplayInv, TimerInv, FlightInv
<1>3. FollowInv'
  BY DEF ReplayInv, FollowInv, server
<1> QED BY <1>1, <1>2, <1>3, ServerUnchanged DEF ReplayInv

\* A request of the page; into a socket that is not up it is lost.
LEMMA PostFacts ==
    ASSUME up \in Seq(Requests), NEW t, NEW arg, [t |-> t, arg |-> arg] \in Requests
    PROVE  Post(t, arg) \in Seq(Requests) /\ (link # "up" => Post(t, arg) = up)
<1> DEFINE q == [t |-> t, arg |-> arg]
<1>1. Append(up, q) \in Seq(Requests)
  <2>1. q \in Requests
    OBVIOUS
  <2> HIDE DEF q
  <2> QED BY <2>1
<1> QED BY <1>1 DEF Post

\* What the page asks for when it subscribes.
LEMMA SubscribeTypes ==
    ASSUME ReplayInv
    PROVE  /\ up \in Seq(Requests)
           /\ [t |-> "subscribe", arg |-> SubscribeSeq] \in Requests
           /\ [t |-> "subscribe", arg |-> 0] \in Requests
<1>1. cli \in Pages /\ up \in Seq(Requests)
  BY DEF ReplayInv, FlightInv, LinkInv
<1>2. SubscribeSeq \in Nat
  BY <1>1, PageFields DEF SubscribeSeq
<1> QED BY <1>1, <1>2 DEF Requests

\* The timers after each change the page makes.
LEMMA TimerTypes ==
    ASSUME NEW p \in Timers
    PROVE  /\ [p EXCEPT !.retry = FALSE] \in Timers /\ [p EXCEPT !.hidden = FALSE] \in Timers
           /\ \A h \in {"none", "connect", "reconcile"} : [p EXCEPT !.health = h] \in Timers
<1>1. [p EXCEPT !.retry = FALSE] \in Timers
  BY DEF Timers
<1>2. [p EXCEPT !.hidden = FALSE] \in Timers
  BY DEF Timers
<1>3. \A h \in {"none", "connect", "reconcile"} : [p EXCEPT !.health = h] \in Timers
  BY DEF Timers
<1> QED BY <1>1, <1>2, <1>3

\* connectSession.
LEMMA ConnectInv ==
    ASSUME ReplayInv, NEW p \in Timers, Connect(p), UNCHANGED <<server, subs, down, cli>>
    PROVE  ReplayInv'
<1>1. CASE link = "none" /\ link' = "connecting" /\ page' = [p EXCEPT !.health = "connect"] /\ up' = up
  BY <1>1, SubscribeTypes, TimerTypes, SocketInv
<1>2. CASE /\ link # "none" /\ page' = p /\ link' = link
           /\ up' = IF link # "connecting" /\ ~Hydrated THEN Post("subscribe", 0) ELSE up
  <2>1. Post("subscribe", 0) \in Seq(Requests) /\ (link # "up" => Post("subscribe", 0) = up)
    BY SubscribeTypes, PostFacts
  <2>2. up' \in Seq(Requests) /\ (link # "up" => up' = up)
    BY <1>2, <2>1, SubscribeTypes
  <2> QED BY <1>2, <2>2, SocketInv
<1> QED BY <1>1, <1>2 DEF Connect

\* The reconnect timer fires.
LEMMA RetryInv ==
    ASSUME ReplayInv, Retry
    PROVE  ReplayInv'
<1>1. Connect([page EXCEPT !.retry = FALSE]) /\ UNCHANGED <<server, subs, down, cli>>
  BY DEF Retry
<1>2. [page EXCEPT !.retry = FALSE] \in Timers
  BY TimerTypes DEF ReplayInv, TimerInv
<1> QED BY <1>1, <1>2, ConnectInv

\* The page is hidden.
LEMMA HideInv ==
    ASSUME ReplayInv, Hide
    PROVE  ReplayInv'
<1>1. /\ page' = [hidden |-> TRUE, retry |-> FALSE, health |-> "none"]
      /\ UNCHANGED <<server, subs, link, up, down, cli>>
  BY DEF Hide
<1>2. page' \in Timers
  BY <1>1 DEF Timers
<1> QED BY <1>1, <1>2, SubscribeTypes, SocketInv

\* The page is shown again or the network is back.
LEMMA ResumeInv ==
    ASSUME ReplayInv, Resume
    PROVE  ReplayInv'
<1> DEFINE p == [page EXCEPT !.hidden = FALSE]
<1>1. Resumed(p) /\ UNCHANGED <<server, subs, down, cli>>
  BY DEF Resume
<1>2. p \in Timers
  BY TimerTypes DEF ReplayInv, TimerInv
<1> HIDE DEF p
<1>3. CASE link' = link /\ up' = Post("subscribe", SubscribeSeq) /\ page' = [p EXCEPT !.health = "reconcile"]
  <2>1. up' \in Seq(Requests) /\ (link # "up" => up' = up)
    BY <1>3, SubscribeTypes, PostFacts
  <2> QED BY <1>1, <1>2, <1>3, <2>1, TimerTypes, SocketInv
<1>4. CASE link' = link /\ up' = up /\ page' = [p EXCEPT !.health = "connect"]
  BY <1>1, <1>2, <1>4, SubscribeTypes, TimerTypes, SocketInv
<1>5. CASE Connect(p)
  BY <1>1, <1>2, <1>5, ConnectInv
<1> QED BY <1>1, <1>3, <1>4, <1>5 DEF Resumed

\* The user answers.
LEMMA AnswerAskInv ==
    ASSUME ReplayInv, NEW a \in Asks, AnswerAsk(a)
    PROVE  ReplayInv'
<1>1. up' = Post("answer", a) /\ UNCHANGED <<server, subs, link, down, cli, page>>
  BY DEF AnswerAsk
<1>2. [t |-> "answer", arg |-> a] \in Requests
  BY DEF Requests
<1>3. up' \in Seq(Requests) /\ (link # "up" => up' = up)
  BY <1>1, <1>2, SubscribeTypes, PostFacts
<1>4. page' \in Timers
  BY <1>1 DEF ReplayInv, TimerInv
<1> QED BY <1>1, <1>3, <1>4, SocketInv

\* The user sends a prompt: the frames in flight are handled as before, but for the run
\* state the page keeps until one of them sets it.
LEMMA SendPromptInv ==
    ASSUME ReplayInv, SendPrompt
    PROVE  ReplayInv'
<1>1. cli' = Prompted(cli) /\ UNCHANGED <<server, subs, link, up, down, page>>
  BY DEF SendPrompt, Prompted
<1>2. cli \in Pages /\ down \in Seq(PageFrames) /\ LiveIn(down, cli)
  BY DEF ReplayInv, FlightInv
<1>3. cli' \in Pages /\ cli'.seq = cli.seq
  BY <1>1, <1>2, PromptedFields
<1>4. FlightInv'
  BY <1>1, <1>2, <1>3 DEF FlightInv, LiveIn
<1>5. FollowInv'
  <2> SUFFICES ASSUME link' = "up" PROVE Follows(down', cli', interactions', run', gen', nextSeq')
    BY DEF FollowInv
  <2>1. Follows(down, cli, interactions, run, gen, nextSeq)
    BY <1>1 DEF ReplayInv, FollowInv
  <2>2. PICK e : Ends(cli, down, e) /\ Shows(e, interactions, run, gen, nextSeq)
    BY <2>1 DEF Follows
  <2>3. e \in Pages
    BY <2>2 DEF Shows
  <2>4. \E z \in {e, Prompted(e)} : Ends(cli', down, z)
    BY <1>1, <1>2, <2>2, <2>3, PromptedEnds
  <2>5. Shows(Prompted(e), interactions, run, gen, nextSeq)
    BY <2>2, <2>3, PromptedFields DEF Shows, Right
  <2>6. Below(down, cli', nextSeq)
    BY <1>3, <2>1 DEF Follows, Below
  <2> QED BY <1>1, <1>4, <2>2, <2>4, <2>5, <2>6 DEF Follows, FlightInv, server
<1>6. LinkInv' /\ TimerInv'
  BY <1>1 DEF ReplayInv, LinkInv, TimerInv
<1> QED BY <1>1, <1>4, <1>5, <1>6, ServerUnchanged DEF ReplayInv

\* Every step keeps the invariant.
LEMMA PageNextInv == ReplayInv /\ [PageNext]_pageVars => ReplayInv'
<1> SUFFICES ASSUME ReplayInv, [PageNext]_pageVars PROVE ReplayInv'
  OBVIOUS
<1>1. ASSUME PiStep PROVE ReplayInv'
  <2>1. CASE \E m \in Msgs : PiMessage(m)
    BY <2>1, PiMessageInv
  <2>2. CASE \E a \in Asks : PiAsk(a) \/ AskExpires(a) \/ OtherAnswers(a)
    <3>1. PICK a \in Asks : PiAsk(a) \/ AskExpires(a) \/ OtherAnswers(a)
      BY <2>2
    <3>2. CASE OtherAnswers(a)
      <4>1. Accept(a) /\ up' = up
        BY <3>2 DEF OtherAnswers
      <4> QED BY <4>1, AcceptInv
    <3> QED BY <3>1, <3>2, PiAskInv, AskExpiresInv
  <2>3. CASE \E s \in {"ready", "running"} : PiRun(s) \/ Attach(s)
    BY <2>3, PiRunInv, AttachInv
  <2>4. CASE Detach
    BY <2>4, DetachInv
  <2>5. CASE \E s \in {"enabled", "closed"} : Lifecycle(s)
    BY <2>5, LifecycleInv
  <2> QED BY <1>1, <2>1, <2>2, <2>3, <2>4, <2>5 DEF PiStep
<1>2. ASSUME Served PROVE ReplayInv'
  <2>1. CASE Subscribe
    BY <2>1, SubscribeInv
  <2>2. CASE Answered
    BY <2>2, AnsweredInv
  <2>3. CASE \E i \in DOMAIN subs : ReadHistory(i) \/ SendHistory(i)
    BY <2>3, ReadHistoryInv, SendHistoryInv
  <2> QED BY <1>2, <2>1, <2>2, <2>3 DEF Served
<1>3. CASE Deliver
  BY <1>3, DeliverInv
<1>4. CASE Open
  BY <1>4, OpenInv
<1>5. CASE Retry
  BY <1>5, RetryInv
<1>6. CASE Closed \/ HealthTimer
  <2>1. Unlinked /\ UNCHANGED <<server, cli>>
    BY <1>6 DEF Closed, HealthTimer
  <2> QED BY <2>1, GivenUpInv
<1>7. CASE Restart
  BY <1>7, RestartInv
<1>8. CASE Cut
  BY <1>8, CutInv
<1>9. CASE Hide
  BY <1>9, HideInv
<1>10. CASE Resume
  BY <1>10, ResumeInv
<1>11. CASE \E a \in Asks : AnswerAsk(a)
  BY <1>11, AnswerAskInv
<1>13. CASE SendPrompt
  BY <1>13, SendPromptInv
<1>12. CASE UNCHANGED pageVars
  <2>1. UNCHANGED <<server, subs, link, up, down, cli, page>>
    BY <1>12 DEF pageVars
  <2>2. page' \in Timers
    BY <2>1 DEF ReplayInv, TimerInv
  <2> QED BY <2>1, <2>2, SubscribeTypes, SocketInv
<1> QED BY <1>1, <1>2, <1>3, <1>4, <1>5, <1>6, <1>7, <1>8, <1>9, <1>10, <1>11, <1>12, <1>13 DEF PageNext

\* Once every frame is handled, the page shows what the session is.
LEMMA InvAgrees == ReplayInv => PageAgrees
<1> SUFFICES ASSUME ReplayInv PROVE PageAgrees
  OBVIOUS
<1>1. PageTypeOK
  <2>1. /\ gen \in Nat /\ adapter \in BOOLEAN /\ run \in RunStates
        /\ interactions \subseteq Asks /\ (interactions # {} => adapter)
        /\ nextSeq \in Nat \ {0} /\ disk \subseteq Msgs
    BY DEF ReplayInv, ServerInv
  <2>2. Len(buffer) <= BufMax /\ BufferOK(buffer, nextSeq, gen)
    BY DEF ReplayInv, BufferInv
  <2>3. ASSUME NEW i \in DOMAIN buffer
        PROVE  /\ Buffered(buffer[i]) /\ buffer[i].seq < nextSeq
               /\ i > 1 => buffer[i - 1].seq < buffer[i].seq
    <3>1. i \in 1..Len(buffer) /\ buffer[i] \in Replayable
      BY <2>2 DEF BufferOK
    <3>2. Buffered(buffer[i]) /\ buffer[i].seq < nextSeq
      BY <2>2, <3>1 DEF BufferOK, Replayable, Buffered
    <3>3. ASSUME i > 1 PROVE buffer[i - 1].seq < buffer[i].seq
      <4>1. i - 1 \in 1..Len(buffer) /\ i - 1 < i
        BY <3>1, <3>3
      <4> QED BY <2>2, <3>1, <4>1 DEF BufferOK
    <3> QED BY <3>2, <3>3
  <2>4. link \in {"none", "connecting", "up", "cut"} /\ (link # "up" => up = <<>> /\ subs = <<>>)
    BY DEF ReplayInv, LinkInv
  <2>5. cli \in Pages
    BY DEF ReplayInv, FlightInv
  <2>6. page \in Timers
    BY DEF ReplayInv, TimerInv
  <2> QED BY <2>1, <2>2, <2>3, <2>4, <2>5, <2>6 DEF PageTypeOK, Pages, Timers
<1>2. ASSUME Quiet PROVE cli.pending = interactions /\ Right(cli, run)
  <2>1. cli \in Pages /\ down = <<>> /\ Follows(down, cli, interactions, run, gen, nextSeq)
    BY <1>2 DEF Quiet, ReplayInv, FlightInv, FollowInv
  <2>2. PICK e : Ends(cli, <<>>, e) /\ Shows(e, interactions, run, gen, nextSeq)
    BY <2>1 DEF Follows
  <2>3. e = cli
    BY <2>1, <2>2, EndsEmpty
  <2> QED BY <2>2, <2>3 DEF Shows
<1> QED BY <1>1, <1>2 DEF PageAgrees, PendingAgree, RunAgree, Right

\* No number of a connection makes the page drop a live event.
LEMMA InvLive == ReplayInv => LiveNotDropped
<1> SUFFICES ASSUME ReplayInv PROVE LiveNotDropped
  OBVIOUS
<1>1. down \in Seq(PageFrames) /\ LiveIn(down, cli)
  BY DEF ReplayInv, FlightInv
<1>2. DOMAIN down = 1..Len(down)
  BY <1>1
<1> QED BY <1>1, <1>2 DEF LiveNotDropped, LiveIn, Starting, StartsIn

-----------------------------------------------------------------------------
\* After any sequence of drops, replays, snapshots, histories and server restarts, a page
\* that has handled every frame of an open connection shows the interactions Pi waits for
\* and the session's run state (ws-bridge-controls.ts, ws.ts).
THEOREM PageAlwaysAgrees == PageSpec => []PageAgrees
<1>1. ReplayInv => PageAgrees
  BY InvAgrees
<1> QED BY PageInitInv, PageNextInv, <1>1, PTL DEF PageSpec

\* The cursor the page keeps and the numbers the bridge gives never make the page drop
\* an event it has not seen: each is past the cursor and past all in flight before it.
THEOREM NoLiveEventDropped == PageSpec => []LiveNotDropped
<1>1. ReplayInv => LiveNotDropped
  BY InvLive
<1> QED BY PageInitInv, PageNextInv, <1>1, PTL DEF PageSpec

==============================================================================
