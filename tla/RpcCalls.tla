------------------------------ MODULE RpcCalls ------------------------------
(***************************************************************************)
(* What the native Pi RPC transport promises its callers, with no queue,   *)
(* stream or timer in sight: a call is started at most once and only while *)
(* the transport is open, every settled call keeps its outcome for ever,   *)
(* and closing the transport settles every call that is still waiting, in  *)
(* one step and with the close code.                                       *)
(***************************************************************************)
EXTENDS Naturals

CONSTANTS
    MaxRequests,  \* how many calls one transport generation may carry
    CallFailures, \* ways one call alone may fail
    CloseCodes    \* ways the whole transport may end

VARIABLES
    closedError,  \* "none" while open, then the close code
    outcome       \* call number -> what its caller has been told

callVars == <<closedError, outcome>>

Calls == 1..MaxRequests

CallsInit ==
    /\ closedError = "none"
    /\ outcome = [i \in Calls |-> "unused"]

\* A call is issued; it may fail at once (an aborted signal, an oversized frame).
Start(i, o) ==
    /\ closedError = "none"
    /\ outcome[i] = "unused"
    /\ o \in {"waiting"} \cup CallFailures
    /\ outcome' = [outcome EXCEPT ![i] = o]
    /\ UNCHANGED closedError

\* A waiting call is answered, times out, or is aborted by its caller.
Settle(i, o) ==
    /\ closedError = "none"
    /\ outcome[i] = "waiting"
    /\ o \in {"resolved"} \cup CallFailures
    /\ outcome' = [outcome EXCEPT ![i] = o]
    /\ UNCHANGED closedError

\* A caller gives up and a follow-up call is issued in its place.
SettleAndStart(i, o, j) ==
    /\ closedError = "none"
    /\ i # j
    /\ outcome[i] \in {"unused", "waiting"}
    /\ outcome[j] = "unused"
    /\ o \in CallFailures
    /\ outcome' = [outcome EXCEPT ![i] = o, ![j] = "waiting"]
    /\ UNCHANGED closedError

\* The transport ends; one call may fail on its own account in the same step.
Close(code, failing, o) ==
    /\ closedError = "none"
    /\ code \in CloseCodes
    /\ o \in CallFailures
    /\ failing \in SUBSET Calls
    /\ \A i \in failing : outcome[i] = "waiting"
    /\ closedError' = code
    /\ outcome' = [i \in Calls |->
                     IF i \in failing THEN o
                     ELSE IF outcome[i] = "waiting" THEN code ELSE outcome[i]]

CallsNext ==
    \/ \E i \in Calls, o \in {"waiting"} \cup CallFailures : Start(i, o)
    \/ \E i \in Calls, o \in {"resolved"} \cup CallFailures : Settle(i, o)
    \/ \E i, j \in Calls, o \in CallFailures : SettleAndStart(i, o, j)
    \/ \E code \in CloseCodes, failing \in SUBSET Calls, o \in CallFailures :
          Close(code, failing, o)

CallsSpec == CallsInit /\ [][CallsNext]_callVars
=============================================================================
