-------------------------- MODULE ExecutionStream --------------------------
(***************************************************************************)
(* What POST /api/v1/execute promises its clients, without hosts, timers   *)
(* or retry policies: an execution is refused, or it is opened and its   *)
(* event stream is                                                         *)
(*     execution:retry*  then  done(0)                                     *)
(*                         or  error, done(1)                              *)
(*                         or  cancelled(reason), done(130)                *)
(* with the last form exactly when a cancellation was accepted while the   *)
(* execution was live.  From then on there is no retry either.             *)
(***************************************************************************)
EXTENDS ExecutionEvents, Naturals, Sequences

CONSTANTS
  Executions,   \* execution ids
  MaxAttempts,  \* ExecutionRetryConfig.maxAttempts
  Reasons,      \* CancellationReason
  NoReason      \* not cancelled

VARIABLES
  status,       \* "idle", "refused", "live" or "ended"
  cancelledBy,  \* the accepted cancellation, if any
  stream        \* events written so far

streamVars == <<status, cancelledBy, stream>>

Init ==
  /\ status = [e \in Executions |-> "idle"]
  /\ cancelledBy = [e \in Executions |-> NoReason]
  /\ stream = [e \in Executions |-> << >>]

Refuse(e) ==
  /\ status[e] = "idle"
  /\ status' = [status EXCEPT ![e] = "refused"]
  /\ UNCHANGED <<cancelledBy, stream>>

Open(e) ==
  /\ status[e] = "idle"
  /\ status' = [status EXCEPT ![e] = "live"]
  /\ UNCHANGED <<cancelledBy, stream>>

\* The n-th retry event of a stream says attempt n; at most MaxAttempts - 1.
Retry(e) ==
  /\ status[e] = "live"
  /\ cancelledBy[e] = NoReason
  /\ Len(stream[e]) + 1 < MaxAttempts
  /\ stream' = [stream EXCEPT ![e] = Append(@, RetryEvent(Len(@) + 1))]
  /\ UNCHANGED <<status, cancelledBy>>

\* One event may cancel several executions: a host takes its own with it.
Accept(S, reason) ==
  /\ \A e \in S : status[e] = "live" /\ cancelledBy[e] = NoReason
  /\ cancelledBy' = [e \in Executions |-> IF e \in S THEN reason ELSE cancelledBy[e]]
  /\ UNCHANGED <<status, stream>>

Endings(e) ==
  IF cancelledBy[e] = NoReason
    THEN {<<DoneEvent(0)>>, <<ErrorEvent, DoneEvent(1)>>}
    ELSE {<<CancelledEvent(cancelledBy[e]), DoneEvent(130)>>}

Close(e) ==
  /\ status[e] = "live"
  /\ \E ending \in Endings(e) : stream' = [stream EXCEPT ![e] = @ \o ending]
  /\ status' = [status EXCEPT ![e] = "ended"]
  /\ UNCHANGED cancelledBy

Next ==
  \/ \E e \in Executions : Refuse(e) \/ Open(e) \/ Retry(e) \/ Close(e)
  \/ \E S \in SUBSET Executions, reason \in Reasons : Accept(S, reason)

Spec == Init /\ [][Next]_streamVars
=============================================================================
