-------------------------- MODULE ExecutionContour --------------------------
(***************************************************************************)
(* The execution contour of the gateway: POST /api/v1/execute              *)
(* (execute/routes.ts), executeWithRetry (execute/retry-executor.ts), the  *)
(* ExecutionRegistry (execute/execution-registry.ts) and the cancel route, *)
(* on top of the HostCallDispatcher.                                       *)
(*                                                                         *)
(* The gateway is a single JavaScript thread, so a step here is what runs  *)
(* from one await to the next.  When a promise is settled, the code        *)
(* awaiting it runs in a later step, and an abort may come in between.     *)
(***************************************************************************)
EXTENDS HostCallDispatcher, ExecutionEvents

CONSTANTS
  Executions,   \* execution ids
  MaxAttempts,  \* ExecutionRetryConfig.maxAttempts; the route passes none: 1
  Reasons,      \* of cancellations, "disconnect" among them; routes take any string
  NoReason      \* the AbortSignal is not aborted

ASSUME ContourConstants ==
  /\ MaxAttempts \in Nat \ {0}
  /\ Requests = Executions \X (1..MaxAttempts)  \* one request id per attempt
  /\ "execution" \in Capabilities
  /\ "disconnect" \in Reasons
  /\ NoReason \notin Reasons

VARIABLES
  phase,       \* where the route handler of an execution is suspended
  nsOf,        \* ActiveExecution.namespaceId
  hostOf,      \* ActiveExecution.hostId: chosen once, used by every attempt
  attempt,     \* loop variable of executeWithRetry
  executions,  \* keys of the ExecutionRegistry
  aborted,     \* reason of the execution's AbortSignal, or NoReason
  response,    \* the ndjson response: "none", "open", "gone" (client left) or "ended"
  stream,      \* events passed to writeEvent
  accepted     \* reasons of the cancel requests answered with success

routeVars == <<phase, nsOf, hostOf, attempt, executions, aborted, response, stream, accepted>>
vars == <<connections, capabilityIndex, issued, pending, chunks, timers, settled,
          phase, nsOf, hostOf, attempt, executions, aborted, response, stream, accepted>>

Phases == {"idle", "refused", "racing", "backoff", "ended"}
Live(e) == phase[e] \in {"racing", "backoff"}
Aborted(e) == aborted[e] # NoReason
Request(e) == <<e, attempt[e]>>

Events ==
  [type : {"execution:retry"}, attempt : 1..MaxAttempts]
    \cup {ErrorEvent}
    \cup [type : {"execution:cancelled"}, reason : Reasons]
    \cup [type : {"execution:done"}, exitCode : {0, 1, 130}]

RouteTypeOK ==
  /\ phase \in [Executions -> Phases]
  /\ nsOf \in [Executions -> Namespaces \cup {Undefined}]
  /\ hostOf \in [Executions -> Hosts \cup {Undefined}]
  /\ attempt \in [Executions -> 0..MaxAttempts]
  /\ executions \subseteq Executions
  /\ aborted \in [Executions -> Reasons \cup {NoReason}]
  /\ response \in [Executions -> {"none", "open", "gone", "ended"}]
  /\ stream \in [Executions -> Seq(Events)]
  /\ accepted \in [Executions -> SUBSET Reasons]
  /\ \A e \in Executions : Live(e) => nsOf[e] \in Namespaces /\ hostOf[e] \in Hosts

Init ==
  /\ DispatcherInit
  /\ phase = [e \in Executions |-> "idle"]
  /\ nsOf = [e \in Executions |-> Undefined]
  /\ hostOf = [e \in Executions |-> Undefined]
  /\ attempt = [e \in Executions |-> 0]
  /\ executions = {}
  /\ aborted = [e \in Executions |-> NoReason]
  /\ response = [e \in Executions |-> "none"]
  /\ stream = [e \in Executions |-> << >>]
  /\ accepted = [e \in Executions |-> {}]

-----------------------------------------------------------------------------
\* POST /api/v1/execute

\* No connected host offers 'execution' in the caller's namespace: 503.
ExecuteRefused(e, ns) ==
  /\ phase[e] = "idle"
  /\ FirstHostWithCapability(ns, "execution") = {Undefined}
  /\ phase' = [phase EXCEPT ![e] = "refused"]
  /\ UNCHANGED <<dispatcherVars, nsOf, hostOf, attempt, executions, aborted, response,
                 stream, accepted>>

(***************************************************************************)
(* From the host lookup to the first await of executeWithRetry without a   *)
(* suspension: the execution is registered, the response is opened and the *)
(* first attempt is sent.                                                  *)
(***************************************************************************)
ExecuteStart(e, ns, h) ==
  /\ phase[e] = "idle"
  /\ h \in FirstHostWithCapability(ns, "execution") \ {Undefined}
  /\ executions' = executions \cup {e}
  /\ nsOf' = [nsOf EXCEPT ![e] = ns]
  /\ hostOf' = [hostOf EXCEPT ![e] = h]
  /\ response' = [response EXCEPT ![e] = "open"]
  /\ attempt' = [attempt EXCEPT ![e] = 1]
  /\ Call(<<e, 1>>, ns, h)
  /\ phase' = [phase EXCEPT ![e] = "racing"]
  /\ UNCHANGED <<routingVars, aborted, stream, accepted>>

\* Mutant: the finally block forgets executionRegistry.remove.
FinishWithoutRemove(e, events) ==
  /\ stream' = [stream EXCEPT ![e] = @ \o events]
  /\ response' = [response EXCEPT ![e] = IF @ = "open" THEN "ended" ELSE @]
  /\ phase' = [phase EXCEPT ![e] = "ended"]
  /\ UNCHANGED <<dispatcherVars, nsOf, hostOf, attempt, executions, aborted, accepted>>

\* The last events, then the finally block: remove the entry, end the response.
Finish(e, events) ==
  /\ stream' = [stream EXCEPT ![e] = @ \o events]
  /\ executions' = executions \ {e}
  /\ response' = [response EXCEPT ![e] = IF @ = "open" THEN "ended" ELSE @]
  /\ phase' = [phase EXCEPT ![e] = "ended"]
  /\ UNCHANGED <<dispatcherVars, nsOf, hostOf, attempt, aborted, accepted>>

-----------------------------------------------------------------------------
\* executeWithRetry: what happens after the await of raceAbort.

\* classifyError
Retryable(err) == err \in {"timed_out", "remote_transport", "host_not_connected"}

\* Mutant: a result that is already there wins over the abort.
AttemptSettledDespiteAbort(e) ==
  /\ phase[e] = "racing"
  /\ settled[Request(e)] # Unsettled

\* raceAbort lets the settled attempt through unless the signal came first.
AttemptSettled(e) ==
  /\ phase[e] = "racing"
  /\ ~Aborted(e)
  /\ settled[Request(e)] # Unsettled

AttemptSucceeded(e) ==
  /\ AttemptSettled(e)
  /\ settled[Request(e)].status = "resolved"
  /\ Finish(e, <<DoneEvent(0)>>)

RetriesLeft(e) ==
  attempt[e] < MaxAttempts /\ Retryable(settled[Request(e)].error)

AttemptFailed(e) ==
  /\ AttemptSettled(e)
  /\ settled[Request(e)].status = "rejected"
  /\ ~RetriesLeft(e)
  /\ Finish(e, <<ErrorEvent, DoneEvent(1)>>)

\* Mutant: the retry is not reported.
AttemptRetriedSilently(e) ==
  /\ AttemptSettled(e)
  /\ settled[Request(e)].status = "rejected"
  /\ RetriesLeft(e)
  /\ phase' = [phase EXCEPT ![e] = "backoff"]
  /\ UNCHANGED <<dispatcherVars, nsOf, hostOf, attempt, executions, aborted, response, stream,
                 accepted>>

\* Mutant: the retry is reported with the number of the attempt to come.
AttemptRetriedNumberedNext(e) ==
  /\ AttemptSettled(e)
  /\ settled[Request(e)].status = "rejected"
  /\ RetriesLeft(e)
  /\ stream' = [stream EXCEPT ![e] = Append(@, RetryEvent(attempt[e] + 1))]
  /\ phase' = [phase EXCEPT ![e] = "backoff"]
  /\ UNCHANGED <<dispatcherVars, nsOf, hostOf, attempt, executions, aborted, response,
                 accepted>>

AttemptRetried(e) ==
  /\ AttemptSettled(e)
  /\ settled[Request(e)].status = "rejected"
  /\ RetriesLeft(e)
  /\ stream' = [stream EXCEPT ![e] = Append(@, RetryEvent(attempt[e]))]
  /\ phase' = [phase EXCEPT ![e] = "backoff"]
  /\ UNCHANGED <<dispatcherVars, nsOf, hostOf, attempt, executions, aborted, response,
                 accepted>>

\* Mutant: the loop does not look at the signal after the delay.
BackoffElapsedDespiteAbort(e) ==
  /\ phase[e] = "backoff"
  /\ attempt' = [attempt EXCEPT ![e] = @ + 1]
  /\ Call(<<e, attempt[e] + 1>>, nsOf[e], hostOf[e])
  /\ phase' = [phase EXCEPT ![e] = "racing"]
  /\ UNCHANGED <<routingVars, nsOf, hostOf, executions, aborted, response, stream, accepted>>

(***************************************************************************)
(* The delay is over: the next attempt goes to the same host.  An abort    *)
(* clears the timer of interruptibleDelay, and the loop checks the signal. *)
(***************************************************************************)
BackoffElapsed(e) ==
  /\ phase[e] = "backoff"
  /\ ~Aborted(e)
  /\ attempt' = [attempt EXCEPT ![e] = @ + 1]
  /\ Call(<<e, attempt[e] + 1>>, nsOf[e], hostOf[e])
  /\ phase' = [phase EXCEPT ![e] = "racing"]
  /\ UNCHANGED <<routingVars, nsOf, hostOf, executions, aborted, response, stream, accepted>>

\* CancelledError out of raceAbort or interruptibleDelay.
ExecutionCancelled(e) ==
  /\ Live(e)
  /\ Aborted(e)
  /\ Finish(e, <<CancelledEvent(aborted[e]), DoneEvent(130)>>)

-----------------------------------------------------------------------------
\* Cancellation

\* Mutant: the check of signal.aborted is dropped, a later reason overwrites.
CancelAgain(e, reason) ==
  /\ e \in executions
  /\ aborted' = [aborted EXCEPT ![e] = reason]

\* ExecutionRegistry.cancel returning true.
Cancel(e, reason) ==
  /\ e \in executions
  /\ ~Aborted(e)
  /\ aborted' = [aborted EXCEPT ![e] = reason]

(***************************************************************************)
(* POST /execute/:id/cancel and client:cancel.  An unknown execution, one  *)
(* of another namespace and one already aborted get 404, 403 and 409 and   *)
(* change nothing.                                                         *)
(***************************************************************************)
CancelRequested(e, ns, reason) ==
  /\ e \in executions
  /\ nsOf[e] = ns
  /\ Cancel(e, reason)
  /\ accepted' = [accepted EXCEPT ![e] = @ \cup {reason}]
  /\ UNCHANGED <<dispatcherVars, phase, nsOf, hostOf, attempt, executions, response, stream>>

(***************************************************************************)
(* 'close' of the response before it was finished: the client left.        *)
(***************************************************************************)
ClientClosed(e) ==
  /\ response[e] = "open"
  /\ response' = [response EXCEPT ![e] = "gone"]
  /\ \/ Cancel(e, "disconnect")
     \/ Aborted(e) /\ UNCHANGED aborted
  /\ UNCHANGED <<dispatcherVars, phase, nsOf, hostOf, attempt, executions, stream, accepted>>

-----------------------------------------------------------------------------
\* Hosts

HostConnected(h, ns, ws, caps) ==
  /\ RegisterConnection(h, ns, ws, caps)
  /\ UNCHANGED <<callVars, routeVars>>

\* Mutant: the close handler forgets cancelByHost.
CancelByHostForgotten(h) == UNCHANGED aborted

\* Mutant: the arguments of cancelByHost are swapped, the host becomes the reason.
CancelByHostSwapped(h) ==
  aborted' = [e \in Executions |->
                IF e \in executions /\ hostOf[e] = h /\ ~Aborted(e) THEN h ELSE aborted[e]]

\* cancelByHost: every execution dispatched to the host, whatever its namespace.
CancelByHost(h) ==
  aborted' = [e \in Executions |->
                IF e \in executions /\ hostOf[e] = h /\ ~Aborted(e)
                  THEN "disconnect" ELSE aborted[e]]

(***************************************************************************)
(* 'close' of an agent socket, up to the first await of the handler.  It   *)
(* may be a socket the host has already replaced.                          *)
(***************************************************************************)
HostClosed(h, ns) ==
  /\ RemoveConnection(h, ns)
  /\ CancelByHost(h)
  /\ UNCHANGED <<callVars, phase, nsOf, hostOf, attempt, executions, response, stream,
                 accepted>>

HostReplied(r) == Inbound(r) /\ UNCHANGED <<routingVars, routeVars>>
HostTimedOut(r) == CallTimeout(r) /\ UNCHANGED <<routingVars, routeVars>>

-----------------------------------------------------------------------------
Continue(e) ==
  \/ AttemptSucceeded(e)
  \/ AttemptFailed(e)
  \/ AttemptRetried(e)
  \/ ExecutionCancelled(e)

Next ==
  \/ \E e \in Executions, ns \in Namespaces :
       \/ ExecuteRefused(e, ns)
       \/ \E h \in Hosts : ExecuteStart(e, ns, h)
       \/ \E reason \in Reasons : CancelRequested(e, ns, reason)
  \/ \E e \in Executions : Continue(e) \/ BackoffElapsed(e) \/ ClientClosed(e)
  \/ \E h \in Hosts, ns \in Namespaces :
       \/ \E ws \in Sockets, caps \in SUBSET Capabilities : HostConnected(h, ns, ws, caps)
       \/ HostClosed(h, ns)
  \/ \E r \in Requests : HostReplied(r) \/ HostTimedOut(r)

(***************************************************************************)
(* Fairness: continuations of settled promises run, and timers that are    *)
(* not cleared fire.  Hosts and clients may do nothing for ever.           *)
(***************************************************************************)
Fairness ==
  /\ \A e \in Executions : WF_vars(Continue(e)) /\ WF_vars(BackoffElapsed(e))
  /\ \A r \in Requests : WF_vars(HostTimedOut(r))

Spec == Init /\ [][Next]_vars
FairSpec == Spec /\ Fairness

-----------------------------------------------------------------------------
\* Type invariant of the contour and of the dispatcher below it.
TypeOK == DispatcherTypeOK /\ RouteTypeOK

(***************************************************************************)
(* The ExecutionRegistry holds exactly the executions whose handler is     *)
(* still running: none leaks after the finally block of routes.ts, and     *)
(* none can be finished and still be cancelled.  A response that was ended *)
(* belongs to a finished execution.                                        *)
(***************************************************************************)
RegistryExact ==
  /\ executions = {e \in Executions : Live(e)}
  /\ \A e \in Executions : response[e] = "ended" => phase[e] = "ended"

(***************************************************************************)
(* A cancel request answered with success wins over a result, an error or  *)
(* a timeout that arrives around the same time: its reason is the one that *)
(* the stream reports, and the stream ends with exit code 130.             *)
(***************************************************************************)
AcceptedCancelWins ==
  \A e \in Executions : \A reason \in accepted[e] :
    /\ aborted[e] = reason
    /\ phase[e] = "ended" =>
         LET n == Len(stream[e])
         IN  /\ n > 1
             /\ stream[e][n - 1] = CancelledEvent(reason)
             /\ stream[e][n] = DoneEvent(130)

(***************************************************************************)
(* "A cancelled execution never retries" (ADR-0010): from the abort on, an *)
(* execution sends no further attempt, starts no further delay and keeps   *)
(* its reason; all it does is end.                                         *)
(***************************************************************************)
AbortOnlyEnds ==
  [][\A e \in Executions : Aborted(e) /\ Live(e) =>
       /\ aborted'[e] = aborted[e]
       /\ attempt'[e] = attempt[e]
       /\ phase'[e] \in {phase[e], "ended"}
       /\ \A n \in 1..MaxAttempts : <<e, n>> \in issued' => <<e, n>> \in issued]_vars

(***************************************************************************)
(* No execution outlives its host unnoticed: while it is live and not      *)
(* aborted its host is connected, so no attempt of it ever fails with      *)
(* "Host not connected" (the HOST_UNAVAILABLE case of classifyError).      *)
(***************************************************************************)
HostLossAborts ==
  /\ \A e \in Executions : Live(e) /\ ~Aborted(e) => Connected(nsOf[e], hostOf[e])
  /\ \A r \in Requests : settled[r] # Rejected("host_not_connected")

(***************************************************************************)
(* Attempts of one execution are made one after the other: attempts 1, 2,  *)
(* ... are sent without gaps, each one after the one before was settled    *)
(* and reported with one execution:retry event, and nothing is pending for *)
(* an execution that waits in a backoff.                                   *)
(***************************************************************************)
AttemptsExact ==
  \A e \in Executions :
    /\ \A n \in 1..MaxAttempts : <<e, n>> \in issued <=> n <= attempt[e]
    /\ \A n \in 1..MaxAttempts : n < attempt[e] => <<e, n>> \notin pending
    /\ phase[e] \in {"idle", "refused"} => attempt[e] = 0 /\ stream[e] = << >>
    /\ phase[e] = "racing" => attempt[e] > 0 /\ Len(stream[e]) = attempt[e] - 1
    /\ phase[e] = "backoff" => /\ attempt[e] \in 1..(MaxAttempts - 1)
                               /\ Len(stream[e]) = attempt[e]
                               /\ Request(e) \notin pending

\* An execution that was started ends: with a result, an error or a cancellation.
EveryExecutionEnds ==
  \A e \in Executions : Live(e) ~> (phase[e] = "ended" /\ e \notin executions)

-----------------------------------------------------------------------------
\* Refinement: the contour implements what ExecutionStream promises.

StreamStatus == [e \in Executions |-> IF Live(e) THEN "live" ELSE phase[e]]

Stream == INSTANCE ExecutionStream WITH status <- StreamStatus, cancelledBy <- aborted

(***************************************************************************)
(* Every behaviour of the contour is one ExecutionStream allows: retries   *)
(* numbered from 1, one ending, nothing after execution:done, the          *)
(* cancelled form exactly for executions aborted while live.               *)
(***************************************************************************)
ImplementsStream == Stream!Spec
=============================================================================
