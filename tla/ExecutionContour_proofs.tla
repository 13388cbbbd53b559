---------------------- MODULE ExecutionContour_proofs ----------------------
(***************************************************************************)
(* Proofs about ExecutionContour, for any number of executions, attempts,  *)
(* hosts and namespaces: the invariants the run "contour" checks on a      *)
(* small instance, the action property on aborts, and that the contour     *)
(* implements ExecutionStream.                                             *)
(***************************************************************************)
EXTENDS ExecutionContour, HostCallDispatcher_proofs

(***************************************************************************)
(* The inductive invariant.  HostLossAborts needs the registry to hold all *)
(* live executions (cancelByHost looks there), AcceptedCancelWins needs it *)
(* to hold only those (a cancel must not reach a finished execution), and  *)
(* the refinement needs the attempts to be counted as AttemptsExact says.  *)
(***************************************************************************)
ContourInv ==
  /\ DispatcherInv
  /\ RouteTypeOK
  /\ RegistryExact
  /\ HostLossAborts
  /\ AttemptsExact
  /\ AcceptedCancelWins

-----------------------------------------------------------------------------
\* firstHostWithCapability answers with a connected host, if with any.
LEMMA FirstHostConnected ==
  ASSUME RoutingTypeOK, NEW ns \in Namespaces,
         NEW h \in FirstHostWithCapability(ns, "execution") \ {Undefined}
  PROVE  h \in Hosts /\ Connected(ns, h)
BY ContourConstants DEF RoutingTypeOK, FirstHostWithCapability

\* The events the contour writes.
LEMMA EventTypes ==
  /\ \A n \in 1..MaxAttempts : RetryEvent(n) \in Events
  /\ \A reason \in Reasons : <<CancelledEvent(reason), DoneEvent(130)>> \in Seq(Events)
  /\ <<DoneEvent(0)>> \in Seq(Events)
  /\ <<ErrorEvent, DoneEvent(1)>> \in Seq(Events)
<1>1. \A n \in 1..MaxAttempts : RetryEvent(n) \in Events
  BY DEF RetryEvent, Events
<1>2. \A code \in {0, 1, 130} : DoneEvent(code) \in Events
  BY DEF DoneEvent, Events
<1>3. \A reason \in Reasons : CancelledEvent(reason) \in Events
  BY DEF CancelledEvent, Events
<1>4. ErrorEvent \in Events
  BY DEF Events
<1>5. \A a, b \in Events : <<a>> \in Seq(Events) /\ <<a, b>> \in Seq(Events)
  OBVIOUS
<1>6. QED BY <1>1, <1>2, <1>3, <1>4, <1>5

\* The first attempt's request id, and the next one's.
LEMMA RequestTypes ==
  ASSUME NEW e \in Executions
  PROVE  /\ <<e, 1>> \in Requests
         /\ \A n \in Nat : n < MaxAttempts => <<e, n + 1>> \in Requests
         /\ \A n \in 1..MaxAttempts : <<e, n>> \in Requests
BY ContourConstants

-----------------------------------------------------------------------------
\* Every step of the contour is a step of the dispatcher's two halves.
LEMMA ContourStepSplits ==
  ASSUME ContourInv, [Next]_vars
  PROVE  RoutingStep /\ CallStep
<1> USE DEF RoutingStep, CallStep, dispatcherVars, routingVars, callVars
<1>1. ASSUME NEW e \in Executions, NEW ns \in Namespaces, ExecuteRefused(e, ns)
      PROVE  RoutingStep /\ CallStep
  BY <1>1 DEF ExecuteRefused
<1>2. ASSUME NEW e \in Executions, NEW ns \in Namespaces, NEW h \in Hosts, ExecuteStart(e, ns, h)
      PROVE  RoutingStep /\ CallStep
  BY <1>2, RequestTypes DEF ExecuteStart
<1>3. ASSUME NEW e \in Executions, NEW ns \in Namespaces, NEW reason \in Reasons,
             CancelRequested(e, ns, reason)
      PROVE  RoutingStep /\ CallStep
  BY <1>3 DEF CancelRequested
<1>4. ASSUME NEW e \in Executions, Continue(e)
      PROVE  RoutingStep /\ CallStep
  BY <1>4 DEF Continue, AttemptSucceeded, AttemptFailed, AttemptRetried, ExecutionCancelled,
              Finish
<1>5. ASSUME NEW e \in Executions, BackoffElapsed(e)
      PROVE  RoutingStep /\ CallStep
  <2>1. attempt[e] \in Nat /\ attempt[e] < MaxAttempts
    BY <1>5, ContourConstants DEF BackoffElapsed, ContourInv, AttemptsExact
  <2>2. nsOf[e] \in Namespaces /\ hostOf[e] \in Hosts
    BY <1>5 DEF BackoffElapsed, ContourInv, RouteTypeOK, Live
  <2>3. <<e, attempt[e] + 1>> \in Requests
    BY <2>1, RequestTypes
  <2>4. QED BY <1>5, <2>2, <2>3 DEF BackoffElapsed
<1>6. ASSUME NEW e \in Executions, ClientClosed(e)
      PROVE  RoutingStep /\ CallStep
  BY <1>6 DEF ClientClosed
<1>7. ASSUME NEW h \in Hosts, NEW ns \in Namespaces,
             \/ HostClosed(h, ns)
             \/ \E ws \in Sockets, caps \in SUBSET Capabilities : HostConnected(h, ns, ws, caps)
      PROVE  RoutingStep /\ CallStep
  BY <1>7 DEF HostClosed, HostConnected
<1>8. ASSUME NEW r \in Requests, HostReplied(r) \/ HostTimedOut(r)
      PROVE  RoutingStep /\ CallStep
  BY <1>8 DEF HostReplied, HostTimedOut
<1>9. ASSUME UNCHANGED vars
      PROVE  RoutingStep /\ CallStep
  BY <1>9 DEF vars
<1>10. QED BY <1>1, <1>2, <1>3, <1>4, <1>5, <1>6, <1>7, <1>8, <1>9 DEF Next
-----------------------------------------------------------------------------
\* Each part of the invariant is kept by every action.

\* The variables of the route keep their types.
LEMMA RouteTypeStep ==
  ASSUME ContourInv, Next
  PROVE  RouteTypeOK'
<1>1. ASSUME NEW e \in Executions, NEW ns \in Namespaces,
             ExecuteRefused(e, ns)
      PROVE  RouteTypeOK'
  BY <1>1 DEF ExecuteRefused, dispatcherVars, ContourInv, RouteTypeOK, Live, Aborted, Phases
<1>2. ASSUME NEW e \in Executions, NEW ns \in Namespaces, NEW h \in Hosts,
             ExecuteStart(e, ns, h)
      PROVE  RouteTypeOK'
  BY <1>2, ContourConstants DEF ExecuteStart, Call, routingVars, ContourInv, RouteTypeOK,
     Live, Aborted, Phases
<1>3. ASSUME NEW e \in Executions, NEW ns \in Namespaces, NEW reason \in Reasons,
             CancelRequested(e, ns, reason)
      PROVE  RouteTypeOK'
  BY <1>3 DEF CancelRequested, Cancel, dispatcherVars, ContourInv, RouteTypeOK, Live,
     Aborted, Phases
<1>4. ASSUME NEW e \in Executions, AttemptSucceeded(e)
      PROVE  RouteTypeOK'
  BY <1>4, EventTypes DEF AttemptSucceeded, AttemptSettled, Finish, dispatcherVars,
     ContourInv, RouteTypeOK, Live, Aborted, Phases
<1>5. ASSUME NEW e \in Executions, AttemptFailed(e)
      PROVE  RouteTypeOK'
  BY <1>5, EventTypes DEF AttemptFailed, AttemptSettled, Finish, dispatcherVars, ContourInv,
     RouteTypeOK, Live, Aborted, Phases
<1>6. ASSUME NEW e \in Executions, AttemptRetried(e)
      PROVE  RouteTypeOK'
  <2>1. attempt[e] \in 1..MaxAttempts
    BY <1>6, ContourConstants DEF AttemptRetried, AttemptSettled, ContourInv, AttemptsExact,
       RouteTypeOK
  <2>2. Append(stream[e], RetryEvent(attempt[e])) \in Seq(Events)
    BY <2>1, EventTypes DEF ContourInv, RouteTypeOK
  <2>3. QED BY <1>6, <2>2 DEF AttemptRetried, AttemptSettled, RetriesLeft, dispatcherVars,
     ContourInv, RouteTypeOK, Live, Aborted, Phases
<1>7. ASSUME NEW e \in Executions, ExecutionCancelled(e)
      PROVE  RouteTypeOK'
  BY <1>7, EventTypes DEF ExecutionCancelled, Finish, dispatcherVars, ContourInv,
     RouteTypeOK, Live, Aborted, Phases
<1>8. ASSUME NEW e \in Executions, BackoffElapsed(e)
      PROVE  RouteTypeOK'
  <2>1. attempt[e] + 1 \in 0..MaxAttempts
    BY <1>8, ContourConstants DEF BackoffElapsed, ContourInv, AttemptsExact
  <2>2. QED BY <1>8, <2>1 DEF BackoffElapsed, Call, routingVars, ContourInv, RouteTypeOK,
     Live, Aborted, Phases
<1>9. ASSUME NEW e \in Executions, ClientClosed(e)
      PROVE  RouteTypeOK'
  BY <1>9, ContourConstants DEF ClientClosed, Cancel, dispatcherVars, ContourInv,
     RouteTypeOK, Live, Aborted, Phases
<1>10. ASSUME NEW h \in Hosts, NEW ns \in Namespaces, NEW ws \in Sockets,
             NEW caps \in SUBSET Capabilities, HostConnected(h, ns, ws, caps)
      PROVE  RouteTypeOK'
  BY <1>10 DEF HostConnected, RegisterConnection, routeVars, callVars, ContourInv,
     RouteTypeOK, Live, Aborted, Phases
<1>11. ASSUME NEW h \in Hosts, NEW ns \in Namespaces, HostClosed(h, ns)
      PROVE  RouteTypeOK'
  BY <1>11, ContourConstants DEF HostClosed, CancelByHost, RemoveConnection, callVars,
     ContourInv, RouteTypeOK, Live, Aborted, Phases
<1>12. ASSUME NEW r \in Requests, HostReplied(r)
      PROVE  RouteTypeOK'
  BY <1>12 DEF HostReplied, Inbound, InboundChunk, InboundResult, InboundError, Settle,
     routeVars, routingVars, ContourInv, RouteTypeOK, Live, Aborted, Phases
<1>13. ASSUME NEW r \in Requests, HostTimedOut(r)
      PROVE  RouteTypeOK'
  BY <1>13 DEF HostTimedOut, CallTimeout, Settle, routeVars, routingVars, ContourInv,
     RouteTypeOK, Live, Aborted, Phases
<1>14. QED
  BY <1>1, <1>2, <1>3, <1>4, <1>5, <1>6, <1>7, <1>8, <1>9, <1>10, <1>11, <1>12, <1>13 DEF
     Next, Continue

\* The registry keeps holding exactly the live executions.
LEMMA RegistryStep ==
  ASSUME ContourInv, Next
  PROVE  RegistryExact'
<1>1. ASSUME NEW e \in Executions, NEW ns \in Namespaces,
             ExecuteRefused(e, ns)
      PROVE  RegistryExact'
  BY <1>1 DEF ExecuteRefused, dispatcherVars, ContourInv, RouteTypeOK, RegistryExact, Live,
     Aborted
<1>2. ASSUME NEW e \in Executions, NEW ns \in Namespaces, NEW h \in Hosts,
             ExecuteStart(e, ns, h)
      PROVE  RegistryExact'
  BY <1>2 DEF ExecuteStart, Call, routingVars, ContourInv, RouteTypeOK, RegistryExact, Live,
     Aborted
<1>3. ASSUME NEW e \in Executions, NEW ns \in Namespaces, NEW reason \in Reasons,
             CancelRequested(e, ns, reason)
      PROVE  RegistryExact'
  BY <1>3 DEF CancelRequested, Cancel, dispatcherVars, ContourInv, RouteTypeOK,
     RegistryExact, Live, Aborted
<1>4. ASSUME NEW e \in Executions, AttemptSucceeded(e)
      PROVE  RegistryExact'
  BY <1>4 DEF AttemptSucceeded, AttemptSettled, Finish, dispatcherVars, ContourInv,
     RouteTypeOK, RegistryExact, Live, Aborted
<1>5. ASSUME NEW e \in Executions, AttemptFailed(e)
      PROVE  RegistryExact'
  BY <1>5 DEF AttemptFailed, AttemptSettled, Finish, dispatcherVars, ContourInv, RouteTypeOK,
     RegistryExact, Live, Aborted
<1>6. ASSUME NEW e \in Executions, AttemptRetried(e)
      PROVE  RegistryExact'
  BY <1>6 DEF AttemptRetried, AttemptSettled, RetriesLeft, dispatcherVars, ContourInv,
     RouteTypeOK, RegistryExact, Live, Aborted
<1>7. ASSUME NEW e \in Executions, ExecutionCancelled(e)
      PROVE  RegistryExact'
  BY <1>7 DEF ExecutionCancelled, Finish, dispatcherVars, ContourInv, RouteTypeOK,
     RegistryExact, Live, Aborted
<1>8. ASSUME NEW e \in Executions, BackoffElapsed(e)
      PROVE  RegistryExact'
  BY <1>8 DEF BackoffElapsed, Call, routingVars, ContourInv, RouteTypeOK, RegistryExact,
     Live, Aborted
<1>9. ASSUME NEW e \in Executions, ClientClosed(e)
      PROVE  RegistryExact'
  BY <1>9 DEF ClientClosed, Cancel, dispatcherVars, ContourInv, RouteTypeOK, RegistryExact,
     Live, Aborted
<1>10. ASSUME NEW h \in Hosts, NEW ns \in Namespaces, NEW ws \in Sockets,
             NEW caps \in SUBSET Capabilities, HostConnected(h, ns, ws, caps)
      PROVE  RegistryExact'
  BY <1>10 DEF HostConnected, RegisterConnection, routeVars, callVars, ContourInv,
     RouteTypeOK, RegistryExact, Live, Aborted
<1>11. ASSUME NEW h \in Hosts, NEW ns \in Namespaces, HostClosed(h, ns)
      PROVE  RegistryExact'
  BY <1>11 DEF HostClosed, CancelByHost, RemoveConnection, callVars, ContourInv, RouteTypeOK,
     RegistryExact, Live, Aborted
<1>12. ASSUME NEW r \in Requests, HostReplied(r)
      PROVE  RegistryExact'
  BY <1>12 DEF HostReplied, Inbound, InboundChunk, InboundResult, InboundError, Settle,
     routeVars, routingVars, ContourInv, RouteTypeOK, RegistryExact, Live, Aborted
<1>13. ASSUME NEW r \in Requests, HostTimedOut(r)
      PROVE  RegistryExact'
  BY <1>13 DEF HostTimedOut, CallTimeout, Settle, routeVars, routingVars, ContourInv,
     RouteTypeOK, RegistryExact, Live, Aborted
<1>14. QED
  BY <1>1, <1>2, <1>3, <1>4, <1>5, <1>6, <1>7, <1>8, <1>9, <1>10, <1>11, <1>12, <1>13 DEF
     Next, Continue

\* A live execution that is not aborted keeps a connected host.
LEMMA HostLossStep ==
  ASSUME ContourInv, Next
  PROVE  HostLossAborts'
<1>1. ASSUME NEW e \in Executions, NEW ns \in Namespaces,
             ExecuteRefused(e, ns)
      PROVE  HostLossAborts'
  BY <1>1 DEF ExecuteRefused, dispatcherVars, ContourInv, RouteTypeOK, RegistryExact,
     HostLossAborts, Live, Aborted, Connected
<1>2. ASSUME NEW e \in Executions, NEW ns \in Namespaces, NEW h \in Hosts,
             ExecuteStart(e, ns, h)
      PROVE  HostLossAborts'
  <2>1. Connected(ns, h)
    BY <1>2, FirstHostConnected DEF ExecuteStart, ContourInv, DispatcherInv
  <2>2. UNCHANGED settled
    BY <1>2, <2>1 DEF ExecuteStart, Call
  <2>3. QED BY <1>2, <2>1, <2>2 DEF ExecuteStart, ContourInv, RouteTypeOK, RegistryExact,
     HostLossAborts, Live, Aborted, Connected, routingVars
<1>3. ASSUME NEW e \in Executions, NEW ns \in Namespaces, NEW reason \in Reasons,
             CancelRequested(e, ns, reason)
      PROVE  HostLossAborts'
  BY <1>3 DEF CancelRequested, Cancel, dispatcherVars, ContourInv, RouteTypeOK,
     RegistryExact, HostLossAborts, Live, Aborted, Connected
<1>4. ASSUME NEW e \in Executions, AttemptSucceeded(e)
      PROVE  HostLossAborts'
  BY <1>4 DEF AttemptSucceeded, AttemptSettled, Finish, dispatcherVars, ContourInv,
     RouteTypeOK, RegistryExact, HostLossAborts, Live, Aborted, Connected
<1>5. ASSUME NEW e \in Executions, AttemptFailed(e)
      PROVE  HostLossAborts'
  BY <1>5 DEF AttemptFailed, AttemptSettled, Finish, dispatcherVars, ContourInv, RouteTypeOK,
     RegistryExact, HostLossAborts, Live, Aborted, Connected
<1>6. ASSUME NEW e \in Executions, AttemptRetried(e)
      PROVE  HostLossAborts'
  BY <1>6 DEF AttemptRetried, AttemptSettled, RetriesLeft, dispatcherVars, ContourInv,
     RouteTypeOK, RegistryExact, HostLossAborts, Live, Aborted, Connected
<1>7. ASSUME NEW e \in Executions, ExecutionCancelled(e)
      PROVE  HostLossAborts'
  BY <1>7 DEF ExecutionCancelled, Finish, dispatcherVars, ContourInv, RouteTypeOK,
     RegistryExact, HostLossAborts, Live, Aborted, Connected
<1>8. ASSUME NEW e \in Executions, BackoffElapsed(e)
      PROVE  HostLossAborts'
  <2>1. Connected(nsOf[e], hostOf[e])
    BY <1>8 DEF BackoffElapsed, ContourInv, HostLossAborts, Live
  <2>2. UNCHANGED settled
    BY <1>8, <2>1 DEF BackoffElapsed, Call
  <2>3. QED BY <1>8, <2>1, <2>2 DEF BackoffElapsed, ContourInv, RouteTypeOK, RegistryExact,
     HostLossAborts, Live, Aborted, Connected, routingVars
<1>9. ASSUME NEW e \in Executions, ClientClosed(e)
      PROVE  HostLossAborts'
  BY <1>9 DEF ClientClosed, Cancel, dispatcherVars, ContourInv, RouteTypeOK, RegistryExact,
     HostLossAborts, Live, Aborted, Connected
<1>10. ASSUME NEW h \in Hosts, NEW ns \in Namespaces, NEW ws \in Sockets,
             NEW caps \in SUBSET Capabilities, HostConnected(h, ns, ws, caps)
      PROVE  HostLossAborts'
  <2>1. connections \in [Namespaces -> [Hosts -> Sockets \cup {NoSocket}]]
    BY DEF ContourInv, DispatcherInv, RoutingTypeOK
  <2>2. \A n \in Namespaces, g \in Hosts : Connected(n, g) => Connected(n, g)'
    BY <1>10, <2>1, RoutingConstants DEF HostConnected, RegisterConnection, Connected
  <2>3. \A d \in Executions : Live(d) => nsOf[d] \in Namespaces /\ hostOf[d] \in Hosts
    BY DEF ContourInv, RouteTypeOK
  <2>4. UNCHANGED <<phase, nsOf, hostOf, aborted, settled>>
    BY <1>10 DEF HostConnected, routeVars, callVars
  <2>5. QED BY <2>2, <2>3, <2>4 DEF ContourInv, HostLossAborts, Live, Aborted
<1>11. ASSUME NEW h \in Hosts, NEW ns \in Namespaces, HostClosed(h, ns)
      PROVE  HostLossAborts'
  <2>1. connections \in [Namespaces -> [Hosts -> Sockets \cup {NoSocket}]]
    BY DEF ContourInv, DispatcherInv, RoutingTypeOK
  <2>2. \A n \in Namespaces, g \in Hosts : g # h /\ Connected(n, g) => Connected(n, g)'
    BY <1>11, <2>1 DEF HostClosed, RemoveConnection, Connected
  <2>3. UNCHANGED <<phase, nsOf, hostOf, executions, settled>>
    BY <1>11 DEF HostClosed, callVars
  <2>4. \A d \in Executions :
          Live(d)' /\ ~Aborted(d)' => Live(d) /\ ~Aborted(d) /\ hostOf[d] # h
    BY <1>11, <2>3, ContourConstants
       DEF HostClosed, CancelByHost, ContourInv, RegistryExact, Live, Aborted
  <2>5. QED BY <2>2, <2>3, <2>4 DEF ContourInv, HostLossAborts, RouteTypeOK
<1>12. ASSUME NEW r \in Requests, HostReplied(r)
      PROVE  HostLossAborts'
  <2>1. \A cs : Resolved(cs) # Rejected("host_not_connected")
    BY DEF Resolved, Rejected
  <2>2. \A err \in RemoteErrors : Rejected(err) # Rejected("host_not_connected")
    BY DEF Rejected, RemoteErrors
  <2>3. settled \in [Requests -> Outcomes \cup {Unsettled}]
    BY DEF ContourInv, DispatcherInv, CallsTypeOK
  <2>4. \A q \in Requests : settled'[q] # Rejected("host_not_connected")
    BY <1>12, <2>1, <2>2, <2>3
       DEF HostReplied, Inbound, InboundChunk, InboundResult, InboundError, Settle,
           ContourInv, HostLossAborts
  <2>5. UNCHANGED <<phase, nsOf, hostOf, aborted, connections>>
    BY <1>12 DEF HostReplied, routeVars, routingVars
  <2>6. QED BY <2>4, <2>5 DEF ContourInv, HostLossAborts, Live, Aborted, Connected
<1>13. ASSUME NEW r \in Requests, HostTimedOut(r)
      PROVE  HostLossAborts'
  <2>1. Rejected("timed_out") # Rejected("host_not_connected")
    BY DEF Rejected
  <2>2. settled \in [Requests -> Outcomes \cup {Unsettled}]
    BY DEF ContourInv, DispatcherInv, CallsTypeOK
  <2>3. \A q \in Requests : settled'[q] # Rejected("host_not_connected")
    BY <1>13, <2>1, <2>2 DEF HostTimedOut, CallTimeout, Settle, ContourInv, HostLossAborts
  <2>4. UNCHANGED <<phase, nsOf, hostOf, aborted, connections>>
    BY <1>13 DEF HostTimedOut, routeVars, routingVars
  <2>5. QED BY <2>3, <2>4 DEF ContourInv, HostLossAborts, Live, Aborted, Connected
<1>14. QED
  BY <1>1, <1>2, <1>3, <1>4, <1>5, <1>6, <1>7, <1>8, <1>9, <1>10, <1>11, <1>12, <1>13 DEF
     Next, Continue

\* Attempts stay numbered, sequential and reported.
LEMMA AttemptsStep ==
  ASSUME ContourInv, Next
  PROVE  AttemptsExact'
<1>1. ASSUME NEW e \in Executions, NEW ns \in Namespaces,
             ExecuteRefused(e, ns)
      PROVE  AttemptsExact'
  BY <1>1 DEF ExecuteRefused, dispatcherVars, ContourInv, RouteTypeOK, AttemptsExact,
     Request, Live, Aborted
<1>2. ASSUME NEW e \in Executions, NEW ns \in Namespaces, NEW h \in Hosts,
             ExecuteStart(e, ns, h)
      PROVE  AttemptsExact'
  BY <1>2 DEF ExecuteStart, Call, routingVars, ContourInv, RouteTypeOK, AttemptsExact,
     Request, Live, Aborted
<1>3. ASSUME NEW e \in Executions, NEW ns \in Namespaces, NEW reason \in Reasons,
             CancelRequested(e, ns, reason)
      PROVE  AttemptsExact'
  BY <1>3 DEF CancelRequested, Cancel, dispatcherVars, ContourInv, RouteTypeOK,
     AttemptsExact, Request, Live, Aborted
<1>4. ASSUME NEW e \in Executions, AttemptSucceeded(e)
      PROVE  AttemptsExact'
  BY <1>4 DEF AttemptSucceeded, AttemptSettled, Finish, dispatcherVars, ContourInv,
     RouteTypeOK, AttemptsExact, Request, Live, Aborted
<1>5. ASSUME NEW e \in Executions, AttemptFailed(e)
      PROVE  AttemptsExact'
  BY <1>5 DEF AttemptFailed, AttemptSettled, Finish, dispatcherVars, ContourInv, RouteTypeOK,
     AttemptsExact, Request, Live, Aborted
<1>6. ASSUME NEW e \in Executions, AttemptRetried(e)
      PROVE  AttemptsExact'
  <2>1. Request(e) \notin pending
    BY <1>6 DEF AttemptRetried, AttemptSettled, ContourInv, DispatcherInv, PendingExact
  <2>2. stream \in [Executions -> Seq(Events)] /\ attempt[e] \in 1..(MaxAttempts - 1)
    BY <1>6, ContourConstants
       DEF AttemptRetried, AttemptSettled, RetriesLeft, ContourInv, RouteTypeOK, AttemptsExact
  <2>3. Len(Append(stream[e], RetryEvent(attempt[e]))) = attempt[e]
    BY <1>6, <2>2 DEF AttemptRetried, AttemptSettled, ContourInv, AttemptsExact
  <2>4. QED BY <1>6, <2>1, <2>2, <2>3
             DEF AttemptRetried, AttemptSettled, dispatcherVars, ContourInv, RouteTypeOK,
                AttemptsExact, Request, Live, Aborted
<1>7. ASSUME NEW e \in Executions, ExecutionCancelled(e)
      PROVE  AttemptsExact'
  BY <1>7 DEF ExecutionCancelled, Finish, dispatcherVars, ContourInv, RouteTypeOK,
     AttemptsExact, Request, Live, Aborted
<1>8. ASSUME NEW e \in Executions, BackoffElapsed(e)
      PROVE  AttemptsExact'
  <2>1. /\ attempt[e] \in 1..(MaxAttempts - 1)
        /\ Len(stream[e]) = attempt[e]
        /\ <<e, attempt[e]>> \notin pending
    BY <1>8 DEF BackoffElapsed, ContourInv, AttemptsExact, Request
  <2>2. issued' = issued \cup {<<e, attempt[e] + 1>>}
    BY <1>8 DEF BackoffElapsed, Call
  <2>3. pending' \subseteq pending \cup {<<e, attempt[e] + 1>>}
    BY <1>8 DEF BackoffElapsed, Call
  <2>4. /\ attempt' = [attempt EXCEPT ![e] = @ + 1]
        /\ phase' = [phase EXCEPT ![e] = "racing"]
        /\ UNCHANGED stream
    BY <1>8 DEF BackoffElapsed
  <2>5. /\ attempt \in [Executions -> 0..MaxAttempts]
        /\ phase \in [Executions -> Phases]
        /\ MaxAttempts \in Nat
    BY ContourConstants DEF ContourInv, RouteTypeOK
  <2>6. ASSUME NEW d \in Executions, NEW n \in 1..MaxAttempts
        PROVE  /\ <<d, n>> \in issued' <=> n <= attempt'[d]
               /\ n < attempt'[d] => <<d, n>> \notin pending'
    <3>1. <<d, n>> = <<e, attempt[e] + 1>> <=> d = e /\ n = attempt[e] + 1
      OBVIOUS
    <3>2. /\ <<d, n>> \in issued <=> n <= attempt[d]
          /\ n < attempt[d] => <<d, n>> \notin pending
      BY DEF ContourInv, AttemptsExact
    <3>3. CASE d = e
      BY <2>1, <2>2, <2>3, <2>4, <2>5, <3>1, <3>2, <3>3
    <3>4. CASE d # e
      BY <2>2, <2>3, <2>4, <2>5, <3>1, <3>2, <3>4
    <3>5. QED BY <3>3, <3>4
  <2>7. ASSUME NEW d \in Executions, d # e
        PROVE  /\ attempt'[d] = attempt[d] /\ phase'[d] = phase[d]
               /\ <<d, attempt[d]>> \notin pending => <<d, attempt[d]>> \notin pending'
    BY <2>3, <2>4, <2>5, <2>7
  <2>8. attempt'[e] = attempt[e] + 1 /\ phase'[e] = "racing"
    BY <2>4, <2>5
  <2>9. QED BY <2>1, <2>4, <2>6, <2>7, <2>8 DEF ContourInv, AttemptsExact, Request
<1>9. ASSUME NEW e \in Executions, ClientClosed(e)
      PROVE  AttemptsExact'
  BY <1>9 DEF ClientClosed, Cancel, dispatcherVars, ContourInv, RouteTypeOK, AttemptsExact,
     Request, Live, Aborted
<1>10. ASSUME NEW h \in Hosts, NEW ns \in Namespaces, NEW ws \in Sockets,
             NEW caps \in SUBSET Capabilities, HostConnected(h, ns, ws, caps)
      PROVE  AttemptsExact'
  BY <1>10 DEF HostConnected, RegisterConnection, routeVars, callVars, ContourInv,
     RouteTypeOK, AttemptsExact, Request, Live, Aborted
<1>11. ASSUME NEW h \in Hosts, NEW ns \in Namespaces, HostClosed(h, ns)
      PROVE  AttemptsExact'
  BY <1>11 DEF HostClosed, CancelByHost, RemoveConnection, callVars, ContourInv, RouteTypeOK,
     AttemptsExact, Request, Live, Aborted
<1>12. ASSUME NEW r \in Requests, HostReplied(r)
      PROVE  AttemptsExact'
  BY <1>12 DEF HostReplied, Inbound, InboundChunk, InboundResult, InboundError, Settle,
     routeVars, routingVars, ContourInv, RouteTypeOK, AttemptsExact, Request, Live, Aborted
<1>13. ASSUME NEW r \in Requests, HostTimedOut(r)
      PROVE  AttemptsExact'
  BY <1>13 DEF HostTimedOut, CallTimeout, Settle, routeVars, routingVars, ContourInv,
     RouteTypeOK, AttemptsExact, Request, Live, Aborted
<1>14. QED
  BY <1>1, <1>2, <1>3, <1>4, <1>5, <1>6, <1>7, <1>8, <1>9, <1>10, <1>11, <1>12, <1>13 DEF
     Next, Continue

\* An accepted cancellation keeps its reason and decides the ending.
LEMMA AcceptedStep ==
  ASSUME ContourInv, Next
  PROVE  AcceptedCancelWins'
<1>1. ASSUME NEW e \in Executions, NEW ns \in Namespaces,
             ExecuteRefused(e, ns)
      PROVE  AcceptedCancelWins'
  BY <1>1 DEF ExecuteRefused, dispatcherVars, ContourInv, RouteTypeOK, RegistryExact,
     AcceptedCancelWins, Live, Aborted
<1>2. ASSUME NEW e \in Executions, NEW ns \in Namespaces, NEW h \in Hosts,
             ExecuteStart(e, ns, h)
      PROVE  AcceptedCancelWins'
  BY <1>2 DEF ExecuteStart, Call, routingVars, ContourInv, RouteTypeOK, RegistryExact,
     AcceptedCancelWins, Live, Aborted
<1>3. ASSUME NEW e \in Executions, NEW ns \in Namespaces, NEW reason \in Reasons,
             CancelRequested(e, ns, reason)
      PROVE  AcceptedCancelWins'
  <2>1. accepted[e] = {} /\ phase[e] # "ended"
    BY <1>3, ContourConstants DEF CancelRequested, Cancel, ContourInv, RouteTypeOK,
       RegistryExact, AcceptedCancelWins, Live, Aborted
  <2>2. QED BY <1>3, <2>1 DEF CancelRequested, Cancel, dispatcherVars, ContourInv,
     RouteTypeOK, RegistryExact, AcceptedCancelWins, Live, Aborted
<1>4. ASSUME NEW e \in Executions, AttemptSucceeded(e)
      PROVE  AcceptedCancelWins'
  <2>1. accepted[e] = {}
    BY <1>4, ContourConstants DEF AttemptSucceeded, AttemptSettled, ContourInv, RouteTypeOK,
       RegistryExact, AcceptedCancelWins, Live, Aborted
  <2>2. QED BY <1>4, <2>1 DEF AttemptSucceeded, AttemptSettled, Finish, dispatcherVars,
     ContourInv, RouteTypeOK, RegistryExact, AcceptedCancelWins, Live, Aborted
<1>5. ASSUME NEW e \in Executions, AttemptFailed(e)
      PROVE  AcceptedCancelWins'
  <2>1. accepted[e] = {}
    BY <1>5, ContourConstants DEF AttemptFailed, AttemptSettled, ContourInv, RouteTypeOK,
       RegistryExact, AcceptedCancelWins, Live, Aborted
  <2>2. QED BY <1>5, <2>1 DEF AttemptFailed, AttemptSettled, Finish, dispatcherVars,
     ContourInv, RouteTypeOK, RegistryExact, AcceptedCancelWins, Live, Aborted
<1>6. ASSUME NEW e \in Executions, AttemptRetried(e)
      PROVE  AcceptedCancelWins'
  BY <1>6 DEF AttemptRetried, AttemptSettled, RetriesLeft, dispatcherVars, ContourInv,
     RouteTypeOK, RegistryExact, AcceptedCancelWins, Live, Aborted
<1>7. ASSUME NEW e \in Executions, ExecutionCancelled(e)
      PROVE  AcceptedCancelWins'
  BY <1>7 DEF ExecutionCancelled, Finish, dispatcherVars, ContourInv, RouteTypeOK,
     RegistryExact, AcceptedCancelWins, Live, Aborted
<1>8. ASSUME NEW e \in Executions, BackoffElapsed(e)
      PROVE  AcceptedCancelWins'
  BY <1>8 DEF BackoffElapsed, Call, routingVars, ContourInv, RouteTypeOK, RegistryExact,
     AcceptedCancelWins, Live, Aborted
<1>9. ASSUME NEW e \in Executions, ClientClosed(e)
      PROVE  AcceptedCancelWins'
  <2>1. \A d \in Executions : aborted'[d] # aborted[d] => accepted[d] = {}
    BY <1>9, ContourConstants DEF ClientClosed, Cancel, ContourInv, RouteTypeOK,
       RegistryExact, AcceptedCancelWins, Live, Aborted
  <2>2. QED BY <1>9, <2>1 DEF ClientClosed, Cancel, dispatcherVars, ContourInv, RouteTypeOK,
     RegistryExact, AcceptedCancelWins, Live, Aborted
<1>10. ASSUME NEW h \in Hosts, NEW ns \in Namespaces, NEW ws \in Sockets,
             NEW caps \in SUBSET Capabilities, HostConnected(h, ns, ws, caps)
      PROVE  AcceptedCancelWins'
  BY <1>10 DEF HostConnected, RegisterConnection, routeVars, callVars, ContourInv,
     RouteTypeOK, RegistryExact, AcceptedCancelWins, Live, Aborted
<1>11. ASSUME NEW h \in Hosts, NEW ns \in Namespaces, HostClosed(h, ns)
      PROVE  AcceptedCancelWins'
  <2>1. \A d \in Executions : aborted'[d] # aborted[d] => accepted[d] = {}
    BY <1>11, ContourConstants DEF HostClosed, CancelByHost, ContourInv, RouteTypeOK,
       RegistryExact, AcceptedCancelWins, Live, Aborted
  <2>2. QED BY <1>11, <2>1 DEF HostClosed, ContourInv, RouteTypeOK, RegistryExact,
     AcceptedCancelWins, Live, Aborted
<1>12. ASSUME NEW r \in Requests, HostReplied(r)
      PROVE  AcceptedCancelWins'
  BY <1>12 DEF HostReplied, Inbound, InboundChunk, InboundResult, InboundError, Settle,
     routeVars, routingVars, ContourInv, RouteTypeOK, RegistryExact, AcceptedCancelWins, Live,
     Aborted
<1>13. ASSUME NEW r \in Requests, HostTimedOut(r)
      PROVE  AcceptedCancelWins'
  BY <1>13 DEF HostTimedOut, CallTimeout, Settle, routeVars, routingVars, ContourInv,
     RouteTypeOK, RegistryExact, AcceptedCancelWins, Live, Aborted
<1>14. QED
  BY <1>1, <1>2, <1>3, <1>4, <1>5, <1>6, <1>7, <1>8, <1>9, <1>10, <1>11, <1>12, <1>13 DEF
     Next, Continue

-----------------------------------------------------------------------------
\* The gateway starts with nothing connected, registered or issued.
LEMMA ContourInitInv == Init => ContourInv
<1> SUFFICES ASSUME Init PROVE ContourInv
  OBVIOUS
<1>1. DispatcherInv
  BY DispatcherInitInv DEF Init
<1>2. RouteTypeOK
  BY ContourConstants DEF Init, RouteTypeOK, Phases, Live
<1>3. RegistryExact
  BY DEF Init, RegistryExact, Live
<1>4. HostLossAborts
  BY DEF Init, HostLossAborts, DispatcherInit, CallsInit, Live, Unsettled, Rejected
<1>5. AttemptsExact
  BY ContourConstants DEF Init, AttemptsExact, DispatcherInit, CallsInit
<1>6. AcceptedCancelWins
  BY DEF Init, AcceptedCancelWins
<1>7. QED BY <1>1, <1>2, <1>3, <1>4, <1>5, <1>6 DEF ContourInv

\* The invariant is inductive.
LEMMA ContourStepInv == ContourInv /\ [Next]_vars => ContourInv'
<1> SUFFICES ASSUME ContourInv, [Next]_vars PROVE ContourInv'
  OBVIOUS
<1>1. DispatcherInv'
  <2>1. RoutingStep /\ CallStep
    BY ContourStepSplits
  <2>2. QED BY <2>1, RoutingStepKeeps, CallStepKeeps DEF ContourInv, DispatcherInv
<1>2. CASE Next
  BY <1>1, <1>2, RouteTypeStep, RegistryStep, HostLossStep, AttemptsStep, AcceptedStep
     DEF ContourInv
<1>3. CASE UNCHANGED vars
  <2>1. RouteTypeOK'
    BY <1>3 DEF ContourInv, vars, RouteTypeOK, Live
  <2>2. RegistryExact' /\ HostLossAborts'
    BY <1>3 DEF ContourInv, vars, RegistryExact, HostLossAborts, Live, Aborted, Connected
  <2>3. AttemptsExact' /\ AcceptedCancelWins'
    BY <1>3 DEF ContourInv, vars, AttemptsExact, AcceptedCancelWins, Request
  <2>4. QED BY <1>1, <2>1, <2>2, <2>3 DEF ContourInv
<1>4. QED BY <1>2, <1>3

\* The inductive invariant holds of every state of the contour.
THEOREM ContourInvariant == Spec => []ContourInv
BY ContourInitInv, ContourStepInv, PTL DEF Spec

\* The state of the contour and of the dispatcher below it is well typed.
THEOREM ContourTypeCorrect == Spec => []TypeOK
<1>1. ContourInv => TypeOK
  BY DEF ContourInv, DispatcherInv, TypeOK, DispatcherTypeOK
<1>2. QED BY <1>1, ContourInvariant, PTL

\* The ExecutionRegistry holds exactly the executions that are still running.
THEOREM RegistryCorrect == Spec => []RegistryExact
<1>1. ContourInv => RegistryExact
  BY DEF ContourInv
<1>2. QED BY <1>1, ContourInvariant, PTL

\* A cancel request answered with success decides how the execution ends.
THEOREM CancelCorrect == Spec => []AcceptedCancelWins
<1>1. ContourInv => AcceptedCancelWins
  BY DEF ContourInv
<1>2. QED BY <1>1, ContourInvariant, PTL

\* No live execution loses its host without being aborted.
THEOREM HostLossCorrect == Spec => []HostLossAborts
<1>1. ContourInv => HostLossAborts
  BY DEF ContourInv
<1>2. QED BY <1>1, ContourInvariant, PTL

\* Attempts are sequential, without gaps, and each retry is reported once.
THEOREM AttemptsCorrect == Spec => []AttemptsExact
<1>1. ContourInv => AttemptsExact
  BY DEF ContourInv
<1>2. QED BY <1>1, ContourInvariant, PTL

-----------------------------------------------------------------------------
\* An execution that is aborted while live can only end.
LEMMA AbortedStep ==
  ASSUME ContourInv, Next,
         NEW x \in Executions, Aborted(x), Live(x)
  PROVE  /\ aborted'[x] = aborted[x]
         /\ attempt'[x] = attempt[x]
         /\ phase'[x] \in {phase[x], "ended"}
         /\ \A n \in 1..MaxAttempts : <<x, n>> \in issued' => <<x, n>> \in issued
<1> DEFINE OnlyEnds ==
             /\ aborted'[x] = aborted[x]
             /\ attempt'[x] = attempt[x]
             /\ phase'[x] \in {phase[x], "ended"}
             /\ \A n \in 1..MaxAttempts : <<x, n>> \in issued' => <<x, n>> \in issued
<1>0. RouteTypeOK
  BY DEF ContourInv
<1> USE <1>0 DEF RouteTypeOK, Live, Aborted
<1>1. ASSUME NEW e \in Executions, NEW ns \in Namespaces,
             \/ ExecuteRefused(e, ns)
             \/ \E reason \in Reasons : CancelRequested(e, ns, reason)
      PROVE  OnlyEnds
  BY <1>1 DEF ExecuteRefused, CancelRequested, Cancel, dispatcherVars, callVars
<1>2. ASSUME NEW e \in Executions, NEW ns \in Namespaces, NEW h \in Hosts,
             ExecuteStart(e, ns, h)
      PROVE  OnlyEnds
  <2>1. e # x /\ issued' = issued \cup {<<e, 1>>}
    BY <1>2 DEF ExecuteStart, Call
  <2>2. QED BY <1>2, <2>1 DEF ExecuteStart
<1>3. ASSUME NEW e \in Executions, Continue(e)
      PROVE  OnlyEnds
  BY <1>3 DEF Continue, AttemptSucceeded, AttemptFailed, AttemptRetried, AttemptSettled,
              ExecutionCancelled, Finish, dispatcherVars, callVars
<1>4. ASSUME NEW e \in Executions, BackoffElapsed(e)
      PROVE  OnlyEnds
  <2>1. e # x /\ issued' = issued \cup {<<e, attempt[e] + 1>>}
    BY <1>4 DEF BackoffElapsed, Call
  <2>2. QED BY <1>4, <2>1 DEF BackoffElapsed
<1>5. ASSUME NEW e \in Executions, ClientClosed(e)
      PROVE  OnlyEnds
  BY <1>5 DEF ClientClosed, Cancel, dispatcherVars, callVars
<1>6. ASSUME NEW h \in Hosts, NEW ns \in Namespaces,
             \/ HostClosed(h, ns)
             \/ \E ws \in Sockets, caps \in SUBSET Capabilities : HostConnected(h, ns, ws, caps)
      PROVE  OnlyEnds
  BY <1>6 DEF HostClosed, HostConnected, CancelByHost, callVars, routeVars
<1>7. ASSUME NEW r \in Requests, HostReplied(r) \/ HostTimedOut(r)
      PROVE  OnlyEnds
  BY <1>7 DEF HostReplied, HostTimedOut, Inbound, InboundChunk, InboundResult, InboundError,
              CallTimeout, Settle, routeVars
<1>8. QED BY <1>1, <1>2, <1>3, <1>4, <1>5, <1>6, <1>7 DEF Next

\* "A cancelled execution never retries": from the abort on it can only end.
THEOREM AbortCorrect == Spec => AbortOnlyEnds
<1>1. ContourInv /\ [Next]_vars =>
        [\A e \in Executions : Aborted(e) /\ Live(e) =>
           /\ aborted'[e] = aborted[e]
           /\ attempt'[e] = attempt[e]
           /\ phase'[e] \in {phase[e], "ended"}
           /\ \A n \in 1..MaxAttempts : <<e, n>> \in issued' => <<e, n>> \in issued]_vars
  BY AbortedStep
<1>2. QED BY <1>1, ContourInvariant, PTL DEF Spec, AbortOnlyEnds

-----------------------------------------------------------------------------
\* The refinement, one lemma per kind of step.

\* Both specifications write the same events.
LEMMA SameEvents ==
  /\ \A n : Stream!RetryEvent(n) = RetryEvent(n)
  /\ Stream!ErrorEvent = ErrorEvent
  /\ \A reason : Stream!CancelledEvent(reason) = CancelledEvent(reason)
  /\ \A code : Stream!DoneEvent(code) = DoneEvent(code)
BY DEF Stream!RetryEvent, RetryEvent, Stream!ErrorEvent, ErrorEvent, Stream!CancelledEvent,
       CancelledEvent, Stream!DoneEvent, DoneEvent

\* A handler that runs its finally block closes the stream.
LEMMA FinishCloses ==
  ASSUME ContourInv, NEW e \in Executions, Live(e), NEW ending \in Stream!Endings(e),
         Finish(e, ending)
  PROVE  Stream!Close(e)
<1>1. StreamStatus[e] = "live"
  BY DEF StreamStatus
<1>2. StreamStatus' = [StreamStatus EXCEPT ![e] = "ended"]
  BY DEF Finish, StreamStatus, Live, ContourInv, RouteTypeOK
<1>3. stream' = [stream EXCEPT ![e] = @ \o ending] /\ UNCHANGED aborted
  BY DEF Finish
<1>4. QED BY <1>1, <1>2, <1>3 DEF Stream!Close

\* The attempt of a racing execution ends it or is retried.
LEMMA ContinueRefines ==
  ASSUME ContourInv, NEW e \in Executions, Continue(e)
  PROVE  Stream!Close(e) \/ Stream!Retry(e)
<1>1. CASE AttemptSucceeded(e)
  <2>1. <<DoneEvent(0)>> \in Stream!Endings(e) /\ Live(e) /\ Finish(e, <<DoneEvent(0)>>)
    BY <1>1, SameEvents DEF AttemptSucceeded, AttemptSettled, Stream!Endings, Live, Aborted
  <2>2. QED BY <2>1, FinishCloses
<1>2. CASE AttemptFailed(e)
  <2>1. /\ <<ErrorEvent, DoneEvent(1)>> \in Stream!Endings(e)
        /\ Live(e) /\ Finish(e, <<ErrorEvent, DoneEvent(1)>>)
    BY <1>2, SameEvents DEF AttemptFailed, AttemptSettled, Stream!Endings, Live, Aborted
  <2>2. QED BY <2>1, FinishCloses
<1>3. CASE ExecutionCancelled(e)
  <2>1. /\ <<CancelledEvent(aborted[e]), DoneEvent(130)>> \in Stream!Endings(e)
        /\ Live(e) /\ Finish(e, <<CancelledEvent(aborted[e]), DoneEvent(130)>>)
    BY <1>3, SameEvents DEF ExecutionCancelled, Stream!Endings, Aborted
  <2>2. QED BY <2>1, FinishCloses
<1>4. CASE AttemptRetried(e)
  <2>1. phase[e] = "racing" /\ aborted[e] = NoReason
    BY <1>4 DEF AttemptRetried, AttemptSettled, Aborted
  <2>2. attempt[e] = Len(stream[e]) + 1 /\ attempt[e] < MaxAttempts
    <3>1. attempt[e] \in Nat /\ Len(stream[e]) = attempt[e] - 1
      BY <2>1, ContourConstants DEF ContourInv, AttemptsExact, RouteTypeOK
    <3>2. QED BY <1>4, <3>1 DEF AttemptRetried, RetriesLeft
  <2>3. StreamStatus[e] = "live"
    BY <2>1 DEF StreamStatus, Live
  <2>4. stream' = [stream EXCEPT ![e] = Append(@, RetryEvent(Len(@) + 1))]
    BY <1>4, <2>2 DEF AttemptRetried
  <2>5. UNCHANGED <<StreamStatus, aborted>>
    BY <1>4, <2>1 DEF AttemptRetried, StreamStatus, Live, ContourInv, RouteTypeOK
  <2>6. QED BY <2>1, <2>2, <2>3, <2>4, <2>5, SameEvents DEF Stream!Retry
<1>5. QED BY <1>1, <1>2, <1>3, <1>4 DEF Continue

\* Cancelling one execution, or those of a host, is an acceptance for that set.
LEMMA AcceptRefines ==
  ASSUME ContourInv, NEW S \in SUBSET Executions, NEW reason \in Reasons,
         \A e \in S : Live(e) /\ ~Aborted(e),
         aborted' = [e \in Executions |-> IF e \in S THEN reason ELSE aborted[e]],
         UNCHANGED <<phase, stream>>
  PROVE  Stream!Accept(S, reason)
<1>1. \A e \in S : StreamStatus[e] = "live" /\ aborted[e] = NoReason
  BY DEF StreamStatus, Aborted
<1>2. UNCHANGED <<StreamStatus, stream>>
  BY DEF StreamStatus, Live
<1>3. QED BY <1>1, <1>2 DEF Stream!Accept

\* Every step of the contour is a step of ExecutionStream or changes nothing it sees.
LEMMA StreamStep ==
  ASSUME ContourInv, [Next]_vars
  PROVE  [Stream!Next]_(Stream!streamVars)
<1> DEFINE Seen == UNCHANGED Stream!streamVars
<1>0. UNCHANGED <<phase, aborted, stream>> => Seen
  BY DEF Stream!streamVars, StreamStatus, Live
<1>1. ASSUME NEW e \in Executions, NEW ns \in Namespaces, ExecuteRefused(e, ns)
      PROVE  Stream!Refuse(e)
  BY <1>1 DEF ExecuteRefused, Stream!Refuse, StreamStatus, Live, ContourInv, RouteTypeOK
<1>2. ASSUME NEW e \in Executions, NEW ns \in Namespaces, NEW h \in Hosts,
             ExecuteStart(e, ns, h)
      PROVE  Stream!Open(e)
  BY <1>2 DEF ExecuteStart, Stream!Open, StreamStatus, Live, ContourInv, RouteTypeOK
<1>3. ASSUME NEW e \in Executions, NEW ns \in Namespaces, NEW reason \in Reasons,
             CancelRequested(e, ns, reason)
      PROVE  Stream!Accept({e}, reason)
  <2>1. Live(e) /\ ~Aborted(e) /\ UNCHANGED <<phase, stream>>
    BY <1>3 DEF CancelRequested, Cancel, ContourInv, RegistryExact
  <2>2. aborted' = [d \in Executions |-> IF d \in {e} THEN reason ELSE aborted[d]]
    BY <1>3 DEF CancelRequested, Cancel, ContourInv, RouteTypeOK
  <2>3. QED BY <2>1, <2>2, AcceptRefines
<1>4. ASSUME NEW e \in Executions, ClientClosed(e)
      PROVE  Stream!Accept({e}, "disconnect") \/ Seen
  <2>1. CASE Cancel(e, "disconnect")
    <3>1. Live(e) /\ ~Aborted(e) /\ UNCHANGED <<phase, stream>>
      BY <1>4, <2>1 DEF ClientClosed, Cancel, ContourInv, RegistryExact
    <3>2. aborted' = [d \in Executions |-> IF d \in {e} THEN "disconnect" ELSE aborted[d]]
      BY <2>1 DEF Cancel, ContourInv, RouteTypeOK
    <3>3. QED BY <3>1, <3>2, AcceptRefines, ContourConstants
  <2>2. CASE UNCHANGED aborted
    BY <1>0, <1>4, <2>2 DEF ClientClosed
  <2>3. QED BY <1>4, <2>1, <2>2 DEF ClientClosed
<1>5. ASSUME NEW h \in Hosts, NEW ns \in Namespaces, HostClosed(h, ns)
      PROVE  \E S \in SUBSET Executions : Stream!Accept(S, "disconnect")
  <2> DEFINE S == {e \in Executions : e \in executions /\ hostOf[e] = h /\ ~Aborted(e)}
  <2>1. \A e \in S : Live(e) /\ ~Aborted(e)
    BY DEF ContourInv, RegistryExact
  <2>2. aborted' = [e \in Executions |-> IF e \in S THEN "disconnect" ELSE aborted[e]]
    BY <1>5 DEF HostClosed, CancelByHost
  <2>3. UNCHANGED <<phase, stream>>
    BY <1>5 DEF HostClosed
  <2>4. S \in SUBSET Executions /\ "disconnect" \in Reasons
    BY ContourConstants
  <2> HIDE DEF S
  <2>5. Stream!Accept(S, "disconnect")
    BY <2>1, <2>2, <2>3, <2>4, AcceptRefines
  <2>6. QED BY <2>4, <2>5
<1>6. ASSUME NEW e \in Executions, BackoffElapsed(e)
      PROVE  Seen
  BY <1>6 DEF BackoffElapsed, Stream!streamVars, StreamStatus, Live, ContourInv, RouteTypeOK
<1>7. ASSUME NEW h \in Hosts, NEW ns \in Namespaces, NEW ws \in Sockets,
             NEW caps \in SUBSET Capabilities, HostConnected(h, ns, ws, caps)
      PROVE  Seen
  BY <1>0, <1>7 DEF HostConnected, routeVars
<1>8. ASSUME NEW r \in Requests, HostReplied(r) \/ HostTimedOut(r)
      PROVE  Seen
  BY <1>0, <1>8 DEF HostReplied, HostTimedOut, routeVars
<1>9. ASSUME UNCHANGED vars
      PROVE  Seen
  BY <1>0, <1>9 DEF vars
<1> HIDE DEF Seen
<1>10. ASSUME NEW e \in Executions, Continue(e)
       PROVE  Stream!Close(e) \/ Stream!Retry(e)
  BY <1>10, ContinueRefines
<1>11. Stream!Next \/ Seen
  BY <1>1, <1>2, <1>3, <1>4, <1>5, <1>6, <1>7, <1>8, <1>9, <1>10, ContourConstants
     DEF Next, Stream!Next
<1>12. QED BY <1>11 DEF Seen

\* The contour implements the promise of ExecutionStream.
THEOREM StreamRefinement == Spec => ImplementsStream
<1>1. Init => Stream!Init
  BY DEF Init, Stream!Init, StreamStatus, Live
<1>2. ContourInv /\ [Next]_vars => [Stream!Next]_(Stream!streamVars)
  BY StreamStep
<1>3. QED BY <1>1, <1>2, ContourInvariant, PTL DEF Spec, ImplementsStream, Stream!Spec
=============================================================================
