----------------------- MODULE RemoteExecution_proofs -----------------------
(***************************************************************************)
(* Proofs about RemoteExecution, for any number of callers, attempts,      *)
(* hosts and namespaces: the invariants the run "remote_execution" checks  *)
(* on a small instance.                                                    *)
(***************************************************************************)
EXTENDS RemoteExecution, HostCallDispatcher_proofs

-----------------------------------------------------------------------------
\* The inductive invariant

\* Where an attempt may be: not dispatched, on its way to the runtime server,
\* executing, or with its answer on its way back.
AttemptPlaced(r) ==
  /\ http[r] \in {"none", "posted", "bad_request"} => r \notin issued
  /\ r \in inbox => r \in issued /\ r \notin executed
  /\ r \in running => r \in executed
  /\ r \in executed => r \in issued
  /\ wire[r] # << >> => r \in issued /\ r \notin inbox \cup running

\* What is on the wire for an attempt, and what of it has arrived.
AnswerInFlight(r) ==
  LET data == <<Chunk(CallerOf(r)), Result>>
  IN  /\ \/ wire[r] \in {<< >>, data, <<Result>>}
         \/ \E err \in RemoteErrors : wire[r] = <<Error(err)>>
      /\ wire[r] \in {data, <<Result>>} => r \in executed
      /\ r \in pending =>
           /\ wire[r] = <<Result>> => chunks[r] = <<CallerOf(r)>>
           /\ r \in inbox \cup running \/ wire[r] = data => chunks[r] = << >>

\* What the outcome of the call, and the HTTP answer, say about the attempt.
OutcomeTells(r) ==
  /\ settled[r].status = "resolved" =>
       r \in executed /\ settled[r] = Resolved(<<CallerOf(r)>>)
  /\ settled[r] = Rejected("host_not_connected") => r \notin executed \cup inbox
  /\ settled[r] = Rejected("remote_transport") => r \notin inbox \cup running
  /\ http[r] = "ok" => settled[r].status = "resolved"
  /\ http[r] = "unavailable" =>
       settled[r] \in {Rejected("host_not_connected"), Rejected("remote_transport")}

\* The loop of execute(): attempts are made in order, each after a 503.
LoopOrdered(q) ==
  /\ step[q] \in {"idle", "unresolved", "resolved"} => attempt[q] = 0
  /\ attempt[q] = 0 => step[q] \in {"idle", "unresolved", "resolved", "failed"}
  /\ step[q] = "resolved" \/ attempt[q] > 0 => hostOf[q] # Undefined
  /\ attempt[q] <= MaxAttemptsOf(q)
  /\ step[q] = "sleeping" => attempt[q] < MaxAttemptsOf(q) /\ http[Current(q)] = "unavailable"
  /\ step[q] = "returned" => http[Current(q)] = "ok"
  /\ step[q] = "failed" /\ attempt[q] > 0 =>
       /\ http[Current(q)] \in HttpAnswers
       /\ http[Current(q)] = "unavailable" => attempt[q] = MaxAttemptsOf(q)
  /\ \A n \in 1..MaxAttempts :
       /\ http[<<q, n>>] = "none" <=> attempt[q] < n
       /\ n < attempt[q] => http[<<q, n>>] = "unavailable"

Attempts == \A r \in Requests : AttemptPlaced(r) /\ AnswerInFlight(r) /\ OutcomeTells(r)
Loops == \A q \in Callers : LoopOrdered(q)

CallersTypeOK ==
  /\ incomplete \subseteq Callers
  /\ step \in [Callers -> Steps]
  /\ nsOf \in [Callers -> Namespaces \cup {Undefined}]
  /\ hostOf \in [Callers -> Hosts \cup {Undefined}]
  /\ retryOn503 \in [Callers -> RetryOptions \cup {Undefined}]
  /\ attempt \in [Callers -> 0..MaxAttempts]

WiresTypeOK ==
  /\ http \in [Requests -> {"none", "posted", "calling"} \cup HttpAnswers]
  /\ inbox \subseteq Requests
  /\ running \subseteq Requests
  /\ executed \subseteq Requests
  /\ wire \in [Requests -> Seq(Messages)]

RemoteInv == DispatcherInv /\ CallersTypeOK /\ WiresTypeOK /\ Attempts /\ Loops

-----------------------------------------------------------------------------
\* A request is a caller and the number of an attempt.
LEMMA RequestFacts ==
  /\ \A r \in Requests : CallerOf(r) \in Callers /\ r[2] \in 1..MaxAttempts /\ r = <<r[1], r[2]>>
  /\ \A q \in Callers, n \in 1..MaxAttempts : <<q, n>> \in Requests /\ CallerOf(<<q, n>>) = q
BY RemoteConstants DEF CallerOf

\* What line 66 makes of an option is within the bound.
LEMMA AllowedFacts ==
  ASSUME CallersTypeOK
  PROVE  /\ \A option \in RetryOptions \cup {Undefined} : AttemptsAllowed(option) \in 0..MaxAttempts
         /\ \A q \in Callers : MaxAttemptsOf(q) \in 0..MaxAttempts
         /\ MaxAttempts \in Nat
<1>1. \A option \in RetryOptions \cup {Undefined} : AttemptsAllowed(option) \in 0..MaxAttempts
  BY RemoteConstants DEF AttemptsAllowed
<1>2. QED BY <1>1, RemoteConstants DEF CallersTypeOK, MaxAttemptsOf

\* Outcomes are told apart by their status and their error.
LEMMA OutcomeFacts ==
  /\ Unsettled.status = "unsettled"
  /\ \A cs : Resolved(cs).status = "resolved"
  /\ \A err : Rejected(err).status = "rejected"
  /\ \A err : Rejected(err).error = err
  /\ \A err, f : Rejected(err) = Rejected(f) => err = f
  /\ \A err : Rejected(err) # Unsettled
<1>1. \A err : Rejected(err).status = "rejected" /\ Rejected(err).error = err
  BY DEF Rejected
<1>2. \A cs : Resolved(cs).status = "resolved"
  BY DEF Resolved
<1>3. Unsettled.status = "unsettled"
  BY DEF Unsettled
<1>4. QED BY <1>1, <1>2, <1>3

\* The messages of an answer and the sequences they come in.
LEMMA MessageFacts ==
  ASSUME NEW q \in Callers
  PROVE  /\ Chunk(q) \in Messages /\ Chunk(q).type = "chunk" /\ Chunk(q).data = q
         /\ Result \in Messages /\ Result.type = "result"
         /\ \A err \in RemoteErrors :
              /\ Error(err) \in Messages /\ Error(err).type = "error" /\ Error(err).error = err
              /\ <<Error(err)>> \in Seq(Messages) /\ <<Error(err)>> # << >>
              /\ Head(<<Error(err)>>) = Error(err) /\ Tail(<<Error(err)>>) = << >>
         /\ <<Chunk(q), Result>> \in Seq(Messages) /\ <<Result>> \in Seq(Messages)
         /\ <<Chunk(q), Result>> # << >> /\ <<Result>> # << >> /\ <<Chunk(q), Result>> # <<Result>>
         /\ Head(<<Chunk(q), Result>>) = Chunk(q) /\ Tail(<<Chunk(q), Result>>) = <<Result>>
         /\ Head(<<Result>>) = Result /\ Tail(<<Result>>) = << >>
         /\ \A err \in RemoteErrors :
              <<Error(err)>> # <<Result>> /\ <<Error(err)>> # <<Chunk(q), Result>>
<1>1. Chunk(q) \in Messages /\ Chunk(q).type = "chunk" /\ Chunk(q).data = q
  BY RemoteConstants DEF Chunk, Messages
<1>2. Result \in Messages /\ Result.type = "result"
  BY DEF Result, Messages
<1>3. \A err \in RemoteErrors :
        Error(err) \in Messages /\ Error(err).type = "error" /\ Error(err).error = err
  BY DEF Error, Messages
<1>4. \A a, b \in Messages :
        /\ <<a>> \in Seq(Messages) /\ <<a>> # << >> /\ Head(<<a>>) = a /\ Tail(<<a>>) = << >>
        /\ <<a, b>> \in Seq(Messages) /\ <<a, b>> # << >> /\ Head(<<a, b>>) = a
        /\ Tail(<<a, b>>) = <<b>> /\ \A c \in Messages : <<a, b>> # <<c>> /\ (<<a>> = <<c>> => a = c)
  OBVIOUS
<1>5. QED BY <1>1, <1>2, <1>3, <1>4

-----------------------------------------------------------------------------
\* A step that leaves the calls, the exchanges and the messages alone.
LEMMA AttemptsUnchanged ==
  ASSUME Attempts,
         UNCHANGED <<callVars, http, inbox, running, wire, executed>>
  PROVE  Attempts'
BY DEF Attempts, AttemptPlaced, AnswerInFlight, OutcomeTells, callVars

\* A step that leaves the callers and their exchanges alone.
LEMMA LoopsUnchanged ==
  ASSUME Loops, UNCHANGED <<step, attempt, hostOf, retryOn503, http>>
  PROVE  Loops'
BY DEF Loops, LoopOrdered, Current, MaxAttemptsOf

\* A socket that breaks, or a runtime server that stops, only takes away.
LEMMA AttemptsLost ==
  ASSUME Attempts, inbox' \subseteq inbox, running' \subseteq running,
         \A r \in Requests : wire'[r] = wire[r] \/ wire'[r] = << >>,
         UNCHANGED <<callVars, http, executed>>
  PROVE  Attempts'
<1> SUFFICES ASSUME NEW r \in Requests
             PROVE  AttemptPlaced(r)' /\ AnswerInFlight(r)' /\ OutcomeTells(r)'
  BY DEF Attempts
<1>0. AttemptPlaced(r) /\ AnswerInFlight(r) /\ OutcomeTells(r)
  BY DEF Attempts
<1>1. AttemptPlaced(r)'
  BY <1>0 DEF AttemptPlaced, callVars
<1>2. AnswerInFlight(r)'
  <2>1. CallerOf(r) \in Callers
    BY RequestFacts
  <2>2. <<Chunk(CallerOf(r)), Result>> # << >> /\ <<Result>> # << >>
    BY <2>1, MessageFacts
  <2>3. QED BY <1>0, <2>2 DEF AnswerInFlight, callVars
<1>3. OutcomeTells(r)'
  BY <1>0 DEF OutcomeTells, callVars
<1>4. QED BY <1>1, <1>2, <1>3

\* The gateway moves an exchange on, which no caller has read an answer of.
LEMMA LoopsAnswered ==
  ASSUME Loops, http \in [Requests -> {"none", "posted", "calling"} \cup HttpAnswers],
         attempt \in [Callers -> 0..MaxAttempts],
         NEW r \in Requests, http[r] \in {"posted", "calling"},
         NEW answer \in {"calling"} \cup HttpAnswers,
         http' = [http EXCEPT ![r] = answer],
         UNCHANGED <<step, attempt, hostOf, retryOn503>>
  PROVE  Loops'
<1> SUFFICES ASSUME NEW q \in Callers PROVE LoopOrdered(q)'
  BY DEF Loops
<1>0. LoopOrdered(q)
  BY DEF Loops
<1>1. \A n \in 1..MaxAttempts : <<q, n>> \in Requests
  BY RequestFacts
<1>2. answer # "none"
  BY DEF HttpAnswers
<1>3. \A n \in 1..MaxAttempts :
        /\ http'[<<q, n>>] = "none" <=> http[<<q, n>>] = "none"
        /\ http[<<q, n>>] \in HttpAnswers => http'[<<q, n>>] = http[<<q, n>>]
  BY <1>1, <1>2 DEF HttpAnswers
<1>4. attempt[q] > 0 => attempt[q] \in 1..MaxAttempts
  OBVIOUS
<1>5. step[q] \in {"sleeping", "returned", "failed"} /\ attempt[q] > 0 =>
        http'[Current(q)] = http[Current(q)]
  BY <1>0, <1>3, <1>4 DEF LoopOrdered, Current, HttpAnswers
<1>6. Current(q)' = Current(q) /\ MaxAttemptsOf(q)' = MaxAttemptsOf(q)
  BY DEF Current, MaxAttemptsOf
<1>7. \A n \in 1..MaxAttempts : n < attempt[q] => http'[<<q, n>>] = "unavailable"
  BY <1>0, <1>3 DEF LoopOrdered, HttpAnswers
<1>8. step[q] \in {"sleeping", "returned"} => attempt[q] > 0
  BY <1>0, <1>4 DEF LoopOrdered
<1>9. QED BY <1>0, <1>3, <1>5, <1>6, <1>7, <1>8 DEF LoopOrdered

-----------------------------------------------------------------------------
\* The dispatcher below: every step is a step of its two halves.
LEMMA RemoteStepSplits ==
  ASSUME RemoteInv, [RemoteNext]_remoteVars PROVE RoutingStep /\ CallStep
<1> USE DEF RoutingStep, CallStep
<1>1. CASE UNCHANGED <<routingVars, callVars>>
  BY <1>1
<1>2. ASSUME NEW r \in Requests, Dispatch(r) PROVE RoutingStep /\ CallStep
  <2>1. CallerOf(r) \in Callers
    BY RequestFacts
  <2>2. nsOf[CallerOf(r)] \in Namespaces
    BY <1>2, <2>1 DEF Dispatch, RemoteInv, CallersTypeOK
  <2>3. PICK h \in DispatchTargets(nsOf[CallerOf(r)], Host(r), "execution") \ {Undefined} :
          Call(r, nsOf[CallerOf(r)], h) /\ UNCHANGED routingVars
    BY <1>2 DEF Dispatch, InternalDispatch
  <2>4. h \in Hosts
    <3>1. capabilityIndex[nsOf[CallerOf(r)]]["execution"] \subseteq Hosts
      BY <2>2, RemoteConstants DEF RemoteInv, DispatcherInv, RoutingTypeOK
    <3>2. Host(r) \in Hosts \cup {Undefined}
      BY <2>1 DEF Host, RemoteInv, CallersTypeOK
    <3>3. QED BY <2>3, <3>1, <3>2 DEF DispatchTargets, FirstHostWithCapability, FirstHost
  <2>5. QED BY <2>2, <2>3, <2>4
<1>3. ASSUME NEW r \in Requests, CallTimedOut(r) PROVE RoutingStep /\ CallStep
  BY <1>3 DEF CallTimedOut
<1>4. ASSUME NEW r \in Requests, AnswerDelivered(r) PROVE RoutingStep /\ CallStep
  <2>1. CallerOf(r) \in Callers
    BY RequestFacts
  <2>2. \/ Head(wire[r]) = Chunk(CallerOf(r)) \/ Head(wire[r]) = Result
        \/ \E err \in RemoteErrors : Head(wire[r]) = Error(err)
    BY <1>4, <2>1, MessageFacts DEF AnswerDelivered, RemoteInv, Attempts, AnswerInFlight
  <2>3. \/ InboundChunk(r, CallerOf(r)) \/ InboundResult(r)
        \/ \E err \in RemoteErrors : InboundError(r, err)
        \/ UNCHANGED callVars
    BY <1>4, <2>1, <2>2, MessageFacts DEF AnswerDelivered
  <2>4. CallerOf(r) \in Data
    BY <2>1, RemoteConstants
  <2>5. QED BY <1>4, <2>3, <2>4 DEF AnswerDelivered, Inbound
<1>5. ASSUME NEW h \in Hosts, NEW ns \in Namespaces,
             \/ \E ws \in Sockets : RuntimeConnected(h, ns, ws)
             \/ StaleClose(h, ns) \/ ConnectionLost(h, ns) \/ RuntimeStopped(h, ns)
      PROVE  RoutingStep /\ CallStep
  <2>1. {"execution"} \in SUBSET Capabilities
    BY RemoteConstants
  <2>2. QED BY <1>5, <2>1 DEF RuntimeConnected, StaleClose, ConnectionLost, RuntimeStopped
<1>6. ASSUME NEW q \in Callers,
             \/ \E ns \in Namespaces, h \in Hosts, strategy \in {"pinned", "any-matching"} :
                  HostResolved(q, ns, strategy, h)
             \/ HostUnresolved(q)
             \/ \E ns \in Namespaces \cup {Undefined}, option \in RetryOptions :
                  ExecuteRemote(q, ns, option) \/ ExecuteUnattempted(q, ns, option)
             \/ SleepOver(q) \/ AnswerRead(q) \/ FetchAborted(q)
      PROVE  UNCHANGED <<routingVars, callVars>>
  BY <1>6 DEF HostResolved, HostUnresolved, ExecuteRemote, ExecuteUnattempted, SleepOver,
              AnswerRead, FetchAborted, PostAttempt, dispatcherVars, routingVars, callVars
<1>7. ASSUME NEW r \in Requests,
             \/ DispatchRefused(r) \/ DispatchAnswered(r) \/ CallReceived(r) \/ HandlerFinished(r)
      PROVE  UNCHANGED <<routingVars, callVars>>
  BY <1>7 DEF DispatchRefused, DispatchAnswered, CallReceived, HandlerFinished,
              dispatcherVars, routingVars, callVars
<1>8. UNCHANGED remoteVars => UNCHANGED <<routingVars, callVars>>
  BY DEF remoteVars, routingVars, callVars
<1>9. QED BY <1>1, <1>2, <1>3, <1>4, <1>5, <1>6, <1>7, <1>8 DEF RemoteNext

\* The invariant of the dispatcher is kept by whoever uses it.
LEMMA RemoteDispatcherInv ==
  ASSUME RemoteInv, [RemoteNext]_remoteVars PROVE DispatcherInv'
BY RemoteStepSplits, RoutingStepKeeps, CallStepKeeps DEF RemoteInv, DispatcherInv

-----------------------------------------------------------------------------
\* The steps of a caller.
LEMMA CallerSteps ==
  ASSUME RemoteInv, NEW q \in Callers,
         \/ \E ns \in Namespaces, h \in Hosts, strategy \in {"pinned", "any-matching"} :
              HostResolved(q, ns, strategy, h)
         \/ HostUnresolved(q) \/ AnswerRead(q) \/ FetchAborted(q)
  PROVE  CallersTypeOK' /\ WiresTypeOK' /\ Attempts' /\ Loops'
<1>1. UNCHANGED <<callVars, http, inbox, running, wire, executed, retryOn503, attempt, incomplete>>
  BY DEF HostResolved, HostUnresolved, AnswerRead, FetchAborted, dispatcherVars, callVars, runtimeVars
<1>2. Attempts'
  BY <1>1, AttemptsUnchanged DEF RemoteInv
<1>3. WiresTypeOK'
  BY <1>1 DEF RemoteInv, WiresTypeOK
<1>4. CallersTypeOK'
  BY <1>1 DEF HostResolved, HostUnresolved, AnswerRead, FetchAborted, RemoteInv, CallersTypeOK, Steps
<1>5. Loops'
  <2> SUFFICES ASSUME NEW p \in Callers PROVE LoopOrdered(p)'
    BY DEF Loops
  <2>0. LoopOrdered(p) /\ Current(p)' = Current(p) /\ MaxAttemptsOf(p)' = MaxAttemptsOf(p)
    BY <1>1 DEF RemoteInv, Loops, Current, MaxAttemptsOf
  <2>1. CASE p # q
    <3>1. UNCHANGED <<step[p], hostOf[p]>>
      BY <2>1 DEF HostResolved, HostUnresolved, AnswerRead, FetchAborted, RemoteInv, CallersTypeOK
    <3>2. QED BY <1>1, <2>0, <3>1 DEF LoopOrdered
  <2>2. CASE p = q /\ \E ns \in Namespaces, h \in Hosts, strategy \in {"pinned", "any-matching"} :
                        HostResolved(q, ns, strategy, h)
    BY <1>1, <2>0, <2>2, RoutingConstants DEF LoopOrdered, HostResolved, RemoteInv, CallersTypeOK
  <2>3. CASE p = q /\ (HostUnresolved(q) \/ FetchAborted(q))
    BY <1>1, <2>0, <2>3 DEF LoopOrdered, HostUnresolved, FetchAborted, RemoteInv, CallersTypeOK
  <2>4. CASE p = q /\ AnswerRead(q)
    <3>1. /\ step[q] = "fetching" /\ hostOf' = hostOf /\ http[Current(q)] \in HttpAnswers
          /\ \/ /\ step'[q] = "sleeping"
                /\ http[Current(q)] = "unavailable" /\ attempt[q] < MaxAttemptsOf(q)
             \/ step'[q] = "returned" /\ http[Current(q)] = "ok"
             \/ /\ step'[q] = "failed"
                /\ http[Current(q)] = "unavailable" => ~(attempt[q] < MaxAttemptsOf(q))
      BY <2>4 DEF AnswerRead, Retries, RemoteInv, CallersTypeOK
    <3>2. attempt[q] \in 0..MaxAttempts /\ MaxAttemptsOf(q) \in 0..MaxAttempts /\ MaxAttempts \in Nat
      BY AllowedFacts DEF RemoteInv, CallersTypeOK
    <3>3. QED BY <1>1, <2>0, <2>4, <3>1, <3>2 DEF LoopOrdered
  <2>5. QED BY <2>1, <2>2, <2>3, <2>4
<1>6. QED BY <1>2, <1>3, <1>4, <1>5

\* A new attempt is made after the last one was answered 503, or is the first.
LEMMA AttemptSteps ==
  ASSUME RemoteInv, NEW q \in Callers,
         \/ SleepOver(q)
         \/ \E ns \in Namespaces \cup {Undefined}, option \in RetryOptions :
              ExecuteRemote(q, ns, option)
  PROVE  CallersTypeOK' /\ WiresTypeOK' /\ Attempts' /\ Loops'
<1> DEFINE next == <<q, attempt[q] + 1>>
<1>0. LoopOrdered(q) /\ attempt[q] \in 0..MaxAttempts /\ MaxAttempts \in Nat /\ MaxAttempts > 0
  BY RemoteConstants DEF RemoteInv, Loops, CallersTypeOK
<1>1. /\ PostAttempt(q)
      /\ step[q] \in {"sleeping", "resolved"}
      /\ nsOf' \in [Callers -> Namespaces \cup {Undefined}]
      /\ retryOn503' \in [Callers -> RetryOptions \cup {Undefined}]
      /\ \A p \in Callers \ {q} : retryOn503'[p] = retryOn503[p]
  BY DEF SleepOver, ExecuteRemote, Configured, RemoteInv, CallersTypeOK
<1>a. MaxAttemptsOf(q)' \in 0..MaxAttempts /\ attempt[q] < MaxAttemptsOf(q)'
  <2>1. CASE SleepOver(q)
    <3>1. MaxAttemptsOf(q)' = MaxAttemptsOf(q)
      BY <2>1 DEF SleepOver, MaxAttemptsOf
    <3>2. QED BY <1>0, <2>1, <3>1, AllowedFacts DEF SleepOver, LoopOrdered, RemoteInv
  <2>2. ASSUME NEW ns \in Namespaces \cup {Undefined}, NEW option \in RetryOptions,
               ExecuteRemote(q, ns, option)
        PROVE  MaxAttemptsOf(q)' \in 0..MaxAttempts /\ attempt[q] < MaxAttemptsOf(q)'
    <3>1. MaxAttemptsOf(q)' = AttemptsAllowed(option) /\ AttemptsAllowed(option) > 0
      BY <2>2 DEF ExecuteRemote, Configured, MaxAttemptsOf, RemoteInv, CallersTypeOK
    <3>2. attempt[q] = 0
      BY <1>0, <2>2 DEF ExecuteRemote, Configured, LoopOrdered
    <3>3. QED BY <3>1, <3>2, AllowedFacts DEF RemoteInv
  <2>3. QED BY <2>1, <2>2
<1>2. attempt[q] < MaxAttempts /\ attempt[q] + 1 \in 1..MaxAttempts
  BY <1>0, <1>a
<1>3. next \in Requests
  BY <1>2, RequestFacts
<1>4. http[next] = "none"
  BY <1>0, <1>2 DEF LoopOrdered
<1>5. /\ http' = [http EXCEPT ![next] = "posted"]
      /\ attempt' = [attempt EXCEPT ![q] = @ + 1]
      /\ step' = [step EXCEPT ![q] = "fetching"]
      /\ UNCHANGED <<callVars, inbox, running, wire, executed, incomplete, hostOf>>
  BY <1>1 DEF PostAttempt, dispatcherVars, callVars, runtimeVars
<1> HIDE DEF next
<1>6. CallersTypeOK'
  BY <1>1, <1>2, <1>5 DEF RemoteInv, CallersTypeOK, Steps
<1>7. WiresTypeOK'
  BY <1>5 DEF RemoteInv, WiresTypeOK
<1>8. Attempts'
  <2> SUFFICES ASSUME NEW r \in Requests
               PROVE  AttemptPlaced(r)' /\ AnswerInFlight(r)' /\ OutcomeTells(r)'
    BY DEF Attempts
  <2>0. AttemptPlaced(r) /\ AnswerInFlight(r) /\ OutcomeTells(r)
    BY DEF RemoteInv, Attempts
  <2>1. http'[r] = http[r] \/ (http[r] = "none" /\ http'[r] = "posted")
    BY <1>3, <1>4, <1>5 DEF RemoteInv, WiresTypeOK
  <2>2. AttemptPlaced(r)'
    BY <1>5, <2>0, <2>1 DEF AttemptPlaced, callVars
  <2>3. AnswerInFlight(r)'
    BY <1>5, <2>0 DEF AnswerInFlight, callVars
  <2>4. OutcomeTells(r)'
    BY <1>5, <2>0, <2>1 DEF OutcomeTells, callVars
  <2>5. QED BY <2>2, <2>3, <2>4
<1>9. Loops'
  <2> SUFFICES ASSUME NEW p \in Callers PROVE LoopOrdered(p)'
    BY DEF Loops
  <2>0. LoopOrdered(p) /\ \A n \in 1..MaxAttempts : <<p, n>> \in Requests
    BY RequestFacts DEF RemoteInv, Loops
  <2>1. CASE p # q
    <3>1. \A n : <<p, n>> # next
      BY <2>1 DEF next
    <3>2. \A n \in 1..MaxAttempts : http'[<<p, n>>] = http[<<p, n>>]
      BY <1>5, <2>0, <3>1 DEF RemoteInv, WiresTypeOK
    <3>3. UNCHANGED <<step[p], attempt[p], hostOf, MaxAttemptsOf(p)>>
      BY <1>1, <1>5, <2>1 DEF RemoteInv, CallersTypeOK, MaxAttemptsOf
    <3>4. attempt[p] \in 0..MaxAttempts /\ (attempt[p] > 0 => attempt[p] \in 1..MaxAttempts)
      BY DEF RemoteInv, CallersTypeOK
    <3>5. step[p] \in {"sleeping", "returned"} => attempt[p] > 0
      BY <2>0, <3>4 DEF LoopOrdered
    <3>6. QED BY <2>0, <3>2, <3>3, <3>4, <3>5 DEF LoopOrdered, Current
  <2>2. CASE p = q
    <3>1. \A n \in 1..MaxAttempts :
            http'[<<q, n>>] = IF n = attempt[q] + 1 THEN "posted" ELSE http[<<q, n>>]
      BY <1>2, <1>5, <2>0, <2>2 DEF next, RemoteInv, WiresTypeOK
    <3>2. attempt'[q] = attempt[q] + 1 /\ step'[q] = "fetching" /\ hostOf' = hostOf
      BY <1>5 DEF RemoteInv, CallersTypeOK
    <3>3. \A n \in 1..MaxAttempts : n < attempt[q] + 1 => http[<<q, n>>] = "unavailable"
      <4>1. attempt[q] > 0 => step[q] = "sleeping" /\ http[<<q, attempt[q]>>] = "unavailable"
        BY <1>0, <1>1 DEF LoopOrdered, Current
      <4>2. QED BY <1>0, <4>1 DEF LoopOrdered
    <3>4. hostOf[q] # Undefined
      BY <1>0, <1>1 DEF LoopOrdered
    <3>5. \A n \in 1..MaxAttempts :
            /\ http'[<<q, n>>] = "none" <=> attempt[q] + 1 < n
            /\ n < attempt[q] + 1 => http'[<<q, n>>] = "unavailable"
      BY <1>0, <3>1, <3>3 DEF LoopOrdered
    <3>6. QED BY <1>0, <1>a, <2>2, <3>2, <3>4, <3>5 DEF LoopOrdered
  <2>3. QED BY <2>1, <2>2
<1>10. QED BY <1>6, <1>7, <1>8, <1>9

\* Without an attempt nothing is posted.
LEMMA NoAttemptSteps ==
  ASSUME RemoteInv, NEW q \in Callers, NEW ns \in Namespaces \cup {Undefined},
         NEW option \in RetryOptions, ExecuteUnattempted(q, ns, option)
  PROVE  CallersTypeOK' /\ WiresTypeOK' /\ Attempts' /\ Loops'
<1>1. UNCHANGED <<callVars, http, inbox, running, wire, executed, hostOf, attempt, incomplete>>
  BY DEF ExecuteUnattempted, dispatcherVars, callVars, runtimeVars
<1>2. Attempts'
  BY <1>1, AttemptsUnchanged DEF RemoteInv
<1>3. WiresTypeOK'
  BY <1>1 DEF RemoteInv, WiresTypeOK
<1>4. CallersTypeOK'
  BY <1>1 DEF ExecuteUnattempted, Configured, RemoteInv, CallersTypeOK, Steps
<1>5. Loops'
  <2> SUFFICES ASSUME NEW p \in Callers PROVE LoopOrdered(p)'
    BY DEF Loops
  <2>0. LoopOrdered(p) /\ Current(p)' = Current(p)
    BY <1>1 DEF RemoteInv, Loops, Current
  <2>1. CASE p # q
    <3>1. UNCHANGED <<step[p], MaxAttemptsOf(p)>>
      BY <2>1 DEF ExecuteUnattempted, Configured, MaxAttemptsOf, RemoteInv, CallersTypeOK
    <3>2. QED BY <1>1, <2>0, <3>1 DEF LoopOrdered
  <2>2. CASE p = q
    <3>1. step[q] = "resolved" /\ step'[q] = "failed"
      BY DEF ExecuteUnattempted, Configured, RemoteInv, CallersTypeOK
    <3>2. attempt[q] = 0
      BY <2>0, <2>2, <3>1 DEF LoopOrdered
    <3>3. MaxAttemptsOf(q)' \in 0..MaxAttempts
      <4>1. retryOn503'[q] \in RetryOptions \cup {Undefined}
        BY <1>4 DEF CallersTypeOK
      <4>2. QED BY <4>1, AllowedFacts DEF MaxAttemptsOf, RemoteInv
    <3>4. QED BY <1>1, <2>0, <2>2, <3>1, <3>2, <3>3 DEF LoopOrdered
  <2>3. QED BY <2>1, <2>2
<1>6. QED BY <1>2, <1>3, <1>4, <1>5

-----------------------------------------------------------------------------
\* What a step says about one request does not touch the others.
LEMMA AttemptsOther ==
  ASSUME Attempts, CallsTypeOK, WiresTypeOK, NEW r \in Requests,
         AttemptPlaced(r)' /\ AnswerInFlight(r)' /\ OutcomeTells(r)',
         \A p \in Requests \ {r} :
           /\ p \in issued' <=> p \in issued
           /\ p \in pending' <=> p \in pending
           /\ p \in inbox' <=> p \in inbox
           /\ p \in running' <=> p \in running
           /\ p \in executed' <=> p \in executed
           /\ UNCHANGED <<http[p], wire[p], chunks[p], settled[p]>>
  PROVE  Attempts'
<1> SUFFICES ASSUME NEW p \in Requests \ {r}
             PROVE  AttemptPlaced(p)' /\ AnswerInFlight(p)' /\ OutcomeTells(p)'
  BY DEF Attempts
<1>0. AttemptPlaced(p) /\ AnswerInFlight(p) /\ OutcomeTells(p)
  BY DEF Attempts
<1>1. AttemptPlaced(p)'
  BY <1>0 DEF AttemptPlaced
<1>2. AnswerInFlight(p)'
  BY <1>0 DEF AnswerInFlight
<1>3. OutcomeTells(p)'
  BY <1>0 DEF OutcomeTells
<1>4. QED BY <1>1, <1>2, <1>3

-----------------------------------------------------------------------------
\* /internal/dispatch without a namespace, and its answer.
LEMMA AnswerSteps ==
  ASSUME RemoteInv, NEW r \in Requests, DispatchRefused(r) \/ DispatchAnswered(r)
  PROVE  CallersTypeOK' /\ WiresTypeOK' /\ Attempts' /\ Loops'
<1>0. AttemptPlaced(r) /\ AnswerInFlight(r) /\ OutcomeTells(r)
  BY DEF RemoteInv, Attempts
<1>1. UNCHANGED <<callVars, inbox, running, wire, executed,
                incomplete, step, nsOf, hostOf, retryOn503, attempt>>
  BY DEF DispatchRefused, DispatchAnswered, dispatcherVars, callVars, callerVars, runtimeVars
<1>2. PICK answer \in HttpAnswers :
        /\ http' = [http EXCEPT ![r] = answer]
        /\ \/ http[r] = "posted" /\ answer = "bad_request"
           \/ http[r] = "calling" /\ settled[r] # Unsettled /\ answer \in AnswersFor(settled[r])
  <2>1. CASE DispatchRefused(r)
    BY <2>1 DEF DispatchRefused, HttpAnswers
  <2>2. CASE DispatchAnswered(r)
    BY <2>2 DEF DispatchAnswered, AnswersFor, HttpAnswers
  <2>3. QED BY <2>1, <2>2
<1>3. CallersTypeOK'
  BY <1>1 DEF RemoteInv, CallersTypeOK
<1>4. WiresTypeOK'
  BY <1>1, <1>2 DEF RemoteInv, WiresTypeOK
<1>5. Loops'
  BY <1>1, <1>2, LoopsAnswered DEF RemoteInv, CallersTypeOK, WiresTypeOK
<1>6. http'[r] = answer /\ \A p \in Requests \ {r} : http'[p] = http[p]
  BY <1>2 DEF RemoteInv, WiresTypeOK
<1>7. AttemptPlaced(r)'
  BY <1>0, <1>1, <1>2, <1>6 DEF AttemptPlaced, AnswersFor, callVars
<1>8. AnswerInFlight(r)'
  BY <1>0, <1>1 DEF AnswerInFlight, callVars
<1>9. OutcomeTells(r)'
  <2>1. /\ answer = "ok" => settled[r].status = "resolved"
        /\ answer = "unavailable" =>
             settled[r] \in {Rejected("host_not_connected"), Rejected("remote_transport")}
    <3>1. settled[r] \in Outcomes \cup {Unsettled}
      BY DEF RemoteInv, DispatcherInv, CallsTypeOK
    <3>2. settled[r] \in Outcomes => \/ settled[r].status = "resolved"
                                    \/ settled[r] = Rejected(settled[r].error)
      BY DEF Outcomes, Rejected
    <3>3. QED BY <1>2, <3>1, <3>2 DEF AnswersFor
  <2>2. QED BY <1>0, <1>1, <1>6, <2>1 DEF OutcomeTells, callVars
<1>10. Attempts'
  BY <1>1, <1>6, <1>7, <1>8, <1>9, AttemptsOther
     DEF RemoteInv, DispatcherInv, callVars
<1>11. QED BY <1>3, <1>4, <1>5, <1>10

\* The call of /internal/dispatch: sent to the runtime server, or rejected at once.
LEMMA DispatchSteps ==
  ASSUME RemoteInv, NEW r \in Requests, Dispatch(r)
  PROVE  CallersTypeOK' /\ WiresTypeOK' /\ Attempts' /\ Loops'
<1> DEFINE q == CallerOf(r)
<1>0. AttemptPlaced(r) /\ AnswerInFlight(r) /\ OutcomeTells(r)
  BY DEF RemoteInv, Attempts
<1>1. UNCHANGED <<running, wire, executed, incomplete, step, nsOf, hostOf, retryOn503, attempt>>
  BY DEF Dispatch, callerVars
<1>2. q \in Callers /\ r[2] \in 1..MaxAttempts /\ r = <<q, r[2]>>
  BY RequestFacts DEF CallerOf
<1>3. Host(r) # Undefined
  <2>1. LoopOrdered(q) /\ attempt[q] \in 0..MaxAttempts
    BY <1>2 DEF RemoteInv, Loops, CallersTypeOK
  <2>2. http[<<q, r[2]>>] # "none"
    BY <1>2 DEF Dispatch
  <2>3. QED BY <1>2, <2>1, <2>2 DEF LoopOrdered, Host
<1>4. Call(r, nsOf[q], Host(r))
  BY <1>3 DEF Dispatch, InternalDispatch, DispatchTargets
<1>5. http[r] = "posted" /\ http' = [http EXCEPT ![r] = "calling"]
  BY DEF Dispatch
<1>6. inbox' = IF Connected(nsOf[q], Host(r)) THEN inbox \cup {r} ELSE inbox
  BY DEF Dispatch
<1>7. r \notin issued /\ r \notin inbox /\ r \notin running /\ r \notin executed /\ wire[r] = << >>
  BY <1>0, <1>5 DEF AttemptPlaced
<1>8. CallersTypeOK'
  BY <1>1 DEF RemoteInv, CallersTypeOK
<1>9. WiresTypeOK'
  BY <1>1, <1>5, <1>6 DEF RemoteInv, WiresTypeOK
<1>10. Loops'
  BY <1>1, <1>5, LoopsAnswered DEF RemoteInv, CallersTypeOK, WiresTypeOK
<1>11. http'[r] = "calling" /\ \A p \in Requests \ {r} : http'[p] = http[p]
  BY <1>5 DEF RemoteInv, WiresTypeOK
<1>12. /\ issued' = issued \cup {r}
       /\ pending' \ {r} = pending \ {r}
       /\ \A p \in Requests \ {r} : UNCHANGED <<chunks[p], settled[p]>>
       /\ \/ /\ settled'[r] = Unsettled /\ chunks'[r] = << >>
          \/ /\ settled'[r] = Rejected("host_not_connected")
             /\ inbox' = inbox /\ r \notin pending'
  <2>1. settled[r] = Unsettled /\ r \notin pending
    BY <1>7 DEF RemoteInv, DispatcherInv, PendingExact
  <2>2. QED BY <1>4, <1>6, <2>1 DEF Call, RemoteInv, DispatcherInv, CallsTypeOK
<1>13. AttemptPlaced(r)'
  BY <1>1, <1>7, <1>11, <1>12 DEF AttemptPlaced
<1>14. AnswerInFlight(r)'
  <2>1. << >> # <<Chunk(q), Result>> /\ << >> # <<Result>>
    BY <1>2, MessageFacts
  <2>2. QED BY <1>1, <1>7, <1>12, <2>1 DEF AnswerInFlight
<1>15. OutcomeTells(r)'
  <2>1. /\ settled'[r].status # "resolved"
        /\ settled'[r] # Rejected("remote_transport")
    BY <1>12, OutcomeFacts
  <2>2. settled'[r] = Rejected("host_not_connected") => r \notin executed \cup inbox'
    BY <1>7, <1>12, OutcomeFacts
  <2>3. QED BY <1>1, <1>11, <2>1, <2>2 DEF OutcomeTells
<1>16. Attempts'
  BY <1>1, <1>6, <1>11, <1>12, <1>13, <1>14, <1>15, AttemptsOther DEF RemoteInv, DispatcherInv
<1>17. QED BY <1>8, <1>9, <1>10, <1>16

\* The 30 s timer of a call: the promise is rejected, the runtime server goes on.
LEMMA TimeoutSteps ==
  ASSUME RemoteInv, NEW r \in Requests, CallTimedOut(r)
  PROVE  CallersTypeOK' /\ WiresTypeOK' /\ Attempts' /\ Loops'
<1>0. AttemptPlaced(r) /\ AnswerInFlight(r) /\ OutcomeTells(r)
  BY DEF RemoteInv, Attempts
<1>1. UNCHANGED <<http, inbox, running, wire, executed, incomplete, step, nsOf, hostOf, retryOn503, attempt>>
  BY DEF CallTimedOut, callerVars, runtimeVars
<1>2. CallersTypeOK' /\ WiresTypeOK'
  BY <1>1 DEF RemoteInv, CallersTypeOK, WiresTypeOK
<1>3. Loops'
  BY <1>1, LoopsUnchanged DEF RemoteInv
<1>4. Settle(r, Rejected("timed_out")) /\ settled[r] = Unsettled
  BY DEF CallTimedOut, CallTimeout, RemoteInv, DispatcherInv, PendingExact
<1>5. /\ UNCHANGED <<issued, chunks>> /\ pending' = pending \ {r}
      /\ settled'[r] = Rejected("timed_out")
      /\ \A p \in Requests \ {r} : settled'[p] = settled[p]
  BY <1>4 DEF Settle, RemoteInv, DispatcherInv, CallsTypeOK
<1>6. AttemptPlaced(r)'
  BY <1>0, <1>1, <1>5 DEF AttemptPlaced
<1>7. AnswerInFlight(r)'
  BY <1>0, <1>1, <1>5 DEF AnswerInFlight
<1>8. OutcomeTells(r)'
  <2>1. http[r] # "ok" /\ http[r] # "unavailable"
    BY <1>0, <1>4, OutcomeFacts DEF OutcomeTells
  <2>2. /\ settled'[r].status # "resolved"
        /\ settled'[r] # Rejected("host_not_connected")
        /\ settled'[r] # Rejected("remote_transport")
    BY <1>5, OutcomeFacts
  <2>3. QED BY <1>1, <2>1, <2>2 DEF OutcomeTells
<1>9. Attempts'
  BY <1>1, <1>5, <1>6, <1>7, <1>8, AttemptsOther DEF RemoteInv, DispatcherInv
<1>10. QED BY <1>2, <1>3, <1>9

\* The runtime server takes a call: it starts the handler, or refuses.
LEMMA ReceiveSteps ==
  ASSUME RemoteInv, NEW r \in Requests, CallReceived(r)
  PROVE  CallersTypeOK' /\ WiresTypeOK' /\ Attempts' /\ Loops'
<1>0. AttemptPlaced(r) /\ AnswerInFlight(r) /\ OutcomeTells(r) /\ CallerOf(r) \in Callers
  BY RequestFacts DEF RemoteInv, Attempts
<1>1. UNCHANGED <<issued, pending, chunks, settled, http,
                incomplete, step, nsOf, hostOf, retryOn503, attempt>>
  BY DEF CallReceived, callerVars, dispatcherVars
<1>2. /\ r \in inbox /\ inbox' = inbox \ {r}
      /\ \/ /\ wire' = [wire EXCEPT ![r] = <<Error("remote_handler")>>]
            /\ UNCHANGED <<running, executed>>
         \/ /\ running' = running \cup {r} /\ executed' = executed \cup {r}
            /\ wire' = wire
  BY DEF CallReceived
<1>3. "remote_handler" \in RemoteErrors
  BY DEF RemoteErrors
<1>4. r \in issued /\ r \notin executed /\ r \notin running /\ wire[r] = << >>
  BY <1>0, <1>2 DEF AttemptPlaced
<1>5. \A p \in Requests \ {r} : wire'[p] = wire[p]
  BY <1>2 DEF RemoteInv, WiresTypeOK
<1>6. \/ wire'[r] = <<Error("remote_handler")>> /\ UNCHANGED <<running, executed>>
      \/ wire'[r] = << >> /\ running' = running \cup {r} /\ executed' = executed \cup {r}
  BY <1>2, <1>4 DEF RemoteInv, WiresTypeOK
<1>7. CallersTypeOK'
  BY <1>1 DEF RemoteInv, CallersTypeOK
<1>8. WiresTypeOK'
  <2>1. <<Error("remote_handler")>> \in Seq(Messages)
    BY <1>0, <1>3, MessageFacts
  <2>2. QED BY <1>1, <1>2, <2>1 DEF RemoteInv, WiresTypeOK
<1>9. Loops'
  BY <1>1, LoopsUnchanged DEF RemoteInv
<1>10. AttemptPlaced(r)'
  BY <1>0, <1>1, <1>2, <1>4, <1>6 DEF AttemptPlaced
<1>11. AnswerInFlight(r)'
  <2>1. /\ <<Error("remote_handler")>> \notin {<<Chunk(CallerOf(r)), Result>>, <<Result>>}
        /\ << >> \notin {<<Chunk(CallerOf(r)), Result>>, <<Result>>}
    BY <1>0, <1>3, MessageFacts
  <2>2. r \in pending => chunks[r] = << >>
    BY <1>0, <1>2 DEF AnswerInFlight
  <2>3. QED BY <1>1, <1>3, <1>6, <2>1, <2>2 DEF AnswerInFlight
<1>12. OutcomeTells(r)'
  BY <1>0, <1>1, <1>2, <1>4 DEF OutcomeTells
<1>13. Attempts'
  BY <1>1, <1>2, <1>5, <1>10, <1>11, <1>12, AttemptsOther DEF RemoteInv, DispatcherInv
<1>14. QED BY <1>7, <1>8, <1>9, <1>13

\* The handler returns or throws, and the answer is sent.
LEMMA FinishSteps ==
  ASSUME RemoteInv, NEW r \in Requests, HandlerFinished(r)
  PROVE  CallersTypeOK' /\ WiresTypeOK' /\ Attempts' /\ Loops'
<1>0. AttemptPlaced(r) /\ AnswerInFlight(r) /\ OutcomeTells(r) /\ CallerOf(r) \in Callers
  BY RequestFacts DEF RemoteInv, Attempts
<1>1. /\ UNCHANGED <<issued, pending, chunks, settled, http, inbox, executed>>
      /\ UNCHANGED <<incomplete, step, nsOf, hostOf, retryOn503, attempt>>
  BY DEF HandlerFinished, callerVars, dispatcherVars
<1>2. r \in running /\ running' = running \ {r}
  BY DEF HandlerFinished
<1>3. PICK answer \in HandlerAnswers(CallerOf(r)) : wire' = [wire EXCEPT ![r] = answer]
  BY DEF HandlerFinished
<1>4. \/ answer = <<Chunk(CallerOf(r)), Result>>
      \/ \E err \in RemoteErrors : answer = <<Error(err)>>
  BY <1>3 DEF HandlerAnswers
<1>5. answer \in Seq(Messages) /\ answer # << >> /\ answer # <<Result>>
  BY <1>0, <1>4, MessageFacts
<1>6. wire'[r] = answer /\ \A p \in Requests \ {r} : wire'[p] = wire[p]
  BY <1>3 DEF RemoteInv, WiresTypeOK
<1>7. r \in executed /\ r \in issued /\ r \notin inbox
  BY <1>0, <1>2 DEF AttemptPlaced
<1>8. CallersTypeOK'
  BY <1>1 DEF RemoteInv, CallersTypeOK
<1>9. WiresTypeOK'
  BY <1>1, <1>2, <1>3, <1>5 DEF RemoteInv, WiresTypeOK
<1>10. Loops'
  BY <1>1, LoopsUnchanged DEF RemoteInv
<1>11. AttemptPlaced(r)'
  BY <1>0, <1>1, <1>2, <1>7 DEF AttemptPlaced
<1>12. AnswerInFlight(r)'
  <2>1. r \in pending => chunks[r] = << >>
    BY <1>0, <1>2 DEF AnswerInFlight
  <2>2. QED BY <1>1, <1>4, <1>5, <1>6, <1>7, <2>1 DEF AnswerInFlight
<1>13. OutcomeTells(r)'
  BY <1>0, <1>1, <1>2 DEF OutcomeTells
<1>14. Attempts'
  BY <1>1, <1>2, <1>6, <1>11, <1>12, <1>13, AttemptsOther DEF RemoteInv, DispatcherInv
<1>15. QED BY <1>8, <1>9, <1>10, <1>14

(***************************************************************************)
(* A message of an answer arrives: handleInbound collects it or settles    *)
(* the call with it, or drops it when the call was settled before.         *)
(***************************************************************************)
LEMMA DeliverySteps ==
  ASSUME RemoteInv, NEW r \in Requests, AnswerDelivered(r)
  PROVE  CallersTypeOK' /\ WiresTypeOK' /\ Attempts' /\ Loops'
<1> DEFINE q == CallerOf(r)
<1> DEFINE data == <<Chunk(q), Result>>
<1>0. AttemptPlaced(r) /\ AnswerInFlight(r) /\ OutcomeTells(r) /\ q \in Callers
  BY RequestFacts DEF RemoteInv, Attempts
<1>1. UNCHANGED <<http, inbox, running, executed, incomplete, step, nsOf, hostOf, retryOn503, attempt>>
  BY DEF AnswerDelivered, callerVars
<1>2. wire[r] # << >> /\ wire' = [wire EXCEPT ![r] = Tail(@)]
  BY DEF AnswerDelivered
<1>3. \/ wire[r] = data \/ wire[r] = <<Result>>
      \/ \E err \in RemoteErrors : wire[r] = <<Error(err)>>
  BY <1>0, <1>2 DEF AnswerInFlight
<1>4. r \in issued /\ r \notin inbox /\ r \notin running
  BY <1>0, <1>2 DEF AttemptPlaced
<1>5. r \in pending => settled[r] = Unsettled /\ http[r] # "ok" /\ http[r] # "unavailable"
  BY <1>0, OutcomeFacts DEF RemoteInv, DispatcherInv, PendingExact, OutcomeTells
<1>6. wire'[r] = Tail(wire[r]) /\ \A p \in Requests \ {r} : wire'[p] = wire[p]
  BY <1>2 DEF RemoteInv, WiresTypeOK
<1>7. CallersTypeOK'
  BY <1>1 DEF RemoteInv, CallersTypeOK
<1>8. WiresTypeOK'
  <2>1. Tail(wire[r]) \in Seq(Messages)
    BY <1>2 DEF RemoteInv, WiresTypeOK
  <2>2. QED BY <1>1, <1>2, <2>1 DEF RemoteInv, WiresTypeOK
<1>9. Loops'
  BY <1>1, LoopsUnchanged DEF RemoteInv
<1>10. \/ /\ wire[r] = data /\ wire'[r] = <<Result>>
          /\ InboundChunk(r, q) \/ (r \notin pending /\ UNCHANGED callVars)
       \/ /\ wire[r] = <<Result>> /\ wire'[r] = << >>
          /\ InboundResult(r) \/ (r \notin pending /\ UNCHANGED callVars)
       \/ /\ \E err \in RemoteErrors :
               /\ wire[r] = <<Error(err)>>
               /\ InboundError(r, err) \/ (r \notin pending /\ UNCHANGED callVars)
          /\ wire'[r] = << >>
  <2>1. \/ Head(wire[r]).type = "chunk" /\ InboundChunk(r, Head(wire[r]).data)
        \/ Head(wire[r]).type = "result" /\ InboundResult(r)
        \/ Head(wire[r]).type = "error" /\ InboundError(r, Head(wire[r]).error)
        \/ r \notin pending /\ UNCHANGED callVars
    BY DEF AnswerDelivered
  <2>2. CASE wire[r] = data
    BY <1>0, <1>6, <2>1, <2>2, MessageFacts
  <2>3. CASE wire[r] = <<Result>>
    BY <1>0, <1>6, <2>1, <2>3, MessageFacts
  <2>4. CASE \E err \in RemoteErrors : wire[r] = <<Error(err)>>
    BY <1>0, <1>6, <2>1, <2>4, MessageFacts
  <2>5. QED BY <1>3, <2>2, <2>3, <2>4
<1>11. /\ issued' = issued
       /\ \A p \in Requests \ {r} :
            (p \in pending' <=> p \in pending) /\ UNCHANGED <<chunks[p], settled[p]>>
  BY <1>10 DEF InboundChunk, InboundResult, InboundError, Settle, callVars,
               RemoteInv, DispatcherInv, CallsTypeOK
<1>12. AttemptPlaced(r)'
  BY <1>0, <1>1, <1>4, <1>11 DEF AttemptPlaced
<1>13. << >> # data /\ << >> # <<Result>> /\ data # <<Result>>
  BY <1>0, MessageFacts
<1> HIDE DEF data, q
<1>14. ASSUME wire[r] = data, wire'[r] = <<Result>>,
              InboundChunk(r, q) \/ (r \notin pending /\ UNCHANGED callVars)
       PROVE  AnswerInFlight(r)' /\ OutcomeTells(r)'
  <2>1. r \in executed
    BY <1>0, <1>14 DEF AnswerInFlight, data, q
  <2>2. settled' = settled /\ pending' = pending
    BY <1>14 DEF InboundChunk, callVars
  <2>3. r \in pending' => chunks'[r] = <<q>>
    <3>1. r \in pending => chunks[r] = << >>
      BY <1>0, <1>14 DEF AnswerInFlight, data, q
    <3>2. QED BY <1>14, <2>2, <3>1 DEF InboundChunk, RemoteInv, DispatcherInv, CallsTypeOK
  <2>4. AnswerInFlight(r)'
    BY <1>1, <1>4, <1>13, <1>14, <2>1, <2>3 DEF AnswerInFlight, data, q
  <2>5. OutcomeTells(r)'
    BY <1>0, <1>1, <2>2 DEF OutcomeTells
  <2>6. QED BY <2>4, <2>5
<1>15. ASSUME wire[r] = <<Result>>, wire'[r] = << >>,
              InboundResult(r) \/ (r \notin pending /\ UNCHANGED callVars)
       PROVE  AnswerInFlight(r)' /\ OutcomeTells(r)'
  <2>1. r \in executed
    BY <1>0, <1>15 DEF AnswerInFlight
  <2>2. r \notin pending'
    BY <1>15 DEF InboundResult, Settle, callVars
  <2>3. AnswerInFlight(r)'
    BY <1>13, <1>15, <2>2 DEF AnswerInFlight, data, q
  <2>4. CASE r \notin pending
    BY <1>0, <1>1, <1>15, <2>3, <2>4 DEF OutcomeTells, InboundResult, callVars
  <2>5. CASE r \in pending
    <3>1. chunks[r] = <<q>>
      BY <1>0, <1>15, <2>5 DEF AnswerInFlight, q
    <3>2. settled'[r] = Resolved(<<q>>)
      BY <1>15, <2>5, <3>1 DEF InboundResult, Settle, RemoteInv, DispatcherInv, CallsTypeOK
    <3>3. settled'[r].status = "resolved" /\ \A err : settled'[r] # Rejected(err)
      BY <3>2, OutcomeFacts
    <3>4. OutcomeTells(r)'
      BY <1>1, <1>5, <2>1, <2>5, <3>2, <3>3 DEF OutcomeTells, q
    <3>5. QED BY <2>3, <3>4
  <2>6. QED BY <2>3, <2>4, <2>5
<1>16. ASSUME NEW err \in RemoteErrors, wire'[r] = << >>,
              InboundError(r, err) \/ (r \notin pending /\ UNCHANGED callVars)
       PROVE  AnswerInFlight(r)' /\ OutcomeTells(r)'
  <2>1. r \notin pending'
    BY <1>16 DEF InboundError, Settle, callVars
  <2>2. AnswerInFlight(r)'
    BY <1>13, <1>16, <2>1 DEF AnswerInFlight, data, q
  <2>3. CASE r \notin pending
    BY <1>0, <1>1, <1>16, <2>2, <2>3 DEF OutcomeTells, InboundError, callVars
  <2>4. CASE r \in pending
    <3>1. settled'[r] = Rejected(err)
      BY <1>16, <2>4 DEF InboundError, Settle, RemoteInv, DispatcherInv, CallsTypeOK
    <3>2. err # "host_not_connected"
      BY DEF RemoteErrors
    <3>3. settled'[r].status # "resolved" /\ settled'[r] # Rejected("host_not_connected")
      BY <3>1, <3>2, OutcomeFacts
    <3>4. OutcomeTells(r)'
      BY <1>1, <1>4, <1>5, <2>4, <3>3 DEF OutcomeTells
    <3>5. QED BY <2>2, <3>4
  <2>5. QED BY <2>2, <2>3, <2>4
<1>17. AnswerInFlight(r)' /\ OutcomeTells(r)'
  BY <1>10, <1>14, <1>15, <1>16
<1>18. Attempts'
  BY <1>1, <1>6, <1>11, <1>12, <1>17, AttemptsOther DEF RemoteInv, DispatcherInv
<1>19. QED BY <1>7, <1>8, <1>9, <1>18

\* A runtime server connects, loses its socket with what was in flight, or stops.
LEMMA ConnectionSteps ==
  ASSUME RemoteInv, NEW h \in Hosts, NEW ns \in Namespaces,
         \/ \E ws \in Sockets : RuntimeConnected(h, ns, ws)
         \/ StaleClose(h, ns) \/ ConnectionLost(h, ns) \/ RuntimeStopped(h, ns)
  PROVE  CallersTypeOK' /\ WiresTypeOK' /\ Attempts' /\ Loops'
<1>1. UNCHANGED <<callVars, incomplete, step, nsOf, hostOf, retryOn503, attempt, http, executed>>
  BY DEF RuntimeConnected, StaleClose, ConnectionLost, RuntimeStopped, callerVars, runtimeVars
<1>2. inbox' \subseteq inbox /\ running' \subseteq running
  BY DEF RuntimeConnected, StaleClose, ConnectionLost, RuntimeStopped, runtimeVars
<1>3. \A r \in Requests : wire'[r] = wire[r] \/ wire'[r] = << >>
  BY DEF RuntimeConnected, StaleClose, ConnectionLost, RuntimeStopped, runtimeVars
<1>4. wire' \in [Requests -> Seq(Messages)]
  <2>1. << >> \in Seq(Messages)
    OBVIOUS
  <2>2. QED BY <2>1 DEF RuntimeConnected, StaleClose, ConnectionLost, RuntimeStopped,
                        runtimeVars, RemoteInv, WiresTypeOK
<1>5. CallersTypeOK' /\ WiresTypeOK'
  BY <1>1, <1>2, <1>4 DEF RemoteInv, CallersTypeOK, WiresTypeOK
<1>6. Attempts'
  BY <1>1, <1>2, <1>3, AttemptsLost DEF RemoteInv
<1>7. Loops'
  BY <1>1, LoopsUnchanged DEF RemoteInv
<1>8. QED BY <1>5, <1>6, <1>7

-----------------------------------------------------------------------------
\* Nothing was posted, dispatched or executed yet.
LEMMA RemoteInitInv == RemoteInit => RemoteInv
<1> SUFFICES ASSUME RemoteInit PROVE RemoteInv
  OBVIOUS
<1>1. DispatcherInv
  BY DispatcherInitInv DEF RemoteInit
<1>2. CallersTypeOK
  BY RemoteConstants DEF RemoteInit, CallersTypeOK, Steps
<1>3. WiresTypeOK
  BY DEF RemoteInit, WiresTypeOK
<1>4. Attempts
  <2> SUFFICES ASSUME NEW r \in Requests
               PROVE  AttemptPlaced(r) /\ AnswerInFlight(r) /\ OutcomeTells(r)
    BY DEF Attempts
  <2>1. AttemptPlaced(r)
    BY DEF RemoteInit, DispatcherInit, CallsInit, AttemptPlaced
  <2>2. AnswerInFlight(r)
    <3>1. << >> # <<Chunk(CallerOf(r)), Result>> /\ << >> # <<Result>>
      BY RequestFacts, MessageFacts
    <3>2. QED BY <3>1 DEF RemoteInit, DispatcherInit, CallsInit, AnswerInFlight
  <2>3. OutcomeTells(r)
    BY OutcomeFacts DEF RemoteInit, DispatcherInit, CallsInit, OutcomeTells
  <2>4. QED BY <2>1, <2>2, <2>3
<1>5. Loops
  BY RemoteConstants, RequestFacts DEF RemoteInit, Loops, LoopOrdered, MaxAttemptsOf, AttemptsAllowed
<1>6. QED BY <1>1, <1>2, <1>3, <1>4, <1>5 DEF RemoteInv

\* Every step keeps the inductive invariant.
LEMMA RemoteStepInv == RemoteInv /\ [RemoteNext]_remoteVars => RemoteInv'
<1> SUFFICES ASSUME RemoteInv, [RemoteNext]_remoteVars
             PROVE  CallersTypeOK' /\ WiresTypeOK' /\ Attempts' /\ Loops'
  BY RemoteDispatcherInv DEF RemoteInv
<1>1. CASE UNCHANGED remoteVars
  <2>1. UNCHANGED <<callVars, http, inbox, running, wire, executed>>
    BY <1>1 DEF remoteVars, callVars
  <2>2. UNCHANGED <<incomplete, step, nsOf, hostOf, retryOn503, attempt>>
    BY <1>1 DEF remoteVars
  <2>3. Attempts' /\ Loops'
    BY <2>1, <2>2, AttemptsUnchanged, LoopsUnchanged DEF RemoteInv
  <2>4. QED BY <2>1, <2>2, <2>3 DEF RemoteInv, CallersTypeOK, WiresTypeOK
<1>2. CASE \E q \in Callers :
             \/ \E ns \in Namespaces, h \in Hosts, strategy \in {"pinned", "any-matching"} :
                  HostResolved(q, ns, strategy, h)
             \/ HostUnresolved(q)
             \/ \E ns \in Namespaces \cup {Undefined}, option \in RetryOptions :
                  ExecuteRemote(q, ns, option) \/ ExecuteUnattempted(q, ns, option)
             \/ SleepOver(q) \/ AnswerRead(q) \/ FetchAborted(q)
  BY <1>2, CallerSteps, AttemptSteps, NoAttemptSteps
<1>3. CASE \E r \in Requests :
             \/ DispatchRefused(r) \/ Dispatch(r) \/ DispatchAnswered(r) \/ CallTimedOut(r)
             \/ CallReceived(r) \/ HandlerFinished(r) \/ AnswerDelivered(r)
  BY <1>3, AnswerSteps, DispatchSteps, TimeoutSteps, ReceiveSteps, FinishSteps, DeliverySteps
<1>4. CASE \E h \in Hosts, ns \in Namespaces :
             \/ \E ws \in Sockets : RuntimeConnected(h, ns, ws)
             \/ StaleClose(h, ns) \/ ConnectionLost(h, ns) \/ RuntimeStopped(h, ns)
  BY <1>4, ConnectionSteps
<1>5. QED BY <1>1, <1>2, <1>3, <1>4 DEF RemoteNext

\* The inductive invariant holds of every state of a remote execution.
THEOREM RemoteInvariant == RemoteSpec => []RemoteInv
BY RemoteInitInv, RemoteStepInv, PTL DEF RemoteSpec

\* The callers, the exchanges, the messages and the handlers keep their types.
THEOREM RemoteTypeCorrect == RemoteSpec => []RemoteTypeOK
<1>1. RemoteInv => RemoteTypeOK
  <2> SUFFICES ASSUME RemoteInv PROVE RemoteTypeOK
    OBVIOUS
  <2>1. running \subseteq executed /\ executed \subseteq issued
    BY DEF RemoteInv, WiresTypeOK, Attempts, AttemptPlaced
  <2>2. QED BY <2>1 DEF RemoteInv, DispatcherInv, CallersTypeOK, WiresTypeOK,
                        RemoteTypeOK, DispatcherTypeOK
<1>2. QED BY <1>1, RemoteInvariant, PTL

\* execute() returns what the handler of that request produced for that attempt.
THEOREM AnswersOwn == RemoteSpec => []AnswerIsOwn
<1>1. RemoteInv => AnswerIsOwn
  <2> SUFFICES ASSUME RemoteInv, NEW q \in Callers, step[q] = "returned"
               PROVE  Current(q) \in executed /\ settled[Current(q)] = Resolved(<<q>>)
    BY DEF AnswerIsOwn
  <2>1. LoopOrdered(q) /\ attempt[q] \in 0..MaxAttempts /\ MaxAttempts \in Nat
    BY RemoteConstants DEF RemoteInv, Loops, CallersTypeOK
  <2>2. http[Current(q)] = "ok" /\ attempt[q] \in 1..MaxAttempts
    BY <2>1 DEF LoopOrdered
  <2>3. Current(q) \in Requests /\ CallerOf(Current(q)) = q
    BY <2>2, RequestFacts DEF Current
  <2>4. OutcomeTells(Current(q))
    BY <2>3 DEF RemoteInv, Attempts
  <2>5. QED BY <2>2, <2>3, <2>4 DEF OutcomeTells
<1>2. QED BY <1>1, RemoteInvariant, PTL

\* A retry follows only attempts no handler was started for, or that it reported failed.
THEOREM WorkNotRepeated == RemoteSpec => []NoWorkRepeated
<1>1. RemoteInv => NoWorkRepeated
  <2> SUFFICES ASSUME RemoteInv, NEW q \in Callers, NEW m \in 1..MaxAttempts,
                      NEW n \in 1..MaxAttempts, m < n, http[<<q, n>>] # "none"
               PROVE  /\ <<q, m>> \in executed => settled[<<q, m>>] = Rejected("remote_transport")
                      /\ <<q, m>> \notin inbox \cup running
    BY DEF NoWorkRepeated
  <2>1. LoopOrdered(q) /\ attempt[q] \in 0..MaxAttempts /\ MaxAttempts \in Nat
    BY RemoteConstants DEF RemoteInv, Loops, CallersTypeOK
  <2>2. http[<<q, m>>] = "unavailable"
    BY <2>1 DEF LoopOrdered
  <2>3. AttemptPlaced(<<q, m>>) /\ OutcomeTells(<<q, m>>)
    BY RequestFacts DEF RemoteInv, Attempts
  <2>4. QED BY <2>2, <2>3 DEF AttemptPlaced, OutcomeTells
<1>2. QED BY <1>1, RemoteInvariant, PTL

\* A request fails on a 503 only when each of the attempts that line 66 allows it was
\* answered 503.
THEOREM PollingExhausts == RemoteSpec => []PollsUntilExhausted
<1>1. RemoteInv => PollsUntilExhausted
  <2> SUFFICES ASSUME RemoteInv, NEW q \in Callers, step[q] = "failed", attempt[q] > 0,
                      http[Current(q)] = "unavailable", NEW n \in 1..MaxAttemptsOf(q)
               PROVE  http[<<q, n>>] = "unavailable"
    BY DEF PollsUntilExhausted
  <2>1. LoopOrdered(q) /\ MaxAttemptsOf(q) \in 0..MaxAttempts /\ MaxAttempts \in Nat
    BY AllowedFacts DEF RemoteInv, Loops
  <2>2. attempt[q] = MaxAttemptsOf(q)
    BY <2>1 DEF LoopOrdered
  <2>3. CASE n = MaxAttemptsOf(q)
    BY <2>2, <2>3 DEF Current
  <2>4. CASE n < MaxAttemptsOf(q)
    BY <2>1, <2>2, <2>4 DEF LoopOrdered
  <2>5. QED BY <2>1, <2>3, <2>4
<1>2. QED BY <1>1, RemoteInvariant, PTL
=============================================================================
