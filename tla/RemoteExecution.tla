--------------------------- MODULE RemoteExecution ---------------------------
(***************************************************************************)
(* Execution on a remote runtime server, from end to end: GatewayHostResolver *)
(* and GatewayDispatchTransport (packages/gateway-core) in the calling     *)
(* process, /internal/resolve-host and /internal/dispatch of the gateway   *)
(* with its HostCallDispatcher, and RuntimeServer                          *)
(* (packages/gateway-runtime-server), which is an agent of the gateway.    *)
(*                                                                         *)
(* Three processes and two networks: an HTTP exchange per attempt, whose   *)
(* caller may give up while the gateway goes on, and a socket per runtime  *)
(* server, which may break with calls and answers in flight.               *)
(***************************************************************************)
EXTENDS HostCallDispatcher

CONSTANTS
  Callers,      \* invocations of transport.execute()
  RetryOptions, \* retryOn503 options of transports; Undefined: without the option
  MaxAttempts   \* bound on retryOn503.maxAttempts

ASSUME RemoteConstants ==
  /\ MaxAttempts \in Nat \ {0}
  /\ RetryOptions \subseteq [maxAttempts : 0..MaxAttempts \cup {Undefined}] \cup {Undefined}
  /\ Requests = Callers \X (1..MaxAttempts)  \* one POST, and one call, per attempt
  /\ Data = Callers       \* a payload is what the handler returns for a caller
  /\ MaxChunks > 0
  /\ "execution" \in Capabilities

VARIABLES
  incomplete,  \* callers whose request lacks handlerRef or pluginRoot (never changes)
  step,      \* where a caller is suspended, or how it ended
  nsOf,      \* namespaceId option of its transport
  hostOf,    \* runtimeHostId option of its transport, as resolved
  retryOn503, \* option of its transport: an element of RetryOptions
  attempt,   \* loop variable of execute()
  http,      \* the exchange of an attempt: posted, calling, or its answer
  inbox,     \* calls in flight to a runtime server
  running,   \* calls whose handler a runtime server is running
  wire,      \* request -> answer messages in flight, in the order of sending
  executed   \* history: calls a handler was started for

callerVars == <<incomplete, step, nsOf, hostOf, retryOn503, attempt>>
runtimeVars == <<inbox, running, wire, executed>>
remoteVars == <<connections, capabilityIndex, issued, pending, chunks, timers, settled,
                incomplete, step, nsOf, hostOf, retryOn503, attempt, http, inbox, running, wire,
                executed>>

Steps == {"idle", "unresolved", "resolved", "fetching", "sleeping",
          "returned", "failed", "aborted"}
HttpAnswers == {"ok", "bad_request", "bad_gateway", "unavailable"}  \* 200, 400, 502, 503

Current(q) == <<q, attempt[q]>>
CallerOf(r) == r[1]
Host(r) == hostOf[CallerOf(r)]

Chunk(q) == [type |-> "chunk", data |-> q]
Result == [type |-> "result"]
Error(err) == [type |-> "error", error |-> err]
Messages == [type : {"chunk"}, data : Data] \cup {Result} \cup [type : {"error"}, error : RemoteErrors]

\* Type invariant: callers, exchanges and messages in flight.
RemoteTypeOK ==
  /\ DispatcherTypeOK
  /\ incomplete \subseteq Callers
  /\ step \in [Callers -> Steps]
  /\ nsOf \in [Callers -> Namespaces \cup {Undefined}]
  /\ hostOf \in [Callers -> Hosts \cup {Undefined}]
  /\ retryOn503 \in [Callers -> RetryOptions \cup {Undefined}]
  /\ attempt \in [Callers -> 0..MaxAttempts]
  /\ http \in [Requests -> {"none", "posted", "calling"} \cup HttpAnswers]
  /\ inbox \subseteq Requests
  /\ running \subseteq executed
  /\ wire \in [Requests -> Seq(Messages)]
  /\ executed \subseteq issued

RemoteInit ==
  /\ DispatcherInit
  /\ incomplete \in SUBSET Callers
  /\ step = [q \in Callers |-> "idle"]
  /\ nsOf = [q \in Callers |-> Undefined]
  /\ hostOf = [q \in Callers |-> Undefined]
  /\ retryOn503 = [q \in Callers |-> Undefined]
  /\ attempt = [q \in Callers |-> 0]
  /\ http = [r \in Requests |-> "none"]
  /\ inbox = {}
  /\ running = {}
  /\ wire = [r \in Requests |-> << >>]
  /\ executed = {}

-----------------------------------------------------------------------------
\* GatewayHostResolver.resolve

(***************************************************************************)
(* The hosts POST /internal/resolve-host may name.  A pinned host is one   *)
(* whose registry status is online or reconnecting, which says nothing     *)
(* about its socket (AgentConnection reaches every combination), so any    *)
(* host may pass; the other strategies ask the dispatcher.                 *)
(***************************************************************************)
ResolvableHosts(ns, strategy) ==
  IF strategy = "pinned" THEN Hosts
                         ELSE FirstHostWithCapability(ns, "execution") \ {Undefined}

HostResolved(q, ns, strategy, h) ==
  /\ step[q] = "idle"
  /\ h \in ResolvableHosts(ns, strategy)
  /\ step' = [step EXCEPT ![q] = "resolved"]
  /\ nsOf' = [nsOf EXCEPT ![q] = ns]
  /\ hostOf' = [hostOf EXCEPT ![q] = h]
  /\ UNCHANGED <<dispatcherVars, incomplete, retryOn503, attempt, http, runtimeVars>>

\* null: 404, another status, a malformed body, a network error or the timeout.
HostUnresolved(q) ==
  /\ step[q] = "idle"
  /\ step' = [step EXCEPT ![q] = "unresolved"]
  /\ UNCHANGED <<dispatcherVars, incomplete, nsOf, hostOf, retryOn503, attempt, http, runtimeVars>>

-----------------------------------------------------------------------------
\* GatewayDispatchTransport.execute

\* The next turn of the loop: POST /internal/dispatch with a fresh timer.
PostAttempt(q) ==
  /\ attempt' = [attempt EXCEPT ![q] = @ + 1]
  /\ http' = [http EXCEPT ![<<q, attempt[q] + 1>>] = "posted"]
  /\ step' = [step EXCEPT ![q] = "fetching"]
  /\ UNCHANGED <<dispatcherVars, incomplete, hostOf, runtimeVars>>

\* retry?.maxAttempts ?? 1: also when the option is there and leaves maxAttempts out.
AttemptsAllowed(option) ==
  IF option = Undefined THEN 1
  ELSE IF option.maxAttempts = Undefined THEN 1 ELSE option.maxAttempts

MaxAttemptsOf(q) == AttemptsAllowed(retryOn503[q])

\* The namespaceId option may be left out; the transport supplies no default.
Configured(q, ns, option) ==
  /\ step[q] = "resolved"
  /\ ns \in {nsOf[q], Undefined}
  /\ nsOf' = [nsOf EXCEPT ![q] = ns]
  /\ retryOn503' = [retryOn503 EXCEPT ![q] = option]

ExecuteRemote(q, ns, option) ==
  /\ Configured(q, ns, option)
  /\ AttemptsAllowed(option) > 0
  /\ PostAttempt(q)

\* maxAttempts: 0 (or less): the loop has no turn, and execute() throws at once.
ExecuteUnattempted(q, ns, option) ==
  /\ Configured(q, ns, option)
  /\ AttemptsAllowed(option) = 0
  /\ step' = [step EXCEPT ![q] = "failed"]
  /\ UNCHANGED <<dispatcherVars, incomplete, hostOf, attempt, http, runtimeVars>>

SleepOver(q) ==
  /\ step[q] = "sleeping"
  /\ UNCHANGED <<nsOf, retryOn503>>
  /\ PostAttempt(q)

\* Mutant: a gateway error is retried as well, whatever became of the call.
RetriesOnAnyFailure(q) ==
  /\ http[Current(q)] \in {"unavailable", "bad_gateway"}
  /\ attempt[q] < MaxAttemptsOf(q)

\* Mutant: the loop ends one attempt early.
RetriesOffByOne(q) ==
  /\ http[Current(q)] = "unavailable"
  /\ attempt[q] + 1 < MaxAttemptsOf(q)

\* Mutant: the last attempt is followed by another one.
RetriesPastTheLast(q) ==
  /\ http[Current(q)] = "unavailable"
  /\ attempt[q] <= MaxAttemptsOf(q)

\* response.status === 503 && attempt < maxAttempts
Retries(q) ==
  /\ http[Current(q)] = "unavailable"
  /\ attempt[q] < MaxAttemptsOf(q)

AnswerRead(q) ==
  /\ step[q] = "fetching"
  /\ http[Current(q)] \in HttpAnswers
  /\ step' = [step EXCEPT ![q] =
       IF Retries(q) THEN "sleeping"
       ELSE IF http[Current(q)] = "ok" THEN "returned" ELSE "failed"]
  /\ UNCHANGED <<dispatcherVars, incomplete, nsOf, hostOf, retryOn503, attempt, http, runtimeVars>>

\* Mutant: the timer is cleared as soon as the request was sent.
FetchAbortedUnsent(q) ==
  /\ step[q] = "fetching"
  /\ http[Current(q)] = "none"
  /\ step' = [step EXCEPT ![q] = "aborted"]
  /\ UNCHANGED <<dispatcherVars, incomplete, nsOf, hostOf, retryOn503, attempt, http, runtimeVars>>

(***************************************************************************)
(* fetch or the reading of the body throws: the timer aborted it, or the   *)
(* network failed.  Not retried, and the gateway is not told.              *)
(***************************************************************************)
FetchAborted(q) ==
  /\ step[q] = "fetching"
  /\ step' = [step EXCEPT ![q] = "aborted"]
  /\ UNCHANGED <<dispatcherVars, incomplete, nsOf, hostOf, retryOn503, attempt, http, runtimeVars>>

-----------------------------------------------------------------------------
\* POST /internal/dispatch

\* Without a namespace the request is refused before any host is looked up.
DispatchRefused(r) ==
  /\ http[r] = "posted"
  /\ nsOf[CallerOf(r)] = Undefined
  /\ http' = [http EXCEPT ![r] = "bad_request"]
  /\ UNCHANGED <<dispatcherVars, callerVars, runtimeVars>>

Dispatch(r) ==
  LET ns == nsOf[CallerOf(r)]
  IN  /\ http[r] = "posted"
      /\ ns # Undefined
      /\ InternalDispatch(r, ns, Host(r), "execution")
      /\ http' = [http EXCEPT ![r] = "calling"]
      /\ inbox' = IF Connected(ns, Host(r)) THEN inbox \cup {r} ELSE inbox
      /\ UNCHANGED <<callerVars, running, wire, executed>>

(***************************************************************************)
(* 503 when the message says "Host not connected", else 502.  A runtime    *)
(* server whose handler met a transport failure of its own may report an   *)
(* error with that very text, so its call is answered with either.         *)
(***************************************************************************)
AnswersFor(outcome) ==
  IF outcome.status = "resolved" THEN {"ok"}
  ELSE CASE outcome.error = "host_not_connected" -> {"unavailable"}
         [] outcome.error = "remote_transport" -> {"unavailable", "bad_gateway"}
         [] OTHER -> {"bad_gateway"}

DispatchAnswered(r) ==
  /\ http[r] = "calling"
  /\ settled[r] # Unsettled
  /\ \E answer \in AnswersFor(settled[r]) : http' = [http EXCEPT ![r] = answer]
  /\ UNCHANGED <<dispatcherVars, callerVars, runtimeVars>>

CallTimedOut(r) ==
  /\ CallTimeout(r)
  /\ UNCHANGED <<routingVars, callerVars, http, runtimeVars>>

-----------------------------------------------------------------------------
\* RuntimeServer

\* handleExecution: refused with an error, or the handler is started.
CallReceived(r) ==
  /\ r \in inbox
  /\ inbox' = inbox \ {r}
  /\ IF CallerOf(r) \in incomplete
       THEN /\ wire' = [wire EXCEPT ![r] = <<Error("remote_handler")>>]
            /\ UNCHANGED <<running, executed>>
       ELSE /\ running' = running \cup {r}
            /\ executed' = executed \cup {r}
            /\ UNCHANGED wire
  /\ UNCHANGED <<dispatcherVars, callerVars, http>>

\* Mutant: the result is announced before the data.
HandlerAnswersResultFirst(q) ==
  {<<Result, Chunk(q)>>} \cup {<<Error(err)>> : err \in RemoteErrors}

\* What the gateway client sends when the handler returns or throws.
HandlerAnswers(q) ==
  {<<Chunk(q), Result>>} \cup {<<Error(err)>> : err \in RemoteErrors}

HandlerFinished(r) ==
  /\ r \in running
  /\ running' = running \ {r}
  /\ \E answer \in HandlerAnswers(CallerOf(r)) : wire' = [wire EXCEPT ![r] = answer]
  /\ UNCHANGED <<dispatcherVars, callerVars, http, inbox, executed>>

\* handleInbound takes the message, or drops it when the call is not pending.
AnswerDelivered(r) ==
  /\ wire[r] # << >>
  /\ wire' = [wire EXCEPT ![r] = Tail(@)]
  /\ LET m == Head(wire[r])
     IN  \/ m.type = "chunk" /\ InboundChunk(r, m.data)
         \/ m.type = "result" /\ InboundResult(r)
         \/ m.type = "error" /\ InboundError(r, m.error)
         \/ r \notin pending /\ UNCHANGED callVars
  /\ UNCHANGED <<routingVars, callerVars, http, inbox, running, executed>>

-----------------------------------------------------------------------------
\* The connection of a runtime server

RuntimeConnected(h, ns, ws) ==
  /\ RegisterConnection(h, ns, ws, {"execution"})
  /\ UNCHANGED <<callVars, callerVars, http, runtimeVars>>

\* 'close' of a socket the runtime server has already replaced.
StaleClose(h, ns) ==
  /\ RemoveConnection(h, ns)
  /\ UNCHANGED <<callVars, callerVars, http, runtimeVars>>

\* What was in flight is lost; handlers go on and answer over the next socket.
ConnectionLost(h, ns) ==
  /\ RemoveConnection(h, ns)
  /\ inbox' = {r \in inbox : Host(r) # h}
  /\ wire' = [r \in Requests |-> IF Host(r) = h THEN << >> ELSE wire[r]]
  /\ UNCHANGED <<callVars, callerVars, http, running, executed>>

\* The runtime server stops: its handlers are lost as well.
RuntimeStopped(h, ns) ==
  /\ RemoveConnection(h, ns)
  /\ inbox' = {r \in inbox : Host(r) # h}
  /\ running' = {r \in running : Host(r) # h}
  /\ wire' = [r \in Requests |-> IF Host(r) = h THEN << >> ELSE wire[r]]
  /\ UNCHANGED <<callVars, callerVars, http, executed>>

-----------------------------------------------------------------------------
RemoteNext ==
  \/ \E q \in Callers :
       \/ \E ns \in Namespaces, h \in Hosts, strategy \in {"pinned", "any-matching"} :
            HostResolved(q, ns, strategy, h)
       \/ HostUnresolved(q)
       \/ \E ns \in Namespaces \cup {Undefined}, option \in RetryOptions :
            ExecuteRemote(q, ns, option) \/ ExecuteUnattempted(q, ns, option)
       \/ SleepOver(q)
       \/ AnswerRead(q)
       \/ FetchAborted(q)
  \/ \E r \in Requests :
       \/ DispatchRefused(r)
       \/ Dispatch(r)
       \/ DispatchAnswered(r)
       \/ CallTimedOut(r)
       \/ CallReceived(r)
       \/ HandlerFinished(r)
       \/ AnswerDelivered(r)
  \/ \E h \in Hosts, ns \in Namespaces :
       \/ \E ws \in Sockets : RuntimeConnected(h, ns, ws)
       \/ StaleClose(h, ns)
       \/ ConnectionLost(h, ns)
       \/ RuntimeStopped(h, ns)

(***************************************************************************)
(* Fairness: the timers of the calling process fire, and it reads answers  *)
(* that arrived.  Nothing is assumed of the networks, the gateway or the   *)
(* runtime server.                                                         *)
(***************************************************************************)
RemoteFairness ==
  \A q \in Callers :
    /\ WF_remoteVars(FetchAborted(q) \/ AnswerRead(q))
    /\ WF_remoteVars(SleepOver(q))

RemoteSpec == RemoteInit /\ [][RemoteNext]_remoteVars
RemoteFairSpec == RemoteSpec /\ RemoteFairness

-----------------------------------------------------------------------------
(***************************************************************************)
(* What execute() returns is what the handler of that very request         *)
(* produced, for that attempt: not undefined, not another caller's data,   *)
(* whichever sockets broke and whichever answers came late on the way.     *)
(***************************************************************************)
AnswerIsOwn ==
  \A q \in Callers : step[q] = "returned" =>
    /\ Current(q) \in executed
    /\ settled[Current(q)] = Resolved(<<q>>)

(***************************************************************************)
(* A retry never repeats work: a later attempt is posted only when no      *)
(* handler was started for the earlier ones, or when the runtime server    *)
(* itself reported that it failed.  A call that timed out, or whose answer *)
(* was lost, is not made again (503 is for calls that were never sent), so *)
(* two attempts of a request are never on the runtime server at once.      *)
(***************************************************************************)
NoWorkRepeated ==
  \A q \in Callers, m, n \in 1..MaxAttempts :
    m < n /\ http[<<q, n>>] # "none" =>
      /\ <<q, m>> \in executed => settled[<<q, m>>] = Rejected("remote_transport")
      /\ <<q, m>> \notin inbox \cup running

(***************************************************************************)
(* The transport gives up on a missing host neither early nor late: a      *)
(* request that fails on a 503 was answered 503 on each of the attempts    *)
(* that line 66 computes from the retryOn503 option, not one fewer.  That  *)
(* is one attempt when maxAttempts is left out, where line 19 documents 30 *)
(* and line 43 promises polling.                                           *)
(***************************************************************************)
PollsUntilExhausted ==
  \A q \in Callers :
    step[q] = "failed" /\ attempt[q] > 0 /\ http[Current(q)] = "unavailable" =>
      \A n \in 1..MaxAttemptsOf(q) : http[<<q, n>>] = "unavailable"

(***************************************************************************)
(* execute() settles: the timer ends an exchange that the gateway or the   *)
(* network never finishes, and the polling is bounded.                     *)
(***************************************************************************)
EveryExecuteSettles ==
  \A q \in Callers :
    (step[q] \in {"fetching", "sleeping"}) ~> (step[q] \in {"returned", "failed", "aborted"})
=============================================================================
