----------------------------- MODULE HttpServer -----------------------------
(***************************************************************************)
(* The gateway's own HTTP routes behind the hooks of                       *)
(* GatewayObservabilityCollector (observability/collector.ts): requests of *)
(* all kinds run at the same time, share the health and documentation      *)
(* caches, and are counted when they arrive and when their response is     *)
(* finished.                                                               *)
(***************************************************************************)
EXTENDS AdapterRoutes, HealthSnapshots, TopOperations

CONSTANTS
  TopLimit,   \* limit = 5 of mergeTopOperations
  Durations   \* of requests and probes: enough of them to rank by

ASSUME ServerConstants ==
  /\ TopLimit \in Nat \ {0}
  /\ Durations \subseteq Nat

VARIABLES
  underway,          \* requests counted on arrival and not yet when finished
  activeOperations,
  requestsTotal,
  errorsTotal,
  routeStats,        \* per route: count, maxDurationMs, errorCount
  operationMetrics   \* the same per domain operation (OperationMetricsTracker)

collectorVars == <<underway, activeOperations, requestsTotal, errorsTotal, routeStats,
                   operationMetrics>>
serverVars == <<exchangeVars, adapterVars, snapshotVars, collectorVars>>

(***************************************************************************)
(* collectHealthSnapshot observes "gateway.adapter.<name>" for every       *)
(* adapter, always together (one operation here), and                      *)
(* "gateway.upstream.<name>.health" for every upstream.                    *)
(***************************************************************************)
AdapterOperation == <<"gateway.adapter">>
UpstreamOperation(u) == <<"gateway.upstream", u>>
DomainOperations == {AdapterOperation} \cup {UpstreamOperation(u) : u \in Names}

Stats == [count : Nat, max : Durations \cup {0}, errors : Nat]
NoStats == [count |-> 0, max |-> 0, errors |-> 0]

\* Type invariant of the handlers, the caches, the counters and the statistics.
HttpTypeOK ==
  /\ ExchangeTypeOK /\ AdapterTypeOK /\ SnapshotTypeOK
  /\ underway \subseteq Exchanges
  /\ activeOperations \in Nat
  /\ requestsTotal \in Nat
  /\ errorsTotal \in Nat
  /\ routeStats \in [HttpRoutes -> Stats]
  /\ operationMetrics \in [DomainOperations -> Stats]

HttpInit ==
  /\ ExchangeInit /\ AdapterInit /\ SnapshotInit
  /\ underway = {}
  /\ activeOperations = 0
  /\ requestsTotal = 0
  /\ errorsTotal = 0
  /\ routeStats = [r \in HttpRoutes |-> NoStats]
  /\ operationMetrics = [o \in DomainOperations |-> NoStats]

-----------------------------------------------------------------------------
\* The hooks

\* count, maxDurationMs and errorCount after one more occurrence.
Recorded(stats, duration, isError) ==
  [count |-> stats.count + 1,
   max |-> IF duration > stats.max THEN duration ELSE stats.max,
   errors |-> IF isError THEN stats.errors + 1 ELSE stats.errors]

OnRequest(q, r) ==
  /\ Request(q, r)
  /\ underway' = underway \cup {q}
  /\ activeOperations' = activeOperations + 1
  /\ UNCHANGED <<adapterVars, snapshotVars, requestsTotal, errorsTotal, routeStats,
                 operationMetrics>>

\* reply.statusCode: what was sent, or the 502 that could not be sent any more.
StatusCode(q) == IF handler[q] = "threw" THEN "502" ELSE sent[q][1]

(***************************************************************************)
(* Fastify calls the hook when the response is finished.  When the peer    *)
(* left, or the response was never ended, it may never do so.              *)
(***************************************************************************)
OnResponse(q, duration) ==
  /\ Finished(q)
  /\ q \in underway
  /\ LET isError == StatusCode(q) \in Failures
     IN  /\ routeStats' = [routeStats EXCEPT ![route[q]] =
                             Recorded(@, duration, isError)]
         /\ errorsTotal' = IF isError THEN errorsTotal + 1 ELSE errorsTotal
  /\ requestsTotal' = requestsTotal + 1
  /\ activeOperations' = IF activeOperations > 0 THEN activeOperations - 1 ELSE 0
  /\ underway' = underway \ {q}
  /\ UNCHANGED <<exchangeVars, adapterVars, snapshotVars, operationMetrics>>

-----------------------------------------------------------------------------
\* observeOperation around a look at the adapters or a probe, which never throws.
Observe(operation, duration) ==
  operationMetrics' = [operationMetrics EXCEPT ![operation] = Recorded(@, duration, FALSE)]

ObservedMiss(q, duration) == HealthMiss(q) /\ Observe(AdapterOperation, duration)

ObservedProbe(q, isUp, duration) ==
  Probed(q, isUp) /\ Observe(UpstreamOperation(ProbedNext(q)), duration)

CachedStep(q) == HealthHit(q) \/ DocsHit(q) \/ DocsMiss(q) \/ DocsFetched(q)

HttpNext ==
  \/ \E q \in Exchanges :
       \/ \E r \in HttpRoutes : OnRequest(q, r)
       \/ \E duration \in Durations : OnResponse(q, duration)
       \/ Refuse(q) /\ UNCHANGED <<adapterVars, snapshotVars, collectorVars>>
       \/ AdapterStep(q) /\ UNCHANGED <<snapshotVars, collectorVars>>
       \/ CachedStep(q) /\ UNCHANGED <<adapterVars, collectorVars>>
       \/ /\ \E duration \in Durations :
               ObservedMiss(q, duration) \/ \E isUp \in BOOLEAN : ObservedProbe(q, isUp, duration)
          /\ UNCHANGED <<adapterVars, underway, activeOperations, requestsTotal, errorsTotal,
                         routeStats>>
  \/ Tick /\ UNCHANGED <<adapterVars, collectorVars>>

HttpSpec == HttpInit /\ [][HttpNext]_serverVars

-----------------------------------------------------------------------------
HttpOperations == {<<"http", r>> : r \in HttpRoutes}
OperationStats ==
  [o \in HttpOperations \cup DomainOperations |->
     IF o \in HttpOperations THEN routeStats[o[2]] ELSE operationMetrics[o]]
ObservedOperations(ops) == {o \in ops : OperationStats[o].count > 0}

TopOperationsNow ==
  MergeTopOperations(OperationStats, ObservedOperations(HttpOperations),
                     ObservedOperations(DomainOperations), TopLimit)

(***************************************************************************)
(* The report names at most TopLimit operations, a domain operation among  *)
(* them as soon as there is one, and leaves nothing out that ranks above   *)
(* what it names, but for the route that made room for the only domain     *)
(* operation (collector.ts:162-174 and 286-346).                           *)
(***************************************************************************)
TopOperationsSound ==
  \A top \in TopOperationsNow :
    LET domain == ObservedOperations(DomainOperations)
        observed == ObservedOperations(HttpOperations) \cup domain
    IN  /\ top \subseteq observed
        /\ Cardinality(top) = IF Cardinality(observed) < TopLimit
                                THEN Cardinality(observed) ELSE TopLimit
        /\ domain # {} => top \cap domain # {}
        /\ \A o \in top, p \in observed \ top :
             Outranks(OperationStats, p, o) => p \notin domain /\ top \cap domain = {o}
=============================================================================
