------------------------- MODULE HttpServer_proofs -------------------------
(***************************************************************************)
(* Proofs about HttpServer and the modules it is made of, for any number   *)
(* of requests, chunks, events and upstreams, any times to live and any    *)
(* length of the report: HealthSnapshots (how old an answer can be),       *)
(* HttpExchange and AdapterRoutes (what a peer is sent), TopOperations     *)
(* (what the report names).                                                *)
(***************************************************************************)
EXTENDS HttpServer, SequenceTheorems, FiniteSetTheorems, TLAPS

-----------------------------------------------------------------------------
\* The inductive invariant of the cached views

\* What is cached was observed in time, and expires in time.
EntriesFresh ==
  /\ \A k \in CacheKeys : cached[k].since <= clock
  /\ cached["health"].expires <=
       cached["health"].since + (HealthTTL + Len(Upstreams) * ProbeTimeout)
  /\ cached["docs"].expires <= cached["docs"].since + (DocsTTL + DocsTimeout)

\* A request that collects is within the time its probes may take.
CollectsInTime(q) ==
  /\ view[q].since <= clock
  /\ handler[q] = "probing" =>
       /\ route[q] \in HealthRouteNames
       /\ view[q].probed < Len(Upstreams)
       /\ clock <= view[q].deadline
       /\ view[q].deadline <= view[q].since + (view[q].probed + 1) * ProbeTimeout
  /\ handler[q] = "fetching" =>
       /\ route[q] = "docs"
       /\ clock <= view[q].deadline
       /\ view[q].deadline <= view[q].since + DocsTimeout
  /\ ~Finished(q) => served[q] = 0

SnapshotsInv ==
  /\ ExchangeTypeOK /\ SnapshotTypeOK
  /\ EntriesFresh
  /\ \A q \in Exchanges : CollectsInTime(q)
  /\ ServedIsFresh

-----------------------------------------------------------------------------
\* The inductive invariant of the responses

\* A stream that is under way: a status and chunks.
Streaming(s) ==
  s # << >> /\ s[1] = "200" /\ \A i \in 2..Len(s) : s[i] \in {"role", "content"}

\* A response that was finished by route r, where the adapter's work ended with o.
Complete(s, r, o) ==
  IF r = "adapter_call"
    THEN s = IF o = "done" THEN <<"adapter:response">> ELSE <<"adapter:error">>
    ELSE /\ Len(s) >= 2 /\ s[1] \in Statuses /\ s[Len(s)] = "end"
         /\ \A i \in 2..(Len(s) - 1) : s[i] \in Frames \ (Statuses \cup Endings)
         /\ o = "done" => s[1] = "200" /\ \A i \in 1..Len(s) : s[i] # "error"
         /\ o = "failed" => /\ s[1] \in Failures \/ \E i \in 1..Len(s) : s[i] = "error"
                            /\ \A i \in 1..Len(s) : s[i] # "done"

\* Events of an ingest request that are left, and what became of the others.
Tallies == [left : 0..MaxEvents, accepted : 0..MaxEvents, rejected : 0..MaxEvents]
TallyOK(t) == t.left >= 1 /\ t.left + t.accepted + t.rejected <= MaxEvents

Silent == HandlerStates \ {"streaming", "returned", "threw"}

\* What was sent (s) and how the adapter's work ended (o) when the handler of route r is
\* at h, with events counted in t.
ResponseAt(h, r, s, o, t) ==
  /\ h \in Silent => s = << >>
  /\ h \in {"streaming", "threw"} => Streaming(s)
  /\ h = "returned" => Complete(s, r, o)
  /\ h \notin {"returned", "threw"} => o = "open"
  /\ h = "threw" => r = "platform" /\ o = "failed"
  /\ h = "returned" /\ r = "adapter_call" => o # "open"
  /\ h \in {"none", "calling", "returned"} \/ r \in HttpRoutes
  /\ h = "calling" => r \in HttpRoutes \cup {"adapter_call"}
  /\ h = "calling" /\ r = "telemetry" => TallyOK(t)

ResponseOK(q) == ResponseAt(handler[q], route[q], sent[q], outcome[q], tally[q])

ResponsesInv ==
  /\ ExchangeTypeOK /\ AdapterTypeOK
  /\ \A q \in Exchanges : ResponseOK(q)

CollectorTypeOK ==
  /\ underway \subseteq Exchanges
  /\ activeOperations \in Nat
  /\ requestsTotal \in Nat
  /\ errorsTotal \in Nat
  /\ routeStats \in [HttpRoutes -> Stats]
  /\ operationMetrics \in [DomainOperations -> Stats]

HttpInv == SnapshotsInv /\ ResponsesInv /\ CollectorTypeOK

-----------------------------------------------------------------------------
\* The age of cached views

\* The time that probes take one after the other.
LEMMA ProbesTake ==
  ASSUME NEW t \in Nat, NEW m \in Nat, NEW n \in Nat, m <= n
  PROVE  /\ m * t \in Nat /\ n * t \in Nat /\ m * t <= n * t
         /\ (m + 1) * t = m * t + t /\ 0 * t = 0
  OBVIOUS

\* The constants, as the steps below need them.
LEMMA SnapshotNumbers ==
  /\ HealthTTL \in Nat \ {0} /\ ProbeTimeout \in Nat \ {0} /\ DocsTTL \in Nat \ {0}
  /\ DocsTimeout \in Nat \ {0} /\ MaxTime \in Nat \ {0}
  /\ Len(Upstreams) \in Nat /\ Len(Upstreams) * ProbeTimeout \in Nat
<1>1. Len(Upstreams) \in Nat
  BY SnapshotConstants, LenProperties
<1> QED
  BY <1>1, SnapshotConstants, ProbesTake

\* A step of an exchange that neither collects nor is answered from a view.
LEMMA ExchangeFresh ==
  ASSUME SnapshotsInv, ExchangeTypeOK', UNCHANGED snapshotVars,
         \A q \in Exchanges :
           \/ handler'[q] = handler[q] /\ route'[q] = route[q]
           \/ handler'[q] \notin {"probing", "fetching"} /\ ~Finished(q)
  PROVE  SnapshotsInv'
<1>1. SnapshotTypeOK'
  BY DEF SnapshotsInv, SnapshotTypeOK, snapshotVars
<1>2. EntriesFresh'
  BY DEF SnapshotsInv, EntriesFresh, snapshotVars
<1>3. ASSUME NEW q \in Exchanges PROVE CollectsInTime(q)'
  BY DEF SnapshotsInv, CollectsInTime, snapshotVars, Finished
<1>4. ServedIsFresh'
  BY SnapshotNumbers DEF SnapshotsInv, ServedIsFresh, CollectsInTime, snapshotVars
<1> QED
  BY <1>1, <1>2, <1>3, <1>4 DEF SnapshotsInv

\* A code and the end are appended.
LEMMA ReplyTyped ==
  ASSUME ExchangeTypeOK, NEW q \in Exchanges, NEW code \in Statuses, Reply(q, code)
  PROVE  /\ ExchangeTypeOK' /\ route' = route
         /\ handler' = [handler EXCEPT ![q] = "returned"]
<1>1. <<code, "end">> \in Seq(Frames)
  BY DEF Frames, Endings
<1>2. sent[q] \o <<code, "end">> \in Seq(Frames)
  BY <1>1, ConcatProperties DEF ExchangeTypeOK
<1> QED
  BY <1>2 DEF Reply, Proceed, ExchangeTypeOK, HandlerStates

\* A view that is recent enough is served.
LEMMA ServeFresh ==
  ASSUME SnapshotsInv, NEW q \in Exchanges, NEW v, Serve(q, v), clock' = clock,
         v.since \in Nat, v.since <= clock, v.restUp \in BOOLEAN,
         route[q] \in HealthRouteNames => clock - v.since < HealthTTL + Len(Upstreams) * ProbeTimeout,
         route[q] = "docs" => clock - v.since < DocsTTL + DocsTimeout,
         view' = view \/ view' = [view EXCEPT ![q] = NoView],
         cached' \in [CacheKeys -> [since : Time, restUp : BOOLEAN, expires : Time]],
         EntriesFresh'
  PROVE  SnapshotsInv'
<1>1. ExchangeTypeOK' /\ route' = route /\ handler' = [handler EXCEPT ![q] = "returned"]
  <2>1. HealthStatus(q, v.restUp) \in Statuses
    BY DEF HealthStatus, Statuses, Failures
  <2> QED
    BY <2>1, ReplyTyped DEF Serve, SnapshotsInv
<1>2. clock \in 0..MaxTime /\ clock \in Time /\ 0 \in Time
  BY SnapshotNumbers DEF SnapshotsInv, SnapshotTypeOK, Time
<1>3. clock - v.since \in Time
  BY <1>2, SnapshotNumbers DEF Time
<1>4. served' = [served EXCEPT ![q] = clock - v.since]
  BY DEF Serve
<1>5. \A p \in Exchanges : view'[p] = view[p] \/ view'[p] = NoView
  BY DEF SnapshotsInv, SnapshotTypeOK
<1>6. SnapshotTypeOK'
  <2>1. NoView \in [since : Time, restUp : BOOLEAN, probed : 0..Len(Upstreams), deadline : Time]
    BY <1>2, SnapshotNumbers DEF NoView
  <2> QED
    BY <1>2, <1>3, <1>4, <2>1 DEF SnapshotsInv, SnapshotTypeOK
<1>7. ASSUME NEW p \in Exchanges PROVE CollectsInTime(p)'
  <2>1. CASE p = q
    <3>1. Finished(p)' /\ handler'[p] = "returned"
      BY <1>1, <2>1 DEF SnapshotsInv, ExchangeTypeOK, Finished
    <3>2. view'[p].since <= clock
      BY <1>2, <1>5 DEF SnapshotsInv, CollectsInTime, NoView
    <3> QED
      BY <3>1, <3>2 DEF CollectsInTime
  <2>2. CASE p # q
    <3>1. view'[p] = view[p] /\ served'[p] = served[p]
      BY <1>4, <2>2 DEF SnapshotsInv, SnapshotTypeOK
    <3>2. handler'[p] = handler[p] /\ route'[p] = route[p]
      BY <1>1, <2>2 DEF SnapshotsInv, ExchangeTypeOK
    <3> QED
      BY <3>1, <3>2 DEF SnapshotsInv, CollectsInTime, Finished
  <2> QED  BY <2>1, <2>2
<1>8. ServedIsFresh'
  BY <1>1, <1>4 DEF SnapshotsInv, SnapshotTypeOK, ServedIsFresh
<1> QED
  BY <1>1, <1>6, <1>7, <1>8 DEF SnapshotsInv

\* Where a handler goes on without writing to its peer.
LEMMA ProceedTyped ==
  ASSUME ExchangeTypeOK, NEW q \in Exchanges, NEW state \in HandlerStates, NEW frames \in Seq(Frames),
         Proceed(q, state, frames)
  PROVE  /\ ExchangeTypeOK' /\ route' = route
         /\ handler' = [handler EXCEPT ![q] = state]
         /\ sent' = [sent EXCEPT ![q] = sent[q] \o frames]
<1>1. sent[q] \o frames \in Seq(Frames)
  BY ConcatProperties DEF ExchangeTypeOK
<1> QED
  BY <1>1 DEF Proceed, ExchangeTypeOK

\* A handler starts to wait for a probe or a fetch that ends in time.
LEMMA CollectingFresh ==
  ASSUME SnapshotsInv, NEW q \in Exchanges, NEW state \in {"probing", "fetching"},
         Proceed(q, state, << >>), ~Finished(q), NEW v, view' = [view EXCEPT ![q] = v],
         UNCHANGED <<clock, cached, served>>,
         v \in [since : Time, restUp : BOOLEAN, probed : 0..Len(Upstreams), deadline : Time],
         v.since <= clock, clock <= v.deadline,
         state = "probing" =>
           /\ route[q] \in HealthRouteNames /\ v.probed < Len(Upstreams)
           /\ v.deadline <= v.since + (v.probed + 1) * ProbeTimeout,
         state = "fetching" => route[q] = "docs" /\ v.deadline <= v.since + DocsTimeout
  PROVE  SnapshotsInv'
<1>1. ExchangeTypeOK' /\ route' = route /\ handler' = [handler EXCEPT ![q] = state]
  <2>1. << >> \in Seq(Frames) /\ state \in HandlerStates
    BY DEF HandlerStates
  <2> QED
    BY <2>1, ProceedTyped DEF SnapshotsInv
<1>2. SnapshotTypeOK'
  BY DEF SnapshotsInv, SnapshotTypeOK
<1>3. EntriesFresh'
  BY DEF SnapshotsInv, EntriesFresh
<1>4. ASSUME NEW p \in Exchanges PROVE CollectsInTime(p)'
  <2>1. CASE p = q
    <3>1. handler'[p] = state /\ view'[p] = v /\ route'[p] = route[q]
      BY <1>1, <2>1 DEF SnapshotsInv, ExchangeTypeOK, SnapshotTypeOK
    <3>2. served'[p] = 0
      BY <2>1 DEF SnapshotsInv, CollectsInTime
    <3> QED
      BY <3>1, <3>2 DEF CollectsInTime
  <2>2. CASE p # q
    <3>1. handler'[p] = handler[p] /\ view'[p] = view[p]
      BY <1>1, <2>2 DEF SnapshotsInv, ExchangeTypeOK, SnapshotTypeOK
    <3> QED
      BY <1>1, <3>1 DEF SnapshotsInv, CollectsInTime, Finished
  <2> QED  BY <2>1, <2>2
<1>5. ServedIsFresh'
  BY <1>1 DEF SnapshotsInv, ServedIsFresh
<1> QED
  BY <1>1, <1>2, <1>3, <1>4, <1>5 DEF SnapshotsInv

\* An entry that is written expires in time.
LEMMA StoreFresh ==
  ASSUME SnapshotsInv, NEW key \in CacheKeys, NEW v, NEW ttl \in {HealthTTL, DocsTTL},
         Store(key, v, ttl), clock' = clock,
         v.since \in Time, v.since <= clock, v.restUp \in BOOLEAN,
         key = "health" =>
           ttl = HealthTTL /\ clock <= v.since + Len(Upstreams) * ProbeTimeout,
         key = "docs" => ttl = DocsTTL /\ clock <= v.since + DocsTimeout
  PROVE  /\ cached' \in [CacheKeys -> [since : Time, restUp : BOOLEAN, expires : Time]]
         /\ EntriesFresh'
<1> DEFINE e == [since |-> v.since, restUp |-> v.restUp, expires |-> clock + ttl]
<1>1. /\ cached \in [CacheKeys -> [since : Time, restUp : BOOLEAN, expires : Time]]
      /\ EntriesFresh /\ clock \in 0..MaxTime
  BY DEF SnapshotsInv, SnapshotTypeOK
<1>2. CASE cached' = cached
  BY <1>1, <1>2 DEF EntriesFresh
<1>3. CASE cached' = [cached EXCEPT ![key] = e]
  <2>1. clock + ttl \in Time
    BY <1>1, SnapshotNumbers DEF Time
  <2>2. cached' \in [CacheKeys -> [since : Time, restUp : BOOLEAN, expires : Time]]
    BY <1>1, <1>3, <2>1
  <2>3. \A k \in CacheKeys : cached'[k] = IF k = key THEN e ELSE cached[k]
    BY <1>1, <1>3
  <2>4. e.since = v.since /\ e.expires = clock + ttl
    OBVIOUS
  <2>5. v.since \in Nat /\ clock \in Nat
    BY <1>1, SnapshotNumbers DEF Time
  <2> HIDE DEF e
  <2>6. \A k \in CacheKeys : cached'[k].since <= clock
    BY <1>1, <2>3, <2>4 DEF EntriesFresh
  <2>7. cached'["health"].expires <=
          cached'["health"].since + (HealthTTL + Len(Upstreams) * ProbeTimeout)
    BY <1>1, <2>3, <2>4, <2>5, SnapshotNumbers DEF EntriesFresh, CacheKeys
  <2>8. cached'["docs"].expires <= cached'["docs"].since + (DocsTTL + DocsTimeout)
    BY <1>1, <2>3, <2>4, <2>5, SnapshotNumbers DEF EntriesFresh, CacheKeys
  <2> QED
    BY <2>2, <2>6, <2>7, <2>8 DEF EntriesFresh
<1> QED
  BY <1>2, <1>3 DEF Store

\* A turn of the loop over the upstreams.
LEMMA CollectFresh ==
  ASSUME SnapshotsInv, NEW q \in Exchanges, NEW v, CollectUpstreams(q, v), clock' = clock,
         ~Finished(q), route[q] \in HealthRouteNames,
         v \in [since : Time, restUp : BOOLEAN, probed : 0..Len(Upstreams), deadline : Time],
         v.since <= clock, v.deadline = clock + ProbeTimeout,
         clock <= v.since + v.probed * ProbeTimeout
  PROVE  SnapshotsInv'
<1>1. clock \in Nat /\ v.since \in Nat /\ v.probed \in Nat /\ v.probed <= Len(Upstreams)
  BY SnapshotNumbers DEF SnapshotsInv, SnapshotTypeOK, Time
<1>2. /\ v.probed * ProbeTimeout \in Nat
      /\ v.probed * ProbeTimeout <= Len(Upstreams) * ProbeTimeout
      /\ (v.probed + 1) * ProbeTimeout = v.probed * ProbeTimeout + ProbeTimeout
  BY <1>1, SnapshotNumbers, ProbesTake
<1>3. CASE v.probed < Len(Upstreams)
  <2>1. clock <= v.deadline /\ v.deadline <= v.since + (v.probed + 1) * ProbeTimeout
    BY <1>1, <1>2, SnapshotNumbers
  <2>2. /\ Proceed(q, "probing", << >>) /\ view' = [view EXCEPT ![q] = v]
        /\ UNCHANGED <<clock, cached, served>>
    BY <1>3 DEF CollectUpstreams
  <2> QED
    BY <1>3, <2>1, <2>2, CollectingFresh
<1>4. CASE ~(v.probed < Len(Upstreams))
  <2>1. /\ view' = [view EXCEPT ![q] = NoView]
        /\ Store("health", v, HealthTTL) /\ Serve(q, v)
    BY <1>4 DEF CollectUpstreams
  <2>2. clock <= v.since + Len(Upstreams) * ProbeTimeout
    BY <1>1, <1>2, SnapshotNumbers
  <2>3. /\ cached' \in [CacheKeys -> [since : Time, restUp : BOOLEAN, expires : Time]]
        /\ EntriesFresh'
    BY <2>1, <2>2, StoreFresh DEF CacheKeys
  <2>4. clock - v.since < HealthTTL + Len(Upstreams) * ProbeTimeout
    BY <1>1, <2>2, SnapshotNumbers
  <2>5. route[q] # "docs"
    BY DEF HealthRouteNames
  <2> QED
    BY <1>1, <2>1, <2>3, <2>4, <2>5, ServeFresh
<1> QED
  BY <1>3, <1>4

\* The steps of the health routes.
LEMMA HealthFresh ==
  ASSUME SnapshotsInv, NEW q \in Exchanges,
         HealthHit(q) \/ HealthMiss(q) \/ \E isUp \in BOOLEAN : Probed(q, isUp)
  PROVE  SnapshotsInv'
<1>1. clock \in 0..MaxTime /\ clock \in Nat /\ clock \in Time /\ clock + ProbeTimeout \in Time
  BY SnapshotNumbers DEF SnapshotsInv, SnapshotTypeOK, Time
<1>2. CASE HealthHit(q)
  <2> DEFINE v == cached["health"]
  <2>1. /\ v \in [since : Time, restUp : BOOLEAN, expires : Time]
        /\ cached \in [CacheKeys -> [since : Time, restUp : BOOLEAN, expires : Time]]
        /\ v.since <= clock
        /\ v.expires <= v.since + (HealthTTL + Len(Upstreams) * ProbeTimeout)
    BY DEF SnapshotsInv, SnapshotTypeOK, EntriesFresh, CacheKeys
  <2>2. /\ clock < v.expires /\ Serve(q, v) /\ UNCHANGED <<clock, cached, view>>
        /\ route[q] \in HealthRouteNames /\ route[q] # "docs"
    BY <1>2 DEF HealthHit, Hit, HealthRouteNames
  <2>3. EntriesFresh'
    BY <2>2 DEF SnapshotsInv, EntriesFresh
  <2> HIDE DEF v
  <2>4. v.since \in Nat /\ v.expires \in Nat
    BY <2>1, SnapshotNumbers DEF Time
  <2>5. clock - v.since < HealthTTL + Len(Upstreams) * ProbeTimeout
    BY <1>1, <2>1, <2>2, <2>4, SnapshotNumbers
  <2> QED
    BY <2>1, <2>2, <2>3, <2>4, <2>5, ServeFresh
<1>3. CASE HealthMiss(q)
  <2> DEFINE v == [since |-> clock, restUp |-> FALSE, probed |-> 0,
                   deadline |-> clock + ProbeTimeout]
  <2>1. /\ CollectUpstreams(q, v) /\ clock' = clock /\ ~Finished(q)
        /\ route[q] \in HealthRouteNames
    BY <1>3 DEF HealthMiss, Finished
  <2>2. /\ v \in [since : Time, restUp : BOOLEAN, probed : 0..Len(Upstreams), deadline : Time]
        /\ v.since = clock /\ v.deadline = clock + ProbeTimeout /\ v.probed = 0
    BY <1>1, SnapshotNumbers
  <2> HIDE DEF v
  <2>3. v.since <= clock /\ clock <= v.since + v.probed * ProbeTimeout
    BY <1>1, <2>2, SnapshotNumbers
  <2> QED
    BY <2>1, <2>2, <2>3, CollectFresh
<1>4. ASSUME NEW isUp \in BOOLEAN, Probed(q, isUp) PROVE SnapshotsInv'
  <2> DEFINE w == view[q]
             up == IF ProbedNext(q) = "rest" THEN isUp ELSE w.restUp
             v == [w EXCEPT !.probed = w.probed + 1, !.restUp = up,
                            !.deadline = clock + ProbeTimeout]
  <2>1. /\ w \in [since : Time, restUp : BOOLEAN, probed : 0..Len(Upstreams), deadline : Time]
        /\ w.since <= clock /\ handler[q] = "probing" /\ ~Finished(q)
        /\ route[q] \in HealthRouteNames /\ w.probed < Len(Upstreams)
        /\ clock <= w.deadline
        /\ w.deadline <= w.since + (w.probed + 1) * ProbeTimeout
    BY <1>4 DEF SnapshotsInv, SnapshotTypeOK, CollectsInTime, Probed, Finished
  <2>2. CollectUpstreams(q, v) /\ clock' = clock
    BY <1>4 DEF Probed
  <2>3. up \in BOOLEAN
    BY <2>1
  <2> HIDE DEF w, up
  <2>4. /\ w.since \in Nat /\ w.deadline \in Nat /\ w.probed \in Nat
        /\ w.probed + 1 \in 0..Len(Upstreams) /\ (w.probed + 1) * ProbeTimeout \in Nat
    <3>1. w.since \in Nat /\ w.deadline \in Nat /\ w.probed \in Nat
      BY <2>1, SnapshotNumbers DEF Time
    <3>2. w.probed + 1 \in 0..Len(Upstreams) /\ w.probed + 1 \in Nat
      BY <2>1, <3>1, SnapshotNumbers
    <3>3. (w.probed + 1) * ProbeTimeout \in Nat
      BY <3>2, SnapshotNumbers, ProbesTake
    <3> QED  BY <3>1, <3>2, <3>3
  <2>5. /\ v \in [since : Time, restUp : BOOLEAN, probed : 0..Len(Upstreams), deadline : Time]
        /\ v.since = w.since /\ v.probed = w.probed + 1 /\ v.deadline = clock + ProbeTimeout
    BY <1>1, <2>1, <2>3, <2>4
  <2> HIDE DEF v
  <2>6. clock <= v.since + v.probed * ProbeTimeout
    BY <1>1, <2>1, <2>4, <2>5
  <2> QED
    BY <2>1, <2>2, <2>5, <2>6, CollectFresh
<1> QED
  BY <1>2, <1>3, <1>4

\* The steps of the documentation route.
LEMMA DocsFresh ==
  ASSUME SnapshotsInv, NEW q \in Exchanges, DocsHit(q) \/ DocsMiss(q) \/ DocsFetched(q)
  PROVE  SnapshotsInv'
<1>1. clock \in 0..MaxTime /\ clock \in Nat /\ clock \in Time /\ clock + DocsTimeout \in Time
  BY SnapshotNumbers DEF SnapshotsInv, SnapshotTypeOK, Time
<1>2. CASE DocsHit(q)
  <2> DEFINE v == cached["docs"]
  <2>1. /\ v \in [since : Time, restUp : BOOLEAN, expires : Time]
        /\ cached \in [CacheKeys -> [since : Time, restUp : BOOLEAN, expires : Time]]
        /\ v.since <= clock /\ v.expires <= v.since + (DocsTTL + DocsTimeout)
    BY DEF SnapshotsInv, SnapshotTypeOK, EntriesFresh, CacheKeys
  <2>2. /\ clock < v.expires /\ Serve(q, v) /\ UNCHANGED <<clock, cached, view>>
        /\ route[q] \notin HealthRouteNames
    BY <1>2 DEF DocsHit, Hit, HealthRouteNames
  <2>3. EntriesFresh'
    BY <2>2 DEF SnapshotsInv, EntriesFresh
  <2> HIDE DEF v
  <2>4. v.since \in Nat /\ v.expires \in Nat
    BY <2>1, SnapshotNumbers DEF Time
  <2>5. clock - v.since < DocsTTL + DocsTimeout
    BY <1>1, <2>1, <2>2, <2>4, SnapshotNumbers
  <2> QED
    BY <2>1, <2>2, <2>3, <2>4, <2>5, ServeFresh
<1>3. CASE DocsMiss(q)
  <2> DEFINE v == [since |-> clock, restUp |-> FALSE, probed |-> 0,
                   deadline |-> clock + DocsTimeout]
  <2>1. /\ view' = [view EXCEPT ![q] = v] /\ Proceed(q, "fetching", << >>) /\ ~Finished(q)
        /\ UNCHANGED <<clock, cached, served>> /\ route[q] = "docs"
    BY <1>3 DEF DocsMiss, Finished
  <2>2. /\ v \in [since : Time, restUp : BOOLEAN, probed : 0..Len(Upstreams), deadline : Time]
        /\ v.since = clock /\ v.deadline = clock + DocsTimeout
    BY <1>1, SnapshotNumbers
  <2> HIDE DEF v
  <2>3. v.since <= clock /\ clock <= v.deadline /\ v.deadline <= v.since + DocsTimeout
    BY <1>1, <2>2, SnapshotNumbers
  <2> QED
    BY <2>1, <2>2, <2>3, CollectingFresh
<1>4. CASE DocsFetched(q)
  <2> DEFINE v == view[q]
  <2>1. /\ v \in [since : Time, restUp : BOOLEAN, probed : 0..Len(Upstreams), deadline : Time]
        /\ v.since <= clock /\ clock <= v.deadline /\ v.deadline <= v.since + DocsTimeout
        /\ route[q] = "docs" /\ route[q] \notin HealthRouteNames
    BY <1>4 DEF SnapshotsInv, SnapshotTypeOK, CollectsInTime, DocsFetched, HealthRouteNames
  <2>2. /\ view' = [view EXCEPT ![q] = NoView] /\ clock' = clock
        /\ Store("docs", v, DocsTTL) /\ Serve(q, v)
    BY <1>4 DEF DocsFetched
  <2> HIDE DEF v
  <2>3. v.since \in Nat /\ v.deadline \in Nat
    BY <2>1, SnapshotNumbers DEF Time
  <2>4. clock <= v.since + DocsTimeout /\ clock - v.since < DocsTTL + DocsTimeout
    BY <1>1, <2>1, <2>3, SnapshotNumbers
  <2>5. /\ cached' \in [CacheKeys -> [since : Time, restUp : BOOLEAN, expires : Time]]
        /\ EntriesFresh'
    BY <2>1, <2>2, <2>4, StoreFresh DEF CacheKeys
  <2> QED
    BY <2>1, <2>2, <2>3, <2>4, <2>5, ServeFresh
<1> QED
  BY <1>2, <1>3, <1>4

\* Time passes, but not the deadline of a probe.
LEMMA TickFresh == SnapshotsInv /\ Tick => SnapshotsInv'
<1> SUFFICES ASSUME SnapshotsInv, Tick PROVE SnapshotsInv'
  OBVIOUS
<1>1. /\ clock \in 0..MaxTime /\ clock' = clock + 1 /\ clock' \in 0..MaxTime
      /\ UNCHANGED <<route, handler, sent, cached, view, served>>
  BY SnapshotNumbers DEF SnapshotsInv, SnapshotTypeOK, Tick, exchangeVars
<1>2. ExchangeTypeOK' /\ SnapshotTypeOK'
  BY <1>1 DEF SnapshotsInv, ExchangeTypeOK, SnapshotTypeOK
<1>3. EntriesFresh'
  <2>1. \A k \in CacheKeys : cached[k].since \in Nat /\ cached[k].since <= clock
    BY SnapshotNumbers DEF SnapshotsInv, SnapshotTypeOK, EntriesFresh, Time
  <2> QED
    BY <1>1, <2>1 DEF SnapshotsInv, EntriesFresh
<1>4. ASSUME NEW q \in Exchanges PROVE CollectsInTime(q)'
  <2>1. view[q].since \in Nat /\ view[q].deadline \in Nat /\ view[q].since <= clock
    BY SnapshotNumbers DEF SnapshotsInv, SnapshotTypeOK, CollectsInTime, Time
  <2>2. handler[q] \in {"probing", "fetching"} => clock < view[q].deadline
    BY DEF Tick, Waiting
  <2> QED
    BY <1>1, <2>1, <2>2 DEF SnapshotsInv, CollectsInTime, Finished
<1>5. ServedIsFresh'
  BY <1>1 DEF SnapshotsInv, ServedIsFresh
<1> QED
  BY <1>2, <1>3, <1>4, <1>5 DEF SnapshotsInv

\* A request arrives, or is refused with a failure status.
LEMMA ArrivalFresh ==
  ASSUME SnapshotsInv, NEW q \in Exchanges,
         Refuse(q) \/ \E r \in HttpRoutes : Request(q, r), UNCHANGED snapshotVars
  PROVE  SnapshotsInv'
<1>1. ExchangeTypeOK
  BY DEF SnapshotsInv
<1>2. CASE Refuse(q)
  <2>1. PICK code \in Refusals(route[q]) : Reply(q, code)
    BY <1>2 DEF Refuse
  <2>2. code \in Statuses
    BY DEF Refusals, Statuses, Failures
  <2>3. ExchangeTypeOK' /\ route' = route /\ handler' = [handler EXCEPT ![q] = "returned"]
    BY <1>1, <2>1, <2>2, ReplyTyped
  <2>4. ~Finished(q)
    BY <1>2 DEF Refuse, Finished
  <2> QED
    BY <1>1, <2>3, <2>4, ExchangeFresh DEF ExchangeTypeOK
<1>3. ASSUME NEW r \in HttpRoutes, Request(q, r) PROVE SnapshotsInv'
  <2>1. ExchangeTypeOK'
    BY <1>1, <1>3 DEF ExchangeTypeOK, Request, HandlerStates
  <2>2. ~Finished(q)
    BY <1>3 DEF Request, Finished
  <2>3. \A p \in Exchanges :
          \/ handler'[p] = handler[p] /\ route'[p] = route[p]
          \/ handler'[p] \notin {"probing", "fetching"} /\ ~Finished(p)
    BY <1>1, <1>3, <2>2 DEF ExchangeTypeOK, Request
  <2> QED
    BY <2>1, <2>3, ExchangeFresh
<1> QED
  BY <1>2, <1>3

\* The first request has not come.
LEMMA SnapshotsInit == CachedRoutesInit => SnapshotsInv
<1> SUFFICES ASSUME CachedRoutesInit PROVE SnapshotsInv
  OBVIOUS
<1>1. ExchangeTypeOK
  BY DEF CachedRoutesInit, ExchangeInit, ExchangeTypeOK, HandlerStates
<1>2. 0 \in Time /\ 0 \in 0..MaxTime /\ 0 \in 0..Len(Upstreams)
  BY SnapshotNumbers DEF Time
<1>3. SnapshotTypeOK
  BY <1>2 DEF CachedRoutesInit, SnapshotInit, SnapshotTypeOK, NoEntry, NoView
<1>4. EntriesFresh
  BY SnapshotNumbers DEF CachedRoutesInit, SnapshotInit, EntriesFresh, NoEntry, CacheKeys
<1>5. ASSUME NEW q \in Exchanges PROVE CollectsInTime(q)
  BY DEF CachedRoutesInit, SnapshotInit, ExchangeInit, CollectsInTime, NoView
<1>6. ServedIsFresh
  <2>1. 0 < HealthTTL + Len(Upstreams) * ProbeTimeout /\ 0 < DocsTTL + DocsTimeout
    BY SnapshotNumbers
  <2>2. \A q \in Exchanges : served[q] = 0
    BY DEF CachedRoutesInit, SnapshotInit
  <2> QED
    BY <2>1, <2>2 DEF ServedIsFresh
<1> QED
  BY <1>1, <1>3, <1>4, <1>5, <1>6 DEF SnapshotsInv

(***************************************************************************)
(* However requests overlap, and whichever of them wrote the cache last,   *)
(* nobody is answered from a view of the upstreams that is older than its  *)
(* time to live and one collection.                                        *)
(***************************************************************************)
THEOREM AnswersFresh == SnapshotSpec => []ServedIsFresh
<1>1. SnapshotsInv /\ [SnapshotNext]_<<exchangeVars, snapshotVars>> => SnapshotsInv'
  <2> SUFFICES ASSUME SnapshotsInv, [SnapshotNext]_<<exchangeVars, snapshotVars>>
               PROVE  SnapshotsInv'
    OBVIOUS
  <2>1. CachedRoutes \subseteq HttpRoutes
    BY DEF CachedRoutes, HttpRoutes
  <2>2. ASSUME NEW q \in Exchanges, Refuse(q) \/ \E r \in CachedRoutes : Request(q, r),
               UNCHANGED snapshotVars
        PROVE  SnapshotsInv'
    BY <2>1, <2>2, ArrivalFresh
  <2>3. ASSUME NEW q \in Exchanges,
               HealthHit(q) \/ HealthMiss(q) \/ \E isUp \in BOOLEAN : Probed(q, isUp)
        PROVE  SnapshotsInv'
    BY <2>3, HealthFresh
  <2>4. ASSUME NEW q \in Exchanges, DocsHit(q) \/ DocsMiss(q) \/ DocsFetched(q)
        PROVE  SnapshotsInv'
    BY <2>4, DocsFresh
  <2>5. CASE Tick
    BY <2>5, TickFresh
  <2>6. CASE UNCHANGED <<exchangeVars, snapshotVars>>
    <3>1. UNCHANGED snapshotVars /\ ExchangeTypeOK'
      BY <2>6 DEF SnapshotsInv, ExchangeTypeOK, exchangeVars
    <3> QED
      BY <2>6, <3>1, ExchangeFresh DEF exchangeVars
  <2> QED
    BY <2>2, <2>3, <2>4, <2>5, <2>6 DEF SnapshotNext
<1>2. SnapshotsInv => ServedIsFresh
  BY DEF SnapshotsInv
<1> QED
  BY <1>1, <1>2, SnapshotsInit, PTL DEF SnapshotSpec

-----------------------------------------------------------------------------
\* What a peer is sent

\* A status and the end, with nothing sent before.
LEMMA ReplyComplete ==
  ASSUME NEW code \in Statuses, NEW r, r # "adapter_call", NEW o,
         o = "done" => code = "200", o = "failed" => code \in Failures
  PROVE  /\ << >> \o <<code, "end">> = <<code, "end">>
         /\ <<code, "end">> \in Seq(Frames)
         /\ Complete(<<code, "end">>, r, o)
<1>1. <<code, "end">> \in Seq(Frames)
  BY DEF Frames, Endings
<1>2. << >> \o <<code, "end">> = <<code, "end">>
  BY <1>1, ConcatEmptySeq
<1>3. Complete(<<code, "end">>, r, o)
  BY DEF Complete, Statuses, Failures
<1> QED
  BY <1>1, <1>2, <1>3

\* Where a frame of a stream of length m is, to which n frames were appended.
LEMMA FramePosition ==
  ASSUME NEW m \in Nat \ {0}, NEW n \in Nat \ {0}, NEW i \in 1..(m + n)
  PROVE  \/ i = 1 \/ i \in 2..m \/ i = m + n
         \/ i - m \in 1..(n - 1) /\ i \in (m + 1)..(m + n)
  OBVIOUS

\* Frames are appended to a stream.
LEMMA StreamAppended ==
  ASSUME NEW s \in Seq(Frames), Streaming(s), NEW f \in Seq(Frames), f # << >>
  PROVE  /\ s \o f # << >> /\ s \o f \in Seq(Frames)
         /\ Len(f) \in Nat \ {0} /\ Len(s) \in Nat \ {0}
         /\ Len(s \o f) = Len(s) + Len(f) /\ (s \o f)[1] = "200"
         /\ \A i \in 2..Len(s) : (s \o f)[i] \in {"role", "content"}
         /\ \A i \in 1..Len(f) : (s \o f)[Len(s) + i] = f[i]
         /\ \A i \in (Len(s) + 1)..(Len(s) + Len(f)) : (s \o f)[i] = f[i - Len(s)]
<1> DEFINE g == s \o f
<1>1. Len(s) \in Nat \ {0} /\ s[1] = "200" /\ \A i \in 2..Len(s) : s[i] \in {"role", "content"}
  BY DEF Streaming
<1>2. Len(f) \in Nat \ {0}
  OBVIOUS
<1>3. /\ g \in Seq(Frames) /\ Len(g) = Len(s) + Len(f)
      /\ \A i \in 1..Len(s) + Len(f) : g[i] = IF i <= Len(s) THEN s[i] ELSE f[i - Len(s)]
  BY ConcatProperties
<1> HIDE DEF g
<1> QED
  BY <1>1, <1>2, <1>3 DEF g

\* A chunk is appended.
LEMMA StreamGrows ==
  ASSUME NEW s \in Seq(Frames), Streaming(s)
  PROVE  s \o <<"content">> \in Seq(Frames) /\ Streaming(s \o <<"content">>)
<1> DEFINE f == <<"content">>
           g == s \o f
<1>1. f \in Seq(Frames) /\ f # << >> /\ Len(f) = 1 /\ f[1] = "content"
  BY DEF Frames
<1> HIDE DEF f, g
<1>2. /\ g # << >> /\ g \in Seq(Frames) /\ Len(s) \in Nat \ {0}
      /\ Len(g) = Len(s) + Len(f) /\ g[1] = "200"
      /\ \A i \in 2..Len(s) : g[i] \in {"role", "content"}
      /\ \A i \in 1..Len(f) : g[Len(s) + i] = f[i]
  BY <1>1, StreamAppended DEF g
<1>3. g[Len(s) + 1] = "content" /\ Len(g) = Len(s) + 1
  BY <1>1, <1>2
<1> QED
  BY <1>1, <1>2, <1>3 DEF Streaming, f, g

\* What ends a stream is appended: with [DONE] when the adapter was done, or with an error.
LEMMA StreamEnds ==
  ASSUME NEW s \in Seq(Frames), Streaming(s), NEW f \in Seq(Frames), NEW r, r # "adapter_call",
         NEW o, Len(f) >= 2, f[Len(f)] = "end",
         \/ o = "done" /\ \A i \in 1..(Len(f) - 1) : f[i] \in {"finish", "done"}
         \/ o = "failed" /\ \A i \in 1..(Len(f) - 1) : f[i] = "error"
  PROVE  s \o f \in Seq(Frames) /\ Complete(s \o f, r, o)
<1> DEFINE g == s \o f
<1>1. f # << >>
  OBVIOUS
<1>2. /\ Len(g) = Len(s) + Len(f) /\ g[1] = "200" /\ g \in Seq(Frames)
      /\ Len(s) \in Nat \ {0} /\ Len(f) \in Nat \ {0}
      /\ \A i \in 2..Len(s) : g[i] \in {"role", "content"}
      /\ \A i \in 1..Len(f) : g[Len(s) + i] = f[i]
      /\ \A i \in (Len(s) + 1)..(Len(s) + Len(f)) : g[i] = f[i - Len(s)]
  BY <1>1, StreamAppended
<1> HIDE DEF g
<1>3. g[Len(g)] = "end" /\ g[Len(s) + 1] = f[1] /\ Len(g) >= 2 /\ Len(s) + 1 \in 1..Len(g)
  BY <1>2
<1>4. \A i \in 1..Len(g) :
        \/ i = 1 \/ i \in 2..Len(s) \/ i = Len(g)
        \/ i - Len(s) \in 1..(Len(f) - 1) /\ g[i] = f[i - Len(s)]
  BY <1>2, FramePosition
<1>5. {"role", "content", "finish", "done", "error"} = Frames \ (Statuses \cup Endings)
  BY DEF Frames, Statuses, Failures, Endings
<1>6. CASE o = "done" /\ \A i \in 1..(Len(f) - 1) : f[i] \in {"finish", "done"}
  <2>1. ASSUME NEW i \in 1..Len(g)
        PROVE  /\ g[i] \in {"200", "role", "content", "finish", "done", "end"}
               /\ i \in 2..(Len(g) - 1) => g[i] \in {"role", "content", "finish", "done"}
    <3>1. CASE i = 1
      BY <1>2, <3>1
    <3>2. CASE i \in 2..Len(s)
      BY <1>2, <3>2
    <3>3. CASE i = Len(g)
      BY <1>2, <1>3, <3>3
    <3>4. CASE i - Len(s) \in 1..(Len(f) - 1) /\ g[i] = f[i - Len(s)]
      BY <1>6, <3>4
    <3> QED  BY <1>4, <3>1, <3>2, <3>3, <3>4
  <2>2. \A i \in 2..(Len(g) - 1) : i \in 1..Len(g)
    BY <1>2
  <2>3. \A i \in 1..Len(g) : g[i] # "error"
    BY <2>1
  <2>4. \A i \in 2..(Len(g) - 1) : g[i] \in Frames \ (Statuses \cup Endings)
    BY <1>5, <2>1, <2>2
  <2> QED
    BY <1>2, <1>3, <1>6, <2>3, <2>4 DEF Complete, Statuses, g
<1>7. CASE o = "failed" /\ \A i \in 1..(Len(f) - 1) : f[i] = "error"
  <2>1. ASSUME NEW i \in 1..Len(g)
        PROVE  /\ g[i] \in {"200", "role", "content", "error", "end"}
               /\ i \in 2..(Len(g) - 1) => g[i] \in {"role", "content", "error"}
    <3>1. CASE i = 1
      BY <1>2, <3>1
    <3>2. CASE i \in 2..Len(s)
      BY <1>2, <3>2
    <3>3. CASE i = Len(g)
      BY <1>2, <1>3, <3>3
    <3>4. CASE i - Len(s) \in 1..(Len(f) - 1) /\ g[i] = f[i - Len(s)]
      BY <1>7, <3>4
    <3> QED  BY <1>4, <3>1, <3>2, <3>3, <3>4
  <2>2. \A i \in 2..(Len(g) - 1) : i \in 1..Len(g)
    BY <1>2
  <2>3. \A i \in 1..Len(g) : g[i] # "done"
    BY <2>1
  <2>4. \A i \in 2..(Len(g) - 1) : g[i] \in Frames \ (Statuses \cup Endings)
    BY <1>5, <2>1, <2>2
  <2>5. g[Len(s) + 1] = "error"
    BY <1>2, <1>3, <1>7
  <2> QED
    BY <1>2, <1>3, <1>7, <2>3, <2>4, <2>5 DEF Complete, Statuses, g
<1> QED
  BY <1>6, <1>7

\* The three ways in which the code ends a stream.
LEMMA StreamEndings ==
  ASSUME NEW s \in Seq(Frames), Streaming(s), NEW r, r # "adapter_call", NEW f, NEW o,
         \/ o = "done" /\ f \in {<<"finish", "done", "end">>, <<"done", "end">>}
         \/ o = "failed" /\ f = <<"error", "end">>
  PROVE  s \o f \in Seq(Frames) /\ Complete(s \o f, r, o)
<1>1. CASE o = "done" /\ f = <<"finish", "done", "end">>
  <2>1. /\ f \in Seq(Frames) /\ Len(f) = 3 /\ f[3] = "end"
        /\ f[1] = "finish" /\ f[2] = "done"
    BY <1>1 DEF Frames, Endings
  <2>2. \A i \in 1..(Len(f) - 1) : f[i] \in {"finish", "done"}
    BY <2>1
  <2>3. Len(f) >= 2 /\ f[Len(f)] = "end"
    BY <2>1
  <2> QED
    BY <1>1, <2>1, <2>2, <2>3, StreamEnds, Zenon
<1>2. CASE o = "done" /\ f = <<"done", "end">>
  <2>1. f \in Seq(Frames) /\ Len(f) = 2 /\ f[2] = "end" /\ f[1] = "done"
    BY <1>2 DEF Frames, Endings
  <2>2. \A i \in 1..(Len(f) - 1) : f[i] \in {"finish", "done"}
    BY <2>1
  <2>3. Len(f) >= 2 /\ f[Len(f)] = "end"
    BY <2>1
  <2> QED
    BY <1>2, <2>1, <2>2, <2>3, StreamEnds, Zenon
<1>3. CASE o = "failed" /\ f = <<"error", "end">>
  <2>1. f \in Seq(Frames) /\ Len(f) = 2 /\ f[2] = "end" /\ f[1] = "error"
    BY <1>3 DEF Frames, Endings
  <2>2. \A i \in 1..(Len(f) - 1) : f[i] = "error"
    BY <2>1
  <2>3. Len(f) >= 2 /\ f[Len(f)] = "end"
    BY <2>1
  <2> QED
    BY <1>3, <2>1, <2>2, <2>3, StreamEnds, Zenon
<1> QED
  BY <1>1, <1>2, <1>3

\* After the step, for request q; nothing else changes of outcome and tally.
OutcomeIs(q, o) ==
  \/ outcome' = [outcome EXCEPT ![q] = o]
  \/ outcome' = outcome /\ o = outcome[q]
TallyIs(q, t) ==
  \/ tally' = [tally EXCEPT ![q] = t]
  \/ tally' = tally /\ t = tally[q]

\* A request has been settled, or not.
LEMMA OutcomeTally ==
  ASSUME NEW q \in Exchanges
  PROVE  /\ \A o : Settles(q, o) => OutcomeIs(q, o) /\ TallyIs(q, tally[q])
         /\ outcome' = outcome => OutcomeIs(q, outcome[q])
         /\ tally' = tally => TallyIs(q, tally[q])
         /\ UNCHANGED adapterVars => OutcomeIs(q, outcome[q]) /\ TallyIs(q, tally[q])
<1>1. ASSUME NEW o, Settles(q, o) PROVE OutcomeIs(q, o) /\ TallyIs(q, tally[q])
  BY <1>1 DEF OutcomeIs, TallyIs, Settles
<1>2. /\ outcome' = outcome => OutcomeIs(q, outcome[q])
      /\ tally' = tally => TallyIs(q, tally[q])
  BY DEF OutcomeIs, TallyIs
<1>3. UNCHANGED adapterVars => outcome' = outcome /\ tally' = tally
  BY DEF adapterVars
<1> QED
  BY <1>1, <1>2, <1>3

\* Of the responses, only that of q changes.
LEMMA ResponseStep ==
  ASSUME ResponsesInv, NEW q \in Exchanges, NEW h \in HandlerStates,
         NEW r \in HttpRoutes \cup {"none", "adapter_call"}, NEW s \in Seq(Frames),
         NEW o \in {"open", "done", "failed"}, NEW t \in Tallies,
         handler' = [handler EXCEPT ![q] = h], route' = [route EXCEPT ![q] = r],
         sent' = [sent EXCEPT ![q] = s], OutcomeIs(q, o), TallyIs(q, t),
         ResponseAt(h, r, s, o, t)
  PROVE  ResponsesInv'
<1>1. ExchangeTypeOK /\ AdapterTypeOK
  BY DEF ResponsesInv
<1>2. ExchangeTypeOK'
  BY <1>1 DEF ExchangeTypeOK
<1>3. AdapterTypeOK'
  BY <1>1 DEF AdapterTypeOK, Tallies, OutcomeIs, TallyIs
<1>4. /\ handler'[q] = h /\ route'[q] = r /\ sent'[q] = s
      /\ outcome'[q] = o /\ tally'[q] = t
  BY <1>1 DEF ExchangeTypeOK, AdapterTypeOK, OutcomeIs, TallyIs
<1>5. ASSUME NEW p \in Exchanges, p # q
      PROVE  /\ handler'[p] = handler[p] /\ route'[p] = route[p] /\ sent'[p] = sent[p]
             /\ outcome'[p] = outcome[p] /\ tally'[p] = tally[p]
  BY <1>1, <1>5 DEF ExchangeTypeOK, AdapterTypeOK, OutcomeIs, TallyIs
<1>6. ASSUME NEW p \in Exchanges PROVE ResponseOK(p)'
  <2>1. CASE p = q
    BY <1>4, <2>1 DEF ResponseOK
  <2>2. CASE p # q
    BY <1>5, <2>2 DEF ResponseOK, ResponsesInv
  <2> QED  BY <2>1, <2>2
<1> QED
  BY <1>2, <1>3, <1>6 DEF ResponsesInv

\* The same for a handler that goes on, or is over.
LEMMA ProceedStep ==
  ASSUME ResponsesInv, NEW q \in Exchanges, NEW h \in HandlerStates, NEW f, Proceed(q, h, f),
         NEW o \in {"open", "done", "failed"}, NEW t \in Tallies,
         OutcomeIs(q, o), TallyIs(q, t),
         sent[q] \o f \in Seq(Frames), ResponseAt(h, route[q], sent[q] \o f, o, t)
  PROVE  ResponsesInv'
<1>1. /\ route \in [Exchanges -> HttpRoutes \cup {"none", "adapter_call"}]
      /\ handler' = [handler EXCEPT ![q] = h] /\ route' = route
      /\ sent' = [sent EXCEPT ![q] = sent[q] \o f]
  BY DEF Proceed, ResponsesInv, ExchangeTypeOK
<1>2. /\ route' = [route EXCEPT ![q] = route[q]]
      /\ route[q] \in HttpRoutes \cup {"none", "adapter_call"}
  BY <1>1
<1> QED
  BY <1>1, <1>2, ResponseStep

\* The handler goes on to wait for something, with nothing sent.
LEMMA QuietStep ==
  ASSUME ResponsesInv, NEW q \in Exchanges,
         NEW h \in {"resolving", "calling", "probing", "fetching"}, Proceed(q, h, << >>),
         handler[q] \in Silent, route[q] \in HttpRoutes, NEW t \in Tallies,
         outcome' = outcome, TallyIs(q, t),
         h = "calling" /\ route[q] = "telemetry" => TallyOK(t)
  PROVE  ResponsesInv'
<1>1. ResponseOK(q) /\ h \in HandlerStates /\ outcome[q] \in {"open", "done", "failed"}
  BY DEF ResponsesInv, AdapterTypeOK, HandlerStates
<1>2. sent[q] = << >> /\ outcome[q] = "open"
  BY <1>1 DEF ResponseOK, ResponseAt, Silent
<1>3. << >> \o << >> = << >> /\ << >> \in Seq(Frames)
  BY ConcatEmptySeq
<1>4. ResponseAt(h, route[q], << >>, "open", t)
  BY DEF ResponseAt, Silent
<1>5. /\ sent[q] \o << >> \in Seq(Frames)
      /\ ResponseAt(h, route[q], sent[q] \o << >>, outcome[q], t)
  BY <1>2, <1>3, <1>4
<1> QED
  BY <1>1, <1>5, OutcomeTally, ProceedStep, Zenon

\* A handler that has sent nothing answers with a status.
LEMMA ReplyStep ==
  ASSUME ResponsesInv, NEW q \in Exchanges, NEW code \in Statuses, Reply(q, code),
         handler[q] \in Silent, route[q] \in HttpRoutes,
         NEW o \in {"open", "done", "failed"}, NEW t \in Tallies,
         OutcomeIs(q, o), TallyIs(q, t),
         \/ o = "open"
         \/ o = "done" /\ code = "200"
         \/ o = "failed" /\ code \in Failures
  PROVE  ResponsesInv'
<1>1. sent[q] = << >>
  BY DEF ResponsesInv, ResponseOK, ResponseAt
<1>2. route[q] # "adapter_call"
  BY DEF HttpRoutes, AdapterRouteNames, Streams, HealthRouteNames
<1>3. /\ << >> \o <<code, "end">> = <<code, "end">>
      /\ <<code, "end">> \in Seq(Frames)
      /\ Complete(<<code, "end">>, route[q], o)
  BY <1>2, ReplyComplete
<1>4. ResponseAt("returned", route[q], <<code, "end">>, o, t)
  BY <1>2, <1>3 DEF ResponseAt, Silent
<1>5. "returned" \in HandlerStates /\ Proceed(q, "returned", <<code, "end">>)
  BY DEF HandlerStates, Reply
<1>6. /\ sent[q] \o <<code, "end">> \in Seq(Frames)
      /\ ResponseAt("returned", route[q], sent[q] \o <<code, "end">>, o, t)
  BY <1>1, <1>3, <1>4
<1> QED
  BY <1>5, <1>6, ProceedStep, Zenon

\* It answers when the adapter is done, or failed.
LEMMA SettledStep ==
  ASSUME ResponsesInv, NEW q \in Exchanges, handler[q] \in Silent, route[q] \in HttpRoutes,
         \/ Reply(q, "200") /\ Settles(q, "done")
         \/ \E code \in Failures : Reply(q, code) /\ Settles(q, "failed")
  PROVE  ResponsesInv'
<1>1. tally[q] \in Tallies
  BY DEF ResponsesInv, AdapterTypeOK, Tallies
<1>2. CASE Reply(q, "200") /\ Settles(q, "done")
  <2>1. /\ OutcomeIs(q, "done") /\ TallyIs(q, tally[q])
        /\ "200" \in Statuses /\ "done" \in {"open", "done", "failed"}
    BY <1>2, OutcomeTally DEF Statuses
  <2> QED
    BY <1>1, <1>2, <2>1, ReplyStep, Zenon
<1>3. ASSUME NEW code \in Failures, Reply(q, code), Settles(q, "failed") PROVE ResponsesInv'
  <2>1. /\ OutcomeIs(q, "failed") /\ TallyIs(q, tally[q])
        /\ code \in Statuses /\ "failed" \in {"open", "done", "failed"}
    BY <1>3, OutcomeTally DEF Statuses
  <2> QED
    BY <1>1, <1>3, <2>1, ReplyStep, Zenon
<1> QED
  BY <1>2, <1>3

\* Nothing the responses are about changes.
LEMMA ResponsesStutter ==
  ResponsesInv /\ UNCHANGED <<exchangeVars, adapterVars>> => ResponsesInv'
<1> SUFFICES ASSUME ResponsesInv, UNCHANGED <<exchangeVars, adapterVars>>
             PROVE  ResponsesInv'
  OBVIOUS
<1>1. UNCHANGED <<route, handler, sent, outcome, tally>>
  BY DEF exchangeVars, adapterVars
<1> QED
  BY <1>1 DEF ResponsesInv, ResponseOK, ExchangeTypeOK, AdapterTypeOK

\* The steps of a chat completion before and after its only call.
LEMMA CompletionResponses ==
  ASSUME ResponsesInv, NEW q \in Exchanges,
         ResolveTier(q) \/ TierUnavailable(q) \/ TierResolved(q) \/ CompletionSettled(q)
  PROVE  ResponsesInv'
<1>1. ResponseOK(q) /\ tally[q] \in Tallies
  BY DEF ResponsesInv, AdapterTypeOK, Tallies
<1>2. /\ handler[q] \in {"received", "resolving", "calling"} /\ handler[q] \in Silent
      /\ route[q] \in Llm /\ route[q] \in HttpRoutes /\ route[q] # "telemetry"
  BY DEF ResolveTier, TierUnavailable, TierResolved, CompletionSettled, Handles, Silent,
         HandlerStates, Llm, HttpRoutes, AdapterRouteNames, Streams
<1>3. sent[q] = << >> /\ outcome[q] = "open"
  BY <1>1, <1>2 DEF ResponseOK, ResponseAt
<1>5. CASE ResolveTier(q)
  <2>1. Proceed(q, "resolving", << >>) /\ outcome' = outcome /\ TallyIs(q, tally[q])
    BY <1>5, OutcomeTally DEF ResolveTier, adapterVars
  <2> QED
    BY <1>1, <1>2, <2>1, QuietStep
<1>6. CASE TierUnavailable(q)
  <2>1. \E code \in Failures : Reply(q, code) /\ Settles(q, "failed")
    BY <1>6 DEF TierUnavailable, Failures
  <2> QED
    BY <1>2, <2>1, SettledStep
<1>7. CASE TierResolved(q) /\ route[q] = "completion"
  <2>1. Proceed(q, "calling", << >>) /\ outcome' = outcome /\ TallyIs(q, tally[q])
    BY <1>7, OutcomeTally DEF TierResolved, adapterVars
  <2> QED
    BY <1>1, <1>2, <2>1, QuietStep
<1>8. CASE TierResolved(q) /\ route[q] # "completion"
  <2>1. /\ Proceed(q, "streaming", <<"200", "role">>)
        /\ OutcomeIs(q, "open") /\ TallyIs(q, tally[q])
    BY <1>3, <1>8, OutcomeTally DEF TierResolved, adapterVars
  <2>2. <<"200", "role">> \in Seq(Frames)
    BY DEF Frames, Statuses
  <2>3. << >> \o <<"200", "role">> = <<"200", "role">>
    BY <2>2, ConcatEmptySeq
  <2>4. Streaming(<<"200", "role">>)
    BY DEF Streaming
  <2>5. ResponseAt("streaming", route[q], <<"200", "role">>, "open", tally[q])
    BY <1>2, <2>4 DEF ResponseAt, Silent
  <2>6. "streaming" \in HandlerStates
    BY DEF HandlerStates
  <2> QED
    BY <1>1, <1>3, <2>1, <2>2, <2>3, <2>5, <2>6, ProceedStep
<1>9. CASE CompletionSettled(q)
  <2>1. "500" \in Failures
    BY DEF Failures
  <2> QED
    BY <1>2, <1>9, <2>1, SettledStep DEF CompletionSettled
<1> QED
  BY <1>5, <1>6, <1>7, <1>8, <1>9
\* The steps of a platform call.
LEMMA PlatformResponses ==
  ASSUME ResponsesInv, NEW q \in Exchanges, PlatformCall(q) \/ PlatformSettled(q)
  PROVE  ResponsesInv'
<1>1. ResponseOK(q) /\ tally[q] \in Tallies
  BY DEF ResponsesInv, AdapterTypeOK, Tallies
<1>2. /\ handler[q] \in Silent /\ route[q] = "platform" /\ route[q] \in HttpRoutes
      /\ handler[q] \in {"received", "calling"}
  BY DEF PlatformCall, PlatformSettled, Handles, Silent, HandlerStates, HttpRoutes,
         AdapterRouteNames, Streams
<1>3. sent[q] = << >> /\ outcome[q] = "open"
  BY <1>1, <1>2 DEF ResponseOK, ResponseAt
<1>4. CASE PlatformCall(q)
  <2>1. Proceed(q, "calling", << >>) /\ outcome' = outcome /\ TallyIs(q, tally[q])
    BY <1>4, OutcomeTally DEF PlatformCall, adapterVars
  <2> QED
    BY <1>1, <1>2, <2>1, QuietStep
<1>5. CASE Proceed(q, "streaming", <<"200">>) /\ UNCHANGED adapterVars
  <2>1. OutcomeIs(q, "open") /\ TallyIs(q, tally[q])
    BY <1>3, <1>5, OutcomeTally
  <2>2. <<"200">> \in Seq(Frames)
    BY DEF Frames, Statuses
  <2>3. << >> \o <<"200">> = <<"200">>
    BY <2>2, ConcatEmptySeq
  <2>4. Streaming(<<"200">>)
    BY DEF Streaming
  <2>5. ResponseAt("streaming", route[q], <<"200">>, "open", tally[q])
    BY <1>2, <2>4 DEF ResponseAt, Silent
  <2>6. "streaming" \in HandlerStates
    BY DEF HandlerStates
  <2> QED
    BY <1>1, <1>3, <1>5, <2>1, <2>2, <2>3, <2>5, <2>6, ProceedStep
<1>6. CASE \/ Reply(q, "200") /\ Settles(q, "done")
           \/ Reply(q, "502") /\ Settles(q, "failed")
  <2>1. "502" \in Failures
    BY DEF Failures
  <2> QED
    BY <1>2, <1>6, <2>1, SettledStep
<1> QED
  BY <1>4, <1>5, <1>6 DEF PlatformSettled

\* The steps of a stream, of both routes that have one.
LEMMA StreamResponses ==
  ASSUME ResponsesInv, NEW q \in Exchanges,
         StreamChunk(q) \/ StreamFinished(q) \/ StreamFailed(q)
  PROVE  ResponsesInv'
<1>1. ResponseOK(q) /\ tally[q] \in Tallies /\ sent[q] \in Seq(Frames)
  BY DEF ResponsesInv, AdapterTypeOK, Tallies, ExchangeTypeOK
<1>2. handler[q] = "streaming" /\ route[q] \in Streams
  BY DEF StreamChunk, StreamFinished, StreamFailed, Handles
<1>3. route[q] \in HttpRoutes /\ route[q] # "adapter_call"
  BY <1>2 DEF HttpRoutes, AdapterRouteNames, Streams
<1>4. Streaming(sent[q]) /\ outcome[q] = "open"
  BY <1>1, <1>2 DEF ResponseOK, ResponseAt
<1>5. {"streaming", "returned", "threw"} \subseteq HandlerStates
  BY DEF HandlerStates
<1>6. CASE StreamChunk(q)
  <2>1. Proceed(q, "streaming", <<"content">>) /\ OutcomeIs(q, outcome[q]) /\ TallyIs(q, tally[q])
    BY <1>6, OutcomeTally DEF StreamChunk, adapterVars
  <2>2. sent[q] \o <<"content">> \in Seq(Frames) /\ Streaming(sent[q] \o <<"content">>)
    BY <1>1, <1>4, StreamGrows
  <2>3. ResponseAt("streaming", route[q], sent[q] \o <<"content">>, outcome[q], tally[q])
    BY <1>3, <1>4, <2>2 DEF ResponseAt, Silent
  <2>4. "streaming" \in HandlerStates /\ outcome[q] \in {"open", "done", "failed"}
    BY <1>4, <1>5
  <2> QED
    BY <1>1, <2>1, <2>2, <2>3, <2>4, ProceedStep, Zenon
<1>7. ASSUME NEW f, NEW o, Proceed(q, "returned", f), Settles(q, o),
             \/ o = "done" /\ f \in {<<"finish", "done", "end">>, <<"done", "end">>}
             \/ o = "failed" /\ f = <<"error", "end">>
      PROVE  ResponsesInv'
  <2>1. sent[q] \o f \in Seq(Frames) /\ Complete(sent[q] \o f, route[q], o)
    BY <1>1, <1>3, <1>4, <1>7, StreamEndings, Zenon
  <2>2. ResponseAt("returned", route[q], sent[q] \o f, o, tally[q])
    BY <1>3, <2>1 DEF ResponseAt, Silent
  <2>3. /\ OutcomeIs(q, o) /\ TallyIs(q, tally[q])
        /\ o \in {"open", "done", "failed"} /\ "returned" \in HandlerStates
    BY <1>5, <1>7, OutcomeTally
  <2> QED
    BY <1>1, <1>7, <2>1, <2>2, <2>3, ProceedStep, Zenon
<1>8. CASE StreamFinished(q)
  BY <1>7, <1>8 DEF StreamFinished
<1>9. CASE StreamFailed(q) /\ route[q] = "completion_stream"
  BY <1>7, <1>9 DEF StreamFailed
<1>10. CASE StreamFailed(q) /\ route[q] # "completion_stream"
  <2>1. /\ Proceed(q, "threw", << >>) /\ route[q] = "platform"
        /\ OutcomeIs(q, "failed") /\ TallyIs(q, tally[q])
    BY <1>2, <1>10, OutcomeTally DEF StreamFailed, Streams
  <2>2. sent[q] \o << >> = sent[q]
    BY <1>1, ConcatEmptySeq
  <2>3. ResponseAt("threw", route[q], sent[q] \o << >>, "failed", tally[q])
    BY <1>3, <1>4, <2>1, <2>2 DEF ResponseAt, Silent
  <2>4. /\ sent[q] \o << >> \in Seq(Frames) /\ "threw" \in HandlerStates
        /\ "failed" \in {"open", "done", "failed"}
    BY <1>1, <1>5, <2>2
  <2> QED
    BY <1>1, <2>1, <2>3, <2>4, ProceedStep, Zenon
<1> QED
  BY <1>6, <1>8, <1>9, <1>10
\* One turn of the ingest loop counts one event.
LEMMA CountedOnce ==
  ASSUME NEW t \in Tallies, TallyOK(t), NEW accepts \in BOOLEAN, NEW c, c = Counted(t, accepts)
  PROVE  c \in Tallies /\ (c.left # 0 => TallyOK(c))
<1>1. /\ t.left \in Nat /\ t.accepted \in Nat /\ t.rejected \in Nat /\ MaxEvents \in Nat
      /\ t.left >= 1 /\ t.left + t.accepted + t.rejected <= MaxEvents
  BY AdapterConstants DEF Tallies, TallyOK
<1>2. CASE accepts = TRUE
  <2>1. /\ c = [left |-> t.left - 1, accepted |-> t.accepted + 1, rejected |-> t.rejected]
        /\ c.left = t.left - 1 /\ c.accepted = t.accepted + 1 /\ c.rejected = t.rejected
    BY <1>2 DEF Counted, Tally
  <2>2. /\ t.left - 1 \in 0..MaxEvents /\ t.accepted + 1 \in 0..MaxEvents
        /\ t.rejected \in 0..MaxEvents
    BY <1>1
  <2> QED
    BY <1>1, <2>1, <2>2 DEF Tallies, TallyOK
<1>3. CASE accepts = FALSE
  <2>1. /\ c = [left |-> t.left - 1, accepted |-> t.accepted, rejected |-> t.rejected + 1]
        /\ c.left = t.left - 1 /\ c.accepted = t.accepted /\ c.rejected = t.rejected + 1
    BY <1>3 DEF Counted, Tally
  <2>2. /\ t.left - 1 \in 0..MaxEvents /\ t.accepted \in 0..MaxEvents
        /\ t.rejected + 1 \in 0..MaxEvents
    BY <1>1
  <2> QED
    BY <1>1, <2>1, <2>2 DEF Tallies, TallyOK
<1> QED
  BY <1>2, <1>3

\* The steps of telemetry ingest.
LEMMA TelemetryResponses ==
  ASSUME ResponsesInv, NEW q \in Exchanges,
         \/ \E n \in 1..MaxEvents : Ingest(q, n)
         \/ \E accepts \in BOOLEAN : Track(q, accepts)
  PROVE  ResponsesInv'
<1>1. ResponseOK(q) /\ tally[q] \in Tallies /\ ExchangeTypeOK
  BY DEF ResponsesInv, AdapterTypeOK, Tallies
<1>2. /\ handler[q] \in Silent /\ route[q] = "telemetry" /\ route[q] \in HttpRoutes
      /\ handler[q] \in {"received", "calling"}
  BY DEF Ingest, Track, Handles, Silent, HandlerStates, HttpRoutes, AdapterRouteNames
<1>3. sent[q] = << >> /\ outcome[q] = "open"
  BY <1>1, <1>2 DEF ResponseOK, ResponseAt
<1>4. ASSUME NEW n \in 1..MaxEvents, Ingest(q, n) PROVE ResponsesInv'
  <2> DEFINE c == Tally(n, 0, 0)
  <2>1. c \in Tallies /\ TallyOK(c)
    BY AdapterConstants DEF Tally, Tallies, TallyOK
  <2> HIDE DEF c
  <2>2. Proceed(q, "calling", << >>) /\ outcome' = outcome /\ TallyIs(q, c)
    BY <1>4 DEF Ingest, TallyIs, c
  <2> QED
    BY <1>2, <2>1, <2>2, QuietStep
<1>5. ASSUME NEW accepts \in BOOLEAN, Track(q, accepts) PROVE ResponsesInv'
  <2> DEFINE c == Counted(tally[q], accepts)
  <2>1. handler[q] = "calling" /\ TallyOK(tally[q])
    BY <1>1, <1>2, <1>5 DEF Track, Handles, ResponseOK, ResponseAt
  <2>2. c \in Tallies /\ (c.left # 0 => TallyOK(c))
    BY <1>1, <2>1, CountedOnce
  <2>3. /\ TallyIs(q, c)
        /\ IF c.left = 0
             THEN /\ Reply(q, IF c.accepted > 0 THEN "200" ELSE "422")
                  /\ outcome' = [outcome EXCEPT ![q] = IF c.accepted > 0 THEN "done" ELSE "failed"]
             ELSE UNCHANGED <<exchangeVars, outcome>>
    BY <1>5 DEF Track, LastCounted, TallyIs
  <2> HIDE DEF c
  <2>4. "200" \in Statuses /\ "422" \in Statuses /\ "422" \in Failures
    BY DEF Statuses, Failures
  <2>5. CASE c.left = 0 /\ c.accepted > 0
    <3>1. Reply(q, "200") /\ OutcomeIs(q, "done") /\ "done" \in {"open", "done", "failed"}
      BY <2>3, <2>5 DEF OutcomeIs
    <3> QED
      BY <1>2, <2>2, <2>3, <2>4, <3>1, ReplyStep, Zenon
  <2>6. CASE c.left = 0 /\ ~(c.accepted > 0)
    <3>1. Reply(q, "422") /\ OutcomeIs(q, "failed") /\ "failed" \in {"open", "done", "failed"}
      BY <2>3, <2>6 DEF OutcomeIs
    <3> QED
      BY <1>2, <2>2, <2>3, <2>4, <3>1, ReplyStep, Zenon
  <2>7. CASE c.left # 0
    <3>1. UNCHANGED <<route, handler, sent, outcome>>
      BY <2>3, <2>7 DEF exchangeVars
    <3>2. << >> \o << >> = << >>
      BY ConcatEmptySeq
    <3>3. Proceed(q, "calling", << >>)
      BY <1>1, <1>3, <2>1, <3>1, <3>2 DEF Proceed, ExchangeTypeOK
    <3> QED
      BY <1>2, <2>2, <2>3, <2>7, <3>1, <3>3, QuietStep
  <2> QED  BY <2>5, <2>6, <2>7
<1> QED
  BY <1>4, <1>5

\* The steps of a call over an agent's socket.
LEMMA BridgeResponses ==
  ASSUME ResponsesInv, NEW q \in Exchanges,
         AdapterCallInvalid(q) \/ AdapterCall(q) \/ BridgeSettled(q)
  PROVE  ResponsesInv'
<1>1. ResponseOK(q) /\ tally[q] \in Tallies /\ ExchangeTypeOK
  BY DEF ResponsesInv, AdapterTypeOK, Tallies
<1>2. handler[q] \in {"none", "calling"} /\ handler[q] \in Silent
  BY DEF AdapterCallInvalid, AdapterCall, BridgeSettled, Handles, Silent, HandlerStates
<1>3. sent[q] = << >> /\ outcome[q] = "open"
  BY <1>1, <1>2 DEF ResponseOK, ResponseAt
<1>4. /\ <<"adapter:error">> \in Seq(Frames) /\ <<"adapter:response">> \in Seq(Frames)
      /\ "calling" \in HandlerStates /\ "returned" \in HandlerStates
      /\ "adapter_call" \in HttpRoutes \cup {"none", "adapter_call"}
      /\ "done" \in {"open", "done", "failed"} /\ "failed" \in {"open", "done", "failed"}
  BY DEF Frames, Endings, HandlerStates
<1>5. /\ ResponseAt("returned", "adapter_call", <<"adapter:error">>, "failed", tally[q])
      /\ ResponseAt("returned", "adapter_call", <<"adapter:response">>, "done", tally[q])
  BY DEF ResponseAt, Complete, Silent
<1>6. CASE AdapterCallInvalid(q)
  <2>1. /\ route' = [route EXCEPT ![q] = "adapter_call"]
        /\ handler' = [handler EXCEPT ![q] = "returned"]
        /\ sent' = [sent EXCEPT ![q] = <<"adapter:error">>]
        /\ OutcomeIs(q, "failed") /\ TallyIs(q, tally[q])
    BY <1>6, OutcomeTally DEF AdapterCallInvalid
  <2> QED
    BY <1>1, <1>4, <1>5, <2>1, ResponseStep, Zenon
<1>7. CASE AdapterCall(q)
  <2>1. /\ route' = [route EXCEPT ![q] = "adapter_call"]
        /\ handler' = [handler EXCEPT ![q] = "calling"]
        /\ sent' = sent /\ OutcomeIs(q, outcome[q]) /\ TallyIs(q, tally[q])
    BY <1>7, OutcomeTally DEF AdapterCall, adapterVars
  <2>2. sent' = [sent EXCEPT ![q] = << >>] /\ << >> \in Seq(Frames)
    BY <1>1, <1>3, <2>1 DEF ExchangeTypeOK
  <2>3. ResponseAt("calling", "adapter_call", << >>, outcome[q], tally[q])
    BY <1>3 DEF ResponseAt
  <2>4. outcome[q] \in {"open", "done", "failed"}
    BY <1>3
  <2> QED
    BY <1>1, <1>4, <2>1, <2>2, <2>3, <2>4, ResponseStep, Zenon
<1>8. CASE BridgeSettled(q)
  <2>1. route[q] = "adapter_call"
    BY <1>8 DEF BridgeSettled, Handles
  <2>2. /\ sent[q] \o <<"adapter:error">> = <<"adapter:error">>
        /\ sent[q] \o <<"adapter:response">> = <<"adapter:response">>
    BY <1>3, <1>4, ConcatEmptySeq
  <2>3. CASE Proceed(q, "returned", <<"adapter:response">>) /\ Settles(q, "done")
    <3>1. OutcomeIs(q, "done") /\ TallyIs(q, tally[q])
      BY <2>3, OutcomeTally
    <3> QED
      BY <1>1, <1>4, <1>5, <2>1, <2>2, <2>3, <3>1, ProceedStep
  <2>4. CASE Proceed(q, "returned", <<"adapter:error">>) /\ Settles(q, "failed")
    <3>1. OutcomeIs(q, "failed") /\ TallyIs(q, tally[q])
      BY <2>4, OutcomeTally
    <3> QED
      BY <1>1, <1>4, <1>5, <2>1, <2>2, <2>4, <3>1, ProceedStep
  <2> QED
    BY <1>8, <2>3, <2>4 DEF BridgeSettled
<1> QED
  BY <1>6, <1>7, <1>8
\* A step of any adapter route.
LEMMA AdapterResponses ==
  ASSUME ResponsesInv, NEW q \in Exchanges, AdapterStep(q)
  PROVE  ResponsesInv'
  BY CompletionResponses, PlatformResponses, StreamResponses, TelemetryResponses,
     BridgeResponses DEF AdapterStep

\* A request arrives, or is refused.
LEMMA ArrivalResponses ==
  ASSUME ResponsesInv, NEW q \in Exchanges, UNCHANGED adapterVars,
         Refuse(q) \/ \E r \in HttpRoutes : Request(q, r)
  PROVE  ResponsesInv'
<1>1. ResponseOK(q) /\ tally[q] \in Tallies /\ ExchangeTypeOK
  BY DEF ResponsesInv, AdapterTypeOK, Tallies
<1>2. handler[q] \in {"none", "received"} /\ handler[q] \in Silent
  BY DEF Refuse, Request, Silent, HandlerStates
<1>3. /\ sent[q] = << >> /\ outcome[q] = "open" /\ outcome[q] \in {"open", "done", "failed"}
      /\ OutcomeIs(q, outcome[q]) /\ TallyIs(q, tally[q])
  BY <1>1, <1>2, OutcomeTally DEF ResponseOK, ResponseAt
<1>4. CASE Refuse(q)
  <2>1. PICK code \in Refusals(route[q]) : Reply(q, code)
    BY <1>4 DEF Refuse
  <2>2. code \in Statuses
    BY DEF Refusals, Statuses, Failures
  <2>3. route[q] \in HttpRoutes
    BY <1>1, <1>4 DEF Refuse, ResponseOK, ResponseAt
  <2> QED
    BY <1>1, <1>2, <1>3, <2>1, <2>2, <2>3, ReplyStep, Zenon
<1>5. ASSUME NEW r \in HttpRoutes, Request(q, r) PROVE ResponsesInv'
  <2>1. /\ route' = [route EXCEPT ![q] = r] /\ handler' = [handler EXCEPT ![q] = "received"]
        /\ sent' = sent /\ "received" \in HandlerStates
        /\ r \in HttpRoutes \cup {"none", "adapter_call"}
    BY <1>5 DEF Request, HandlerStates
  <2>2. sent' = [sent EXCEPT ![q] = << >>] /\ << >> \in Seq(Frames)
    BY <1>1, <1>3, <2>1 DEF ExchangeTypeOK
  <2>3. ResponseAt("received", r, << >>, outcome[q], tally[q])
    BY <1>3 DEF ResponseAt
  <2> QED
    BY <1>1, <1>3, <2>1, <2>2, <2>3, ResponseStep, Zenon
<1> QED
  BY <1>4, <1>5

\* A step of a route that answers from a cached view.
LEMMA CachedResponses ==
  ASSUME ResponsesInv, NEW q \in Exchanges, UNCHANGED adapterVars,
         handler[q] \in {"received", "probing", "fetching"},
         \/ \E v : Serve(q, v)
         \/ \E h \in {"probing", "fetching"} : Proceed(q, h, << >>)
  PROVE  ResponsesInv'
<1>1. ResponseOK(q) /\ tally[q] \in Tallies
  BY DEF ResponsesInv, AdapterTypeOK, Tallies
<1>2. handler[q] \in Silent /\ route[q] \in HttpRoutes
  BY <1>1 DEF Silent, HandlerStates, ResponseOK, ResponseAt
<1>3. /\ outcome[q] = "open" /\ outcome[q] \in {"open", "done", "failed"}
      /\ OutcomeIs(q, outcome[q]) /\ TallyIs(q, tally[q]) /\ outcome' = outcome
  BY <1>1, OutcomeTally DEF ResponseOK, ResponseAt, adapterVars
<1>4. ASSUME NEW v, Serve(q, v) PROVE ResponsesInv'
  <2>1. HealthStatus(q, v.restUp) \in Statuses
    BY DEF HealthStatus, Statuses, Failures
  <2>2. Reply(q, HealthStatus(q, v.restUp))
    BY <1>4 DEF Serve
  <2> QED
    BY <1>1, <1>2, <1>3, <2>1, <2>2, ReplyStep, Zenon
<1>5. ASSUME NEW h \in {"probing", "fetching"}, Proceed(q, h, << >>) PROVE ResponsesInv'
  <2>1. h \in {"resolving", "calling", "probing", "fetching"} /\ h # "calling"
    OBVIOUS
  <2> QED
    BY <1>1, <1>2, <1>3, <1>5, <2>1, QuietStep
<1> QED
  BY <1>4, <1>5

\* The steps of HealthSnapshots are such steps.
LEMMA SnapshotResponses ==
  ASSUME ResponsesInv, NEW q \in Exchanges, UNCHANGED adapterVars,
         \/ HealthHit(q) \/ HealthMiss(q) \/ \E isUp \in BOOLEAN : Probed(q, isUp)
         \/ DocsHit(q) \/ DocsMiss(q) \/ DocsFetched(q)
  PROVE  ResponsesInv'
<1>1. handler[q] \in {"received", "probing", "fetching"}
  BY DEF HealthHit, HealthMiss, Probed, DocsHit, DocsMiss, DocsFetched
<1>2. ASSUME NEW v, CollectUpstreams(q, v)
      PROVE  \/ \E w : Serve(q, w)
             \/ \E h \in {"probing", "fetching"} : Proceed(q, h, << >>)
  BY <1>2 DEF CollectUpstreams
<1>3. CASE HealthMiss(q) \/ \E isUp \in BOOLEAN : Probed(q, isUp)
  <2>1. \E v : CollectUpstreams(q, v)
    BY <1>3 DEF HealthMiss, Probed
  <2> QED
    BY <1>1, <1>2, <2>1, CachedResponses
<1>4. CASE HealthHit(q) \/ DocsHit(q) \/ DocsMiss(q) \/ DocsFetched(q)
  <2>1. \/ \E v : Serve(q, v)
        \/ \E h \in {"probing", "fetching"} : Proceed(q, h, << >>)
    BY <1>4 DEF HealthHit, DocsHit, DocsMiss, DocsFetched
  <2> QED
    BY <1>1, <2>1, CachedResponses
<1> QED
  BY <1>3, <1>4

\* A step of an adapter route collects nothing and answers from no view.
LEMMA AdapterFresh ==
  ASSUME SnapshotsInv, ResponsesInv, NEW q \in Exchanges, AdapterStep(q),
         UNCHANGED snapshotVars
  PROVE  SnapshotsInv'
<1>1. ExchangeTypeOK /\ ExchangeTypeOK'
  BY AdapterResponses DEF ResponsesInv
<1>2. ASSUME NEW h \in HandlerStates \ {"probing", "fetching"}, ~Finished(q),
             handler' = [handler EXCEPT ![q] = h],
             route' = route \/ route' = [route EXCEPT ![q] = "adapter_call"]
      PROVE  SnapshotsInv'
  <2>1. \A p \in Exchanges :
          \/ handler'[p] = handler[p] /\ route'[p] = route[p]
          \/ handler'[p] \notin {"probing", "fetching"} /\ ~Finished(p)
    BY <1>1, <1>2 DEF ExchangeTypeOK
  <2> QED
    BY <1>1, <2>1, ExchangeFresh
<1>3. {"resolving", "calling", "streaming", "returned", "threw"}
        \subseteq HandlerStates \ {"probing", "fetching"}
  BY DEF HandlerStates
<1>4. CASE ResolveTier(q) \/ TierUnavailable(q) \/ TierResolved(q) \/ CompletionSettled(q)
  BY <1>2, <1>3, <1>4 DEF ResolveTier, TierUnavailable, TierResolved, CompletionSettled,
     Handles, Finished, Reply, Proceed
<1>5. CASE PlatformCall(q) \/ PlatformSettled(q)
  BY <1>2, <1>3, <1>5 DEF PlatformCall, PlatformSettled, Handles, Finished, Reply, Proceed
<1>6. CASE StreamChunk(q) \/ StreamFinished(q) \/ StreamFailed(q)
  BY <1>2, <1>3, <1>6 DEF StreamChunk, StreamFinished, StreamFailed, Handles, Finished, Proceed
<1>7. ASSUME NEW n \in 1..MaxEvents, Ingest(q, n) PROVE SnapshotsInv'
  BY <1>2, <1>3, <1>7 DEF Ingest, Handles, Finished, Proceed
<1>8. ASSUME NEW accepts \in BOOLEAN, Track(q, accepts) PROVE SnapshotsInv'
  <2>1. CASE UNCHANGED exchangeVars
    BY <1>1, <2>1, ExchangeFresh DEF exchangeVars
  <2>2. CASE ~UNCHANGED exchangeVars
    BY <1>2, <1>3, <1>8, <2>2 DEF Track, Handles, Finished, Reply, Proceed
  <2> QED  BY <2>1, <2>2
<1>9. CASE AdapterCallInvalid(q) \/ AdapterCall(q) \/ BridgeSettled(q)
  BY <1>2, <1>3, <1>9 DEF AdapterCallInvalid, AdapterCall, BridgeSettled, Handles, Finished,
     Proceed
<1> QED
  BY <1>4, <1>5, <1>6, <1>7, <1>8, <1>9 DEF AdapterStep
\* A frame is the first one, the last one, or between them.
LEMMA MiddlePosition ==
  ASSUME NEW n \in Nat, n >= 2
  PROVE  \A i \in 1..n : \/ i = 1
                         \/ i # 1 /\ i = n
                         \/ i # 1 /\ i \in 2..(n - 1)
  OBVIOUS

\* What kinds of frames a response has, and where.
LEMMA FramesOf ==
  ASSUME NEW s \in Seq(Frames), NEW r, NEW o, r # "adapter_call",
         Streaming(s) \/ Complete(s, r, o)
  PROVE  /\ s # << >> /\ DOMAIN s = 1..Len(s) /\ Len(s) \in Nat \ {0}
         /\ s[1] \in Statuses
         /\ Streaming(s) => /\ s[1] = "200"
                            /\ \A i \in 1..Len(s) : s[i] \in {"200", "role", "content"}
         /\ Complete(s, r, o) => s[Len(s)] = "end" /\ Len(s) >= 2
         /\ \A i \in 1..Len(s) :
              \/ i = 1
              \/ i # 1 /\ s[i] \in Frames \ (Statuses \cup Endings)
              \/ i # 1 /\ i = Len(s) /\ s[i] = "end"
<1>1. DOMAIN s = 1..Len(s) /\ Len(s) \in Nat
  BY LenProperties
<1>2. /\ {"role", "content"} \subseteq Frames \ (Statuses \cup Endings)
      /\ "200" \in Statuses /\ "end" \in Endings
  BY DEF Frames, Statuses, Failures, Endings
<1>3. CASE Streaming(s)
  <2>1. s # << >> /\ s[1] = "200" /\ \A i \in 2..Len(s) : s[i] \in {"role", "content"}
    BY <1>3 DEF Streaming
  <2>2. Len(s) # 0
    BY <2>1
  <2>3. \A i \in 1..Len(s) : i = 1 \/ i \in 2..Len(s)
    BY <1>1
  <2>4. ~Complete(s, r, o)
    <3>1. ASSUME Len(s) >= 2 PROVE s[Len(s)] # "end"
      <4>1. Len(s) \in 2..Len(s)
        BY <1>1, <3>1
      <4> QED  BY <2>1, <4>1
    <3> QED  BY <3>1 DEF Complete
  <2>5. \A i \in 1..Len(s) : s[i] \in {"200", "role", "content"}
    BY <2>1, <2>3
  <2>6. \A i \in 1..Len(s) : i = 1 \/ (i # 1 /\ s[i] \in Frames \ (Statuses \cup Endings))
    BY <1>2, <2>1, <2>3
  <2> QED
    BY <1>1, <1>2, <2>1, <2>2, <2>4, <2>5, <2>6
<1>4. CASE ~Streaming(s)
  <2>1. /\ Len(s) >= 2 /\ s[1] \in Statuses /\ s[Len(s)] = "end"
        /\ \A i \in 2..(Len(s) - 1) : s[i] \in Frames \ (Statuses \cup Endings)
    BY <1>4 DEF Complete
  <2>2. \A i \in 1..Len(s) :
          \/ i = 1
          \/ i # 1 /\ i = Len(s)
          \/ i # 1 /\ i \in 2..(Len(s) - 1)
    BY <1>1, <2>1, MiddlePosition, Zenon
  <2>3. s # << >> /\ Len(s) # 0
    BY <1>1, <2>1
  <2> QED
    BY <1>1, <1>4, <2>1, <2>2, <2>3
<1> QED
  BY <1>3, <1>4
\* What a peer was sent, and how the adapter's work ended.
LEMMA ResponsesGood == ResponsesInv => AnsweredOnce /\ FailureIsVisible
<1> SUFFICES ASSUME ResponsesInv, NEW q \in Exchanges, NEW s, s = sent[q],
                    NEW frames, frames = {s[i] : i \in DOMAIN s}
             PROVE  /\ \A i \in DOMAIN s : s[i] \in Statuses <=> i = 1 /\ route[q] # "adapter_call"
                    /\ \A i \in DOMAIN s : s[i] \in Endings => i = Len(s)
                    /\ handler[q] = "returned" <=> s # << >> /\ s[Len(s)] \in Endings
                    /\ handler[q] = "threw" =>
                         route[q] = "platform" /\ ~(s # << >> /\ s[Len(s)] \in Endings)
                    /\ Finished(q) /\ outcome[q] # "open" =>
                         LET failed == \/ frames \cap (Failures \cup {"error", "adapter:error"}) # {}
                                       \/ frames \cap Endings = {}
                         IN  /\ failed <=> outcome[q] = "failed"
                             /\ failed => "done" \notin frames
  BY DEF AnsweredOnce, FailureIsVisible
<1>1. /\ handler[q] \in HandlerStates /\ outcome[q] \in {"open", "done", "failed"}
      /\ s \in Seq(Frames) /\ ResponseAt(handler[q], route[q], s, outcome[q], tally[q])
  BY DEF ResponsesInv, ExchangeTypeOK, AdapterTypeOK, ResponseOK
<1>2. /\ Statuses \cap Endings = {} /\ "200" \notin Failures /\ "200" \in Statuses
      /\ Failures \subseteq Statuses /\ "end" \in Endings
      /\ {"error", "role", "content", "done"} \cap (Statuses \cup Endings) = {}
      /\ {"adapter:error", "adapter:response"} \subseteq Endings
  BY DEF Statuses, Failures, Endings
<1>3. CASE handler[q] \in Silent
  <2>1. s = << >> /\ ~Finished(q) /\ handler[q] \notin {"returned", "threw"}
    BY <1>1, <1>3 DEF ResponseAt, Silent, Finished
  <2> QED
    BY <2>1
<1>4. CASE handler[q] \in {"streaming", "threw"}
  <2>1. Streaming(s) /\ route[q] \in HttpRoutes
    BY <1>1, <1>4 DEF ResponseAt
  <2>2. /\ route[q] # "adapter_call"
        /\ handler[q] = "threw" => route[q] = "platform" /\ outcome[q] = "failed"
        /\ handler[q] # "threw" => ~Finished(q)
        /\ handler[q] # "returned"
    BY <1>1, <1>4, <2>1 DEF ResponseAt, HttpRoutes, AdapterRouteNames, Streams, HealthRouteNames,
       Finished
  <2>3. /\ DOMAIN s = 1..Len(s) /\ Len(s) \in Nat \ {0} /\ s[1] = "200"
        /\ \A i \in 1..Len(s) : s[i] \in {"200", "role", "content"}
        /\ \A i \in 1..Len(s) :
             \/ i = 1
             \/ i # 1 /\ s[i] \in Frames \ (Statuses \cup Endings)
             \/ i # 1 /\ i = Len(s) /\ s[i] = "end"
    BY <1>1, <2>1, <2>2, FramesOf
  <2>4. \A i \in 1..Len(s) : s[i] \notin Endings
    BY <1>2, <2>3
  <2>5. \A i \in 1..Len(s) : s[i] \in Statuses <=> i = 1
    BY <1>2, <2>3
  <2>6. frames \cap Endings = {} /\ "done" \notin frames
    BY <2>3, <2>4
  <2>7. Len(s) \in 1..Len(s)
    BY <2>3
  <2> QED
    BY <2>2, <2>3, <2>4, <2>5, <2>6, <2>7
<1>5. CASE handler[q] = "returned" /\ route[q] = "adapter_call"
  <2>1. \/ s = <<"adapter:response">> /\ outcome[q] = "done"
        \/ s = <<"adapter:error">> /\ outcome[q] = "failed"
    BY <1>1, <1>5 DEF ResponseAt, Complete
  <2>2. DOMAIN s = {1} /\ Len(s) = 1 /\ s # << >> /\ frames = {s[1]}
    <3>1. Len(s) = 1 /\ s # << >>
      <4>1. CASE s = <<"adapter:response">>  BY <4>1
      <4>2. CASE s = <<"adapter:error">>  BY <4>2
      <4> QED  BY <2>1, <4>1, <4>2
    <3>2. DOMAIN s = {1}
      BY <1>1, <3>1, LenProperties
    <3> QED
      BY <3>1, <3>2
  <2>3. \/ s[1] = "adapter:response" /\ outcome[q] = "done"
        \/ s[1] = "adapter:error" /\ outcome[q] = "failed"
    BY <2>1
  <2>4. s[1] \in Endings /\ s[1] \notin Statuses /\ s[1] # "done"
    BY <1>2, <2>3
  <2>5. s[1] \in Failures \cup {"error", "adapter:error"} <=> outcome[q] = "failed"
    BY <1>2, <2>3
  <2> QED
    BY <1>5, <2>2, <2>4, <2>5
<1>6. CASE handler[q] = "returned" /\ route[q] # "adapter_call"
  <2>1. Complete(s, route[q], outcome[q])
    BY <1>1, <1>6 DEF ResponseAt
  <2>2. /\ DOMAIN s = 1..Len(s) /\ Len(s) \in Nat \ {0} /\ s[1] \in Statuses
        /\ s # << >> /\ s[Len(s)] = "end" /\ Len(s) >= 2
        /\ \A i \in 1..Len(s) :
             \/ i = 1
             \/ i # 1 /\ s[i] \in Frames \ (Statuses \cup Endings)
             \/ i # 1 /\ i = Len(s) /\ s[i] = "end"
    BY <1>1, <1>6, <2>1, FramesOf
  <2>3. \A i \in 1..Len(s) : (s[i] \in Statuses <=> i = 1) /\ (s[i] \in Endings => i = Len(s))
    BY <1>2, <2>2
  <2>4. Len(s) \in 1..Len(s) /\ 1 \in 1..Len(s)
    BY <2>2
  <2>5. frames \cap Endings # {}
    BY <1>2, <2>2, <2>4
  <2>6. ASSUME outcome[q] = "done"
        PROVE  frames \cap (Failures \cup {"error", "adapter:error"}) = {}
    <3>1. s[1] = "200" /\ \A i \in 1..Len(s) : s[i] # "error"
      BY <1>6, <2>1, <2>6 DEF Complete
    <3>2. \A i \in 1..Len(s) : s[i] \notin Failures /\ s[i] # "adapter:error"
      BY <1>2, <2>2, <3>1
    <3> QED
      BY <2>2, <3>1, <3>2
  <2>7. ASSUME outcome[q] = "failed"
        PROVE  /\ frames \cap (Failures \cup {"error", "adapter:error"}) # {}
               /\ "done" \notin frames
    <3>1. /\ s[1] \in Failures \/ \E i \in 1..Len(s) : s[i] = "error"
          /\ \A i \in 1..Len(s) : s[i] # "done"
      BY <1>6, <2>1, <2>7 DEF Complete
    <3> QED
      BY <2>2, <2>4, <3>1
  <2> QED
    BY <1>1, <1>2, <1>6, <2>2, <2>3, <2>5, <2>6, <2>7
<1> QED
  BY <1>1, <1>3, <1>4, <1>5, <1>6 DEF Silent

\* One more occurrence is recorded.
LEMMA RecordedStats ==
  ASSUME NEW stats \in Stats, NEW duration \in Durations, NEW isError \in BOOLEAN
  PROVE  Recorded(stats, duration, isError) \in Stats
<1>1. stats.count \in Nat /\ stats.errors \in Nat /\ stats.max \in Durations \cup {0}
  BY DEF Stats
<1>2. (IF duration > stats.max THEN duration ELSE stats.max) \in Durations \cup {0}
  BY <1>1
<1>3. (IF isError THEN stats.errors + 1 ELSE stats.errors) \in Nat
  BY <1>1
<1> QED
  BY <1>1, <1>2, <1>3 DEF Recorded, Stats

\* The hooks of the collector keep its types.
LEMMA CollectorTyped ==
  ASSUME CollectorTypeOK, ExchangeTypeOK, NEW q \in Exchanges,
         \/ \E r \in HttpRoutes : OnRequest(q, r)
         \/ \E duration \in Durations : OnResponse(q, duration)
         \/ \E duration \in Durations, operation \in DomainOperations :
              /\ Observe(operation, duration)
              /\ UNCHANGED <<underway, activeOperations, requestsTotal, errorsTotal, routeStats>>
  PROVE  CollectorTypeOK'
<1>1. ASSUME NEW r \in HttpRoutes, OnRequest(q, r) PROVE CollectorTypeOK'
  BY <1>1 DEF OnRequest, CollectorTypeOK
<1>2. ASSUME NEW duration \in Durations, OnResponse(q, duration) PROVE CollectorTypeOK'
  <2> DEFINE isError == StatusCode(q) \in Failures
  <2>1. isError \in BOOLEAN
    OBVIOUS
  <2>2. /\ routeStats' = [routeStats EXCEPT ![route[q]] =
                            Recorded(routeStats[route[q]], duration, isError)]
        /\ errorsTotal' = IF isError THEN errorsTotal + 1 ELSE errorsTotal
        /\ requestsTotal' = requestsTotal + 1
        /\ activeOperations' = IF activeOperations > 0 THEN activeOperations - 1 ELSE 0
        /\ underway' = underway \ {q} /\ operationMetrics' = operationMetrics
    BY <1>2 DEF OnResponse
  <2> HIDE DEF isError
  <2>3. routeStats' \in [HttpRoutes -> Stats]
    <3>1. CASE route[q] \in HttpRoutes
      <4>1. Recorded(routeStats[route[q]], duration, isError) \in Stats
        BY <2>1, <3>1, RecordedStats DEF CollectorTypeOK
      <4> QED
        BY <2>2, <4>1 DEF CollectorTypeOK
    <3>2. CASE route[q] \notin HttpRoutes
      BY <2>2, <3>2 DEF CollectorTypeOK
    <3> QED  BY <3>1, <3>2
  <2>4. activeOperations' \in Nat /\ requestsTotal' \in Nat /\ errorsTotal' \in Nat
    BY <2>1, <2>2 DEF CollectorTypeOK
  <2> QED
    BY <2>2, <2>3, <2>4 DEF CollectorTypeOK
<1>3. ASSUME NEW duration \in Durations, NEW operation \in DomainOperations,
             Observe(operation, duration),
             UNCHANGED <<underway, activeOperations, requestsTotal, errorsTotal, routeStats>>
      PROVE  CollectorTypeOK'
  <2>1. Recorded(operationMetrics[operation], duration, FALSE) \in Stats
    BY RecordedStats DEF CollectorTypeOK
  <2> QED
    BY <1>3, <2>1 DEF Observe, CollectorTypeOK
<1> QED
  BY <1>1, <1>2, <1>3
\* Nothing has come in.
LEMMA HttpInitially == HttpInit => HttpInv
<1> SUFFICES ASSUME HttpInit PROVE HttpInv
  OBVIOUS
<1>1. SnapshotsInv
  BY SnapshotsInit DEF HttpInit, CachedRoutesInit
<1>2. AdapterTypeOK /\ \A q \in Exchanges : tally[q] \in Tallies
  BY AdapterConstants DEF HttpInit, AdapterInit, AdapterTypeOK, Tally, Tallies
<1>3. ASSUME NEW q \in Exchanges PROVE ResponseOK(q)
  <2>1. handler[q] = "none" /\ route[q] = "none" /\ sent[q] = << >> /\ outcome[q] = "open"
    BY DEF HttpInit, ExchangeInit, AdapterInit
  <2> QED
    BY <2>1 DEF ResponseOK, ResponseAt
<1>4. CollectorTypeOK
  <2>1. NoStats \in Stats
    BY DEF NoStats, Stats
  <2> QED
    BY <2>1 DEF HttpInit, CollectorTypeOK
<1> QED
  BY <1>1, <1>2, <1>3, <1>4 DEF HttpInv, ResponsesInv, SnapshotsInv

(***************************************************************************)
(* The invariant of the whole server: every handler, of whatever route,    *)
(* keeps what the others rely on.                                          *)
(***************************************************************************)
LEMMA HttpStep == HttpInv /\ [HttpNext]_serverVars => HttpInv'
<1> SUFFICES ASSUME HttpInv, [HttpNext]_serverVars PROVE HttpInv'
  OBVIOUS
<1>1. SnapshotsInv /\ ResponsesInv /\ CollectorTypeOK /\ ExchangeTypeOK
  BY DEF HttpInv, ResponsesInv
<1>2. ASSUME UNCHANGED collectorVars PROVE CollectorTypeOK'
  BY <1>1, <1>2 DEF CollectorTypeOK, collectorVars
<1>3. ASSUME NEW q \in Exchanges, NEW r \in HttpRoutes, OnRequest(q, r) PROVE HttpInv'
  <2>1. Request(q, r) /\ UNCHANGED adapterVars /\ UNCHANGED snapshotVars
    BY <1>3 DEF OnRequest
  <2> QED
    BY <1>1, <1>3, <2>1, ArrivalFresh, ArrivalResponses, CollectorTyped DEF HttpInv
<1>4. ASSUME NEW q \in Exchanges, NEW duration \in Durations, OnResponse(q, duration)
      PROVE  HttpInv'
  <2>1. /\ UNCHANGED exchangeVars /\ UNCHANGED adapterVars /\ UNCHANGED snapshotVars
    BY <1>4 DEF OnResponse
  <2>2. SnapshotsInv'
    <3>1. ExchangeTypeOK' /\ handler' = handler /\ route' = route
      BY <1>1, <2>1 DEF ExchangeTypeOK, exchangeVars
    <3> QED
      BY <1>1, <2>1, <3>1, ExchangeFresh
  <2> QED
    BY <1>1, <1>4, <2>1, <2>2, ResponsesStutter, CollectorTyped DEF HttpInv
<1>5. ASSUME NEW q \in Exchanges, Refuse(q), UNCHANGED <<adapterVars, snapshotVars, collectorVars>>
      PROVE  HttpInv'
  BY <1>1, <1>2, <1>5, ArrivalFresh, ArrivalResponses DEF HttpInv
<1>6. ASSUME NEW q \in Exchanges, AdapterStep(q), UNCHANGED <<snapshotVars, collectorVars>>
      PROVE  HttpInv'
  BY <1>1, <1>2, <1>6, AdapterFresh, AdapterResponses DEF HttpInv
<1>7. ASSUME NEW q \in Exchanges, CachedStep(q), UNCHANGED <<adapterVars, collectorVars>>
      PROVE  HttpInv'
  <2>1. HealthHit(q) \/ DocsHit(q) \/ DocsMiss(q) \/ DocsFetched(q)
    BY <1>7 DEF CachedStep
  <2> QED
    BY <1>1, <1>2, <1>7, <2>1, HealthFresh, DocsFresh, SnapshotResponses DEF HttpInv
<1>8. ASSUME NEW q \in Exchanges, NEW duration \in Durations,
             ObservedMiss(q, duration) \/ \E isUp \in BOOLEAN : ObservedProbe(q, isUp, duration),
             UNCHANGED adapterVars,
             UNCHANGED <<underway, activeOperations, requestsTotal, errorsTotal, routeStats>>
      PROVE  HttpInv'
  <2>1. HealthMiss(q) \/ \E isUp \in BOOLEAN : Probed(q, isUp)
    BY <1>8 DEF ObservedMiss, ObservedProbe
  <2>2. \E operation \in DomainOperations : Observe(operation, duration)
    <3>1. CASE ObservedMiss(q, duration)
      BY <3>1 DEF ObservedMiss, DomainOperations
    <3>2. ASSUME NEW isUp \in BOOLEAN, ObservedProbe(q, isUp, duration)
          PROVE  \E operation \in DomainOperations : Observe(operation, duration)
      <4>1. view[q].probed \in 0..Len(Upstreams) /\ view[q].probed < Len(Upstreams)
        BY <1>1, <3>2 DEF SnapshotsInv, SnapshotTypeOK, CollectsInTime, ObservedProbe, Probed
      <4>2. view[q].probed + 1 \in 1..Len(Upstreams)
        BY <4>1, SnapshotNumbers
      <4>3. DOMAIN Upstreams = 1..Len(Upstreams)
        BY SnapshotConstants, LenProperties
      <4>4. ProbedNext(q) \in Names
        BY <4>2, <4>3 DEF ProbedNext, Names
      <4>5. UpstreamOperation(ProbedNext(q)) \in DomainOperations
        BY <4>4 DEF DomainOperations
      <4> QED
        BY <3>2, <4>5 DEF ObservedProbe
    <3> QED  BY <1>8, <3>1, <3>2
  <2>3. CollectorTypeOK'
    BY <1>1, <1>8, <2>2, CollectorTyped
  <2> QED
    BY <1>1, <1>8, <2>1, <2>3, HealthFresh, SnapshotResponses DEF HttpInv
<1>9. ASSUME Tick, UNCHANGED <<adapterVars, collectorVars>> PROVE HttpInv'
  <2>1. UNCHANGED exchangeVars
    BY <1>9 DEF Tick
  <2> QED
    BY <1>1, <1>2, <1>9, <2>1, TickFresh, ResponsesStutter DEF HttpInv
<1>10. CASE UNCHANGED serverVars
  <2>1. /\ UNCHANGED exchangeVars /\ UNCHANGED adapterVars
        /\ UNCHANGED snapshotVars /\ UNCHANGED collectorVars
    BY <1>10 DEF serverVars
  <2>2. ExchangeTypeOK' /\ handler' = handler /\ route' = route
    BY <1>1, <2>1 DEF ExchangeTypeOK, exchangeVars
  <2> QED
    BY <1>1, <1>2, <2>1, <2>2, ExchangeFresh, ResponsesStutter DEF HttpInv
<1> QED
  BY <1>3, <1>4, <1>5, <1>6, <1>7, <1>8, <1>9, <1>10 DEF HttpNext

\* The invariant holds always.
THEOREM HttpInvariant == HttpSpec => []HttpInv
  BY HttpInitially, HttpStep, PTL DEF HttpSpec

\* The handlers, the caches, the counters and the statistics keep their types.
THEOREM HttpTypeCorrect == HttpSpec => []HttpTypeOK
<1>1. HttpInv => HttpTypeOK
  BY DEF HttpInv, ResponsesInv, SnapshotsInv, CollectorTypeOK, HttpTypeOK
<1> QED
  BY <1>1, HttpInvariant, PTL

(***************************************************************************)
(* Every request is answered once, whichever handler has it: one status,   *)
(* first; one ending, last, when the handler returned; no ending only for  *)
(* the platform stream that broke after its headers were out.              *)
(***************************************************************************)
THEOREM AnswersOnce == HttpSpec => []AnsweredOnce
<1>1. HttpInv => AnsweredOnce
  BY ResponsesGood DEF HttpInv
<1> QED
  BY <1>1, HttpInvariant, PTL

(***************************************************************************)
(* A peer can tell a failed adapter call from a complete one by what it    *)
(* was sent, wherever in the response the failure came.                    *)
(***************************************************************************)
THEOREM FailuresVisible == HttpSpec => []FailureIsVisible
<1>1. HttpInv => FailureIsVisible
  BY ResponsesGood DEF HttpInv
<1> QED
  BY <1>1, HttpInvariant, PTL
\* The age of what is served stays bounded with all the other routes at work.
THEOREM ServerAnswersFresh == HttpSpec => []ServedIsFresh
<1>1. HttpInv => ServedIsFresh
  BY DEF HttpInv, SnapshotsInv
<1> QED
  BY <1>1, HttpInvariant, PTL

-----------------------------------------------------------------------------
\* What the report names

Ranked(stats, ops) == \A o \in ops : stats[o].count \in Nat /\ stats[o].max \in Nat

\* The sort has an order: what is not outranked by something is not outranked by less.
LEMMA RankOrder ==
  ASSUME NEW stats, NEW ops, Ranked(stats, ops), NEW a \in ops, NEW b \in ops, NEW c \in ops,
         ~Outranks(stats, a, b), ~Outranks(stats, b, c)
  PROVE  ~Outranks(stats, a, c)
<1>1. /\ stats[a].count \in Nat /\ stats[b].count \in Nat /\ stats[c].count \in Nat
      /\ stats[a].max \in Nat /\ stats[b].max \in Nat /\ stats[c].max \in Nat
  BY DEF Ranked
<1> QED
  BY <1>1 DEF Outranks

\* A slice of a finite set: as long as it may be, everything when that is not long.
LEMMA SliceOf ==
  ASSUME NEW stats, NEW ops, IsFiniteSet(ops), NEW n \in Nat, NEW s \in Slices(stats, ops, n)
  PROVE  /\ s \subseteq ops /\ IsFiniteSet(s)
         /\ Cardinality(ops) \in Nat /\ Cardinality(s) \in Nat
         /\ Cardinality(s) <= n /\ Cardinality(s) <= Cardinality(ops)
         /\ s = ops \/ Cardinality(s) = n
         /\ Cardinality(ops) >= n => Cardinality(s) = n
         /\ \A o \in s, p \in ops \ s : ~Outranks(stats, p, o)
<1>1. /\ s \in SUBSET ops
      /\ Cardinality(s) = IF Cardinality(ops) < n THEN Cardinality(ops) ELSE n
      /\ \A o \in s, p \in ops \ s : ~Outranks(stats, p, o)
  BY DEF Slices
<1>2. /\ IsFiniteSet(s) /\ Cardinality(s) <= Cardinality(ops)
      /\ Cardinality(ops) = Cardinality(s) => ops = s
  BY <1>1, FS_Subset
<1>3. Cardinality(ops) \in Nat /\ Cardinality(s) \in Nat
  BY <1>2, FS_CardinalityType
<1> QED
  BY <1>1, <1>2, <1>3

\* The first of a list.
LEMMA SliceOfOne ==
  ASSUME NEW stats, NEW ops, IsFiniteSet(ops), ops # {}, NEW s \in Slices(stats, ops, 1)
  PROVE  \E e \in ops : s = {e} /\ \A p \in ops \ {e} : ~Outranks(stats, p, e)
<1>1. /\ s \in SUBSET ops
      /\ Cardinality(s) = IF Cardinality(ops) < 1 THEN Cardinality(ops) ELSE 1
      /\ \A o \in s, p \in ops \ s : ~Outranks(stats, p, o)
  BY DEF Slices
<1>2. IsFiniteSet(s) /\ Cardinality(ops) \in Nat /\ Cardinality(ops) # 0
  BY <1>1, FS_Subset, FS_CardinalityType, FS_EmptySet
<1>3. Cardinality(s) = 1
  BY <1>1, <1>2
<1>4. PICK e : s = {e}
  BY <1>2, <1>3, FS_Singleton
<1> QED
  BY <1>1, <1>4

\* More is not less.
LEMMA UnionLarger ==
  ASSUME NEW a, NEW b, IsFiniteSet(a), IsFiniteSet(b)
  PROVE  /\ IsFiniteSet(a \cup b) /\ Cardinality(a \cup b) \in Nat /\ Cardinality(a) \in Nat
         /\ Cardinality(a) <= Cardinality(a \cup b)
<1>1. IsFiniteSet(a \cup b)
  BY FS_Union
<1>2. a \in SUBSET (a \cup b)
  OBVIOUS
<1> QED
  BY <1>1, <1>2, FS_Subset, FS_CardinalityType

\* What a merge of the slices has to be, top being what is reported of http and domain.
MergeSound(stats, http, domain, limit, top) ==
  /\ top \subseteq http \cup domain
  /\ Cardinality(top) = IF Cardinality(http \cup domain) < limit
                          THEN Cardinality(http \cup domain) ELSE limit
  /\ domain # {} => top \cap domain # {}
  /\ \A o \in top, p \in (http \cup domain) \ top :
       Outranks(stats, p, o) => p \notin domain /\ top \cap domain = {o}

(***************************************************************************)
(* The slice of the routes that mergeTopOperations is given (h) loses      *)
(* nothing: the slice of it and the domain operations ranks like a slice   *)
(* of everything.                                                          *)
(***************************************************************************)
LEMMA MergedSlice ==
  ASSUME NEW stats, NEW http, NEW domain, IsFiniteSet(http), IsFiniteSet(domain),
         http \cap domain = {}, Ranked(stats, http \cup domain), NEW limit \in Nat \ {0},
         NEW h \in Slices(stats, http, limit), NEW s \in Slices(stats, h \cup domain, limit),
         domain = {} \/ s \cap domain # {}
  PROVE  MergeSound(stats, http, domain, limit, s)
<1>1. /\ h \subseteq http /\ IsFiniteSet(h) /\ Cardinality(h) \in Nat
      /\ h = http \/ Cardinality(h) = limit
      /\ Cardinality(http) \in Nat /\ Cardinality(h) <= Cardinality(http)
      /\ \A o \in h, p \in http \ h : ~Outranks(stats, p, o)
  BY SliceOf
<1>2. /\ IsFiniteSet(h \cup domain) /\ Cardinality(h \cup domain) \in Nat
      /\ Cardinality(h) <= Cardinality(h \cup domain)
      /\ IsFiniteSet(http \cup domain) /\ Cardinality(http \cup domain) \in Nat
      /\ Cardinality(http) <= Cardinality(http \cup domain)
  BY <1>1, UnionLarger
<1>3. /\ s \subseteq h \cup domain /\ IsFiniteSet(s) /\ Cardinality(s) \in Nat
      /\ Cardinality(s) <= limit
      /\ Cardinality(h \cup domain) >= limit => Cardinality(s) = limit
      /\ \A o \in s, p \in (h \cup domain) \ s : ~Outranks(stats, p, o)
  BY <1>2, SliceOf
<1>4. CASE h = http
  <2>1. Cardinality(s) = IF Cardinality(http \cup domain) < limit
                           THEN Cardinality(http \cup domain) ELSE limit
    BY <1>4 DEF Slices
  <2> QED
    BY <1>3, <1>4, <2>1 DEF MergeSound
<1>5. CASE Cardinality(h) = limit
  <2>1. Cardinality(s) = limit /\ Cardinality(http \cup domain) >= limit
    BY <1>1, <1>2, <1>3, <1>5
  <2>2. ASSUME NEW o \in s, NEW p \in (http \cup domain) \ s PROVE ~Outranks(stats, p, o)
    <3>1. CASE p \in h \cup domain
      BY <1>3, <3>1
    <3>2. CASE p \in http \ h /\ o \in h
      BY <1>1, <3>2
    <3>3. CASE p \in http \ h /\ o \notin h
      <4>1. PICK k \in h : k \notin s
        <5>1. CASE h \subseteq s
          <6>1. h \in SUBSET s /\ Cardinality(s) = Cardinality(h)
            BY <1>5, <2>1, <5>1
          <6>2. s = h
            BY <1>3, <6>1, FS_Subset
          <6> QED  BY <3>3, <6>2
        <5> QED  BY <5>1
      <4>2. ~Outranks(stats, p, k) /\ ~Outranks(stats, k, o)
        BY <1>1, <1>3, <3>3, <4>1
      <4>3. p \in http \cup domain /\ k \in http \cup domain /\ o \in http \cup domain
        BY <1>1, <1>3, <4>1
      <4> QED
        BY <4>2, <4>3, RankOrder
    <3> QED  BY <3>1, <3>2, <3>3
  <2>3. s \subseteq http \cup domain
    BY <1>1, <1>3
  <2> QED
    BY <1>2, <2>1, <2>2, <2>3 DEF MergeSound
<1> QED
  BY <1>1, <1>4, <1>5

\* A full list of routes makes room for the first domain operation.
LEMMA MadeRoom ==
  ASSUME NEW stats, NEW http, NEW domain, IsFiniteSet(http), IsFiniteSet(domain),
         http \cap domain = {}, Ranked(stats, http \cup domain), NEW limit \in Nat \ {0},
         NEW h \in Slices(stats, http, limit), NEW s \in Slices(stats, h \cup domain, limit),
         domain # {}, s \cap domain = {}, NEW top \in MakeRoom(stats, s, domain, limit)
  PROVE  MergeSound(stats, http, domain, limit, top)
<1>1. /\ h \subseteq http /\ IsFiniteSet(h) /\ Cardinality(h) \in Nat /\ Cardinality(h) <= limit
      /\ Cardinality(http) \in Nat /\ Cardinality(h) <= Cardinality(http)
      /\ \A o \in h, p \in http \ h : ~Outranks(stats, p, o)
  BY SliceOf
<1>2. /\ IsFiniteSet(h \cup domain)
      /\ IsFiniteSet(http \cup domain) /\ Cardinality(http \cup domain) \in Nat
      /\ Cardinality(http) <= Cardinality(http \cup domain)
  BY <1>1, UnionLarger
<1>3. /\ s \subseteq h \cup domain /\ IsFiniteSet(s) /\ Cardinality(s) \in Nat
      /\ s = h \cup domain \/ Cardinality(s) = limit
      /\ \A o \in s, p \in (h \cup domain) \ s : ~Outranks(stats, p, o)
  <2>1. PICK u : u = h \cup domain
    OBVIOUS
  <2>2. /\ s \subseteq u /\ IsFiniteSet(s) /\ Cardinality(s) \in Nat
        /\ s = u \/ Cardinality(s) = limit
        /\ \A o \in s, p \in u \ s : ~Outranks(stats, p, o)
    <3>1. IsFiniteSet(u) /\ s \in Slices(stats, u, limit) /\ limit \in Nat
      BY <1>2, <2>1
    <3> QED
      BY <3>1, SliceOf
  <2> QED
    BY <2>1, <2>2
<1>4. s \in SUBSET h /\ Cardinality(s) = limit
  BY <1>3
<1>5. s = h
  <2>1. Cardinality(s) <= Cardinality(h) /\ (Cardinality(h) = Cardinality(s) => h = s)
    BY <1>1, <1>4, FS_Subset
  <2> QED
    BY <1>1, <1>4, <2>1
<1>6. limit - 1 \in Nat /\ 1 \in Nat
  OBVIOUS
<1>7. PICK k \in Slices(stats, s, limit - 1), d \in Slices(stats, domain, 1) : top = k \cup d
  BY DEF MakeRoom
<1>8. /\ k \subseteq s /\ IsFiniteSet(k) /\ Cardinality(k) \in Nat
      /\ Cardinality(s) >= limit - 1 => Cardinality(k) = limit - 1
      /\ \A o \in k, p \in s \ k : ~Outranks(stats, p, o)
  BY <1>3, <1>6, SliceOf
<1>9. Cardinality(k) = limit - 1
  BY <1>4, <1>8
<1>10. PICK e \in domain : d = {e} /\ \A p \in domain \ {e} : ~Outranks(stats, p, e)
  BY SliceOfOne
<1>11. IsFiniteSet(k)
  BY <1>8
<1>12. top = k \cup {e} /\ e \notin k /\ top \cap domain = {e} /\ top \subseteq http \cup domain
  BY <1>1, <1>5, <1>7, <1>8, <1>10
<1>13. Cardinality(top) = limit /\ Cardinality(http \cup domain) >= limit
  <2>1. Cardinality(k \cup {e}) = Cardinality(k) + 1
    BY <1>11, <1>12, FS_AddElement
  <2> QED
    BY <1>1, <1>2, <1>4, <1>5, <1>9, <1>12, <2>1
<1>14. ASSUME NEW o \in top, NEW p \in (http \cup domain) \ top, Outranks(stats, p, o)
       PROVE  p \notin domain /\ top \cap domain = {o}
  <2>1. CASE o \in k
    <3>1. o \in s /\ o \in h
      BY <1>5, <1>8, <2>1
    <3>2. ~Outranks(stats, p, o)
      <4>1. CASE p \in s
        BY <1>8, <1>12, <2>1, <4>1
      <4>2. CASE p \in http \ h
        BY <1>1, <3>1, <4>2
      <4>3. CASE p \in domain
        BY <1>3, <3>1, <4>3
      <4> QED  BY <1>5, <4>1, <4>2, <4>3
    <3> QED  BY <1>14, <3>2
  <2>2. CASE o = e
    BY <1>10, <1>12, <1>14, <2>2
  <2> QED  BY <1>12, <2>1, <2>2
<1> QED
  BY <1>2, <1>12, <1>13, <1>14 DEF MergeSound

\* Whatever the numbers are, the merge of routes and domain operations is as it should be.
LEMMA MergeIsSound ==
  ASSUME NEW stats, NEW http, NEW domain, IsFiniteSet(http), IsFiniteSet(domain),
         http \cap domain = {}, Ranked(stats, http \cup domain), NEW limit \in Nat \ {0},
         NEW top \in MergeTopOperations(stats, http, domain, limit)
  PROVE  MergeSound(stats, http, domain, limit, top)
<1> DEFINE Merge(s) == IF domain = {} \/ s \cap domain # {}
                         THEN {s} ELSE MakeRoom(stats, s, domain, limit)
<1>0. PICK h \in Slices(stats, http, limit) :
        \E s \in Slices(stats, h \cup domain, limit) : top \in Merge(s)
  BY DEF MergeTopOperations
<1>1. PICK s \in Slices(stats, h \cup domain, limit) : top \in Merge(s)
  BY <1>0
<1>2. CASE domain = {} \/ s \cap domain # {}
  <2>1. top = s
    BY <1>1, <1>2
  <2> QED
    BY <1>2, <2>1, MergedSlice
<1>3. CASE ~(domain = {} \/ s \cap domain # {})
  BY <1>1, <1>3, MadeRoom
<1> QED
  BY <1>2, <1>3
\* There are finitely many operations to report on.
LEMMA OperationsFinite == IsFiniteSet(HttpOperations) /\ IsFiniteSet(DomainOperations)
<1>1. IsFiniteSet(HttpOperations)
  <2>1. \A x, y : IsFiniteSet({x, y})
    <3> SUFFICES ASSUME NEW x, NEW y PROVE IsFiniteSet({x, y})
      OBVIOUS
    <3>1. {x, y} = {x} \cup {y}
      OBVIOUS
    <3>2. IsFiniteSet({x}) /\ IsFiniteSet({y})
      BY FS_Singleton, Zenon
    <3>3. IsFiniteSet({x} \cup {y})
      BY <3>2, FS_Union, Zenon
    <3> QED
      BY <3>1, <3>3
  <2>2. IsFiniteSet(Streams) /\ IsFiniteSet({"completion", "telemetry"})
    BY <2>1 DEF Streams
  <2>3. IsFiniteSet(AdapterRouteNames)
    BY <2>2, FS_Union DEF AdapterRouteNames
  <2>4. IsFiniteSet({"health", "ready"} \cup {"report"})
    BY <2>1, FS_Singleton, FS_Union
  <2>5. HealthRouteNames = {"health", "ready"} \cup {"report"}
    BY DEF HealthRouteNames
  <2>6. IsFiniteSet(AdapterRouteNames \cup HealthRouteNames)
    BY <2>3, <2>4, <2>5, FS_Union
  <2>7. IsFiniteSet(HttpRoutes)
    BY <2>6, FS_Singleton, FS_Union DEF HttpRoutes
  <2> DEFINE f == [r \in HttpRoutes |-> <<"http", r>>]
  <2>8. f \in Surjection(HttpRoutes, HttpOperations)
    BY DEF Surjection, HttpOperations
  <2> QED
    BY <2>7, <2>8, FS_Surjection
<1>2. IsFiniteSet({UpstreamOperation(u) : u \in Names})
  <2>1. IsFiniteSet(1..Len(Upstreams))
    BY SnapshotNumbers, FS_Interval
  <2>2. DOMAIN Upstreams = 1..Len(Upstreams)
    BY SnapshotConstants, LenProperties
  <2> DEFINE f == [i \in 1..Len(Upstreams) |-> UpstreamOperation(Upstreams[i])]
  <2>3. f \in Surjection(1..Len(Upstreams), {UpstreamOperation(u) : u \in Names})
    BY <2>2 DEF Surjection, Names
  <2> QED
    BY <2>1, <2>3, FS_Surjection
<1>3. IsFiniteSet({AdapterOperation})
  BY FS_Singleton
<1> QED
  BY <1>1, <1>2, <1>3, FS_Union DEF DomainOperations

\* The operations that are reported have numbers, and routes are no domain operations.
LEMMA OperationsRanked ==
  ASSUME CollectorTypeOK
  PROVE  /\ HttpOperations \cap DomainOperations = {}
         /\ Ranked(OperationStats, HttpOperations \cup DomainOperations)
<1>1. \A o \in HttpOperations : o[1] = "http" /\ o[2] \in HttpRoutes
  BY DEF HttpOperations
<1>2. \A o \in DomainOperations : o[1] # "http"
  <2>1. AdapterOperation[1] # "http"
    BY DEF AdapterOperation
  <2>2. \A u \in Names : UpstreamOperation(u)[1] # "http"
    BY DEF UpstreamOperation
  <2> QED
    BY <2>1, <2>2 DEF DomainOperations
<1>3. HttpOperations \cap DomainOperations = {}
  BY <1>1, <1>2
<1>4. ASSUME NEW stats \in Stats PROVE stats.count \in Nat /\ stats.max \in Nat
  <2>1. stats.count \in Nat /\ stats.max \in Durations \cup {0}
    BY DEF Stats
  <2>2. Durations \cup {0} \subseteq Nat
    BY ServerConstants
  <2> QED
    BY <2>1, <2>2
<1>5. ASSUME NEW o \in HttpOperations \cup DomainOperations
      PROVE  OperationStats[o] \in Stats
  <2>1. CASE o \in HttpOperations
    BY <1>1, <2>1 DEF OperationStats, CollectorTypeOK
  <2>2. CASE o \notin HttpOperations
    BY <1>5, <2>2 DEF OperationStats, CollectorTypeOK
  <2> QED  BY <2>1, <2>2
<1> QED
  BY <1>3, <1>4, <1>5 DEF Ranked

(***************************************************************************)
(* The observability report names what it should: as many operations as    *)
(* there are, up to its limit; a domain operation if there is one; and it  *)
(* leaves nothing out that ranks above what it names, but for the route    *)
(* that made room for the only domain operation.                           *)
(***************************************************************************)
THEOREM ReportSound == HttpSpec => []TopOperationsSound
<1>1. HttpInv => TopOperationsSound
  <2> SUFFICES ASSUME HttpInv, NEW top \in TopOperationsNow
               PROVE  MergeSound(OperationStats, ObservedOperations(HttpOperations),
                                 ObservedOperations(DomainOperations), TopLimit, top)
    BY DEF TopOperationsSound, MergeSound
  <2>1. CollectorTypeOK /\ TopLimit \in Nat \ {0}
    BY ServerConstants DEF HttpInv
  <2>2. /\ ObservedOperations(HttpOperations) \in SUBSET HttpOperations
        /\ ObservedOperations(DomainOperations) \in SUBSET DomainOperations
    BY DEF ObservedOperations
  <2>3. /\ IsFiniteSet(ObservedOperations(HttpOperations))
        /\ IsFiniteSet(ObservedOperations(DomainOperations))
    BY <2>2, OperationsFinite, FS_Subset
  <2>4. /\ ObservedOperations(HttpOperations) \cap ObservedOperations(DomainOperations) = {}
        /\ Ranked(OperationStats, ObservedOperations(HttpOperations) \cup
                                    ObservedOperations(DomainOperations))
    BY <2>1, <2>2, OperationsRanked DEF Ranked
  <2> QED
    BY <2>1, <2>3, <2>4, MergeIsSound DEF TopOperationsNow
<1> QED
  BY <1>1, HttpInvariant, PTL
=============================================================================
