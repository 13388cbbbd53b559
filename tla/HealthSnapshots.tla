-------------------------- MODULE HealthSnapshots --------------------------
(***************************************************************************)
(* The cached views of the upstreams: collectHealthSnapshot behind         *)
(* /health, /ready, /metrics and /observability/health (server.ts), and    *)
(* the merged API documentation (docs/routes.ts).  Both look into the      *)
(* cache, collect on a miss and write what they found for some time;       *)
(* nothing keeps two requests from collecting at once.                     *)
(*                                                                         *)
(* Time is counted in ticks.  It does not pass the deadline of a probe:    *)
(* AbortSignal.timeout ends it.  The cache answers without delay.          *)
(***************************************************************************)
EXTENDS HttpExchange

CONSTANTS
  Upstreams,     \* config.upstreams in the order of its entries
  HealthTTL,     \* HEALTH_CACHE_TTL, 15 s
  ProbeTimeout,  \* of one health probe, 2 s
  DocsTTL,       \* MERGED_CACHE_TTL, 30 s
  DocsTimeout,   \* of the fetches of the API documents, 3 s
  MaxTime        \* bound on the clock

ASSUME SnapshotConstants ==
  /\ Upstreams \in Seq(STRING)
  /\ {HealthTTL, ProbeTimeout, DocsTTL, DocsTimeout, MaxTime} \subseteq Nat \ {0}

VARIABLES
  clock,
  cached,    \* cache key -> entry: since when it was observed, and when it expires
  view,      \* what the handler of a request has observed so far; of the upstreams'
             \* states only that of 'rest' matters, to /ready
  served     \* age of what a request was answered with

snapshotVars == <<clock, cached, view, served>>

Names == {Upstreams[i] : i \in DOMAIN Upstreams}
CacheKeys == {"health", "docs"}
Time == 0..(MaxTime + DocsTTL + HealthTTL + ProbeTimeout + DocsTimeout)

NoEntry == [since |-> 0, restUp |-> FALSE, expires |-> 0]
NoView == [since |-> 0, restUp |-> FALSE, probed |-> 0, deadline |-> 0]

SnapshotTypeOK ==
  /\ clock \in 0..MaxTime
  /\ cached \in [CacheKeys -> [since : Time, restUp : BOOLEAN, expires : Time]]
  /\ view \in [Exchanges -> [since : Time, restUp : BOOLEAN,
                             probed : 0..Len(Upstreams), deadline : Time]]
  /\ served \in [Exchanges -> Time]

SnapshotInit ==
  /\ clock = 0
  /\ cached = [k \in CacheKeys |-> NoEntry]
  /\ view = [q \in Exchanges |-> NoView]
  /\ served = [q \in Exchanges |-> 0]

\* Deadlines of the probes and fetches that are under way.
Waiting(q) == handler[q] \in {"probing", "fetching"}

Tick ==
  /\ clock < MaxTime
  /\ \A q \in Exchanges : Waiting(q) => clock < view[q].deadline
  /\ clock' = clock + 1
  /\ UNCHANGED <<exchangeVars, cached, view, served>>

-----------------------------------------------------------------------------
\* Mutant: the entry is read without regard to its time to live.
HitForever(key) == cached[key].expires > 0

\* cache.get finds an entry
Hit(key) == clock < cached[key].expires

\* cache.set(key, ..., ttl); a failing write is ignored.
Store(key, v, ttl) ==
  \/ cached' = [cached EXCEPT ![key] =
                  [since |-> v.since, restUp |-> v.restUp, expires |-> clock + ttl]]
  \/ UNCHANGED cached

\* The answer of a health route: /ready is 503 unless 'rest' is up.
HealthStatus(q, restUp) == IF route[q] = "ready" /\ ~restUp THEN "503" ELSE "200"

Serve(q, v) ==
  /\ Reply(q, HealthStatus(q, v.restUp))
  /\ served' = [served EXCEPT ![q] = clock - v.since]

HealthHit(q) ==
  /\ handler[q] = "received"
  /\ route[q] \in HealthRouteNames
  /\ Hit("health")
  /\ Serve(q, cached["health"])
  /\ UNCHANGED <<clock, cached, view>>

\* The loop over the upstreams goes on; after the last one the snapshot is kept and served.
CollectUpstreams(q, v) ==
  IF v.probed < Len(Upstreams)
    THEN /\ view' = [view EXCEPT ![q] = v]
         /\ Proceed(q, "probing", << >>)
         /\ UNCHANGED <<cached, served>>
    ELSE /\ view' = [view EXCEPT ![q] = NoView]
         /\ Store("health", v, HealthTTL)
         /\ Serve(q, v)

\* A miss, or a cache that fails: the adapters are looked at and probing starts.
HealthMiss(q) ==
  /\ handler[q] = "received"
  /\ route[q] \in HealthRouteNames
  /\ CollectUpstreams(q, [since |-> clock, restUp |-> FALSE, probed |-> 0,
                          deadline |-> clock + ProbeTimeout])
  /\ UNCHANGED clock

ProbedNext(q) == Upstreams[view[q].probed + 1]

\* Upstreams are probed one after the other, each with a timeout of its own.
Probed(q, isUp) ==
  /\ handler[q] = "probing"
  /\ CollectUpstreams(q, [view[q] EXCEPT !.probed = @ + 1,
                                         !.restUp = IF ProbedNext(q) = "rest" THEN isUp ELSE @,
                                         !.deadline = clock + ProbeTimeout])
  /\ UNCHANGED clock

-----------------------------------------------------------------------------
\* GET /openapi-merged.json

DocsHit(q) ==
  /\ handler[q] = "received"
  /\ route[q] = "docs"
  /\ Hit("docs")
  /\ Serve(q, cached["docs"])
  /\ UNCHANGED <<clock, cached, view>>

DocsMiss(q) ==
  /\ handler[q] = "received"
  /\ route[q] = "docs"
  /\ view' = [view EXCEPT ![q] =
       [since |-> clock, restUp |-> FALSE, probed |-> 0, deadline |-> clock + DocsTimeout]]
  /\ Proceed(q, "fetching", << >>)
  /\ UNCHANGED <<clock, cached, served>>

(***************************************************************************)
(* All fetches settled.  Documents that could not be had are left out, and *)
(* the merge, even an empty one, is cached and served like a complete one. *)
(***************************************************************************)
DocsFetched(q) ==
  /\ handler[q] = "fetching"
  /\ view' = [view EXCEPT ![q] = NoView]
  /\ Store("docs", view[q], DocsTTL)
  /\ Serve(q, view[q])
  /\ UNCHANGED clock

-----------------------------------------------------------------------------
CachedRoutes == HealthRouteNames \cup {"docs"}

SnapshotNext ==
  \/ \E q \in Exchanges :
       \/ /\ Refuse(q) \/ \E r \in CachedRoutes : Request(q, r)
          /\ UNCHANGED snapshotVars
       \/ HealthHit(q)
       \/ HealthMiss(q)
       \/ \E isUp \in BOOLEAN : Probed(q, isUp)
       \/ DocsHit(q)
       \/ DocsMiss(q)
       \/ DocsFetched(q)
  \/ Tick

CachedRoutesInit == ExchangeInit /\ SnapshotInit

SnapshotSpec == CachedRoutesInit /\ [][SnapshotNext]_<<exchangeVars, snapshotVars>>

-----------------------------------------------------------------------------
(***************************************************************************)
(* Nobody is told of a state of the upstreams that is older than the time  *)
(* to live and one collection, although requests collect at the same time, *)
(* finish out of order, overwrite newer entries with older ones, and renew *)
(* the time to live when they do (server.ts:131-216, docs/routes.ts:23-55). *)
(***************************************************************************)
ServedIsFresh ==
  \A q \in Exchanges :
    /\ route[q] \in HealthRouteNames => served[q] < HealthTTL + Len(Upstreams) * ProbeTimeout
    /\ route[q] = "docs" => served[q] < DocsTTL + DocsTimeout
=============================================================================
