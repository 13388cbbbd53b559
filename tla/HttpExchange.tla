---------------------------- MODULE HttpExchange ----------------------------
(***************************************************************************)
(* What every request handler of the gateway does with its peer: the state *)
(* of the handler between two awaits, and the frames written to the peer.  *)
(* AdapterRoutes and HealthSnapshots extend it with the handlers.          *)
(*                                                                         *)
(* A frame is a status line, one server-sent event, the end of a response, *)
(* or a WebSocket answer; of bodies only the kind of event is kept.  No    *)
(* handler here looks at its peer: a client or agent that leaves changes   *)
(* nothing of what is done, and what is written to it is swallowed.        *)
(***************************************************************************)
EXTENDS Naturals, Sequences

CONSTANTS
  Exchanges   \* requests, each handled once

VARIABLES
  route,    \* the handler a request was routed to
  handler,  \* where that handler is suspended, or how it ended
  sent      \* frames written to the peer

exchangeVars == <<route, handler, sent>>

Streams == {"completion_stream", "platform"}
AdapterRouteNames == Streams \cup {"completion", "telemetry"}
HealthRouteNames == {"health", "ready", "report"}  \* report: /metrics, /observability/health
HttpRoutes == AdapterRouteNames \cup HealthRouteNames \cup {"docs"}

Failures == {"400", "401", "403", "404", "422", "500", "501", "502", "503"}
Statuses == Failures \cup {"200"}
Endings == {"end", "adapter:response", "adapter:error"}
Frames == Statuses \cup Endings \cup {"role", "content", "finish", "done", "error"}

HandlerStates == {"none", "received", "resolving", "calling", "streaming", "probing",
                  "fetching", "returned", "threw"}
Finished(q) == handler[q] \in {"returned", "threw"}

ExchangeTypeOK ==
  /\ route \in [Exchanges -> HttpRoutes \cup {"none", "adapter_call"}]
  /\ handler \in [Exchanges -> HandlerStates]
  /\ sent \in [Exchanges -> Seq(Frames)]

ExchangeInit ==
  /\ route = [q \in Exchanges |-> "none"]
  /\ handler = [q \in Exchanges |-> "none"]
  /\ sent = [q \in Exchanges |-> << >>]

-----------------------------------------------------------------------------
\* The handler goes on, or is over, having written some frames.
Proceed(q, state, frames) ==
  /\ handler' = [handler EXCEPT ![q] = state]
  /\ sent' = [sent EXCEPT ![q] = @ \o frames]
  /\ UNCHANGED route

\* return reply.code(code).send(...)
Reply(q, code) == Proceed(q, "returned", <<code, "end">>)

Request(q, r) ==
  /\ handler[q] = "none"
  /\ route' = [route EXCEPT ![q] = r]
  /\ handler' = [handler EXCEPT ![q] = "received"]
  /\ UNCHANGED sent

(***************************************************************************)
(* Early returns: of the auth middleware (every route but /health), of the *)
(* schema checks, and of lookups in the configuration.  What throws before *)
(* the handler's own try is a 500: the middleware, when the cache fails,   *)
(* and the method allow-list, when the adapter has an inherited name.      *)
(***************************************************************************)
Refusals(r) ==
  CASE r = "health" -> {}
    [] r \in {"completion", "completion_stream"} -> {"401", "500", "400"}
    [] r = "platform" -> {"401", "500", "404", "403", "503", "501", "400"}
    [] r = "telemetry" -> {"401", "500", "400", "503"}
    [] OTHER -> {"401", "500"}

Refuse(q) ==
  /\ handler[q] = "received"
  /\ \E code \in Refusals(route[q]) : Reply(q, code)

-----------------------------------------------------------------------------
(***************************************************************************)
(* Every request is answered once: one status, first; one ending, last,    *)
(* exactly when the handler returned; nothing after it.  Only a            *)
(* platform stream that breaks after its headers is left without an ending *)
(* (platform/routes.ts:187 sends a second status, which throws).           *)
(***************************************************************************)
AnsweredOnce ==
  \A q \in Exchanges :
    LET s == sent[q]
        ended == s # << >> /\ s[Len(s)] \in Endings
    IN  /\ \A i \in DOMAIN s : s[i] \in Statuses <=> i = 1 /\ route[q] # "adapter_call"
        /\ \A i \in DOMAIN s : s[i] \in Endings => i = Len(s)
        /\ handler[q] = "returned" <=> ended
        /\ handler[q] = "threw" => route[q] = "platform" /\ ~ended
=============================================================================
