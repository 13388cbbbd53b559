--------------------------- MODULE AdapterRoutes ---------------------------
(***************************************************************************)
(* The routes that hand a request to a platform adapter: chat completions  *)
(* (llm/routes.ts), /platform/v1 (platform/routes.ts), telemetry ingest    *)
(* (telemetry/routes.ts), and adapter:call messages of agents              *)
(* (hosts/ws-handler.ts, handleAdapterCall).                               *)
(*                                                                         *)
(* Adapters and the REST API are external: a call of them answers, fails   *)
(* or never ends, and none of these handlers bounds the wait.              *)
(***************************************************************************)
EXTENDS HttpExchange

CONSTANTS
  MaxChunks,  \* bound on the chunks of a stream
  MaxEvents   \* events of one ingest request, 500 in the schema

ASSUME AdapterConstants == MaxChunks \in Nat /\ MaxEvents \in Nat \ {0}

VARIABLES
  outcome,  \* how the adapter's work for a request ended: "open", "done" or "failed"
  tally     \* telemetry: events left, accepted and rejected

adapterVars == <<outcome, tally>>

Tally(left, accepted, rejected) ==
  [left |-> left, accepted |-> accepted, rejected |-> rejected]

AdapterTypeOK ==
  /\ outcome \in [Exchanges -> {"open", "done", "failed"}]
  /\ tally \in [Exchanges -> [left : 0..MaxEvents, accepted : 0..MaxEvents,
                              rejected : 0..MaxEvents]]

AdapterInit ==
  /\ outcome = [q \in Exchanges |-> "open"]
  /\ tally = [q \in Exchanges |-> Tally(0, 0, 0)]

\* The adapter is done with the request, or failed it.
Settles(q, o) == outcome' = [outcome EXCEPT ![q] = o] /\ UNCHANGED tally

Handles(q, routes, state) == handler[q] = state /\ route[q] \in routes

Llm == {"completion", "completion_stream"}

-----------------------------------------------------------------------------
\* POST /llm/v1/chat/completions

\* resolveLLMForTier asks the router for an adapter of the tier.
ResolveTier(q) ==
  /\ Handles(q, Llm, "received")
  /\ Proceed(q, "resolving", << >>)
  /\ UNCHANGED adapterVars

\* No adapter: 503.  The router throws: outside the try block, so Fastify's 500.
TierUnavailable(q) ==
  /\ Handles(q, Llm, "resolving")
  /\ \E code \in {"503", "500"} : Reply(q, code)
  /\ Settles(q, "failed")

TierResolved(q) ==
  /\ Handles(q, Llm, "resolving")
  /\ IF route[q] = "completion"
       THEN Proceed(q, "calling", << >>)
       ELSE Proceed(q, "streaming", <<"200", "role">>)
  /\ UNCHANGED adapterVars

\* complete or chatWithTools
CompletionSettled(q) ==
  /\ Handles(q, {"completion"}, "calling")
  /\ \/ Reply(q, "200") /\ Settles(q, "done")
     \/ Reply(q, "500") /\ Settles(q, "failed")

-----------------------------------------------------------------------------
\* POST /platform/v1/:adapter/:method

PlatformCall(q) ==
  /\ Handles(q, {"platform"}, "received")
  /\ Proceed(q, "calling", << >>)
  /\ UNCHANGED adapterVars

\* A value, a failure, or an async iterable that is streamed.
PlatformSettled(q) ==
  /\ Handles(q, {"platform"}, "calling")
  /\ \/ Reply(q, "200") /\ Settles(q, "done")
     \/ Reply(q, "502") /\ Settles(q, "failed")
     \/ Proceed(q, "streaming", <<"200">>) /\ UNCHANGED adapterVars

-----------------------------------------------------------------------------
\* Streams of both

StreamChunk(q) ==
  /\ Handles(q, Streams, "streaming")
  /\ Len(SelectSeq(sent[q], LAMBDA f : f = "content")) < MaxChunks
  /\ Proceed(q, "streaming", <<"content">>)
  /\ UNCHANGED adapterVars

StreamFinished(q) ==
  /\ Handles(q, Streams, "streaming")
  /\ Proceed(q, "returned", IF route[q] = "completion_stream"
                              THEN <<"finish", "done", "end">> ELSE <<"done", "end">>)
  /\ Settles(q, "done")

\* Mutant: [DONE] is written whether or not the adapter got to the end.
StreamFailedDone(q) ==
  /\ Handles(q, Streams, "streaming")
  /\ Proceed(q, "returned", <<"done", "end">>)
  /\ Settles(q, "failed")

\* Mutant: the error event is written, the response is left open.
StreamFailedOpen(q) ==
  /\ Handles(q, Streams, "streaming")
  /\ Proceed(q, "returned", <<"error">>)
  /\ Settles(q, "failed")

(***************************************************************************)
(* Iterating throws.  The LLM route writes an error event and ends; the    *)
(* platform route answers 502 over a response whose headers are out, which *)
(* throws in turn, and nobody ends the response.                           *)
(***************************************************************************)
StreamFailed(q) ==
  /\ Handles(q, Streams, "streaming")
  /\ IF route[q] = "completion_stream"
       THEN Proceed(q, "returned", <<"error", "end">>)
       ELSE Proceed(q, "threw", << >>)
  /\ Settles(q, "failed")

-----------------------------------------------------------------------------
\* POST /telemetry/v1/ingest

Ingest(q, n) ==
  /\ Handles(q, {"telemetry"}, "received")
  /\ tally' = [tally EXCEPT ![q] = Tally(n, 0, 0)]
  /\ Proceed(q, "calling", << >>)
  /\ UNCHANGED outcome

Counted(t, accepts) ==
  Tally(t.left - 1, IF accepts THEN t.accepted + 1 ELSE t.accepted,
                    IF accepts THEN t.rejected ELSE t.rejected + 1)

\* Mutant: the loop makes one turn too many.
LastCountedLate(t) == t.left < 0

LastCounted(t) == t.left = 0

\* One turn of the loop: track resolves or throws.  After the last one the answer,
\* 200 when at least one event was accepted.
Track(q, accepts) ==
  LET t == Counted(tally[q], accepts)
  IN  /\ Handles(q, {"telemetry"}, "calling")
      /\ tally' = [tally EXCEPT ![q] = t]
      /\ IF LastCounted(t)
           THEN /\ Reply(q, IF t.accepted > 0 THEN "200" ELSE "422")
                /\ outcome' = [outcome EXCEPT ![q] = IF t.accepted > 0 THEN "done" ELSE "failed"]
           ELSE UNCHANGED <<exchangeVars, outcome>>

-----------------------------------------------------------------------------
\* adapter:call over an agent's socket

\* A message that fails its schema is answered at once.
AdapterCallInvalid(q) ==
  /\ handler[q] = "none"
  /\ route' = [route EXCEPT ![q] = "adapter_call"]
  /\ handler' = [handler EXCEPT ![q] = "returned"]
  /\ sent' = [sent EXCEPT ![q] = <<"adapter:error">>]
  /\ Settles(q, "failed")

\* Forwarded to the REST API; the timeout the message asks for is not used.
AdapterCall(q) ==
  /\ handler[q] = "none"
  /\ route' = [route EXCEPT ![q] = "adapter_call"]
  /\ handler' = [handler EXCEPT ![q] = "calling"]
  /\ UNCHANGED <<sent, adapterVars>>

BridgeSettled(q) ==
  /\ Handles(q, {"adapter_call"}, "calling")
  /\ \/ Proceed(q, "returned", <<"adapter:response">>) /\ Settles(q, "done")
     \/ Proceed(q, "returned", <<"adapter:error">>) /\ Settles(q, "failed")

AdapterStep(q) ==
  \/ ResolveTier(q) \/ TierUnavailable(q) \/ TierResolved(q) \/ CompletionSettled(q)
  \/ PlatformCall(q) \/ PlatformSettled(q)
  \/ StreamChunk(q) \/ StreamFinished(q) \/ StreamFailed(q)
  \/ \E n \in 1..MaxEvents : Ingest(q, n)
  \/ \E accepts \in BOOLEAN : Track(q, accepts)
  \/ AdapterCallInvalid(q) \/ AdapterCall(q) \/ BridgeSettled(q)

-----------------------------------------------------------------------------
(***************************************************************************)
(* A peer can tell a failed adapter call from a complete one by what it    *)
(* was sent, even when the failure came after a 200 and half a stream: a   *)
(* failure shows as a failure status or an error event, or as a stream     *)
(* that was never ended; [DONE], a bare 200 and adapter:response mean that *)
(* the adapter was done.                                                   *)
(***************************************************************************)
FailureIsVisible ==
  \A q \in Exchanges : Finished(q) /\ outcome[q] # "open" =>
    LET frames == {sent[q][i] : i \in DOMAIN sent[q]}
        failed == \/ frames \cap (Failures \cup {"error", "adapter:error"}) # {}
                  \/ frames \cap Endings = {}
    IN  /\ failed <=> outcome[q] = "failed"
        /\ failed => "done" \notin frames
=============================================================================
