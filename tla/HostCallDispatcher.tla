------------------------- MODULE HostCallDispatcher -------------------------
(***************************************************************************)
(* HostCallDispatcher (packages/gateway-core/src/dispatcher.ts): calls are *)
(* sent to the socket of a connected host and wait in the pending map for  *)
(* chunk, result and error messages, or for their 30 second timer.         *)
(*                                                                         *)
(* The dispatcher does not know which socket a message came from, so an    *)
(* inbound message about a request may arrive at any time after the call   *)
(* was sent: late, repeated, or after the host was removed.                *)
(***************************************************************************)
EXTENDS HostRouting, Naturals, Sequences

CONSTANTS
  Requests,   \* request ids (randomUUID: each is used for one call)
  Data,       \* payloads of chunk messages
  MaxChunks   \* bound on the chunks collected for one call

ASSUME MaxChunksAssumption == MaxChunks \in Nat

VARIABLES
  issued,    \* requests call() was invoked for
  pending,   \* keys of the pending map
  chunks,    \* requestId -> chunks collected so far
  timers,    \* requests whose CALL_TIMEOUT_MS timer is armed
  settled    \* what its promise was last resolved or rejected with

callVars == <<issued, pending, chunks, timers, settled>>
dispatcherVars == <<connections, capabilityIndex, issued, pending, chunks, timers, settled>>

-----------------------------------------------------------------------------
\* What a call ends with.

\* The messages of an agent's error: an agent may forward a transport failure
\* of its own ("timed out", "503", ...) or report that the handler failed.
RemoteErrors == {"remote_transport", "remote_handler"}
Errors == RemoteErrors \cup {"timed_out", "host_not_connected"}

\* Mutant: the promise is resolved with the last chunk instead of what arrived.
ResultOfLast(cs) ==
  [shape |-> IF cs = << >> THEN "undefined" ELSE "chunk",
   data  |-> IF cs = << >> THEN cs ELSE cs[Len(cs)]]

\* result: the only chunk, all of them, or undefined when there was none.
ResultOf(cs) ==
  [shape |-> IF cs = << >> THEN "undefined" ELSE IF Len(cs) = 1 THEN "chunk" ELSE "array",
   data  |-> cs]

Unsettled == [status |-> "unsettled"]
Resolved(cs) == [status |-> "resolved", result |-> ResultOf(cs)]
Rejected(err) == [status |-> "rejected", error |-> err]
Results == [shape : {"undefined", "chunk", "array"}, data : Seq(Data)]
Outcomes == [status : {"resolved"}, result : Results]
              \cup [status : {"rejected"}, error : Errors]

CallsTypeOK ==
  /\ issued \subseteq Requests
  /\ pending \subseteq Requests
  /\ chunks \in [Requests -> Seq(Data)]
  /\ timers \subseteq Requests
  /\ settled \in [Requests -> Outcomes \cup {Unsettled}]

CallsInit ==
  /\ issued = {}
  /\ pending = {}
  /\ chunks = [r \in Requests |-> << >>]
  /\ timers = {}
  /\ settled = [r \in Requests |-> Unsettled]

-----------------------------------------------------------------------------
\* Mutant: the entry is stored, but no timer is armed.
CallWithoutTimer(r, ns, h) ==
  /\ r \notin issued
  /\ issued' = issued \cup {r}
  /\ IF Connected(ns, h)
       THEN /\ pending' = pending \cup {r}
            /\ chunks' = [chunks EXCEPT ![r] = << >>]
            /\ UNCHANGED <<timers, settled>>
       ELSE /\ settled' = [settled EXCEPT ![r] = Rejected("host_not_connected")]
            /\ UNCHANGED <<pending, chunks, timers>>

(***************************************************************************)
(* call(namespaceId, hostId, ...): rejected at once when the host has no   *)
(* socket, else stored with a timer and sent.                              *)
(***************************************************************************)
Call(r, ns, h) ==
  /\ r \notin issued
  /\ issued' = issued \cup {r}
  /\ IF Connected(ns, h)
       THEN /\ pending' = pending \cup {r}
            /\ chunks' = [chunks EXCEPT ![r] = << >>]
            /\ timers' = timers \cup {r}
            /\ UNCHANGED settled
       ELSE /\ settled' = [settled EXCEPT ![r] = Rejected("host_not_connected")]
            /\ UNCHANGED <<pending, chunks, timers>>

\* Mutant: clearTimeout is forgotten.
SettleLeavingTimer(r, outcome) ==
  /\ pending' = pending \ {r}
  /\ settled' = [settled EXCEPT ![r] = outcome]
  /\ UNCHANGED <<issued, chunks, timers>>

\* Mutant: the entry stays in the map when the promise is settled.
SettleKeepingEntry(r, outcome) ==
  /\ timers' = timers \ {r}
  /\ settled' = [settled EXCEPT ![r] = outcome]
  /\ UNCHANGED <<issued, chunks, pending>>

\* clearTimeout, pending.delete, then resolve or reject.
Settle(r, outcome) ==
  /\ pending' = pending \ {r}
  /\ timers' = timers \ {r}
  /\ settled' = [settled EXCEPT ![r] = outcome]
  /\ UNCHANGED <<issued, chunks>>

\* handleInbound drops a message whose request is not pending.
InboundChunk(r, d) ==
  /\ r \in pending
  /\ Len(chunks[r]) < MaxChunks
  /\ chunks' = [chunks EXCEPT ![r] = Append(@, d)]
  /\ UNCHANGED <<issued, pending, timers, settled>>

InboundResult(r) ==
  /\ r \in pending
  /\ Settle(r, Resolved(chunks[r]))

InboundError(r, err) ==
  /\ r \in pending
  /\ Settle(r, Rejected(err))

(***************************************************************************)
(* The timer's callback rejects without looking whether the entry is still *)
(* there: it relies on having been cleared when the call was settled.      *)
(***************************************************************************)
CallTimeout(r) ==
  /\ r \in timers
  /\ Settle(r, Rejected("timed_out"))

Inbound(r) ==
  \/ \E d \in Data : InboundChunk(r, d)
  \/ InboundResult(r)
  \/ \E err \in RemoteErrors : InboundError(r, err)

-----------------------------------------------------------------------------
\* The dispatcher on its own, used by anybody in any order.

DispatcherInit == RoutingInit /\ CallsInit

Connect(h, ns, ws, caps) == RegisterConnection(h, ns, ws, caps) /\ UNCHANGED callVars
Disconnect(h, ns) == RemoveConnection(h, ns) /\ UNCHANGED callVars

\* The host a dispatch goes to: the one named, else one that offers the
\* adapter, else any connected one.
DispatchTargets(ns, named, adapter) ==
  IF named # Undefined THEN {named}
  ELSE IF FirstHostWithCapability(ns, adapter) # {Undefined}
         THEN FirstHostWithCapability(ns, adapter)
         ELSE FirstHost(ns)

\* POST /internal/dispatch; without a target the answer is 503 and nothing is called.
InternalDispatch(r, ns, named, adapter) ==
  \E h \in DispatchTargets(ns, named, adapter) \ {Undefined} :
    Call(r, ns, h) /\ UNCHANGED routingVars

Receive(r) == Inbound(r) /\ UNCHANGED routingVars
Expire(r) == CallTimeout(r) /\ UNCHANGED routingVars

DispatcherNext ==
  \/ \E h \in Hosts, ns \in Namespaces, ws \in Sockets, caps \in SUBSET Capabilities :
       Connect(h, ns, ws, caps)
  \/ \E h \in Hosts, ns \in Namespaces : Disconnect(h, ns)
  \/ \E r \in Requests, ns \in Namespaces, named \in Hosts \cup {Undefined},
        adapter \in Capabilities :
       InternalDispatch(r, ns, named, adapter)
  \/ \E r \in Requests : Receive(r)
  \/ \E r \in Requests : Expire(r)

(***************************************************************************)
(* Fairness: setTimeout fires unless it is cleared.  Nothing is assumed of *)
(* the agents, which may never answer.                                     *)
(***************************************************************************)
DispatcherFairness == \A r \in Requests : WF_dispatcherVars(Expire(r))

DispatcherSpec == DispatcherInit /\ [][DispatcherNext]_dispatcherVars
DispatcherFairSpec == DispatcherSpec /\ DispatcherFairness

-----------------------------------------------------------------------------
\* Type invariant of the routing tables and of the pending calls.
DispatcherTypeOK == RoutingTypeOK /\ CallsTypeOK

(***************************************************************************)
(* Bookkeeping of call() and handleInbound: an unsettled call is in the    *)
(* pending map with an armed timer, a settled one has left no entry and no *)
(* timer behind, whatever late or repeated messages arrived.               *)
(***************************************************************************)
PendingExact ==
  /\ pending = {r \in issued : settled[r] = Unsettled}
  /\ timers = pending
  /\ \A r \in Requests \ issued : settled[r] = Unsettled

(***************************************************************************)
(* resolve or reject is called once per promise: a result, an error and    *)
(* the timeout racing each other never compete for the answer, and a late  *)
(* or repeated message never reaches a call that was answered.             *)
(***************************************************************************)
SettledOnce ==
  [][\A r \in Requests : settled[r] # Unsettled => settled'[r] = settled[r]]_dispatcherVars

(***************************************************************************)
(* Every call is answered, even when its host disconnects, is replaced or  *)
(* never replies: removeConnection leaves the call to its timer.           *)
(***************************************************************************)
EveryCallSettles ==
  \A r \in Requests : (r \in issued) ~> (settled[r] # Unsettled)
=============================================================================
