--------------------- MODULE HostCallDispatcher_proofs ---------------------
(***************************************************************************)
(* Proofs about HostCallDispatcher, for any number of namespaces, hosts,   *)
(* sockets, capabilities and calls.                                        *)
(*                                                                         *)
(* RoutingStep and CallStep say what any user of the dispatcher may do to  *)
(* its two halves; the step lemmas are stated for them, so that modules    *)
(* which compose the dispatcher with its callers can cite them.            *)
(***************************************************************************)
EXTENDS HostCallDispatcher, TLAPS

RoutingStep ==
  \/ \E h \in Hosts, ns \in Namespaces, ws \in Sockets, caps \in SUBSET Capabilities :
       RegisterConnection(h, ns, ws, caps)
  \/ \E h \in Hosts, ns \in Namespaces : RemoveConnection(h, ns)
  \/ UNCHANGED routingVars

CallStep ==
  \/ \E r \in Requests, h \in Hosts, ns \in Namespaces : Call(r, ns, h)
  \/ \E r \in Requests : Inbound(r)
  \/ \E r \in Requests : CallTimeout(r)
  \/ UNCHANGED callVars

-----------------------------------------------------------------------------
\* The routing tables keep their types and the index names connected hosts only.
LEMMA RoutingStepKeeps ==
  ASSUME RoutingTypeOK, IndexedHostsConnected, RoutingStep
  PROVE  RoutingTypeOK' /\ IndexedHostsConnected'
<1>1. CASE \E h \in Hosts, ns \in Namespaces, ws \in Sockets, caps \in SUBSET Capabilities :
             RegisterConnection(h, ns, ws, caps)
  <2>1. PICK h \in Hosts, ns \in Namespaces, ws \in Sockets, caps \in SUBSET Capabilities :
               RegisterConnection(h, ns, ws, caps)
    BY <1>1
  <2>2. RoutingTypeOK'
    BY <2>1 DEF RoutingTypeOK, RegisterConnection
  <2>3. IndexedHostsConnected'
    BY <2>1, RoutingConstants DEF RoutingTypeOK, RegisterConnection, IndexedHostsConnected, Connected
  <2>4. QED BY <2>2, <2>3
<1>2. CASE \E h \in Hosts, ns \in Namespaces : RemoveConnection(h, ns)
  <2>1. PICK h \in Hosts, ns \in Namespaces : RemoveConnection(h, ns)
    BY <1>2
  <2>2. RoutingTypeOK'
    BY <2>1 DEF RoutingTypeOK, RemoveConnection
  <2>3. IndexedHostsConnected'
    BY <2>1 DEF RoutingTypeOK, RemoveConnection, IndexedHostsConnected, Connected
  <2>4. QED BY <2>2, <2>3
<1>3. CASE UNCHANGED routingVars
  BY <1>3 DEF routingVars, RoutingTypeOK, IndexedHostsConnected, Connected
<1>4. QED BY <1>1, <1>2, <1>3 DEF RoutingStep

-----------------------------------------------------------------------------
\* What is stored as the outcome of a call is an outcome.
LEMMA OutcomeTypes ==
  /\ \A cs \in Seq(Data) : Resolved(cs) \in Outcomes
  /\ \A err \in Errors : Rejected(err) \in Outcomes
  /\ \A o \in Outcomes : o # Unsettled
<1>1. \A cs \in Seq(Data) : Resolved(cs) \in Outcomes
  BY DEF Resolved, ResultOf, Outcomes, Results
<1>2. \A err \in Errors : Rejected(err) \in Outcomes
  BY DEF Rejected, Outcomes
<1>3. \A o \in Outcomes : o # Unsettled
  BY DEF Outcomes, Unsettled
<1>4. QED BY <1>1, <1>2, <1>3

\* Settling a pending call takes away its entry and its timer.
LEMMA SettleKeeps ==
  ASSUME CallsTypeOK, PendingExact,
         NEW r \in pending, NEW o \in Outcomes, Settle(r, o)
  PROVE  /\ CallsTypeOK' /\ PendingExact'
         /\ \A q \in Requests : settled[q] # Unsettled => settled'[q] = settled[q]
<1> USE DEF CallsTypeOK, Settle
<1>1. CallsTypeOK'
  OBVIOUS
<1>2. settled[r] = Unsettled
  BY DEF PendingExact
<1>3. o # Unsettled
  BY OutcomeTypes
<1>4. \A q \in Requests : settled[q] # Unsettled => settled'[q] = settled[q]
  BY <1>2
<1>5. PendingExact'
  BY <1>3 DEF PendingExact
<1>6. QED BY <1>1, <1>4, <1>5

(***************************************************************************)
(* Any step on the pending calls keeps their types and the bookkeeping,    *)
(* and changes no outcome that was already given.                          *)
(***************************************************************************)
LEMMA CallStepKeeps ==
  ASSUME CallsTypeOK, PendingExact, CallStep
  PROVE  /\ CallsTypeOK' /\ PendingExact'
         /\ \A q \in Requests : settled[q] # Unsettled => settled'[q] = settled[q]
<1>1. ASSUME NEW r \in Requests, NEW h \in Hosts, NEW ns \in Namespaces, Call(r, ns, h)
      PROVE  /\ CallsTypeOK' /\ PendingExact'
             /\ \A q \in Requests : settled[q] # Unsettled => settled'[q] = settled[q]
  <2>1. Rejected("host_not_connected") \in Outcomes /\ Rejected("host_not_connected") # Unsettled
    BY OutcomeTypes DEF Errors
  <2>2. settled[r] = Unsettled
    BY <1>1 DEF Call, PendingExact
  <2>3. CASE Connected(ns, h)
    <3>1. CallsTypeOK'
      <4>1. << >> \in Seq(Data)
        OBVIOUS
      <4>2. QED BY <1>1, <2>3, <4>1 DEF Call, CallsTypeOK
    <3>2. PendingExact'
      BY <1>1, <2>2, <2>3 DEF Call, CallsTypeOK, PendingExact
    <3>3. QED BY <1>1, <2>3, <3>1, <3>2 DEF Call
  <2>4. CASE ~Connected(ns, h)
    <3>1. CallsTypeOK'
      BY <1>1, <2>1, <2>4 DEF Call, CallsTypeOK
    <3>2. settled'[r] # Unsettled /\ \A q \in Requests \ {r} : settled'[q] = settled[q]
      BY <1>1, <2>1, <2>4 DEF Call, CallsTypeOK
    <3>3. issued' = issued \cup {r} /\ r \notin issued /\ UNCHANGED <<pending, timers>>
      BY <1>1, <2>4 DEF Call
    <3>4. PendingExact'
      BY <3>2, <3>3 DEF CallsTypeOK, PendingExact
    <3>5. QED BY <2>2, <3>1, <3>2, <3>4
  <2>5. QED BY <2>3, <2>4
<1>2. ASSUME NEW r \in Requests, Inbound(r)
      PROVE  /\ CallsTypeOK' /\ PendingExact'
             /\ \A q \in Requests : settled[q] # Unsettled => settled'[q] = settled[q]
  <2>1. CASE \E d \in Data : InboundChunk(r, d)
    BY <2>1 DEF InboundChunk, CallsTypeOK, PendingExact
  <2>2. CASE InboundResult(r)
    <3>1. Resolved(chunks[r]) \in Outcomes
      BY OutcomeTypes DEF CallsTypeOK
    <3>2. QED BY <2>2, <3>1, SettleKeeps DEF InboundResult
  <2>3. CASE \E err \in RemoteErrors : InboundError(r, err)
    <3>1. PICK err \in RemoteErrors : InboundError(r, err)
      BY <2>3
    <3>2. Rejected(err) \in Outcomes
      BY OutcomeTypes DEF Errors
    <3>3. QED BY <3>1, <3>2, SettleKeeps DEF InboundError
  <2>4. QED BY <1>2, <2>1, <2>2, <2>3 DEF Inbound
<1>3. ASSUME NEW r \in Requests, CallTimeout(r)
      PROVE  /\ CallsTypeOK' /\ PendingExact'
             /\ \A q \in Requests : settled[q] # Unsettled => settled'[q] = settled[q]
  <2>1. Rejected("timed_out") \in Outcomes
    BY OutcomeTypes DEF Errors
  <2>2. r \in pending
    BY <1>3 DEF CallTimeout, PendingExact
  <2>3. QED BY <1>3, <2>1, <2>2, SettleKeeps DEF CallTimeout
<1>4. CASE UNCHANGED callVars
  BY <1>4 DEF callVars, CallsTypeOK, PendingExact
<1>5. QED BY <1>1, <1>2, <1>3, <1>4 DEF CallStep

-----------------------------------------------------------------------------
\* The inductive invariant of the dispatcher.
DispatcherInv ==
  RoutingTypeOK /\ CallsTypeOK /\ IndexedHostsConnected /\ PendingExact

LEMMA DispatcherInitInv == ASSUME DispatcherInit PROVE DispatcherInv
<1> USE DEF DispatcherInit, RoutingInit, CallsInit
<1>1. RoutingTypeOK
  BY DEF RoutingTypeOK
<1>2. CallsTypeOK
  BY DEF CallsTypeOK
<1>3. IndexedHostsConnected
  BY DEF IndexedHostsConnected
<1>4. PendingExact
  BY DEF PendingExact
<1>5. QED BY <1>1, <1>2, <1>3, <1>4 DEF DispatcherInv

\* Every step of the dispatcher is a step of its two halves.
LEMMA DispatcherStepSplits ==
  ASSUME RoutingTypeOK, [DispatcherNext]_dispatcherVars PROVE RoutingStep /\ CallStep
<1> USE DEF RoutingStep, CallStep
<1>1. CASE \E h \in Hosts, ns \in Namespaces, ws \in Sockets, caps \in SUBSET Capabilities :
             Connect(h, ns, ws, caps)
  BY <1>1 DEF Connect
<1>2. CASE \E h \in Hosts, ns \in Namespaces : Disconnect(h, ns)
  BY <1>2 DEF Disconnect
<1>3. CASE \E r \in Requests, ns \in Namespaces, named \in Hosts \cup {Undefined},
             adapter \in Capabilities : InternalDispatch(r, ns, named, adapter)
  <2>1. PICK r \in Requests, ns \in Namespaces, named \in Hosts \cup {Undefined},
             adapter \in Capabilities : InternalDispatch(r, ns, named, adapter)
    BY <1>3
  <2>2. PICK h \in DispatchTargets(ns, named, adapter) \ {Undefined} :
          Call(r, ns, h) /\ UNCHANGED routingVars
    BY <2>1 DEF InternalDispatch
  <2>3. h \in Hosts
    <3>1. capabilityIndex[ns][adapter] \subseteq Hosts
      BY DEF RoutingTypeOK
    <3>2. QED BY <2>2, <3>1 DEF DispatchTargets, FirstHostWithCapability, FirstHost
  <2>4. QED BY <2>2, <2>3
<1>4. CASE \E r \in Requests : Receive(r)
  BY <1>4 DEF Receive
<1>5. CASE \E r \in Requests : Expire(r)
  BY <1>5 DEF Expire
<1>6. CASE UNCHANGED dispatcherVars
  BY <1>6 DEF dispatcherVars, routingVars, callVars
<1>7. QED BY <1>1, <1>2, <1>3, <1>4, <1>5, <1>6 DEF DispatcherNext

LEMMA DispatcherStepInv ==
  ASSUME DispatcherInv, [DispatcherNext]_dispatcherVars PROVE DispatcherInv'
BY DispatcherStepSplits, RoutingStepKeeps, CallStepKeeps DEF DispatcherInv

\* The inductive invariant holds of every state of the dispatcher.
THEOREM DispatcherInvariant == DispatcherSpec => []DispatcherInv
<1>1. DispatcherInit => DispatcherInv
  BY DispatcherInitInv
<1>2. DispatcherInv /\ [DispatcherNext]_dispatcherVars => DispatcherInv'
  BY DispatcherStepInv
<1>3. QED BY <1>1, <1>2, PTL DEF DispatcherSpec

\* dispatcher.ts keeps the types of its maps.
THEOREM DispatcherTypeCorrect == DispatcherSpec => []DispatcherTypeOK
<1>1. DispatcherInv => DispatcherTypeOK
  BY DEF DispatcherInv, DispatcherTypeOK
<1>2. QED BY <1>1, DispatcherInvariant, PTL

\* removeConnection leaves no host in the capability index behind.
THEOREM IndexCorrect == DispatcherSpec => []IndexedHostsConnected
<1>1. DispatcherInv => IndexedHostsConnected
  BY DEF DispatcherInv
<1>2. QED BY <1>1, DispatcherInvariant, PTL

\* The pending map and the timers hold exactly the unsettled calls.
THEOREM PendingCorrect == DispatcherSpec => []PendingExact
<1>1. DispatcherInv => PendingExact
  BY DEF DispatcherInv
<1>2. QED BY <1>1, DispatcherInvariant, PTL

\* No promise returned by call() is settled a second time.
THEOREM SettlementFinal == DispatcherSpec => SettledOnce
<1>1. DispatcherInv /\ [DispatcherNext]_dispatcherVars =>
        [\A r \in Requests : settled[r] # Unsettled => settled'[r] = settled[r]]_dispatcherVars
  BY DispatcherStepSplits, CallStepKeeps DEF DispatcherInv
<1>2. QED BY <1>1, DispatcherInvariant, PTL DEF DispatcherSpec, SettledOnce
=============================================================================
