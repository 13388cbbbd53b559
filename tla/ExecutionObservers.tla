------------------------- MODULE ExecutionObservers -------------------------
(***************************************************************************)
(* Observer clients on /clients/connect (apps/gateway-app/src/clients):    *)
(* the handshake of clients/ws-handler, its subscribe, unsubscribe and     *)
(* cancel messages, and the SubscriptionRegistry with its broadcasts.      *)
(*                                                                         *)
(* The executions they watch are those of ExecutionStream, which           *)
(* ExecutionContour implements.  An execution is in the ExecutionRegistry  *)
(* exactly while its status is "live" (RegistryExact there), and           *)
(* writeEvent broadcasts every event in the step that writes it.           *)
(***************************************************************************)
EXTENDS ExecutionStream

CONSTANTS
  Clients,          \* observer connections, by connection id
  Namespaces,       \* tenants
  ClientNamespace,  \* connection -> namespaceId of its token
  ExecNamespace     \* execution -> ActiveExecution.namespaceId

ASSUME ObserverConstants ==
  /\ ClientNamespace \in [Clients -> Namespaces]
  /\ ExecNamespace \in [Executions -> Namespaces]
  /\ MaxAttempts \in Nat

VARIABLES
  stage,         \* of a connection's handler: "new", "hello", "serving" or "over"
  readyState,    \* of its WebSocket: "OPEN", "CLOSING" or "CLOSED"
  byExecution,   \* executionId -> subscribed connections (empty: no entry)
  byConnection,  \* connection -> executions it subscribed to (empty: no entry)
  sockets,       \* connections with a registered socket
  received,      \* connection -> execution -> events sent since it subscribed
  joined         \* connection -> execution -> length of the stream at that moment

clientVars == <<stage, readyState, byExecution, byConnection, sockets, received, joined>>
observerVars == <<status, cancelledBy, stream, stage, readyState, byExecution, byConnection,
                  sockets, received, joined>>

ObserverEvents ==
  [type : {"execution:retry"}, attempt : 1..MaxAttempts]
    \cup {ErrorEvent}
    \cup [type : {"execution:cancelled"}, reason : Reasons]
    \cup [type : {"execution:done"}, exitCode : {0, 1, 130}]

ObserversInit ==
  /\ Init
  /\ stage = [c \in Clients |-> "new"]
  /\ readyState = [c \in Clients |-> "CLOSED"]
  /\ byExecution = [e \in Executions |-> {}]
  /\ byConnection = [c \in Clients |-> {}]
  /\ sockets = {}
  /\ received = [c \in Clients |-> [e \in Executions |-> << >>]]
  /\ joined = [c \in Clients |-> [e \in Executions |-> 0]]

-----------------------------------------------------------------------------
\* Connections

ClientUpgrade(c) ==
  /\ stage[c] = "new"
  /\ stage' = [stage EXCEPT ![c] = "hello"]
  /\ readyState' = [readyState EXCEPT ![c] = "OPEN"]
  /\ UNCHANGED <<streamVars, byExecution, byConnection, sockets, received, joined>>

\* Bad token, no hello in time or a malformed one; or the socket left meanwhile.
HelloFailed(c) ==
  /\ stage[c] = "hello"
  /\ stage' = [stage EXCEPT ![c] = "over"]
  /\ readyState' = [readyState EXCEPT ![c] = IF @ = "OPEN" THEN "CLOSING" ELSE @]
  /\ UNCHANGED <<streamVars, byExecution, byConnection, sockets, received, joined>>

\* registerSocket and the listeners, in one go.
HelloDone(c) ==
  /\ stage[c] = "hello"
  /\ readyState[c] = "OPEN"
  /\ stage' = [stage EXCEPT ![c] = "serving"]
  /\ sockets' = sockets \cup {c}
  /\ UNCHANGED <<streamVars, readyState, byExecution, byConnection, received, joined>>

\* The peer starts to close: nothing can be sent any more.
ClientClosing(c) ==
  /\ readyState[c] = "OPEN"
  /\ readyState' = [readyState EXCEPT ![c] = "CLOSING"]
  /\ UNCHANGED <<streamVars, stage, byExecution, byConnection, sockets, received, joined>>

\* Mutant: only the connection's own entry is deleted.
RemoveConnectionOneSided(c) ==
  /\ byConnection' = [byConnection EXCEPT ![c] = {}]
  /\ sockets' = sockets \ {c}
  /\ UNCHANGED byExecution

\* SubscriptionRegistry.removeConnection
RemoveConnection(c) ==
  /\ byExecution' = [e \in Executions |->
                       IF e \in byConnection[c] THEN byExecution[e] \ {c} ELSE byExecution[e]]
  /\ byConnection' = [byConnection EXCEPT ![c] = {}]
  /\ sockets' = sockets \ {c}

\* The 'close' event; its listener exists once the handler serves.
ClientClosed(c) ==
  /\ readyState[c] = "CLOSING"
  /\ readyState' = [readyState EXCEPT ![c] = "CLOSED"]
  /\ IF stage[c] = "serving"
       THEN RemoveConnection(c) /\ stage' = [stage EXCEPT ![c] = "over"]
       ELSE UNCHANGED <<byExecution, byConnection, sockets, stage>>
  /\ UNCHANGED <<streamVars, received, joined>>

-----------------------------------------------------------------------------
\* Messages of a served connection

Serving(c) == stage[c] = "serving" /\ readyState[c] = "OPEN"

\* Mutant: an execution that has ended can still be subscribed to.
MayWatchEnded(c, e) == status[e] \in {"live", "ended"} /\ ExecNamespace[e] = ClientNamespace[c]

\* executionRegistry.get and the namespace check; else EXECUTION_NOT_FOUND or FORBIDDEN.
MayWatch(c, e) == status[e] = "live" /\ ExecNamespace[e] = ClientNamespace[c]

\* Mutant: the connection is added to its own subscriptions instead of the execution.
AddToItself(c, e) ==
  /\ byExecution' = [byExecution EXCEPT ![e] = @ \cup {c}]
  /\ byConnection' = [byConnection EXCEPT ![c] = @ \cup {c}]

\* SubscriptionRegistry.subscribe
AddSubscription(c, e) ==
  /\ byExecution' = [byExecution EXCEPT ![e] = @ \cup {c}]
  /\ byConnection' = [byConnection EXCEPT ![c] = @ \cup {e}]

\* SubscriptionRegistry.unsubscribe
DropSubscription(c, e) ==
  /\ byExecution' = [byExecution EXCEPT ![e] = @ \ {c}]
  /\ byConnection' = [byConnection EXCEPT ![c] = @ \ {e}]

\* client:subscribe; a second one for the same execution changes nothing.
Subscribe(c, e) ==
  /\ Serving(c)
  /\ MayWatch(c, e)
  /\ AddSubscription(c, e)
  /\ IF c \in byExecution[e]
       THEN UNCHANGED <<received, joined>>
       ELSE /\ received' = [received EXCEPT ![c][e] = << >>]
            /\ joined' = [joined EXCEPT ![c][e] = Len(stream[e])]
  /\ UNCHANGED <<streamVars, stage, readyState, sockets>>

\* client:unsubscribe, which is not checked in any way.
Unsubscribe(c, e) ==
  /\ Serving(c)
  /\ DropSubscription(c, e)
  /\ UNCHANGED <<streamVars, stage, readyState, sockets, received, joined>>

\* client:cancel; CANCEL_FAILED when the execution is aborted already.
ClientCancel(c, e, reason) ==
  /\ Serving(c)
  /\ MayWatch(c, e)
  /\ Accept({e}, reason)
  /\ UNCHANGED clientVars

-----------------------------------------------------------------------------
\* Executions

\* The connections broadcast sends to.
Receivers(e) == {c \in byExecution[e] : c \in sockets /\ readyState[c] = "OPEN"}

\* Mutant: one event is sent per turn, the others of the step are dropped.
BroadcastFirst(e, events) ==
  received' = [c \in Clients |->
                 IF c \in Receivers(e) THEN [received[c] EXCEPT ![e] = Append(@, events[1])]
                                       ELSE received[c]]

\* broadcast(executionId, event) for each event written in the step.
Broadcast(e, events) ==
  received' = [c \in Clients |->
                 IF c \in Receivers(e) THEN [received[c] EXCEPT ![e] = @ \o events]
                                       ELSE received[c]]

ExecutionWrites(e) ==
  /\ Retry(e) \/ Close(e)
  /\ Broadcast(e, SubSeq(stream'[e], Len(stream[e]) + 1, Len(stream'[e])))
  /\ UNCHANGED <<stage, readyState, byExecution, byConnection, sockets, joined>>

\* Everything an execution does that clients do not see.
ExecutionSilent ==
  /\ \/ \E e \in Executions : Refuse(e) \/ Open(e)
     \/ \E S \in SUBSET Executions, reason \in Reasons : Accept(S, reason)
  /\ UNCHANGED clientVars

-----------------------------------------------------------------------------
ObserversNext ==
  \/ \E c \in Clients :
       ClientUpgrade(c) \/ HelloFailed(c) \/ HelloDone(c) \/ ClientClosing(c) \/ ClientClosed(c)
  \/ \E c \in Clients, e \in Executions :
       \/ Subscribe(c, e) \/ Unsubscribe(c, e)
       \/ \E reason \in Reasons : ClientCancel(c, e, reason)
  \/ \E e \in Executions : ExecutionWrites(e)
  \/ ExecutionSilent

ObserversSpec == ObserversInit /\ [][ObserversNext]_observerVars

-----------------------------------------------------------------------------
\* Type invariant.
ObserversTypeOK ==
  /\ status \in [Executions -> {"idle", "refused", "live", "ended"}]
  /\ cancelledBy \in [Executions -> Reasons \cup {NoReason}]
  /\ stream \in [Executions -> Seq(ObserverEvents)]
  /\ stage \in [Clients -> {"new", "hello", "serving", "over"}]
  /\ readyState \in [Clients -> {"OPEN", "CLOSING", "CLOSED"}]
  /\ byExecution \in [Executions -> SUBSET Clients]
  /\ byConnection \in [Clients -> SUBSET Executions]
  /\ sockets \subseteq Clients
  /\ received \in [Clients -> [Executions -> Seq(ObserverEvents)]]
  /\ joined \in [Clients -> [Executions -> Nat]]

(***************************************************************************)
(* The registry's maps describe one relation, between executions and       *)
(* connections whose handler serves them, within one namespace; a          *)
(* connection that closed leaves nothing behind in any of them.            *)
(***************************************************************************)
SubscriptionsAgree ==
  /\ sockets = {c \in Clients : stage[c] = "serving"}
  /\ \A c \in Clients, e \in Executions :
       /\ c \in byExecution[e] <=> e \in byConnection[c]
       /\ c \in byExecution[e] => c \in sockets /\ ExecNamespace[e] = ClientNamespace[c]

(***************************************************************************)
(* An observer whose socket is open misses no event of an execution from   *)
(* its subscription on, gets none twice and none out of order, whatever    *)
(* other clients, retries and cancellations do meanwhile.                  *)
(***************************************************************************)
NoEventMissed ==
  \A c \in Clients : \A e \in byConnection[c] :
    readyState[c] = "OPEN" =>
      received[c][e] = SubSeq(stream[e], joined[c][e] + 1, Len(stream[e]))

(***************************************************************************)
(* Nobody waits for an execution that is over: a subscription is accepted  *)
(* only while the execution:done event is still to come, so an open        *)
(* observer of an ended execution has received it.                         *)
(***************************************************************************)
EndIsSeen ==
  \A c \in Clients : \A e \in byConnection[c] :
    status[e] = "ended" /\ readyState[c] = "OPEN" =>
      \E code \in {0, 1, 130} :
        /\ received[c][e] # << >>
        /\ received[c][e][Len(received[c][e])] = DoneEvent(code)
=============================================================================
