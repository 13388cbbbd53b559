---------------------------- MODULE HostRouting ----------------------------
(***************************************************************************)
(* The routing tables of HostCallDispatcher                                *)
(* (packages/gateway-core/src/dispatcher.ts): which socket serves a host   *)
(* of a namespace, and which hosts of a namespace offer a capability.      *)
(*                                                                         *)
(* Every method is synchronous, so each one is a single step.  The module  *)
(* has no specification of its own: HostCallDispatcher and AgentConnection *)
(* extend it and say who calls these operations, and when.                 *)
(***************************************************************************)

CONSTANTS
  Namespaces,     \* tenants; every table is keyed by namespace first
  Hosts,          \* host ids
  Sockets,        \* agent WebSockets
  Capabilities,   \* HostCapabilitySchema values
  NoSocket,       \* "the map has no entry"
  Undefined       \* the answer of an unsuccessful lookup

ASSUME RoutingConstants ==
  /\ NoSocket \notin Sockets
  /\ Undefined \notin Hosts \cup Namespaces

VARIABLES
  connections,     \* namespaceId -> hostId -> socket
  capabilityIndex  \* namespaceId -> capability -> set of host ids

routingVars == <<connections, capabilityIndex>>

RoutingTypeOK ==
  /\ connections \in [Namespaces -> [Hosts -> Sockets \cup {NoSocket}]]
  /\ capabilityIndex \in [Namespaces -> [Capabilities -> SUBSET Hosts]]

RoutingInit ==
  /\ connections = [ns \in Namespaces |-> [h \in Hosts |-> NoSocket]]
  /\ capabilityIndex = [ns \in Namespaces |-> [c \in Capabilities |-> {}]]

Connected(ns, h) == connections[ns][h] # NoSocket

(***************************************************************************)
(* registerConnection: the newest socket wins, and the declared            *)
(* capabilities are added to the index.  Nothing the host declared on an   *)
(* earlier connection is taken out of the index.                           *)
(***************************************************************************)
RegisterConnection(h, ns, ws, caps) ==
  /\ connections' = [connections EXCEPT ![ns][h] = ws]
  /\ capabilityIndex' =
       [n \in Namespaces |-> [c \in Capabilities |->
          IF n = ns /\ c \in caps THEN capabilityIndex[n][c] \cup {h}
                                  ELSE capabilityIndex[n][c]]]

\* Mutant: the socket is forgotten and the capability index is not cleaned up.
RemoveConnectionKeepingIndex(h, ns) ==
  /\ connections' = [connections EXCEPT ![ns][h] = NoSocket]
  /\ UNCHANGED capabilityIndex

(***************************************************************************)
(* removeConnection: keyed by host, whichever socket is asking.  Calls     *)
(* already sent to the host are left pending.                              *)
(***************************************************************************)
RemoveConnection(h, ns) ==
  /\ connections' = [connections EXCEPT ![ns][h] = NoSocket]
  /\ capabilityIndex' =
       [n \in Namespaces |-> [c \in Capabilities |->
          IF n = ns THEN capabilityIndex[n][c] \ {h} ELSE capabilityIndex[n][c]]]

(***************************************************************************)
(* The possible answers of firstHostWithCapability.  The code returns the  *)
(* first connected host in insertion order of the index; the order decides *)
(* nothing but which of several equivalent hosts is used, so any of them   *)
(* may be the answer here.                                                 *)
(***************************************************************************)
FirstHostWithCapability(ns, cap) ==
  LET candidates == {h \in capabilityIndex[ns][cap] : Connected(ns, h)}
  IN  IF candidates = {} THEN {Undefined} ELSE candidates

\* The possible answers of firstHost: a connected host of the namespace.
FirstHost(ns) ==
  LET candidates == {h \in Hosts : Connected(ns, h)}
  IN  IF candidates = {} THEN {Undefined} ELSE candidates

(***************************************************************************)
(* The index never offers a host that is not connected, so the check "still *)
(* connected" in firstHostWithCapability never skips anybody and the       *)
(* index does not grow with hosts that left (dispatcher.ts:56-66).         *)
(***************************************************************************)
IndexedHostsConnected ==
  \A ns \in Namespaces, c \in Capabilities :
    \A h \in capabilityIndex[ns][c] : Connected(ns, h)
=============================================================================
