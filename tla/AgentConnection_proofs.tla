----------------------- MODULE AgentConnection_proofs -----------------------
(***************************************************************************)
(* Proofs about AgentConnection for any number of hosts and sockets, any   *)
(* assignment of sockets to hosts, and any interleaving of their handlers: *)
(* type correctness, that routes lead to served sockets of the right host, *)
(* and, when storage answers within the turn, that these are open and that *)
(* the status shown for a host is backed by its sockets and its timer.     *)
(***************************************************************************)
EXTENDS AgentConnection, TLAPS

\* With inline storage a handshake cannot be overtaken by the close of its socket.
HandlersOpen ==
  InlineStorage =>
    \A s \in Sockets :
      pc[s] \in {"client", "ensure", "ensured", "online", "set", "flush", "serving"}
        => wire[s] = "open"

\* The inductive invariant.
AgentInv == TypeOK /\ RoutesAreServed /\ HandlersOpen

\* With inline storage one handler, message, tick or callback at a time waits for it.
OneTask ==
  /\ \A s \in Sockets : pc[s] \in Suspended =>
       /\ \A t \in Sockets : /\ pc[t] \in Suspended => t = s
                             /\ beat[t] = {} /\ watchdog[t] = {}
       /\ \A k \in Keys : graceGot[k] = {}
  /\ \A s \in Sockets : beat[s] # {} =>
       /\ \A t \in Sockets : /\ pc[t] \notin Suspended
                             /\ t # s => beat[t] = {}
                             /\ watchdog[t] = {}
       /\ \A k \in Keys : graceGot[k] = {}
  /\ \A s \in Sockets : watchdog[s] # {} =>
       /\ pc[s] = "serving"
       /\ \A t \in Sockets : /\ pc[t] \notin Suspended /\ beat[t] = {}
                             /\ t # s => watchdog[t] = {}
       /\ \A k \in Keys : graceGot[k] = {}
  /\ \A k \in Keys : graceGot[k] # {} =>
       /\ \A t \in Sockets : pc[t] \notin Suspended /\ beat[t] = {} /\ watchdog[t] = {}
       /\ \A j \in Keys : j # k => graceGot[j] = {}

\* What it has read is what the cache holds.
CopiesFresh ==
  /\ \A s \in Sockets :
       /\ pc[s] \in {"ensure", "online", "closing"} => got[s] = {cache[Key(s)]}
       /\ beat[s] \subseteq {cache[Key(s)]} /\ watchdog[s] \subseteq {cache[Key(s)]}
  /\ \A k \in Keys : graceGot[k] \subseteq {cache[k]}

\* Sockets that setOnline announced and setOffline has not taken back.
Live == {"set", "flush", "serving", "closing"}

\* The descriptor of a host, its sockets and its timer.
Backed(k) ==
  /\ \A s \in cache[k].connections : Key(s) = k /\ pc[s] \in Live
  /\ cache[k].status = "online" => cache[k].connections # {}
  /\ cache[k].status = "degraded" => \E s \in Sockets : Key(s) = k /\ pc[s] \in Live
  /\ cache[k].connections # {} => ~grace[k]
  /\ cache[k].status = "reconnecting" =>
       \/ grace[k] \/ graceGot[k] # {}
       \/ \E s \in Sockets : Key(s) = k /\ pc[s] = "offline"
  /\ \A s \in Sockets : Key(s) = k /\ pc[s] = "offline" => cache[k].connections = {}

\* The inductive invariant behind the status of hosts, for inline storage and a store.
StatusInv == OneTask /\ CopiesFresh /\ \A k \in Keys : Backed(k)

-----------------------------------------------------------------------------
\* A host that is known has a descriptor.
LEMMA KnownHosts ==
  \A d \in Descriptors \cup {Absent} : d # Absent <=> d \in Descriptors
BY DEF Descriptors, Absent, Statuses

\* What handlers write back is a descriptor.
LEMMA DescriptorTypes ==
  ASSUME NEW d \in Descriptors
  PROVE  /\ \A st \in Statuses : [d EXCEPT !.status = st] \in Descriptors
         /\ \A cs \in SUBSET Capabilities : [d EXCEPT !.capabilities = cs] \in Descriptors
         /\ \A st \in Statuses, ss \in SUBSET Sockets :
              /\ [d EXCEPT !.status = st, !.connections = ss] \in Descriptors
              /\ [d EXCEPT !.connections = ss, !.status = st] \in Descriptors
BY DEF Descriptors

\* The functions of the registry that compute descriptors.
LEMMA ComputedTypes ==
  /\ \A d \in Descriptors, s \in Sockets : OfflineDescriptor(s, d) \in Descriptors
  /\ \A d \in Descriptors \cup {Absent} : GraceDescriptor(d) \in Descriptors \cup {Absent}
  /\ \A d \in Descriptors : RestoredDescriptor(d) \in Descriptors
<1>1. ASSUME NEW d \in Descriptors, NEW s \in Sockets
      PROVE  OfflineDescriptor(s, d) \in Descriptors
  <2>1. d.connections \ {s} \in SUBSET Sockets
    BY DEF Descriptors
  <2>2. "online" \in Statuses /\ "reconnecting" \in Statuses
    BY DEF Statuses
  <2>3. QED BY <2>1, <2>2, DescriptorTypes DEF OfflineDescriptor
<1>2. ASSUME NEW d \in Descriptors \cup {Absent}
      PROVE  GraceDescriptor(d) \in Descriptors \cup {Absent}
  <2>1. d.status = "reconnecting" => d \in Descriptors
    BY DEF Absent
  <2>2. "offline" \in Statuses
    BY DEF Statuses
  <2>3. QED BY <2>1, <2>2, DescriptorTypes DEF GraceDescriptor
<1>3. ASSUME NEW d \in Descriptors
      PROVE  RestoredDescriptor(d) \in Descriptors
  <2>1. "offline" \in Statuses /\ {} \in SUBSET Sockets
    BY DEF Statuses
  <2>2. QED BY <2>1, DescriptorTypes DEF RestoredDescriptor
<1>4. QED BY <1>1, <1>2, <1>3

\* Every socket belongs to one host of one namespace.
LEMMA KeyTypes ==
  ASSUME NEW s \in Sockets
  PROVE  /\ Key(s) \in Keys
         /\ Key(s)[1] \in Namespaces /\ Key(s)[2] \in Hosts
         /\ Key(s) = <<Key(s)[1], Key(s)[2]>>
BY AgentConstants DEF Key, Keys

\* removeConnection keeps the types of the dispatcher's tables.
LEMMA RemovalTypes ==
  ASSUME RoutingTypeOK, NEW h \in Hosts, NEW ns \in Namespaces, RemoveConnection(h, ns)
  PROVE  RoutingTypeOK'
BY DEF RoutingTypeOK, RemoveConnection

\* Writing a descriptor keeps the type of the cache.
LEMMA StoreTypes ==
  ASSUME TypeOK, NEW k \in Keys, NEW d \in Descriptors \cup {Absent}, Store(k, d)
  PROVE  cache' \in [Keys -> Descriptors \cup {Absent}]
BY DEF TypeOK, Store

-----------------------------------------------------------------------------
\* The state of sockets, cache and timers keeps its type.
LEMMA AgentTypeStep ==
  ASSUME AgentInv, Next
  PROVE  TypeOK'
<1>1. ASSUME NEW s \in Sockets, Upgrade(s)
      PROVE  TypeOK'
  BY <1>1 DEF Upgrade, Goto, routingVars, taskVars, AgentInv, TypeOK, RoutingTypeOK,
     PCs, Suspended
<1>2. ASSUME NEW s \in Sockets, HelloRejected(s)
      PROVE  TypeOK'
  BY <1>2 DEF HelloRejected, Goto, routingVars, taskVars, AgentInv, TypeOK,
     RoutingTypeOK, PCs, Suspended
<1>3. ASSUME NEW s \in Sockets, NEW cs \in SUBSET Capabilities, HelloAccepted(s, cs)
      PROVE  TypeOK'
  BY <1>3 DEF HelloAccepted, Goto, routingVars, taskVars, AgentInv, TypeOK,
     RoutingTypeOK, PCs, Suspended
<1>4. ASSUME NEW s \in Sockets, EnsureRead(s)
      PROVE  TypeOK'
  BY <1>4, KeyTypes DEF EnsureRead, Goto, ReadTo, routingVars, AgentInv, TypeOK,
     RoutingTypeOK, PCs, Suspended
<1>5. ASSUME NEW s \in Sockets, EnsureWrite(s)
      PROVE  TypeOK'
  <2>1. PICK d \in got[s] :
          \/ /\ d = Absent
             /\ Store(Key(s), [status |-> "offline", connections |-> {},
                               capabilities |-> caps[s]])
          \/ d # Absent /\ Store(Key(s), [d EXCEPT !.capabilities = caps[s]])
          \/ UNCHANGED cache
    BY <1>5 DEF EnsureWrite
  <2>2. d \in Descriptors \cup {Absent} /\ Key(s) \in Keys /\ caps[s] \in SUBSET Capabilities
    BY KeyTypes DEF AgentInv, TypeOK
  <2>3. [status |-> "offline", connections |-> {}, capabilities |-> caps[s]] \in Descriptors
    BY <2>2 DEF Descriptors, Statuses
  <2>4. cache' \in [Keys -> Descriptors \cup {Absent}]
    BY <2>1, <2>2, <2>3, KnownHosts, DescriptorTypes, StoreTypes DEF AgentInv, TypeOK
  <2>5. QED BY <1>5, <2>4 DEF EnsureWrite, Goto, AgentInv, TypeOK, RoutingTypeOK, routingVars,
     PCs, Suspended
<1>6. ASSUME NEW s \in Sockets, OnlineRead(s)
      PROVE  TypeOK'
  BY <1>6, KeyTypes DEF OnlineRead, Goto, ReadTo, routingVars, AgentInv, TypeOK,
     RoutingTypeOK, PCs, Suspended
<1>7. ASSUME NEW s \in Sockets, OnlineWrite(s)
      PROVE  TypeOK'
  <2>1. PICK d \in got[s] :
          \/ d # Absent /\ Store(Key(s), [d EXCEPT !.status = "online", !.connections = {s}])
          \/ UNCHANGED cache
    BY <1>7 DEF OnlineWrite
  <2>2. d \in Descriptors \cup {Absent} /\ Key(s) \in Keys /\ "online" \in Statuses
    BY KeyTypes DEF AgentInv, TypeOK, Statuses
  <2>3. cache' \in [Keys -> Descriptors \cup {Absent}]
    BY <2>1, <2>2, KnownHosts, DescriptorTypes, StoreTypes DEF AgentInv, TypeOK
  <2>4. grace' \in [Keys -> BOOLEAN]
    BY <1>7, <2>2 DEF OnlineWrite, AgentInv, TypeOK
  <2>5. QED BY <1>7, <2>3, <2>4 DEF OnlineWrite, Goto, AgentInv, TypeOK, RoutingTypeOK,
     routingVars, PCs, Suspended
<1>8. ASSUME NEW s \in Sockets, Registered(s)
      PROVE  TypeOK'
  BY <1>8, KeyTypes DEF Registered, Goto, RegisterConnection, taskVars, AgentInv,
     TypeOK, RoutingTypeOK, PCs, Suspended
<1>9. ASSUME NEW s \in Sockets, Attached(s)
      PROVE  TypeOK'
  BY <1>9 DEF Attached, Goto, routingVars, taskVars, AgentInv, TypeOK, RoutingTypeOK,
     PCs, Suspended
<1>10. ASSUME NEW s \in Sockets, Closed(s)
       PROVE  TypeOK'
  <2>1. RemoveConnection(Key(s)[2], Key(s)[1]) \/ UNCHANGED routingVars
    BY <1>10 DEF Closed
  <2>2. RoutingTypeOK'
    BY <2>1, KeyTypes, RemovalTypes DEF routingVars, AgentInv, TypeOK, RoutingTypeOK
  <2>3. got' \in [Sockets -> SUBSET (Descriptors \cup {Absent})]
    BY <1>10, KeyTypes DEF Closed, ReadTo, AgentInv, TypeOK
  <2>4. pc' \in [Sockets -> PCs] /\ wire' \in [Sockets -> {"open", "closed"}]
    BY <1>10 DEF Closed, AgentInv, TypeOK, PCs, Suspended
  <2>5. QED BY <1>10, <2>2, <2>3, <2>4 DEF Closed, AgentInv, TypeOK
<1>11. ASSUME NEW s \in Sockets, OfflineWrite(s)
       PROVE  TypeOK'
  <2>1. PICK d \in got[s] :
          \/ d # Absent /\ Store(Key(s), OfflineDescriptor(s, d))
          \/ UNCHANGED cache
    BY <1>11 DEF OfflineWrite
  <2>2. d \in Descriptors \cup {Absent} /\ Key(s) \in Keys
    BY KeyTypes DEF AgentInv, TypeOK
  <2>3. cache' \in [Keys -> Descriptors \cup {Absent}]
    BY <2>1, <2>2, KnownHosts, ComputedTypes, StoreTypes DEF AgentInv, TypeOK
  <2>4. pc' \in [Sockets -> PCs]
    BY <1>11 DEF OfflineWrite, AgentInv, TypeOK, PCs, Suspended
  <2>5. QED BY <1>11, <2>3, <2>4 DEF OfflineWrite, AgentInv, TypeOK, RoutingTypeOK, routingVars
<1>12. ASSUME NEW s \in Sockets, GraceArmed(s)
       PROVE  TypeOK'
  BY <1>12, KeyTypes DEF GraceArmed, Goto, routingVars, taskVars, AgentInv, TypeOK,
     RoutingTypeOK, PCs, Suspended
<1>13. ASSUME NEW k \in Keys, GraceFired(k)
       PROVE  TypeOK'
  BY <1>13 DEF GraceFired, ReadTo, routingVars, AgentInv, TypeOK, RoutingTypeOK, PCs,
     Suspended
<1>14. ASSUME NEW k \in Keys, GraceWrite(k)
       PROVE  TypeOK'
  <2>1. PICK d \in graceGot[k] : Store(k, GraceDescriptor(d)) \/ UNCHANGED cache
    BY <1>14 DEF GraceWrite
  <2>2. d \in Descriptors \cup {Absent}
    BY DEF AgentInv, TypeOK
  <2>3. cache' \in [Keys -> Descriptors \cup {Absent}]
    BY <2>1, <2>2, ComputedTypes, StoreTypes DEF AgentInv, TypeOK
  <2>4. QED BY <1>14, <2>3 DEF GraceWrite, AgentInv, TypeOK, RoutingTypeOK, routingVars
<1>15. ASSUME NEW s \in Sockets, HeartbeatReceived(s)
       PROVE  TypeOK'
  BY <1>15, KeyTypes DEF HeartbeatReceived, ReadTo, routingVars, AgentInv, TypeOK,
     RoutingTypeOK, PCs, Suspended
<1>16. ASSUME NEW s \in Sockets, HeartbeatWrite(s)
       PROVE  TypeOK'
  BY <1>16, KeyTypes DEF HeartbeatWrite, Store, routingVars, AgentInv, TypeOK,
     RoutingTypeOK, PCs, Suspended
<1>17. ASSUME NEW s \in Sockets, HeartbeatMissed(s)
       PROVE  TypeOK'
  BY <1>17 DEF HeartbeatMissed, routingVars, taskVars, AgentInv, TypeOK, RoutingTypeOK,
     PCs, Suspended
<1>18. ASSUME NEW s \in Sockets, WatchdogTick(s)
       PROVE  TypeOK'
  BY <1>18, KeyTypes DEF WatchdogTick, ReadTo, routingVars, AgentInv, TypeOK,
     RoutingTypeOK, PCs, Suspended
<1>19. ASSUME NEW s \in Sockets, WatchdogWrite(s)
       PROVE  TypeOK'
  <2>1. PICK d \in watchdog[s] :
          \/ d # Absent /\ Store(Key(s), [d EXCEPT !.status = "degraded"])
          \/ UNCHANGED cache
    BY <1>19 DEF WatchdogWrite
  <2>2. d \in Descriptors \cup {Absent} /\ Key(s) \in Keys /\ "degraded" \in Statuses
    BY KeyTypes DEF AgentInv, TypeOK, Statuses
  <2>3. cache' \in [Keys -> Descriptors \cup {Absent}]
    BY <2>1, <2>2, KnownHosts, DescriptorTypes, StoreTypes DEF AgentInv, TypeOK
  <2>4. QED BY <1>19, <2>3 DEF WatchdogWrite, AgentInv, TypeOK, RoutingTypeOK, routingVars
<1>20. ASSUME NEW cacheSurvives \in BOOLEAN, Restart(cacheSurvives)
       PROVE  TypeOK'
  <2>1. cache' \in [Keys -> Descriptors \cup {Absent}]
    BY <1>20, KnownHosts, ComputedTypes DEF Restart, AgentInv, TypeOK
  <2>2. pc' \in [Sockets -> PCs]
    BY <1>20 DEF Restart, AgentInv, TypeOK, PCs, Suspended
  <2>3. QED BY <1>20, <2>1, <2>2 DEF Restart, AgentInv, TypeOK, RoutingTypeOK
<1>21. QED
  BY <1>1, <1>2, <1>3, <1>4, <1>5, <1>6, <1>7, <1>8, <1>9, <1>10, <1>11, <1>12, <1>13,
     <1>14, <1>15, <1>16, <1>17, <1>18, <1>19, <1>20 DEF Next, Continue

\* Routes keep leading to served sockets of their host.
LEMMA RoutesStep ==
  ASSUME AgentInv, Next
  PROVE  RoutesAreServed'
<1>1. ASSUME NEW s \in Sockets, Upgrade(s)
      PROVE  RoutesAreServed'
  BY <1>1 DEF Upgrade, Goto, routingVars, taskVars, AgentInv, TypeOK, RoutingTypeOK,
     RoutesAreServed, Connected, PCs, Suspended
<1>2. ASSUME NEW s \in Sockets, HelloRejected(s)
      PROVE  RoutesAreServed'
  BY <1>2 DEF HelloRejected, Goto, routingVars, taskVars, AgentInv, TypeOK,
     RoutingTypeOK, RoutesAreServed, Connected, PCs, Suspended
<1>3. ASSUME NEW s \in Sockets, NEW cs \in SUBSET Capabilities, HelloAccepted(s, cs)
      PROVE  RoutesAreServed'
  BY <1>3 DEF HelloAccepted, Goto, routingVars, taskVars, AgentInv, TypeOK,
     RoutingTypeOK, RoutesAreServed, Connected, PCs, Suspended
<1>4. ASSUME NEW s \in Sockets, EnsureRead(s)
      PROVE  RoutesAreServed'
  BY <1>4 DEF EnsureRead, Goto, ReadTo, routingVars, AgentInv, TypeOK, RoutingTypeOK,
     RoutesAreServed, Connected, PCs, Suspended
<1>5. ASSUME NEW s \in Sockets, EnsureWrite(s)
      PROVE  RoutesAreServed'
  BY <1>5 DEF EnsureWrite, Goto, Store, routingVars, AgentInv, TypeOK, RoutingTypeOK,
     RoutesAreServed, Connected, PCs, Suspended
<1>6. ASSUME NEW s \in Sockets, OnlineRead(s)
      PROVE  RoutesAreServed'
  BY <1>6 DEF OnlineRead, Goto, ReadTo, routingVars, AgentInv, TypeOK, RoutingTypeOK,
     RoutesAreServed, Connected, PCs, Suspended
<1>7. ASSUME NEW s \in Sockets, OnlineWrite(s)
      PROVE  RoutesAreServed'
  BY <1>7 DEF OnlineWrite, Goto, Store, routingVars, AgentInv, TypeOK, RoutingTypeOK,
     RoutesAreServed, Connected, PCs, Suspended
<1>8. ASSUME NEW s \in Sockets, Registered(s)
      PROVE  RoutesAreServed'
  <2>1. connections' = [connections EXCEPT ![Key(s)[1]][Key(s)[2]] = s]
    BY <1>8 DEF Registered, RegisterConnection
  <2>2. pc \in [Sockets -> PCs] /\ pc' = [pc EXCEPT ![s] = "flush"]
    BY <1>8 DEF Registered, Goto, AgentInv, TypeOK
  <2>3. ASSUME NEW ns \in Namespaces, NEW h \in Hosts, <<ns, h>> # Key(s)
        PROVE  connections'[ns][h] = connections[ns][h]
    BY <2>1, <2>3, KeyTypes DEF AgentInv, TypeOK, RoutingTypeOK
  <2>4. connections'[Key(s)[1]][Key(s)[2]] = s
    BY <2>1, KeyTypes DEF AgentInv, TypeOK, RoutingTypeOK
  <2>5. ASSUME NEW ns \in Namespaces, NEW h \in Hosts, Connected(ns, h)'
        PROVE  /\ Key(connections'[ns][h]) = <<ns, h>>
               /\ pc'[connections'[ns][h]] \in {"flush", "serving"}
    <3>1. CASE <<ns, h>> = Key(s)
      BY <2>2, <2>4, <3>1, KeyTypes
    <3>2. CASE <<ns, h>> # Key(s)
      <4>1. Connected(ns, h) /\ connections[ns][h] \in Sockets
        BY <2>3, <2>5, <3>2 DEF Connected, AgentInv, TypeOK, RoutingTypeOK
      <4>2. QED BY <2>2, <2>3, <3>2, <4>1 DEF AgentInv, RoutesAreServed
    <3>3. QED BY <3>1, <3>2
  <2>6. QED BY <2>5 DEF RoutesAreServed, Key
<1>9. ASSUME NEW s \in Sockets, Attached(s)
      PROVE  RoutesAreServed'
  BY <1>9 DEF Attached, Goto, routingVars, taskVars, AgentInv, TypeOK, RoutingTypeOK,
     RoutesAreServed, Connected, PCs, Suspended
<1>10. ASSUME NEW s \in Sockets, Closed(s)
       PROVE  RoutesAreServed'
  <2>1. CASE pc[s] = "serving"
    <3>1. connections' = [connections EXCEPT ![Key(s)[1]][Key(s)[2]] = NoSocket]
      BY <1>10, <2>1 DEF Closed, RemoveConnection
    <3>2. pc \in [Sockets -> PCs] /\ pc' = [pc EXCEPT ![s] = "closing"]
      BY <1>10, <2>1 DEF Closed, AgentInv, TypeOK
    <3>3. ASSUME NEW ns \in Namespaces, NEW h \in Hosts, Connected(ns, h)'
          PROVE  /\ <<ns, h>> # Key(s)
                 /\ Connected(ns, h)
                 /\ connections'[ns][h] = connections[ns][h]
                 /\ connections[ns][h] \in Sockets
      BY <3>1, <3>3, KeyTypes DEF Connected, AgentInv, TypeOK, RoutingTypeOK
    <3>4. ASSUME NEW ns \in Namespaces, NEW h \in Hosts, Connected(ns, h)'
          PROVE  /\ Key(connections'[ns][h]) = <<ns, h>>
                 /\ pc'[connections'[ns][h]] \in {"flush", "serving"}
      <4>1. Key(connections[ns][h]) = <<ns, h>> /\ pc[connections[ns][h]] \in {"flush", "serving"}
        BY <3>3, <3>4 DEF AgentInv, RoutesAreServed
      <4>2. connections[ns][h] # s
        BY <3>3, <3>4, <4>1
      <4>3. QED BY <3>2, <3>3, <3>4, <4>1, <4>2
    <3>5. QED BY <3>4 DEF RoutesAreServed, Key
  <2>2. CASE pc[s] # "serving"
    BY <1>10, <2>2 DEF Closed, routingVars, AgentInv, RoutesAreServed, Connected, Key
  <2>3. QED BY <2>1, <2>2
<1>11. ASSUME NEW s \in Sockets, OfflineWrite(s)
       PROVE  RoutesAreServed'
  <2>1. pc \in [Sockets -> PCs] /\ pc[s] = "closing" /\ UNCHANGED connections
    BY <1>11 DEF OfflineWrite, routingVars, AgentInv, TypeOK
  <2>2. \A t \in Sockets : t # s => pc'[t] = pc[t]
    BY <1>11, <2>1 DEF OfflineWrite
  <2>3. ASSUME NEW ns \in Namespaces, NEW h \in Hosts, Connected(ns, h)
        PROVE  /\ connections[ns][h] \in Sockets \ {s}
               /\ Key(connections[ns][h]) = <<ns, h>>
               /\ pc[connections[ns][h]] \in {"flush", "serving"}
    BY <2>1, <2>3 DEF AgentInv, TypeOK, RoutingTypeOK, RoutesAreServed, Connected
  <2>4. QED BY <2>1, <2>2, <2>3 DEF RoutesAreServed, Connected, Key
<1>12. ASSUME NEW s \in Sockets, GraceArmed(s)
       PROVE  RoutesAreServed'
  BY <1>12 DEF GraceArmed, Goto, routingVars, taskVars, AgentInv, TypeOK, RoutingTypeOK,
     RoutesAreServed, Connected, PCs, Suspended
<1>13. ASSUME NEW k \in Keys, GraceFired(k)
       PROVE  RoutesAreServed'
  BY <1>13 DEF GraceFired, ReadTo, routingVars, AgentInv, TypeOK, RoutingTypeOK,
     RoutesAreServed, Connected, PCs, Suspended
<1>14. ASSUME NEW k \in Keys, GraceWrite(k)
       PROVE  RoutesAreServed'
  BY <1>14 DEF GraceWrite, Store, routingVars, AgentInv, TypeOK, RoutingTypeOK,
     RoutesAreServed, Connected, PCs, Suspended
<1>15. ASSUME NEW s \in Sockets, HeartbeatReceived(s)
       PROVE  RoutesAreServed'
  BY <1>15 DEF HeartbeatReceived, ReadTo, routingVars, AgentInv, TypeOK, RoutingTypeOK,
     RoutesAreServed, Connected, PCs, Suspended
<1>16. ASSUME NEW s \in Sockets, HeartbeatWrite(s)
       PROVE  RoutesAreServed'
  BY <1>16 DEF HeartbeatWrite, Store, routingVars, AgentInv, TypeOK, RoutingTypeOK,
     RoutesAreServed, Connected, PCs, Suspended
<1>17. ASSUME NEW s \in Sockets, HeartbeatMissed(s)
       PROVE  RoutesAreServed'
  BY <1>17 DEF HeartbeatMissed, routingVars, taskVars, AgentInv, TypeOK, RoutingTypeOK,
     RoutesAreServed, Connected, PCs, Suspended
<1>18. ASSUME NEW s \in Sockets, WatchdogTick(s)
       PROVE  RoutesAreServed'
  BY <1>18 DEF WatchdogTick, ReadTo, routingVars, AgentInv, TypeOK, RoutingTypeOK,
     RoutesAreServed, Connected, PCs, Suspended
<1>19. ASSUME NEW s \in Sockets, WatchdogWrite(s)
       PROVE  RoutesAreServed'
  BY <1>19 DEF WatchdogWrite, Store, routingVars, AgentInv, TypeOK, RoutingTypeOK,
     RoutesAreServed, Connected, PCs, Suspended
<1>20. ASSUME NEW cacheSurvives \in BOOLEAN, Restart(cacheSurvives)
       PROVE  RoutesAreServed'
  BY <1>20 DEF Restart, AgentInv, TypeOK, RoutingTypeOK, RoutesAreServed, Connected,
     PCs, Suspended
<1>21. QED
  BY <1>1, <1>2, <1>3, <1>4, <1>5, <1>6, <1>7, <1>8, <1>9, <1>10, <1>11, <1>12, <1>13,
     <1>14, <1>15, <1>16, <1>17, <1>18, <1>19, <1>20 DEF Next, Continue

\* Handshakes keep their sockets open when storage is inline.
LEMMA HandlersStep ==
  ASSUME AgentInv, Next
  PROVE  HandlersOpen'
<1>1. ASSUME NEW s \in Sockets, Upgrade(s)
      PROVE  HandlersOpen'
  BY <1>1 DEF Upgrade, Goto, routingVars, taskVars, AgentInv, TypeOK, HandlersOpen,
     NewTurn, Busy, Suspended
<1>2. ASSUME NEW s \in Sockets, HelloRejected(s)
      PROVE  HandlersOpen'
  BY <1>2 DEF HelloRejected, Goto, routingVars, taskVars, AgentInv, TypeOK,
     HandlersOpen, NewTurn, Busy, Suspended
<1>3. ASSUME NEW s \in Sockets, NEW cs \in SUBSET Capabilities, HelloAccepted(s, cs)
      PROVE  HandlersOpen'
  BY <1>3 DEF HelloAccepted, Goto, routingVars, taskVars, AgentInv, TypeOK,
     HandlersOpen, NewTurn, Busy, Suspended
<1>4. ASSUME NEW s \in Sockets, EnsureRead(s)
      PROVE  HandlersOpen'
  BY <1>4 DEF EnsureRead, Goto, ReadTo, routingVars, AgentInv, TypeOK, HandlersOpen,
     NewTurn, Busy, Suspended
<1>5. ASSUME NEW s \in Sockets, EnsureWrite(s)
      PROVE  HandlersOpen'
  BY <1>5 DEF EnsureWrite, Goto, Store, routingVars, AgentInv, TypeOK, HandlersOpen,
     NewTurn, Busy, Suspended
<1>6. ASSUME NEW s \in Sockets, OnlineRead(s)
      PROVE  HandlersOpen'
  BY <1>6 DEF OnlineRead, Goto, ReadTo, routingVars, AgentInv, TypeOK, HandlersOpen,
     NewTurn, Busy, Suspended
<1>7. ASSUME NEW s \in Sockets, OnlineWrite(s)
      PROVE  HandlersOpen'
  BY <1>7 DEF OnlineWrite, Goto, Store, routingVars, AgentInv, TypeOK, HandlersOpen,
     NewTurn, Busy, Suspended
<1>8. ASSUME NEW s \in Sockets, Registered(s)
      PROVE  HandlersOpen'
  BY <1>8 DEF Registered, Goto, RegisterConnection, taskVars, AgentInv, TypeOK,
     HandlersOpen, NewTurn, Busy, Suspended
<1>9. ASSUME NEW s \in Sockets, Attached(s)
      PROVE  HandlersOpen'
  BY <1>9 DEF Attached, Goto, routingVars, taskVars, AgentInv, TypeOK, HandlersOpen,
     NewTurn, Busy, Suspended
<1>10. ASSUME NEW s \in Sockets, Closed(s)
       PROVE  HandlersOpen'
  BY <1>10 DEF Closed, RemoveConnection, ReadTo, routingVars, AgentInv, TypeOK,
     HandlersOpen, NewTurn, Busy, Suspended
<1>11. ASSUME NEW s \in Sockets, OfflineWrite(s)
       PROVE  HandlersOpen'
  BY <1>11 DEF OfflineWrite, Store, routingVars, AgentInv, TypeOK, HandlersOpen,
     NewTurn, Busy, Suspended
<1>12. ASSUME NEW s \in Sockets, GraceArmed(s)
       PROVE  HandlersOpen'
  BY <1>12 DEF GraceArmed, Goto, routingVars, taskVars, AgentInv, TypeOK, HandlersOpen,
     NewTurn, Busy, Suspended
<1>13. ASSUME NEW k \in Keys, GraceFired(k)
       PROVE  HandlersOpen'
  BY <1>13 DEF GraceFired, ReadTo, routingVars, AgentInv, TypeOK, HandlersOpen, NewTurn,
     Busy, Suspended
<1>14. ASSUME NEW k \in Keys, GraceWrite(k)
       PROVE  HandlersOpen'
  BY <1>14 DEF GraceWrite, Store, routingVars, AgentInv, TypeOK, HandlersOpen, NewTurn,
     Busy, Suspended
<1>15. ASSUME NEW s \in Sockets, HeartbeatReceived(s)
       PROVE  HandlersOpen'
  BY <1>15 DEF HeartbeatReceived, ReadTo, routingVars, AgentInv, TypeOK, HandlersOpen,
     NewTurn, Busy, Suspended
<1>16. ASSUME NEW s \in Sockets, HeartbeatWrite(s)
       PROVE  HandlersOpen'
  BY <1>16 DEF HeartbeatWrite, Store, routingVars, AgentInv, TypeOK, HandlersOpen,
     NewTurn, Busy, Suspended
<1>17. ASSUME NEW s \in Sockets, HeartbeatMissed(s)
       PROVE  HandlersOpen'
  BY <1>17 DEF HeartbeatMissed, routingVars, taskVars, AgentInv, TypeOK, HandlersOpen,
     NewTurn, Busy, Suspended
<1>18. ASSUME NEW s \in Sockets, WatchdogTick(s)
       PROVE  HandlersOpen'
  BY <1>18 DEF WatchdogTick, ReadTo, routingVars, AgentInv, TypeOK, HandlersOpen,
     NewTurn, Busy, Suspended
<1>19. ASSUME NEW s \in Sockets, WatchdogWrite(s)
       PROVE  HandlersOpen'
  BY <1>19 DEF WatchdogWrite, Store, routingVars, AgentInv, TypeOK, HandlersOpen,
     NewTurn, Busy, Suspended
<1>20. ASSUME NEW cacheSurvives \in BOOLEAN, Restart(cacheSurvives)
       PROVE  HandlersOpen'
  BY <1>20 DEF Restart, AgentInv, TypeOK, HandlersOpen, NewTurn, Busy, Suspended
<1>21. QED
  BY <1>1, <1>2, <1>3, <1>4, <1>5, <1>6, <1>7, <1>8, <1>9, <1>10, <1>11, <1>12, <1>13,
     <1>14, <1>15, <1>16, <1>17, <1>18, <1>19, <1>20 DEF Next, Continue

-----------------------------------------------------------------------------
\* The gateway starts with no route and no handler.
LEMMA AgentInitInv == Init => AgentInv
<1> SUFFICES ASSUME Init PROVE AgentInv
  OBVIOUS
<1> USE DEF Init, RoutingInit
<1>1. TypeOK
  BY DEF TypeOK, RoutingTypeOK, PCs
<1>2. RoutesAreServed
  BY DEF RoutesAreServed, Connected
<1>3. HandlersOpen
  BY DEF HandlersOpen
<1>4. QED BY <1>1, <1>2, <1>3 DEF AgentInv

\* The invariant is inductive.
LEMMA AgentStepInv == AgentInv /\ [Next]_vars => AgentInv'
<1> SUFFICES ASSUME AgentInv, [Next]_vars PROVE AgentInv'
  OBVIOUS
<1>1. CASE Next
  BY <1>1, AgentTypeStep, RoutesStep, HandlersStep DEF AgentInv
<1>2. CASE UNCHANGED vars
  <2>1. TypeOK'
    BY <1>2 DEF vars, AgentInv, TypeOK, RoutingTypeOK
  <2>2. RoutesAreServed' /\ HandlersOpen'
    BY <1>2 DEF vars, AgentInv, RoutesAreServed, HandlersOpen, Connected, Key
  <2>3. QED BY <2>1, <2>2 DEF AgentInv
<1>3. QED BY <1>1, <1>2

\* The inductive invariant holds of every state.
THEOREM AgentInvariant == Spec => []AgentInv
BY AgentInitInv, AgentStepInv, PTL DEF Spec

\* Sockets, cache and timers are well typed.
THEOREM AgentTypeCorrect == Spec => []TypeOK
<1>1. AgentInv => TypeOK
  BY DEF AgentInv
<1>2. QED BY <1>1, AgentInvariant, PTL

\* Calls for a host go to a served socket of that host, under any interleaving.
THEOREM RoutesServed == Spec => []RoutesAreServed
<1>1. AgentInv => RoutesAreServed
  BY DEF AgentInv
<1>2. QED BY <1>1, AgentInvariant, PTL

\* If storage answers within the turn, no route leads to a closed socket.
THEOREM RoutesOpen == ASSUME InlineStorage PROVE Spec => []RoutesAreOpen
<1>1. AgentInv => RoutesAreOpen
  BY DEF AgentInv, TypeOK, RoutingTypeOK, RoutesAreServed, HandlersOpen, RoutesAreOpen, Connected
<1>2. QED BY <1>1, AgentInvariant, PTL

-----------------------------------------------------------------------------
\* The status of hosts, with inline storage and a store

\* A handler goes on from one await to the next, or ends.
LEMMA TaskGoesOn ==
  ASSUME TypeOK, OneTask, NEW s \in Sockets, pc[s] \in Suspended, NEW to,
         pc' = [pc EXCEPT ![s] = to], UNCHANGED <<beat, watchdog, graceGot>>
  PROVE  OneTask'
<1>1. /\ \A t \in Sockets : pc'[t] \in Suspended => t = s
      /\ \A t \in Sockets : beat'[t] = {} /\ watchdog'[t] = {}
      /\ \A k \in Keys : graceGot'[k] = {}
  BY DEF TypeOK, OneTask
<1> QED
  BY <1>1 DEF OneTask

\* Nobody else wrote or read when it is the handler of s that goes on.
LEMMA HandlerAlone ==
  ASSUME TypeOK, OneTask, NEW s \in Sockets, pc[s] \in Suspended, NEW to,
         pc' = [pc EXCEPT ![s] = to], to \notin {"ensure", "online", "closing"},
         UNCHANGED <<beat, watchdog, graceGot>>
  PROVE  CopiesFresh'
<1>1. \A t \in Sockets : t # s => pc'[t] = pc[t] /\ pc[t] \notin {"ensure", "online", "closing"}
  BY DEF TypeOK, OneTask, Suspended
<1>2. /\ pc'[s] \notin {"ensure", "online", "closing"}
      /\ \A t \in Sockets : beat'[t] = {} /\ watchdog'[t] = {}
      /\ \A k \in Keys : graceGot'[k] = {}
  BY DEF TypeOK, OneTask
<1> QED
  BY <1>1, <1>2 DEF CopiesFresh

\* A handler that reads has what the cache holds.
LEMMA HandlerRead ==
  ASSUME TypeOK, CopiesFresh, NEW s \in Sockets, NEW to, pc' = [pc EXCEPT ![s] = to],
         got' = ReadTo(got, s, Key(s)), UNCHANGED <<cache, beat, watchdog, graceGot>>
  PROVE  CopiesFresh'
<1>1. got'[s] = {cache[Key(s)]} /\ \A t \in Sockets : t # s => got'[t] = got[t] /\ pc'[t] = pc[t]
  BY DEF TypeOK, ReadTo
<1> QED
  BY <1>1 DEF CopiesFresh, Key

\* The first step of a turn, by a handler.
LEMMA TurnStarts ==
  ASSUME TypeOK, ~Busy, NEW s \in Sockets, NEW to, pc' = [pc EXCEPT ![s] = to],
         UNCHANGED <<beat, watchdog, graceGot>>
  PROVE  OneTask'
<1>1. /\ \A t \in Sockets : pc'[t] \in Suspended => t = s
      /\ \A t \in Sockets : beat'[t] = {} /\ watchdog'[t] = {}
      /\ \A k \in Keys : graceGot'[k] = {}
  BY DEF TypeOK, Busy
<1> QED
  BY <1>1 DEF OneTask

\* Connections are sockets.
LEMMA ConnectionsTyped ==
  ASSUME TypeOK, NEW k \in Keys
  PROVE  cache[k].connections \subseteq Sockets
  BY DEF TypeOK, Descriptors, Absent

\* The descriptor of a host is backed as before when its sockets stay where they count.
LEMMA BackedFrame ==
  ASSUME TypeOK, NEW k \in Keys, Backed(k),
         cache'[k] = cache[k], grace'[k] = grace[k],
         graceGot[k] # {} => graceGot'[k] # {},
         \A t \in Sockets : Key(t) = k =>
           /\ pc[t] \in Live => pc'[t] \in Live
           /\ pc[t] = "offline" <=> pc'[t] = "offline"
  PROVE  Backed(k)'
<1>1. cache[k].connections \subseteq Sockets
  BY ConnectionsTyped
<1> QED
  BY <1>1 DEF Backed, Key

\* A step of the handler of s that leaves cache and timers alone.
LEMMA BackedQuiet ==
  ASSUME TypeOK, StatusInv, NEW s \in Sockets, NEW to, pc' = [pc EXCEPT ![s] = to],
         pc[s] \in Live => to \in Live, pc[s] # "offline", to # "offline",
         UNCHANGED <<cache, grace, graceGot>>
  PROVE  \A k \in Keys : Backed(k)'
<1> SUFFICES ASSUME NEW k \in Keys PROVE Backed(k)'
  OBVIOUS
<1>1. \A t \in Sockets : /\ pc[t] \in Live => pc'[t] \in Live
                         /\ pc[t] = "offline" <=> pc'[t] = "offline"
  BY DEF TypeOK
<1> QED
  BY <1>1, BackedFrame DEF StatusInv

\* A step of the handler of s is none of another host's.
LEMMA BackedElsewhere ==
  ASSUME TypeOK, StatusInv, NEW s \in Sockets, NEW to, pc' = [pc EXCEPT ![s] = to],
         NEW k \in Keys, k # Key(s), cache'[k] = cache[k], grace'[k] = grace[k],
         graceGot' = graceGot
  PROVE  Backed(k)'
<1>1. \A t \in Sockets : Key(t) = k => pc'[t] = pc[t]
  BY DEF TypeOK
<1> QED
  BY <1>1, BackedFrame DEF StatusInv

\* Arrivals, and the steps of a handshake that write nothing to the cache.
LEMMA StatusHandshake ==
  ASSUME TypeOK, StatusInv, InlineStorage, NEW s \in Sockets,
         \/ Upgrade(s) \/ HelloRejected(s) \/ \E cs \in SUBSET Capabilities : HelloAccepted(s, cs)
         \/ EnsureRead(s) \/ OnlineRead(s) \/ Registered(s) \/ Attached(s)
  PROVE  StatusInv'
<1>1. OneTask /\ CopiesFresh
  BY DEF StatusInv
<1>2. UNCHANGED <<cache, grace, beat, watchdog, graceGot>>
  BY DEF Upgrade, HelloRejected, HelloAccepted, EnsureRead, OnlineRead, Registered, Attached,
         taskVars
<1>3. CASE Upgrade(s) \/ HelloRejected(s) \/ \E cs \in SUBSET Capabilities : HelloAccepted(s, cs)
  <2>1. PICK to \in {"hello", "rejected", "client"} : pc' = [pc EXCEPT ![s] = to]
    BY <1>3 DEF Upgrade, HelloRejected, HelloAccepted, Goto
  <2>2. pc[s] \in {"new", "hello"} /\ ~Busy /\ got' = got
    BY <1>3 DEF Upgrade, HelloRejected, HelloAccepted, Goto, NewTurn, taskVars
  <2>3. OneTask'
    BY <1>2, <2>1, <2>2, TurnStarts
  <2>4. CopiesFresh'
    BY <1>1, <1>2, <2>1, <2>2 DEF CopiesFresh, TypeOK, Key
  <2>5. \A k \in Keys : Backed(k)'
    BY <1>2, <2>1, <2>2, BackedQuiet DEF Live
  <2> QED
    BY <2>3, <2>4, <2>5 DEF StatusInv
<1>4. CASE EnsureRead(s) \/ OnlineRead(s)
  <2>1. PICK to \in {"ensure", "online"} : pc' = [pc EXCEPT ![s] = to]
    BY <1>4 DEF EnsureRead, OnlineRead, Goto
  <2>2. pc[s] \in {"client", "ensured"} /\ pc[s] \in Suspended /\ got' = ReadTo(got, s, Key(s))
    BY <1>4 DEF EnsureRead, OnlineRead, Goto, Suspended
  <2>3. OneTask'
    BY <1>1, <1>2, <2>1, <2>2, TaskGoesOn
  <2>4. CopiesFresh'
    BY <1>1, <1>2, <2>1, <2>2, HandlerRead
  <2>5. \A k \in Keys : Backed(k)'
    BY <1>2, <2>1, <2>2, BackedQuiet DEF Live
  <2> QED
    BY <2>3, <2>4, <2>5 DEF StatusInv
<1>5. CASE Registered(s) \/ Attached(s)
  <2>1. PICK to \in {"flush", "serving"} : pc' = [pc EXCEPT ![s] = to]
    BY <1>5 DEF Registered, Attached, Goto
  <2>2. pc[s] \in {"set", "flush"} /\ pc[s] \in Suspended
    BY <1>5 DEF Registered, Attached, Goto, Suspended
  <2>3. OneTask'
    BY <1>1, <1>2, <2>1, <2>2, TaskGoesOn
  <2>4. CopiesFresh'
    BY <1>1, <1>2, <2>1, <2>2, HandlerAlone
  <2>5. \A k \in Keys : Backed(k)'
    BY <1>2, <2>1, <2>2, BackedQuiet DEF Live
  <2> QED
    BY <2>3, <2>4, <2>5 DEF StatusInv
<1> QED
  BY <1>3, <1>4, <1>5

\* ensureRegistered and setOnline write.
LEMMA StatusOnline ==
  ASSUME TypeOK, StatusInv, NEW s \in Sockets, EnsureWrite(s) \/ OnlineWrite(s)
  PROVE  StatusInv'
<1>1. OneTask /\ CopiesFresh /\ Key(s) \in Keys /\ Backed(Key(s))
  BY KeyTypes DEF StatusInv
<1>2. PICK to \in {"ensured", "set"} : pc' = [pc EXCEPT ![s] = to]
  BY DEF EnsureWrite, OnlineWrite, Goto
<1>3. /\ pc[s] \in {"ensure", "online"} /\ pc[s] \in Suspended
      /\ UNCHANGED <<beat, watchdog, graceGot>> /\ got[s] = {cache[Key(s)]}
  BY <1>1 DEF EnsureWrite, OnlineWrite, Goto, Suspended, CopiesFresh
<1>4. OneTask'
  BY <1>1, <1>2, <1>3, TaskGoesOn
<1>5. CopiesFresh'
  BY <1>1, <1>2, <1>3, HandlerAlone
<1>6. cache[Key(s)] \in Descriptors \cup {Absent}
  BY <1>1 DEF TypeOK
<1>7. CASE EnsureWrite(s)
  <2>1. /\ grace' = grace /\ pc' = [pc EXCEPT ![s] = "ensured"]
        /\ \A k \in Keys : k # Key(s) => cache'[k] = cache[k]
    BY <1>7 DEF EnsureWrite, Goto, Store, TypeOK
  <2>2. \/ cache'[Key(s)].status = "offline" /\ cache'[Key(s)].connections = {}
        \/ /\ cache'[Key(s)].status = cache[Key(s)].status
           /\ cache'[Key(s)].connections = cache[Key(s)].connections
    <3>1. CASE cache[Key(s)] = Absent
      BY <1>1, <1>3, <1>7, <3>1 DEF EnsureWrite, Store, TypeOK
    <3>2. CASE cache[Key(s)] \in Descriptors
      <4>1. cache' = cache \/ cache'[Key(s)] = [cache[Key(s)] EXCEPT !.capabilities = caps[s]]
        BY <1>1, <1>3, <1>7, <3>2, KnownHosts DEF EnsureWrite, Store, TypeOK
      <4> QED
        BY <3>2, <4>1 DEF Descriptors
    <3> QED  BY <1>6, <3>1, <3>2
  <2>3. \A t \in Sockets : /\ pc[t] \in Live <=> pc'[t] \in Live
                           /\ pc[t] = "offline" <=> pc'[t] = "offline"
    BY <1>3, <2>1 DEF TypeOK, Live
  <2>4. Backed(Key(s))'
    <3>1. cache[Key(s)].connections \subseteq Sockets
      BY <1>1, ConnectionsTyped
    <3>2. \A t \in cache'[Key(s)].connections : t \in cache[Key(s)].connections /\ t \in Sockets
      BY <2>2, <3>1
    <3> QED
      BY <1>1, <1>3, <2>1, <2>2, <2>3, <3>2 DEF Backed, Key
  <2>5. \A k \in Keys : k # Key(s) => Backed(k)'
    BY <1>2, <1>3, <2>1, BackedElsewhere
  <2> QED
    BY <1>4, <1>5, <2>4, <2>5 DEF StatusInv, Key
<1>8. CASE OnlineWrite(s)
  <2>1. /\ pc' = [pc EXCEPT ![s] = "set"] /\ pc'[s] = "set"
        /\ \A k \in Keys : k # Key(s) => cache'[k] = cache[k] /\ grace'[k] = grace[k]
    BY <1>8 DEF OnlineWrite, Goto, Store, TypeOK
  <2>2. \/ cache[Key(s)] = Absent /\ cache' = cache /\ grace' = grace
        \/ /\ cache'[Key(s)].status = "online" /\ cache'[Key(s)].connections = {s}
           /\ ~grace'[Key(s)]
    <3>1. CASE cache[Key(s)] = Absent
      BY <1>3, <1>8, <3>1 DEF OnlineWrite
    <3>2. CASE cache[Key(s)] \in Descriptors
      <4>1. /\ cache' = [cache EXCEPT ![Key(s)] =
                           [cache[Key(s)] EXCEPT !.status = "online", !.connections = {s}]]
            /\ grace' = [grace EXCEPT ![Key(s)] = FALSE]
        BY <1>3, <1>8, <3>2, KnownHosts DEF OnlineWrite, Store
      <4>2. cache'[Key(s)] = [cache[Key(s)] EXCEPT !.status = "online", !.connections = {s}]
        BY <1>1, <4>1 DEF TypeOK
      <4> QED
        BY <1>1, <3>2, <4>1, <4>2 DEF TypeOK, Descriptors
    <3> QED  BY <1>6, <3>1, <3>2
  <2>3. Backed(Key(s))'
    <3>1. \A t \in Sockets : t # s => pc'[t] = pc[t] /\ pc[t] # "offline"
      BY <1>1, <1>3, <2>1 DEF TypeOK, OneTask, Suspended
    <3>2. CASE cache[Key(s)] = Absent /\ cache' = cache /\ grace' = grace
      <4>1. cache'[Key(s)].status = "absent" /\ cache'[Key(s)].connections = {}
        BY <3>2 DEF Absent
      <4> QED
        BY <4>1 DEF Backed, Key
    <3>3. CASE /\ cache'[Key(s)].status = "online" /\ cache'[Key(s)].connections = {s}
               /\ ~grace'[Key(s)]
      <4>1. \A t \in Sockets : pc'[t] # "offline"
        BY <2>1, <3>1
      <4> QED
        BY <2>1, <3>3, <4>1 DEF Backed, Key, Live
    <3> QED  BY <2>2, <3>2, <3>3
  <2>4. \A k \in Keys : k # Key(s) => Backed(k)'
    BY <1>2, <1>3, <2>1, BackedElsewhere
  <2> QED
    BY <1>4, <1>5, <2>3, <2>4 DEF StatusInv, Key
<1> QED
  BY <1>7, <1>8

\* The close of a socket up to the start of the grace timer.
LEMMA StatusClose ==
  ASSUME TypeOK, StatusInv, InlineStorage, NEW s \in Sockets,
         Closed(s) \/ OfflineWrite(s) \/ GraceArmed(s)
  PROVE  StatusInv'
<1>1. OneTask /\ CopiesFresh /\ Key(s) \in Keys /\ Backed(Key(s))
  BY KeyTypes DEF StatusInv
<1>2. UNCHANGED <<beat, watchdog, graceGot>>
  BY DEF Closed, OfflineWrite, GraceArmed, taskVars
<1>3. CASE Closed(s)
  <2>1. UNCHANGED <<cache, grace>> /\ ~Busy
    BY <1>3 DEF Closed, NewTurn
  <2>2. CASE pc[s] = "serving"
    <3>1. pc' = [pc EXCEPT ![s] = "closing"] /\ got' = ReadTo(got, s, Key(s))
      BY <1>3, <2>2 DEF Closed
    <3>2. OneTask'
      BY <1>2, <2>1, <3>1, TurnStarts
    <3>3. CopiesFresh'
      BY <1>1, <1>2, <2>1, <3>1, HandlerRead
    <3>4. \A k \in Keys : Backed(k)'
      BY <1>2, <2>1, <2>2, <3>1, BackedQuiet DEF Live
    <3> QED
      BY <3>2, <3>3, <3>4 DEF StatusInv
  <2>3. CASE pc[s] # "serving"
    <3>1. UNCHANGED <<pc, got>>
      BY <1>3, <2>3 DEF Closed
    <3>2. OneTask' /\ CopiesFresh'
      BY <1>1, <1>2, <2>1, <3>1 DEF OneTask, CopiesFresh, Key
    <3>3. \A k \in Keys : Backed(k)'
      BY <1>2, <2>1, <3>1, BackedFrame DEF StatusInv
    <3> QED
      BY <3>2, <3>3 DEF StatusInv
  <2> QED
    BY <2>2, <2>3
<1>4. CASE OfflineWrite(s)
  <2>1. /\ pc[s] = "closing" /\ pc[s] \in Suspended /\ got[s] = {cache[Key(s)]}
        /\ grace' = grace /\ cache[Key(s)] \in Descriptors \cup {Absent}
    BY <1>1, <1>4 DEF OfflineWrite, Suspended, CopiesFresh, TypeOK
  <2>2. \A t \in Sockets : t # s => pc[t] \notin Suspended
    BY <1>1, <2>1 DEF OneTask
  <2>3. CASE cache[Key(s)] = Absent
    <3>1. pc' = [pc EXCEPT ![s] = "closed"] /\ cache' = cache
      BY <1>4, <2>1, <2>3 DEF OfflineWrite
    <3>2. OneTask' /\ CopiesFresh'
      BY <1>1, <1>2, <2>1, <3>1, TaskGoesOn, HandlerAlone
    <3>3. cache'[Key(s)].status = "absent" /\ cache'[Key(s)].connections = {}
      BY <2>3, <3>1 DEF Absent
    <3>4. Backed(Key(s))'
      BY <3>3 DEF Backed, Key
    <3>5. \A k \in Keys : k # Key(s) => Backed(k)'
      BY <1>2, <2>1, <3>1, BackedElsewhere
    <3> QED
      BY <3>2, <3>4, <3>5 DEF StatusInv, Key
  <2>4. CASE cache[Key(s)] \in Descriptors
    <3> DEFINE others == cache[Key(s)].connections \ {s}
    <3>1. /\ cache' = [cache EXCEPT ![Key(s)] = OfflineDescriptor(s, cache[Key(s)])]
          /\ pc' = [pc EXCEPT ![s] = IF OfflineDescriptor(s, cache[Key(s)]).status = "online"
                                       THEN "closed" ELSE "offline"]
      BY <1>4, <2>1, <2>4, KnownHosts DEF OfflineWrite, Store
    <3>2. /\ OfflineDescriptor(s, cache[Key(s)]).connections = others
          /\ OfflineDescriptor(s, cache[Key(s)]).status
               = IF others # {} THEN "online" ELSE "reconnecting"
      BY <2>4 DEF OfflineDescriptor, Descriptors
    <3>3. /\ cache'[Key(s)].connections = others
          /\ cache'[Key(s)].status = IF others # {} THEN "online" ELSE "reconnecting"
          /\ \A k \in Keys : k # Key(s) => cache'[k] = cache[k]
      BY <1>1, <3>1, <3>2 DEF TypeOK
    <3>4. PICK to \in {"closed", "offline"} :
             /\ pc' = [pc EXCEPT ![s] = to]
             /\ to = IF others # {} THEN "closed" ELSE "offline"
      BY <3>1, <3>2
    <3>5. OneTask' /\ CopiesFresh'
      BY <1>1, <1>2, <2>1, <3>4, TaskGoesOn, HandlerAlone
    <3>6. /\ pc'[s] = to
          /\ \A t \in Sockets : t # s => pc'[t] = pc[t] /\ pc'[t] # "offline"
      BY <2>2, <3>4 DEF TypeOK, Suspended
    <3>7. \A t \in others : t \in Sockets /\ Key(t) = Key(s) /\ pc'[t] \in Live
      BY <1>1, <3>6, ConnectionsTyped DEF Backed
    <3>8. Backed(Key(s))'
      <4>1. CASE others = {}
        BY <1>1, <3>3, <3>4, <3>6, <3>7, <4>1 DEF Backed, Key
      <4>2. CASE others # {}
        <5>1. ~grace'[Key(s)]
          BY <1>1, <2>1, <4>2 DEF Backed
        <5>2. \A t \in Sockets : pc'[t] # "offline"
          BY <3>4, <3>6, <4>2
        <5> HIDE DEF others
        <5> QED
          BY <3>3, <3>7, <4>2, <5>1, <5>2 DEF Backed, Key
      <4> QED
        BY <4>1, <4>2
    <3>9. \A k \in Keys : k # Key(s) => Backed(k)'
      BY <1>2, <2>1, <3>3, <3>4, BackedElsewhere
    <3> QED
      BY <3>5, <3>8, <3>9 DEF StatusInv, Key
  <2> QED
    BY <2>1, <2>3, <2>4
<1>5. CASE GraceArmed(s)
  <2>1. /\ pc[s] = "offline" /\ pc[s] \in Suspended /\ pc' = [pc EXCEPT ![s] = "closed"]
        /\ cache' = cache /\ grace' = [grace EXCEPT ![Key(s)] = TRUE]
    BY <1>5 DEF GraceArmed, Goto, Suspended
  <2>2. OneTask' /\ CopiesFresh'
    BY <1>1, <1>2, <2>1, TaskGoesOn, HandlerAlone
  <2>3. /\ grace'[Key(s)] /\ cache[Key(s)].connections = {}
        /\ \A k \in Keys : k # Key(s) => grace'[k] = grace[k]
    BY <1>1, <2>1 DEF TypeOK, Backed
  <2>4. \A t \in Sockets : pc[t] \in Live => pc'[t] \in Live
    BY <2>1 DEF TypeOK, Live
  <2>5. Backed(Key(s))'
    BY <1>1, <2>1, <2>3, <2>4 DEF Backed, Key
  <2>6. \A k \in Keys : k # Key(s) => Backed(k)'
    BY <1>2, <2>1, <2>3, BackedElsewhere
  <2> QED
    BY <2>2, <2>5, <2>6 DEF StatusInv, Key
<1> QED
  BY <1>3, <1>4, <1>5

\* The grace timer's callback: it reads, then takes the host offline.
LEMMA StatusGrace ==
  ASSUME TypeOK, StatusInv, InlineStorage, NEW k \in Keys, GraceFired(k) \/ GraceWrite(k)
  PROVE  StatusInv'
<1>1. OneTask /\ CopiesFresh /\ Backed(k) /\ UNCHANGED <<pc, got, beat, watchdog>>
  BY DEF StatusInv, GraceFired, GraceWrite
<1>2. \A t \in Sockets : Key(t) \in Keys
  BY KeyTypes
<1>3. CASE GraceFired(k)
  <2>1. /\ ~Busy /\ cache' = cache
        /\ graceGot'[k] = {cache[k]} /\ ~grace'[k]
        /\ \A j \in Keys : j # k => graceGot'[j] = graceGot[j] /\ grace'[j] = grace[j]
    BY <1>3 DEF GraceFired, NewTurn, ReadTo, TypeOK
  <2>2. OneTask'
    BY <1>1, <2>1 DEF OneTask, Busy
  <2>3. CopiesFresh'
    BY <1>1, <2>1 DEF CopiesFresh, Key
  <2>4. Backed(k)'
    BY <1>1, <2>1 DEF Backed, Key
  <2>5. \A j \in Keys : j # k => Backed(j)'
    BY <1>1, <2>1, BackedFrame DEF StatusInv
  <2> QED
    BY <2>2, <2>3, <2>4, <2>5 DEF StatusInv
<1>4. CASE GraceWrite(k)
  <2>1. /\ graceGot[k] = {cache[k]} /\ grace' = grace /\ graceGot'[k] = {}
        /\ \A j \in Keys : j # k => graceGot'[j] = graceGot[j] /\ cache'[j] = cache[j]
    BY <1>1, <1>4 DEF GraceWrite, Store, CopiesFresh, TypeOK
  <2>2. /\ \A t \in Sockets : pc[t] \notin Suspended /\ beat[t] = {} /\ watchdog[t] = {}
        /\ \A j \in Keys : graceGot'[j] = {}
    BY <1>1, <2>1 DEF OneTask
  <2>3. OneTask'
    BY <1>1, <2>2 DEF OneTask
  <2>4. CopiesFresh'
    BY <1>1, <2>2 DEF CopiesFresh, Suspended
  <2>5. cache'[k] = GraceDescriptor(cache[k]) /\ cache[k] \in Descriptors \cup {Absent}
    BY <1>4, <2>1 DEF GraceWrite, Store, TypeOK
  <2>6. /\ cache'[k].connections = cache[k].connections
        /\ cache'[k].status =
             IF cache[k].status = "reconnecting" THEN "offline" ELSE cache[k].status
    <3>1. CASE cache[k] = Absent
      BY <2>5, <3>1 DEF GraceDescriptor, Absent
    <3>2. CASE cache[k] \in Descriptors
      BY <2>5, <3>2 DEF GraceDescriptor, Descriptors
    <3> QED
      BY <2>5, <3>1, <3>2
  <2>7. Backed(k)'
    BY <1>1, <2>1, <2>2, <2>6 DEF Backed, Key, Suspended
  <2>8. \A j \in Keys : j # k => Backed(j)'
    BY <1>1, <2>1, BackedFrame DEF StatusInv
  <2> QED
    BY <2>3, <2>4, <2>7, <2>8 DEF StatusInv
<1> QED
  BY <1>3, <1>4

\* A heartbeat and a watchdog tick: they read, then write with the status they found, or degraded.
LEMMA StatusBeats ==
  ASSUME TypeOK, StatusInv, InlineStorage, NEW s \in Sockets,
         \/ HeartbeatReceived(s) \/ HeartbeatWrite(s)
         \/ HeartbeatMissed(s) \/ WatchdogTick(s) \/ WatchdogWrite(s)
  PROVE  StatusInv'
<1>1. /\ OneTask /\ CopiesFresh /\ Key(s) \in Keys /\ Backed(Key(s))
      /\ UNCHANGED <<pc, got, grace, graceGot>>
  BY KeyTypes DEF StatusInv, HeartbeatReceived, HeartbeatWrite, HeartbeatMissed, WatchdogTick,
                  WatchdogWrite, taskVars
<1>2. ASSUME cache' = cache PROVE \A k \in Keys : Backed(k)'
  BY <1>1, <1>2, BackedFrame DEF StatusInv
<1>3. CASE HeartbeatReceived(s) \/ WatchdogTick(s)
  <2>1. cache' = cache /\ ~Busy /\ pc[s] = "serving"
    BY <1>3 DEF HeartbeatReceived, WatchdogTick, NewTurn
  <2>2. /\ \A t \in Sockets : /\ pc'[t] \notin Suspended /\ beat'[t] \in {{}, {cache[Key(t)]}}
                              /\ watchdog'[t] \in {{}, {cache[Key(t)]}}
                              /\ t # s => beat'[t] = {} /\ watchdog'[t] = {}
        /\ beat'[s] = {} \/ watchdog'[s] = {}
        /\ \A k \in Keys : graceGot'[k] = {}
    BY <1>1, <1>3, <2>1 DEF HeartbeatReceived, WatchdogTick, ReadTo, TypeOK, Busy
  <2>3. OneTask'
    BY <1>1, <2>1, <2>2 DEF OneTask
  <2>4. CopiesFresh'
    BY <1>1, <2>1, <2>2 DEF CopiesFresh, Suspended, Key
  <2> QED
    BY <1>2, <2>1, <2>3, <2>4 DEF StatusInv
<1>4. CASE HeartbeatMissed(s)
  <2>1. UNCHANGED <<cache, beat, watchdog>>
    BY <1>4 DEF HeartbeatMissed, taskVars
  <2>2. OneTask' /\ CopiesFresh'
    BY <1>1, <2>1 DEF OneTask, CopiesFresh, Key
  <2> QED
    BY <1>2, <2>1, <2>2 DEF StatusInv
<1>5. ASSUME \/ beat[s] # {} /\ beat' = [beat EXCEPT ![s] = {}] /\ watchdog' = watchdog
             \/ watchdog[s] # {} /\ watchdog' = [watchdog EXCEPT ![s] = {}] /\ beat' = beat
      PROVE  OneTask' /\ CopiesFresh'
  <2>1. /\ \A t \in Sockets : /\ pc'[t] \notin Suspended
                              /\ beat'[t] = {} /\ watchdog'[t] = {}
        /\ \A k \in Keys : graceGot'[k] = {}
    BY <1>1, <1>5 DEF OneTask, TypeOK
  <2> QED
    BY <1>1, <2>1 DEF OneTask, CopiesFresh, Suspended
<1>6. CASE HeartbeatWrite(s)
  <2>1. beat[s] # {} /\ beat' = [beat EXCEPT ![s] = {}] /\ watchdog' = watchdog
    BY <1>6 DEF HeartbeatWrite
  <2>2. beat[s] = {cache[Key(s)]}
    BY <1>1, <2>1 DEF CopiesFresh
  <2>3. cache' = cache
    BY <1>1, <1>6, <2>2 DEF HeartbeatWrite, Store, TypeOK
  <2> QED
    BY <1>2, <1>5, <2>1, <2>3 DEF StatusInv
<1>7. CASE WatchdogWrite(s)
  <2>1. watchdog[s] # {} /\ watchdog' = [watchdog EXCEPT ![s] = {}] /\ beat' = beat
    BY <1>7 DEF WatchdogWrite
  <2>2. /\ watchdog[s] = {cache[Key(s)]} /\ pc[s] = "serving"
        /\ cache[Key(s)] \in Descriptors \cup {Absent}
    BY <1>1, <2>1 DEF CopiesFresh, OneTask, TypeOK
  <2>3. CASE cache' = cache
    BY <1>2, <1>5, <2>1, <2>3 DEF StatusInv
  <2>4. CASE cache' # cache
    <3>1. /\ cache[Key(s)] \in Descriptors
          /\ cache' = [cache EXCEPT ![Key(s)] = [cache[Key(s)] EXCEPT !.status = "degraded"]]
      BY <1>7, <2>2, <2>4 DEF WatchdogWrite, Store
    <3>2. /\ cache'[Key(s)] = [cache[Key(s)] EXCEPT !.status = "degraded"]
          /\ \A k \in Keys : k # Key(s) => cache'[k] = cache[k]
      BY <1>1, <3>1 DEF TypeOK
    <3>3. /\ cache'[Key(s)].status = "degraded"
          /\ cache'[Key(s)].connections = cache[Key(s)].connections
      BY <3>1, <3>2 DEF Descriptors
    <3>4. Backed(Key(s))'
      BY <1>1, <2>2, <3>3 DEF Backed, Key, Live
    <3>5. \A k \in Keys : k # Key(s) => Backed(k)'
      BY <1>1, <3>2, BackedFrame DEF StatusInv
    <3> QED
      BY <1>5, <2>1, <3>4, <3>5 DEF StatusInv, Key
  <2> QED
    BY <2>3, <2>4
<1> QED
  BY <1>3, <1>4, <1>6, <1>7

\* After a restart with a store every host is offline, or gone.
LEMMA StatusRestart ==
  ASSUME TypeOK, HasStore, NEW cacheSurvives \in BOOLEAN, Restart(cacheSurvives)
  PROVE  StatusInv'
<1>1. /\ \A s \in Sockets : /\ pc'[s] \in {"new", "closed"}
                            /\ beat'[s] = {} /\ watchdog'[s] = {}
      /\ \A k \in Keys : graceGot'[k] = {} /\ ~grace'[k]
  BY DEF Restart
<1>2. OneTask' /\ CopiesFresh'
  BY <1>1 DEF OneTask, CopiesFresh, Suspended
<1>3. \A k \in Keys : cache'[k].status \in {"offline", "absent"} /\ cache'[k].connections = {}
  <2> SUFFICES ASSUME NEW k \in Keys
               PROVE  cache'[k].status \in {"offline", "absent"} /\ cache'[k].connections = {}
    OBVIOUS
  <2>1. CASE cache[k] \in Descriptors
    <3>1. cache'[k] = [cache[k] EXCEPT !.status = "offline", !.connections = {}]
      BY <2>1, KnownHosts DEF Restart, RestoredDescriptor
    <3> QED
      BY <2>1, <3>1 DEF Descriptors
  <2>2. CASE cache[k] = Absent
    BY <2>2 DEF Restart, Absent
  <2> QED
    BY <2>1, <2>2 DEF TypeOK
<1>4. \A k \in Keys : Backed(k)'
  BY <1>1, <1>3 DEF Backed
<1> QED
  BY <1>2, <1>4 DEF StatusInv

\* The gateway starts with no host and no handler.
LEMMA StatusInitInv == Init => StatusInv
<1> SUFFICES ASSUME Init PROVE StatusInv
  OBVIOUS
<1>1. OneTask /\ CopiesFresh
  BY DEF Init, OneTask, CopiesFresh, Suspended
<1>2. \A k \in Keys : Backed(k)
  BY DEF Init, Backed, Absent
<1> QED
  BY <1>1, <1>2 DEF StatusInv

\* With inline storage and a store the invariant is inductive.
LEMMA StatusStepInv ==
  ASSUME InlineStorage, HasStore
  PROVE  TypeOK /\ StatusInv /\ [Next]_vars => StatusInv'
<1> SUFFICES ASSUME TypeOK, StatusInv, [Next]_vars PROVE StatusInv'
  OBVIOUS
<1>1. ASSUME NEW s \in Sockets,
             \/ Upgrade(s) \/ HelloRejected(s) \/ Closed(s) \/ Continue(s)
             \/ \E cs \in SUBSET Capabilities : HelloAccepted(s, cs)
             \/ HeartbeatReceived(s) \/ HeartbeatWrite(s)
             \/ HeartbeatMissed(s) \/ WatchdogTick(s) \/ WatchdogWrite(s)
      PROVE  StatusInv'
  BY <1>1, StatusHandshake, StatusOnline, StatusClose, StatusBeats DEF Continue
<1>2. ASSUME NEW k \in Keys, GraceFired(k) \/ GraceWrite(k) PROVE StatusInv'
  BY <1>2, StatusGrace
<1>3. ASSUME NEW cacheSurvives \in BOOLEAN, Restart(cacheSurvives) PROVE StatusInv'
  BY <1>3, StatusRestart
<1>4. CASE UNCHANGED vars
  <2>1. OneTask' /\ CopiesFresh'
    BY <1>4 DEF vars, StatusInv, OneTask, CopiesFresh, Key
  <2>2. \A k \in Keys : Backed(k)'
    BY <1>4, BackedFrame DEF vars, StatusInv
  <2> QED
    BY <2>1, <2>2 DEF StatusInv
<1> QED
  BY <1>1, <1>2, <1>3, <1>4 DEF Next

\* Between two turns the status of a host tells whether it has a served socket, and a host that
\* waits for its agent has a running timer: setOnline, setOffline, heartbeat, the watchdog and
\* the grace callback of registry.ts and ws-handler.ts, with inline storage and a store.
THEOREM StatusCorrect == ASSUME InlineStorage, HasStore PROVE Spec => []StatusBacked
<1>1. AgentInv /\ StatusInv => StatusBacked
  <2> SUFFICES ASSUME AgentInv, StatusInv, ~Busy, NEW k \in Keys
               PROVE  /\ cache[k].status \in {"online", "degraded"}
                           => \E s \in Sockets : Served(k, s)
                      /\ cache[k].status = "reconnecting" => grace[k]
                      /\ cache[k].status = "online" => ~grace[k]
    BY DEF StatusBacked
  <2>1. /\ Backed(k) /\ cache[k].connections \subseteq Sockets
        /\ graceGot[k] = {} /\ \A s \in Sockets : pc[s] \notin Suspended
    BY ConnectionsTyped DEF AgentInv, StatusInv, Busy
  <2>2. \A s \in Sockets : Key(s) = k /\ pc[s] \in Live => Served(k, s)
    BY <2>1 DEF AgentInv, HandlersOpen, Live, Suspended, Served
  <2> QED
    BY <2>1, <2>2 DEF Backed, Suspended
<1>2. TypeOK /\ StatusInv /\ [Next]_vars => StatusInv'
  BY StatusStepInv
<1>3. Spec => []StatusInv
  BY <1>2, AgentTypeCorrect, StatusInitInv, PTL DEF Spec
<1> QED
  BY <1>1, <1>3, AgentInvariant, PTL
=============================================================================
