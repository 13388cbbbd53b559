-------------------------- MODULE AgentConnection --------------------------
(***************************************************************************)
(* The life of an agent WebSocket (apps/gateway-app/src/hosts/ws-handler)  *)
(* and of the status HostRegistry keeps for its host in the cache          *)
(* (hosts/registry: ensureRegistered, setOnline, setOffline, heartbeat and *)
(* the reconnect grace timer, restore), over the dispatcher's tables.      *)
(*                                                                         *)
(* A step is what the gateway runs from one await to the next.  A cache    *)
(* command takes effect when it is issued, since the cache client sends    *)
(* its commands in order; its answer is used in a later step, where it may *)
(* be stale.  So cache.get leaves a copy of the descriptor in the handler, *)
(* and the handler's cache.set writes what it computed from that copy.     *)
(*                                                                         *)
(* With InlineStorage cache and store answer without I/O (in-memory cache, *)
(* in-process SQLite): their awaits are microtasks, which run before any   *)
(* other socket event or timer.  Without it other handlers interleave.     *)
(***************************************************************************)
EXTENDS HostRouting

CONSTANTS
  Owner,          \* socket -> <<namespaceId, hostId>> of its machine token
  InlineStorage,  \* do cache and store answer within the event-loop turn?
  HasStore        \* is there a persistent IHostStore beside the cache?

ASSUME AgentConstants ==
  /\ Owner \in [Sockets -> Namespaces \X Hosts]
  /\ InlineStorage \in BOOLEAN
  /\ HasStore \in BOOLEAN

VARIABLES
  pc,        \* where the handler of a socket is
  wire,      \* is the WebSocket open?
  caps,      \* the capabilities the handler registers the host with
  got,       \* descriptor the handler read: {} or a singleton
  beat,      \* descriptor a heartbeat message read: {} or a singleton
  watchdog,  \* descriptor a watchdog tick read: {} or a singleton
  silent,    \* no heartbeat on the socket for more than 40 seconds
  cache,     \* host:registry:<namespace>:<host>
  grace,     \* is the host's reconnect grace timer armed?
  graceGot   \* descriptor a grace callback read: {} or a singleton

taskVars == <<got, beat, watchdog, graceGot>>
vars == <<connections, capabilityIndex, pc, wire, caps, got, beat, watchdog, silent, cache,
          grace, graceGot>>

Keys == Namespaces \X Hosts
Statuses == {"online", "offline", "degraded", "reconnecting"}
Absent == [status |-> "absent", connections |-> {}, capabilities |-> {}]
\* A connection id stands for its socket.
Descriptors == [status : Statuses, connections : SUBSET Sockets,
                capabilities : SUBSET Capabilities]

\* Points at which a handler waits for cache or store.
Suspended == {"client", "ensure", "ensured", "online", "set", "flush", "closing", "offline"}
PCs == Suspended \cup {"new", "hello", "rejected", "serving", "closed"}

TypeOK ==
  /\ RoutingTypeOK
  /\ pc \in [Sockets -> PCs]
  /\ wire \in [Sockets -> {"open", "closed"}]
  /\ caps \in [Sockets -> SUBSET Capabilities]
  /\ got \in [Sockets -> SUBSET (Descriptors \cup {Absent})]
  /\ beat \in [Sockets -> SUBSET (Descriptors \cup {Absent})]
  /\ watchdog \in [Sockets -> SUBSET (Descriptors \cup {Absent})]
  /\ silent \in [Sockets -> BOOLEAN]
  /\ cache \in [Keys -> Descriptors \cup {Absent}]
  /\ grace \in [Keys -> BOOLEAN]
  /\ graceGot \in [Keys -> SUBSET (Descriptors \cup {Absent})]

Init ==
  /\ RoutingInit
  /\ pc = [s \in Sockets |-> "new"]
  /\ wire = [s \in Sockets |-> "closed"]
  /\ caps = [s \in Sockets |-> {}]
  /\ got = [s \in Sockets |-> {}]
  /\ beat = [s \in Sockets |-> {}]
  /\ watchdog = [s \in Sockets |-> {}]
  /\ silent = [s \in Sockets |-> FALSE]
  /\ cache = [k \in Keys |-> Absent]
  /\ grace = [k \in Keys |-> FALSE]
  /\ graceGot = [k \in Keys |-> {}]

Key(s) == Owner[s]
Goto(s, from, to) == pc[s] = from /\ pc' = [pc EXCEPT ![s] = to]
ReadTo(f, x, k) == [f EXCEPT ![x] = {cache[k]}]
Store(k, d) == cache' = [cache EXCEPT ![k] = d]

Busy ==
  \/ \E s \in Sockets : pc[s] \in Suspended \/ beat[s] # {} \/ watchdog[s] # {}
  \/ \E k \in Keys : graceGot[k] # {}

\* A socket event or a timer starts a new turn of the event loop.
NewTurn == InlineStorage => ~Busy

-----------------------------------------------------------------------------
\* Handshake

Upgrade(s) ==
  /\ NewTurn
  /\ Goto(s, "new", "hello")
  /\ wire' = [wire EXCEPT ![s] = "open"]
  /\ UNCHANGED <<routingVars, taskVars, caps, silent, cache, grace>>

\* Bad token, hello timeout, malformed hello or unsupported protocol version.
HelloRejected(s) ==
  /\ NewTurn
  /\ Goto(s, "hello", "rejected")
  /\ wire' = [wire EXCEPT ![s] = "closed"]
  /\ UNCHANGED <<routingVars, taskVars, caps, silent, cache, grace>>

\* A valid hello; the capabilities come from it or from the client record.
HelloAccepted(s, cs) ==
  /\ NewTurn
  /\ wire[s] = "open"
  /\ Goto(s, "hello", "client")
  /\ caps' = [caps EXCEPT ![s] = cs]
  /\ UNCHANGED <<routingVars, taskVars, wire, silent, cache, grace>>

\* ensureRegistered
EnsureRead(s) ==
  /\ Goto(s, "client", "ensure")
  /\ got' = ReadTo(got, s, Key(s))
  /\ UNCHANGED <<routingVars, wire, caps, beat, watchdog, silent, cache, grace, graceGot>>

EnsureWrite(s) ==
  /\ Goto(s, "ensure", "ensured")
  /\ \E d \in got[s] :
       \/ /\ d = Absent
          /\ Store(Key(s), [status |-> "offline", connections |-> {}, capabilities |-> caps[s]])
       \/ /\ d # Absent
          /\ IF caps[s] # {} /\ d.capabilities # caps[s]
               THEN Store(Key(s), [d EXCEPT !.capabilities = caps[s]])
               ELSE UNCHANGED cache
  /\ got' = [got EXCEPT ![s] = {}]
  /\ UNCHANGED <<routingVars, wire, caps, beat, watchdog, silent, grace, graceGot>>

-----------------------------------------------------------------------------
\* setOnline

OnlineRead(s) ==
  /\ Goto(s, "ensured", "online")
  /\ got' = ReadTo(got, s, Key(s))
  /\ UNCHANGED <<routingVars, wire, caps, beat, watchdog, silent, cache, grace, graceGot>>

\* Mutant: the grace timer of the previous connection is not cancelled.
OnlineWriteKeepingTimer(s) ==
  /\ Goto(s, "online", "set")
  /\ \E d \in got[s] :
       IF d = Absent
         THEN UNCHANGED <<cache, grace>>
         ELSE /\ Store(Key(s), [d EXCEPT !.status = "online", !.connections = {s}])
              /\ UNCHANGED grace
  /\ got' = [got EXCEPT ![s] = {}]
  /\ UNCHANGED <<routingVars, wire, caps, beat, watchdog, silent, graceGot>>

\* Cancel the grace timer, then write; the connection list is replaced.
OnlineWrite(s) ==
  /\ Goto(s, "online", "set")
  /\ \E d \in got[s] :
       IF d = Absent
         THEN UNCHANGED <<cache, grace>>
         ELSE /\ Store(Key(s), [d EXCEPT !.status = "online", !.connections = {s}])
              /\ grace' = [grace EXCEPT ![Key(s)] = FALSE]
  /\ got' = [got EXCEPT ![s] = {}]
  /\ UNCHANGED <<routingVars, wire, caps, beat, watchdog, silent, graceGot>>

\* registerConnection and the 'connected' message, then buffer.flush is awaited.
Registered(s) ==
  /\ Goto(s, "set", "flush")
  /\ RegisterConnection(Key(s)[2], Key(s)[1], s, caps[s])
  /\ UNCHANGED <<taskVars, wire, caps, silent, cache, grace>>

\* Watchdog interval and the message and close listeners.
Attached(s) ==
  /\ Goto(s, "flush", "serving")
  /\ silent' = [silent EXCEPT ![s] = FALSE]
  /\ UNCHANGED <<routingVars, taskVars, wire, caps, cache, grace>>

-----------------------------------------------------------------------------
\* Close, setOffline and the grace timer

\* Mutant: the close listener forgets globalDispatcher.removeConnection.
ClosedKeepingRoute(s) ==
  /\ NewTurn
  /\ wire[s] = "open"
  /\ wire' = [wire EXCEPT ![s] = "closed"]
  /\ IF pc[s] = "serving"
       THEN /\ pc' = [pc EXCEPT ![s] = "closing"]
            /\ got' = ReadTo(got, s, Key(s))
       ELSE UNCHANGED <<pc, got>>
  /\ UNCHANGED <<routingVars, caps, beat, watchdog, silent, cache, grace, graceGot>>

(***************************************************************************)
(* The socket closes.  The close listener exists from "serving" on: then   *)
(* the host is removed from the dispatcher and setOffline reads the        *)
(* descriptor.  Earlier the event passes unnoticed.  The executions the    *)
(* listener cancels in this step are those of ExecutionContour!HostClosed. *)
(***************************************************************************)
Closed(s) ==
  /\ NewTurn
  /\ wire[s] = "open"
  /\ wire' = [wire EXCEPT ![s] = "closed"]
  /\ IF pc[s] = "serving"
       THEN /\ pc' = [pc EXCEPT ![s] = "closing"]
            /\ RemoveConnection(Key(s)[2], Key(s)[1])
            /\ got' = ReadTo(got, s, Key(s))
       ELSE UNCHANGED <<routingVars, pc, got>>
  /\ UNCHANGED <<caps, beat, watchdog, silent, cache, grace, graceGot>>

\* Mutant: the state of the socket is written as the status of the host.
OfflineWithSocketState(s, d) ==
  [d EXCEPT !.connections = @ \ {s}, !.status = wire[s]]

\* What setOffline writes.
OfflineDescriptor(s, d) ==
  LET others == d.connections \ {s}
  IN  [d EXCEPT !.connections = others,
                !.status = IF others # {} THEN "online" ELSE "reconnecting"]

\* A host that is gone from the cache, or still has a connection, is done with.
OfflineWrite(s) ==
  /\ pc[s] = "closing"
  /\ \E d \in got[s] :
       IF d = Absent
         THEN pc' = [pc EXCEPT ![s] = "closed"] /\ UNCHANGED cache
         ELSE /\ Store(Key(s), OfflineDescriptor(s, d))
              /\ pc' = [pc EXCEPT ![s] =
                   IF OfflineDescriptor(s, d).status = "online" THEN "closed" ELSE "offline"]
  /\ got' = [got EXCEPT ![s] = {}]
  /\ UNCHANGED <<routingVars, wire, caps, beat, watchdog, silent, grace, graceGot>>

\* Mutant: the timer of setOffline is not started.
GraceNotArmed(s) ==
  /\ Goto(s, "offline", "closed")
  /\ UNCHANGED <<routingVars, taskVars, wire, caps, silent, cache, grace>>

\* After the awaits of cache.set and store.save: (re)start the timer.
GraceArmed(s) ==
  /\ Goto(s, "offline", "closed")
  /\ grace' = [grace EXCEPT ![Key(s)] = TRUE]
  /\ UNCHANGED <<routingVars, taskVars, wire, caps, silent, cache>>

\* The timer's callback: one at a time per host.
GraceFired(k) ==
  /\ NewTurn
  /\ grace[k]
  /\ graceGot[k] = {}
  /\ grace' = [grace EXCEPT ![k] = FALSE]
  /\ graceGot' = ReadTo(graceGot, k, k)
  /\ UNCHANGED <<routingVars, pc, wire, caps, got, beat, watchdog, silent, cache>>

\* What the callback writes; the descriptor as read when it writes nothing.
GraceDescriptor(d) ==
  IF d.status = "reconnecting" THEN [d EXCEPT !.status = "offline"] ELSE d

GraceWrite(k) ==
  /\ \E d \in graceGot[k] :
       IF GraceDescriptor(d) # d THEN Store(k, GraceDescriptor(d)) ELSE UNCHANGED cache
  /\ graceGot' = [graceGot EXCEPT ![k] = {}]
  /\ UNCHANGED <<routingVars, pc, wire, caps, got, beat, watchdog, silent, grace>>

-----------------------------------------------------------------------------
\* Heartbeats and the watchdog

HeartbeatReceived(s) ==
  /\ NewTurn
  /\ pc[s] = "serving"
  /\ wire[s] = "open"
  /\ beat[s] = {}
  /\ silent' = [silent EXCEPT ![s] = FALSE]
  /\ beat' = ReadTo(beat, s, Key(s))
  /\ UNCHANGED <<routingVars, pc, wire, caps, got, watchdog, cache, grace, graceGot>>

\* registry.heartbeat writes the descriptor it read, with a new lastSeen.
HeartbeatWrite(s) ==
  /\ \E d \in beat[s] : IF d # Absent THEN Store(Key(s), d) ELSE UNCHANGED cache
  /\ beat' = [beat EXCEPT ![s] = {}]
  /\ UNCHANGED <<routingVars, pc, wire, caps, got, watchdog, silent, grace, graceGot>>

\* More than 40 seconds pass on a served socket without a heartbeat.
HeartbeatMissed(s) ==
  /\ NewTurn
  /\ pc[s] = "serving"
  /\ ~silent[s]
  /\ silent' = [silent EXCEPT ![s] = TRUE]
  /\ UNCHANGED <<routingVars, taskVars, pc, wire, caps, cache, grace>>

WatchdogTick(s) ==
  /\ NewTurn
  /\ pc[s] = "serving"
  /\ silent[s]
  /\ watchdog[s] = {}
  /\ watchdog' = ReadTo(watchdog, s, Key(s))
  /\ UNCHANGED <<routingVars, pc, wire, caps, got, beat, silent, cache, grace, graceGot>>

WatchdogWrite(s) ==
  /\ \E d \in watchdog[s] :
       IF d # Absent /\ d.status # "degraded"
         THEN Store(Key(s), [d EXCEPT !.status = "degraded"])
         ELSE UNCHANGED cache
  /\ watchdog' = [watchdog EXCEPT ![s] = {}]
  /\ UNCHANGED <<routingVars, pc, wire, caps, got, beat, silent, grace, graceGot>>

-----------------------------------------------------------------------------
(***************************************************************************)
(* The process restarts and runs registry.restore() before it listens:     *)
(* sockets, timers and the dispatcher are gone, and the cache too unless   *)
(* it is an external one.  resetStaleHosts resets online and reconnecting  *)
(* hosts of the cache; the store, if any, then restores all as offline.    *)
(***************************************************************************)
RestoredDescriptor(d) ==
  IF HasStore \/ d.status \in {"online", "reconnecting"}
    THEN [d EXCEPT !.status = "offline", !.connections = {}]
    ELSE d

Restart(cacheSurvives) ==
  /\ connections' = [ns \in Namespaces |-> [h \in Hosts |-> NoSocket]]
  /\ capabilityIndex' = [ns \in Namespaces |-> [c \in Capabilities |-> {}]]
  /\ pc' = [s \in Sockets |-> IF pc[s] = "new" THEN "new" ELSE "closed"]
  /\ wire' = [s \in Sockets |-> "closed"]
  /\ got' = [s \in Sockets |-> {}]
  /\ beat' = [s \in Sockets |-> {}]
  /\ watchdog' = [s \in Sockets |-> {}]
  /\ cache' = [k \in Keys |->
                 IF cache[k] # Absent /\ (cacheSurvives \/ HasStore)
                   THEN RestoredDescriptor(cache[k]) ELSE Absent]
  /\ grace' = [k \in Keys |-> FALSE]
  /\ graceGot' = [k \in Keys |-> {}]
  /\ UNCHANGED <<caps, silent>>

-----------------------------------------------------------------------------
\* Steps that follow an await.
Continue(s) ==
  \/ EnsureRead(s) \/ EnsureWrite(s) \/ OnlineRead(s) \/ OnlineWrite(s)
  \/ Registered(s) \/ Attached(s) \/ OfflineWrite(s) \/ GraceArmed(s)

Next ==
  \/ \E s \in Sockets :
       \/ Upgrade(s) \/ HelloRejected(s) \/ Closed(s) \/ Continue(s)
       \/ \E cs \in SUBSET Capabilities : HelloAccepted(s, cs)
       \/ HeartbeatReceived(s) \/ HeartbeatWrite(s)
       \/ HeartbeatMissed(s) \/ WatchdogTick(s) \/ WatchdogWrite(s)
  \/ \E k \in Keys : GraceFired(k) \/ GraceWrite(k)
  \/ \E cacheSurvives \in BOOLEAN : Restart(cacheSurvives)

(***************************************************************************)
(* Fairness: awaited cache and store operations are answered, and timers   *)
(* that stay armed fire, however busy the event loop is.  Agents need not  *)
(* do anything.                                                            *)
(***************************************************************************)
Fairness ==
  /\ \A s \in Sockets :
       /\ WF_vars(Continue(s)) /\ WF_vars(HeartbeatWrite(s)) /\ WF_vars(WatchdogWrite(s))
       /\ SF_vars(HelloRejected(s))
  /\ \A k \in Keys : WF_vars(GraceWrite(k)) /\ SF_vars(GraceFired(k))

Spec == Init /\ [][Next]_vars
FairSpec == Spec /\ Fairness

-----------------------------------------------------------------------------
Served(k, s) == Key(s) = k /\ pc[s] = "serving" /\ wire[s] = "open"

(***************************************************************************)
(* A host is shown as online or degraded only while one of its sockets is  *)
(* open and served; while it is reconnecting its grace timer runs, and an  *)
(* online host has none that could take it offline (between two turns).    *)
(***************************************************************************)
StatusBacked ==
  ~Busy => \A k \in Keys :
    /\ cache[k].status \in {"online", "degraded"} => \E s \in Sockets : Served(k, s)
    /\ cache[k].status = "reconnecting" => grace[k]
    /\ cache[k].status = "online" => ~grace[k]

(***************************************************************************)
(* The dispatcher routes the calls of a host to a socket whose token names *)
(* that host and whose handler has registered it and not yet seen it       *)
(* close, however the handlers of several sockets interleave.              *)
(***************************************************************************)
RoutesAreServed ==
  \A ns \in Namespaces, h \in Hosts : Connected(ns, h) =>
    LET s == connections[ns][h]
    IN  Key(s) = <<ns, h>> /\ pc[s] \in {"flush", "serving"}

(***************************************************************************)
(* With inline storage the dispatcher never routes to a closed socket.     *)
(***************************************************************************)
RoutesAreOpen ==
  \A ns \in Namespaces, h \in Hosts :
    Connected(ns, h) => wire[connections[ns][h]] = "open"

(***************************************************************************)
(* "After grace period, mark truly offline" (registry.ts:156): a host all  *)
(* of whose sockets are gone ends up offline, unless one comes back.       *)
(***************************************************************************)
LostHostGoesOffline ==
  \A k \in Keys :
    (cache[k] # Absent /\ \A s \in Sockets : Key(s) = k => wire[s] = "closed")
      ~> (cache[k].status = "offline" \/ \E s \in Sockets : Key(s) = k /\ wire[s] = "open")

(***************************************************************************)
(* "Other connections still active - stay online" (registry.ts:137): when  *)
(* the registry keeps a host online after one of its sockets closed, calls *)
(* can still be routed to it.                                              *)
(***************************************************************************)
OnlineIsRoutable ==
  ~Busy => \A k \in Keys : cache[k].status = "online" => Connected(k[1], k[2])
=============================================================================
