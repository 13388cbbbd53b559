----------------------------- MODULE HostCatalog -----------------------------
(***************************************************************************)
(* The catalog of hosts behind /hosts: which hosts exist, in the cache     *)
(* with its indexes and machine tokens, and in the IHostStore of SQLite    *)
(* (hosts/registry: register, get, list, deregister, ensureRegistered,     *)
(* restore; gateway-core: SqliteHostStore).  The status of a host is the   *)
(* subject of AgentConnection; here a descriptor is present or not.        *)
(*                                                                         *)
(* A method of the registry is a program: the storage commands it awaits,  *)
(* one after the other.  A request runs its program one command per step,  *)
(* and the gateway may stop between any two.  With InlineStorage (cache    *)
(* in memory, SQLite in the process) the program of one request runs       *)
(* before any other request is looked at.                                  *)
(***************************************************************************)
EXTENDS Sequences

CONSTANTS
  Calls,          \* requests in progress at the same time
  Hosts,          \* host ids
  JwtHosts,       \* those of JWT clients and static tokens, not from POST /hosts/register
  Namespaces,     \* tenants
  HostNamespace,  \* host -> namespaceId of its registration
  NoHost,         \* a request that is not running
  HasStore,       \* is there a persistent IHostStore beside the cache?
  InlineStorage   \* do cache and store answer within the event-loop turn?

ASSUME CatalogConstants ==
  /\ JwtHosts \subseteq Hosts
  /\ HostNamespace \in [Hosts -> Namespaces]
  /\ NoHost \notin Hosts
  /\ HasStore \in BOOLEAN
  /\ InlineStorage \in BOOLEAN

VARIABLES
  store,         \* hosts with a row in table hosts
  storeTokens,   \* hosts with a row in table host_tokens
  cached,        \* hosts with a descriptor under host:registry:<ns>:<host>
  cachedTokens,  \* hosts with an entry host:token:<machineToken>
  index,         \* host:index:<ns>
  namespaces,    \* host:namespaces
  target,        \* the host a request is about, or NoHost
  todo,          \* the commands a request has still to run
  found,         \* the commands it runs instead when it finds the host
  copy,          \* the host:index or host:namespaces list it read
  agents,        \* hosts with a WebSocket handler in this process
  registered,    \* hosts whose POST /hosts/register was answered
  removed,       \* hosts a DELETE was ever received for
  gone           \* hosts deregistered, with no handshake since

storageVars == <<store, storeTokens, cached, cachedTokens, index, namespaces>>
requestVars == <<target, todo, found, copy>>
historyVars == <<agents, registered, removed, gone>>
vars == <<store, storeTokens, cached, cachedTokens, index, namespaces,
          target, todo, found, copy, agents, registered, removed, gone>>

InNamespace(S, ns) == {h \in S : HostNamespace[h] = ns}

Init ==
  /\ store = {} /\ storeTokens = {} /\ cached = {} /\ cachedTokens = {}
  /\ index = [ns \in Namespaces |-> {}]
  /\ namespaces = {}
  /\ target = [q \in Calls |-> NoHost]
  /\ todo = [q \in Calls |-> << >>]
  /\ found = [q \in Calls |-> << >>]
  /\ copy = [q \in Calls |-> {}]
  /\ agents = {} /\ registered = {} /\ removed = {} /\ gone = {}

-----------------------------------------------------------------------------
\* The programs.  Commands on a store that is not there do nothing.

\* Mutant: the namespace is not tracked.
AddToIndexOnly == <<"index.get", "index.add">>

AddToIndex == <<"index.get", "index.add", "namespaces.get", "namespaces.add">>

\* Mutant: the descriptor is not saved in the store.
RegisterCacheOnly ==
  <<"store.saveToken", "cache.set", "cache.setToken">> \o AddToIndex \o <<"registered">>

Register ==
  <<"store.save", "store.saveToken", "cache.set", "cache.setToken">> \o AddToIndex
    \o <<"registered">>

\* Mutant: the cached descriptor is left alone.
DeregisterStoreOnly ==
  <<"store.deleteTokens", "store.delete", "index.get", "index.remove", "deregistered">>

Deregister ==
  <<"store.deleteTokens", "store.delete", "cache.delete", "index.get", "index.remove",
    "deregistered">>

\* get: the cache, else the store; what the store has is put into the cache.
Get == <<"cache.get", "store.get">>

Warm == <<"cache.set">> \o AddToIndex

\* ensureRegistered for a host that get does not find.
Create == <<"store.save", "cache.set">> \o AddToIndex

\* What is written to a descriptor that exists: nothing, or new capabilities.
Ensured == {<< >>, <<"store.save", "cache.set">>}

\* setOnline, setOffline, the grace timer; heartbeats and the watchdog (cache only).
StatusWrites == {<<"cache.set", "store.save">>, <<"cache.set">>}

Commands == {"store.save", "store.saveToken", "store.get", "store.delete",
             "store.deleteTokens", "cache.get", "cache.set", "cache.setToken",
             "cache.delete", "index.get", "index.add", "index.remove", "namespaces.get",
             "namespaces.add", "registered", "deregistered"}

-----------------------------------------------------------------------------
\* Requests

Idle(q) == todo[q] = << >>
NewTurn == InlineStorage => \A q \in Calls : Idle(q)

Begin(q, h, program, ifFound) ==
  /\ NewTurn
  /\ Idle(q)
  /\ target' = [target EXCEPT ![q] = h]
  /\ todo' = [todo EXCEPT ![q] = program]
  /\ found' = [found EXCEPT ![q] = ifFound]
  /\ copy' = [copy EXCEPT ![q] = {}]
  /\ UNCHANGED storageVars

\* POST /hosts/register: a host id that was never used.
HostsRegister(q, h) ==
  /\ h \notin JwtHosts \cup registered \cup removed \cup store \cup cached
  /\ \A p \in Calls : target[p] # h
  /\ Begin(q, h, Register, << >>)
  /\ UNCHANGED historyVars

HostsDelete(q, h) ==
  /\ Begin(q, h, Deregister, << >>)
  /\ removed' = removed \cup {h}
  /\ UNCHANGED <<agents, registered, gone>>

HostsGet(q, h) ==
  /\ Begin(q, h, Get, << >>)
  /\ UNCHANGED historyVars

(***************************************************************************)
(* The handshake of an agent: ensureRegistered, and then status writes.    *)
(* A machine token is looked up in the cache alone (auth/tokens.ts); the   *)
(* other agents come with a JWT or with a static token of the config.      *)
(***************************************************************************)
AgentConnects(q, h) ==
  /\ h \in JwtHosts \cup cachedTokens
  /\ \E update \in Ensured : Begin(q, h, Get \o Create, update)
  /\ agents' = agents \cup {h}
  /\ gone' = gone \ {h}
  /\ UNCHANGED <<registered, removed>>

StatusWritten(q, h) ==
  /\ h \in agents
  /\ \E write \in StatusWrites : Begin(q, h, <<"cache.get">>, write)
  /\ UNCHANGED historyVars

-----------------------------------------------------------------------------
\* Commands

Run(q, command) ==
  /\ todo[q] # << >>
  /\ Head(todo[q]) = command
  /\ todo' = [todo EXCEPT ![q] = Tail(@)]
  /\ UNCHANGED <<target, found>>

StoreSave(q) ==
  /\ Run(q, "store.save")
  /\ store' = IF HasStore THEN store \cup {target[q]} ELSE store
  /\ UNCHANGED <<historyVars, copy, storeTokens, cached, cachedTokens, index, namespaces>>

StoreSaveToken(q) ==
  /\ Run(q, "store.saveToken")
  /\ storeTokens' = IF HasStore THEN storeTokens \cup {target[q]} ELSE storeTokens
  /\ UNCHANGED <<historyVars, copy, store, cached, cachedTokens, index, namespaces>>

StoreDelete(q) ==
  /\ Run(q, "store.delete")
  /\ store' = store \ {target[q]}
  /\ UNCHANGED <<historyVars, copy, storeTokens, cached, cachedTokens, index, namespaces>>

StoreDeleteTokens(q) ==
  /\ Run(q, "store.deleteTokens")
  /\ storeTokens' = storeTokens \ {target[q]}
  /\ UNCHANGED <<historyVars, copy, store, cached, cachedTokens, index, namespaces>>

CacheSet(q) ==
  /\ Run(q, "cache.set")
  /\ cached' = cached \cup {target[q]}
  /\ UNCHANGED <<historyVars, copy, store, storeTokens, cachedTokens, index, namespaces>>

CacheSetToken(q) ==
  /\ Run(q, "cache.setToken")
  /\ cachedTokens' = cachedTokens \cup {target[q]}
  /\ UNCHANGED <<historyVars, copy, store, storeTokens, cached, index, namespaces>>

CacheDelete(q) ==
  /\ Run(q, "cache.delete")
  /\ cached' = cached \ {target[q]}
  /\ UNCHANGED <<historyVars, copy, store, storeTokens, cachedTokens, index, namespaces>>

\* A lookup that finds the host ends the program with what is left to write.
LookUp(q, command, place, onHit) ==
  /\ todo[q] # << >>
  /\ Head(todo[q]) = command
  /\ todo' = [todo EXCEPT ![q] = IF target[q] \in place THEN onHit ELSE Tail(@)]
  /\ UNCHANGED <<storageVars, historyVars, target, found, copy>>

CacheGet(q) == LookUp(q, "cache.get", cached, found[q])
StoreGet(q) == LookUp(q, "store.get", store, Warm \o found[q])

\* The lists are read and written back with two commands.
ReadIndex(q) ==
  /\ Run(q, "index.get")
  /\ copy' = [copy EXCEPT ![q] = index[HostNamespace[target[q]]]]
  /\ UNCHANGED <<storageVars, historyVars>>

WriteIndex(q, command, list) ==
  /\ Run(q, command)
  /\ index' = [index EXCEPT ![HostNamespace[target[q]]] = list]
  /\ UNCHANGED <<historyVars, copy, store, storeTokens, cached, cachedTokens, namespaces>>

\* No write when the list has the host already.
IndexAdd(q) ==
  WriteIndex(q, "index.add",
    IF target[q] \in copy[q] THEN index[HostNamespace[target[q]]] ELSE copy[q] \cup {target[q]})

IndexRemove(q) == WriteIndex(q, "index.remove", copy[q] \ {target[q]})

ReadNamespaces(q) ==
  /\ Run(q, "namespaces.get")
  /\ copy' = [copy EXCEPT ![q] = namespaces]
  /\ UNCHANGED <<storageVars, historyVars>>

\* Mutant: the host is added to the list of namespaces.
NamespacesAddHost(q) ==
  /\ Run(q, "namespaces.add")
  /\ namespaces' = copy[q] \cup {target[q]}
  /\ UNCHANGED <<historyVars, copy, store, storeTokens, cached, cachedTokens, index>>

NamespacesAdd(q) ==
  /\ Run(q, "namespaces.add")
  /\ namespaces' = IF HostNamespace[target[q]] \in copy[q] THEN namespaces
                   ELSE copy[q] \cup {HostNamespace[target[q]]}
  /\ UNCHANGED <<historyVars, copy, store, storeTokens, cached, cachedTokens, index>>

\* The answers of POST /hosts/register and DELETE /hosts/:hostId.
Registered(q) ==
  /\ Run(q, "registered")
  /\ registered' = registered \cup {target[q]}
  /\ UNCHANGED <<storageVars, copy, agents, removed, gone>>

Deregistered(q) ==
  /\ Run(q, "deregistered")
  /\ gone' = gone \cup {target[q]}
  /\ UNCHANGED <<storageVars, copy, agents, registered, removed>>

-----------------------------------------------------------------------------
(***************************************************************************)
(* The process stops anywhere and starts again.  A cache in memory is lost *)
(* with it, an external one may survive.  restore() puts the hosts of the  *)
(* store into cache and index (its reset of stale statuses is part of      *)
(* AgentConnection); nothing is done about the tokens of the store.        *)
(***************************************************************************)
Restart(cacheSurvives) ==
  /\ cacheSurvives => ~InlineStorage
  /\ cached' = store \cup (IF cacheSurvives THEN cached ELSE {})
  /\ cachedTokens' = IF cacheSurvives THEN cachedTokens ELSE {}
  /\ index' = [ns \in Namespaces |->
       InNamespace(store, ns) \cup (IF cacheSurvives THEN index[ns] ELSE {})]
  /\ namespaces' = {HostNamespace[h] : h \in store}
                     \cup (IF cacheSurvives THEN namespaces ELSE {})
  /\ target' = [q \in Calls |-> NoHost]
  /\ todo' = [q \in Calls |-> << >>]
  /\ found' = [q \in Calls |-> << >>]
  /\ copy' = [q \in Calls |-> {}]
  /\ agents' = {}
  /\ UNCHANGED <<store, storeTokens, registered, removed, gone>>

Step(q) ==
  \/ StoreSave(q) \/ StoreSaveToken(q) \/ StoreDelete(q) \/ StoreDeleteTokens(q)
  \/ CacheSet(q) \/ CacheSetToken(q) \/ CacheDelete(q) \/ CacheGet(q) \/ StoreGet(q)
  \/ ReadIndex(q) \/ IndexAdd(q) \/ IndexRemove(q) \/ ReadNamespaces(q) \/ NamespacesAdd(q)
  \/ Registered(q) \/ Deregistered(q)

Next ==
  \/ \E q \in Calls, h \in Hosts :
       \/ HostsRegister(q, h) \/ HostsDelete(q, h) \/ HostsGet(q, h)
       \/ AgentConnects(q, h) \/ StatusWritten(q, h)
  \/ \E q \in Calls : Step(q)
  \/ \E cacheSurvives \in BOOLEAN : Restart(cacheSurvives)

Spec == Init /\ [][Next]_vars

-----------------------------------------------------------------------------
\* list: the store decides when there is one, else index and cache.
List(ns) == IF HasStore THEN InNamespace(store, ns) ELSE index[ns] \cap cached

\* Type invariant.
TypeOK ==
  /\ store \subseteq Hosts /\ storeTokens \subseteq Hosts
  /\ cached \subseteq Hosts /\ cachedTokens \subseteq Hosts
  /\ index \in [Namespaces -> SUBSET Hosts]
  /\ namespaces \subseteq Namespaces
  /\ target \in [Calls -> Hosts \cup {NoHost}]
  /\ todo \in [Calls -> Seq(Commands)]
  /\ found \in [Calls -> Seq(Commands)]
  /\ copy \in [Calls -> SUBSET (Hosts \cup Namespaces)]
  /\ agents \subseteq Hosts /\ registered \subseteq Hosts
  /\ removed \subseteq Hosts /\ gone \subseteq Hosts

(***************************************************************************)
(* With a persistent store a host whose registration was answered with 201 *)
(* is listed from then on until somebody asks for its removal, across any  *)
(* number of restarts.                                                     *)
(***************************************************************************)
RegisteredIsListed ==
  \A h \in registered \ removed : h \in List(HostNamespace[h])

(***************************************************************************)
(* Between two requests cache and indexes agree: restore's reset of stale  *)
(* hosts and the cache-only list find every cached host by way of          *)
(* host:namespaces and host:index, and no index names a host that is not   *)
(* there, wherever an earlier process was stopped.                         *)
(***************************************************************************)
CacheIsIndexed ==
  (\A q \in Calls : Idle(q)) =>
    /\ \A ns \in Namespaces : index[ns] = InNamespace(cached, ns)
    /\ \A h \in cached : HostNamespace[h] \in namespaces

(***************************************************************************)
(* A deregistered host does not come back by itself, from the cache, from  *)
(* the store, by a status write of a handler that is still running or by a *)
(* restart: only a new handshake of its agent registers it again.          *)
(***************************************************************************)
DeregisteredIsGone ==
  (\A q \in Calls : Idle(q)) => gone \cap (store \cup cached) = {}

(***************************************************************************)
(* "Persists host descriptors and machine tokens across Gateway restarts"  *)
(* (sqlite-host-store.ts:4): the machine token a registration was answered *)
(* with is one an agent can still connect with.                            *)
(***************************************************************************)
MachineTokenAccepted == registered \ removed \subseteq cachedTokens
=============================================================================
