----------------------------- MODULE AuthTokens -----------------------------
(***************************************************************************)
(* AuthService (packages/gateway-auth: service, store, jwt) behind the     *)
(* routes /auth/register, /auth/token and /auth/refresh: client records    *)
(* with their host index, and refresh tokens that are rotated on use, all  *)
(* kept in the cache.                                                      *)
(*                                                                         *)
(* A step is what a request handler does from one await to the next.       *)
(* Signing and verifying a JWT is asynchronous work outside the event      *)
(* loop.  With inlineStorage the cache answers within the turn, as in      *)
(* AgentConnection, and lives in the gateway's memory; without it other    *)
(* requests run between two commands, and it may outlive the gateway.      *)
(***************************************************************************)
CONSTANTS
  Calls,         \* HTTP requests, each handled once
  Agents,        \* client ids; the host id generated with one stands for it
  Namespaces,    \* namespaceId of a registration
  Tokens,        \* refresh tokens: distinct, as each carries a random jti
  None           \* "no entry"

ASSUME TokenConstants ==
  /\ None \notin Agents \cup Namespaces \cup Tokens
  /\ None \notin [host : Agents, namespace : Namespaces]

VARIABLES
  inlineStorage, \* does the cache answer within the event-loop turn? (never changes)
  client,     \* auth:client:<id> -> namespace of the record, or None
  hostIndex,  \* hosts with an auth:hostindex entry
  refresh,    \* auth:refresh:<hash> -> [host, namespace], or None
  step,       \* where the handler of a request is
  about,      \* the agent a request is about, or None
  entry,      \* what the handler read for it: [host, namespace], or None
  presented,  \* the refresh token of a request, or None
  fresh,      \* the refresh token signed for a request, or None
  registered, \* agents that were told their credentials
  held,       \* refresh tokens that were returned to agents
  parent,     \* token -> the token it was exchanged for, or None
  expired,    \* tokens whose 30 days are over
  voided      \* tokens that were held when the cache was lost

vars == <<inlineStorage, client, hostIndex, refresh, step, about, entry, presented, fresh,
          registered, held, parent, expired, voided>>

Entries == [host : Agents, namespace : Namespaces]
Steps == {"idle", "indexing", "signing", "consuming", "saving", "answering", "over", "dropped"}

\* Type invariant: the cache, the handlers and what agents hold.
TypeOK ==
  /\ inlineStorage \in BOOLEAN
  /\ client \in [Agents -> Namespaces \cup {None}]
  /\ hostIndex \subseteq Agents
  /\ refresh \in [Tokens -> Entries \cup {None}]
  /\ step \in [Calls -> Steps]
  /\ about \in [Calls -> Agents \cup {None}]
  /\ entry \in [Calls -> Entries \cup {None}]
  /\ presented \in [Calls -> Tokens \cup {None}]
  /\ fresh \in [Calls -> Tokens \cup {None}]
  /\ registered \subseteq Agents
  /\ held \subseteq Tokens
  /\ parent \in [Tokens -> Tokens \cup {None}]
  /\ expired \subseteq Tokens
  /\ voided \subseteq Tokens

Init ==
  /\ inlineStorage \in BOOLEAN
  /\ client = [a \in Agents |-> None]
  /\ hostIndex = {}
  /\ refresh = [t \in Tokens |-> None]
  /\ step = [q \in Calls |-> "idle"]
  /\ about = [q \in Calls |-> None]
  /\ entry = [q \in Calls |-> None]
  /\ presented = [q \in Calls |-> None]
  /\ fresh = [q \in Calls |-> None]
  /\ registered = {}
  /\ held = {}
  /\ parent = [t \in Tokens |-> None]
  /\ expired = {}
  /\ voided = {}

\* A handler waits for the cache; with inline storage nothing else runs meanwhile.
Busy == \E q \in Calls : step[q] \in {"indexing", "consuming", "answering"}
NewTurn == inlineStorage => ~Busy

Goto(q, from, to) == step[q] = from /\ step' = [step EXCEPT ![q] = to]

\* A token nobody has been given: jti is a random UUID.
Unsigned(t) == \A q \in Calls : fresh[q] # t

\* A client id no request was given, not even one that a crash dropped: it is random too.
Unregistered(a) == \A q \in Calls : about[q] # a

-----------------------------------------------------------------------------
\* POST /auth/register

\* saveClient: the record under a new client id.
RegisterClient(q, a, ns) ==
  /\ NewTurn
  /\ Goto(q, "idle", "indexing")
  /\ Unregistered(a)
  /\ client' = [client EXCEPT ![a] = ns]
  /\ about' = [about EXCEPT ![q] = a]
  /\ UNCHANGED <<inlineStorage, hostIndex, refresh, entry, presented, fresh, registered, held,
                 parent, expired, voided>>

\* Mutant: the answer does not wait for the reverse index.
RegisterUnindexed(q) ==
  /\ Goto(q, "indexing", "over")
  /\ registered' = registered \cup {about[q]}
  /\ UNCHANGED <<inlineStorage, client, hostIndex, refresh, about, entry, presented, fresh, held,
                 parent, expired, voided>>

(***************************************************************************)
(* saveClient: the reverse index; then the answer with the secret.  A      *)
(* public key is stored in between, under a key that nothing reads.        *)
(***************************************************************************)
RegisterIndexed(q) ==
  /\ Goto(q, "indexing", "over")
  /\ hostIndex' = hostIndex \cup {about[q]}
  /\ registered' = registered \cup {about[q]}
  /\ UNCHANGED <<inlineStorage, client, refresh, about, entry, presented, fresh, held, parent,
                 expired, voided>>

-----------------------------------------------------------------------------
\* POST /auth/token

\* verifyClientSecret of an agent that knows its secret; else 401.
VerifyClient(q, a) ==
  /\ NewTurn
  /\ Goto(q, "idle", "signing")
  /\ a \in registered
  /\ client[a] # None
  /\ entry' = [entry EXCEPT ![q] = [host |-> a, namespace |-> client[a]]]
  /\ UNCHANGED <<inlineStorage, client, hostIndex, refresh, about, presented, fresh, registered,
                 held, parent, expired, voided>>

-----------------------------------------------------------------------------
\* POST /auth/refresh

\* verifyRefreshToken: signed by this gateway and not past its expiry.
VerifiedRefreshToken(t) == t \in held \ expired

\* verifyRefreshToken, then the cache.get of consumeRefreshToken; else 401.
FindRefreshToken(q, t) ==
  /\ NewTurn
  /\ Goto(q, "idle", "consuming")
  /\ VerifiedRefreshToken(t)
  /\ refresh[t] # None
  /\ entry' = [entry EXCEPT ![q] = refresh[t]]
  /\ presented' = [presented EXCEPT ![q] = t]
  /\ UNCHANGED <<inlineStorage, client, hostIndex, refresh, about, fresh, registered, held,
                 parent, expired, voided>>

\* Mutant: the old token is not deleted.
KeepRefreshToken(q) ==
  /\ Goto(q, "consuming", "signing")
  /\ UNCHANGED <<inlineStorage, client, hostIndex, refresh, about, entry, presented, fresh,
                 registered, held, parent, expired, voided>>

\* The cache.delete of consumeRefreshToken.
ConsumeRefreshToken(q) ==
  /\ Goto(q, "consuming", "signing")
  /\ refresh' = [refresh EXCEPT ![presented[q]] = None]
  /\ UNCHANGED <<inlineStorage, client, hostIndex, about, entry, presented, fresh, registered,
                 held, parent, expired, voided>>

-----------------------------------------------------------------------------
\* Both: sign a pair, save the refresh token, answer.

SignTokens(q, t) ==
  /\ NewTurn
  /\ Goto(q, "signing", "saving")
  /\ Unsigned(t)
  /\ fresh' = [fresh EXCEPT ![q] = t]
  /\ parent' = [parent EXCEPT ![t] = presented[q]]
  /\ UNCHANGED <<inlineStorage, client, hostIndex, refresh, about, entry, presented, registered,
                 held, expired, voided>>

\* Mutant: the entry is saved for the token that was presented, not for the new one.
SaveOldToken(q) ==
  /\ NewTurn
  /\ Goto(q, "saving", "answering")
  /\ refresh' = IF presented[q] # None THEN [refresh EXCEPT ![presented[q]] = entry[q]]
                                       ELSE [refresh EXCEPT ![fresh[q]] = entry[q]]
  /\ UNCHANGED <<inlineStorage, client, hostIndex, about, entry, presented, fresh, registered,
                 held, parent, expired, voided>>

\* Mutant: only the host id is saved.
SaveHostOnly(q) ==
  /\ NewTurn
  /\ Goto(q, "saving", "answering")
  /\ refresh' = [refresh EXCEPT ![fresh[q]] = entry[q].host]
  /\ UNCHANGED <<inlineStorage, client, hostIndex, about, entry, presented, fresh, registered,
                 held, parent, expired, voided>>

\* saveRefreshToken
SaveRefreshToken(q) ==
  /\ NewTurn
  /\ Goto(q, "saving", "answering")
  /\ refresh' = [refresh EXCEPT ![fresh[q]] = entry[q]]
  /\ UNCHANGED <<inlineStorage, client, hostIndex, about, entry, presented, fresh, registered,
                 held, parent, expired, voided>>

Answer(q) ==
  /\ Goto(q, "answering", "over")
  /\ held' = held \cup {fresh[q]}
  /\ UNCHANGED <<inlineStorage, client, hostIndex, refresh, about, entry, presented, fresh,
                 registered, parent, expired, voided>>

-----------------------------------------------------------------------------
\* The JWT and the cache entry of a token run out together.
Expire(t) ==
  /\ NewTurn
  /\ refresh[t] # None
  /\ expired' = expired \cup {t}
  /\ refresh' = [refresh EXCEPT ![t] = None]
  /\ UNCHANGED <<inlineStorage, client, hostIndex, step, about, entry, presented, fresh,
                 registered, held, parent, voided>>

(***************************************************************************)
(* The gateway crashes and starts again.  Its requests are dropped.  A     *)
(* cache in its memory is gone, with the client records and the tokens:    *)
(* nothing of AuthStore is kept elsewhere.  An external cache may survive. *)
(***************************************************************************)
Restart(cacheSurvives) ==
  /\ cacheSurvives => ~inlineStorage
  /\ step' = [q \in Calls |-> IF step[q] \in {"idle", "over"} THEN step[q] ELSE "dropped"]
  /\ IF cacheSurvives
     THEN UNCHANGED <<client, hostIndex, refresh, voided>>
     ELSE /\ client' = [a \in Agents |-> None]
          /\ hostIndex' = {}
          /\ refresh' = [t \in Tokens |-> None]
          /\ voided' = voided \cup held
  /\ UNCHANGED <<inlineStorage, about, entry, presented, fresh, registered, held, parent,
                 expired>>

Next ==
  \/ \E q \in Calls :
       \/ \E a \in Agents, ns \in Namespaces : RegisterClient(q, a, ns)
       \/ RegisterIndexed(q)
       \/ \E a \in Agents : VerifyClient(q, a)
       \/ \E t \in Tokens : FindRefreshToken(q, t) \/ SignTokens(q, t)
       \/ ConsumeRefreshToken(q) \/ SaveRefreshToken(q) \/ Answer(q)
  \/ \E t \in Tokens : Expire(t)
  \/ \E cacheSurvives \in BOOLEAN : Restart(cacheSurvives)

Spec == Init /\ [][Next]_vars

-----------------------------------------------------------------------------
(***************************************************************************)
(* What a token says of its bearer stays true: the host of every stored    *)
(* refresh token, through any number of rotations, is the one of a client  *)
(* record in that same namespace which getClientByHostId can find, so the  *)
(* agent handler takes its capabilities from the record.                   *)
(***************************************************************************)
TokensResolve ==
  \A t \in Tokens : refresh[t] # None =>
    /\ refresh[t].host \in hostIndex
    /\ client[refresh[t].host] = refresh[t].namespace

\* verifyClientSecret accepts the secret that the agent was told at its registration.
CanLogIn(a) == a \in registered /\ client[a] # None

(***************************************************************************)
(* An agent with a refresh token is never shut out while the cache lives,  *)
(* whatever other requests do and wherever a crash hits them: the token is *)
(* stored until it expires or is presented; once presented, the new one    *)
(* was handed out, or the exchange is under way or was dropped by a crash  *)
(* that may have eaten both, and then the agent can log in with its        *)
(* secret.  Losing the cache itself voids every token and every secret.    *)
(***************************************************************************)
HeldTokensWork ==
  \A t \in held \ (expired \cup voided) :
    \/ refresh[t] # None
    \/ \E q \in Calls :
         /\ presented[q] = t
         /\ IF step[q] = "over" THEN fresh[q] \in held ELSE CanLogIn(entry[q].host)

(***************************************************************************)
(* "new token pair; old refreshToken invalidated" (README.md:191): with    *)
(* storage that answers within the turn a refresh token is exchanged at    *)
(* most once, and after the exchange it is not valid any more.             *)
(***************************************************************************)
RotatedOnce ==
  inlineStorage =>
    /\ \A t, u \in Tokens : parent[t] # None /\ parent[t] = parent[u] => t = u
    /\ \A t \in Tokens : parent[t] # None => refresh[parent[t]] = None
=============================================================================
