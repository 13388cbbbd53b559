------------------------- MODULE AuthTokens_proofs -------------------------
(***************************************************************************)
(* Proofs about AuthTokens, for any number of requests, agents, namespaces *)
(* and tokens, and for restarts that keep or lose the cache.  What a token *)
(* says, and that its holder is not shut out, is proved for either kind of *)
(* storage; that a token is exchanged at most once for a cache that        *)
(* answers within the turn.                                                *)
(***************************************************************************)
EXTENDS AuthTokens, TLAPS

-----------------------------------------------------------------------------
\* The inductive invariant

\* What the handler of a request knows where it is suspended.
HandlerKnows(q) ==
  /\ step[q] = "idle" => about[q] = None
  /\ step[q] \in {"idle", "indexing"} => presented[q] = None /\ fresh[q] = None
  /\ step[q] = "indexing" => about[q] # None /\ client[about[q]] # None
  /\ step[q] = "consuming" => presented[q] # None
  /\ step[q] \in {"consuming", "signing"} => fresh[q] = None
  /\ step[q] \in {"saving", "answering"} => fresh[q] # None
  /\ step[q] = "answering" => refresh[fresh[q]] # None \/ fresh[q] \in expired
  /\ step[q] = "over" /\ presented[q] # None => fresh[q] \in held

\* A host that can be found has a client record, and a record whose secret was told can
\* be found; neither a record nor a secret is there for a client id that is still unused.
RecordsComplete ==
  /\ \A a \in hostIndex : client[a] # None
  /\ \A a \in registered : client[a] # None => a \in hostIndex
  /\ \A a \in Agents : a \in registered \/ client[a] # None => ~Unregistered(a)

\* The record an entry was read from is still there and its agent knows the secret.
Resolves(e) ==
  /\ e \in Entries
  /\ e.host \in registered
  /\ client[e.host] = e.namespace

\* A handler that works on an entry, or was working on one for a token that is not void.
Relies(q) ==
  \/ step[q] \in {"consuming", "signing", "saving"}
  \/ presented[q] # None /\ presented[q] \notin voided

\* What a handler read of a client or of a token is still what is recorded.
EntriesResolve ==
  /\ \A q \in Calls : Relies(q) => Resolves(entry[q])
  /\ \A t \in Tokens : refresh[t] # None => Resolves(refresh[t])

\* A token is signed for one request, and held once that was answered.
TokensSigned ==
  /\ \A p, q \in Calls : fresh[p] # None /\ fresh[p] = fresh[q] => p = q
  /\ \A t \in held : \E q \in Calls : fresh[q] = t /\ step[q] = "over"
  /\ \A q \in Calls : presented[q] # None => presented[q] \in held

\* A request that signs a token has used up the one it was presented with.
RefreshUsed ==
  /\ \A q \in Calls :
       presented[q] # None /\ (step[q] = "signing" \/ fresh[q] # None) => refresh[presented[q]] = None
  /\ \A t \in Tokens : parent[t] # None =>
       \E q \in Calls : fresh[q] = t /\ presented[q] = parent[t]

\* A request that will exchange, or has exchanged, the token it was presented with.
Claims(q) ==
  presented[q] # None /\ (step[q] \in {"consuming", "signing"} \/ fresh[q] # None)

ClaimedOnce ==
  inlineStorage =>
    \A p, q \in Calls : Claims(p) /\ Claims(q) /\ presented[p] = presented[q] => p = q

HandlersKnow == \A q \in Calls : HandlerKnows(q)

AuthInv ==
  /\ TypeOK /\ HandlersKnow
  /\ RecordsComplete /\ EntriesResolve /\ HeldTokensWork
  /\ TokensSigned /\ RefreshUsed /\ ClaimedOnce

-----------------------------------------------------------------------------
\* The steps

\* The initial state.
LEMMA AuthInitInv == Init => AuthInv
  BY TokenConstants DEF Init, AuthInv, TypeOK, HandlersKnow, HandlerKnows, RecordsComplete,
    EntriesResolve, Relies, HeldTokensWork, TokensSigned, RefreshUsed, Claims, ClaimedOnce,
    Entries, Steps

\* A client id is new: no record that an entry, a token or the index refers to changes.
LEMMA RegisterClientInv ==
  ASSUME AuthInv, NEW q \in Calls, NEW a \in Agents, NEW ns \in Namespaces, RegisterClient(q, a, ns)
  PROVE  AuthInv'
<1> USE TokenConstants DEF AuthInv, TypeOK, Entries, RegisterClient, Goto
<1>0. a \notin registered /\ client[a] = None
  BY DEF RecordsComplete
<1>1. TypeOK'  BY DEF Steps
<1>2. HandlersKnow'  BY DEF HandlersKnow, HandlerKnows
<1>3. RecordsComplete'
  <2>1. (\A b \in hostIndex : client[b] # None)'
    BY DEF RecordsComplete
  <2>2. (\A b \in registered : client[b] # None => b \in hostIndex)'
    BY <1>0 DEF RecordsComplete
  <2>3. ASSUME NEW b \in Agents, b \in registered \/ client'[b] # None
        PROVE  ~Unregistered(b)'
    <3>1. CASE b = a
      BY <3>1 DEF Unregistered
    <3>2. CASE b # a
      <4>1. PICK p \in Calls : about[p] = b
        BY <2>3, <3>2 DEF RecordsComplete, Unregistered
      <4>2. p # q
        BY <4>1 DEF HandlersKnow, HandlerKnows
      <4> QED  BY <4>1, <4>2 DEF Unregistered
    <3> QED  BY <3>1, <3>2
  <2> QED  BY <2>1, <2>2, <2>3 DEF RecordsComplete
<1>4. EntriesResolve'  BY <1>0 DEF HandlersKnow, HandlerKnows, EntriesResolve, Relies, Resolves
<1>5. HeldTokensWork'  BY <1>0 DEF HandlersKnow, HandlerKnows, HeldTokensWork, CanLogIn
<1>6. TokensSigned'  BY DEF HandlersKnow, HandlerKnows, TokensSigned
<1>7. RefreshUsed'  BY DEF HandlersKnow, HandlerKnows, RefreshUsed
<1>8. ClaimedOnce'  BY DEF HandlersKnow, HandlerKnows, ClaimedOnce, Claims
<1> QED  BY <1>1, <1>2, <1>3, <1>4, <1>5, <1>6, <1>7, <1>8

\* The index gets a host that has its record.
LEMMA RegisterIndexedInv ==
  ASSUME AuthInv, NEW q \in Calls, RegisterIndexed(q)
  PROVE  AuthInv'
<1> USE TokenConstants DEF AuthInv, TypeOK, Entries, RegisterIndexed, Goto
<1>1. TypeOK'  BY DEF Steps, HandlersKnow, HandlerKnows
<1>2. HandlersKnow'  BY DEF HandlersKnow, HandlerKnows
<1>3. RecordsComplete'  BY DEF HandlersKnow, HandlerKnows, RecordsComplete, Unregistered
<1>4. EntriesResolve'  BY DEF HandlersKnow, HandlerKnows, EntriesResolve, Relies, Resolves
<1>5. HeldTokensWork'  BY DEF HandlersKnow, HandlerKnows, HeldTokensWork, CanLogIn
<1>6. TokensSigned'  BY DEF HandlersKnow, HandlerKnows, TokensSigned
<1>7. RefreshUsed'  BY DEF HandlersKnow, HandlerKnows, RefreshUsed
<1>8. ClaimedOnce'  BY DEF HandlersKnow, HandlerKnows, ClaimedOnce, Claims
<1> QED  BY <1>1, <1>2, <1>3, <1>4, <1>5, <1>6, <1>7, <1>8

\* The entry of a request is read from the record.
LEMMA VerifyClientInv ==
  ASSUME AuthInv, NEW q \in Calls, NEW a \in Agents, VerifyClient(q, a)
  PROVE  AuthInv'
<1> USE TokenConstants DEF AuthInv, TypeOK, Entries, VerifyClient, Goto
<1>1. TypeOK'  BY DEF Steps
<1>2. HandlersKnow'  BY DEF HandlersKnow, HandlerKnows, RecordsComplete
<1>3. RecordsComplete'  BY DEF HandlersKnow, HandlerKnows, RecordsComplete, Unregistered
<1>4. EntriesResolve'  BY DEF HandlersKnow, HandlerKnows, EntriesResolve, Relies, Resolves
<1>5. HeldTokensWork'  BY DEF HandlersKnow, HandlerKnows, HeldTokensWork, CanLogIn
<1>6. TokensSigned'  BY DEF HandlersKnow, HandlerKnows, TokensSigned
<1>7. RefreshUsed'  BY DEF HandlersKnow, HandlerKnows, RefreshUsed
<1>8. ClaimedOnce'  BY DEF HandlersKnow, HandlerKnows, ClaimedOnce, Claims
<1> QED  BY <1>1, <1>2, <1>3, <1>4, <1>5, <1>6, <1>7, <1>8

\* A stored token was not exchanged; with inline storage no other request is about to.
LEMMA FindRefreshTokenInv ==
  ASSUME AuthInv, NEW q \in Calls, NEW t \in Tokens, FindRefreshToken(q, t)
  PROVE  AuthInv'
<1> USE TokenConstants DEF AuthInv, TypeOK, Entries, FindRefreshToken, Goto
<1>1. TypeOK'  BY DEF Steps
<1>2. HandlersKnow'  BY DEF HandlersKnow, HandlerKnows
<1>3. RecordsComplete'  BY DEF HandlersKnow, HandlerKnows, RecordsComplete, Unregistered
<1>4. EntriesResolve'  BY DEF HandlersKnow, HandlerKnows, EntriesResolve, Relies, Resolves
<1>5. HeldTokensWork'  BY DEF HandlersKnow, HandlerKnows, HeldTokensWork, CanLogIn
<1>6. TokensSigned'  BY DEF HandlersKnow, HandlerKnows, TokensSigned, VerifiedRefreshToken
<1>7. RefreshUsed'  BY DEF HandlersKnow, HandlerKnows, RefreshUsed
<1>8. ClaimedOnce'  BY DEF HandlersKnow, HandlerKnows, ClaimedOnce, Claims, RefreshUsed, NewTurn, Busy
<1> QED  BY <1>1, <1>2, <1>3, <1>4, <1>5, <1>6, <1>7, <1>8

\* A token that is deleted was presented, so its holder has used it.
LEMMA ConsumeRefreshTokenInv ==
  ASSUME AuthInv, NEW q \in Calls, ConsumeRefreshToken(q)
  PROVE  AuthInv'
<1> USE TokenConstants DEF AuthInv, TypeOK, Entries, ConsumeRefreshToken, Goto
<1>1. TypeOK'  BY DEF Steps
<1>2. HandlersKnow'  BY DEF HandlersKnow, HandlerKnows, TokensSigned, EntriesResolve, Relies,
  Resolves
<1>3. RecordsComplete'  BY DEF HandlersKnow, HandlerKnows, RecordsComplete, Unregistered
<1>4. EntriesResolve'  BY DEF HandlersKnow, HandlerKnows, EntriesResolve, Relies, Resolves
<1>5. HeldTokensWork'  BY DEF HandlersKnow, HandlerKnows, HeldTokensWork, CanLogIn, EntriesResolve,
  Relies, Resolves
<1>6. TokensSigned'  BY DEF HandlersKnow, HandlerKnows, TokensSigned
<1>7. RefreshUsed'  BY DEF HandlersKnow, HandlerKnows, RefreshUsed
<1>8. ClaimedOnce'  BY DEF HandlersKnow, HandlerKnows, ClaimedOnce, Claims
<1> QED  BY <1>1, <1>2, <1>3, <1>4, <1>5, <1>6, <1>7, <1>8

\* A token is signed once, by a request that has consumed the one it was presented with.
LEMMA SignTokensInv ==
  ASSUME AuthInv, NEW q \in Calls, NEW t \in Tokens, SignTokens(q, t)
  PROVE  AuthInv'
<1> USE TokenConstants DEF AuthInv, TypeOK, Entries, SignTokens, Goto
<1>1. TypeOK'  BY DEF Steps
<1>2. HandlersKnow'  BY DEF HandlersKnow, HandlerKnows
<1>3. RecordsComplete'  BY DEF HandlersKnow, HandlerKnows, RecordsComplete, Unregistered
<1>4. EntriesResolve'  BY DEF HandlersKnow, HandlerKnows, EntriesResolve, Relies, Resolves
<1>5. HeldTokensWork'  BY DEF HandlersKnow, HandlerKnows, HeldTokensWork, CanLogIn
<1>6. TokensSigned'  BY DEF HandlersKnow, HandlerKnows, TokensSigned, Unsigned
<1>7. RefreshUsed'  BY DEF HandlersKnow, HandlerKnows, RefreshUsed
<1>8. ClaimedOnce'  BY DEF HandlersKnow, HandlerKnows, ClaimedOnce, Claims
<1> QED  BY <1>1, <1>2, <1>3, <1>4, <1>5, <1>6, <1>7, <1>8

\* A token is saved before it is held, so never one that was presented.
LEMMA SaveRefreshTokenInv ==
  ASSUME AuthInv, NEW q \in Calls, SaveRefreshToken(q)
  PROVE  AuthInv'
<1> USE TokenConstants DEF AuthInv, TypeOK, Entries, SaveRefreshToken, Goto
<1>1. TypeOK'  BY DEF Steps
<1>2. HandlersKnow'  BY DEF HandlersKnow, HandlerKnows, TokensSigned, EntriesResolve, Relies,
  Resolves
<1>3. RecordsComplete'  BY DEF HandlersKnow, HandlerKnows, RecordsComplete, Unregistered
<1>4. EntriesResolve'  BY DEF HandlersKnow, HandlerKnows, EntriesResolve, Relies, Resolves
<1>5. HeldTokensWork'  BY DEF HandlersKnow, HandlerKnows, HeldTokensWork, CanLogIn, EntriesResolve,
  Relies, Resolves
<1>6. TokensSigned'  BY DEF HandlersKnow, HandlerKnows, TokensSigned
<1>7. RefreshUsed'  BY DEF HandlersKnow, HandlerKnows, RefreshUsed, TokensSigned
<1>8. ClaimedOnce'  BY DEF HandlersKnow, HandlerKnows, ClaimedOnce, Claims
<1> QED  BY <1>1, <1>2, <1>3, <1>4, <1>5, <1>6, <1>7, <1>8

\* A token is held when it is stored.
LEMMA AnswerInv ==
  ASSUME AuthInv, NEW q \in Calls, Answer(q)
  PROVE  AuthInv'
<1> USE TokenConstants DEF AuthInv, TypeOK, Entries, Answer, Goto
<1>1. TypeOK'  BY DEF Steps, HandlersKnow, HandlerKnows
<1>2. HandlersKnow'  BY DEF HandlersKnow, HandlerKnows
<1>3. RecordsComplete'  BY DEF HandlersKnow, HandlerKnows, RecordsComplete, Unregistered
<1>4. EntriesResolve'  BY DEF HandlersKnow, HandlerKnows, EntriesResolve, Relies, Resolves
<1>5. HeldTokensWork'  BY DEF HandlersKnow, HandlerKnows, HeldTokensWork, CanLogIn
<1>6. TokensSigned'  BY DEF HandlersKnow, HandlerKnows, TokensSigned
<1>7. RefreshUsed'  BY DEF HandlersKnow, HandlerKnows, RefreshUsed
<1>8. ClaimedOnce'  BY DEF HandlersKnow, HandlerKnows, ClaimedOnce, Claims
<1> QED  BY <1>1, <1>2, <1>3, <1>4, <1>5, <1>6, <1>7, <1>8

\* A token that is not stored any more is expired.
LEMMA ExpireInv ==
  ASSUME AuthInv, NEW t \in Tokens, Expire(t)
  PROVE  AuthInv'
<1> USE TokenConstants DEF AuthInv, TypeOK, Entries, Expire, Goto
<1>1. TypeOK'  BY DEF Steps
<1>2. HandlersKnow'  BY DEF HandlersKnow, HandlerKnows
<1>3. RecordsComplete'  BY DEF HandlersKnow, HandlerKnows, RecordsComplete, Unregistered
<1>4. EntriesResolve'  BY DEF HandlersKnow, HandlerKnows, EntriesResolve, Relies, Resolves
<1>5. HeldTokensWork'  BY DEF HandlersKnow, HandlerKnows, HeldTokensWork, CanLogIn
<1>6. TokensSigned'  BY DEF HandlersKnow, HandlerKnows, TokensSigned
<1>7. RefreshUsed'  BY DEF HandlersKnow, HandlerKnows, RefreshUsed
<1>8. ClaimedOnce'  BY DEF HandlersKnow, HandlerKnows, ClaimedOnce, Claims
<1> QED  BY <1>1, <1>2, <1>3, <1>4, <1>5, <1>6, <1>7, <1>8

\* A dropped request relies on what survives; what is lost voids every token that was held.
LEMMA RestartInv ==
  ASSUME AuthInv, NEW cacheSurvives \in BOOLEAN, Restart(cacheSurvives)
  PROVE  AuthInv'
<1> USE TokenConstants DEF AuthInv, TypeOK, Entries, Restart
<1>1. TypeOK'  BY DEF Steps
<1>2. HandlersKnow'  BY DEF HandlersKnow, HandlerKnows
<1>3. RecordsComplete'  BY DEF RecordsComplete, Unregistered
<1>4. EntriesResolve'  BY DEF EntriesResolve, Relies, Resolves, TokensSigned
<1>5. HeldTokensWork'  BY DEF HeldTokensWork, CanLogIn, EntriesResolve, Relies, Resolves
<1>6. TokensSigned'  BY DEF HandlersKnow, HandlerKnows, TokensSigned
<1>7. RefreshUsed'  BY DEF HandlersKnow, HandlerKnows, RefreshUsed
<1>8. ClaimedOnce'  BY DEF HandlersKnow, HandlerKnows, ClaimedOnce, Claims
<1> QED  BY <1>1, <1>2, <1>3, <1>4, <1>5, <1>6, <1>7, <1>8

\* Every step preserves the invariant.
LEMMA AuthStepInv == AuthInv /\ [Next]_vars => AuthInv'
<1> SUFFICES ASSUME AuthInv, [Next]_vars PROVE AuthInv'
  OBVIOUS
<1>1. ASSUME NEW q \in Calls, NEW a \in Agents, NEW ns \in Namespaces, RegisterClient(q, a, ns)
      PROVE  AuthInv'
  BY <1>1, RegisterClientInv
<1>2. ASSUME NEW q \in Calls, RegisterIndexed(q) PROVE AuthInv'
  BY <1>2, RegisterIndexedInv
<1>3. ASSUME NEW q \in Calls, NEW a \in Agents, VerifyClient(q, a) PROVE AuthInv'
  BY <1>3, VerifyClientInv
<1>4. ASSUME NEW q \in Calls, NEW t \in Tokens, FindRefreshToken(q, t) PROVE AuthInv'
  BY <1>4, FindRefreshTokenInv
<1>5. ASSUME NEW q \in Calls, NEW t \in Tokens, SignTokens(q, t) PROVE AuthInv'
  BY <1>5, SignTokensInv
<1>6. ASSUME NEW q \in Calls, ConsumeRefreshToken(q) PROVE AuthInv'
  BY <1>6, ConsumeRefreshTokenInv
<1>7. ASSUME NEW q \in Calls, SaveRefreshToken(q) PROVE AuthInv'
  BY <1>7, SaveRefreshTokenInv
<1>8. ASSUME NEW q \in Calls, Answer(q) PROVE AuthInv'
  BY <1>8, AnswerInv
<1>9. ASSUME NEW t \in Tokens, Expire(t) PROVE AuthInv'
  BY <1>9, ExpireInv
<1>10. ASSUME NEW cacheSurvives \in BOOLEAN, Restart(cacheSurvives) PROVE AuthInv'
  BY <1>10, RestartInv
<1>11. CASE UNCHANGED vars
  BY <1>11 DEF vars, AuthInv, TypeOK, HandlersKnow, HandlerKnows, RecordsComplete, Unregistered,
    EntriesResolve, Relies, Resolves, HeldTokensWork, CanLogIn, TokensSigned, RefreshUsed, Claims,
    ClaimedOnce
<1> QED
  BY <1>1, <1>2, <1>3, <1>4, <1>5, <1>6, <1>7, <1>8, <1>9, <1>10, <1>11 DEF Next

(***************************************************************************)
(* With inline storage, requests that claim a token claim different ones,  *)
(* and each token that was exchanged for another has one such request.     *)
(***************************************************************************)
LEMMA ExchangesDiffer ==
  ASSUME AuthInv
  PROVE  RotatedOnce
<1> SUFFICES ASSUME inlineStorage PROVE RotatedOnce
  BY DEF RotatedOnce
<1> USE TokenConstants DEF AuthInv, TypeOK
<1>1. ASSUME NEW t \in Tokens, parent[t] # None
      PROVE  \E q \in Calls : fresh[q] = t /\ presented[q] = parent[t] /\ Claims(q)
  BY <1>1 DEF RefreshUsed, Claims
<1>2. ASSUME NEW t \in Tokens, NEW u \in Tokens, parent[t] # None, parent[t] = parent[u]
      PROVE  t = u
  <2>1. PICK p \in Calls : fresh[p] = t /\ presented[p] = parent[t] /\ Claims(p)
    BY <1>1, <1>2
  <2>2. PICK q \in Calls : fresh[q] = u /\ presented[q] = parent[u] /\ Claims(q)
    BY <1>1, <1>2
  <2>3. p = q
    BY <1>2, <2>1, <2>2 DEF ClaimedOnce
  <2> QED
    BY <2>1, <2>2, <2>3
<1>3. ASSUME NEW t \in Tokens, parent[t] # None PROVE refresh[parent[t]] = None
  BY <1>1, <1>3 DEF RefreshUsed, Claims
<1> QED
  BY <1>2, <1>3 DEF RotatedOnce

-----------------------------------------------------------------------------
\* The theorems

\* The invariant holds in every reachable state, with either kind of storage.
THEOREM AuthInvariant == Spec => []AuthInv
  BY AuthInitInv, AuthStepInv, PTL DEF Spec

\* The cache entries and the handlers of /auth keep their types.
THEOREM AuthTypeCorrect == Spec => []TypeOK
<1>1. AuthInv => TypeOK  BY DEF AuthInv
<1> QED  BY <1>1, AuthInvariant, PTL

(***************************************************************************)
(* What a stored refresh token says of its bearer is what saveClient       *)
(* recorded, through any number of rotations, interleavings and crashes.   *)
(***************************************************************************)
THEOREM TokensTrue == Spec => []TokensResolve
<1>1. AuthInv => TokensResolve
  BY TokenConstants DEF AuthInv, TypeOK, RecordsComplete, EntriesResolve, Resolves, Entries,
    TokensResolve
<1> QED  BY <1>1, AuthInvariant, PTL

(***************************************************************************)
(* With either kind of storage, and wherever crashes drop the requests: a  *)
(* refresh token that was handed out is stored until it expires or is      *)
(* presented; then the new one was handed out, or the agent can still log  *)
(* in with its secret.  A cache that is itself lost, as one in the         *)
(* gateway's memory is at every restart, voids the tokens held until then. *)
(***************************************************************************)
THEOREM TokensUsable == Spec => []HeldTokensWork
<1>1. AuthInv => HeldTokensWork  BY DEF AuthInv
<1> QED  BY <1>1, AuthInvariant, PTL

(***************************************************************************)
(* A cache that answers within the turn makes the get and the delete of    *)
(* consumeRefreshToken atomic: a refresh token is exchanged at most once.  *)
(***************************************************************************)
THEOREM Rotation == Spec => []RotatedOnce
<1>1. AuthInv => RotatedOnce  BY ExchangesDiffer
<1> QED  BY <1>1, AuthInvariant, PTL
=============================================================================
