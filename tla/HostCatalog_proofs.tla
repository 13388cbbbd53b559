------------------------- MODULE HostCatalog_proofs -------------------------
(***************************************************************************)
(* Proofs about HostCatalog, for any number of requests, hosts and         *)
(* namespaces.  Registration is proved for either kind of storage, the     *)
(* agreement of cache and index and the end of a deregistered host for     *)
(* storage that answers within the turn.                                   *)
(*                                                                         *)
(* What a request still has to do is a suffix of a program.  Instead of    *)
(* listing the suffixes, the invariant says which commands are still to    *)
(* come, and what is true already of those that do not come any more.      *)
(***************************************************************************)
EXTENDS HostCatalog, Integers, SequenceTheorems, TLAPS

Has(s, command) == \E i \in 1..Len(s) : s[i] = command

\* Every d in s has a c before it, or a c after it.
Before(s, c, d) == \A i \in 1..Len(s) : s[i] = d => \E j \in 1..Len(s) : j < i /\ s[j] = c
After(s, c, d) == \A i \in 1..Len(s) : s[i] = d => \E j \in 1..Len(s) : j > i /\ s[j] = c

IndexWrites == {"index.add", "index.remove"}
LookUps == {"cache.get", "store.get"}

-----------------------------------------------------------------------------
\* The shape of a program and of every rest of it

\* A list is read right before it is written.
ReadsFirst(s) ==
  \A i \in 2..Len(s) :
    /\ s[i] \in IndexWrites => s[i - 1] = "index.get"
    /\ s[i] = "namespaces.add" => s[i - 1] = "namespaces.get"

\* Lookups come first.
LooksFirst(s) ==
  \A i \in 1..Len(s) : s[i] \in LookUps => i <= 2 /\ (i = 2 => s[1] = "cache.get")

\* What is put into the index is put into the namespaces, what is deleted out of the index.
IndexFollows(s) ==
  /\ After(s, "namespaces.add", "index.add")
  /\ After(s, "index.remove", "cache.delete")

\* A program that deletes a host does not write it.
DeletesOnly(s) ==
  Has(s, "index.remove") \/ Has(s, "deregistered") =>
    ~Has(s, "cache.set") /\ ~Has(s, "index.add") /\ ~Has(s, "store.save")

Shaped(s) ==
  /\ s \in Seq(Commands)
  /\ ReadsFirst(s) /\ LooksFirst(s) /\ IndexFollows(s) /\ DeletesOnly(s)

\* What requests do when they find the host: nothing but writes of the descriptor.
FoundPrograms == {<< >>} \cup Ensured \cup StatusWrites

\* A whole program: the descriptor is written or deleted before the index.
Starts(s) ==
  /\ Shaped(s)
  /\ s # << >>
  /\ Before(s, "cache.set", "index.add") /\ Before(s, "cache.delete", "index.remove")
  /\ Before(s, "store.delete", "deregistered") /\ Before(s, "cache.delete", "deregistered")
  /\ Has(s, "cache.set") => Has(s, "index.add")
  /\ s[1] \notin IndexWrites \cup {"namespaces.add"}

-----------------------------------------------------------------------------
\* The inductive invariant, with either kind of storage

RequestTypeOK(q) ==
  todo[q] # << >> =>
    /\ target[q] \in Hosts
    /\ todo[q][1] \in IndexWrites => copy[q] \subseteq Hosts
    /\ todo[q][1] = "namespaces.add" => copy[q] \subseteq Namespaces

Programs == \A q \in Calls : Shaped(todo[q]) /\ found[q] \in FoundPrograms

\* Who deletes was asked to; who is about to answer a registration has saved it.
RegistrationsSaved ==
  /\ \A q \in Calls :
       /\ Has(todo[q], "store.delete") => target[q] \in removed
       /\ Has(todo[q], "registered") =>
            target[q] \in removed \cup store \/ todo[q][1] = "store.save"
  /\ registered \ removed \subseteq store

RequestsTypeOK == \A q \in Calls : RequestTypeOK(q)

CatalogInv == TypeOK /\ Programs /\ RequestsTypeOK /\ (HasStore => RegistrationsSaved)

-----------------------------------------------------------------------------
\* The inductive invariant with inline storage

Running(q) == todo[q] # << >>
OneRunning == \A p, q \in Calls : Running(p) /\ Running(q) => p = q

\* Cache, index and namespaces agree on a host.
Agree(h) ==
  /\ h \in cached <=> h \in index[HostNamespace[h]]
  /\ h \in cached => HostNamespace[h] \in namespaces

\* What the running request has read is what is there.
CopyIsFresh(q) ==
  /\ todo[q][1] \in IndexWrites => copy[q] = index[HostNamespace[target[q]]]
  /\ todo[q][1] = "namespaces.add" => copy[q] = namespaces

\* Where the running request is with cache, index and namespaces.
IndexUnderway(q) ==
  LET s == todo[q]
      h == target[q]
  IN  /\ h \in cached \/ Before(s, "cache.set", "index.add")
      /\ h \notin cached \/ Before(s, "cache.delete", "index.remove")
      /\ \/ Has(s, "index.add") \/ Has(s, "index.remove")
         \/ h \in cached <=> h \in index[HostNamespace[h]]
      /\ Has(s, "cache.set") => Has(s, "index.add") \/ h \in cached
      /\ Has(s, "namespaces.add") \/ h \notin cached \/ HostNamespace[h] \in namespaces
      /\ (\E c \in LookUps : Has(s, c)) => Agree(h)

\* Where the running request is with a deregistration.
RemovalUnderway(q) ==
  LET s == todo[q]
      h == target[q]
  IN  /\ h \notin store \/ Before(s, "store.delete", "deregistered")
      /\ h \notin cached \/ Before(s, "cache.delete", "deregistered")
      /\ Has(s, "store.save") \/ Has(s, "cache.set") => h \notin gone
      /\ Has(s, "deregistered") => h \in removed

RunningUnderway ==
  \A q \in Calls : Running(q) => CopyIsFresh(q) /\ IndexUnderway(q) /\ RemovalUnderway(q)

\* Cache, index and namespaces agree on every host that no request is about.
OthersAgree == \A h \in Hosts : (\A q \in Calls : Running(q) => target[q] # h) => Agree(h)

IndexesSeparate == \A ns \in Namespaces : \A h \in index[ns] : HostNamespace[h] = ns

GoneIsGone == gone \cap (store \cup cached) = {} /\ gone \subseteq removed

InlineInv == OneRunning /\ RunningUnderway /\ OthersAgree /\ IndexesSeparate /\ GoneIsGone

InlineCatalogInv == CatalogInv /\ (InlineStorage => InlineInv)

-----------------------------------------------------------------------------
\* The programs

\* The programs that are put together, written out: what follows a hit in the store.
LEMMA WarmIs ==
  Warm = <<"cache.set", "index.get", "index.add", "namespaces.get", "namespaces.add">>
<1> DEFINE l == <<"cache.set", "index.get", "index.add", "namespaces.get", "namespaces.add">>
<1>1. AddToIndex \in Seq(Commands) /\ <<"cache.set">> \in Seq(Commands) /\ l \in Seq(Commands)
  BY DEF AddToIndex, Commands
<1>2. Warm \in Seq(Commands) /\ Len(Warm) = 5 /\ \A i \in 1..5 : Warm[i] = l[i]
  BY <1>1, ConcatProperties DEF Warm, AddToIndex
<1> QED
  BY <1>1, <1>2, SeqEqual

\* What ensureRegistered writes for a new host.
LEMMA CreateIs ==
  Create = <<"store.save", "cache.set", "index.get", "index.add", "namespaces.get",
             "namespaces.add">>
<1> DEFINE l == <<"store.save", "cache.set", "index.get", "index.add", "namespaces.get",
                  "namespaces.add">>
<1>1. /\ AddToIndex \in Seq(Commands)
      /\ <<"store.save", "cache.set">> \in Seq(Commands)
      /\ l \in Seq(Commands)
  BY DEF AddToIndex, Commands
<1>2. Create \in Seq(Commands) /\ Len(Create) = 6 /\ \A i \in 1..6 : Create[i] = l[i]
  BY <1>1, ConcatProperties DEF Create, AddToIndex
<1> QED
  BY <1>1, <1>2, SeqEqual

\* ensureRegistered.
LEMMA EnsureIs ==
  Get \o Create = <<"cache.get", "store.get", "store.save", "cache.set", "index.get",
                    "index.add", "namespaces.get", "namespaces.add">>
<1> DEFINE l == <<"cache.get", "store.get", "store.save", "cache.set", "index.get",
                  "index.add", "namespaces.get", "namespaces.add">>
           c == Get \o Create
<1>1. Get \in Seq(Commands) /\ Create \in Seq(Commands) /\ l \in Seq(Commands)
  BY CreateIs DEF Get, Commands
<1>2. c \in Seq(Commands) /\ Len(c) = 8 /\ \A i \in 1..8 : c[i] = l[i]
  BY <1>1, CreateIs, ConcatProperties DEF Get
<1> QED
  BY <1>1, <1>2, SeqEqual

\* register, and the answer.
LEMMA RegisterIs ==
  Register = <<"store.save", "store.saveToken", "cache.set", "cache.setToken", "index.get",
               "index.add", "namespaces.get", "namespaces.add", "registered">>
<1> DEFINE a == <<"store.save", "store.saveToken", "cache.set", "cache.setToken">>
           b == a \o AddToIndex
           r == <<"registered">>
           l == <<"store.save", "store.saveToken", "cache.set", "cache.setToken", "index.get",
                  "index.add", "namespaces.get", "namespaces.add", "registered">>
<1>1. /\ a \in Seq(Commands) /\ AddToIndex \in Seq(Commands) /\ l \in Seq(Commands)
      /\ r \in Seq(Commands) /\ Len(r) = 1 /\ r[1] = "registered"
  BY DEF AddToIndex, Commands
<1>2. b \in Seq(Commands) /\ Len(b) = 8 /\ \A i \in 1..8 : b[i] = l[i]
  BY <1>1, ConcatProperties DEF AddToIndex
<1>3. Register = b \o r
  BY DEF Register
<1>4. /\ Register \in Seq(Commands)
      /\ Len(Register) = 9
      /\ \A i \in 1..8 : Register[i] = b[i]
      /\ Register[9] = "registered"
  <2> HIDE DEF b, r, l
  <2>1. /\ Register \in Seq(Commands)
        /\ Len(Register) = Len(b) + Len(r)
        /\ \A i \in 1..Len(b) + Len(r) : Register[i] = IF i <= Len(b) THEN b[i] ELSE r[i - Len(b)]
    BY <1>1, <1>2, <1>3, ConcatProperties
  <2> QED  BY <1>1, <1>2, <2>1
<1>5. \A i \in 1..9 : Register[i] = l[i]
  BY <1>2, <1>4
<1> QED
  BY <1>1, <1>4, <1>5, SeqEqual

\* POST /hosts/register: saved, cached, indexed, and then answered.
LEMMA RegisterStarts == Starts(Register)
  BY RegisterIs DEF Starts, Shaped, ReadsFirst, LooksFirst, IndexFollows, DeletesOnly, Has, Before,
    After, IndexWrites, LookUps, Commands

\* DELETE /hosts/:hostId: deleted from store, cache and index, and then answered.
LEMMA DeregisterStarts == Starts(Deregister)
  BY DEF Deregister, Starts, Shaped, ReadsFirst, LooksFirst, IndexFollows, DeletesOnly, Has, Before,
    After, IndexWrites, LookUps, Commands

\* GET /hosts/:hostId: lookups only.
LEMMA GetStarts == Starts(Get)
  BY DEF Get, Starts, Shaped, ReadsFirst, LooksFirst, IndexFollows, DeletesOnly, Has, Before,
    After, IndexWrites, LookUps, Commands

\* ensureRegistered: lookups, and then what creates the host.
LEMMA EnsureStarts == Starts(Get \o Create)
  BY EnsureIs DEF Starts, Shaped, ReadsFirst, LooksFirst, IndexFollows, DeletesOnly, Has, Before,
    After, IndexWrites, LookUps, Commands

\* A status write looks its host up in the cache.
LEMMA CacheGetStarts == Starts(<<"cache.get">>)
  BY DEF Starts, Shaped, ReadsFirst, LooksFirst, IndexFollows, DeletesOnly, Has, Before,
    After, IndexWrites, LookUps, Commands

\* A request that finds the host writes the descriptor, or nothing.
LEMMA FoundShaped ==
  ASSUME NEW f \in FoundPrograms
  PROVE  Shaped(f) /\ \A i \in 1..Len(f) : f[i] \in {"store.save", "cache.set"}
<1>1. \/ f = << >> \/ f = <<"store.save", "cache.set">>
      \/ f = <<"cache.set", "store.save">> \/ f = <<"cache.set">>
  BY DEF FoundPrograms, Ensured, StatusWrites
<1> USE DEF Shaped, ReadsFirst, LooksFirst, IndexFollows, DeletesOnly, Has, After, IndexWrites,
            LookUps, Commands
<1>2. CASE f = << >>  BY <1>2
<1>3. CASE f = <<"store.save", "cache.set">>  BY <1>3
<1>4. CASE f = <<"cache.set", "store.save">>  BY <1>4
<1>5. CASE f = <<"cache.set">>  BY <1>5
<1> QED
  BY <1>1, <1>2, <1>3, <1>4, <1>5

\* What a hit in the store is followed by.
LEMMA WarmShaped ==
  ASSUME NEW f \in FoundPrograms
  PROVE  LET s == Warm \o f
         IN  /\ Shaped(s) /\ s # << >> /\ s[1] = "cache.set"
             /\ Before(s, "cache.set", "index.add")
             /\ Has(s, "index.add") /\ Has(s, "namespaces.add")
             /\ \A i \in 1..Len(s) : s[i] \in {"store.save", "cache.set", "index.get", "index.add",
                                             "namespaces.get", "namespaces.add"}
<1> DEFINE w == <<"cache.set", "index.get", "index.add", "namespaces.get", "namespaces.add">>
           s == Warm \o f
<1>1. /\ f \in Seq(Commands) /\ Len(f) \in Nat
      /\ \A i \in 1..Len(f) : f[i] \in {"store.save", "cache.set"}
  BY FoundShaped, LenProperties DEF Shaped
<1>2. Warm \in Seq(Commands) /\ Len(Warm) = 5 /\ \A i \in 1..5 : Warm[i] = w[i]
  BY WarmIs DEF Commands
<1>3. /\ s \in Seq(Commands) /\ Len(s) = 5 + Len(f)
      /\ \A i \in 1..5 : s[i] = w[i]
      /\ \A i \in 6..Len(s) : s[i] \in {"store.save", "cache.set"}
  <2> DEFINE v == Warm
  <2> HIDE DEF v, w
  <2>1. v \in Seq(Commands) /\ Len(v) = 5
    BY <1>2 DEF v
  <2>2. /\ v \o f \in Seq(Commands) /\ Len(v \o f) = Len(v) + Len(f)
        /\ \A i \in 1..Len(v) + Len(f) : (v \o f)[i] = IF i <= Len(v) THEN v[i] ELSE f[i - Len(v)]
    BY <1>1, <2>1, ConcatProperties
  <2> QED
    BY <1>1, <1>2, <2>1, <2>2 DEF v
<1> HIDE DEF s
<1>4. /\ s[1] = "cache.set" /\ s[2] = "index.get" /\ s[3] = "index.add"
      /\ s[4] = "namespaces.get" /\ s[5] = "namespaces.add"
  BY <1>3
<1>5. \A i \in 1..Len(s) : i \in 1..5 \/ i \in 6..Len(s)
  BY <1>1, <1>3
<1>6. s # << >> /\ Len(s) \in Nat /\ Len(s) >= 5
  BY <1>1, <1>3
<1>7. ReadsFirst(s)
  BY <1>3, <1>4, <1>5 DEF ReadsFirst, IndexWrites
<1>8. LooksFirst(s)
  BY <1>3, <1>4, <1>5 DEF LooksFirst, LookUps
<1>9. IndexFollows(s)
  BY <1>3, <1>4, <1>5, <1>6 DEF IndexFollows, After
<1>10. DeletesOnly(s)
  BY <1>3, <1>4, <1>5 DEF DeletesOnly, Has
<1>11. Before(s, "cache.set", "index.add") /\ Has(s, "index.add") /\ Has(s, "namespaces.add")
  BY <1>3, <1>4, <1>5, <1>6 DEF Before, Has
<1>12. \A i \in 1..Len(s) : s[i] \in {"store.save", "cache.set", "index.get", "index.add",
                                     "namespaces.get", "namespaces.add"}
  BY <1>3, <1>4, <1>5
<1> QED
  BY <1>3, <1>4, <1>6, <1>7, <1>8, <1>9, <1>10, <1>11, <1>12 DEF Shaped, s

\* One command further: the rest of a program has its shape.
LEMMA RestShaped ==
  ASSUME NEW s, Shaped(s), s # << >>, NEW t, t = Tail(s)
  PROVE  Shaped(t)
<1>1. /\ Len(s) \in Nat \ {0} /\ t \in Seq(Commands) /\ Len(t) = Len(s) - 1
      /\ \A i \in 1..Len(t) : t[i] = s[i + 1]
  BY DEF Shaped
<1>2. ReadsFirst(t)  BY <1>1 DEF Shaped, ReadsFirst
<1>3. LooksFirst(t)  BY <1>1 DEF Shaped, LooksFirst, LookUps
<1>4. IndexFollows(t)
  <2> SUFFICES ASSUME NEW c, NEW d, After(s, c, d) PROVE After(t, c, d)
    BY DEF Shaped, IndexFollows
  <2> SUFFICES ASSUME NEW i \in 1..Len(t), t[i] = d
               PROVE  \E j \in 1..Len(t) : j > i /\ t[j] = c
    BY DEF After
  <2>1. PICK j \in 1..Len(s) : j > i + 1 /\ s[j] = c
    BY <1>1 DEF After
  <2>2. j - 1 \in 1..Len(t) /\ j - 1 > i /\ t[j - 1] = c
    BY <1>1, <2>1
  <2> QED  BY <2>2
<1>5. DeletesOnly(t)  BY <1>1 DEF Shaped, DeletesOnly, Has
<1> QED
  BY <1>1, <1>2, <1>3, <1>4, <1>5 DEF Shaped

\* One command further: what is still to come, and what came.
LEMMA RestHas ==
  ASSUME NEW s, Shaped(s), s # << >>, NEW t, t = Tail(s)
  PROVE  /\ Head(s) = s[1]
         /\ \A c : Has(t, c) => Has(s, c)
         /\ \A c : Has(s, c) => s[1] = c \/ Has(t, c)
         /\ Has(s, s[1])
         /\ \A c, d : Before(s, c, d) => s[1] # d /\ (s[1] # c => Before(t, c, d))
         /\ s[1] \notin LookUps => \A c \in LookUps : ~Has(s, c)
         /\ s[1] = "index.add" => Has(t, "namespaces.add")
         /\ s[1] = "cache.delete" => Has(t, "index.remove")
         /\ t # << >> =>
              /\ t[1] \in IndexWrites => s[1] = "index.get"
              /\ t[1] = "namespaces.add" => s[1] = "namespaces.get"
<1>1. /\ Len(s) \in Nat \ {0} /\ Len(t) = Len(s) - 1
      /\ \A i \in 1..Len(t) : t[i] = s[i + 1]
      /\ t # << >> => Len(t) > 0
      /\ Head(s) = s[1]
  BY DEF Shaped
<1>2. \A c : Has(t, c) => Has(s, c)  BY <1>1 DEF Has
<1>3. \A c : Has(s, c) => s[1] = c \/ Has(t, c)
  <2> SUFFICES ASSUME NEW c, NEW i \in 1..Len(s), s[i] = c, s[1] # c PROVE Has(t, c)
    BY DEF Has
  <2>1. i - 1 \in 1..Len(t) /\ t[i - 1] = s[i]
    BY <1>1
  <2> QED  BY <2>1 DEF Has
<1>4. Has(s, s[1])  BY <1>1 DEF Has
<1>5. ASSUME NEW c, NEW d, Before(s, c, d) PROVE s[1] # d /\ (s[1] # c => Before(t, c, d))
  <2>1. s[1] # d
    BY <1>1, <1>5 DEF Before
  <2>2. ASSUME s[1] # c, NEW i \in 1..Len(t), t[i] = d
        PROVE  \E j \in 1..Len(t) : j < i /\ t[j] = c
    <3>1. PICK j \in 1..Len(s) : j < i + 1 /\ s[j] = c
      BY <1>1, <1>5, <2>2 DEF Before
    <3>2. j - 1 \in 1..Len(t) /\ j - 1 < i /\ t[j - 1] = c
      BY <1>1, <2>2, <3>1
    <3> QED  BY <3>2
  <2> QED  BY <2>1, <2>2 DEF Before
<1>6. s[1] \notin LookUps => \A c \in LookUps : ~Has(s, c)
  BY <1>1 DEF Shaped, LooksFirst, Has, LookUps
<1>7. s[1] = "index.add" => Has(t, "namespaces.add")
  BY <1>1, <1>3 DEF Shaped, IndexFollows, After, Has
<1>8. s[1] = "cache.delete" => Has(t, "index.remove")
  BY <1>1, <1>3 DEF Shaped, IndexFollows, After, Has
<1>9. t # << >> => /\ t[1] \in IndexWrites => s[1] = "index.get"
                   /\ t[1] = "namespaces.add" => s[1] = "namespaces.get"
  BY <1>1 DEF Shaped, ReadsFirst
<1>10. \A c, d : Before(s, c, d) => s[1] # d /\ (s[1] # c => Before(t, c, d))
  BY <1>5
<1> QED
  BY <1>1, <1>2, <1>3, <1>4, <1>6, <1>7, <1>8, <1>9, <1>10

-----------------------------------------------------------------------------
\* Steps, with either kind of storage

\* One command is taken off a program.
LEMMA RunPrograms ==
  ASSUME TypeOK, Programs, RequestsTypeOK, NEW q \in Calls, NEW command, Run(q, command)
  PROVE  /\ Running(q) /\ Shaped(todo[q]) /\ todo[q][1] = command
         /\ target[q] \in Hosts
         /\ todo' = [todo EXCEPT ![q] = Tail(todo[q])]
         /\ todo' \in [Calls -> Seq(Commands)]
         /\ Programs'
<1>1. Running(q) /\ Shaped(todo[q])
  BY DEF Run, Programs, Running
<1>2. todo[q][1] = command
  BY <1>1, RestHas DEF Run, Running
<1>3. Shaped(Tail(todo[q]))
  BY <1>1, RestShaped DEF Running
<1>4. todo' = [todo EXCEPT ![q] = Tail(todo[q])]
  BY DEF Run
<1>5. todo' \in [Calls -> Seq(Commands)]
  BY <1>3, <1>4 DEF TypeOK, Shaped
<1>6. Programs'
  BY <1>3, <1>4 DEF Programs, TypeOK, Run
<1> QED
  BY <1>1, <1>2, <1>4, <1>5, <1>6 DEF RequestsTypeOK, RequestTypeOK, Running

\* A command that reads no list is not followed by the write of one.
LEMMA RunRequests ==
  ASSUME TypeOK, Programs, RequestsTypeOK, NEW q \in Calls, NEW command, Run(q, command),
         command \notin {"index.get", "namespaces.get"}, copy' = copy
  PROVE  RequestsTypeOK'
<1> DEFINE s == todo[q]
           t == Tail(s)
<1>1. /\ Shaped(s) /\ s # << >> /\ s[1] = command /\ todo' = [todo EXCEPT ![q] = t]
      /\ target[q] \in Hosts
  BY RunPrograms DEF Running
<1>2. t # << >> => t[1] \notin IndexWrites /\ t[1] # "namespaces.add"
  <2> HIDE DEF s, t
  <2> QED  BY <1>1, RestHas DEF t
<1>3. target' = target
  BY DEF Run
<1> HIDE DEF t
<1>4. ASSUME NEW p \in Calls PROVE RequestTypeOK(p)'
  <2>1. CASE p = q
    BY <1>1, <1>2, <1>3, <2>1 DEF RequestTypeOK, TypeOK
  <2>2. CASE p # q
    BY <1>1, <1>3, <2>2 DEF RequestsTypeOK, RequestTypeOK, TypeOK
  <2> QED  BY <2>1, <2>2
<1> QED
  BY <1>4 DEF RequestsTypeOK

\* A command that leaves the rows of hosts that nobody removes.
LEMMA RunRegistrations ==
  ASSUME TypeOK, Programs, RequestsTypeOK, RegistrationsSaved,
         NEW q \in Calls, NEW command, Run(q, command),
         removed' = removed, store \ removed \subseteq store',
         command = "store.save" => target[q] \in store',
         registered' \ removed \subseteq store'
  PROVE  RegistrationsSaved'
<1> DEFINE s == todo[q]
           t == Tail(s)
<1>1. Shaped(s) /\ s # << >> /\ s[1] = command /\ todo' = [todo EXCEPT ![q] = t]
  BY RunPrograms DEF Running
<1>2. target' = target
  BY DEF Run
<1>3. \A c : Has(t, c) => Has(s, c)
  <2> HIDE DEF s, t
  <2> QED  BY <1>1, RestHas DEF t
<1> HIDE DEF t
<1>4. ASSUME NEW p \in Calls
      PROVE  /\ Has(todo[p], "store.delete")' => target[p] \in removed
             /\ Has(todo[p], "registered")' =>
                  target[p] \in removed \cup store' \/ todo'[p][1] = "store.save"
  <2>1. CASE p = q
    <3>1. todo'[p] = t
      BY <1>1, <2>1 DEF TypeOK
    <3>2. Has(t, "registered") => target[p] \in removed \cup store'
      BY <1>1, <1>3, <2>1 DEF RegistrationsSaved
    <3>3. Has(t, "store.delete") => target[p] \in removed
      BY <1>3, <2>1 DEF RegistrationsSaved
    <3> QED  BY <3>1, <3>2, <3>3
  <2>2. CASE p # q
    <3>1. todo'[p] = todo[p]
      BY <1>1, <2>2 DEF TypeOK
    <3> QED  BY <3>1 DEF RegistrationsSaved
  <2> QED  BY <2>1, <2>2
<1> QED
  BY <1>2, <1>4 DEF RegistrationsSaved

\* The requests that begin.
LEMMA BeginCatalog ==
  ASSUME CatalogInv, NEW q \in Calls, NEW h \in Hosts, NEW s, Starts(s), NEW f \in FoundPrograms,
         Begin(q, h, s, f), registered' = registered, removed \subseteq removed',
         removed' \subseteq Hosts, agents' \subseteq Hosts, gone' \subseteq Hosts,
         Has(s, "store.delete") => h \in removed',
         Has(s, "registered") => s[1] = "store.save"
  PROVE  CatalogInv'
<1>1. Shaped(s) /\ s[1] \notin IndexWrites \cup {"namespaces.add"}
  BY DEF Starts
<1>2. f \in Seq(Commands)
  BY FoundShaped DEF Shaped
<1>3. /\ target' = [target EXCEPT ![q] = h] /\ todo' = [todo EXCEPT ![q] = s]
      /\ found' = [found EXCEPT ![q] = f] /\ copy' = [copy EXCEPT ![q] = {}]
      /\ store' = store
  BY DEF Begin, storageVars
<1>4. TypeOK'
  BY <1>1, <1>2, <1>3 DEF CatalogInv, TypeOK, Begin, storageVars, Shaped
<1>5. Programs'
  BY <1>1, <1>3 DEF CatalogInv, TypeOK, Programs
<1>6. RequestsTypeOK'
  <2> SUFFICES ASSUME NEW p \in Calls PROVE RequestTypeOK(p)'
    BY DEF RequestsTypeOK
  <2>1. CASE p = q
    BY <1>1, <1>3, <2>1 DEF CatalogInv, TypeOK, RequestTypeOK
  <2>2. CASE p # q
    BY <1>3, <2>2 DEF CatalogInv, TypeOK, RequestsTypeOK, RequestTypeOK
  <2> QED  BY <2>1, <2>2
<1>7. ASSUME HasStore PROVE RegistrationsSaved'
  <2>1. RegistrationsSaved
    BY <1>7 DEF CatalogInv
  <2>2. ASSUME NEW p \in Calls
        PROVE  /\ Has(todo[p], "store.delete")' => target'[p] \in removed'
               /\ Has(todo[p], "registered")' =>
                    target'[p] \in removed' \cup store \/ todo'[p][1] = "store.save"
    <3>1. CASE p = q
      <4>1. todo'[p] = s /\ target'[p] = h
        BY <1>3, <3>1 DEF CatalogInv, TypeOK
      <4> QED  BY <4>1
    <3>2. CASE p # q
      <4>1. todo'[p] = todo[p] /\ target'[p] = target[p]
        BY <1>3, <3>2 DEF CatalogInv, TypeOK
      <4> QED  BY <2>1, <4>1 DEF RegistrationsSaved
    <3> QED  BY <3>1, <3>2
  <2> QED
    BY <1>3, <2>1, <2>2 DEF RegistrationsSaved
<1> QED
  BY <1>4, <1>5, <1>6, <1>7 DEF CatalogInv

\* The five kinds of requests.
LEMMA RequestCatalog ==
  ASSUME CatalogInv, NEW q \in Calls, NEW h \in Hosts,
         \/ HostsRegister(q, h) \/ HostsDelete(q, h) \/ HostsGet(q, h)
         \/ AgentConnects(q, h) \/ StatusWritten(q, h)
  PROVE  CatalogInv'
<1>1. /\ registered \subseteq Hosts /\ removed \subseteq Hosts
      /\ agents \subseteq Hosts /\ gone \subseteq Hosts
  BY DEF CatalogInv, TypeOK
<1>2. << >> \in FoundPrograms /\ Ensured \subseteq FoundPrograms /\ StatusWrites \subseteq FoundPrograms
  BY DEF FoundPrograms
<1>3. CASE HostsRegister(q, h)
  <2>1. Register[1] = "store.save" /\ ~Has(Register, "store.delete")
    BY RegisterIs DEF Has
  <2> QED
    BY <1>1, <1>2, <1>3, <2>1, RegisterStarts, BeginCatalog DEF HostsRegister, historyVars
<1>4. CASE HostsDelete(q, h)
  <2>1. ~Has(Deregister, "registered")
    BY DEF Has, Deregister
  <2> QED
    BY <1>1, <1>2, <1>4, <2>1, DeregisterStarts, BeginCatalog DEF HostsDelete
<1>5. CASE HostsGet(q, h)
  <2>1. ~Has(Get, "registered") /\ ~Has(Get, "store.delete")
    BY DEF Has, Get
  <2> QED
    BY <1>1, <1>2, <1>5, <2>1, GetStarts, BeginCatalog DEF HostsGet, historyVars
<1>6. CASE AgentConnects(q, h)
  <2>1. ~Has(Get \o Create, "registered") /\ ~Has(Get \o Create, "store.delete")
    BY EnsureIs DEF Has
  <2>2. PICK update \in Ensured : Begin(q, h, Get \o Create, update)
    BY <1>6 DEF AgentConnects
  <2> QED
    BY <1>1, <1>2, <1>6, <2>1, <2>2, EnsureStarts, BeginCatalog DEF AgentConnects
<1>7. CASE StatusWritten(q, h)
  <2>1. ~Has(<<"cache.get">>, "registered") /\ ~Has(<<"cache.get">>, "store.delete")
    BY DEF Has
  <2>2. PICK write \in StatusWrites : Begin(q, h, <<"cache.get">>, write)
    BY <1>7 DEF StatusWritten
  <2> QED
    BY <1>1, <1>2, <1>7, <2>1, <2>2, CacheGetStarts, BeginCatalog DEF StatusWritten, historyVars
<1> QED
  BY <1>3, <1>4, <1>5, <1>6, <1>7

\* The commands on descriptors and tokens, and the two answers.
LEMMA WriteCatalog ==
  ASSUME CatalogInv, NEW q \in Calls,
         \/ StoreSave(q) \/ StoreSaveToken(q) \/ StoreDelete(q) \/ StoreDeleteTokens(q)
         \/ CacheSet(q) \/ CacheSetToken(q) \/ CacheDelete(q) \/ Registered(q) \/ Deregistered(q)
  PROVE  CatalogInv'
<1> USE DEF CatalogInv, historyVars, storageVars
<1>1. ASSUME NEW command, Run(q, command), command \notin {"index.get", "namespaces.get"},
             copy' = copy
      PROVE  /\ Programs' /\ RequestsTypeOK'
             /\ target[q] \in Hosts /\ todo' \in [Calls -> Seq(Commands)]
             /\ target' = target /\ found' = found
             /\ Has(todo[q], command) /\ todo[q][1] = command
  <2>1. Running(q) /\ Shaped(todo[q])
    BY <1>1, RunPrograms
  <2>2. Has(todo[q], todo[q][1])
    BY <2>1, RestHas DEF Running
  <2> QED
    BY <1>1, <2>2, RunPrograms, RunRequests DEF Run
<1>2. CASE StoreSave(q)
  <2>1. Run(q, "store.save") /\ copy' = copy
    BY <1>2 DEF StoreSave
  <2>2. TypeOK'
    BY <1>1, <1>2, <2>1 DEF TypeOK, StoreSave
  <2>3. Programs' /\ RequestsTypeOK'
    BY <1>1, <2>1
  <2>4. ASSUME HasStore PROVE RegistrationsSaved'
    BY <1>2, <2>1, <2>4, RunRegistrations DEF RegistrationsSaved, StoreSave
  <2> QED
    BY <2>2, <2>3, <2>4
<1>3. CASE StoreSaveToken(q)
  <2>1. Run(q, "store.saveToken") /\ copy' = copy
    BY <1>3 DEF StoreSaveToken
  <2>2. TypeOK'
    BY <1>1, <1>3, <2>1 DEF TypeOK, StoreSaveToken
  <2>3. Programs' /\ RequestsTypeOK'
    BY <1>1, <2>1
  <2>4. ASSUME HasStore PROVE RegistrationsSaved'
    BY <1>3, <2>1, <2>4, RunRegistrations DEF RegistrationsSaved, StoreSaveToken
  <2> QED
    BY <2>2, <2>3, <2>4
<1>4. CASE StoreDelete(q)
  <2>1. Run(q, "store.delete") /\ copy' = copy
    BY <1>4 DEF StoreDelete
  <2>2. TypeOK'
    BY <1>1, <1>4, <2>1 DEF TypeOK, StoreDelete
  <2>3. Programs' /\ RequestsTypeOK'
    BY <1>1, <2>1
  <2>4. ASSUME HasStore PROVE RegistrationsSaved'
    <3>1. target[q] \in removed
      BY <1>1, <2>1, <2>4 DEF RegistrationsSaved
    <3> QED
      BY <1>4, <2>1, <2>4, <3>1, RunRegistrations DEF RegistrationsSaved, StoreDelete
  <2> QED
    BY <2>2, <2>3, <2>4
<1>5. CASE StoreDeleteTokens(q)
  <2>1. Run(q, "store.deleteTokens") /\ copy' = copy
    BY <1>5 DEF StoreDeleteTokens
  <2>2. TypeOK'
    BY <1>1, <1>5, <2>1 DEF TypeOK, StoreDeleteTokens
  <2>3. Programs' /\ RequestsTypeOK'
    BY <1>1, <2>1
  <2>4. ASSUME HasStore PROVE RegistrationsSaved'
    BY <1>5, <2>1, <2>4, RunRegistrations DEF RegistrationsSaved, StoreDeleteTokens
  <2> QED
    BY <2>2, <2>3, <2>4
<1>6. CASE CacheSet(q)
  <2>1. Run(q, "cache.set") /\ copy' = copy
    BY <1>6 DEF CacheSet
  <2>2. TypeOK'
    BY <1>1, <1>6, <2>1 DEF TypeOK, CacheSet
  <2>3. Programs' /\ RequestsTypeOK'
    BY <1>1, <2>1
  <2>4. ASSUME HasStore PROVE RegistrationsSaved'
    BY <1>6, <2>1, <2>4, RunRegistrations DEF RegistrationsSaved, CacheSet
  <2> QED
    BY <2>2, <2>3, <2>4
<1>7. CASE CacheSetToken(q)
  <2>1. Run(q, "cache.setToken") /\ copy' = copy
    BY <1>7 DEF CacheSetToken
  <2>2. TypeOK'
    BY <1>1, <1>7, <2>1 DEF TypeOK, CacheSetToken
  <2>3. Programs' /\ RequestsTypeOK'
    BY <1>1, <2>1
  <2>4. ASSUME HasStore PROVE RegistrationsSaved'
    BY <1>7, <2>1, <2>4, RunRegistrations DEF RegistrationsSaved, CacheSetToken
  <2> QED
    BY <2>2, <2>3, <2>4
<1>8. CASE CacheDelete(q)
  <2>1. Run(q, "cache.delete") /\ copy' = copy
    BY <1>8 DEF CacheDelete
  <2>2. TypeOK'
    BY <1>1, <1>8, <2>1 DEF TypeOK, CacheDelete
  <2>3. Programs' /\ RequestsTypeOK'
    BY <1>1, <2>1
  <2>4. ASSUME HasStore PROVE RegistrationsSaved'
    BY <1>8, <2>1, <2>4, RunRegistrations DEF RegistrationsSaved, CacheDelete
  <2> QED
    BY <2>2, <2>3, <2>4
<1>9. CASE Registered(q)
  <2>1. Run(q, "registered") /\ copy' = copy
    BY <1>9 DEF Registered
  <2>2. TypeOK'
    BY <1>1, <1>9, <2>1 DEF TypeOK, Registered
  <2>3. Programs' /\ RequestsTypeOK'
    BY <1>1, <2>1
  <2>4. ASSUME HasStore PROVE RegistrationsSaved'
    <3>1. target[q] \in removed \cup store
      BY <1>1, <2>1, <2>4 DEF RegistrationsSaved
    <3> QED
      BY <1>9, <2>1, <2>4, <3>1, RunRegistrations DEF RegistrationsSaved, Registered
  <2> QED
    BY <2>2, <2>3, <2>4
<1>10. CASE Deregistered(q)
  <2>1. Run(q, "deregistered") /\ copy' = copy
    BY <1>10 DEF Deregistered
  <2>2. TypeOK'
    BY <1>1, <1>10, <2>1 DEF TypeOK, Deregistered
  <2>3. Programs' /\ RequestsTypeOK'
    BY <1>1, <2>1
  <2>4. ASSUME HasStore PROVE RegistrationsSaved'
    BY <1>10, <2>1, <2>4, RunRegistrations DEF RegistrationsSaved, Deregistered
  <2> QED
    BY <2>2, <2>3, <2>4
<1> QED
  BY <1>2, <1>3, <1>4, <1>5, <1>6, <1>7, <1>8, <1>9, <1>10

\* The commands on the two lists.
LEMMA ListCatalog ==
  ASSUME CatalogInv, NEW q \in Calls,
         \/ ReadIndex(q) \/ IndexAdd(q) \/ IndexRemove(q) \/ ReadNamespaces(q) \/ NamespacesAdd(q)
  PROVE  CatalogInv'
<1> USE DEF CatalogInv, historyVars, storageVars
<1>1. ASSUME NEW command, Run(q, command)
      PROVE  /\ Programs' /\ Running(q) /\ todo[q][1] = command
             /\ target[q] \in Hosts /\ HostNamespace[target[q]] \in Namespaces
             /\ todo' \in [Calls -> Seq(Commands)]
             /\ target' = target /\ found' = found
  BY <1>1, RunPrograms, CatalogConstants DEF Run
<1>2. ASSUME NEW command, Run(q, command), command # "store.save", HasStore,
             registered' = registered, removed' = removed, store' = store
      PROVE  RegistrationsSaved'
  BY <1>2, RunRegistrations DEF RegistrationsSaved
<1>3. ASSUME NEW command, Run(q, command), NEW list, copy' = [copy EXCEPT ![q] = list],
             \/ command = "index.get" /\ list \subseteq Hosts
             \/ command = "namespaces.get" /\ list \subseteq Namespaces
      PROVE  RequestsTypeOK'
  <2> DEFINE s == todo[q]
             t == Tail(s)
  <2>1. /\ Shaped(s) /\ s # << >> /\ s[1] = command /\ todo' = [todo EXCEPT ![q] = t]
        /\ target' = target /\ target[q] \in Hosts
    BY <1>3, RunPrograms DEF Running, Run
  <2>2. t # << >> => /\ t[1] \in IndexWrites => list \subseteq Hosts
                     /\ t[1] = "namespaces.add" => list \subseteq Namespaces
    <3> HIDE DEF s, t
    <3> QED  BY <1>3, <2>1, RestHas DEF t
  <2> HIDE DEF t
  <2>3. ASSUME NEW p \in Calls PROVE RequestTypeOK(p)'
    <3>1. CASE p = q
      BY <1>3, <2>1, <2>2, <3>1 DEF RequestTypeOK, TypeOK
    <3>2. CASE p # q
      BY <1>3, <2>1, <3>2 DEF RequestsTypeOK, RequestTypeOK, TypeOK
    <3> QED  BY <3>1, <3>2
  <2> QED  BY <2>3 DEF RequestsTypeOK
<1>4. CASE ReadIndex(q)
  <2>1. Run(q, "index.get") /\ copy' = [copy EXCEPT ![q] = index[HostNamespace[target[q]]]]
    BY <1>4 DEF ReadIndex
  <2>2. index[HostNamespace[target[q]]] \subseteq Hosts
    BY <1>1, <2>1 DEF TypeOK
  <2>3. TypeOK'
    BY <1>1, <1>4, <2>1, <2>2 DEF TypeOK, ReadIndex
  <2>4. RequestsTypeOK'
    BY <1>3, <2>1, <2>2
  <2> QED
    BY <1>1, <1>2, <1>4, <2>1, <2>3, <2>4 DEF ReadIndex
<1>5. CASE ReadNamespaces(q)
  <2>1. Run(q, "namespaces.get") /\ copy' = [copy EXCEPT ![q] = namespaces]
    BY <1>5 DEF ReadNamespaces
  <2>2. namespaces \subseteq Namespaces
    BY DEF TypeOK
  <2>3. TypeOK'
    BY <1>1, <1>5, <2>1, <2>2 DEF TypeOK, ReadNamespaces
  <2>4. RequestsTypeOK'
    BY <1>3, <2>1, <2>2
  <2> QED
    BY <1>1, <1>2, <1>5, <2>1, <2>3, <2>4 DEF ReadNamespaces
<1>6. ASSUME NEW command \in IndexWrites, NEW list \in SUBSET Hosts, WriteIndex(q, command, list)
      PROVE  CatalogInv'
  <2>1. Run(q, command) /\ copy' = copy /\ command \notin {"index.get", "namespaces.get", "store.save"}
    BY <1>6 DEF WriteIndex, IndexWrites
  <2>2. TypeOK'
    BY <1>1, <1>6, <2>1 DEF TypeOK, WriteIndex
  <2>3. RequestsTypeOK'
    BY <2>1, RunRequests
  <2> QED
    BY <1>1, <1>2, <1>6, <2>1, <2>2, <2>3 DEF WriteIndex
<1>7. CASE IndexAdd(q)
  <2>1. Run(q, "index.add")
    BY <1>7 DEF IndexAdd, WriteIndex
  <2>2. /\ copy[q] \subseteq Hosts /\ target[q] \in Hosts
        /\ index[HostNamespace[target[q]]] \subseteq Hosts
    BY <1>1, <2>1 DEF RequestsTypeOK, RequestTypeOK, Running, IndexWrites, TypeOK
  <2> QED
    BY <1>6, <1>7, <2>2 DEF IndexAdd, IndexWrites
<1>8. CASE IndexRemove(q)
  <2>1. Run(q, "index.remove")
    BY <1>8 DEF IndexRemove, WriteIndex
  <2>2. copy[q] \subseteq Hosts
    BY <1>1, <2>1 DEF RequestsTypeOK, RequestTypeOK, Running, IndexWrites
  <2> QED
    BY <1>6, <1>8, <2>2 DEF IndexRemove, IndexWrites
<1>9. CASE NamespacesAdd(q)
  <2>1. Run(q, "namespaces.add") /\ copy' = copy
    BY <1>9 DEF NamespacesAdd
  <2>2. copy[q] \subseteq Namespaces
    BY <1>1, <2>1 DEF RequestsTypeOK, RequestTypeOK, Running
  <2>3. TypeOK'
    BY <1>1, <1>9, <2>1, <2>2 DEF TypeOK, NamespacesAdd
  <2>4. RequestsTypeOK'
    BY <2>1, RunRequests
  <2> QED
    BY <1>1, <1>2, <1>9, <2>1, <2>3, <2>4 DEF NamespacesAdd
<1> QED
  BY <1>4, <1>5, <1>7, <1>8, <1>9

\* A lookup ends the program with what is left to write, or goes on.
LEMMA LookUpCatalog ==
  ASSUME CatalogInv, NEW q \in Calls, NEW command, NEW place, NEW onHit,
         LookUp(q, command, place, onHit), command \in LookUps, Shaped(onHit),
         onHit # << >> => onHit[1] \notin IndexWrites \cup {"namespaces.add"},
         ~Has(onHit, "store.delete"), ~Has(onHit, "registered")
  PROVE  CatalogInv'
<1> DEFINE s == todo[q]
           t == IF target[q] \in place THEN onHit ELSE Tail(s)
<1>1. Shaped(s) /\ s # << >> /\ target[q] \in Hosts
  BY DEF CatalogInv, Programs, LookUp, RequestsTypeOK, RequestTypeOK
<1>2. s[1] = command
  <2> HIDE DEF s
  <2>1. Head(s) = s[1]
    BY <1>1, RestHas
  <2> QED  BY <2>1 DEF LookUp, s
<1>3. /\ todo' = [todo EXCEPT ![q] = t]
      /\ target' = target /\ found' = found /\ copy' = copy
      /\ UNCHANGED <<store, storeTokens, cached, cachedTokens, index, namespaces>>
      /\ UNCHANGED <<agents, registered, removed, gone>>
  BY DEF LookUp, storageVars, historyVars
<1>4. Shaped(t)
  BY <1>1, RestShaped
<1>5. /\ t # << >> => t[1] \notin IndexWrites \cup {"namespaces.add"}
      /\ \A c \in {"store.delete", "registered"} : Has(t, c) => Has(s, c) /\ s[1] # "store.save"
  <2>1. CASE target[q] \in place
    BY <2>1
  <2>2. CASE target[q] \notin place
    <3>1. t = Tail(s)
      BY <2>2
    <3> HIDE DEF s, t
    <3> QED  BY <1>1, <1>2, <3>1, RestHas DEF LookUps
  <2> QED  BY <2>1, <2>2
<1> HIDE DEF t
<1>6. TypeOK'
  BY <1>3, <1>4 DEF CatalogInv, TypeOK, Shaped
<1>7. Programs'
  BY <1>3, <1>4 DEF CatalogInv, TypeOK, Programs
<1>8. RequestsTypeOK'
  <2> SUFFICES ASSUME NEW p \in Calls PROVE RequestTypeOK(p)'
    BY DEF RequestsTypeOK
  <2>1. CASE p = q
    BY <1>1, <1>3, <1>5, <2>1 DEF CatalogInv, TypeOK, RequestTypeOK
  <2>2. CASE p # q
    BY <1>3, <2>2 DEF CatalogInv, TypeOK, RequestsTypeOK, RequestTypeOK
  <2> QED  BY <2>1, <2>2
<1>9. ASSUME HasStore PROVE RegistrationsSaved'
  <2>1. RegistrationsSaved
    BY <1>9 DEF CatalogInv
  <2>2. ASSUME NEW p \in Calls
        PROVE  /\ Has(todo[p], "store.delete")' => target[p] \in removed
               /\ Has(todo[p], "registered")' =>
                    target[p] \in removed \cup store \/ todo'[p][1] = "store.save"
    <3>1. CASE p = q
      <4>1. todo'[p] = t
        BY <1>3, <3>1 DEF CatalogInv, TypeOK
      <4> QED  BY <1>5, <2>1, <3>1, <4>1 DEF RegistrationsSaved
    <3>2. CASE p # q
      <4>1. todo'[p] = todo[p]
        BY <1>3, <3>2 DEF CatalogInv, TypeOK
      <4> QED  BY <2>1, <4>1 DEF RegistrationsSaved
    <3> QED  BY <3>1, <3>2
  <2> QED
    BY <1>3, <2>1, <2>2 DEF RegistrationsSaved
<1> QED
  BY <1>6, <1>7, <1>8, <1>9 DEF CatalogInv

\* get, in the cache and in the store.
LEMMA GetCatalog ==
  ASSUME CatalogInv, NEW q \in Calls, CacheGet(q) \/ StoreGet(q)
  PROVE  CatalogInv'
<1> DEFINE f == found[q]
           w == Warm \o f
<1>1. f \in FoundPrograms
  BY DEF CatalogInv, Programs
<1> HIDE DEF f, w
<1>2. /\ Shaped(f) /\ ~Has(f, "store.delete") /\ ~Has(f, "registered")
      /\ f # << >> => f[1] \notin IndexWrites \cup {"namespaces.add"}
  <2>1. Shaped(f) /\ \A i \in 1..Len(f) : f[i] \in {"store.save", "cache.set"}
    BY <1>1, FoundShaped
  <2>2. f # << >> => 1 \in 1..Len(f)
    BY <2>1 DEF Shaped
  <2> QED  BY <2>1, <2>2 DEF Has, IndexWrites
<1>3. /\ Shaped(w) /\ ~Has(w, "store.delete") /\ ~Has(w, "registered")
      /\ w # << >> => w[1] \notin IndexWrites \cup {"namespaces.add"}
  <2>1. /\ Shaped(w) /\ w[1] = "cache.set"
        /\ \A i \in 1..Len(w) : w[i] \in {"store.save", "cache.set", "index.get", "index.add",
                                        "namespaces.get", "namespaces.add"}
    BY <1>1, WarmShaped DEF w
  <2> QED  BY <2>1 DEF Has, IndexWrites
<1>4. CASE CacheGet(q)
  <2>1. LookUp(q, "cache.get", cached, f)
    BY <1>4 DEF CacheGet, f
  <2> QED
    BY <1>2, <2>1, LookUpCatalog DEF LookUps
<1>5. CASE StoreGet(q)
  <2>1. LookUp(q, "store.get", store, w)
    BY <1>5 DEF StoreGet, f, w
  <2> QED
    BY <1>3, <2>1, LookUpCatalog DEF LookUps
<1> QED
  BY <1>4, <1>5

\* No request is running, initially and after a restart.
LEMMA NothingRuns ==
  /\ Shaped(<< >>) /\ << >> \in FoundPrograms
  /\ \A c : ~Has(<< >>, c)
  BY FoundShaped DEF FoundPrograms, Has

\* The process starts again.
LEMMA RestartCatalog ==
  ASSUME CatalogInv, NEW cacheSurvives \in BOOLEAN, Restart(cacheSurvives)
  PROVE  CatalogInv'
<1>1. TypeOK'
  BY NothingRuns, CatalogConstants DEF CatalogInv, TypeOK, Restart, InNamespace
<1>2. Programs' /\ RequestsTypeOK'
  BY NothingRuns DEF Programs, RequestsTypeOK, RequestTypeOK, Restart
<1>3. HasStore => RegistrationsSaved'
  BY NothingRuns DEF CatalogInv, RegistrationsSaved, Restart
<1> QED
  BY <1>1, <1>2, <1>3 DEF CatalogInv

\* The first start.
LEMMA CatalogInit == Init => CatalogInv
  BY NothingRuns, CatalogConstants
     DEF Init, CatalogInv, TypeOK, Programs, RequestsTypeOK, RequestTypeOK, RegistrationsSaved

\* Every step preserves the part of the invariant that needs no inline storage.
LEMMA CatalogStep == CatalogInv /\ [Next]_vars => CatalogInv'
<1> SUFFICES ASSUME CatalogInv, [Next]_vars PROVE CatalogInv'
  OBVIOUS
<1>1. ASSUME NEW q \in Calls, NEW h \in Hosts,
             \/ HostsRegister(q, h) \/ HostsDelete(q, h) \/ HostsGet(q, h)
             \/ AgentConnects(q, h) \/ StatusWritten(q, h)
      PROVE  CatalogInv'
  BY <1>1, RequestCatalog
<1>2. ASSUME NEW q \in Calls, Step(q) PROVE CatalogInv'
  BY <1>2, WriteCatalog, ListCatalog, GetCatalog DEF Step
<1>3. ASSUME NEW cacheSurvives \in BOOLEAN, Restart(cacheSurvives) PROVE CatalogInv'
  BY <1>3, RestartCatalog
<1>4. CASE UNCHANGED vars
  BY <1>4 DEF vars, CatalogInv, TypeOK, Programs, RequestsTypeOK, RequestTypeOK, RegistrationsSaved
<1> QED
  BY <1>1, <1>2, <1>3, <1>4 DEF Next

-----------------------------------------------------------------------------
\* Steps with inline storage

\* What does not come needs nothing before it.
LEMMA AbsentBefore ==
  ASSUME NEW s, NEW c, NEW d, ~Has(s, d)
  PROVE  Before(s, c, d)
  BY DEF Has, Before

\* A step of the running request disturbs nobody else.
LEMMA RunningStep ==
  ASSUME CatalogInv, InlineInv, NEW q \in Calls, Running(q), NEW t,
         todo' = [todo EXCEPT ![q] = t], target' = target,
         t # << >> => CopyIsFresh(q)', IndexUnderway(q)', RemovalUnderway(q)',
         \A h \in Hosts : h # target[q] /\ Agree(h) => Agree(h)',
         IndexesSeparate', GoneIsGone'
  PROVE  InlineInv'
<1>1. todo'[q] = t
  BY DEF CatalogInv, TypeOK
<1>2. \A p \in Calls : p # q => ~Running(p) /\ ~Running(p)'
  BY DEF CatalogInv, TypeOK, InlineInv, OneRunning, Running
<1>3. OneRunning'
  BY <1>2 DEF OneRunning
<1>4. RunningUnderway'
  <2> SUFFICES ASSUME NEW p \in Calls, Running(p)'
               PROVE  (CopyIsFresh(p) /\ IndexUnderway(p) /\ RemovalUnderway(p))'
    BY DEF RunningUnderway
  <2>1. p = q
    BY <1>2
  <2>2. t # << >>
    BY <1>1, <2>1 DEF Running
  <2> QED  BY <2>1, <2>2
<1>5. OthersAgree'
  <2> SUFFICES ASSUME NEW h \in Hosts, \A p \in Calls : Running(p)' => target[p] # h
               PROVE  Agree(h)'
    BY DEF OthersAgree
  <2>1. CASE h # target[q]
    <3>1. \A p \in Calls : Running(p) => target[p] # h
      BY <1>2, <2>1
    <3> QED
      BY <2>1, <3>1 DEF InlineInv, OthersAgree
  <2>2. CASE h = target[q]
    <3>1. t = << >>
      BY <1>1, <2>2 DEF Running
    <3>2. \A c : ~Has(todo[q], c)'
      BY <1>1, <3>1, NothingRuns
    <3> QED
      BY <2>2, <3>2 DEF IndexUnderway, Agree
  <2> QED  BY <2>1, <2>2
<1> QED
  BY <1>3, <1>4, <1>5 DEF InlineInv

\* Commands that leave cache, index and namespaces alone.
LEMMA IndexKept ==
  ASSUME NEW q \in Calls, NEW s, NEW t, s = todo[q], t = Tail(s), todo'[q] = t,
         Shaped(s), s # << >>, IndexUnderway(q),
         s[1] \notin {"cache.set", "cache.delete", "index.add", "index.remove", "namespaces.add"},
         UNCHANGED <<cached, index, namespaces, target>>
  PROVE  IndexUnderway(q)'
<1> DEFINE h == target[q]
<1>1. /\ \A c : Has(t, c) => Has(s, c)
      /\ \A c : Has(s, c) => s[1] = c \/ Has(t, c)
      /\ \A c, d : Before(s, c, d) => (s[1] # c => Before(t, c, d))
  BY RestHas
<1>2. h \in cached \/ Before(t, "cache.set", "index.add")
  BY <1>1 DEF IndexUnderway
<1>3. h \notin cached \/ Before(t, "cache.delete", "index.remove")
  BY <1>1 DEF IndexUnderway
<1>4. \/ Has(t, "index.add") \/ Has(t, "index.remove")
      \/ h \in cached <=> h \in index[HostNamespace[h]]
  BY <1>1 DEF IndexUnderway
<1>5. Has(t, "cache.set") => Has(t, "index.add") \/ h \in cached
  BY <1>1 DEF IndexUnderway
<1>6. Has(t, "namespaces.add") \/ h \notin cached \/ HostNamespace[h] \in namespaces
  BY <1>1 DEF IndexUnderway
<1>7. (\E c \in LookUps : Has(t, c)) => Agree(h)
  BY <1>1 DEF IndexUnderway
<1> QED
  BY <1>2, <1>3, <1>4, <1>5, <1>6, <1>7 DEF IndexUnderway, Agree

\* Commands that do not delete.
LEMMA RemovalKept ==
  ASSUME NEW q \in Calls, NEW s, NEW t, s = todo[q], t = Tail(s), todo'[q] = t,
         Shaped(s), s # << >>, RemovalUnderway(q),
         s[1] \notin {"store.delete", "cache.delete"},
         UNCHANGED <<store, cached, gone, removed, target>>
  PROVE  RemovalUnderway(q)'
<1>1. /\ \A c : Has(t, c) => Has(s, c)
      /\ \A c, d : Before(s, c, d) => (s[1] # c => Before(t, c, d))
  BY RestHas
<1> QED
  BY <1>1 DEF RemovalUnderway

\* A command that reads no list is not followed by the write of one.
LEMMA CopyKept ==
  ASSUME NEW q \in Calls, NEW s, NEW t, t = Tail(s), todo'[q] = t, Shaped(s), s # << >>,
         t # << >>, s[1] \notin {"index.get", "namespaces.get"}
  PROVE  CopyIsFresh(q)'
<1>1. t[1] \notin IndexWrites /\ t[1] # "namespaces.add"
  BY RestHas
<1> QED
  BY <1>1 DEF CopyIsFresh

\* What is known of the request that runs a command.
LEMMA InlineRun ==
  ASSUME CatalogInv, InlineInv, NEW q \in Calls, NEW command, Run(q, command)
  PROVE  /\ Running(q) /\ Shaped(todo[q]) /\ todo[q] # << >> /\ todo[q][1] = command
         /\ target[q] \in Hosts /\ HostNamespace[target[q]] \in Namespaces
         /\ todo' = [todo EXCEPT ![q] = Tail(todo[q])] /\ todo'[q] = Tail(todo[q])
         /\ target' = target
         /\ CopyIsFresh(q) /\ IndexUnderway(q) /\ RemovalUnderway(q)
<1>1. /\ Running(q) /\ Shaped(todo[q]) /\ todo[q][1] = command /\ target[q] \in Hosts
      /\ todo' = [todo EXCEPT ![q] = Tail(todo[q])]
  BY RunPrograms DEF CatalogInv
<1>2. todo'[q] = Tail(todo[q])
  BY <1>1 DEF CatalogInv, TypeOK
<1>3. HostNamespace[target[q]] \in Namespaces
  BY <1>1, CatalogConstants
<1> QED
  BY <1>1, <1>2, <1>3 DEF Run, Running, InlineInv, RunningUnderway

\* Commands on tokens, and the answer to a registration.
LEMMA TokenInline ==
  ASSUME CatalogInv, InlineInv, NEW q \in Calls,
         StoreSaveToken(q) \/ StoreDeleteTokens(q) \/ CacheSetToken(q) \/ Registered(q)
  PROVE  InlineInv'
<1>1. ASSUME NEW command, Run(q, command),
             command \in {"store.saveToken", "store.deleteTokens", "cache.setToken", "registered"},
             UNCHANGED <<store, cached, index, namespaces, removed, gone>>
      PROVE  InlineInv'
  <2>1. IndexUnderway(q)' /\ RemovalUnderway(q)'
    BY <1>1, InlineRun, IndexKept, RemovalKept
  <2>2. Tail(todo[q]) # << >> => CopyIsFresh(q)'
    BY <1>1, InlineRun, CopyKept
  <2>3. /\ \A h \in Hosts : Agree(h) => Agree(h)'
        /\ IndexesSeparate' /\ GoneIsGone'
    BY <1>1 DEF InlineInv, Agree, IndexesSeparate, GoneIsGone
  <2> QED
    BY <1>1, <2>1, <2>2, <2>3, InlineRun, RunningStep
<1> QED
  BY <1>1 DEF StoreSaveToken, StoreDeleteTokens, CacheSetToken, Registered, historyVars, storageVars

\* The lists are read.
LEMMA ReadInline ==
  ASSUME CatalogInv, InlineInv, NEW q \in Calls, ReadIndex(q) \/ ReadNamespaces(q)
  PROVE  InlineInv'
<1>1. PICK command \in {"index.get", "namespaces.get"} : Run(q, command)
  BY DEF ReadIndex, ReadNamespaces
<1>2. UNCHANGED <<store, cached, index, namespaces, removed, gone, target>>
  BY DEF ReadIndex, ReadNamespaces, storageVars, historyVars, Run
<1>3. IndexUnderway(q)' /\ RemovalUnderway(q)'
  BY <1>1, <1>2, InlineRun, IndexKept, RemovalKept
<1>4. ASSUME Tail(todo[q]) # << >> PROVE CopyIsFresh(q)'
  <2> DEFINE s == todo[q]
             t == Tail(s)
  <2>1. Shaped(s) /\ s # << >> /\ s[1] = command /\ todo'[q] = t
    BY <1>1, InlineRun
  <2>2. /\ t[1] \in IndexWrites => s[1] = "index.get"
        /\ t[1] = "namespaces.add" => s[1] = "namespaces.get"
    <3>1. t # << >>
      BY <1>4
    <3> HIDE DEF s, t
    <3> QED  BY <2>1, <3>1, RestHas DEF t
  <2>3. ASSUME t[1] \in IndexWrites PROVE copy'[q] = index[HostNamespace[target[q]]]
    <3>1. command = "index.get"
      BY <2>1, <2>2, <2>3
    <3>2. ReadIndex(q)
      BY <1>1, <3>1, InlineRun DEF ReadNamespaces, Run
    <3> QED
      BY <3>2 DEF ReadIndex, CatalogInv, TypeOK
  <2>4. ASSUME t[1] = "namespaces.add" PROVE copy'[q] = namespaces
    <3>1. command = "namespaces.get"
      BY <2>1, <2>2, <2>4
    <3>2. ReadNamespaces(q)
      BY <1>1, <3>1, InlineRun DEF ReadIndex, Run
    <3> QED
      BY <3>2 DEF ReadNamespaces, CatalogInv, TypeOK
  <2> QED
    BY <1>2, <2>1, <2>3, <2>4 DEF CopyIsFresh
<1>5. /\ \A h \in Hosts : Agree(h) => Agree(h)'
      /\ IndexesSeparate' /\ GoneIsGone'
  BY <1>2 DEF InlineInv, Agree, IndexesSeparate, GoneIsGone
<1> QED
  BY <1>1, <1>3, <1>4, <1>5, InlineRun, RunningStep

\* The rows of the store.
LEMMA StoreInline ==
  ASSUME CatalogInv, InlineInv, NEW q \in Calls, StoreSave(q) \/ StoreDelete(q)
  PROVE  InlineInv'
<1> DEFINE s == todo[q]
           t == Tail(s)
<1>1. PICK command \in {"store.save", "store.delete"} : Run(q, command)
  BY DEF StoreSave, StoreDelete
<1>2. UNCHANGED <<cached, index, namespaces, removed, gone, target>>
  BY DEF StoreSave, StoreDelete, historyVars, Run
<1>3. IndexUnderway(q)' /\ (t # << >> => CopyIsFresh(q)')
  BY <1>1, <1>2, InlineRun, IndexKept, CopyKept
<1>4. Shaped(s) /\ s # << >> /\ s[1] = command /\ todo'[q] = t /\ RemovalUnderway(q)
  BY <1>1, InlineRun
<1>5. /\ \A c : Has(t, c) => Has(s, c)
      /\ Has(s, s[1])
      /\ \A c, d : Before(s, c, d) => (s[1] # c => Before(t, c, d))
  <2> HIDE DEF s
  <2> QED  BY <1>4, RestHas
<1>6. RemovalUnderway(q)' /\ (command = "store.save" => target[q] \notin gone)
  <2>1. CASE command = "store.save"
    <3>1. ~Has(t, "deregistered") /\ target[q] \notin gone
      BY <1>4, <1>5, <2>1 DEF Shaped, DeletesOnly, RemovalUnderway
    <3> HIDE DEF s, t
    <3>2. \A c : Before(t, c, "deregistered")
      BY <3>1, AbsentBefore
    <3> QED
      BY <1>2, <1>4, <3>1, <3>2 DEF RemovalUnderway
  <2>2. CASE command = "store.delete"
    <3>1. StoreDelete(q)
      BY <1>1, <2>2 DEF StoreSave, Run
    <3>2. target[q] \notin store'
      BY <3>1 DEF StoreDelete
    <3>3. \/ target[q] \notin cached
          \/ Before(t, "cache.delete", "deregistered")
      BY <1>4, <1>5, <2>2 DEF RemovalUnderway
    <3> HIDE DEF t
    <3> QED
      BY <1>2, <1>4, <1>5, <2>2, <3>2, <3>3 DEF RemovalUnderway
  <2> QED  BY <2>1, <2>2
<1>7. GoneIsGone'
  <2>1. CASE StoreSave(q)
    <3>1. command = "store.save"
      BY <1>1, <2>1 DEF StoreSave, Run
    <3> QED
      BY <1>2, <1>6, <2>1, <3>1 DEF StoreSave, InlineInv, GoneIsGone
  <2>2. CASE StoreDelete(q)
    BY <1>2, <2>2 DEF StoreDelete, InlineInv, GoneIsGone
  <2> QED  BY <2>1, <2>2
<1>8. (\A h \in Hosts : Agree(h) => Agree(h)') /\ IndexesSeparate'
  BY <1>2 DEF InlineInv, Agree, IndexesSeparate
<1> QED
  BY <1>1, <1>3, <1>6, <1>7, <1>8, InlineRun, RunningStep

\* The descriptor is put into the cache.
LEMMA CacheSetInline ==
  ASSUME CatalogInv, InlineInv, NEW q \in Calls, CacheSet(q)
  PROVE  InlineInv'
<1> DEFINE s == todo[q]
           t == Tail(s)
           h == target[q]
<1>1. Run(q, "cache.set")
  BY DEF CacheSet
<1>2. /\ cached' = cached \cup {h}
      /\ UNCHANGED <<store, index, namespaces, removed, gone, target>>
  BY DEF CacheSet, historyVars, Run
<1>3. /\ Shaped(s) /\ s # << >> /\ s[1] = "cache.set" /\ todo'[q] = t
      /\ IndexUnderway(q) /\ RemovalUnderway(q)
  BY <1>1, InlineRun
<1>4. /\ \A c : Has(t, c) => Has(s, c)
      /\ \A c : Has(s, c) => s[1] = c \/ Has(t, c)
      /\ Has(s, "cache.set") /\ \A c \in LookUps : ~Has(s, c)
  <2> HIDE DEF s, t
  <2> QED  BY <1>3, RestHas DEF t, LookUps
<1>5. ~Has(t, "index.remove") /\ ~Has(t, "deregistered")
  BY <1>3, <1>4 DEF Shaped, DeletesOnly
<1>6. Has(t, "index.add") => Has(t, "namespaces.add")
  <2>1. Has(s, "index.add") => Has(s, "namespaces.add")
    BY <1>3 DEF Shaped, IndexFollows, After, Has
  <2> QED  BY <1>3, <1>4, <2>1
<1> HIDE DEF t
<1>7. \A c : Before(t, c, "index.remove") /\ Before(t, c, "deregistered")
  BY <1>5, AbsentBefore
<1>8. Has(t, "index.add") \/ (h \in cached /\ h \in index[HostNamespace[h]])
  BY <1>3, <1>4, <1>5 DEF IndexUnderway
<1>9. Has(t, "namespaces.add") \/ HostNamespace[h] \in namespaces
  BY <1>3, <1>4, <1>6, <1>8 DEF IndexUnderway
<1>10. IndexUnderway(q)'
  BY <1>2, <1>3, <1>4, <1>7, <1>8, <1>9 DEF IndexUnderway
<1>11. RemovalUnderway(q)' /\ h \notin gone
  BY <1>2, <1>3, <1>4, <1>5, <1>7 DEF RemovalUnderway
<1>12. t # << >> => CopyIsFresh(q)'
  BY <1>3, CopyKept DEF t
<1>13. /\ \A k \in Hosts : k # h /\ Agree(k) => Agree(k)'
       /\ IndexesSeparate' /\ GoneIsGone'
  BY <1>2, <1>11 DEF InlineInv, Agree, IndexesSeparate, GoneIsGone
<1>14. Running(q) /\ todo' = [todo EXCEPT ![q] = t]
  BY <1>1, InlineRun DEF t
<1> QED
  BY <1>2, <1>10, <1>11, <1>12, <1>13, <1>14, RunningStep

\* The descriptor is deleted from the cache.
LEMMA CacheDeleteInline ==
  ASSUME CatalogInv, InlineInv, NEW q \in Calls, CacheDelete(q)
  PROVE  InlineInv'
<1> DEFINE s == todo[q]
           t == Tail(s)
           h == target[q]
<1>1. Run(q, "cache.delete")
  BY DEF CacheDelete
<1>2. /\ cached' = cached \ {h}
      /\ UNCHANGED <<store, index, namespaces, removed, gone, target>>
  BY DEF CacheDelete, historyVars, Run
<1>3. /\ Shaped(s) /\ s # << >> /\ s[1] = "cache.delete" /\ todo'[q] = t
      /\ RemovalUnderway(q)
  BY <1>1, InlineRun
<1>4. /\ \A c : Has(t, c) => Has(s, c)
      /\ Has(t, "index.remove") /\ \A c \in LookUps : ~Has(s, c)
      /\ \A c, d : Before(s, c, d) => (s[1] # c => Before(t, c, d))
  <2> HIDE DEF s, t
  <2> QED  BY <1>3, RestHas DEF t, LookUps
<1>5. ~Has(t, "cache.set") /\ ~Has(t, "index.add")
  BY <1>3, <1>4 DEF Shaped, DeletesOnly
<1> HIDE DEF t
<1>6. Before(t, "cache.set", "index.add")
  BY <1>5, AbsentBefore
<1>7. IndexUnderway(q)'
  BY <1>2, <1>3, <1>4, <1>5, <1>6 DEF IndexUnderway
<1>8. h \notin store \/ Before(t, "store.delete", "deregistered")
  BY <1>3, <1>4 DEF RemovalUnderway
<1>9. RemovalUnderway(q)'
  BY <1>2, <1>3, <1>4, <1>5, <1>8 DEF RemovalUnderway
<1>10. t # << >> => CopyIsFresh(q)'
  BY <1>3, CopyKept DEF t
<1>11. /\ \A k \in Hosts : k # h /\ Agree(k) => Agree(k)'
       /\ IndexesSeparate' /\ GoneIsGone'
  BY <1>2 DEF InlineInv, Agree, IndexesSeparate, GoneIsGone
<1>12. Running(q) /\ todo' = [todo EXCEPT ![q] = t]
  BY <1>1, InlineRun DEF t
<1> QED
  BY <1>2, <1>7, <1>9, <1>10, <1>11, <1>12, RunningStep

\* The host is put into the index of its namespace, or taken out of it.
LEMMA IndexInline ==
  ASSUME CatalogInv, InlineInv, NEW q \in Calls, IndexAdd(q) \/ IndexRemove(q)
  PROVE  InlineInv'
<1> DEFINE s == todo[q]
           t == Tail(s)
           h == target[q]
           ns == HostNamespace[h]
<1>1. PICK command \in IndexWrites : Run(q, command)
  BY DEF IndexAdd, IndexRemove, WriteIndex, IndexWrites
<1>2. /\ Shaped(s) /\ s # << >> /\ s[1] = command /\ todo'[q] = t
      /\ h \in Hosts /\ ns \in Namespaces
      /\ CopyIsFresh(q) /\ IndexUnderway(q) /\ RemovalUnderway(q)
  BY <1>1, InlineRun
<1>3. UNCHANGED <<store, cached, namespaces, removed, gone, target>>
  BY DEF IndexAdd, IndexRemove, WriteIndex, historyVars, Run
<1>4. /\ command = "index.add" => index' = [index EXCEPT ![ns] = @ \cup {h}]
      /\ command = "index.remove" => index' = [index EXCEPT ![ns] = @ \ {h}]
  <2>1. copy[q] = index[ns]
    BY <1>1, <1>2 DEF CopyIsFresh
  <2>2. CASE command = "index.add"
    <3>1. IndexAdd(q)
      BY <1>1, <2>2 DEF IndexRemove, WriteIndex, Run
    <3>2. h \in copy[q] => index[ns] = index[ns] \cup {h}
      BY <2>1
    <3> QED
      BY <2>1, <2>2, <3>1, <3>2 DEF IndexAdd, WriteIndex
  <2>3. CASE command = "index.remove"
    <3>1. IndexRemove(q)
      BY <1>1, <2>3 DEF IndexAdd, WriteIndex, Run
    <3> QED
      BY <2>1, <2>3, <3>1 DEF IndexRemove, WriteIndex
  <2> QED  BY <1>1, <2>2, <2>3 DEF IndexWrites
<1>5. /\ command = "index.add" => h \in index'[ns]
      /\ command = "index.remove" => h \notin index'[ns]
      /\ \A k \in Hosts : k # h => (k \in index'[HostNamespace[k]] <=> k \in index[HostNamespace[k]])
      /\ IndexesSeparate'
  <2>1. /\ index \in [Namespaces -> SUBSET Hosts] /\ HostNamespace \in [Hosts -> Namespaces]
        /\ IndexesSeparate /\ (command = "index.add" \/ command = "index.remove")
    BY <1>1, CatalogConstants DEF CatalogInv, TypeOK, InlineInv, IndexWrites
  <2>2. /\ \A n \in Namespaces : n # ns => index'[n] = index[n]
        /\ index'[ns] = IF command = "index.add" THEN index[ns] \cup {h} ELSE index[ns] \ {h}
    BY <1>2, <1>4, <2>1
  <2> HIDE DEF ns, h
  <2>3. /\ command = "index.add" => h \in index'[ns]
        /\ command = "index.remove" => h \notin index'[ns]
    BY <2>2
  <2>4. \A k \in Hosts : k # h => (k \in index'[HostNamespace[k]] <=> k \in index[HostNamespace[k]])
    BY <1>2, <2>1, <2>2
  <2>5. IndexesSeparate'
    BY <1>2, <2>1, <2>2 DEF IndexesSeparate, ns
  <2> QED
    BY <2>3, <2>4, <2>5
<1>6. /\ \A c : Has(t, c) => Has(s, c)
      /\ \A c : Has(s, c) => s[1] = c \/ Has(t, c)
      /\ Has(s, s[1]) /\ \A c \in LookUps : ~Has(s, c)
      /\ \A c, d : Before(s, c, d) => s[1] # d /\ (s[1] # c => Before(t, c, d))
      /\ s[1] = "index.add" => Has(t, "namespaces.add")
  <2> HIDE DEF s, t
  <2> QED  BY <1>1, <1>2, RestHas DEF t, LookUps, IndexWrites
<1>7. IndexUnderway(q)'
  <2>1. CASE command = "index.add"
    <3>1. h \in cached
      BY <1>2, <1>6, <2>1 DEF IndexUnderway
    <3>2. ~Has(t, "index.remove")
      BY <1>2, <1>6, <2>1 DEF Shaped, DeletesOnly
    <3>3. Before(t, "cache.delete", "index.remove")
      BY <3>2, AbsentBefore
    <3> HIDE DEF t
    <3> QED
      BY <1>2, <1>3, <1>5, <1>6, <2>1, <3>1, <3>3 DEF IndexUnderway
  <2>2. CASE command = "index.remove"
    <3>1. h \notin cached
      BY <1>2, <1>6, <2>2 DEF IndexUnderway
    <3>2. ~Has(t, "cache.set") /\ ~Has(t, "index.add")
      BY <1>2, <1>6, <2>2 DEF Shaped, DeletesOnly
    <3>3. Before(t, "cache.set", "index.add")
      BY <3>2, AbsentBefore
    <3> HIDE DEF t
    <3> QED
      BY <1>2, <1>3, <1>5, <1>6, <2>2, <3>1, <3>2, <3>3 DEF IndexUnderway
  <2> QED  BY <1>1, <2>1, <2>2 DEF IndexWrites
<1>8. RemovalUnderway(q)' /\ (t # << >> => CopyIsFresh(q)')
  BY <1>1, <1>2, <1>3, RemovalKept, CopyKept DEF IndexWrites
<1>9. (\A k \in Hosts : k # h /\ Agree(k) => Agree(k)') /\ GoneIsGone'
  BY <1>3, <1>5 DEF InlineInv, Agree, GoneIsGone
<1> QED
  BY <1>1, <1>5, <1>7, <1>8, <1>9, InlineRun, RunningStep

\* The namespace is tracked.
LEMMA NamespacesInline ==
  ASSUME CatalogInv, InlineInv, NEW q \in Calls, NamespacesAdd(q)
  PROVE  InlineInv'
<1> DEFINE s == todo[q]
           t == Tail(s)
           h == target[q]
<1>1. Run(q, "namespaces.add")
  BY DEF NamespacesAdd
<1>2. /\ Shaped(s) /\ s # << >> /\ s[1] = "namespaces.add" /\ todo'[q] = t
      /\ CopyIsFresh(q) /\ IndexUnderway(q) /\ RemovalUnderway(q)
  BY <1>1, InlineRun
<1>3. /\ namespaces' = namespaces \cup {HostNamespace[h]}
      /\ UNCHANGED <<store, cached, index, removed, gone, target>>
  BY <1>2 DEF NamespacesAdd, historyVars, Run, CopyIsFresh
<1>4. /\ \A c : Has(t, c) => Has(s, c)
      /\ \A c : Has(s, c) => s[1] = c \/ Has(t, c)
      /\ \A c \in LookUps : ~Has(s, c)
      /\ \A c, d : Before(s, c, d) => (s[1] # c => Before(t, c, d))
  <2> HIDE DEF s, t
  <2> QED  BY <1>2, RestHas DEF t, LookUps
<1>5. RemovalUnderway(q)' /\ (t # << >> => CopyIsFresh(q)')
  BY <1>2, <1>3, RemovalKept, CopyKept
<1>6. /\ h \in cached \/ Before(t, "cache.set", "index.add")
      /\ h \notin cached \/ Before(t, "cache.delete", "index.remove")
  BY <1>2, <1>4 DEF IndexUnderway
<1>7. IndexUnderway(q)'
  <2> HIDE DEF t
  <2> QED  BY <1>2, <1>3, <1>4, <1>6 DEF IndexUnderway
<1>8. /\ \A k \in Hosts : Agree(k) => Agree(k)'
      /\ IndexesSeparate' /\ GoneIsGone'
  BY <1>3 DEF InlineInv, Agree, IndexesSeparate, GoneIsGone
<1> QED
  BY <1>1, <1>5, <1>7, <1>8, InlineRun, RunningStep

\* The answer to a deregistration.
LEMMA DeregisteredInline ==
  ASSUME CatalogInv, InlineInv, NEW q \in Calls, Deregistered(q)
  PROVE  InlineInv'
<1> DEFINE s == todo[q]
           t == Tail(s)
           h == target[q]
<1>1. Run(q, "deregistered")
  BY DEF Deregistered
<1>2. /\ Shaped(s) /\ s # << >> /\ s[1] = "deregistered" /\ todo'[q] = t
      /\ IndexUnderway(q) /\ RemovalUnderway(q)
  BY <1>1, InlineRun
<1>3. /\ gone' = gone \cup {h}
      /\ UNCHANGED <<store, cached, index, namespaces, removed, target>>
  BY DEF Deregistered, storageVars, Run
<1>4. IndexUnderway(q)' /\ (t # << >> => CopyIsFresh(q)')
  BY <1>2, <1>3, IndexKept, CopyKept
<1>5. /\ \A c : Has(t, c) => Has(s, c)
      /\ Has(s, "deregistered")
      /\ \A c, d : Before(s, c, d) => s[1] # d
  <2> HIDE DEF s, t
  <2> QED  BY <1>2, RestHas DEF t
<1>6. h \notin store /\ h \notin cached /\ h \in removed
  BY <1>2, <1>5 DEF RemovalUnderway
<1>7. ~Has(t, "store.save") /\ ~Has(t, "cache.set")
  BY <1>2, <1>5 DEF Shaped, DeletesOnly
<1>8. RemovalUnderway(q)'
  <2> HIDE DEF t
  <2> QED  BY <1>2, <1>3, <1>6, <1>7 DEF RemovalUnderway
<1>9. /\ \A k \in Hosts : Agree(k) => Agree(k)'
      /\ IndexesSeparate' /\ GoneIsGone'
  BY <1>3, <1>6 DEF InlineInv, Agree, IndexesSeparate, GoneIsGone
<1> QED
  BY <1>1, <1>4, <1>8, <1>9, InlineRun, RunningStep

\* get: what is found is in the index, or will be.
LEMMA GetInline ==
  ASSUME CatalogInv, InlineInv, NEW q \in Calls, CacheGet(q) \/ StoreGet(q)
  PROVE  InlineInv'
<1> DEFINE s == todo[q]
           h == target[q]
           f == found[q]
           w == Warm \o f
<1>1. /\ Shaped(s) /\ s # << >> /\ h \in Hosts /\ f \in FoundPrograms
      /\ Running(q) /\ CopyIsFresh(q) /\ IndexUnderway(q) /\ RemovalUnderway(q)
  BY DEF CatalogInv, Programs, CacheGet, StoreGet, LookUp, RequestsTypeOK, RequestTypeOK,
         InlineInv, RunningUnderway, Running
<1>2. PICK command \in LookUps : Head(s) = command
  BY DEF CacheGet, StoreGet, LookUp, LookUps
<1>3. Has(s, command) /\ s[1] = command
  <2> HIDE DEF s
  <2> QED  BY <1>1, <1>2, RestHas
<1>4. Agree(h)
  BY <1>3 DEF IndexUnderway, InlineInv, RunningUnderway, Running, CacheGet, StoreGet, LookUp
<1>5. UNCHANGED <<store, cached, index, namespaces, removed, gone, target>>
  BY DEF CacheGet, StoreGet, LookUp, storageVars, historyVars
<1>6. /\ \A k \in Hosts : Agree(k) => Agree(k)'
      /\ IndexesSeparate' /\ GoneIsGone'
  BY <1>5 DEF InlineInv, Agree, IndexesSeparate, GoneIsGone
<1>7. \/ todo' = [todo EXCEPT ![q] = Tail(s)]
      \/ h \in cached /\ todo' = [todo EXCEPT ![q] = f]
      \/ h \in store /\ todo' = [todo EXCEPT ![q] = w]
  BY DEF CacheGet, StoreGet, LookUp
<1>8. ASSUME NEW t, todo' = [todo EXCEPT ![q] = t] PROVE todo'[q] = t
  BY <1>8 DEF CatalogInv, TypeOK
<1>9. CASE todo' = [todo EXCEPT ![q] = Tail(s)]
  <2>1. todo'[q] = Tail(s)
    BY <1>8, <1>9
  <2>2. IndexUnderway(q)' /\ RemovalUnderway(q)' /\ (Tail(s) # << >> => CopyIsFresh(q)')
    BY <1>1, <1>3, <1>5, <2>1, IndexKept, RemovalKept, CopyKept DEF LookUps
  <2> QED
    BY <1>1, <1>5, <1>6, <1>9, <2>2, RunningStep
<1>10. CASE h \in cached /\ todo' = [todo EXCEPT ![q] = f]
  <2>1. todo'[q] = f
    BY <1>8, <1>10
  <2> HIDE DEF f
  <2>2. f \in Seq(Commands) /\ \A i \in 1..Len(f) : f[i] \in {"store.save", "cache.set"}
    BY <1>1, FoundShaped DEF Shaped
  <2>3. \A c : Has(f, c) => c \in {"store.save", "cache.set"}
    BY <2>2 DEF Has
  <2>4. \A c : /\ Before(f, c, "index.add") /\ Before(f, c, "index.remove")
               /\ Before(f, c, "deregistered")
    BY <2>3, AbsentBefore
  <2>5. IndexUnderway(q)'
    BY <1>4, <1>5, <1>10, <2>1, <2>3, <2>4 DEF IndexUnderway, Agree, LookUps
  <2>6. RemovalUnderway(q)'
    BY <1>5, <1>10, <2>1, <2>3, <2>4 DEF RemovalUnderway, InlineInv, GoneIsGone
  <2>7. f # << >> => CopyIsFresh(q)'
    <3>1. f # << >> => f[1] \in {"store.save", "cache.set"}
      BY <2>2
    <3> QED  BY <2>1, <3>1 DEF CopyIsFresh, IndexWrites
  <2> QED
    BY <1>1, <1>5, <1>6, <1>10, <2>5, <2>6, <2>7, RunningStep
<1>11. CASE h \in store /\ todo' = [todo EXCEPT ![q] = w]
  <2>1. todo'[q] = w
    BY <1>8, <1>11
  <2>2. /\ w[1] = "cache.set" /\ Before(w, "cache.set", "index.add")
        /\ Has(w, "index.add") /\ Has(w, "namespaces.add")
        /\ \A i \in 1..Len(w) : w[i] \in {"store.save", "cache.set", "index.get", "index.add",
                                        "namespaces.get", "namespaces.add"}
    <3> HIDE DEF f
    <3> QED  BY <1>1, WarmShaped
  <2> HIDE DEF w
  <2>3. \A c : Has(w, c) => c \in {"store.save", "cache.set", "index.get", "index.add",
                                  "namespaces.get", "namespaces.add"}
    BY <2>2 DEF Has
  <2>4. \A c : Before(w, c, "index.remove") /\ Before(w, c, "deregistered")
    BY <2>3, AbsentBefore
  <2>5. IndexUnderway(q)'
    BY <1>5, <2>1, <2>2, <2>3, <2>4 DEF IndexUnderway, LookUps
  <2>6. RemovalUnderway(q)'
    BY <1>5, <1>11, <2>1, <2>3, <2>4 DEF RemovalUnderway, InlineInv, GoneIsGone
  <2>7. CopyIsFresh(q)'
    BY <2>1, <2>2 DEF CopyIsFresh, IndexWrites
  <2> QED
    BY <1>1, <1>5, <1>6, <1>11, <2>5, <2>6, <2>7, RunningStep
<1> QED
  BY <1>7, <1>9, <1>10, <1>11

\* A request begins when no other runs, so cache and index agree on its host.
LEMMA BeginInline ==
  ASSUME InlineStorage, CatalogInv, InlineInv,
         NEW q \in Calls, NEW h \in Hosts, NEW s, Starts(s), NEW f, Begin(q, h, s, f),
         gone' \subseteq gone, removed \subseteq removed',
         Has(s, "store.save") \/ Has(s, "cache.set") => h \notin gone',
         Has(s, "deregistered") => h \in removed'
  PROVE  InlineInv'
<1>1. /\ \A p \in Calls : ~Running(p)
      /\ target' = [target EXCEPT ![q] = h] /\ todo' = [todo EXCEPT ![q] = s]
      /\ UNCHANGED <<store, cached, index, namespaces>>
  BY DEF Begin, NewTurn, Idle, Running, storageVars
<1>2. todo'[q] = s /\ target'[q] = h
  BY <1>1 DEF CatalogInv, TypeOK
<1>3. \A p \in Calls : Running(p)' <=> p = q
  BY <1>1, <1>2 DEF CatalogInv, TypeOK, Running, Starts
<1>4. \A k \in Hosts : Agree(k) /\ Agree(k)'
  BY <1>1 DEF InlineInv, OthersAgree, Agree
<1>5. CopyIsFresh(q)'
  BY <1>2 DEF CopyIsFresh, Starts
<1>6. IndexUnderway(q)'
  BY <1>2, <1>4 DEF IndexUnderway, Starts, Agree
<1>7. RemovalUnderway(q)'
  BY <1>2 DEF RemovalUnderway, Starts
<1>8. IndexesSeparate' /\ GoneIsGone'
  BY <1>1 DEF InlineInv, IndexesSeparate, GoneIsGone
<1> QED
  BY <1>3, <1>4, <1>5, <1>6, <1>7, <1>8 DEF InlineInv, OneRunning, RunningUnderway, OthersAgree

\* The five kinds of requests: only a handshake may bring back a host that is gone.
LEMMA RequestInline ==
  ASSUME InlineStorage, CatalogInv, InlineInv, NEW q \in Calls, NEW h \in Hosts,
         \/ HostsRegister(q, h) \/ HostsDelete(q, h) \/ HostsGet(q, h)
         \/ AgentConnects(q, h) \/ StatusWritten(q, h)
  PROVE  InlineInv'
<1>1. CASE HostsRegister(q, h)
  <2>1. ~Has(Register, "deregistered")
    BY RegisterIs DEF Has
  <2>2. h \notin gone
    BY <1>1 DEF HostsRegister, InlineInv, GoneIsGone
  <2> QED
    BY <1>1, <2>1, <2>2, RegisterStarts, BeginInline DEF HostsRegister, historyVars
<1>2. CASE HostsDelete(q, h)
  <2>1. ~Has(Deregister, "store.save") /\ ~Has(Deregister, "cache.set")
    BY DEF Has, Deregister
  <2> QED
    BY <1>2, <2>1, DeregisterStarts, BeginInline DEF HostsDelete
<1>3. CASE HostsGet(q, h)
  <2>1. ~Has(Get, "store.save") /\ ~Has(Get, "cache.set") /\ ~Has(Get, "deregistered")
    BY DEF Has, Get
  <2> QED
    BY <1>3, <2>1, GetStarts, BeginInline DEF HostsGet, historyVars
<1>4. CASE AgentConnects(q, h)
  <2>1. ~Has(Get \o Create, "deregistered")
    BY EnsureIs DEF Has
  <2>2. PICK update \in Ensured : Begin(q, h, Get \o Create, update)
    BY <1>4 DEF AgentConnects
  <2>3. gone' = gone \ {h} /\ removed' = removed
    BY <1>4 DEF AgentConnects
  <2> QED
    BY <2>1, <2>2, <2>3, EnsureStarts, BeginInline
<1>5. CASE StatusWritten(q, h)
  <2>1. /\ ~Has(<<"cache.get">>, "store.save") /\ ~Has(<<"cache.get">>, "cache.set")
        /\ ~Has(<<"cache.get">>, "deregistered")
    BY DEF Has
  <2>2. PICK write \in StatusWrites : Begin(q, h, <<"cache.get">>, write)
    BY <1>5 DEF StatusWritten
  <2> QED
    BY <1>5, <2>1, <2>2, CacheGetStarts, BeginInline DEF StatusWritten, historyVars
<1> QED
  BY <1>1, <1>2, <1>3, <1>4, <1>5

\* restore puts what the store has into cache, index and namespaces.
LEMMA RestartInline ==
  ASSUME InlineStorage, CatalogInv, InlineInv, NEW cacheSurvives \in BOOLEAN, Restart(cacheSurvives)
  PROVE  InlineInv'
<1>1. /\ cached' = store /\ index' = [ns \in Namespaces |-> InNamespace(store, ns)]
      /\ namespaces' = {HostNamespace[h] : h \in store}
      /\ UNCHANGED <<store, removed, gone>>
      /\ todo' = [q \in Calls |-> << >>]
  BY DEF Restart
<1>2. \A q \in Calls : ~Running(q)'
  BY <1>1 DEF Running
<1>3. \A h \in Hosts : Agree(h)'
  BY <1>1, CatalogConstants DEF Agree, InNamespace
<1>4. IndexesSeparate' /\ GoneIsGone'
  BY <1>1 DEF IndexesSeparate, InNamespace, InlineInv, GoneIsGone
<1> QED
  BY <1>2, <1>3, <1>4 DEF InlineInv, OneRunning, RunningUnderway, OthersAgree

\* The first start.
LEMMA InlineInit == Init => InlineInv
  BY CatalogConstants DEF Init, InlineInv, OneRunning, RunningUnderway, OthersAgree, Running, Agree,
    IndexesSeparate, GoneIsGone

\* Every step preserves the invariant.
LEMMA InlineCatalogStep == InlineCatalogInv /\ [Next]_vars => InlineCatalogInv'
<1> SUFFICES ASSUME CatalogInv, InlineStorage => InlineInv, [Next]_vars PROVE InlineCatalogInv'
  BY DEF InlineCatalogInv
<1>1. CatalogInv'
  BY CatalogStep
<1>2. ASSUME InlineStorage PROVE InlineInv'
  <2>1. InlineInv
    BY <1>2
  <2>2. ASSUME NEW q \in Calls, NEW h \in Hosts,
               \/ HostsRegister(q, h) \/ HostsDelete(q, h) \/ HostsGet(q, h)
               \/ AgentConnects(q, h) \/ StatusWritten(q, h)
        PROVE  InlineInv'
    BY <1>2, <2>1, <2>2, RequestInline
  <2>3. ASSUME NEW q \in Calls, Step(q) PROVE InlineInv'
    BY <2>1, <2>3, StoreInline, TokenInline, CacheSetInline, CacheDeleteInline, GetInline,
       ReadInline, IndexInline, NamespacesInline, DeregisteredInline DEF Step
  <2>4. ASSUME NEW cacheSurvives \in BOOLEAN, Restart(cacheSurvives) PROVE InlineInv'
    BY <1>2, <2>1, <2>4, RestartInline
  <2>5. CASE UNCHANGED vars
    BY <2>1, <2>5 DEF vars, InlineInv, OneRunning, RunningUnderway, OthersAgree, Running, Agree,
      IndexesSeparate, GoneIsGone, CopyIsFresh, IndexUnderway, RemovalUnderway
  <2> QED
    BY <2>2, <2>3, <2>4, <2>5 DEF Next
<1> QED
  BY <1>1, <1>2 DEF InlineCatalogInv

-----------------------------------------------------------------------------
\* The theorems

\* The invariant holds in every reachable state.
THEOREM CatalogInvariant == Spec => []InlineCatalogInv
<1>1. Init => InlineCatalogInv
  BY CatalogInit, InlineInit DEF InlineCatalogInv
<1> QED
  BY <1>1, InlineCatalogStep, PTL DEF Spec

\* Cache, store, lists and requests keep their types, with either kind of storage.
THEOREM CatalogTypeCorrect == Spec => []TypeOK
<1>1. InlineCatalogInv => TypeOK
  BY DEF InlineCatalogInv, CatalogInv
<1> QED
  BY <1>1, CatalogInvariant, PTL

(***************************************************************************)
(* With a store, a host whose POST /hosts/register was answered stays in   *)
(* the list until its removal is asked for, with either kind of storage    *)
(* and across restarts at any command.                                     *)
(***************************************************************************)
THEOREM RegistrationsLast == ASSUME HasStore PROVE Spec => []RegisteredIsListed
<1>1. InlineCatalogInv => RegisteredIsListed
  BY CatalogConstants DEF InlineCatalogInv, CatalogInv, TypeOK, RegistrationsSaved,
    RegisteredIsListed, List, InNamespace
<1> QED
  BY <1>1, CatalogInvariant, PTL

(***************************************************************************)
(* With inline storage the read-modify-writes of host:index and            *)
(* host:namespaces lose nothing: between two requests they name the cached *)
(* hosts and no others, wherever an earlier process was stopped.           *)
(***************************************************************************)
THEOREM IndexesComplete == ASSUME InlineStorage PROVE Spec => []CacheIsIndexed
<1>1. ASSUME InlineCatalogInv, \A q \in Calls : Idle(q)
      PROVE  /\ \A ns \in Namespaces : index[ns] = InNamespace(cached, ns)
             /\ \A h \in cached : HostNamespace[h] \in namespaces
  <2>1. \A h \in Hosts : Agree(h)
    BY <1>1 DEF InlineCatalogInv, InlineInv, OthersAgree, Running, Idle
  <2>2. /\ cached \subseteq Hosts /\ index \in [Namespaces -> SUBSET Hosts] /\ IndexesSeparate
    BY <1>1 DEF InlineCatalogInv, InlineInv, CatalogInv, TypeOK
  <2> QED
    BY <2>1, <2>2 DEF Agree, IndexesSeparate, InNamespace
<1>2. InlineCatalogInv => CacheIsIndexed
  BY <1>1 DEF CacheIsIndexed
<1> QED
  BY <1>2, CatalogInvariant, PTL

(***************************************************************************)
(* With inline storage a host that was deregistered is neither in the      *)
(* store nor in the cache before its agent connects again: no status       *)
(* write, get or restart brings it back.                                   *)
(***************************************************************************)
THEOREM RemovalsLast == ASSUME InlineStorage PROVE Spec => []DeregisteredIsGone
<1>1. InlineCatalogInv => DeregisteredIsGone
  BY DEF InlineCatalogInv, InlineInv, GoneIsGone, DeregisteredIsGone
<1> QED
  BY <1>1, CatalogInvariant, PTL
=============================================================================
