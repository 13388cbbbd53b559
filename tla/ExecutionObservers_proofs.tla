--------------------- MODULE ExecutionObservers_proofs ---------------------
(***************************************************************************)
(* Proofs about ExecutionObservers, for any number of observers,           *)
(* executions, namespaces and retries: the invariants the run "observers"  *)
(* checks on a small instance.                                             *)
(***************************************************************************)
EXTENDS ExecutionObservers, SequenceTheorems, TLAPS

-----------------------------------------------------------------------------
\* The inductive invariant

\* An observer of an execution joined its stream before the end of it.
JoinedInTime ==
  \A c \in Clients : \A e \in byConnection[c] :
    /\ status[e] \in {"live", "ended"}
    /\ joined[c][e] <= Len(stream[e])
    /\ status[e] = "ended" => joined[c][e] < Len(stream[e])

\* execution:done is the last event of an ended stream.
EndedIsDone ==
  \A e \in Executions : status[e] = "ended" =>
    /\ stream[e] # << >>
    /\ \E code \in {0, 1, 130} : stream[e][Len(stream[e])] = DoneEvent(code)

ObserversInv ==
  ObserversTypeOK /\ SubscriptionsAgree /\ NoEventMissed /\ JoinedInTime /\ EndedIsDone

-----------------------------------------------------------------------------
\* What was written to a stream since some moment grows with the stream.
LEMMA SinceGrows ==
  ASSUME NEW S, NEW s \in Seq(S), NEW t \in Seq(S), NEW j \in Nat, j <= Len(s)
  PROVE  /\ s \o t \in Seq(S)
         /\ Len(s \o t) = Len(s) + Len(t)
         /\ SubSeq(s \o t, Len(s) + 1, Len(s \o t)) = t
         /\ SubSeq(s \o t, j + 1, Len(s \o t)) = SubSeq(s, j + 1, Len(s)) \o t
<1>1. /\ s \o t \in Seq(S)
      /\ Len(s \o t) = Len(s) + Len(t)
      /\ \A i \in 1 .. Len(s) + Len(t) :
           (s \o t)[i] = IF i <= Len(s) THEN s[i] ELSE t[i - Len(s)]
  BY ConcatProperties
<1>2. Len(s) \in Nat /\ Len(t) \in Nat
  BY LenProperties
<1>3. \A i \in 1 .. Len(s) : s[i] \in S
  BY ElementOfSeq
<1>4. \A i \in 1 .. Len(t) : t[i] \in S
  BY ElementOfSeq
<1>5. \A i \in 1 .. Len(s) + Len(t) : (s \o t)[i] \in S
  BY <1>1, <1>2, ElementOfSeq
<1>6. SubSeq(s \o t, Len(s) + 1, Len(s \o t)) = t
  <2> DEFINE u == SubSeq(s \o t, Len(s) + 1, Len(s) + Len(t))
  <2>1. /\ u \in Seq(S)
        /\ Len(u) = Len(t)
        /\ \A i \in 1 .. Len(t) : u[i] = (s \o t)[Len(s) + 1 + i - 1]
    <3>1. \A i \in Len(s) + 1 .. Len(s) + Len(t) : (s \o t)[i] \in S
      BY <1>2, <1>5
    <3>2. /\ u \in Seq(S)
          /\ Len(u) = IF Len(s) + 1 <= Len(s) + Len(t)
                        THEN Len(s) + Len(t) - (Len(s) + 1) + 1 ELSE 0
          /\ \A i \in 1 .. Len(s) + Len(t) - (Len(s) + 1) + 1 :
               u[i] = (s \o t)[Len(s) + 1 + i - 1]
      BY <1>2, <3>1, SubSeqProperties
    <3>3. QED BY <1>2, <3>2
  <2>2. \A i \in 1 .. Len(t) : u[i] = t[i]
    BY <1>1, <1>2, <2>1
  <2> HIDE DEF u
  <2>3. u = t
    BY <2>1, <2>2, SeqEqual
  <2>4. QED BY <1>1, <2>3 DEF u
<1>7. SubSeq(s \o t, j + 1, Len(s \o t)) = SubSeq(s, j + 1, Len(s)) \o t
  <2> DEFINE v == SubSeq(s \o t, j + 1, Len(s) + Len(t))
             w == SubSeq(s, j + 1, Len(s))
  <2>1. /\ v \in Seq(S)
        /\ Len(v) = Len(s) + Len(t) - j
        /\ \A i \in 1 .. Len(s) + Len(t) - j : v[i] = (s \o t)[j + i]
    <3>1. \A i \in j + 1 .. Len(s) + Len(t) : (s \o t)[i] \in S
      BY <1>2, <1>5
    <3>2. /\ v \in Seq(S)
          /\ Len(v) = IF j + 1 <= Len(s) + Len(t) THEN Len(s) + Len(t) - (j + 1) + 1 ELSE 0
          /\ \A i \in 1 .. Len(s) + Len(t) - (j + 1) + 1 : v[i] = (s \o t)[j + 1 + i - 1]
      BY <1>2, <3>1, SubSeqProperties
    <3>3. QED BY <1>2, <3>2
  <2>2. /\ w \in Seq(S)
        /\ Len(w) = Len(s) - j
        /\ \A i \in 1 .. Len(s) - j : w[i] = s[j + i]
    <3>1. \A i \in j + 1 .. Len(s) : s[i] \in S
      BY <1>2, <1>3
    <3>2. /\ w \in Seq(S)
          /\ Len(w) = IF j + 1 <= Len(s) THEN Len(s) - (j + 1) + 1 ELSE 0
          /\ \A i \in 1 .. Len(s) - (j + 1) + 1 : w[i] = s[j + 1 + i - 1]
      BY <1>2, <3>1, SubSeqProperties
    <3>3. QED BY <1>2, <3>2
  <2> HIDE DEF v, w
  <2>3. /\ w \o t \in Seq(S)
        /\ Len(w \o t) = Len(w) + Len(t)
        /\ \A i \in 1 .. Len(w) + Len(t) :
             (w \o t)[i] = IF i <= Len(w) THEN w[i] ELSE t[i - Len(w)]
    BY <2>2, ConcatProperties
  <2>4. Len(v) = Len(w \o t)
    <3>1. Len(w) + Len(t) = Len(s) + Len(t) - j
      BY <1>2, <2>2
    <3>2. QED BY <2>1, <2>3, <3>1
  <2>5. ASSUME NEW i \in 1 .. Len(v) PROVE v[i] = (w \o t)[i]
    <3>1. i \in 1 .. Len(s) + Len(t) - j /\ i \in 1 .. Len(w) + Len(t) /\ i \in Nat
      BY <1>2, <2>1, <2>2
    <3>2. v[i] = (s \o t)[j + i]
      BY <2>1, <3>1
    <3>3. (s \o t)[j + i] = IF j + i <= Len(s) THEN s[j + i] ELSE t[j + i - Len(s)]
      <4>1. j + i \in 1 .. Len(s) + Len(t)
        BY <1>2, <3>1
      <4>2. QED BY <1>1, <4>1
    <3>4. (w \o t)[i] = IF i <= Len(w) THEN w[i] ELSE t[i - Len(w)]
      BY <2>3, <3>1
    <3>5. CASE j + i <= Len(s)
      <4>1. i <= Len(w) /\ i \in 1 .. Len(s) - j
        BY <1>2, <2>2, <3>1, <3>5
      <4>2. QED BY <2>2, <3>2, <3>3, <3>4, <3>5, <4>1
    <3>6. CASE ~(j + i <= Len(s))
      <4>1. ~(i <= Len(w)) /\ i - Len(w) = j + i - Len(s)
        BY <1>2, <2>2, <3>1, <3>6
      <4>2. QED BY <3>2, <3>3, <3>4, <3>6, <4>1
    <3>7. QED BY <3>5, <3>6
  <2>6. v = w \o t
    BY <2>1, <2>3, <2>4, <2>5, SeqEqual
  <2>7. QED BY <1>1, <2>6 DEF v, w
<1>8. QED BY <1>1, <1>6, <1>7

-----------------------------------------------------------------------------
(***************************************************************************)
(* The handshake, and a peer that starts to close: subscriptions stay, and *)
(* a connection that becomes open has none yet.                            *)
(***************************************************************************)
LEMMA ConnectionSteps ==
  ASSUME ObserversInv, NEW c \in Clients,
         ClientUpgrade(c) \/ HelloFailed(c) \/ HelloDone(c) \/ ClientClosing(c)
  PROVE  ObserversInv'
<1> USE DEF ObserversInv, ObserversTypeOK
<1>1. UNCHANGED <<status, cancelledBy, stream, byExecution, byConnection, received, joined>>
  BY DEF ClientUpgrade, HelloFailed, HelloDone, ClientClosing, streamVars
<1>2. ObserversTypeOK'
  <2>1. stage' \in [Clients -> {"new", "hello", "serving", "over"}]
    BY DEF ClientUpgrade, HelloFailed, HelloDone, ClientClosing
  <2>2. readyState' \in [Clients -> {"OPEN", "CLOSING", "CLOSED"}]
    BY DEF ClientUpgrade, HelloFailed, HelloDone, ClientClosing
  <2>3. sockets' \subseteq Clients
    BY DEF ClientUpgrade, HelloFailed, HelloDone, ClientClosing
  <2>4. QED BY <1>1, <2>1, <2>2, <2>3
<1>3. SubscriptionsAgree'
  <2>1. \A d \in Clients : d \in sockets' <=> stage'[d] = "serving"
    BY DEF SubscriptionsAgree, ClientUpgrade, HelloFailed, HelloDone, ClientClosing
  <2>2. sockets \subseteq sockets'
    BY DEF ClientUpgrade, HelloFailed, HelloDone, ClientClosing
  <2>3. sockets' = {d \in Clients : stage'[d] = "serving"}
    BY <1>2, <2>1
  <2>4. QED BY <1>1, <2>2, <2>3 DEF SubscriptionsAgree
<1>4. NoEventMissed'
  <2>1. \A d \in Clients : readyState'[d] = "OPEN" => readyState[d] = "OPEN" \/ byConnection[d] = {}
    BY DEF SubscriptionsAgree, ClientUpgrade, HelloFailed, HelloDone, ClientClosing
  <2>2. QED BY <1>1, <2>1 DEF NoEventMissed
<1>5. JoinedInTime' /\ EndedIsDone'
  BY <1>1 DEF JoinedInTime, EndedIsDone
<1>6. QED BY <1>2, <1>3, <1>4, <1>5

\* 'close' takes the connection out of every map.
LEMMA ClosedStep ==
  ASSUME ObserversInv, NEW c \in Clients, ClientClosed(c)
  PROVE  ObserversInv'
<1> USE DEF ObserversInv, ObserversTypeOK
<1>1. UNCHANGED <<status, cancelledBy, stream, received, joined>>
  BY DEF ClientClosed, streamVars
<1>2. ObserversTypeOK'
  <2>1. CASE stage[c] = "serving"
    <3>1. byExecution' \in [Executions -> SUBSET Clients]
      <4>1. \A e \in Executions : /\ byExecution[e] \ {c} \in SUBSET Clients
                                  /\ byExecution[e] \in SUBSET Clients
        OBVIOUS
      <4>2. byExecution' = [e \in Executions |->
                 IF e \in byConnection[c] THEN byExecution[e] \ {c} ELSE byExecution[e]]
        BY <2>1 DEF ClientClosed, RemoveConnection
      <4> HIDE DEF ObserversInv, ObserversTypeOK
      <4>3. QED BY <4>1, <4>2
    <3>2. byConnection' \in [Clients -> SUBSET Executions] /\ sockets' \subseteq Clients
      BY <2>1 DEF ClientClosed, RemoveConnection
    <3>3. QED BY <1>1, <2>1, <3>1, <3>2 DEF ClientClosed
  <2>2. CASE stage[c] # "serving"
    BY <1>1, <2>2 DEF ClientClosed
  <2>3. QED BY <2>1, <2>2
<1>3. \A d \in Clients : byConnection'[d] \subseteq byConnection[d]
  BY DEF ClientClosed, RemoveConnection
<1>4. SubscriptionsAgree'
  <2>1. CASE stage[c] = "serving"
    <3>1. sockets' = sockets \ {c} /\ stage' = [stage EXCEPT ![c] = "over"]
      BY <2>1 DEF ClientClosed, RemoveConnection
    <3>2. sockets' = {d \in Clients : stage'[d] = "serving"}
      BY <3>1 DEF SubscriptionsAgree
    <3>3. ASSUME NEW d \in Clients, NEW e \in Executions
          PROVE  /\ d \in byExecution'[e] <=> d # c /\ d \in byExecution[e]
                 /\ e \in byConnection'[d] <=> d # c /\ e \in byConnection[d]
      <4>1. byExecution'[e] = IF e \in byConnection[c] THEN byExecution[e] \ {c} ELSE byExecution[e]
        BY <2>1 DEF ClientClosed, RemoveConnection
      <4>2. byConnection'[d] = IF d = c THEN {} ELSE byConnection[d]
        BY <2>1 DEF ClientClosed, RemoveConnection
      <4>3. QED BY <4>1, <4>2 DEF SubscriptionsAgree
    <3>4. QED BY <3>1, <3>2, <3>3 DEF SubscriptionsAgree
  <2>2. CASE stage[c] # "serving"
    BY <2>2 DEF SubscriptionsAgree, ClientClosed
  <2>3. QED BY <2>1, <2>2
<1>5. NoEventMissed'
  <2>1. \A d \in Clients : readyState'[d] = "OPEN" => readyState[d] = "OPEN"
    BY DEF ClientClosed
  <2>2. QED BY <1>1, <1>3, <2>1 DEF NoEventMissed
<1>6. JoinedInTime' /\ EndedIsDone'
  BY <1>1, <1>3 DEF JoinedInTime, EndedIsDone
<1>7. QED BY <1>2, <1>4, <1>5, <1>6

\* client:subscribe starts at the end of the stream; a repeated one keeps its start.
LEMMA SubscribeStep ==
  ASSUME ObserversInv, NEW c \in Clients, NEW e \in Executions, Subscribe(c, e)
  PROVE  ObserversInv'
<1> USE DEF ObserversInv, ObserversTypeOK
<1>1. /\ UNCHANGED <<status, cancelledBy, stream, stage, readyState, sockets>>
      /\ stage[c] = "serving" /\ readyState[c] = "OPEN"
      /\ status[e] = "live" /\ ExecNamespace[e] = ClientNamespace[c]
      /\ byExecution' = [byExecution EXCEPT ![e] = @ \cup {c}]
      /\ byConnection' = [byConnection EXCEPT ![c] = @ \cup {e}]
  BY DEF Subscribe, Serving, MayWatch, AddSubscription, streamVars
<1>2. \/ e \in byConnection[c] /\ UNCHANGED <<received, joined>>
      \/ /\ e \notin byConnection[c]
         /\ received' = [received EXCEPT ![c][e] = << >>]
         /\ joined' = [joined EXCEPT ![c][e] = Len(stream[e])]
  BY DEF Subscribe, SubscriptionsAgree
<1>3. Len(stream[e]) \in Nat /\ << >> \in Seq(ObserverEvents)
  BY LenProperties, EmptySeq
<1>4. ObserversTypeOK'
  <2>1. received' \in [Clients -> [Executions -> Seq(ObserverEvents)]]
    <3>1. [received[c] EXCEPT ![e] = << >>] \in [Executions -> Seq(ObserverEvents)]
      BY <1>3
    <3>2. received' = received \/ received' = [received EXCEPT ![c] = [received[c] EXCEPT ![e] = << >>]]
      BY <1>2
    <3>3. QED BY <3>1, <3>2
  <2>2. joined' \in [Clients -> [Executions -> Nat]]
    <3>1. [joined[c] EXCEPT ![e] = Len(stream[e])] \in [Executions -> Nat]
      BY <1>3
    <3>2. joined' = joined \/ joined' = [joined EXCEPT ![c] = [joined[c] EXCEPT ![e] = Len(stream[e])]]
      BY <1>2
    <3>3. QED BY <3>1, <3>2
  <2>3. byExecution' \in [Executions -> SUBSET Clients]
    BY <1>1
  <2>4. byConnection' \in [Clients -> SUBSET Executions]
    BY <1>1
  <2>5. QED BY <1>1, <2>1, <2>2, <2>3, <2>4
<1>5. SubscriptionsAgree'
  BY <1>1 DEF SubscriptionsAgree
<1>6. ASSUME NEW d \in Clients, NEW f \in byConnection'[d], ~(d = c /\ f = e)
      PROVE  /\ f \in byConnection[d] /\ f \in Executions
             /\ received'[d][f] = received[d][f] /\ joined'[d][f] = joined[d][f]
  BY <1>1, <1>2, <1>6
<1>7. \/ e \in byConnection[c] /\ UNCHANGED <<received, joined>>
      \/ received'[c][e] = << >> /\ joined'[c][e] = Len(stream[e])
  BY <1>2
<1>8. NoEventMissed'
  <2> SUFFICES ASSUME NEW d \in Clients, NEW f \in byConnection'[d], readyState'[d] = "OPEN"
               PROVE  received'[d][f] = SubSeq(stream'[f], joined'[d][f] + 1, Len(stream'[f]))
    BY DEF NoEventMissed
  <2>1. CASE ~(d = c /\ f = e)
    <3>1. f \in byConnection[d] /\ received'[d][f] = received[d][f] /\ joined'[d][f] = joined[d][f]
      BY <1>6, <2>1
    <3>2. readyState[d] = "OPEN" /\ stream' = stream
      BY <1>1
    <3>3. received[d][f] = SubSeq(stream[f], joined[d][f] + 1, Len(stream[f]))
      BY <3>1, <3>2 DEF NoEventMissed
    <3> HIDE DEF ObserversInv, ObserversTypeOK
    <3>4. QED BY <3>1, <3>2, <3>3
  <2>2. CASE d = c /\ f = e
    <3>1. SubSeq(stream[e], Len(stream[e]) + 1, Len(stream[e])) = << >>
      BY <1>3, SubSeqEmpty
    <3>2. QED BY <1>1, <1>7, <2>2, <3>1 DEF NoEventMissed
  <2>3. QED BY <2>1, <2>2
<1>9. JoinedInTime'
  <2> SUFFICES ASSUME NEW d \in Clients, NEW f \in byConnection'[d]
               PROVE  /\ status[f] \in {"live", "ended"}
                      /\ joined'[d][f] <= Len(stream[f])
                      /\ status[f] = "ended" => joined'[d][f] < Len(stream[f])
    BY <1>1 DEF JoinedInTime
  <2>1. CASE ~(d = c /\ f = e)
    BY <1>6, <2>1 DEF JoinedInTime
  <2>2. CASE d = c /\ f = e
    BY <1>1, <1>3, <1>7, <2>2 DEF JoinedInTime
  <2>3. QED BY <2>1, <2>2
<1>10. EndedIsDone'
  BY <1>1 DEF EndedIsDone
<1>11. QED BY <1>4, <1>5, <1>8, <1>9, <1>10

\* client:unsubscribe
LEMMA UnsubscribeStep ==
  ASSUME ObserversInv, NEW c \in Clients, NEW e \in Executions, Unsubscribe(c, e)
  PROVE  ObserversInv'
<1> USE DEF ObserversInv, ObserversTypeOK
<1>1. /\ UNCHANGED <<status, cancelledBy, stream, stage, readyState, sockets, received, joined>>
      /\ byExecution' = [byExecution EXCEPT ![e] = @ \ {c}]
      /\ byConnection' = [byConnection EXCEPT ![c] = @ \ {e}]
  BY DEF Unsubscribe, DropSubscription, streamVars
<1>2. ObserversTypeOK'
  BY <1>1
<1>3. SubscriptionsAgree'
  BY <1>1 DEF SubscriptionsAgree
<1>4. \A d \in Clients : byConnection'[d] \subseteq byConnection[d]
  BY <1>1
<1>5. NoEventMissed' /\ JoinedInTime' /\ EndedIsDone'
  BY <1>1, <1>4 DEF NoEventMissed, JoinedInTime, EndedIsDone
<1>6. QED BY <1>2, <1>3, <1>5

\* A refusal, an opening and a cancellation write no event and end no stream.
LEMMA SilentStep ==
  ASSUME ObserversInv, UNCHANGED clientVars,
         \/ \E e \in Executions : Refuse(e) \/ Open(e)
         \/ \E S \in SUBSET Executions, reason \in Reasons : Accept(S, reason)
  PROVE  ObserversInv'
<1> USE DEF ObserversInv, ObserversTypeOK
<1>1. /\ UNCHANGED <<stage, readyState, byExecution, byConnection, sockets, received, joined>>
      /\ stream' = stream
  BY DEF clientVars, Refuse, Open, Accept
<1>2. ObserversTypeOK'
  BY <1>1 DEF Refuse, Open, Accept
<1>3. \A e \in Executions : status'[e] = status[e] \/ (status[e] = "idle" /\ status'[e] # "ended")
  BY DEF Refuse, Open, Accept
<1>4. SubscriptionsAgree' /\ NoEventMissed'
  BY <1>1 DEF SubscriptionsAgree, NoEventMissed
<1>5. JoinedInTime'
  <2>1. \A c \in Clients : \A e \in byConnection[c] : e \in Executions /\ status[e] # "idle"
    BY DEF JoinedInTime
  <2>2. QED BY <1>1, <1>3, <2>1 DEF JoinedInTime
<1>6. EndedIsDone'
  BY <1>1, <1>3 DEF EndedIsDone
<1>7. QED BY <1>2, <1>4, <1>5, <1>6

-----------------------------------------------------------------------------
\* The events of an execution are events an observer may be sent.
LEMMA EventTypes ==
  /\ \A n \in 1..MaxAttempts : RetryEvent(n) \in ObserverEvents
  /\ ErrorEvent \in ObserverEvents
  /\ \A reason \in Reasons : CancelledEvent(reason) \in ObserverEvents
  /\ \A code \in {0, 1, 130} : DoneEvent(code) \in ObserverEvents
<1>1. \A n \in 1..MaxAttempts : RetryEvent(n) \in ObserverEvents
  BY DEF RetryEvent, ObserverEvents
<1>2. ErrorEvent \in ObserverEvents
  BY DEF ObserverEvents
<1>3. \A reason \in Reasons : CancelledEvent(reason) \in ObserverEvents
  BY DEF CancelledEvent, ObserverEvents
<1>4. \A code \in {0, 1, 130} : DoneEvent(code) \in ObserverEvents
  BY DEF DoneEvent, ObserverEvents
<1>5. QED BY <1>1, <1>2, <1>3, <1>4

\* What a step writes: a retry of a stream that goes on, or the end of it.
LEMMA Written ==
  ASSUME ObserversInv, NEW e \in Executions, Retry(e) \/ Close(e)
  PROVE  \E t \in Seq(ObserverEvents) :
           /\ t # << >>
           /\ stream' = [stream EXCEPT ![e] = @ \o t]
           /\ cancelledBy' = cancelledBy
           /\ status[e] = "live"
           /\ \/ status' = status
              \/ /\ status' = [status EXCEPT ![e] = "ended"]
                 /\ \E code \in {0, 1, 130} : t[Len(t)] = DoneEvent(code)
<1>0. stream[e] \in Seq(ObserverEvents) /\ Len(stream[e]) \in Nat
  BY LenProperties DEF ObserversInv, ObserversTypeOK
<1>1. CASE Retry(e)
  <2> DEFINE n == Len(stream[e]) + 1
  <2>1. n \in 1..MaxAttempts
    BY <1>0, <1>1, ObserverConstants DEF Retry
  <2>2. RetryEvent(n) \in ObserverEvents
    BY <2>1, EventTypes
  <2> HIDE DEF n
  <2>3. Append(stream[e], RetryEvent(n)) = stream[e] \o <<RetryEvent(n)>>
    BY <1>0, <2>2, AppendIsConcat
  <2>4. <<RetryEvent(n)>> \in Seq(ObserverEvents) /\ <<RetryEvent(n)>> # << >>
    BY <2>2
  <2>5. stream' = [stream EXCEPT ![e] = Append(stream[e], RetryEvent(n))]
    BY <1>1 DEF Retry, n
  <2>6. QED BY <1>1, <2>3, <2>4, <2>5 DEF Retry
<1>2. CASE Close(e)
  <2>1. PICK ending \in Endings(e) : stream' = [stream EXCEPT ![e] = @ \o ending]
    BY <1>2 DEF Close
  <2>2. cancelledBy[e] # NoReason => cancelledBy[e] \in Reasons
    BY DEF ObserversInv, ObserversTypeOK
  <2>3. /\ ending \in Seq(ObserverEvents) /\ ending # << >>
        /\ \E code \in {0, 1, 130} : ending[Len(ending)] = DoneEvent(code)
    <3>1. \A a \in ObserverEvents : /\ <<a>> \in Seq(ObserverEvents) /\ <<a>> # << >>
                                    /\ <<a>>[Len(<<a>>)] = a
      OBVIOUS
    <3>2. \A a, b \in ObserverEvents : /\ <<a, b>> \in Seq(ObserverEvents) /\ <<a, b>> # << >>
                                       /\ <<a, b>>[Len(<<a, b>>)] = b
      OBVIOUS
    <3>3. CASE ending = <<DoneEvent(0)>>
      BY <3>1, <3>3, EventTypes
    <3>4. CASE ending = <<ErrorEvent, DoneEvent(1)>>
      BY <3>2, <3>4, EventTypes
    <3>5. CASE cancelledBy[e] # NoReason /\ ending = <<CancelledEvent(cancelledBy[e]), DoneEvent(130)>>
      BY <2>2, <3>2, <3>5, EventTypes
    <3>6. QED BY <2>1, <3>3, <3>4, <3>5 DEF Endings
  <2>4. QED BY <1>2, <2>1, <2>3 DEF Close
<1>3. QED BY <1>1, <1>2

\* Events are written to the stream and to every open observer in one step.
LEMMA WriteStep ==
  ASSUME ObserversInv, NEW e \in Executions, ExecutionWrites(e)
  PROVE  ObserversInv'
<1>1. UNCHANGED <<stage, readyState, byExecution, byConnection, sockets, joined>>
  BY DEF ExecutionWrites
<1>2. PICK t \in Seq(ObserverEvents) :
        /\ t # << >>
        /\ stream' = [stream EXCEPT ![e] = @ \o t]
        /\ cancelledBy' = cancelledBy
        /\ status[e] = "live"
        /\ \/ status' = status
           \/ /\ status' = [status EXCEPT ![e] = "ended"]
              /\ \E code \in {0, 1, 130} : t[Len(t)] = DoneEvent(code)
  BY Written DEF ExecutionWrites
<1>3. /\ stream[e] \in Seq(ObserverEvents) /\ Len(stream[e]) \in Nat
      /\ Len(t) \in Nat \ {0}
  BY <1>2, LenProperties, EmptySeq DEF ObserversInv, ObserversTypeOK
<1>4. /\ stream'[e] = stream[e] \o t
      /\ \A f \in Executions \ {e} : stream'[f] = stream[f]
  BY <1>2 DEF ObserversInv, ObserversTypeOK
<1>5. /\ stream[e] \o t \in Seq(ObserverEvents)
      /\ Len(stream[e] \o t) = Len(stream[e]) + Len(t)
      /\ SubSeq(stream[e] \o t, Len(stream[e]) + 1, Len(stream[e] \o t)) = t
      /\ \A j \in Nat : j <= Len(stream[e]) =>
           SubSeq(stream[e] \o t, j + 1, Len(stream[e] \o t))
             = SubSeq(stream[e], j + 1, Len(stream[e])) \o t
  <2> DEFINE s == stream[e]
  <2>0. s \in Seq(ObserverEvents) /\ t \in Seq(ObserverEvents) /\ Len(s) \in Nat
    BY <1>3
  <2> HIDE DEF s
  <2>1. \A j \in Nat : j <= Len(s) =>
          /\ s \o t \in Seq(ObserverEvents)
          /\ Len(s \o t) = Len(s) + Len(t)
          /\ SubSeq(s \o t, Len(s) + 1, Len(s \o t)) = t
          /\ SubSeq(s \o t, j + 1, Len(s \o t)) = SubSeq(s, j + 1, Len(s)) \o t
    BY <2>0, SinceGrows, Zenon
  <2>2. 0 \in Nat /\ 0 <= Len(s)
    BY <2>0
  <2>3. QED BY <2>1, <2>2, Zenon DEF s
<1>6. received' = [c \in Clients |->
                     IF c \in Receivers(e) THEN [received[c] EXCEPT ![e] = @ \o t] ELSE received[c]]
  <2>1. SubSeq(stream'[e], Len(stream[e]) + 1, Len(stream'[e])) = t
    BY <1>4, <1>5
  <2>2. Broadcast(e, t)
    BY <2>1 DEF ExecutionWrites
  <2>3. QED BY <2>2 DEF Broadcast
<1>7. \A c \in Clients : \A f \in Executions :
        received'[c][f] = IF c \in Receivers(e) /\ f = e THEN received[c][e] \o t ELSE received[c][f]
  <2>1. \A c \in Clients : received[c] \in [Executions -> Seq(ObserverEvents)]
    BY DEF ObserversInv, ObserversTypeOK
  <2>2. \A c \in Clients : \A f \in Executions :
          [received[c] EXCEPT ![e] = @ \o t][f] = IF f = e THEN received[c][e] \o t ELSE received[c][f]
    BY <2>1
  <2>3. QED BY <1>6, <2>2
<1>8. ObserversTypeOK'
  <2>1. stream' \in [Executions -> Seq(ObserverEvents)]
    BY <1>2, <1>5 DEF ObserversInv, ObserversTypeOK
  <2>2. status' \in [Executions -> {"idle", "refused", "live", "ended"}]
    <3>1. status' = status \/ status' = [status EXCEPT ![e] = "ended"]
      BY <1>2
    <3>2. QED BY <3>1 DEF ObserversInv, ObserversTypeOK
  <2>3. received' \in [Clients -> [Executions -> Seq(ObserverEvents)]]
    <3>1. \A c \in Clients : received[c] \in [Executions -> Seq(ObserverEvents)]
      BY DEF ObserversInv, ObserversTypeOK
    <3>2. \A c \in Clients : received[c][e] \o t \in Seq(ObserverEvents)
      BY <3>1, ConcatProperties
    <3>3. \A c \in Clients : [received[c] EXCEPT ![e] = @ \o t] \in [Executions -> Seq(ObserverEvents)]
      BY <3>1, <3>2
    <3>4. QED BY <1>6, <3>1, <3>3
  <2>4. QED BY <1>1, <1>2, <2>1, <2>2, <2>3 DEF ObserversInv, ObserversTypeOK
<1>9. SubscriptionsAgree'
  BY <1>1 DEF ObserversInv, SubscriptionsAgree
<1>10. NoEventMissed'
  <2> SUFFICES ASSUME NEW c \in Clients, NEW f \in byConnection[c], readyState[c] = "OPEN"
               PROVE  received'[c][f] = SubSeq(stream'[f], joined[c][f] + 1, Len(stream'[f]))
    BY <1>1 DEF NoEventMissed
  <2>1. f \in Executions /\ joined[c][f] \in Nat /\ joined[c][f] <= Len(stream[f])
    BY DEF ObserversInv, ObserversTypeOK, JoinedInTime
  <2>2. received[c][f] = SubSeq(stream[f], joined[c][f] + 1, Len(stream[f]))
    BY DEF ObserversInv, NoEventMissed
  <2>3. CASE f # e
    BY <1>4, <1>7, <2>1, <2>2, <2>3
  <2>4. CASE f = e
    <3>1. c \in Receivers(e)
      BY <2>1, <2>4 DEF Receivers, ObserversInv, SubscriptionsAgree
    <3>2. received'[c][e] = received[c][e] \o t
      BY <1>7, <3>1
    <3>3. QED BY <1>4, <1>5, <2>1, <2>2, <2>4, <3>2
  <2>5. QED BY <2>3, <2>4
<1>11. JoinedInTime'
  <2> SUFFICES ASSUME NEW c \in Clients, NEW f \in byConnection[c]
               PROVE  /\ status'[f] \in {"live", "ended"}
                      /\ joined[c][f] <= Len(stream'[f])
                      /\ status'[f] = "ended" => joined[c][f] < Len(stream'[f])
    BY <1>1 DEF JoinedInTime
  <2>1. /\ f \in Executions /\ joined[c][f] \in Nat
        /\ status[f] \in {"live", "ended"} /\ joined[c][f] <= Len(stream[f])
        /\ status[f] = "ended" => joined[c][f] < Len(stream[f])
    BY DEF ObserversInv, ObserversTypeOK, JoinedInTime
  <2>2. status'[f] \in {"live", "ended"} /\ (f # e => status'[f] = status[f])
    BY <1>2, <2>1 DEF ObserversInv, ObserversTypeOK
  <2>3. CASE f # e
    BY <1>4, <2>1, <2>2, <2>3
  <2>4. CASE f = e
    <3>1. Len(stream'[e]) = Len(stream[e]) + Len(t)
      BY <1>4, <1>5
    <3>2. QED BY <1>3, <2>1, <2>2, <2>4, <3>1
  <2>5. QED BY <2>3, <2>4
<1>12. EndedIsDone'
  <2> SUFFICES ASSUME NEW f \in Executions, status'[f] = "ended"
               PROVE  /\ stream'[f] # << >>
                      /\ \E code \in {0, 1, 130} : stream'[f][Len(stream'[f])] = DoneEvent(code)
    BY DEF EndedIsDone
  <2>1. CASE f # e
    BY <1>2, <1>4, <2>1 DEF ObserversInv, ObserversTypeOK, EndedIsDone
  <2>2. CASE f = e
    <3>1. \E code \in {0, 1, 130} : t[Len(t)] = DoneEvent(code)
      BY <1>2, <2>2
    <3>2. (stream[e] \o t)[Len(stream[e]) + Len(t)] = t[Len(t)]
      BY <1>3, ConcatProperties
    <3>3. stream[e] \o t # << >>
      BY <1>2, <1>3, ConcatEqualIffEmpty
    <3>4. QED BY <1>4, <1>5, <2>2, <3>1, <3>2, <3>3
  <2>3. QED BY <2>1, <2>2
<1>13. QED BY <1>8, <1>9, <1>10, <1>11, <1>12 DEF ObserversInv

-----------------------------------------------------------------------------
\* Nobody is connected, nothing was written.
LEMMA ObserversInitInv == ObserversInit => ObserversInv
<1> SUFFICES ASSUME ObserversInit PROVE ObserversInv
  OBVIOUS
<1> USE DEF ObserversInit, Init
<1>1. ObserversTypeOK
  BY EmptySeq DEF ObserversTypeOK
<1>2. SubscriptionsAgree
  BY DEF SubscriptionsAgree
<1>3. NoEventMissed /\ JoinedInTime
  BY DEF NoEventMissed, JoinedInTime
<1>4. EndedIsDone
  BY DEF EndedIsDone
<1>5. QED BY <1>1, <1>2, <1>3, <1>4 DEF ObserversInv

\* Every step keeps the inductive invariant.
LEMMA ObserversStepInv == ObserversInv /\ [ObserversNext]_observerVars => ObserversInv'
<1> SUFFICES ASSUME ObserversInv, [ObserversNext]_observerVars PROVE ObserversInv'
  OBVIOUS
<1>1. CASE UNCHANGED observerVars
  BY <1>1 DEF observerVars, ObserversInv, ObserversTypeOK, SubscriptionsAgree, NoEventMissed,
              JoinedInTime, EndedIsDone
<1>2. CASE \E c \in Clients :
             ClientUpgrade(c) \/ HelloFailed(c) \/ HelloDone(c) \/ ClientClosing(c) \/ ClientClosed(c)
  BY <1>2, ConnectionSteps, ClosedStep
<1>3. CASE \E c \in Clients, e \in Executions :
             \/ Subscribe(c, e) \/ Unsubscribe(c, e)
             \/ \E reason \in Reasons : ClientCancel(c, e, reason)
  <2>1. ASSUME NEW c \in Clients, NEW e \in Executions, NEW reason \in Reasons,
               ClientCancel(c, e, reason)
        PROVE  ObserversInv'
    <3>1. {e} \in SUBSET Executions /\ Accept({e}, reason) /\ UNCHANGED clientVars
      BY <2>1 DEF ClientCancel
    <3>2. QED BY <3>1, SilentStep
  <2>2. QED BY <1>3, <2>1, SubscribeStep, UnsubscribeStep
<1>4. CASE \E e \in Executions : ExecutionWrites(e)
  BY <1>4, WriteStep
<1>5. CASE ExecutionSilent
  BY <1>5, SilentStep DEF ExecutionSilent
<1>6. QED BY <1>1, <1>2, <1>3, <1>4, <1>5 DEF ObserversNext

\* The inductive invariant holds of every state of the observers.
THEOREM ObserversInvariant == ObserversSpec => []ObserversInv
BY ObserversInitInv, ObserversStepInv, PTL DEF ObserversSpec

\* Connections, subscriptions and streams keep their types.
THEOREM ObserversTypeCorrect == ObserversSpec => []ObserversTypeOK
<1>1. ObserversInv => ObserversTypeOK
  BY DEF ObserversInv
<1>2. QED BY <1>1, ObserversInvariant, PTL

\* The maps of the SubscriptionRegistry describe one relation, and only of served connections.
THEOREM SubscriptionsCorrect == ObserversSpec => []SubscriptionsAgree
<1>1. ObserversInv => SubscriptionsAgree
  BY DEF ObserversInv
<1>2. QED BY <1>1, ObserversInvariant, PTL

\* An open observer has received the stream from its subscription on, each event once, in order.
THEOREM BroadcastComplete == ObserversSpec => []NoEventMissed
<1>1. ObserversInv => NoEventMissed
  BY DEF ObserversInv
<1>2. QED BY <1>1, ObserversInvariant, PTL

\* An open observer of an ended execution has received execution:done, and nothing after it.
THEOREM EndsSeen == ObserversSpec => []EndIsSeen
<1>1. ObserversInv => EndIsSeen
  <2> SUFFICES ASSUME ObserversInv, NEW c \in Clients, NEW e \in byConnection[c],
                      status[e] = "ended", readyState[c] = "OPEN"
               PROVE  \E code \in {0, 1, 130} :
                        /\ received[c][e] # << >>
                        /\ received[c][e][Len(received[c][e])] = DoneEvent(code)
    BY DEF EndIsSeen
  <2> DEFINE s == stream[e]
             j == joined[c][e]
             r == SubSeq(s, j + 1, Len(s))
  <2>1. /\ e \in Executions /\ s \in Seq(ObserverEvents) /\ j \in Nat
        /\ Len(s) \in Nat /\ j < Len(s)
    BY LenProperties DEF ObserversInv, ObserversTypeOK, JoinedInTime
  <2>2. received[c][e] = r
    BY DEF ObserversInv, NoEventMissed
  <2>3. \E code \in {0, 1, 130} : s[Len(s)] = DoneEvent(code)
    BY <2>1 DEF ObserversInv, EndedIsDone
  <2> HIDE DEF s, j
  <2>4. \A i \in j + 1 .. Len(s) : s[i] \in ObserverEvents
    BY <2>1, ElementOfSeq
  <2>5. /\ Len(r) = IF j + 1 <= Len(s) THEN Len(s) - (j + 1) + 1 ELSE 0
        /\ \A i \in 1 .. Len(s) - (j + 1) + 1 : r[i] = s[j + 1 + i - 1]
    <3>1. j + 1 \in Int /\ Len(s) \in Int
      BY <2>1
    <3>2. QED BY <2>4, <3>1, SubSeqProperties
  <2> HIDE DEF r
  <2>6. Len(r) \in 1 .. Len(s) - (j + 1) + 1 /\ Len(r) > 0 /\ j + 1 + Len(r) - 1 = Len(s)
    <3>1. j + 1 <= Len(s)
      BY <2>1
    <3>2. Len(r) = Len(s) - (j + 1) + 1
      BY <2>5, <3>1
    <3>3. QED BY <2>1, <3>2
  <2>7. r[Len(r)] = s[Len(s)]
    BY <2>5, <2>6 DEF r
  <2>8. r # << >>
    BY <2>6, EmptySeq
  <2>9. QED BY <2>2, <2>3, <2>7, <2>8
<1>2. QED BY <1>1, ObserversInvariant, PTL
=============================================================================
