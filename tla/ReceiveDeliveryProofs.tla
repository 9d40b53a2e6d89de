------------------------ MODULE ReceiveDeliveryProofs ------------------------
(***************************************************************************)
(* Proofs about ReceiveDelivery, for any set of streams and connections    *)
(* and any number of chunks: the invariants the model checker evaluates on *)
(* three streams hold for all of them.                                     *)
(***************************************************************************)
EXTENDS ReceiveDelivery, FiniteSetTheorems, TLAPS

(* A stored timer belongs to the last chunk handed over, which has not been  *)
(* completed, and the native side still waits for it unless the connection   *)
(* was torn down under the timer.                                            *)
TimerIsCurrent ==
    \A id \in Ids : receiveTimers[id] # None =>
        /\ receiveTimers[id] = sent[id]
        /\ answers[id][sent[id]] = 0
        /\ owed[id] = receiveTimers[id] \/ rx[id] = "ended"
        /\ rx[id] # "new"

OwedIsStored ==
    \A id \in Ids : owed[id] # None => owed[id] = receiveTimers[id]

FutureUnanswered ==
    \A id \in Ids : \A n \in Chunks : n > sent[id] => answers[id][n] = 0

TimedOutIsIdle ==
    \A id \in timedOut : rx[id] \in {"aborted", "ended"} /\ receiveTimers[id] = None

TimeoutsCounted ==
    IsFiniteSet(timedOut) /\ receiveTimeouts = Cardinality(timedOut)

IInv ==
    /\ TypeOK
    /\ TimersAgree
    /\ TimerIsCurrent
    /\ OwedIsStored
    /\ FutureUnanswered
    /\ AnsweredAtMostOnce
    /\ TimedOutIsIdle
    /\ TimeoutsCounted

-----------------------------------------------------------------------------
(* The initial state satisfies the inductive invariant. *)
LEMMA InitIInv == Init => IInv
<1> SUFFICES ASSUME Init PROVE IInv
  OBVIOUS
<1> USE StreamsAssumption DEF Init, Chunks, None
<1>1. TypeOK
  BY DEF TypeOK
<1>2. TimersAgree /\ TimerIsCurrent /\ OwedIsStored
  BY DEF TimersAgree, TimerIsCurrent, OwedIsStored
<1>3. FutureUnanswered /\ AnsweredAtMostOnce /\ TimedOutIsIdle
  BY DEF FutureUnanswered, AnsweredAtMostOnce, TimedOutIsIdle
<1>4. TimeoutsCounted
  BY FS_EmptySet DEF TimeoutsCounted
<1> QED
  BY <1>1, <1>2, <1>3, <1>4 DEF IInv

(* What the proofs use of chunk numbers: None is none of them, and the chunk  *)
(* after the ones sent is a chunk, within the bound.                          *)
LEMMA ChunkFacts ==
    /\ None \notin Chunks
    /\ \A n \in Chunks : n \in Nat /\ n \in 0 .. MaxChunks /\ n # 0
    /\ \A k \in 0 .. MaxChunks : k \in Nat /\ (k < MaxChunks => k + 1 \in Chunks)
BY StreamsAssumption DEF Chunks, None

(* Completing a chunk adds one to its answers and to no other's, releases    *)
(* the one chunk its stream is owed and, when rejected, stops the stream.    *)
CompletionTypes ==
    /\ answers' \in [Ids -> [Chunks -> Nat]]
    /\ owed' \in [Ids -> Chunks \cup {None}]
    /\ rx' \in [Ids -> {"new", "open", "aborted", "ended"}]

AnswersOnly(id, n) ==
    \A i \in Ids : \A m \in Chunks :
       /\ i = id /\ m = n => answers'[i][m] = answers[i][m] + 1
       /\ i # id \/ m # n => answers'[i][m] = answers[i][m]

Releases(id, accepted) ==
    /\ owed'[id] = None
    /\ \A i \in Ids \ {id} : owed'[i] = owed[i] /\ rx'[i] = rx[i]
    /\ rx[id] # "new" => rx'[id] # "new"
    /\ ~accepted /\ rx[id] # "new" => rx'[id] \in {"aborted", "ended"}
    /\ rx[id] \in {"aborted", "ended"} => rx'[id] = rx[id]

(* The native completion has that effect. *)
LEMMA CompleteReceiveEffect ==
    ASSUME TypeOK, NEW id \in Ids, NEW n \in Chunks, NEW accepted \in BOOLEAN,
           CompleteReceive(id, n, accepted)
    PROVE  CompletionTypes /\ AnswersOnly(id, n) /\ Releases(id, accepted)
<1>1. answers[id] \in [Chunks -> Nat]
  BY DEF TypeOK
<1>2. answers' = [answers EXCEPT ![id] = [answers[id] EXCEPT ![n] = @ + 1]]
  BY DEF CompleteReceive
<1>3. [answers[id] EXCEPT ![n] = @ + 1] \in [Chunks -> Nat]
  BY <1>1
<1>4. answers' \in [Ids -> [Chunks -> Nat]]
  BY <1>2, <1>3 DEF TypeOK
<1>5. AnswersOnly(id, n)
  BY <1>1, <1>2 DEF TypeOK, AnswersOnly
<1> QED
  BY <1>4, <1>5 DEF TypeOK, CompleteReceive, CompletionTypes, Releases, None

(* Clearing the timers of a set of streams keeps the map and the event loop  *)
(* in agreement.                                                             *)
Clears(S) ==
    /\ receiveTimers' \in [Ids -> Chunks \cup {None}]
    /\ \A i \in Ids : receiveTimers'[i] = IF i \in S THEN None ELSE receiveTimers[i]
    /\ armed' \subseteq (Ids \X Chunks)
    /\ TimersAgree'

(* clearTimeout and the deletion from the map have that effect. *)
LEMMA ClearReceiveTimersEffect ==
    ASSUME TypeOK, TimersAgree, NEW S \in SUBSET Ids, ClearReceiveTimers(S)
    PROVE  Clears(S)
<1>1. \A i \in Ids : receiveTimers'[i] = IF i \in S THEN None ELSE receiveTimers[i]
  BY DEF ClearReceiveTimers
<1>2. ASSUME NEW i \in Ids, NEW m \in Chunks
      PROVE  <<i, m>> \in armed' <=> receiveTimers'[i] = m
  <2>1. <<i, m>> \in armed <=> receiveTimers[i] = m
    BY DEF TimersAgree
  <2>2. <<i, m>> \in {<<id, receiveTimers[id]>> : id \in S} <=>
           i \in S /\ m = receiveTimers[i]
    OBVIOUS
  <2>3. <<i, m>> \in armed' <=> receiveTimers[i] = m /\ i \notin S
    BY <2>1, <2>2 DEF ClearReceiveTimers
  <2>4. m # None
    BY StreamsAssumption DEF Chunks, None
  <2> QED
    BY <1>1, <2>3, <2>4
<1> QED
  BY <1>1, <1>2 DEF TypeOK, TimersAgree, ClearReceiveTimers, Clears

(* Storing and arming the timer of a chunk, on a stream that holds none.     *)
LEMMA ArmEffect ==
    ASSUME TypeOK, TimersAgree, NEW id \in Ids, NEW n \in Chunks,
           receiveTimers[id] = None,
           armed' = armed \cup {<<id, n>>},
           receiveTimers' = [receiveTimers EXCEPT ![id] = n]
    PROVE  TimersAgree'
<1>1. ASSUME NEW i \in Ids, NEW m \in Chunks
      PROVE  <<i, m>> \in armed' <=> receiveTimers'[i] = m
  <2>1. <<i, m>> \in armed' <=> <<i, m>> \in armed \/ (i = id /\ m = n)
    OBVIOUS
  <2>2. receiveTimers'[i] = IF i = id THEN n ELSE receiveTimers[i]
    BY DEF TypeOK
  <2> QED
    BY <2>1, <2>2, ChunkFacts DEF TimersAgree
<1> QED
  BY <1>1 DEF TimersAgree

(* Removing the stored timer of a stream from the map and the event loop.    *)
LEMMA DisarmEffect ==
    ASSUME TypeOK, TimersAgree, NEW id \in Ids, NEW n \in Chunks,
           receiveTimers[id] \in {n, None},
           armed' = armed \ {<<id, n>>},
           receiveTimers' = [receiveTimers EXCEPT ![id] = None]
    PROVE  TimersAgree'
<1>1. ASSUME NEW i \in Ids, NEW m \in Chunks
      PROVE  <<i, m>> \in armed' <=> receiveTimers'[i] = m
  <2>1. <<i, m>> \in armed' <=> <<i, m>> \in armed /\ ~(i = id /\ m = n)
    OBVIOUS
  <2>2. receiveTimers'[i] = IF i = id THEN None ELSE receiveTimers[i]
    BY DEF TypeOK
  <2> QED
    BY <2>1, <2>2, ChunkFacts DEF TimersAgree
<1> QED
  BY <1>1 DEF TimersAgree

(* Every step of the receive path preserves the inductive invariant. *)
LEMMA NextIInv == IInv /\ [Next]_vars => IInv'
<1> SUFFICES ASSUME IInv, [Next]_vars PROVE IInv'
  OBVIOUS
<1> USE ChunkFacts
<1>1. ASSUME NEW id \in Ids, Register(id) PROVE IInv'
  <2> USE <1>1 DEF IInv, Register
  <2>1. TypeOK'
    BY DEF TypeOK
  <2>2. TimersAgree'
    BY DEF TypeOK, TimersAgree, TimerIsCurrent
  <2>3. TimerIsCurrent'
    BY DEF TypeOK, TimersAgree, TimerIsCurrent, OwedIsStored, FutureUnanswered
  <2>4. OwedIsStored'
    BY DEF TypeOK, OwedIsStored, TimerIsCurrent
  <2>5. FutureUnanswered'
    BY DEF TypeOK, FutureUnanswered, TimerIsCurrent
  <2>6. AnsweredAtMostOnce'
    BY DEF TypeOK, AnsweredAtMostOnce, TimerIsCurrent, FutureUnanswered
  <2>7. TimedOutIsIdle'
    BY DEF TypeOK, TimedOutIsIdle, TimerIsCurrent, TimersAgree
  <2>8. TimeoutsCounted'
    BY DEF TypeOK, TimeoutsCounted, TimedOutIsIdle
  <2> QED
    BY <2>1, <2>2, <2>3, <2>4, <2>5, <2>6, <2>7, <2>8 DEF IInv
<1>2. ASSUME NEW id \in Ids, Unregister(id) PROVE IInv'
  <2> USE <1>2 DEF IInv, Unregister
  <2>1. TypeOK'
    BY DEF TypeOK
  <2>2. TimersAgree'
    BY DEF TypeOK, TimersAgree, TimerIsCurrent
  <2>3. TimerIsCurrent'
    BY DEF TypeOK, TimersAgree, TimerIsCurrent, OwedIsStored, FutureUnanswered
  <2>4. OwedIsStored'
    BY DEF TypeOK, OwedIsStored, TimerIsCurrent
  <2>5. FutureUnanswered'
    BY DEF TypeOK, FutureUnanswered, TimerIsCurrent
  <2>6. AnsweredAtMostOnce'
    BY DEF TypeOK, AnsweredAtMostOnce, TimerIsCurrent, FutureUnanswered
  <2>7. TimedOutIsIdle'
    BY DEF TypeOK, TimedOutIsIdle, TimerIsCurrent, TimersAgree
  <2>8. TimeoutsCounted'
    BY DEF TypeOK, TimeoutsCounted, TimedOutIsIdle
  <2> QED
    BY <2>1, <2>2, <2>3, <2>4, <2>5, <2>6, <2>7, <2>8 DEF IInv
<1>3. ASSUME NEW id \in Ids, HandleDataUnknown(id) PROVE IInv'
  <2> USE <1>3 DEF IInv, HandleDataUnknown, NextChunk
  <2>n. sent[id] + 1 \in Chunks
    BY DEF TypeOK
  <2>c. CompleteReceive(id, sent[id] + 1, FALSE)
    OBVIOUS
  <2>e. CompletionTypes /\ AnswersOnly(id, sent[id] + 1) /\ Releases(id, FALSE)
    BY <2>n, <2>c, CompleteReceiveEffect
  <2>1. TypeOK'
    BY <2>n, <2>e DEF TypeOK, CompletionTypes
  <2>2. TimersAgree'
    BY <2>n, <2>e DEF TypeOK, TimersAgree, TimerIsCurrent
  <2>3. TimerIsCurrent'
    BY <2>n, <2>e DEF TypeOK, TimersAgree, TimerIsCurrent, OwedIsStored, FutureUnanswered, AnswersOnly, Releases
  <2>4. OwedIsStored'
    BY <2>n, <2>e DEF TypeOK, OwedIsStored, TimerIsCurrent, Releases
  <2>5. FutureUnanswered'
    BY <2>n, <2>e DEF TypeOK, FutureUnanswered, TimerIsCurrent, AnswersOnly
  <2>6. AnsweredAtMostOnce'
    BY <2>n, <2>e DEF TypeOK, AnsweredAtMostOnce, TimerIsCurrent, FutureUnanswered, AnswersOnly
  <2>7. TimedOutIsIdle'
    BY <2>n, <2>e DEF TypeOK, TimedOutIsIdle, TimerIsCurrent, TimersAgree, Releases
  <2>8. TimeoutsCounted'
    BY <2>n, <2>e DEF TypeOK, TimeoutsCounted, TimedOutIsIdle
  <2> QED
    BY <2>1, <2>2, <2>3, <2>4, <2>5, <2>6, <2>7, <2>8 DEF IInv
<1>4. ASSUME NEW id \in Ids, DeliverReceive(id) PROVE IInv'
  <2> USE <1>4 DEF IInv, DeliverReceive, NextChunk
  <2>1. TypeOK'
    BY DEF TypeOK
  <2>2. TimersAgree'
    <3>1. sent[id] + 1 \in Chunks /\ receiveTimers[id] = None
      BY DEF TypeOK, TimerIsCurrent
    <3> QED
      BY <3>1, ArmEffect
  <2>3. TimerIsCurrent'
    BY DEF TypeOK, TimersAgree, TimerIsCurrent, OwedIsStored, FutureUnanswered
  <2>4. OwedIsStored'
    BY DEF TypeOK, OwedIsStored, TimerIsCurrent
  <2>5. FutureUnanswered'
    BY DEF TypeOK, FutureUnanswered, TimerIsCurrent
  <2>6. AnsweredAtMostOnce'
    BY DEF TypeOK, AnsweredAtMostOnce, TimerIsCurrent, FutureUnanswered
  <2>7. TimedOutIsIdle'
    BY DEF TypeOK, TimedOutIsIdle, TimerIsCurrent, TimersAgree
  <2>8. TimeoutsCounted'
    BY DEF TypeOK, TimeoutsCounted, TimedOutIsIdle
  <2> QED
    BY <2>1, <2>2, <2>3, <2>4, <2>5, <2>6, <2>7, <2>8 DEF IInv
<1>5. ASSUME NEW id \in Ids, DeliverThrows(id) PROVE IInv'
  <2> USE <1>5 DEF IInv, DeliverThrows, NextChunk
  <2>n. sent[id] + 1 \in Chunks
    BY DEF TypeOK
  <2>c. CompleteReceive(id, sent[id] + 1, FALSE)
    OBVIOUS
  <2>e. CompletionTypes /\ AnswersOnly(id, sent[id] + 1) /\ Releases(id, FALSE)
    BY <2>n, <2>c, CompleteReceiveEffect
  <2>1. TypeOK'
    BY <2>n, <2>e DEF TypeOK, CompletionTypes
  <2>2. TimersAgree'
    <3>1. receiveTimers[id] = None
      BY DEF TypeOK, TimerIsCurrent
    <3> QED
      BY <2>n, <3>1, DisarmEffect
  <2>3. TimerIsCurrent'
    BY <2>n, <2>e DEF TypeOK, TimersAgree, TimerIsCurrent, OwedIsStored, FutureUnanswered, AnswersOnly, Releases
  <2>4. OwedIsStored'
    BY <2>n, <2>e DEF TypeOK, OwedIsStored, TimerIsCurrent, Releases
  <2>5. FutureUnanswered'
    BY <2>n, <2>e DEF TypeOK, FutureUnanswered, TimerIsCurrent, AnswersOnly
  <2>6. AnsweredAtMostOnce'
    BY <2>n, <2>e DEF TypeOK, AnsweredAtMostOnce, TimerIsCurrent, FutureUnanswered, AnswersOnly
  <2>7. TimedOutIsIdle'
    BY <2>n, <2>e DEF TypeOK, TimedOutIsIdle, TimerIsCurrent, TimersAgree, Releases
  <2>8. TimeoutsCounted'
    BY <2>n, <2>e DEF TypeOK, TimeoutsCounted, TimedOutIsIdle
  <2> QED
    BY <2>1, <2>2, <2>3, <2>4, <2>5, <2>6, <2>7, <2>8 DEF IInv
<1>6. ASSUME NEW id \in Ids, HandleStreamEnd(id) PROVE IInv'
  <2> USE <1>6 DEF IInv, HandleStreamEnd
  <2>c. ClearReceiveTimers({id})
    OBVIOUS
  <2>e. Clears({id})
    BY <2>c, ClearReceiveTimersEffect
  <2>1. TypeOK'
    BY <2>e DEF TypeOK, Clears
  <2>2. TimersAgree'
    BY <2>e DEF TypeOK, TimersAgree, TimerIsCurrent, Clears
  <2>3. TimerIsCurrent'
    BY <2>e DEF TypeOK, TimersAgree, TimerIsCurrent, OwedIsStored, FutureUnanswered, Clears
  <2>4. OwedIsStored'
    BY <2>e DEF TypeOK, OwedIsStored, TimerIsCurrent, Clears
  <2>5. FutureUnanswered'
    BY <2>e DEF TypeOK, FutureUnanswered, TimerIsCurrent, Clears
  <2>6. AnsweredAtMostOnce'
    BY <2>e DEF TypeOK, AnsweredAtMostOnce, TimerIsCurrent, FutureUnanswered, Clears
  <2>7. TimedOutIsIdle'
    BY <2>e DEF TypeOK, TimedOutIsIdle, TimerIsCurrent, TimersAgree, Clears
  <2>8. TimeoutsCounted'
    BY <2>e DEF TypeOK, TimeoutsCounted, TimedOutIsIdle, Clears
  <2> QED
    BY <2>1, <2>2, <2>3, <2>4, <2>5, <2>6, <2>7, <2>8 DEF IInv
<1>7. ASSUME NEW id \in Ids, NEW n \in Chunks, TimerFires(id, n) PROVE IInv'
  <2> USE <1>7 DEF IInv, TimerFires
  <2>a. CASE receiveTimers[id] = n
    <3>c. CompleteReceive(id, n, FALSE)
      BY <2>a
    <3>e. CompletionTypes /\ AnswersOnly(id, n) /\ Releases(id, FALSE)
      BY <3>c, CompleteReceiveEffect
    <3>1. TypeOK'
      <4>1. /\ armed' = armed \ {<<id, n>>}
            /\ receiveTimers' = [receiveTimers EXCEPT ![id] = None]
            /\ receiveTimeouts' = receiveTimeouts + 1
            /\ timedOut' = timedOut \cup {id}
            /\ UNCHANGED <<sent, receivers, delivering>>
        BY <2>a
      <4> QED
        BY <3>e, <4>1 DEF TypeOK, CompletionTypes
    <3>2. TimersAgree'
      BY <2>a, DisarmEffect
    <3>3. TimerIsCurrent'
      BY <2>a, <3>e DEF TypeOK, TimersAgree, TimerIsCurrent, OwedIsStored, FutureUnanswered, AnswersOnly, Releases
    <3>4. OwedIsStored'
      BY <2>a, <3>e DEF TypeOK, OwedIsStored, TimerIsCurrent, Releases
    <3>5. FutureUnanswered'
      BY <2>a, <3>e DEF TypeOK, FutureUnanswered, TimerIsCurrent, AnswersOnly
    <3>6. AnsweredAtMostOnce'
      BY <2>a, <3>e DEF TypeOK, AnsweredAtMostOnce, TimerIsCurrent, FutureUnanswered, AnswersOnly
    <3>7. TimedOutIsIdle'
      BY <2>a, <3>e DEF TypeOK, TimedOutIsIdle, TimerIsCurrent, TimersAgree, Releases
    <3>8. TimeoutsCounted'
      BY <2>a, <3>e, FS_AddElement DEF TypeOK, TimeoutsCounted, TimedOutIsIdle
    <3> QED
      BY <3>1, <3>2, <3>3, <3>4, <3>5, <3>6, <3>7, <3>8 DEF IInv
  <2>b. CASE receiveTimers[id] # n
    <3>1. TypeOK'
      BY <2>b DEF TypeOK
    <3>2. TimersAgree'
      BY <2>b DEF TypeOK, TimersAgree, TimerIsCurrent
    <3>3. TimerIsCurrent'
      BY <2>b DEF TypeOK, TimersAgree, TimerIsCurrent, OwedIsStored, FutureUnanswered
    <3>4. OwedIsStored'
      BY <2>b DEF TypeOK, OwedIsStored, TimerIsCurrent
    <3>5. FutureUnanswered'
      BY <2>b DEF TypeOK, FutureUnanswered, TimerIsCurrent
    <3>6. AnsweredAtMostOnce'
      BY <2>b DEF TypeOK, AnsweredAtMostOnce, TimerIsCurrent, FutureUnanswered
    <3>7. TimedOutIsIdle'
      BY <2>b DEF TypeOK, TimedOutIsIdle, TimerIsCurrent, TimersAgree
    <3>8. TimeoutsCounted'
      BY <2>b, FS_AddElement DEF TypeOK, TimeoutsCounted, TimedOutIsIdle
    <3> QED
      BY <3>1, <3>2, <3>3, <3>4, <3>5, <3>6, <3>7, <3>8 DEF IInv
  <2> QED
    BY <2>a, <2>b
<1>8. ASSUME NEW id \in Ids, NEW n \in Chunks, NEW accepted \in BOOLEAN, DeliverySettles(id, n, accepted) PROVE IInv'
  <2> USE <1>8 DEF IInv, DeliverySettles, FinishReceive
  <2>a. CASE receiveTimers[id] = n
    <3>c. CompleteReceive(id, n, accepted)
      BY <2>a
    <3>e. CompletionTypes /\ AnswersOnly(id, n) /\ Releases(id, accepted)
      BY <3>c, CompleteReceiveEffect
    <3>1. TypeOK'
      BY <2>a, <3>e DEF TypeOK, CompletionTypes
    <3>2. TimersAgree'
      BY <2>a, DisarmEffect
    <3>3. TimerIsCurrent'
      BY <2>a, <3>e DEF TypeOK, TimersAgree, TimerIsCurrent, OwedIsStored, FutureUnanswered, AnswersOnly, Releases
    <3>4. OwedIsStored'
      BY <2>a, <3>e DEF TypeOK, OwedIsStored, TimerIsCurrent, Releases
    <3>5. FutureUnanswered'
      BY <2>a, <3>e DEF TypeOK, FutureUnanswered, TimerIsCurrent, AnswersOnly
    <3>6. AnsweredAtMostOnce'
      BY <2>a, <3>e DEF TypeOK, AnsweredAtMostOnce, TimerIsCurrent, FutureUnanswered, AnswersOnly
    <3>7. TimedOutIsIdle'
      BY <2>a, <3>e DEF TypeOK, TimedOutIsIdle, TimerIsCurrent, TimersAgree, Releases
    <3>8. TimeoutsCounted'
      BY <2>a, <3>e DEF TypeOK, TimeoutsCounted, TimedOutIsIdle
    <3> QED
      BY <3>1, <3>2, <3>3, <3>4, <3>5, <3>6, <3>7, <3>8 DEF IInv
  <2>b. CASE receiveTimers[id] # n
    <3>1. TypeOK'
      BY <2>b DEF TypeOK
    <3>2. TimersAgree'
      <4>1. UNCHANGED <<armed, receiveTimers>>
        BY <2>b
      <4> QED
        BY <4>1 DEF TimersAgree
    <3>3. TimerIsCurrent'
      BY <2>b DEF TypeOK, TimersAgree, TimerIsCurrent, OwedIsStored, FutureUnanswered
    <3>4. OwedIsStored'
      BY <2>b DEF TypeOK, OwedIsStored, TimerIsCurrent
    <3>5. FutureUnanswered'
      BY <2>b DEF TypeOK, FutureUnanswered, TimerIsCurrent
    <3>6. AnsweredAtMostOnce'
      BY <2>b DEF TypeOK, AnsweredAtMostOnce, TimerIsCurrent, FutureUnanswered
    <3>7. TimedOutIsIdle'
      BY <2>b DEF TypeOK, TimedOutIsIdle, TimerIsCurrent, TimersAgree
    <3>8. TimeoutsCounted'
      BY <2>b DEF TypeOK, TimeoutsCounted, TimedOutIsIdle
    <3> QED
      BY <3>1, <3>2, <3>3, <3>4, <3>5, <3>6, <3>7, <3>8 DEF IInv
  <2> QED
    BY <2>a, <2>b
<1>9. ASSUME NEW c \in Connections, HandleConnectionEnd(c) PROVE IInv'
  <2> USE <1>9 DEF IInv, HandleConnectionEnd
  <2>1. TypeOK'
    BY DEF TypeOK
  <2>2. TimersAgree'
    BY DEF TypeOK, TimersAgree, TimerIsCurrent
  <2>3. TimerIsCurrent'
    BY DEF TypeOK, TimersAgree, TimerIsCurrent, OwedIsStored, FutureUnanswered
  <2>4. OwedIsStored'
    BY DEF TypeOK, OwedIsStored, TimerIsCurrent
  <2>5. FutureUnanswered'
    BY DEF TypeOK, FutureUnanswered, TimerIsCurrent
  <2>6. AnsweredAtMostOnce'
    BY DEF TypeOK, AnsweredAtMostOnce, TimerIsCurrent, FutureUnanswered
  <2>7. TimedOutIsIdle'
    BY DEF TypeOK, TimedOutIsIdle, TimerIsCurrent, TimersAgree
  <2>8. TimeoutsCounted'
    BY DEF TypeOK, TimeoutsCounted, TimedOutIsIdle
  <2> QED
    BY <2>1, <2>2, <2>3, <2>4, <2>5, <2>6, <2>7, <2>8 DEF IInv
<1>10. ASSUME HandleStop PROVE IInv'
  <2> USE <1>10 DEF IInv, HandleStop
  <2>c. ClearReceiveTimers(Ids)
    OBVIOUS
  <2>e. Clears(Ids)
    BY <2>c, ClearReceiveTimersEffect
  <2>1. TypeOK'
    BY <2>e DEF TypeOK, Clears
  <2>2. TimersAgree'
    BY <2>e DEF TypeOK, TimersAgree, TimerIsCurrent, Clears
  <2>3. TimerIsCurrent'
    BY <2>e DEF TypeOK, TimersAgree, TimerIsCurrent, OwedIsStored, FutureUnanswered, Clears
  <2>4. OwedIsStored'
    BY <2>e DEF TypeOK, OwedIsStored, TimerIsCurrent, Clears
  <2>5. FutureUnanswered'
    BY <2>e DEF TypeOK, FutureUnanswered, TimerIsCurrent, Clears
  <2>6. AnsweredAtMostOnce'
    BY <2>e DEF TypeOK, AnsweredAtMostOnce, TimerIsCurrent, FutureUnanswered, Clears
  <2>7. TimedOutIsIdle'
    BY <2>e DEF TypeOK, TimedOutIsIdle, TimerIsCurrent, TimersAgree, Clears
  <2>8. TimeoutsCounted'
    BY <2>e DEF TypeOK, TimeoutsCounted, TimedOutIsIdle, Clears
  <2> QED
    BY <2>1, <2>2, <2>3, <2>4, <2>5, <2>6, <2>7, <2>8 DEF IInv
<1>11. CASE UNCHANGED vars
  BY <1>11 DEF vars, IInv, TypeOK, TimersAgree, TimerIsCurrent, OwedIsStored,
      FutureUnanswered, AnsweredAtMostOnce, TimedOutIsIdle, TimeoutsCounted
<1> QED
  BY <1>1, <1>2, <1>3, <1>4, <1>5, <1>6, <1>7, <1>8, <1>9, <1>10, <1>11 DEF Next
-----------------------------------------------------------------------------
(* The inductive invariant holds in every reachable state of HTTP3Server's   *)
(* receive path.                                                             *)
THEOREM Inductive == Spec => []IInv
<1>1. Init => IInv
  BY InitIInv
<1>2. IInv /\ [Next]_vars => IInv'
  BY NextIInv
<1> QED
  BY <1>1, <1>2, PTL DEF Spec

(* Type correctness of the receive path's state, the timeout counter         *)
(* included.                                                                 *)
THEOREM TypeCorrect == Spec => []TypeOK
<1>1. IInv => TypeOK
  BY DEF IInv
<1> QED
  BY <1>1, Inductive, PTL

(* completeReceive is called at most once for each chunk, whichever of the   *)
(* delivery, the timer, an end or a stop comes first.                        *)
THEOREM AnswersAreUnique == Spec => []AnsweredAtMostOnce
<1>1. IInv => AnsweredAtMostOnce
  BY DEF IInv
<1> QED
  BY <1>1, Inductive, PTL

(* A chunk the native side holds back for JavaScript always has its own      *)
(* timer stored and running.                                                 *)
THEOREM OwedChunksAreTimed == Spec => []OwedChunkIsTimed
<1>1. IInv => OwedChunkIsTimed
  <2> SUFFICES ASSUME IInv, NEW id \in Ids, owed[id] # None
      PROVE  /\ receiveTimers[id] = owed[id]
             /\ <<id, owed[id]>> \in armed
             /\ answers[id][owed[id]] = 0
    BY DEF OwedChunkIsTimed
  <2>1. owed[id] \in Chunks
    BY DEF IInv, TypeOK
  <2>2. receiveTimers[id] = owed[id]
    BY DEF IInv, OwedIsStored
  <2>3. answers[id][owed[id]] = 0
    BY <2>2 DEF IInv, TimerIsCurrent
  <2> QED
    BY <2>1, <2>2, <2>3 DEF IInv, TimersAgree
<1> QED
  BY <1>1, Inductive, PTL

(* The timer map and the event loop agree.                                   *)
THEOREM TimersAlwaysAgree == Spec => []TimersAgree
<1>1. IInv => TimersAgree
  BY DEF IInv
<1> QED
  BY <1>1, Inductive, PTL

(* A delivery that times out ends its receive side, and the diagnostics      *)
(* counter counts exactly those streams.                                     *)
THEOREM TimeoutsEndReceive == Spec => []TimeoutEndsReceive
<1>1. IInv => TimeoutEndsReceive
  BY DEF IInv, TimedOutIsIdle, TimeoutsCounted, TimeoutEndsReceive
<1> QED
  BY <1>1, Inductive, PTL

(* A completion sent for a chunk reaches a native side that waits for that   *)
(* very chunk, or a stream its connection took down.                         *)
THEOREM CompletionsAreExpected == Spec => NoStaleCompletion
<1> DEFINE Expected(id, n) ==
      answers'[id][n] # answers[id][n] =>
         \/ owed[id] = n
         \/ sent[id] < n /\ sent'[id] = n
         \/ rx[id] = "ended"
<1>1. ASSUME IInv, [Next]_vars, NEW id \in Ids, NEW n \in Chunks
      PROVE  Expected(id, n)
  <2> SUFFICES ASSUME answers'[id][n] # answers[id][n]
      PROVE  \/ owed[id] = n
             \/ sent[id] < n /\ sent'[id] = n
             \/ rx[id] = "ended"
    OBVIOUS
  <2>t. TypeOK
    BY <1>1 DEF IInv
  <2>1. ASSUME NEW i \in Ids, NextChunk(i), CompleteReceive(i, sent[i] + 1, FALSE)
        PROVE  sent[id] < n /\ sent'[id] = n
    <3>1. sent[i] + 1 \in Chunks /\ sent[i] \in Nat
      BY <2>1, <2>t, ChunkFacts DEF TypeOK, NextChunk
    <3>2. AnswersOnly(i, sent[i] + 1)
      BY <2>1, <2>t, <3>1, CompleteReceiveEffect
    <3>3. i = id /\ n = sent[i] + 1
      BY <3>2 DEF AnswersOnly
    <3> QED
      BY <2>1, <2>t, <3>1, <3>3 DEF NextChunk, TypeOK
  <2>2. ASSUME NEW i \in Ids, NEW m \in Chunks, NEW accepted \in BOOLEAN,
               receiveTimers[i] = m, CompleteReceive(i, m, accepted)
        PROVE  owed[id] = n \/ rx[id] = "ended"
    <3>1. AnswersOnly(i, m)
      BY <2>2, <2>t, CompleteReceiveEffect
    <3>2. i = id /\ n = m
      BY <3>1 DEF AnswersOnly
    <3> QED
      BY <1>1, <2>2, <3>2, ChunkFacts DEF IInv, TimerIsCurrent
  <2>3. CASE \E i \in Ids : HandleDataUnknown(i) \/ DeliverThrows(i)
    BY <2>1, <2>3 DEF HandleDataUnknown, DeliverThrows
  <2>4. CASE \E i \in Ids, m \in Chunks :
                TimerFires(i, m) \/ \E accepted \in BOOLEAN : DeliverySettles(i, m, accepted)
    BY <2>2, <2>4 DEF TimerFires, DeliverySettles, FinishReceive
  <2>5. CASE UNCHANGED answers
    BY <2>5
  <2> QED
    BY <1>1, <2>3, <2>4, <2>5
       DEF Next, vars, Register, Unregister, DeliverReceive, HandleStreamEnd,
           HandleConnectionEnd, HandleStop
<1>2. IInv /\ [Next]_vars =>
         [\A id \in Ids : \A n \in Chunks : Expected(id, n)]_vars
  BY <1>1
<1> QED
  BY <1>2, Inductive, PTL DEF Spec, NoStaleCompletion

-----------------------------------------------------------------------------
(* How steps of the receive path look to the transport. *)
CreditOf(state, chunk) ==
    IF state \in {"aborted", "ended"} THEN "closed"
    ELSE IF chunk # None THEN "out" ELSE "idle"

LEMMA CreditValue ==
    /\ credit = [id \in Ids |-> CreditOf(rx[id], owed[id])]
    /\ credit' = [id \in Ids |-> CreditOf(rx'[id], owed'[id])]
BY DEF credit, CreditOf

(* The receive sides of a set are closed, the others left alone.             *)
LEMMA Closes ==
    ASSUME NEW S \in SUBSET Ids, S # {},
           \A id \in S : rx'[id] \in {"aborted", "ended"},
           \A id \in Ids \ S : rx'[id] = rx[id] /\ owed'[id] = owed[id]
    PROVE  Credit!Close(S)
<1>1. credit' = [id \in Ids |-> IF id \in S THEN "closed" ELSE credit[id]]
  BY CreditValue DEF CreditOf
<1> QED
  BY <1>1 DEF Credit!Close

(* The stored chunk is completed: given back or refused, or its stream is gone. *)
LEMMA CompletionMaps ==
    ASSUME IInv, NEW id \in Ids, NEW n \in Chunks, NEW accepted \in BOOLEAN,
           receiveTimers[id] = n, CompleteReceive(id, n, accepted)
    PROVE  [Credit!Next]_credit
<1>1. /\ owed[id] = n \/ rx[id] = "ended"
      /\ rx[id] \in {"open", "aborted", "ended"} /\ n # None
      /\ owed \in [Ids -> Chunks \cup {None}]
      /\ rx \in [Ids -> {"new", "open", "aborted", "ended"}]
  BY ChunkFacts DEF IInv, TimerIsCurrent, TypeOK
<1>2. /\ owed'[id] = None
      /\ rx'[id] = IF rx[id] = "open" /\ ~accepted THEN "aborted" ELSE rx[id]
      /\ \A i \in Ids \ {id} : owed'[i] = owed[i] /\ rx'[i] = rx[i]
  BY <1>1 DEF CompleteReceive
<1>3. CASE rx[id] = "open" /\ accepted
  <2>1. credit[id] = "out" /\ credit' = [credit EXCEPT ![id] = "idle"]
    BY <1>1, <1>2, <1>3, CreditValue DEF CreditOf
  <2> QED
    BY <2>1 DEF Credit!Next, Credit!GiveBack
<1>4. CASE ~(rx[id] = "open" /\ accepted)
  <2>1. rx'[id] \in {"aborted", "ended"}
    BY <1>1, <1>2, <1>4
  <2>2. Credit!Close({id})
    BY <1>2, <2>1, Closes
  <2> QED
    BY <2>2 DEF Credit!Next
<1> QED
  BY <1>3, <1>4

(* A chunk that finds no receiver, or whose handler throws, is refused in the *)
(* turn in which it came.                                                    *)
LEMMA RefusalMaps ==
    ASSUME IInv, NEW id \in Ids, NextChunk(id), CompleteReceive(id, sent[id] + 1, FALSE)
    PROVE  [Credit!Next]_credit
<1>1. /\ rx[id] = "open"
      /\ rx \in [Ids -> {"new", "open", "aborted", "ended"}]
      /\ owed \in [Ids -> Chunks \cup {None}]
  BY DEF NextChunk, IInv, TypeOK
<1>2. /\ rx'[id] = "aborted"
      /\ \A i \in Ids \ {id} : owed'[i] = owed[i] /\ rx'[i] = rx[i]
  BY <1>1 DEF CompleteReceive
<1>3. Credit!Close({id})
  BY <1>2, Closes
<1> QED
  BY <1>3 DEF Credit!Next

LEMMA StepMaps == IInv /\ [Next]_vars => [Credit!Next]_credit
<1> SUFFICES ASSUME IInv, [Next]_vars PROVE [Credit!Next]_credit
  OBVIOUS
<1>t. /\ rx \in [Ids -> {"new", "open", "aborted", "ended"}]
      /\ owed \in [Ids -> Chunks \cup {None}]
      /\ sent \in [Ids -> 0 .. MaxChunks]
  BY DEF IInv, TypeOK
<1>1. ASSUME NEW id \in Ids, Register(id)
      PROVE  [Credit!Next]_credit
  <2>1. rx[id] = "new" /\ owed[id] = None
    BY <1>1 DEF Register, IInv, OwedIsStored, TimerIsCurrent
  <2>2. /\ rx'[id] = "open" /\ owed' = owed
        /\ \A i \in Ids \ {id} : rx'[i] = rx[i]
    BY <1>1, <1>t DEF Register
  <2> QED
    BY <2>1, <2>2, CreditValue DEF CreditOf
<1>2. CASE UNCHANGED <<rx, owed>>
  BY <1>2 DEF credit
<1>3. ASSUME NEW id \in Ids, HandleDataUnknown(id) \/ DeliverThrows(id)
      PROVE  [Credit!Next]_credit
  BY <1>3, RefusalMaps DEF HandleDataUnknown, DeliverThrows
<1>4. ASSUME NEW id \in Ids, DeliverReceive(id)
      PROVE  [Credit!Next]_credit
  <2>1. rx[id] = "open" /\ owed[id] = None /\ sent[id] + 1 # None /\ rx' = rx
    BY <1>4, <1>t, ChunkFacts DEF DeliverReceive, NextChunk
  <2>2. /\ owed'[id] = sent[id] + 1
        /\ \A i \in Ids \ {id} : owed'[i] = owed[i]
    BY <1>4, <1>t DEF DeliverReceive
  <2>3. credit[id] = "idle" /\ credit' = [credit EXCEPT ![id] = "out"]
    BY <2>1, <2>2, CreditValue DEF CreditOf
  <2> QED
    BY <2>3 DEF Credit!Next, Credit!Deliver
<1>5. ASSUME NEW id \in Ids, NEW n \in Chunks, NEW accepted \in BOOLEAN,
             TimerFires(id, n) \/ DeliverySettles(id, n, accepted)
      PROVE  [Credit!Next]_credit
  BY <1>2, <1>5, CompletionMaps DEF TimerFires, DeliverySettles, FinishReceive
<1>6. ASSUME NEW id \in Ids, HandleStreamEnd(id)
      PROVE  [Credit!Next]_credit
  <2>1. /\ rx'[id] = "ended"
        /\ \A i \in Ids \ {id} : rx'[i] = rx[i] /\ owed'[i] = owed[i]
    BY <1>6, <1>t DEF HandleStreamEnd
  <2>2. Credit!Close({id})
    BY <2>1, Closes
  <2> QED
    BY <2>2 DEF Credit!Next
<1>7. ASSUME NEW c \in Connections, HandleConnectionEnd(c)
      PROVE  [Credit!Next]_credit
  <2> DEFINE S == {id \in Ids : ConnectionOf[id] = c}
  <2>1. /\ S # {} /\ S \in SUBSET Ids
        /\ \A id \in S : rx'[id] = "ended"
        /\ \A id \in Ids \ S : rx'[id] = rx[id] /\ owed'[id] = owed[id]
    BY <1>7 DEF HandleConnectionEnd
  <2>2. Credit!Close(S)
    BY <2>1, Closes
  <2> QED
    BY <2>1, <2>2 DEF Credit!Next
<1>8. CASE HandleStop
  <2>1. Ids # {} /\ \A id \in Ids : rx'[id] = "ended"
    BY <1>8 DEF HandleStop
  <2>2. Credit!Close(Ids)
    BY <2>1, Closes
  <2> QED
    BY <2>2 DEF Credit!Next
<1> QED
  BY <1>1, <1>2, <1>3, <1>4, <1>5, <1>6, <1>7, <1>8 DEF Next, vars, Unregister

(* The receive path keeps the one-credit contract, for any number of streams, *)
(* connections and chunks: on no stream a second chunk is delivered before    *)
(* the first was given back, and nothing is once its receive side is closed.  *)
(* It is the safety half of ImplementsReceiveCredit.                          *)
THEOREM KeepsCredit == Spec => Credit!Safety
<1>1. Init => Credit!Init
  <2> SUFFICES ASSUME Init PROVE credit = [id \in Ids |-> "idle"]
    BY DEF Credit!Init
  <2> QED
    BY CreditValue DEF Init, CreditOf
<1> QED
  BY <1>1, Inductive, StepMaps, PTL DEF Spec, Credit!Safety
=============================================================================
