--------------------------- MODULE ToolLoopProofs ---------------------------
(***************************************************************************)
(* Proofs about ToolLoop, for any calls, batch size and limits: the bound  *)
(* on executed calls, the currency of cached results, the absence of       *)
(* repeated calls and the bound on the model's answers.                    *)
(***************************************************************************)
EXTENDS ToolLoop, FiniteSetTheorems, SequenceTheorems, TLAPS

USE DEF Cached, Cacheable, Clears, InProgress, loopVars, worldVars

\* The room a batch leaves: once it executes a call, every call it still may
\* execute is one of at most MaxBatch - 1 others.
Room ==
  /\ toolCalls < MaxToolCalls + MaxBatch
  /\ pc = "batch" =>
       \/ toolCalls + Len(batch) < MaxToolCalls + MaxBatch
       \/ \A i \in DOMAIN batch : Cacheable(batch[i]) /\ Cached(batch[i])
  /\ pc = "tool" => toolCalls + Len(batch) <= MaxToolCalls + MaxBatch

\* What is true of the call under way.
UnderWay ==
  pc = "tool" =>
    /\ batch # <<>>
    /\ seen <= changes /\ changes <= seen + unreported
    /\ ~ (Cacheable(Head(batch)) /\ Cached(Head(batch)))

\* An executed call that can be cached is in the cache, or a successful write
\* came after it.
Remembered ==
  \A i \in DOMAIN events :
    events[i].call \notin Tests =>
      \/ Cached(events[i].call)
      \/ \E k \in (i + 1)..Len(events) : events[k].call \in Writes /\ events[k].ok

\* How many answers were asked for at each place.
Asked ==
  /\ asked <= MaxIterations + 1
  /\ pc = "asking" => asked < iteration
  /\ pc \in {"batch", "tool", "recovering"} => asked <= iteration

Invariant ==
  /\ TypeOK
  /\ Room
  /\ UnderWay
  /\ CachedResultsCurrent
  /\ Remembered
  /\ SameCallNotRepeated
  /\ Asked
-----------------------------------------------------------------------------
\* An answer holds at least one call of the registry and at most MaxBatch.
LEMMA BatchType ==
  ASSUME NEW b \in Batches
  PROVE  b \in Seq(Calls) /\ Len(b) \in 1..MaxBatch /\ b # <<>>
<1>1. PICK n \in 1..MaxBatch : b \in [1..n -> Calls]
  BY DEF Batches
<1>2. b \in Seq(Calls) /\ Len(b) = n
  BY <1>1, LoopAssumption
<1> QED
  BY <1>1, <1>2, LoopAssumption

\* An answer without new calls repeats cached ones only (new_call_count).
LEMMA NothingNew ==
  ASSUME NEW b \in Batches
  PROVE  /\ NewCalls(b) \in Nat
         /\ NewCalls(b) = 0 => \A i \in DOMAIN b : Cached(b[i])
<1> DEFINE new == {i \in DOMAIN b : ~ Cached(b[i])}
<1>1. DOMAIN b = 1..Len(b) /\ Len(b) \in Nat
  BY BatchType, LoopAssumption
<1>2. IsFiniteSet(1..Len(b))
  BY <1>1, FS_Interval
<1>3. IsFiniteSet(new)
  BY <1>1, <1>2, FS_Subset
<1>4. Cardinality(new) \in Nat /\ (Cardinality(new) = 0 <=> new = {})
  BY <1>3, FS_CardinalityType, FS_EmptySet
<1> QED
  BY <1>4 DEF NewCalls

\* What is left of a batch when its first call has been dealt with.
LEMMA TailOfBatch ==
  ASSUME TypeOK, batch # <<>>
  PROVE  /\ Head(batch) \in Calls
         /\ Head(batch) = batch[1] /\ 1 \in DOMAIN batch
         /\ Tail(batch) \in Seq(Calls)
         /\ Len(Tail(batch)) = Len(batch) - 1
         /\ \A i \in DOMAIN Tail(batch) :
              Tail(batch)[i] = batch[i + 1] /\ i + 1 \in DOMAIN batch
  BY HeadTailProperties DEF TypeOK

\* Storing a result: the call itself is held when it can be, the others stay
\* unless the result is a successful write.
LEMMA CacheStep ==
  ASSUME TypeOK, NEW e \in Event, cache' = CacheAfter(e)
  PROVE  /\ DOMAIN cache' \subseteq Reads \cup Writes
         /\ Cacheable(e.call) => e.call \in DOMAIN cache' /\ cache'[e.call] = e
         /\ \A c \in DOMAIN cache' : c # e.call =>
              ~ Clears(e) /\ c \in DOMAIN cache /\ cache'[c] = cache[c]
         /\ ~ Clears(e) => \A c \in DOMAIN cache : c \in DOMAIN cache'
         /\ \A c \in DOMAIN cache' : cache'[c] \in Event
<1> DEFINE kept == IF Clears(e) THEN {} ELSE DOMAIN cache
           held == IF Cacheable(e.call) THEN kept \cup {e.call} ELSE kept
<1>1. cache' = [c \in held |-> IF c = e.call THEN e ELSE cache[c]]
  BY DEF CacheAfter
<1>2. DOMAIN cache' = held
  BY <1>1
<1>3. e.call \in Calls
  BY DEF Event
<1>4. Cacheable(e.call) => e.call \in Reads \cup Writes
  BY <1>3 DEF Calls
<1>5. kept \subseteq DOMAIN cache /\ kept \subseteq Reads \cup Writes
  BY DEF TypeOK
<1>6. \A c \in held : cache'[c] = IF c = e.call THEN e ELSE cache[c]
  BY <1>1
<1>7. \A c \in held : c # e.call => c \in kept
  OBVIOUS
<1> HIDE DEF kept, held
<1>8. DOMAIN cache' \subseteq Reads \cup Writes
  BY <1>2, <1>4, <1>5 DEF held
<1>9. Cacheable(e.call) => e.call \in DOMAIN cache' /\ cache'[e.call] = e
  BY <1>2, <1>6 DEF held
<1>10. \A c \in DOMAIN cache' : c # e.call =>
         ~ Clears(e) /\ c \in DOMAIN cache /\ cache'[c] = cache[c]
  BY <1>2, <1>5, <1>6, <1>7 DEF kept
<1>11. ~ Clears(e) => \A c \in DOMAIN cache : c \in DOMAIN cache'
  BY <1>2 DEF kept, held
<1>12. \A c \in DOMAIN cache' : cache'[c] \in Event
  BY <1>2, <1>6, <1>10 DEF TypeOK
<1> QED
  BY <1>8, <1>9, <1>10, <1>11, <1>12

\* Recording the result of the call under way, whatever it is: the types, and
\* what it leaves of the batch.
LEMMA RecordStep ==
  ASSUME TypeOK, UnderWay, pc = "tool",
         NEW e \in Event, e.call = Head(batch), Record(e)
  PROVE  /\ batch' \in Seq(Calls) /\ Len(batch') = Len(batch) - 1 /\ Len(batch) >= 1
         /\ events' \in Seq(Event)
         /\ Len(events') = Len(events) + 1
         /\ \A i \in DOMAIN events : events'[i] = events[i]
         /\ events'[Len(events) + 1] = e
         /\ DOMAIN events' = 1..(Len(events) + 1)
<1>1. batch # <<>> /\ batch' = Tail(batch) /\ events' = Append(events, e)
  BY DEF UnderWay, Record
<1>2. batch' \in Seq(Calls) /\ Len(batch') = Len(batch) - 1 /\ Len(batch) >= 1
  BY <1>1, TailOfBatch DEF TypeOK
<1>3. events \in Seq(Event)
  BY DEF TypeOK
<1> QED
  BY <1>1, <1>2, <1>3

\* What the three ways a call ends have in common.
LEMMA CallEnds ==
  ASSUME TypeOK, UnderWay, FinishCall \/ WriteSucceeds \/ WriteFails
  PROVE  /\ pc = "tool"
         /\ changes' \in Nat /\ unreported' \in Nat /\ late' \in Nat
         /\ \E e \in Event :
              /\ e.call = Head(batch) /\ Record(e)
              /\ e.seen + unreported' >= changes'
              /\ Clears(e) \/ unreported + changes' = unreported' + changes
<1>1. Head(batch) \in Calls
  BY TailOfBatch DEF UnderWay, FinishCall, WriteSucceeds, WriteFails
<1>2. CASE FinishCall
  <2>1. PICK ok \in BOOLEAN, n \in seen..changes :
          Record([call |-> Head(batch), ok |-> ok, seen |-> n])
    BY <1>2 DEF FinishCall
  <2> DEFINE e == [call |-> Head(batch), ok |-> ok, seen |-> n]
  <2>2. n \in Nat /\ n + unreported >= changes
    BY <1>2, <2>1 DEF FinishCall, UnderWay, TypeOK
  <2>3. e \in Event /\ e.call = Head(batch) /\ e.seen = n
    BY <1>1, <2>1, <2>2 DEF Event
  <2> QED
    BY <1>2, <2>1, <2>2, <2>3 DEF FinishCall, TypeOK
<1>3. CASE WriteSucceeds
  <2> DEFINE e == [call |-> Head(batch), ok |-> TRUE, seen |-> changes + 1]
  <2>1. e \in Event /\ e.call = Head(batch) /\ e.ok /\ e.seen = changes + 1
    BY <1>1 DEF Event, TypeOK
  <2>2. Clears(e) /\ Record(e)
    BY <1>3, <2>1 DEF WriteSucceeds
  <2>3. unreported' = 0 /\ changes' = changes + 1 /\ late' = late /\ pc = "tool"
    BY <1>3 DEF WriteSucceeds
  <2> QED
    BY <2>1, <2>2, <2>3 DEF TypeOK
<1>4. CASE WriteFails
  <2> DEFINE e == [call |-> Head(batch), ok |-> FALSE, seen |-> changes]
  <2>1. e \in Event /\ e.call = Head(batch) /\ e.seen = changes
    BY <1>1 DEF Event, TypeOK
  <2>2. Record(e) /\ pc = "tool"
    BY <1>4 DEF WriteFails
  <2>3. \/ changes' = changes /\ unreported' = unreported /\ late' \in {late, late + 1}
        \/ changes' = changes + 1 /\ unreported' = unreported + 1 /\ late' = late
    BY <1>4 DEF WriteFails
  <2>4. changes \in Nat /\ unreported \in Nat /\ late \in Nat
    BY DEF TypeOK
  <2>5. /\ changes' \in Nat /\ unreported' \in Nat /\ late' \in Nat
        /\ changes + unreported' >= changes'
        /\ unreported + changes' = unreported' + changes
    BY <2>3, <2>4
  <2> HIDE DEF e
  <2> QED
    BY <2>1, <2>2, <2>5
<1> QED
  BY <1>2, <1>3, <1>4
-----------------------------------------------------------------------------
\* Every step of the loop keeps the types, and the rounds within the limit.
LEMMA TypeStep == TypeOK /\ UnderWay /\ [Next]_vars => TypeOK'
<1> SUFFICES ASSUME TypeOK, UnderWay, [Next]_vars PROVE TypeOK'
  OBVIOUS
<1> USE LoopAssumption
<1>1. CASE AnswerWithoutCalls \/ PlanWithCalls \/ Stop
  BY <1>1, SMTT(30) DEF TypeOK, AnswerWithoutCalls, PlanWithCalls, Stop, Locations
<1>2. ASSUME NEW b \in Batches, AnswerOverBudget(b) \/ AnswerWithCalls(b)
      PROVE  TypeOK'
  <2>1. b \in Seq(Calls)
    BY BatchType
  <2>2. CASE AnswerOverBudget(b)
    BY <2>2 DEF TypeOK, AnswerOverBudget, Locations
  <2>3. CASE AnswerWithCalls(b)
    <3>1. batch' = b /\ fresh' = FALSE /\ pc' = "batch" /\ asked' = asked + 1
      BY <2>3 DEF AnswerWithCalls
    <3>2. batch' \in Seq(Calls)
      BY <2>1, <3>1, Zenon
    <3>3. UNCHANGED <<mode, iteration, seen, cache, toolCalls, events, worldVars>>
      BY <2>3 DEF AnswerWithCalls
    <3>4. fresh' \in BOOLEAN
      BY <3>1
    <3>5. asked' \in Nat
      BY <3>1 DEF TypeOK
    <3>6. pc' \in Locations
      BY <3>1 DEF Locations
    <3> QED
      BY <3>2, <3>3, <3>4, <3>5, <3>6 DEF TypeOK
  <2> QED
    BY <1>2, <2>2, <2>3
<1>3. CASE Reuse
  BY <1>3, TailOfBatch DEF TypeOK, Reuse
<1>4. CASE StartCall
  BY <1>4 DEF TypeOK, StartCall, Locations
<1>5. CASE FinishCall \/ WriteSucceeds \/ WriteFails
  <2>1. PICK e \in Event : e.call = Head(batch) /\ Record(e)
    BY <1>5, CallEnds
  <2>2. pc = "tool" /\ changes' \in Nat /\ unreported' \in Nat /\ late' \in Nat
    BY <1>5, CallEnds
  <2>3. batch' \in Seq(Calls) /\ events' \in Seq(Event)
    BY <2>1, <2>2, RecordStep
  <2>4. cache' = CacheAfter(e)
    BY <2>1 DEF Record
  <2>5. DOMAIN cache' \subseteq Reads \cup Writes /\ \A c \in DOMAIN cache' : cache'[c] \in Event
    BY <2>4, CacheStep
  <2>6. /\ UNCHANGED <<mode, iteration, asked, seen, toolCalls>>
        /\ fresh' = TRUE /\ pc' = "batch"
    BY <2>1 DEF Record
  <2> QED
    BY <2>2, <2>3, <2>5, <2>6 DEF TypeOK, Locations
<1>6. CASE LateWriteEnds
  BY <1>6 DEF TypeOK, LateWriteEnds
<1>7. CASE EndBatch
  BY <1>7 DEF TypeOK, EndBatch, RoundsLeft, Locations
<1>8. CASE RecoveryAnswer
  BY <1>8 DEF TypeOK, RecoveryAnswer, AfterRecovery, Locations
<1>9. CASE UNCHANGED vars
  BY <1>9 DEF TypeOK, vars
<1> QED
  BY <1>1, <1>2, <1>3, <1>4, <1>5, <1>6, <1>7, <1>8, <1>9 DEF Next

\* Every step keeps the room: a batch is admitted when its new calls fit, and
\* an admitted batch without new calls executes none.
LEMMA RoomStep == TypeOK /\ UnderWay /\ Room /\ [Next]_vars => Room'
<1> SUFFICES ASSUME TypeOK, UnderWay, Room, [Next]_vars PROVE Room'
  OBVIOUS
<1> USE LoopAssumption
<1>1. CASE AnswerWithoutCalls \/ PlanWithCalls \/ Stop \/ RecoveryAnswer
  BY <1>1 DEF Room, AnswerWithoutCalls, PlanWithCalls, Stop, RecoveryAnswer, AfterRecovery
<1>2. ASSUME NEW b \in Batches, AnswerOverBudget(b)
      PROVE  Room'
  BY <1>2 DEF Room, AnswerOverBudget
<1>3. ASSUME NEW b \in Batches, AnswerWithCalls(b)
      PROVE  Room'
  <2>1. /\ Len(b) \in 1..MaxBatch
        /\ NewCalls(b) \in Nat
        /\ NewCalls(b) = 0 => \A i \in DOMAIN b : Cached(b[i])
    BY BatchType, NothingNew
  <2>2. toolCalls + NewCalls(b) <= MaxToolCalls /\ toolCalls \in Nat
    BY <1>3 DEF AnswerWithCalls, WithinBudget, TypeOK
  <2>3. batch' = b /\ pc' = "batch" /\ toolCalls' = toolCalls /\ cache' = cache
    BY <1>3 DEF AnswerWithCalls
  <2>4. CASE NewCalls(b) = 0
    <3>1. \A i \in DOMAIN b : Cacheable(b[i])
      BY <2>1, <2>4, LoopAssumption DEF TypeOK
    <3>2. \A i \in DOMAIN batch' : Cacheable(batch'[i]) /\ Cached(batch[i])'
      BY <2>1, <2>3, <2>4, <3>1
    <3> QED
      BY <2>2, <2>3, <3>2 DEF Room
  <2>5. CASE NewCalls(b) > 0
    <3>1. toolCalls' + Len(batch') < MaxToolCalls + MaxBatch
      BY <2>1, <2>2, <2>3, <2>5
    <3> QED
      BY <2>3, <3>1 DEF Room
  <2> QED
    BY <2>1, <2>4, <2>5
<1>4. CASE Reuse
  <2>1. Len(batch') = Len(batch) - 1 /\ Len(batch) \in Nat
    BY <1>4, TailOfBatch DEF Reuse, TypeOK
  <2>2. \A i \in DOMAIN batch' : batch'[i] = batch[i + 1] /\ i + 1 \in DOMAIN batch
    BY <1>4, TailOfBatch DEF Reuse
  <2>3. UNCHANGED <<pc, toolCalls, cache>>
    BY <1>4 DEF Reuse
  <2>4. CASE toolCalls + Len(batch) < MaxToolCalls + MaxBatch
    BY <1>4, <2>1, <2>3, <2>4 DEF Room, Reuse, TypeOK
  <2>5. CASE \A i \in DOMAIN batch : Cacheable(batch[i]) /\ Cached(batch[i])
    BY <1>4, <2>2, <2>3, <2>5 DEF Room, Reuse
  <2> QED
    BY <1>4, <2>4, <2>5 DEF Room, Reuse
<1>5. CASE StartCall
  <2>1. batch[1] = Head(batch) /\ 1 \in DOMAIN batch /\ Len(batch) >= 1
    BY <1>5, TailOfBatch DEF StartCall, TypeOK
  <2>2. toolCalls + Len(batch) < MaxToolCalls + MaxBatch
    BY <1>5, <2>1 DEF StartCall, Room
  <2>3. toolCalls' = toolCalls + 1 /\ batch' = batch /\ pc' = "tool"
    BY <1>5 DEF StartCall
  <2> QED
    BY <2>1, <2>2, <2>3 DEF Room, TypeOK
<1>6. CASE FinishCall \/ WriteSucceeds \/ WriteFails
  <2>1. PICK e \in Event : e.call = Head(batch) /\ Record(e)
    BY <1>6, CallEnds
  <2>2. pc = "tool"
    BY <1>6, CallEnds
  <2>3. Len(batch') = Len(batch) - 1 /\ Len(batch) >= 1 /\ Len(batch) \in Nat
    BY <2>1, <2>2, RecordStep DEF TypeOK
  <2>4. toolCalls' = toolCalls /\ pc' = "batch"
    BY <2>1 DEF Record
  <2> QED
    BY <2>2, <2>3, <2>4 DEF Room, TypeOK
<1>7. CASE LateWriteEnds
  BY <1>7 DEF Room, LateWriteEnds
<1>8. CASE EndBatch
  BY <1>8 DEF Room, EndBatch
<1>9. CASE UNCHANGED vars
  BY <1>9 DEF Room, vars
<1> QED
  BY <1>1, <1>2, <1>3, <1>4, <1>5, <1>6, <1>7, <1>8, <1>9 DEF Next

\* Every step keeps what is known of the call under way: an effect that arrives
\* while it runs is one nobody reported.
LEMMA UnderWayStep == TypeOK /\ UnderWay /\ [Next]_vars => UnderWay'
<1> SUFFICES ASSUME TypeOK, UnderWay, [Next]_vars, pc' = "tool" PROVE UnderWay'
  BY DEF UnderWay
<1>1. CASE StartCall
  BY <1>1 DEF UnderWay, StartCall, TypeOK
<1>2. CASE LateWriteEnds
  BY <1>2 DEF UnderWay, LateWriteEnds, TypeOK
<1>3. CASE UNCHANGED vars
  BY <1>3 DEF UnderWay, vars
<1>4. ~ FinishCall /\ ~ WriteSucceeds /\ ~ WriteFails
  BY DEF FinishCall, WriteSucceeds, WriteFails, Record
<1>5. \A b \in Batches : ~ AnswerOverBudget(b) /\ ~ AnswerWithCalls(b)
  BY DEF AnswerOverBudget, AnswerWithCalls
<1>6. ~ Reuse /\ ~ EndBatch /\ ~ RecoveryAnswer /\ ~ Stop
  BY DEF Reuse, EndBatch, RecoveryAnswer, AfterRecovery, Stop
<1>7. ~ AnswerWithoutCalls /\ ~ PlanWithCalls
  BY DEF AnswerWithoutCalls, PlanWithCalls
<1> QED
  BY <1>1, <1>2, <1>3, <1>4, <1>5, <1>6, <1>7 DEF Next

\* Steps other than these leave the cache, the events and the workspace alone.
LEMMA DataUntouched ==
  ASSUME [Next]_vars, ~ FinishCall, ~ WriteSucceeds, ~ WriteFails
  PROVE  /\ UNCHANGED <<cache, events>>
         /\ LateWriteEnds \/ UNCHANGED worldVars
<1>1. ASSUME NEW b \in Batches, AnswerOverBudget(b) \/ AnswerWithCalls(b)
      PROVE  UNCHANGED <<cache, events, worldVars>>
  BY <1>1 DEF AnswerOverBudget, AnswerWithCalls
<1>2. CASE AnswerWithoutCalls \/ PlanWithCalls \/ Reuse \/ StartCall
  BY <1>2 DEF AnswerWithoutCalls, PlanWithCalls, Reuse, StartCall
<1>3. CASE EndBatch \/ RecoveryAnswer \/ Stop \/ UNCHANGED vars
  BY <1>3 DEF EndBatch, RecoveryAnswer, Stop, vars
<1>4. CASE LateWriteEnds
  BY <1>4 DEF LateWriteEnds
<1> QED
  BY <1>1, <1>2, <1>3, <1>4 DEF Next

\* Every step keeps cached results current: a reported change empties the
\* cache, another one is counted as unreported.
LEMMA CurrentStep ==
  TypeOK /\ UnderWay /\ CachedResultsCurrent /\ [Next]_vars => CachedResultsCurrent'
<1> SUFFICES ASSUME TypeOK, UnderWay, CachedResultsCurrent, [Next]_vars,
                    NEW c \in DOMAIN cache'
             PROVE  cache'[c].seen + unreported' >= changes'
  BY DEF CachedResultsCurrent
<1>1. CASE FinishCall \/ WriteSucceeds \/ WriteFails
  <2>1. changes' \in Nat /\ unreported' \in Nat
    BY <1>1, CallEnds
  <2>2. PICK e \in Event :
          /\ e.call = Head(batch) /\ Record(e)
          /\ e.seen + unreported' >= changes'
          /\ Clears(e) \/ unreported + changes' = unreported' + changes
    BY <1>1, CallEnds
  <2>3. cache' = CacheAfter(e)
    BY <2>2 DEF Record
  <2>4. CASE c = e.call
    <3>1. Cacheable(e.call)
      <4>1. DOMAIN cache' \subseteq Reads \cup Writes
        BY <2>3, CacheStep
      <4> QED
        BY <2>4, <4>1, LoopAssumption
    <3>2. cache'[c] = e
      BY <2>3, <2>4, <3>1, CacheStep
    <3> QED
      BY <2>2, <3>2
  <2>5. CASE c # e.call
    <3>1. ~ Clears(e) /\ c \in DOMAIN cache /\ cache'[c] = cache[c]
      BY <2>3, <2>5, CacheStep
    <3>2. cache[c].seen + unreported >= changes /\ cache[c].seen \in Nat
      BY <3>1 DEF CachedResultsCurrent, TypeOK, Event
    <3>3. unreported + changes' = unreported' + changes
      BY <2>2, <3>1
    <3>4. unreported \in Nat /\ changes \in Nat
      BY DEF TypeOK
    <3> QED
      BY <2>1, <3>1, <3>2, <3>3, <3>4
  <2> QED
    BY <2>4, <2>5
<1>2. CASE ~ FinishCall /\ ~ WriteSucceeds /\ ~ WriteFails
  <2>1. cache' = cache /\ (LateWriteEnds \/ UNCHANGED worldVars)
    BY <1>2, DataUntouched
  <2>2. cache[c].seen + unreported >= changes /\ cache[c].seen \in Nat
    BY <2>1 DEF CachedResultsCurrent, TypeOK, Event
  <2>3. \/ unreported' = unreported /\ changes' = changes
        \/ unreported' = unreported + 1 /\ changes' = changes + 1
    BY <2>1 DEF LateWriteEnds
  <2> QED
    BY <2>1, <2>2, <2>3 DEF TypeOK
<1> QED
  BY <1>1, <1>2

\* Every step keeps the events remembered: a result leaves the cache only when a
\* successful write empties it, and that write is then the latest event.
LEMMA RememberedStep ==
  TypeOK /\ UnderWay /\ Remembered /\ [Next]_vars => Remembered'
<1> SUFFICES ASSUME TypeOK, UnderWay, Remembered, [Next]_vars PROVE Remembered'
  OBVIOUS
<1>1. CASE FinishCall \/ WriteSucceeds \/ WriteFails
  <2>1. PICK e \in Event : e.call = Head(batch) /\ Record(e)
    BY <1>1, CallEnds
  <2>2. pc = "tool"
    BY <1>1, CallEnds
  <2> DEFINE n == Len(events)
  <2>3. /\ n \in Nat /\ Len(events') = n + 1 /\ DOMAIN events' = 1..(n + 1)
        /\ DOMAIN events = 1..n
        /\ \A i \in 1..n : events'[i] = events[i]
        /\ events'[n + 1] = e
    BY <2>1, <2>2, RecordStep DEF TypeOK
  <2>4. cache' = CacheAfter(e)
    BY <2>1 DEF Record
  <2> SUFFICES ASSUME NEW i \in 1..(n + 1), events'[i].call \notin Tests
               PROVE  \/ events'[i].call \in DOMAIN cache'
                      \/ \E k \in (i + 1)..(n + 1) :
                           events'[k].call \in Writes /\ events'[k].ok
    BY <2>3 DEF Remembered
  <2>5. CASE i = n + 1
    BY <2>3, <2>4, <2>5, CacheStep
  <2>6. CASE i \in 1..n /\ Clears(e)
    <3>1. n + 1 \in (i + 1)..(n + 1)
      BY <2>3, <2>6
    <3> QED
      BY <2>3, <2>6, <3>1
  <2>7. CASE i \in 1..n /\ ~ Clears(e)
    <3>1. events'[i] = events[i]
      BY <2>3, <2>7
    <3>2. CASE events[i].call \in DOMAIN cache
      BY <2>4, <2>7, <3>1, <3>2, CacheStep
    <3>3. CASE \E k \in (i + 1)..n : events[k].call \in Writes /\ events[k].ok
      <4>1. PICK k \in (i + 1)..n : events[k].call \in Writes /\ events[k].ok
        BY <3>3
      <4>2. k \in 1..n /\ k \in (i + 1)..(n + 1)
        BY <2>3, <2>7
      <4>3. events'[k] = events[k]
        BY <2>3, <4>2
      <4> QED
        BY <4>1, <4>2, <4>3
    <3> QED
      BY <2>3, <2>7, <3>1, <3>2, <3>3 DEF Remembered
  <2>8. i = n + 1 \/ i \in 1..n
    BY <2>3
  <2> QED
    BY <2>5, <2>6, <2>7, <2>8
<1>2. CASE ~ FinishCall /\ ~ WriteSucceeds /\ ~ WriteFails
  BY <1>2, DataUntouched DEF Remembered
<1> QED
  BY <1>1, <1>2

\* Every step keeps identical calls apart: the call under way is not in the
\* cache, so a write has succeeded since its last execution.
LEMMA NotRepeatedStep ==
  TypeOK /\ UnderWay /\ Remembered /\ SameCallNotRepeated /\ [Next]_vars
    => SameCallNotRepeated'
<1> SUFFICES ASSUME TypeOK, UnderWay, Remembered, SameCallNotRepeated, [Next]_vars
             PROVE  SameCallNotRepeated'
  OBVIOUS
<1>1. CASE FinishCall \/ WriteSucceeds \/ WriteFails
  <2>1. PICK e \in Event : e.call = Head(batch) /\ Record(e)
    BY <1>1, CallEnds
  <2>2. pc = "tool"
    BY <1>1, CallEnds
  <2> DEFINE n == Len(events)
  <2>3. /\ n \in Nat /\ DOMAIN events' = 1..(n + 1) /\ DOMAIN events = 1..n
        /\ \A i \in 1..n : events'[i] = events[i]
        /\ events'[n + 1] = e
    BY <2>1, <2>2, RecordStep DEF TypeOK
  <2> SUFFICES ASSUME NEW i \in 1..(n + 1), NEW j \in 1..(n + 1), i < j,
                      events'[i].call = events'[j].call, events'[i].call \notin Tests
               PROVE  \E k \in (i + 1)..(j - 1) :
                        events'[k].call \in Writes /\ events'[k].ok
    BY <2>3 DEF SameCallNotRepeated
  <2>4. i \in 1..n /\ events'[i] = events[i]
    BY <2>3
  <2>5. PICK k \in (i + 1)..(j - 1) : events[k].call \in Writes /\ events[k].ok
    <3>1. CASE j \in 1..n
      BY <2>3, <2>4, <3>1 DEF SameCallNotRepeated
    <3>2. CASE j = n + 1
      <4>1. events[i].call = Head(batch) /\ Head(batch) \notin Tests
        BY <2>1, <2>3, <2>4, <3>2
      <4>2. ~ Cached(events[i].call)
        BY <2>2, <4>1 DEF UnderWay
      <4>3. \E k \in (i + 1)..n : events[k].call \in Writes /\ events[k].ok
        BY <2>3, <2>4, <4>1, <4>2 DEF Remembered
      <4> QED
        BY <2>3, <3>2, <4>3
    <3> QED
      BY <2>3, <3>1, <3>2
  <2>6. k \in 1..n
    BY <2>3, <2>4
  <2> QED
    BY <2>3, <2>5, <2>6
<1>2. CASE ~ FinishCall /\ ~ WriteSucceeds /\ ~ WriteFails
  BY <1>2, DataUntouched DEF SameCallNotRepeated
<1> QED
  BY <1>1, <1>2

\* Every step keeps the count of answers: one per round and one more.
LEMMA AskedStep == TypeOK /\ Asked /\ [Next]_vars => Asked'
<1> SUFFICES ASSUME TypeOK, Asked, [Next]_vars PROVE Asked'
  OBVIOUS
<1> USE LoopAssumption DEF TypeOK, Asked
<1>1. ASSUME NEW b \in Batches, AnswerOverBudget(b) \/ AnswerWithCalls(b)
      PROVE  Asked'
  BY <1>1 DEF AnswerOverBudget, AnswerWithCalls
<1>2. CASE AnswerWithoutCalls \/ PlanWithCalls
  BY <1>2 DEF AnswerWithoutCalls, PlanWithCalls
<1>3. CASE Reuse \/ StartCall \/ LateWriteEnds
  BY <1>3 DEF Reuse, StartCall, LateWriteEnds
<1>4. CASE FinishCall \/ WriteSucceeds \/ WriteFails
  BY <1>4 DEF FinishCall, WriteSucceeds, WriteFails, Record
<1>5. CASE EndBatch
  BY <1>5 DEF EndBatch
<1>6. CASE RecoveryAnswer \/ Stop
  BY <1>6 DEF RecoveryAnswer, AfterRecovery, Stop
<1>7. CASE UNCHANGED vars
  BY <1>7 DEF vars
<1> QED
  BY <1>1, <1>2, <1>3, <1>4, <1>5, <1>6, <1>7 DEF Next
-----------------------------------------------------------------------------
\* The invariant holds when the loop begins.
LEMMA InvariantInit == Init => Invariant
<1> SUFFICES ASSUME Init PROVE Invariant
  OBVIOUS
<1> USE LoopAssumption DEF Init
<1>1. DOMAIN cache = {} /\ events = <<>> /\ batch = <<>> /\ pc = "asking"
  OBVIOUS
<1>2. TypeOK
  <2>1. pc \in Locations
    BY <1>1 DEF Locations
  <2>2. fresh \in BOOLEAN
    OBVIOUS
  <2> QED
    BY <1>1, <2>1, <2>2 DEF TypeOK
<1>3. Room /\ UnderWay /\ CachedResultsCurrent /\ Remembered /\ SameCallNotRepeated
  BY <1>1 DEF Room, UnderWay, CachedResultsCurrent, Remembered, SameCallNotRepeated
<1>4. Asked
  BY DEF Asked
<1> QED
  BY <1>2, <1>3, <1>4 DEF Invariant

\* Every step of the loop keeps the invariant.
LEMMA InvariantStep == Invariant /\ [Next]_vars => Invariant'
  BY TypeStep, RoomStep, UnderWayStep, CurrentStep, RememberedStep, NotRepeatedStep,
     AskedStep DEF Invariant

\* Every reachable state of the loop satisfies the invariant.
THEOREM InvariantHolds == Spec => []Invariant
  BY InvariantInit, InvariantStep, PTL DEF Spec

\* Types; the rounds of a run stay within max_iterations.
THEOREM TypeCorrect == Spec => []TypeOK
<1>1. Invariant => TypeOK
  BY DEF Invariant
<1> QED
  BY <1>1, InvariantHolds, PTL

\* A run executes fewer than MaxToolCalls + MaxBatch calls, whatever it repeats
\* after clearing its cache.
THEOREM ToolCallsAreBounded == Spec => []ToolCallsBounded
<1>1. Invariant => ToolCallsBounded
  BY DEF Invariant, Room, ToolCallsBounded
<1> QED
  BY <1>1, InvariantHolds, PTL

\* A cached result misses no change that a tool reported as done.
THEOREM CachedResultsStayCurrent == Spec => []CachedResultsCurrent
<1>1. Invariant => CachedResultsCurrent
  BY DEF Invariant
<1> QED
  BY <1>1, InvariantHolds, PTL

\* No call but test_run is executed twice without a successful write between.
THEOREM IdenticalCallsAreApart == Spec => []SameCallNotRepeated
<1>1. Invariant => SameCallNotRepeated
  BY DEF Invariant
<1> QED
  BY <1>1, InvariantHolds, PTL

\* The model answers at most max_iterations + 1 times.
THEOREM AnswersAreBounded == Spec => []AnswersBounded
<1>1. Invariant => AnswersBounded
  BY DEF Invariant, Asked, AnswersBounded
<1> QED
  BY <1>1, InvariantHolds, PTL
=============================================================================
