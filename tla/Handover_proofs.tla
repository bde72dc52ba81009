--------------------------- MODULE Handover_proofs ---------------------------
(***************************************************************************)
(* What one thread leaves for another to find.                             *)
(*                                                                         *)
(* TQueue<T>: the type and ownership safety of the queue, for every        *)
(* capacity, growth policy and set of postings, and that it is a FIFO      *)
(* queue: every step of TQueueTransport is a step of SpscQueue, or changes *)
(* nothing its users can see.                                              *)
(*                                                                         *)
(* The owner wait: the Host never sleeps on unread work, for any number of *)
(* publishers, any number of publications and any burst.  Unread work is   *)
(* accounted for, layer by layer: by the turn in progress, by the          *)
(* notification, by the pending bit and at last by the event or the        *)
(* publisher that will set it.                                             *)
(***************************************************************************)
EXTENDS TQueueTransport, OwnerWake, TLAPS, SequenceTheorems

(* ------------------------------ TQueue<T> ------------------------------- *)

\* The encoding of the staging word keeps the buffer and the phase apart, and
\* apart from the two words that carry no buffer.
LEMMA WordEncoding ==
  \A i \in Buffers, p \in {0, 1} :
    /\ Word(i, p) \in 1..7
    /\ Word(i, p) # DefaultWord
    /\ WordId(Word(i, p)) = i + 1
    /\ WordPhase(Word(i, p)) = p
<1> SUFFICES ASSUME NEW i \in Buffers, NEW p \in {0, 1}
             PROVE  /\ Word(i, p) \in 1..7
                    /\ Word(i, p) # DefaultWord
                    /\ WordId(Word(i, p)) = i + 1
                    /\ WordPhase(Word(i, p)) = p
    OBVIOUS
<1>1. i = 0 \/ i = 1 \/ i = 2
  BY DEF Buffers
<1> QED BY <1>1 DEF Word, WordId, WordPhase, DefaultWord

LEMMA BareWords == WordId(0) = 0 /\ WordId(DefaultWord) = 0
BY DEF WordId, DefaultWord

LEMMA ConsumedIsNotDefault == DefaultWord # 0 /\ 0 \in 0..7
BY DEF DefaultWord

LEMMA IdNamesBuffer ==
  \A w \in 0..7 : WordId(w) # 0 => WordId(w) - 1 \in Buffers
BY DEF WordId, Buffers

\* Conditioning a request yields a capacity within the transport's limits.
LEMMA ConditionedInRange ==
  \A c \in 0..TransportMax : ConditionedCapacity(c) \in MinCapacity..TransportMax
BY CapacityAssumption DEF ConditionedCapacity, Smaller, Larger

\* Growth never shrinks the capacity and never passes the configured maximum.
LEMMA GrowthInRange ==
  ASSUME TypeOK, NEW n \in 0..(2 * TransportMax)
  PROVE  /\ GrownCapacity(n) \in capacity..max_capacity
         /\ n <= max_capacity => n <= GrownCapacity(n)
<1>1. /\ TransportMax \in Nat /\ GrowthPolicy(n) \in Nat
      /\ n <= TransportMax => GrowthPolicy(n) >= n
  BY CapacityAssumption
<1>2. capacity \in Nat /\ max_capacity \in Nat /\ capacity <= max_capacity /\ max_capacity <= TransportMax
  BY <1>1 DEF TypeOK, CapacityTypes
<1> QED BY <1>1, <1>2 DEF GrownCapacity, Smaller, Larger

\* An accepted posting fits the capacity the policy asks for, whether or not
\* the backlog is kept.
LEMMA PolicyFits ==
  ASSUME TypeOK, NEW size \in 0..capacity, NEW count \in 1..max_capacity,
         growth_and_discard_policy(count, size).accept
  PROVE  LET policy == growth_and_discard_policy(count, size)
         IN /\ policy.target \in capacity..max_capacity
            /\ policy.discard \in BOOLEAN
            /\ count <= policy.target
            /\ ~policy.discard => size + count <= policy.target
            /\ policy.discard => allow_discard /\ size + count > max_capacity
<1> DEFINE policy == growth_and_discard_policy(count, size)
<1>1. /\ capacity \in Nat /\ max_capacity \in Nat /\ TransportMax \in Nat
      /\ capacity <= max_capacity /\ max_capacity <= TransportMax
      /\ allow_discard \in BOOLEAN
  BY CapacityAssumption DEF TypeOK, FlagTypes, CapacityTypes
<1>2. size + count \in 0..(2 * TransportMax) /\ count \in 0..(2 * TransportMax)
  BY <1>1
<1>3. /\ GrownCapacity(size + count) \in capacity..max_capacity
      /\ GrownCapacity(count) \in capacity..max_capacity
      /\ count <= GrownCapacity(count)
      /\ size + count <= max_capacity => size + count <= GrownCapacity(size + count)
  BY <1>1, <1>2, GrowthInRange
<1>4. CASE count <= capacity - size
  <2>1. policy = [accept |-> TRUE, target |-> capacity, discard |-> FALSE]
    BY <1>4 DEF growth_and_discard_policy
  <2> QED BY <1>1, <1>4, <2>1
<1>5. CASE ~(count <= capacity - size) /\ count <= GrownCapacity(size + count) - size
  <2>1. policy = [accept |-> TRUE, target |-> GrownCapacity(size + count), discard |-> FALSE]
    BY <1>5 DEF growth_and_discard_policy
  <2> QED BY <1>1, <1>3, <1>5, <2>1
<1>6. CASE ~(count <= capacity - size) /\ ~(count <= GrownCapacity(size + count) - size)
  <2>1. policy = [accept |-> allow_discard,
                  target |-> IF allow_discard /\ count > capacity
                               THEN GrownCapacity(count) ELSE capacity,
                  discard |-> allow_discard]
    BY <1>6 DEF growth_and_discard_policy
  <2>2. allow_discard = TRUE
    BY <1>1, <2>1
  <2> QED BY <1>1, <1>3, <1>6, <2>1, <2>2
<1> QED BY <1>4, <1>5, <1>6

LEMMA EmptyBuffers ==
  LET empty == [i \in Buffers |-> << >>]
  IN empty \in [Buffers -> Seq(Payload)] /\ \A i \in Buffers : Len(empty[i]) = 0
<1>1. << >> \in Seq(Payload) /\ Len(<< >>) = 0
  OBVIOUS
<1> QED BY <1>1

LEMMA InitEstablishes == Init => IInv
<1> SUFFICES ASSUME Init PROVE IInv
    OBVIOUS
<1> USE DEF Init, CanonicalEmpty
<1>1. FlagTypes
  BY DEF FlagTypes
<1>2. CapacityTypes
  BY CapacityAssumption, EmptyBuffers DEF CapacityTypes, Size
<1>3. RoleTypes
  BY DEF RoleTypes, Buffers, NullBuffer, DefaultWord
<1>4. CallTypes
  BY DEF CallTypes
<1>5. MirroredBacklog
  BY DEF MirroredBacklog, Buffers
<1>6. Handoff
  BY DEF Handoff, Untouched
<1>7. ProducerLocals /\ ConsumerLocals
  BY DEF ProducerLocals, ConsumerLocals, NullBuffer
<1>8. DiscardOnlyWhenFull
  BY DEF IInv, DiscardOnlyWhenFull
<1>9. EmptyWhenDown
  BY DEF IInv, EmptyWhenDown
<1> QED BY <1>1, <1>2, <1>3, <1>4, <1>5, <1>6, <1>7, <1>8, <1>9 DEF IInv, TypeOK

\* Setup and teardown leave a queue whose roles, phases and word are the
\* initial ones.
LEMMA AllocateKeeps ==
  ASSUME IInv, Quiescent,
         NEW c \in MinCapacity..TransportMax, NEW limit \in c..TransportMax,
         NEW d \in BOOLEAN,
         Allocate(c, limit, d)
  PROVE  IInv'
<1> USE DEF Allocate, RestoreRoles, consumerVars, producerVars, Quiescent
<1>1. FlagTypes'
  BY DEF IInv, TypeOK, FlagTypes
<1>2. CapacityTypes'
  BY CapacityAssumption, EmptyBuffers DEF CapacityTypes, Size
<1>3. RoleTypes'
  BY DEF RoleTypes, Buffers, NullBuffer, DefaultWord
<1>4. CallTypes'
  BY DEF IInv, TypeOK, CallTypes
<1>5. MirroredBacklog'
  BY DEF MirroredBacklog, Buffers
<1>6. Handoff'
  BY DEF Handoff, Untouched
<1>7. ProducerLocals' /\ ConsumerLocals'
  BY DEF IInv, ProducerLocals, ConsumerLocals, NullBuffer
<1>8. DiscardOnlyWhenFull'
  BY DEF IInv, DiscardOnlyWhenFull
<1>9. EmptyWhenDown'
  BY DEF IInv, EmptyWhenDown
<1> QED BY <1>1, <1>2, <1>3, <1>4, <1>5, <1>6, <1>7, <1>8, <1>9 DEF IInv, TypeOK

LEMMA DeallocateKeeps == IInv /\ deallocate => IInv'
<1> SUFFICES ASSUME IInv, deallocate PROVE IInv'
    OBVIOUS
<1> USE DEF deallocate, RestoreRoles, consumerVars, producerVars, Quiescent
<1>1. FlagTypes'
  BY DEF IInv, TypeOK, FlagTypes
<1>2. CapacityTypes'
  BY CapacityAssumption, EmptyBuffers DEF CapacityTypes, Size
<1>3. RoleTypes'
  BY DEF RoleTypes, Buffers, NullBuffer, DefaultWord
<1>4. CallTypes'
  BY DEF IInv, TypeOK, CallTypes
<1>5. MirroredBacklog'
  BY DEF MirroredBacklog, Buffers
<1>6. Handoff'
  BY DEF Handoff, Untouched
<1>7. ProducerLocals' /\ ConsumerLocals'
  BY DEF IInv, ProducerLocals, ConsumerLocals, NullBuffer
<1>8. DiscardOnlyWhenFull'
  BY DEF IInv, DiscardOnlyWhenFull
<1>9. EmptyWhenDown'
  BY DEF IInv, EmptyWhenDown
<1> QED BY <1>1, <1>2, <1>3, <1>4, <1>5, <1>6, <1>7, <1>8, <1>9 DEF IInv, TypeOK

LEMMA OwnerKeeps == IInv /\ Owner => IInv'
<1> SUFFICES ASSUME IInv, Owner PROVE IInv'
    OBVIOUS
<1>1. CASE deallocate
  BY <1>1, DeallocateKeeps
<1>2. ASSUME NEW c \in 0..TransportMax, NEW d \in BOOLEAN, initialise_fixed(c, d)
      PROVE  IInv'
  <2>1. ConditionedCapacity(c) \in MinCapacity..TransportMax
    BY ConditionedInRange
  <2>2. ConditionedCapacity(c) \in ConditionedCapacity(c)..TransportMax
    BY <2>1, CapacityAssumption
  <2> QED BY <1>2, <2>1, <2>2, AllocateKeeps DEF initialise_fixed
<1>3. ASSUME NEW c \in 0..TransportMax, NEW m \in 0..TransportMax, initialise_growable(c, m)
      PROVE  IInv'
  <2> DEFINE conditioned == ConditionedCapacity(c)
             limit == IF m = 0 THEN TransportMax
                      ELSE IF m = c THEN conditioned ELSE Larger(m, conditioned)
  <2>1. conditioned \in MinCapacity..TransportMax
    BY ConditionedInRange
  <2>2. limit \in conditioned..TransportMax
    BY <2>1, CapacityAssumption DEF Larger
  <2>3. Allocate(conditioned, limit, FALSE) /\ Quiescent
    BY <1>3 DEF initialise_growable
  <2> QED BY <2>1, <2>2, <2>3, AllocateKeeps
<1> QED BY <1>1, <1>2, <1>3 DEF Owner

\* post() is only ever inside a queue that is set up.
LEMMA PostingIsSetUp ==
  ASSUME IInv, ppc # "idle"
  PROVE  max_capacity # 0
<1>1. src \in Postings /\ Len(src) <= capacity
  BY DEF IInv, ProducerLocals
<1>2. Len(src) \in 1..TransportMax
  BY <1>1, PostingsAssumption
<1>3. capacity \in 0..max_capacity /\ max_capacity \in 0..TransportMax
  BY DEF IInv, TypeOK, CapacityTypes
<1> QED BY <1>1, <1>2, <1>3, CapacityAssumption

\* So is a consumer that saw a publication.
LEMMA ExchangeIsSetUp ==
  ASSUME IInv, cpc = "exchange"
  PROVE  max_capacity # 0
BY BareWords DEF IInv, ConsumerLocals, EmptyWhenDown

\* What post() has to work with: the backlog it keeps fits the capacity, and
\* the consumer is not in the output buffer.
LEMMA OutputIsProducers ==
  ASSUME IInv, ~allocation_failed, ppc \in {"idle", "publish"}
  PROVE  reading # output
BY DEF IInv, TypeOK, RoleTypes, Handoff, Untouched, Pending, Consumed, ProducerLocals,
       Buffers, NullBuffer

LEMMA PostKeeps ==
  ASSUME IInv, NEW s \in Postings, post(s)
  PROVE  IInv'
<1> DEFINE kept   == EffectiveOutput(Len(s))
           policy == growth_and_discard_policy(Len(s), Len(kept))
<1>1. /\ ppc = "idle" /\ ~allocation_failed
      /\ s \in Seq(Payload) /\ Len(s) \in 1..max_capacity
      /\ reading # output
  BY PostingsAssumption, OutputIsProducers DEF post, posting_is_ready
<1>2. /\ capacity \in Nat /\ max_capacity \in Nat /\ capacity <= max_capacity
      /\ output \in Buffers /\ staged \in Buffers /\ output # staged
      /\ data \in [Buffers -> Seq(Payload)]
      /\ buffer_capacity \in [Buffers -> 0..capacity]
      /\ \A i \in Buffers : Len(data[i]) <= buffer_capacity[i]
  BY CapacityAssumption DEF IInv, TypeOK, CapacityTypes, RoleTypes, ProducerLocals, Size
<1>3. /\ kept \in Seq(Payload) /\ Len(kept) \in 0..capacity
      /\ kept = data[output] \/ (kept = << >> /\ staged_word = 0)
      /\ Len(kept) <= Len(data[output])
  BY <1>2, EmptySeq DEF EffectiveOutput
<1>4. policy.accept => /\ policy.target \in capacity..max_capacity
                       /\ policy.discard \in BOOLEAN
                       /\ Len(s) <= policy.target
                       /\ ~policy.discard => Len(kept) + Len(s) <= policy.target
                       /\ policy.discard => allow_discard /\ Len(kept) + Len(s) > max_capacity
  BY <1>1, <1>3, PolicyFits DEF IInv
<1>5. Prepare(s, kept, policy) \/ PrepareFails(kept, policy)
  BY DEF post
<1> HIDE DEF kept, policy
<1>6. CASE Prepare(s, kept, policy)
  <2> DEFINE filled == (IF policy.discard THEN << >> ELSE kept) \o s
  <2>1. /\ policy.accept
        /\ capacity' = policy.target
        /\ buffer_capacity' = [buffer_capacity EXCEPT ![output] = policy.target]
        /\ data' = [data EXCEPT ![output] = filled]
        /\ discard' = policy.discard
        /\ src' = s
        /\ ppc' = "publish"
        /\ allocation_failed' = allocation_failed
    BY <1>6 DEF Prepare
  <2>2. UNCHANGED <<allow_discard, max_capacity, roleVars, readerVars, staged_word, consumerVars>>
    BY DEF post
  <2>3. filled \in Seq(Payload) /\ Len(filled) <= policy.target
    <3>1. CASE policy.discard
      BY <1>1, <1>4, <2>1, <3>1, EmptySeq, ConcatProperties, ConcatEmptySeq
    <3>2. CASE ~policy.discard
      BY <1>1, <1>3, <1>4, <2>1, <3>2, ConcatProperties
    <3> QED BY <3>1, <3>2
  <2> HIDE DEF filled
  <2>4. FlagTypes'
    BY <1>4, <2>1, <2>2 DEF IInv, TypeOK, FlagTypes
  <2>5. CapacityTypes'
    BY <1>2, <1>4, <2>1, <2>2, <2>3 DEF IInv, TypeOK, CapacityTypes, Size
  <2>6. RoleTypes' /\ CallTypes'
    BY <1>1, <2>1, <2>2
       DEF IInv, TypeOK, RoleTypes, CallTypes, roleVars, readerVars, consumerVars
  <2>7. MirroredBacklog'
    <3>1. ppc = "idle" /\ staged_word # 0 => data[output] = data[staged]
      BY <1>1 DEF IInv, MirroredBacklog
    <3>2. data'[output'] = filled /\ data'[staged'] = data[staged]
      BY <1>2, <2>1, <2>2 DEF roleVars
    <3>3. staged_word # 0 => filled = (IF policy.discard THEN << >> ELSE data[staged]) \o s
      BY <1>1, <1>3, <3>1 DEF filled
    <3>4. staged_word' = DefaultWord => data'[staged'] = << >>
      BY <1>1, <2>2, <3>2 DEF IInv, MirroredBacklog
    <3>5. staged_word # 0 => filled = StagedKept' \o src'
      BY <2>1, <3>2, <3>3 DEF StagedKept
    <3>6. ppc' = "publish" /\ staged_word' = staged_word
      BY <2>1, <2>2
    <3> QED BY <3>2, <3>4, <3>5, <3>6 DEF MirroredBacklog
  <2>8. Handoff'
    BY <1>1, <2>1, <2>2
       DEF IInv, Handoff, Untouched, Pending, Consumed, roleVars, readerVars
  <2>9. ProducerLocals'
    BY <1>1, <1>2, <1>4, <2>1, <2>2 DEF IInv, ProducerLocals, roleVars
  <2>10. ConsumerLocals'
    BY <1>1, <1>2, <2>1, <2>2
       DEF IInv, ConsumerLocals, roleVars, readerVars, consumerVars, Size, NullBuffer, TypeOK, RoleTypes
  <2>11. DiscardOnlyWhenFull'
    <3>1. staged_word # 0 => Len(kept) = Len(data[staged])
      BY <1>1, <1>3 DEF IInv, MirroredBacklog
    <3>2. data'[staged'] = data[staged] /\ max_capacity' = max_capacity
      BY <1>2, <2>1, <2>2 DEF roleVars
    <3>3. discard' /\ staged_word # 0 =>
            allow_discard /\ Len(data[staged]) + Len(s) > max_capacity
      BY <1>4, <2>1, <3>1
    <3> QED BY <2>1, <2>2, <3>2, <3>3 DEF DiscardOnlyWhenFull
  <2>12. EmptyWhenDown'
    BY <1>1, <2>2 DEF IInv, EmptyWhenDown, readerVars
  <2> QED BY <2>4, <2>5, <2>6, <2>7, <2>8, <2>9, <2>10, <2>11, <2>12 DEF IInv, TypeOK
<1>7. CASE PrepareFails(kept, policy)
  <2>1. /\ policy.accept
        /\ capacity' = policy.target
        /\ allocation_failed'
        /\ allocation_failed' = TRUE
        /\ data' = [data EXCEPT ![output] = kept]
        /\ UNCHANGED <<buffer_capacity, producerVars>>
    BY <1>7 DEF PrepareFails
  <2>2. UNCHANGED <<allow_discard, max_capacity, roleVars, readerVars, staged_word, consumerVars>>
    BY DEF post
  <2>3. FlagTypes'
    BY <2>1, <2>2 DEF IInv, TypeOK, FlagTypes, producerVars
  <2>4. CapacityTypes'
    BY <1>2, <1>3, <1>4, <2>1, <2>2 DEF IInv, TypeOK, CapacityTypes, Size
  <2>5. RoleTypes' /\ CallTypes'
    BY <2>1, <2>2
       DEF IInv, TypeOK, RoleTypes, CallTypes, roleVars, readerVars, consumerVars, producerVars
  <2>6. MirroredBacklog' /\ Handoff'
    BY <2>1 DEF MirroredBacklog, Handoff
  <2>7. ProducerLocals'
    BY <1>1, <2>1, <2>2 DEF IInv, ProducerLocals, roleVars, producerVars
  <2>8. ConsumerLocals'
    BY <1>1, <1>2, <2>1, <2>2
       DEF IInv, ConsumerLocals, roleVars, readerVars, consumerVars, Size, NullBuffer, TypeOK, RoleTypes
  <2>9. DiscardOnlyWhenFull'
    BY <2>1 DEF DiscardOnlyWhenFull
  <2>10. EmptyWhenDown'
    BY <1>1, <2>2 DEF IInv, EmptyWhenDown, readerVars
  <2> QED BY <2>3, <2>4, <2>5, <2>6, <2>7, <2>8, <2>9, <2>10 DEF IInv, TypeOK
<1> QED BY <1>5, <1>6, <1>7

\* The exchange that publishes the output buffer, on either of its outcomes.
LEMMA PublishKeeps ==
  ASSUME IInv, PublishPending \/ PublishConsumed
  PROVE  IInv'
<1> USE DEF roleVars, readerVars, consumerVars, bufferVars, configVars
<1>1. ppc = "publish" /\ ~allocation_failed
  BY DEF IInv, ProducerLocals, PublishPending, PublishConsumed
<1>2. /\ output \in Buffers /\ posting_phase \in {0, 1}
      /\ Word(output, posting_phase) \in 1..7
      /\ WordId(Word(output, posting_phase)) = output + 1
      /\ WordId(Word(output, posting_phase)) # 0
      /\ Word(output, posting_phase) # DefaultWord
      /\ Flip(posting_phase) \in {0, 1} /\ Flip(Flip(posting_phase)) = posting_phase
  BY WordEncoding DEF IInv, TypeOK, RoleTypes, Flip, Buffers
<1>3. FlagTypes' /\ CallTypes'
  BY DEF IInv, TypeOK, FlagTypes, CallTypes, PublishPending, PublishConsumed
<1>4. CapacityTypes'
  BY DEF IInv, TypeOK, CapacityTypes, Size, PublishPending, PublishConsumed
<1>5. RoleTypes'
  BY <1>2 DEF IInv, TypeOK, RoleTypes, PublishPending, PublishConsumed
<1>6. MirroredBacklog'
  <2>1. CASE PublishPending
    <3>1. ppc' = "extend" /\ allocation_failed' = allocation_failed /\ output' = output /\ data' = data
      BY <2>1 DEF PublishPending
    <3>2. StagedKept' = StagedKept /\ src' = src
      BY <2>1 DEF PublishPending, StagedKept
    <3>3. data[output] = StagedKept \o src
      BY <1>1, <2>1 DEF IInv, MirroredBacklog, PublishPending
    <3>4. staged_word' # DefaultWord
      BY <1>2, <2>1 DEF PublishPending
    <3> QED BY <3>1, <3>2, <3>3, <3>4 DEF MirroredBacklog
  <2>2. CASE PublishConsumed
    BY <1>2, <2>2 DEF PublishConsumed, MirroredBacklog
  <2> QED BY <2>1, <2>2
<1>7. Handoff'
  <2>1. Untouched \/ Pending(staged) \/ Consumed(staged)
    BY <1>1 DEF IInv, Handoff
  <2>2. CASE PublishPending
    BY <1>1, <1>2, <2>1, <2>2
       DEF PublishPending, Handoff, Untouched, Pending, Consumed
  <2>3. CASE PublishConsumed
    <3>1. Consumed(staged)
      <4>1. staged_word = 0 /\ staged \in Buffers /\ posting_phase \in {0, 1}
        BY <2>3 DEF PublishConsumed, IInv, TypeOK, RoleTypes
      <4>2. DefaultWord # 0 /\ Word(staged, posting_phase) # 0
        BY <4>1, WordEncoding DEF DefaultWord
      <4> QED BY <2>1, <4>1, <4>2 DEF Untouched, Pending
    <3> QED BY <1>1, <1>2, <2>3, <3>1
       DEF PublishConsumed, Handoff, Consumed, Obsolete
  <2> QED BY <2>2, <2>3
<1>8. ProducerLocals'
  BY <1>1 DEF IInv, ProducerLocals, PublishPending, PublishConsumed
<1>9. ConsumerLocals'
  BY <1>2 DEF IInv, ConsumerLocals, Size, PublishPending, PublishConsumed
<1>10. DiscardOnlyWhenFull'
  BY DEF IInv, DiscardOnlyWhenFull, PublishPending, PublishConsumed
<1>11. EmptyWhenDown'
  BY <1>1, PostingIsSetUp DEF EmptyWhenDown, PublishPending, PublishConsumed
<1> QED BY <1>3, <1>4, <1>5, <1>6, <1>7, <1>8, <1>9, <1>10, <1>11 DEF IInv, TypeOK

\* A failed reallocation freezes the producer; nothing the consumer may hold or
\* be offered changes.
LEMMA PoisonKeeps ==
  ASSUME IInv, NEW i \in Buffers, Poison(i)
  PROVE  IInv'
<1> USE DEF Poison, EndPost, roleVars, readerVars, consumerVars, bufferVars
<1>1. FlagTypes'
  BY DEF IInv, TypeOK, FlagTypes
<1>2. CapacityTypes'
  BY DEF IInv, TypeOK, CapacityTypes, Size
<1>3. RoleTypes' /\ CallTypes'
  BY EmptySeq DEF IInv, TypeOK, RoleTypes, CallTypes
<1>4. MirroredBacklog' /\ Handoff'
  BY DEF MirroredBacklog, Handoff
<1>5. ProducerLocals'
  BY DEF IInv, ProducerLocals
<1>6. ConsumerLocals'
  BY DEF IInv, ConsumerLocals, Size
<1>7. DiscardOnlyWhenFull'
  BY DEF IInv, DiscardOnlyWhenFull
<1>8. EmptyWhenDown'
  BY DEF IInv, EmptyWhenDown
<1> QED BY <1>1, <1>2, <1>3, <1>4, <1>5, <1>6, <1>7, <1>8 DEF IInv, TypeOK

LEMMA RebaseKeeps == IInv /\ Rebase => IInv'
<1> SUFFICES ASSUME IInv, Rebase PROVE IInv'
    OBVIOUS
<1> USE DEF Rebase, roleVars, readerVars, consumerVars, configVars
<1>1. ppc = "rebase" /\ ~allocation_failed /\ Obsolete
  BY DEF IInv, ProducerLocals, Handoff
<1>2. reading # output /\ reading # locked
  BY <1>1 DEF Obsolete, IInv, ProducerLocals, TypeOK, RoleTypes, Buffers, NullBuffer
<1>3. /\ capacity \in Nat
      /\ output \in Buffers /\ locked \in Buffers
      /\ src \in Seq(Payload) /\ Len(src) <= capacity
      /\ buffer_capacity[output] = capacity
  BY <1>1, CapacityAssumption DEF IInv, TypeOK, CapacityTypes, RoleTypes, CallTypes, ProducerLocals
<1>4. FlagTypes' /\ CallTypes'
  BY DEF IInv, TypeOK, FlagTypes, CallTypes
<1>5. CapacityTypes'
  BY <1>3 DEF IInv, TypeOK, CapacityTypes, Size
<1>6. RoleTypes'
  BY DEF IInv, TypeOK, RoleTypes
<1>7. MirroredBacklog'
  <2>1. staged_word # DefaultWord
    <3>1. Flip(posting_phase) \in {0, 1}
      BY DEF IInv, TypeOK, RoleTypes, Flip
    <3>2. Word(output, Flip(posting_phase)) # DefaultWord
      BY <1>3, <3>1, WordEncoding
    <3> QED BY <1>1, <3>2, ConsumedIsNotDefault DEF Obsolete
  <2>2. data'[output] = src /\ data'[locked] = src
    BY <1>3 DEF IInv, TypeOK, CapacityTypes
  <2> QED BY <2>1, <2>2 DEF MirroredBacklog
<1>8. Handoff'
  BY <1>1 DEF Handoff, Obsolete
<1>9. ProducerLocals'
  BY <1>1, <1>3 DEF IInv, ProducerLocals, TypeOK, CapacityTypes
<1>10. ConsumerLocals'
  BY <1>2, <1>3 DEF IInv, ConsumerLocals, Size, TypeOK, CapacityTypes, RoleTypes, NullBuffer
<1>11. DiscardOnlyWhenFull'
  BY DEF IInv, DiscardOnlyWhenFull
<1>12. EmptyWhenDown'
  BY DEF IInv, EmptyWhenDown
<1> QED BY <1>4, <1>5, <1>6, <1>7, <1>8, <1>9, <1>10, <1>11, <1>12 DEF IInv, TypeOK

LEMMA RepublishKeeps == IInv /\ Republish => IInv'
<1> SUFFICES ASSUME IInv, Republish PROVE IInv'
    OBVIOUS
<1> USE DEF Republish, EndPost, readerVars, consumerVars, configVars, bufferVars
<1>1. ppc = "republish" /\ ~allocation_failed /\ Obsolete
  BY DEF IInv, ProducerLocals, Handoff
<1>2. /\ locked \in Buffers /\ posting_phase \in {0, 1}
      /\ Word(locked, posting_phase) \in 1..7
      /\ WordId(Word(locked, posting_phase)) # 0
      /\ Word(locked, posting_phase) # DefaultWord
  BY WordEncoding DEF IInv, TypeOK, RoleTypes, Buffers
<1>3. FlagTypes'
  BY DEF IInv, TypeOK, FlagTypes
<1>4. CapacityTypes'
  BY DEF IInv, TypeOK, CapacityTypes, Size
<1>5. RoleTypes' /\ CallTypes'
  BY <1>2, EmptySeq DEF IInv, TypeOK, RoleTypes, CallTypes
<1>6. MirroredBacklog'
  BY <1>1, <1>2 DEF IInv, MirroredBacklog
<1>7. Handoff'
  BY <1>1, <1>2 DEF Handoff, Obsolete, Pending
<1>8. ProducerLocals'
  BY <1>1 DEF IInv, ProducerLocals
<1>9. ConsumerLocals'
  BY <1>2 DEF IInv, ConsumerLocals, Size
<1>10. DiscardOnlyWhenFull'
  BY DEF IInv, DiscardOnlyWhenFull
<1>11. EmptyWhenDown'
  BY <1>1, PostingIsSetUp DEF EmptyWhenDown
<1> QED BY <1>3, <1>4, <1>5, <1>6, <1>7, <1>8, <1>9, <1>10, <1>11 DEF IInv, TypeOK

LEMMA ExtendKeeps == IInv /\ Extend => IInv'
<1> SUFFICES ASSUME IInv, Extend PROVE IInv'
    OBVIOUS
<1> USE DEF Extend, EndPost, readerVars, consumerVars, configVars
<1>1. /\ ppc = "extend" /\ ~allocation_failed
      /\ Pending(output) \/ Consumed(output)
      /\ data[output] = StagedKept \o src
  BY DEF IInv, ProducerLocals, Handoff, MirroredBacklog
<1>2. reading # staged
  BY <1>1 DEF Pending, Consumed, IInv, ProducerLocals, TypeOK, RoleTypes, Buffers, NullBuffer
<1>3. /\ capacity \in Nat
      /\ output \in Buffers /\ staged \in Buffers /\ output # staged
      /\ data \in [Buffers -> Seq(Payload)]
      /\ buffer_capacity[output] = capacity
      /\ Len(data[output]) <= capacity
  BY <1>1, CapacityAssumption DEF IInv, TypeOK, CapacityTypes, RoleTypes, ProducerLocals, Size
<1>4. data' = [data EXCEPT ![staged] = data[output]]
  BY <1>1
<1>5. FlagTypes'
  BY DEF IInv, TypeOK, FlagTypes
<1>6. CapacityTypes'
  BY <1>3, <1>4 DEF IInv, TypeOK, CapacityTypes, Size
<1>7. RoleTypes' /\ CallTypes'
  BY EmptySeq DEF IInv, TypeOK, RoleTypes, CallTypes
<1>8. MirroredBacklog'
  <2>1. staged_word # DefaultWord
    <3>1. Word(output, posting_phase) # DefaultWord
      BY WordEncoding DEF IInv, TypeOK, RoleTypes
    <3> QED BY <1>1, <3>1, ConsumedIsNotDefault DEF Pending, Consumed
  <2> QED BY <1>3, <1>4, <2>1 DEF MirroredBacklog
<1>9. Handoff'
  BY <1>1 DEF Handoff, Pending, Consumed
<1>10. ProducerLocals'
  BY <1>1 DEF IInv, ProducerLocals
<1>11. ConsumerLocals'
  BY <1>2, <1>3, <1>4 DEF IInv, ConsumerLocals, Size, TypeOK, RoleTypes, NullBuffer
<1>12. DiscardOnlyWhenFull'
  BY DEF IInv, DiscardOnlyWhenFull
<1>13. EmptyWhenDown'
  BY DEF IInv, EmptyWhenDown
<1> QED BY <1>5, <1>6, <1>7, <1>8, <1>9, <1>10, <1>11, <1>12, <1>13 DEF IInv, TypeOK

LEMMA ProducerKeeps == IInv /\ Producer => IInv'
<1> SUFFICES ASSUME IInv, Producer PROVE IInv'
    OBVIOUS
<1>1. staged \in Buffers /\ locked \in Buffers
  BY DEF IInv, TypeOK, RoleTypes
<1>2. ASSUME NEW s \in Postings, post(s) PROVE IInv'
  BY <1>2, PostKeeps
<1>3. CASE PublishPending \/ PublishConsumed
  BY <1>3, PublishKeeps
<1>4. CASE RebaseFails \/ ExtendFails
  BY <1>1, <1>4, PoisonKeeps DEF RebaseFails, ExtendFails
<1>5. CASE Rebase \/ Republish \/ Extend
  BY <1>5, RebaseKeeps, RepublishKeeps, ExtendKeeps
<1> QED BY <1>2, <1>3, <1>4, <1>5 DEF Producer

LEMMA ReadKeeps ==
  ASSUME IInv, NEW n \in 0..TransportMax, read(n)
  PROVE  IInv'
<1> USE DEF read, configVars, bufferVars, roleVars, readerVars, producerVars
<1>1. n \in Nat
  BY CapacityAssumption
<1>2. FlagTypes'
  BY DEF IInv, TypeOK, FlagTypes
<1>3. CapacityTypes'
  BY DEF IInv, TypeOK, CapacityTypes, Size
<1>4. RoleTypes' /\ CallTypes'
  BY <1>1, EmptySeq DEF IInv, TypeOK, RoleTypes, CallTypes
<1>5. MirroredBacklog'
  BY DEF IInv, MirroredBacklog, StagedKept
<1>6. Handoff'
  BY DEF IInv, Handoff, Untouched, Pending, Consumed, Obsolete
<1>7. ProducerLocals'
  BY DEF IInv, ProducerLocals
<1>8. ConsumerLocals'
  <2>1. reading \in Buffers \cup {NullBuffer} /\ read_index \in Nat
    BY DEF IInv, TypeOK, RoleTypes
  <2>2. reading # NullBuffer => Len(data[reading]) \in Nat
    BY <2>1, LenProperties DEF IInv, TypeOK, CapacityTypes
  <2> QED BY <1>1, <2>1, <2>2 DEF IInv, ConsumerLocals, current_readable_count, Size
<1>9. DiscardOnlyWhenFull'
  BY DEF IInv, DiscardOnlyWhenFull
<1>10. EmptyWhenDown'
  BY DEF IInv, EmptyWhenDown
<1> QED BY <1>2, <1>3, <1>4, <1>5, <1>6, <1>7, <1>8, <1>9, <1>10 DEF IInv, TypeOK

LEMMA AcceptKeeps == IInv /\ AcceptPublication => IInv'
<1> SUFFICES ASSUME IInv, AcceptPublication PROVE IInv'
    OBVIOUS
<1> USE DEF AcceptPublication, configVars, bufferVars, roleVars, producerVars
<1>1. /\ cpc = "exchange" /\ reading = NullBuffer
      /\ WordId(staged_word) # 0 /\ WordPhase(staged_word) = reading_phase
      /\ staged_word \in 0..7 /\ reading_phase \in {0, 1} /\ posting_phase \in {0, 1}
      /\ WordId(staged_word) - 1 \in Buffers
  BY IdNamesBuffer DEF Acceptable, IInv, ConsumerLocals, TypeOK, RoleTypes
<1>2. FlagTypes'
  BY DEF IInv, TypeOK, FlagTypes
<1>3. CapacityTypes'
  BY DEF IInv, TypeOK, CapacityTypes, Size
<1>4. RoleTypes' /\ CallTypes'
  BY <1>1 DEF IInv, TypeOK, RoleTypes, CallTypes, Flip
<1>5. MirroredBacklog'
  BY ConsumedIsNotDefault DEF IInv, MirroredBacklog, StagedKept
<1>6. Handoff'
  <2> SUFFICES ASSUME ~allocation_failed' PROVE Handoff'
    BY DEF Handoff
  <2>1. /\ ~allocation_failed
        /\ output \in Buffers /\ staged \in Buffers
        /\ WordId(DefaultWord) = 0 /\ WordId(0) = 0
    BY BareWords DEF IInv, TypeOK, RoleTypes
  <2>2. \A i \in Buffers, p \in {0, 1} :
          staged_word = Word(i, p) => WordId(staged_word) - 1 = i /\ WordPhase(staged_word) = p
    BY WordEncoding DEF Buffers
  <2>3. CASE ppc \in {"idle", "publish"}
    <3>1. Pending(staged)
      BY <1>1, <2>1, <2>3 DEF IInv, Handoff, Untouched, Consumed
    <3>2. reading' = staged /\ reading_phase' = Flip(posting_phase)
      BY <1>1, <2>1, <2>2, <3>1 DEF Pending
    <3> QED BY <2>3, <3>2 DEF Handoff, Consumed
  <2>4. CASE ppc = "extend"
    <3>1. Pending(output)
      BY <1>1, <2>1, <2>4 DEF IInv, Handoff, Consumed
    <3>2. reading' = output /\ reading_phase' = Flip(posting_phase)
      BY <1>1, <2>1, <2>2, <3>1 DEF Pending
    <3> QED BY <2>4, <3>2 DEF Handoff, Consumed
  <2>5. CASE ppc \in {"rebase", "republish"}
    \* the obsolete publication is of the other phase and cannot be accepted
    <3>1. Obsolete
      BY <2>1, <2>5 DEF IInv, Handoff
    <3>2. Flip(posting_phase) \in {0, 1} /\ Flip(posting_phase) # posting_phase
      BY <1>1 DEF Flip
    <3>3. FALSE
      BY <1>1, <2>1, <2>2, <3>1, <3>2 DEF Obsolete
    <3> QED BY <3>3
  <2> QED BY <2>3, <2>4, <2>5 DEF IInv, TypeOK, CallTypes
<1>7. ProducerLocals'
  BY DEF IInv, ProducerLocals
<1>8. ConsumerLocals'
  <2>1. reading' # NullBuffer /\ reading' \in Buffers
    BY <1>1 DEF Buffers, NullBuffer
  <2>2. data' = data /\ read_index' = 0 /\ Len(data[reading']) \in Nat /\ want \in Nat
    BY <2>1, LenProperties DEF IInv, TypeOK, CapacityTypes, CallTypes
  <2> QED BY <1>1, <2>1, <2>2 DEF ConsumerLocals, Size
<1>9. DiscardOnlyWhenFull'
  BY DEF IInv, DiscardOnlyWhenFull
<1>10. EmptyWhenDown'
  BY <1>1, ExchangeIsSetUp DEF EmptyWhenDown
<1> QED BY <1>2, <1>3, <1>4, <1>5, <1>6, <1>7, <1>8, <1>9, <1>10 DEF IInv, TypeOK

LEMMA DropKeeps == IInv /\ DropPublication => IInv'
<1> SUFFICES ASSUME IInv, DropPublication PROVE IInv'
    OBVIOUS
<1> USE DEF DropPublication, configVars, bufferVars, roleVars, readerVars, producerVars
<1>1. /\ cpc = "exchange" /\ reading = NullBuffer
      /\ WordId(staged_word) # 0 /\ WordPhase(staged_word) # reading_phase
  BY DEF Acceptable, IInv, ConsumerLocals
<1>2. FlagTypes'
  BY DEF IInv, TypeOK, FlagTypes
<1>3. CapacityTypes'
  BY DEF IInv, TypeOK, CapacityTypes, Size
<1>4. RoleTypes' /\ CallTypes'
  BY DEF IInv, TypeOK, RoleTypes, CallTypes
<1>5. MirroredBacklog'
  BY ConsumedIsNotDefault DEF IInv, MirroredBacklog, StagedKept
<1>6. Handoff'
  <2> SUFFICES ASSUME ~allocation_failed' PROVE Handoff'
    BY DEF Handoff
  <2>1. /\ ~allocation_failed
        /\ output \in Buffers /\ staged \in Buffers /\ posting_phase \in {0, 1}
        /\ WordId(DefaultWord) = 0 /\ WordId(0) = 0
    BY BareWords DEF IInv, TypeOK, RoleTypes
  <2>2. \A i \in Buffers : WordPhase(Word(i, posting_phase)) = posting_phase
    BY <2>1, WordEncoding
  \* only an obsolete publication has the wrong phase
  <2>3. ppc \in {"rebase", "republish"} /\ Obsolete
    BY <1>1, <2>1, <2>2
       DEF IInv, Handoff, Untouched, Pending, Consumed, TypeOK, CallTypes
  <2> QED BY <2>3 DEF Handoff, Obsolete
<1>7. ProducerLocals'
  BY DEF IInv, ProducerLocals
<1>8. ConsumerLocals'
  BY <1>1 DEF ConsumerLocals
<1>9. DiscardOnlyWhenFull'
  BY DEF IInv, DiscardOnlyWhenFull
<1>10. EmptyWhenDown'
  BY <1>1, ExchangeIsSetUp DEF EmptyWhenDown
<1> QED BY <1>2, <1>3, <1>4, <1>5, <1>6, <1>7, <1>8, <1>9, <1>10 DEF IInv, TypeOK

LEMMA CopyKeeps == IInv /\ Copy => IInv'
<1> SUFFICES ASSUME IInv, Copy PROVE IInv'
    OBVIOUS
<1> USE DEF Copy, configVars, bufferVars, roleVars, producerVars
<1>1. /\ reading \in Buffers /\ read_index \in Nat /\ want \in Nat /\ want >= 1
      /\ data[reading] \in Seq(Payload)
      /\ read_index + want <= Len(data[reading])
  BY DEF IInv, ConsumerLocals, TypeOK, RoleTypes, CallTypes, CapacityTypes, Size
<1>2. SubSeq(data[reading], read_index + 1, read_index + want) \in Seq(Payload)
  <2>1. \A i \in (read_index + 1)..(read_index + want) : data[reading][i] \in Payload
    BY <1>1, ElementOfSeq, LenProperties
  <2> QED BY <1>1, <2>1, SubSeqProperties
<1>3. FlagTypes'
  BY DEF IInv, TypeOK, FlagTypes
<1>4. CapacityTypes'
  BY DEF IInv, TypeOK, CapacityTypes, Size
<1>5. RoleTypes' /\ CallTypes'
  BY <1>1, <1>2 DEF IInv, TypeOK, RoleTypes, CallTypes
<1>6. MirroredBacklog'
  BY DEF IInv, MirroredBacklog, StagedKept
<1>7. Handoff'
  BY DEF IInv, Handoff, Untouched, Pending, Consumed, Obsolete
<1>8. ProducerLocals'
  BY DEF IInv, ProducerLocals
<1>9. ConsumerLocals'
  BY <1>1 DEF ConsumerLocals, Size
<1>10. DiscardOnlyWhenFull'
  BY DEF IInv, DiscardOnlyWhenFull
<1>11. EmptyWhenDown'
  BY DEF IInv, EmptyWhenDown
<1> QED BY <1>3, <1>4, <1>5, <1>6, <1>7, <1>8, <1>9, <1>10, <1>11 DEF IInv, TypeOK

LEMMA StutterKeeps == IInv /\ UNCHANGED vars => IInv'
BY DEF IInv, TypeOK, FlagTypes, CapacityTypes, RoleTypes, CallTypes, MirroredBacklog,
       StagedKept, Handoff, Untouched, Pending, Consumed, Obsolete, ProducerLocals,
       ConsumerLocals, Size, vars, configVars, bufferVars, roleVars, readerVars,
       producerVars, consumerVars, DiscardOnlyWhenFull, EmptyWhenDown

LEMMA NextKeeps == IInv /\ [Next]_vars => IInv'
<1> SUFFICES ASSUME IInv, [Next]_vars PROVE IInv'
    OBVIOUS
<1>1. CASE Owner
  BY <1>1, OwnerKeeps
<1>2. CASE Producer
  BY <1>2, ProducerKeeps
<1>3. CASE Consumer
  BY <1>3, ReadKeeps, AcceptKeeps, DropKeeps, CopyKeeps DEF Consumer
<1>4. CASE UNCHANGED vars
  BY <1>4, StutterKeeps
<1> QED BY <1>1, <1>2, <1>3, <1>4 DEF Next

LEMMA Invariance == Spec => []IInv
<1>1. Init => IInv
  BY InitEstablishes
<1>2. IInv /\ [Next]_vars => IInv'
  BY NextKeeps
<1> QED BY <1>1, <1>2, PTL DEF Spec

\* post() and read() keep every variable in its type and every memcpy() inside
\* the storage of the buffer it writes.
THEOREM TypeCorrect == Spec => []TypeOK
<1>1. IInv => TypeOK
  BY DEF IInv
<1> QED BY <1>1, Invariance, PTL

\* The producer never touches the buffer the consumer is reading.
THEOREM NoSharedBuffer == Spec => []ConsumerBufferIsStable
<1>1. IInv => ConsumerBufferIsStable
  <2> SUFFICES ASSUME IInv, reading # NullBuffer PROVE reading \notin ProducerMayWrite
    BY DEF ConsumerBufferIsStable
  <2>1. CASE allocation_failed
    BY <2>1 DEF ProducerMayWrite, IInv, ProducerLocals
  <2>2. CASE ~allocation_failed /\ ppc \in {"idle", "publish"}
    <3>1. ProducerMayWrite = {output}
      BY <2>2 DEF ProducerMayWrite
    <3> QED BY <2>2, <3>1, OutputIsProducers
  <2>3. CASE ~allocation_failed /\ ppc \in {"rebase", "republish"}
    <3>1. ProducerMayWrite = {output, locked}
      BY <2>3 DEF ProducerMayWrite
    <3> QED BY <2>3, <3>1 DEF IInv, Handoff, Obsolete, ProducerLocals
  <2>4. CASE ~allocation_failed /\ ppc = "extend"
    <3>1. ProducerMayWrite = {staged}
      BY <2>4 DEF ProducerMayWrite
    <3> QED BY <2>4, <3>1 DEF IInv, Handoff, Pending, Consumed, ProducerLocals
  <2> QED BY <2>1, <2>2, <2>3, <2>4 DEF IInv, TypeOK, CallTypes
<1> QED BY <1>1, Invariance, PTL

\* Both producer-side buffers carry the same backlog whenever one of them can
\* be offered to the consumer.
THEOREM BacklogMirrored == Spec => []MirroredBacklog
<1>1. IInv => MirroredBacklog
  BY DEF IInv
<1> QED BY <1>1, Invariance, PTL

(* ---------------------- refinement of the FIFO queue -------------------- *)


\* What the three kinds of word offer the consumer.
LEMMA OfferedBacklog ==
  /\ staged_word \in {0, DefaultWord} => Backlog = << >>
  /\ WordPhase(staged_word) # reading_phase => Backlog = << >>
  /\ \A b \in Buffers, p \in {0, 1} :
       staged_word = Word(b, p) =>
         Backlog = IF p = reading_phase THEN data[b] ELSE << >>
<1>1. staged_word \in {0, DefaultWord} => Backlog = << >>
  BY BareWords DEF Backlog, Acceptable
<1>2. WordPhase(staged_word) # reading_phase => Backlog = << >>
  BY DEF Backlog, Acceptable
<1>3. ASSUME NEW b \in Buffers, NEW p \in {0, 1}, staged_word = Word(b, p)
      PROVE  Backlog = IF p = reading_phase THEN data[b] ELSE << >>
  <2>1. WordId(staged_word) = b + 1 /\ WordPhase(staged_word) = p
    BY <1>3, WordEncoding
  <2>2. WordId(staged_word) # 0 /\ WordId(staged_word) - 1 = b
    BY <2>1 DEF Buffers
  <2> QED BY <2>1, <2>2 DEF Backlog, Acceptable
<1> QED BY <1>1, <1>2, <1>3

\* The same of the next state.
LEMMA OfferedBacklogNext ==
  /\ staged_word' \in {0, DefaultWord} => Backlog' = << >>
  /\ \A b \in Buffers, p \in {0, 1} :
       staged_word' = Word(b, p) =>
         Backlog' = IF p = reading_phase' THEN data'[b] ELSE << >>
<1>1. staged_word' \in {0, DefaultWord} => Backlog' = << >>
  BY BareWords DEF Backlog, Acceptable
<1>2. ASSUME NEW b \in Buffers, NEW p \in {0, 1}, staged_word' = Word(b, p)
      PROVE  Backlog' = IF p = reading_phase' THEN data'[b] ELSE << >>
  <2>1. WordId(staged_word') = b + 1 /\ WordPhase(staged_word') = p
    BY <1>2, WordEncoding
  <2>2. WordId(staged_word') # 0 /\ WordId(staged_word') - 1 = b
    BY <2>1 DEF Buffers
  <2> QED BY <2>1, <2>2 DEF Backlog, Acceptable
<1> QED BY <1>1, <1>2

\* A healthy producer knows the backlog at each of its places.
LEMMA BacklogOfHandoff ==
  ASSUME IInv, ~allocation_failed
  PROVE  /\ \A b \in Buffers : Pending(b)  => Backlog = data[b]
         /\ \A b \in Buffers : Consumed(b) => Backlog = << >>
         /\ Untouched => Backlog = << >> /\ data[staged] = << >>
         /\ Obsolete  => Backlog = << >>
<1>1. posting_phase \in {0, 1} /\ Flip(posting_phase) \in {0, 1}
      /\ Flip(posting_phase) # posting_phase /\ output \in Buffers
  BY DEF IInv, TypeOK, RoleTypes, Flip
<1>2. \A b \in Buffers : Pending(b) => Backlog = data[b]
  BY <1>1, OfferedBacklog DEF Pending
<1>3. \A b \in Buffers : Consumed(b) => Backlog = << >>
  BY OfferedBacklog DEF Consumed
<1>4. Untouched => Backlog = << >> /\ data[staged] = << >>
  BY OfferedBacklog DEF Untouched, IInv, MirroredBacklog
<1>5. Obsolete => Backlog = << >>
  BY <1>1, OfferedBacklog DEF Obsolete
<1> QED BY <1>2, <1>3, <1>4, <1>5

\* What the consumer holds changes only with its own buffer and place in it.
LEMMA HeldItemsFrame ==
  ASSUME UNCHANGED <<reading, read_index>>,
         reading # NullBuffer => data'[reading] = data[reading]
  PROVE  HeldItems' = HeldItems
BY DEF HeldItems, Size

LEMMA RefinesInit == Init => Fifo!Init
BY OfferedBacklog DEF Init, CanonicalEmpty, Fifo!Init, HeldItems

(* ----------------------------- owner's steps ---------------------------- *)

LEMMA AllocateRefines ==
  ASSUME IInv, max_capacity = 0,
         NEW c, NEW limit \in MinCapacity..TransportMax, NEW d \in BOOLEAN,
         Allocate(c, limit, d)
  PROVE  Fifo!SetUp
<1>1. Backlog = << >> /\ HeldItems = << >>
  BY OfferedBacklog DEF IInv, EmptyWhenDown, HeldItems
<1>2. Backlog' = << >> /\ HeldItems' = << >>
  BY OfferedBacklogNext DEF Allocate, RestoreRoles, HeldItems
<1>3. max_capacity' \in Nat \ {0} /\ allow_discard' \in BOOLEAN /\ dst' = dst
  BY CapacityAssumption DEF Allocate, consumerVars
<1> QED BY <1>1, <1>2, <1>3 DEF Fifo!SetUp

LEMMA OwnerRefines == IInv /\ Owner => Fifo!Next
<1> SUFFICES ASSUME IInv, Owner PROVE Fifo!Next
    OBVIOUS
<1>1. CASE deallocate
  <2>1. Backlog' = << >> /\ HeldItems' = << >>
    BY <1>1, OfferedBacklogNext DEF deallocate, RestoreRoles, HeldItems
  <2>2. Fifo!TearDown
    BY <1>1, <2>1 DEF deallocate, consumerVars, Fifo!TearDown
  <2> QED BY <2>2 DEF Fifo!Next
<1>2. ASSUME NEW c \in 0..TransportMax, NEW d \in BOOLEAN, initialise_fixed(c, d)
      PROVE  Fifo!Next
  <2>1. ConditionedCapacity(c) \in MinCapacity..TransportMax
    BY ConditionedInRange
  <2>2. Fifo!SetUp
    BY <1>2, <2>1, AllocateRefines DEF initialise_fixed
  <2> QED BY <2>2 DEF Fifo!Next
<1>3. ASSUME NEW c \in 0..TransportMax, NEW m \in 0..TransportMax, initialise_growable(c, m)
      PROVE  Fifo!Next
  <2> DEFINE conditioned == ConditionedCapacity(c)
             upper == IF m = 0 THEN TransportMax
                      ELSE IF m = c THEN conditioned ELSE Larger(m, conditioned)
  <2>1. conditioned \in MinCapacity..TransportMax
    BY ConditionedInRange
  <2>2. upper \in MinCapacity..TransportMax
    BY <2>1, CapacityAssumption DEF Larger
  <2>3. Allocate(conditioned, upper, FALSE) /\ max_capacity = 0
    BY <1>3 DEF initialise_growable
  <2>4. Fifo!SetUp
    BY <2>2, <2>3, AllocateRefines
  <2> QED BY <2>4 DEF Fifo!Next
<1> QED BY <1>1, <1>2, <1>3 DEF Owner

(* ---------------------------- producer's steps -------------------------- *)

\* Up to the exchange post() works out of sight.
LEMMA PostHidden ==
  ASSUME IInv, NEW s \in Postings, post(s)
  PROVE  UNCHANGED Fifo!specVars
<1>1. /\ ppc = "idle" /\ ~allocation_failed /\ reading # output
      /\ UNCHANGED <<allow_discard, max_capacity, staged, reading_phase, reading,
                     read_index, staged_word, dst>>
  BY OutputIsProducers DEF post, posting_is_ready, roleVars, readerVars, consumerVars
<1>2. /\ data \in [Buffers -> Seq(Payload)] /\ reading \in Buffers \cup {NullBuffer}
      /\ staged \in Buffers /\ output \in Buffers /\ output # staged
  BY DEF IInv, TypeOK, CapacityTypes, RoleTypes, ProducerLocals
<1>3. PICK filled : data' = [data EXCEPT ![output] = filled]
  BY DEF post, Prepare, PrepareFails
<1>4. HeldItems' = HeldItems
  BY <1>1, <1>2, <1>3, HeldItemsFrame
<1>5. Backlog' = Backlog
  <2>1. Untouched \/ Pending(staged) \/ Consumed(staged)
    BY <1>1 DEF IInv, Handoff
  <2>2. CASE Untouched \/ Consumed(staged)
    BY <1>1, <2>2, OfferedBacklog, OfferedBacklogNext DEF Untouched, Consumed
  <2>3. CASE Pending(staged)
    <3>1. posting_phase \in {0, 1} /\ data'[staged] = data[staged]
      BY <1>2, <1>3 DEF IInv, TypeOK, RoleTypes
    <3> QED BY <1>1, <1>2, <2>3, <3>1, OfferedBacklog, OfferedBacklogNext DEF Pending
  <2> QED BY <2>1, <2>2, <2>3
<1> QED BY <1>1, <1>4, <1>5 DEF Fifo!specVars

\* An exchange that finds a pending publication is the moment the posting
\* joins the backlog, or replaces it.
LEMMA PublishPendingRefines == IInv /\ PublishPending => Fifo!Next
<1> SUFFICES ASSUME IInv, PublishPending PROVE Fifo!Next
    OBVIOUS
<1>1. /\ ppc = "publish" /\ staged_word # 0
      /\ UNCHANGED <<allow_discard, max_capacity, data, reading_phase, reading, read_index, dst>>
      /\ staged_word' = Word(output, posting_phase)
  BY DEF PublishPending, configVars, bufferVars, readerVars, consumerVars
<1>2. /\ ~allocation_failed /\ src \in Postings /\ src \in Seq(Payload)
      /\ Len(src) <= capacity /\ Len(src) >= 1 /\ Len(src) \in Nat
      /\ discard \in BOOLEAN
  BY <1>1, PostingsAssumption, CapacityAssumption
     DEF IInv, ProducerLocals, TypeOK, FlagTypes, CallTypes
<1>3. /\ output \in Buffers /\ staged \in Buffers /\ posting_phase \in {0, 1}
      /\ capacity \in Nat /\ max_capacity \in Nat /\ capacity <= max_capacity
      /\ data[staged] \in Seq(Payload) /\ data[output] \in Seq(Payload)
      /\ Len(data[output]) <= capacity
  BY CapacityAssumption DEF IInv, TypeOK, CapacityTypes, RoleTypes, Size
<1>4. Untouched \/ Pending(staged)
  BY <1>1, <1>2 DEF IInv, Handoff, Consumed
<1>5. Backlog = data[staged] /\ reading_phase = posting_phase
  BY <1>2, <1>3, <1>4, BacklogOfHandoff DEF Untouched, Pending
<1>6. Backlog' = data[output]
  BY <1>1, <1>3, <1>5, OfferedBacklogNext
<1>7. HeldItems' = HeldItems
  BY <1>1, HeldItemsFrame
<1>8. data[output] = StagedKept \o src
  BY <1>1, <1>2 DEF IInv, MirroredBacklog
<1>9. src # << >>
  BY <1>2
<1>10. CASE ~discard
  <2>1. data[output] = data[staged] \o src
    BY <1>8, <1>10 DEF StagedKept
  <2>2. Len(data[staged]) + Len(src) <= max_capacity
    BY <1>2, <1>3, <2>1, ConcatProperties
  <2>3. Fifo!Enqueue(src)
    BY <1>1, <1>5, <1>6, <1>7, <1>9, <2>1, <2>2 DEF Fifo!Enqueue
  <2> QED BY <1>2, <2>3 DEF Fifo!Next
<1>11. CASE discard
  <2>1. data[output] = src
    BY <1>2, <1>8, <1>11, ConcatEmptySeq DEF StagedKept
  <2>2. allow_discard /\ Len(data[staged]) + Len(src) > max_capacity
    BY <1>1, <1>2, <1>11 DEF IInv, DiscardOnlyWhenFull
  <2>3. Len(src) <= max_capacity
    BY <1>2, <1>3
  <2>4. Fifo!Replace(src)
    BY <1>1, <1>5, <1>6, <1>7, <1>9, <2>1, <2>2, <2>3 DEF Fifo!Replace
  <2> QED BY <1>2, <2>4 DEF Fifo!Next
<1> QED BY <1>2, <1>10, <1>11

\* One that finds it consumed publishes in a phase that the consumer refuses:
\* nothing is visible until the posting is published again.
LEMMA PublishConsumedHidden == IInv /\ PublishConsumed => UNCHANGED Fifo!specVars
<1> SUFFICES ASSUME IInv, PublishConsumed PROVE UNCHANGED Fifo!specVars
    OBVIOUS
<1>1. /\ ppc = "publish" /\ staged_word = 0
      /\ UNCHANGED <<allow_discard, max_capacity, data, reading_phase, reading, read_index, dst>>
      /\ staged_word' = Word(output, posting_phase)
  BY DEF PublishConsumed, configVars, bufferVars, readerVars, consumerVars
<1>2. /\ ~allocation_failed /\ output \in Buffers /\ staged \in Buffers
      /\ posting_phase \in {0, 1}
  BY <1>1 DEF IInv, ProducerLocals, TypeOK, RoleTypes
<1>3. Consumed(staged)
  <2>1. Word(staged, posting_phase) # 0 /\ DefaultWord # 0
    BY <1>2, WordEncoding, ConsumedIsNotDefault
  <2> QED BY <1>1, <1>2, <2>1 DEF IInv, Handoff, Untouched, Pending
<1>4. reading_phase # posting_phase
  BY <1>2, <1>3 DEF Consumed, Flip
<1>5. Backlog = << >> /\ Backlog' = << >>
  BY <1>1, <1>2, <1>4, OfferedBacklog, OfferedBacklogNext
<1>6. HeldItems' = HeldItems
  BY <1>1, HeldItemsFrame
<1> QED BY <1>1, <1>5, <1>6 DEF Fifo!specVars

LEMMA PoisonHidden ==
  ASSUME IInv, NEW i \in Buffers, Poison(i)
  PROVE  UNCHANGED Fifo!specVars
BY DEF Poison, Fifo!specVars, HeldItems, Backlog, Acceptable, Size, bufferVars,
       readerVars, consumerVars

LEMMA RebaseHidden == IInv /\ Rebase => UNCHANGED Fifo!specVars
<1> SUFFICES ASSUME IInv, Rebase PROVE UNCHANGED Fifo!specVars
    OBVIOUS
<1>1. /\ UNCHANGED <<allow_discard, max_capacity, output, posting_phase, reading_phase,
                     reading, read_index, staged_word, dst>>
      /\ ~allocation_failed /\ Obsolete
      /\ data' = [data EXCEPT ![output] = src, ![locked] = src]
  BY DEF Rebase, configVars, roleVars, readerVars, consumerVars, IInv, ProducerLocals, Handoff
<1>2. /\ reading # output /\ reading # locked
      /\ output \in Buffers /\ locked \in Buffers /\ posting_phase \in {0, 1}
      /\ reading \in Buffers \cup {NullBuffer} /\ data \in [Buffers -> Seq(Payload)]
  BY <1>1 DEF Obsolete, IInv, ProducerLocals, TypeOK, RoleTypes, CapacityTypes, Buffers, NullBuffer
<1>3. HeldItems' = HeldItems
  BY <1>1, <1>2, HeldItemsFrame
<1>4. Backlog = << >> /\ Backlog' = << >>
  <2>1. Flip(posting_phase) \in {0, 1} /\ Flip(posting_phase) # reading_phase
    BY <1>1, <1>2 DEF Flip, Obsolete
  <2> QED BY <1>1, <1>2, <2>1, OfferedBacklog, OfferedBacklogNext DEF Obsolete
<1> QED BY <1>1, <1>3, <1>4 DEF Fifo!specVars

\* The second exchange is the moment a posting becomes the whole backlog.
LEMMA RepublishRefines == IInv /\ Republish => Fifo!Next
<1> SUFFICES ASSUME IInv, Republish PROVE Fifo!Next
    OBVIOUS
<1>1. /\ ppc = "republish" /\ ~allocation_failed /\ Obsolete
      /\ UNCHANGED <<allow_discard, max_capacity, data, reading_phase, reading, read_index, dst>>
      /\ staged_word' = Word(locked, posting_phase)
  BY DEF Republish, configVars, bufferVars, readerVars, consumerVars, IInv, ProducerLocals, Handoff
<1>2. /\ src \in Postings /\ src \in Seq(Payload)
      /\ Len(src) <= capacity /\ Len(src) >= 1 /\ Len(src) \in Nat
      /\ data[locked] = src
  BY <1>1, PostingsAssumption, CapacityAssumption
     DEF IInv, ProducerLocals, TypeOK, CallTypes, MirroredBacklog
<1>3. /\ locked \in Buffers /\ posting_phase \in {0, 1}
      /\ capacity \in Nat /\ max_capacity \in Nat /\ capacity <= max_capacity
  BY CapacityAssumption DEF IInv, TypeOK, CapacityTypes, RoleTypes
<1>4. Backlog = << >> /\ Backlog' = src
  BY <1>1, <1>2, <1>3, BacklogOfHandoff, OfferedBacklogNext DEF Obsolete
<1>5. HeldItems' = HeldItems
  BY <1>1, HeldItemsFrame
<1>6. /\ src # << >> /\ << >> \o src = src
      /\ Len(<< >>) + Len(src) <= max_capacity
  BY <1>2, <1>3, ConcatEmptySeq
<1>7. Fifo!Enqueue(src)
  BY <1>1, <1>4, <1>5, <1>6 DEF Fifo!Enqueue
<1> QED BY <1>2, <1>7 DEF Fifo!Next

LEMMA ExtendHidden == IInv /\ Extend => UNCHANGED Fifo!specVars
<1> SUFFICES ASSUME IInv, Extend PROVE UNCHANGED Fifo!specVars
    OBVIOUS
<1>1. /\ UNCHANGED <<allow_discard, max_capacity, posting_phase, reading_phase,
                     reading, read_index, staged_word, dst>>
      /\ ~allocation_failed /\ (Pending(output) \/ Consumed(output))
      /\ data' = [data EXCEPT ![staged] = StagedKept \o src]
  BY DEF Extend, configVars, readerVars, consumerVars, IInv, ProducerLocals, Handoff
<1>2. /\ reading # staged /\ output \in Buffers /\ staged \in Buffers /\ output # staged
      /\ posting_phase \in {0, 1} /\ data \in [Buffers -> Seq(Payload)]
      /\ reading \in Buffers \cup {NullBuffer}
  BY <1>1 DEF Pending, Consumed, IInv, ProducerLocals, TypeOK, RoleTypes, CapacityTypes,
              Buffers, NullBuffer
<1>3. HeldItems' = HeldItems
  BY <1>1, <1>2, HeldItemsFrame
<1>4. data'[output] = data[output]
  BY <1>1, <1>2
<1>5. Backlog' = Backlog
  BY <1>1, <1>2, <1>4, OfferedBacklog, OfferedBacklogNext DEF Pending, Consumed
<1> QED BY <1>1, <1>3, <1>5 DEF Fifo!specVars

LEMMA ProducerRefines == IInv /\ Producer => [Fifo!Next]_Fifo!specVars
<1> SUFFICES ASSUME IInv, Producer PROVE [Fifo!Next]_Fifo!specVars
    OBVIOUS
<1>1. staged \in Buffers /\ locked \in Buffers
  BY DEF IInv, TypeOK, RoleTypes
<1>2. ASSUME NEW s \in Postings, post(s) PROVE UNCHANGED Fifo!specVars
  BY <1>2, PostHidden
<1>3. CASE PublishPending \/ Republish
  BY <1>3, PublishPendingRefines, RepublishRefines
<1>4. CASE PublishConsumed \/ Rebase \/ Extend
  BY <1>4, PublishConsumedHidden, RebaseHidden, ExtendHidden
<1>5. CASE RebaseFails \/ ExtendFails
  BY <1>1, <1>5, PoisonHidden DEF RebaseFails, ExtendFails
<1> QED BY <1>2, <1>3, <1>4, <1>5 DEF Producer

(* ---------------------------- consumer's steps -------------------------- *)

LEMMA ReadRefines ==
  ASSUME IInv, NEW n \in 0..TransportMax, read(n)
  PROVE  Fifo!Next
<1>1. /\ UNCHANGED <<allow_discard, max_capacity, data, reading_phase, reading,
                     read_index, staged_word>>
      /\ dst' = << >>
  BY DEF read, configVars, bufferVars, readerVars
<1>2. Backlog' = Backlog /\ HeldItems' = HeldItems
  BY <1>1 DEF Backlog, Acceptable, HeldItems, Size
<1>3. Fifo!Call
  BY <1>1, <1>2 DEF Fifo!Call
<1> QED BY <1>3 DEF Fifo!Next

\* An accepted publication is the whole backlog.
LEMMA AcceptRefines == IInv /\ AcceptPublication => Fifo!Next
<1> SUFFICES ASSUME IInv, AcceptPublication PROVE Fifo!Next
    OBVIOUS
<1> DEFINE b == WordId(staged_word) - 1
<1>1. /\ reading = NullBuffer /\ Acceptable(staged_word)
      /\ UNCHANGED <<allow_discard, max_capacity, data, dst>>
      /\ reading' = b /\ read_index' = 0 /\ staged_word' = 0
  BY DEF AcceptPublication, configVars, bufferVars, IInv, ConsumerLocals
<1>2. b \in Buffers /\ data[b] \in Seq(Payload)
  BY <1>1, IdNamesBuffer DEF Acceptable, IInv, TypeOK, RoleTypes, CapacityTypes
<1>3. b # NullBuffer
  BY <1>2 DEF Buffers, NullBuffer
<1>4. Backlog = data[b] /\ HeldItems = << >>
  BY <1>1 DEF Backlog, HeldItems
<1>5. Backlog' = << >>
  BY <1>1, OfferedBacklogNext
<1> HIDE DEF b
<1>6. HeldItems' = data[b]
  <2>1. HeldItems' = SubSeq(data[b], 0 + 1, Len(data[b]))
    BY <1>1, <1>3 DEF HeldItems, Size
  <2>2. 0 + 1 = 1
    OBVIOUS
  <2> QED BY <1>2, <2>1, <2>2, SubSeqFull
<1>7. Fifo!Accept
  BY <1>1, <1>4, <1>5, <1>6 DEF Fifo!Accept
<1> QED BY <1>7 DEF Fifo!Next

\* A publication that is dropped was not part of the backlog.
LEMMA DropHidden == IInv /\ DropPublication => UNCHANGED Fifo!specVars
<1> SUFFICES ASSUME IInv, DropPublication PROVE UNCHANGED Fifo!specVars
    OBVIOUS
<1>1. /\ ~Acceptable(staged_word) /\ staged_word' = 0
      /\ UNCHANGED <<allow_discard, max_capacity, data, reading, read_index, dst>>
  BY DEF DropPublication, configVars, bufferVars, readerVars
<1>2. Backlog = << >> /\ Backlog' = << >>
  BY <1>1, OfferedBacklogNext DEF Backlog
<1>3. HeldItems' = HeldItems
  BY <1>1, HeldItemsFrame
<1> QED BY <1>1, <1>2, <1>3 DEF Fifo!specVars

\* The items of a run of a sequence, from one past its k-th for n items.
LEMMA RunItems ==
  ASSUME NEW s \in Seq(Payload), NEW k \in Nat, NEW n \in Nat, k + n <= Len(s)
  PROVE  /\ SubSeq(s, k + 1, k + n) \in Seq(Payload)
         /\ Len(SubSeq(s, k + 1, k + n)) = n
         /\ \A i \in 1..n : SubSeq(s, k + 1, k + n)[i] = s[k + i]
<1> DEFINE m == k + 1
           e == k + n
           run == SubSeq(s, m, e)
<1>1. m \in Int /\ e \in Int /\ \A i \in m..e : s[i] \in Payload
  BY ElementOfSeq, LenProperties
<1>2. /\ run \in Seq(Payload)
      /\ Len(run) = IF m <= e THEN e - m + 1 ELSE 0
      /\ \A i \in 1..(e - m + 1) : run[i] = s[m + i - 1]
  <2> HIDE DEF m, e
  <2> QED BY <1>1, SubSeqProperties
<1>3. e - m + 1 = n /\ (m <= e <=> n >= 1)
  OBVIOUS
<1>4. Len(run) = n
  <2> HIDE DEF run
  <2> QED BY <1>2, <1>3
<1>5. ASSUME NEW i \in 1..n PROVE run[i] = s[k + i]
  <2>1. m + i - 1 = k + i
    OBVIOUS
  <2>2. i \in 1..(e - m + 1)
    BY <1>3
  <2> QED BY <1>2, <2>1, <2>2
<1> QED BY <1>2, <1>4, <1>5

\* Splitting what is left of a buffer at the end of a read.
LEMMA SplitRun ==
  ASSUME NEW s \in Seq(Payload), NEW k \in Nat, NEW n \in Nat, n >= 1, k + n <= Len(s)
  PROVE  LET run == SubSeq(s, k + 1, Len(s))
         IN /\ Len(run) = Len(s) - k
            /\ SubSeq(run, 1, n) = SubSeq(s, k + 1, k + n)
            /\ SubSeq(run, n + 1, Len(run)) = SubSeq(s, k + n + 1, Len(s))
<1> DEFINE left == Len(s) - k
           rest == Len(s) - k - n
           run  == SubSeq(s, k + 1, k + left)
           kn   == k + n
<1>1. /\ left \in Nat /\ rest \in Nat /\ kn \in Nat /\ Len(s) \in Nat
      /\ k + left = Len(s) /\ kn + rest = Len(s) /\ n + rest = left /\ n <= left
  BY LenProperties
<1>2. /\ run \in Seq(Payload) /\ Len(run) = left
      /\ \A i \in 1..left : run[i] = s[k + i]
  <2> HIDE DEF left
  <2> QED BY <1>1, RunItems
<1> HIDE DEF run, left, rest, kn
<1>3. SubSeq(run, 0 + 1, 0 + n) = SubSeq(s, k + 1, k + n)
  <2>1. /\ SubSeq(run, 0 + 1, 0 + n) \in Seq(Payload)
        /\ Len(SubSeq(run, 0 + 1, 0 + n)) = n
        /\ \A i \in 1..n : SubSeq(run, 0 + 1, 0 + n)[i] = run[0 + i]
    <3>1. 0 \in Nat /\ 0 + n <= Len(run)
      BY <1>1, <1>2
    <3> QED BY <1>2, <3>1, RunItems
  <2>2. /\ SubSeq(s, k + 1, k + n) \in Seq(Payload)
        /\ Len(SubSeq(s, k + 1, k + n)) = n
        /\ \A i \in 1..n : SubSeq(s, k + 1, k + n)[i] = s[k + i]
    BY RunItems
  <2>3. \A i \in 1..n : run[0 + i] = s[k + i]
    BY <1>1, <1>2
  <2> QED BY <2>1, <2>2, <2>3, SeqEqual
<1>4. SubSeq(run, n + 1, n + rest) = SubSeq(s, kn + 1, kn + rest)
  <2>1. /\ SubSeq(run, n + 1, n + rest) \in Seq(Payload)
        /\ Len(SubSeq(run, n + 1, n + rest)) = rest
        /\ \A i \in 1..rest : SubSeq(run, n + 1, n + rest)[i] = run[n + i]
    <3>1. n + rest <= Len(run)
      BY <1>1, <1>2
    <3> QED BY <1>1, <1>2, <3>1, RunItems
  <2>2. /\ SubSeq(s, kn + 1, kn + rest) \in Seq(Payload)
        /\ Len(SubSeq(s, kn + 1, kn + rest)) = rest
        /\ \A i \in 1..rest : SubSeq(s, kn + 1, kn + rest)[i] = s[kn + i]
    BY <1>1, RunItems
  <2>3. \A i \in 1..rest : run[n + i] = s[kn + i]
    <3> SUFFICES ASSUME NEW i \in 1..rest PROVE run[n + i] = s[kn + i]
      OBVIOUS
    <3>1. n + i \in 1..left /\ k + (n + i) = kn + i
      BY <1>1 DEF kn
    <3> QED BY <1>2, <3>1
  <2> QED BY <2>1, <2>2, <2>3, SeqEqual
<1>5. run = SubSeq(s, k + 1, Len(s)) /\ Len(run) = Len(s) - k
  BY <1>1, <1>2 DEF run, left
<1>6. 0 + 1 = 1 /\ 0 + n = n /\ kn + 1 = k + n + 1
  BY DEF kn
<1>7. /\ SubSeq(run, 1, n) = SubSeq(s, k + 1, k + n)
      /\ SubSeq(run, n + 1, Len(run)) = SubSeq(s, k + n + 1, Len(s))
  BY <1>1, <1>2, <1>3, <1>4, <1>6
<1> QED BY <1>5, <1>7

LEMMA CopyRefines == IInv /\ Copy => Fifo!Next
<1> SUFFICES ASSUME IInv, Copy PROVE Fifo!Next
    OBVIOUS
<1> DEFINE s == data[reading]
<1>1. /\ cpc = "copy" /\ reading # NullBuffer
      /\ UNCHANGED <<allow_discard, max_capacity, data, reading_phase, staged_word>>
      /\ dst' = SubSeq(s, read_index + 1, read_index + want)
  BY DEF Copy, configVars, bufferVars, IInv, ConsumerLocals
<1>2. /\ s \in Seq(Payload) /\ read_index \in Nat /\ want \in Nat /\ want >= 1
      /\ read_index + want <= Len(s)
  BY <1>1 DEF IInv, ConsumerLocals, TypeOK, RoleTypes, CallTypes, CapacityTypes, Size
<1>3. HeldItems = SubSeq(s, read_index + 1, Len(s))
  BY <1>1 DEF HeldItems, Size
<1>4. /\ IF read_index + want = Len(s)
           THEN reading' = NullBuffer
           ELSE reading' = reading /\ read_index' = read_index + want
  BY DEF Copy, Size
<1> HIDE DEF s
<1>5. HeldItems' = SubSeq(s, read_index + want + 1, Len(s))
  <2>1. CASE read_index + want = Len(s)
    <3>1. HeldItems' = << >>
      BY <1>4, <2>1 DEF HeldItems
    <3>2. SubSeq(s, read_index + want + 1, Len(s)) = << >>
      BY <1>2, <2>1, SubSeqEmpty
    <3> QED BY <3>1, <3>2
  <2>2. CASE read_index + want # Len(s)
    BY <1>1, <1>4, <2>2 DEF HeldItems, Size, s
  <2> QED BY <2>1, <2>2
<1>6. /\ Len(HeldItems) = Len(s) - read_index
      /\ dst' = SubSeq(HeldItems, 1, want)
      /\ HeldItems' = SubSeq(HeldItems, want + 1, Len(HeldItems))
  BY <1>1, <1>2, <1>3, <1>5, SplitRun
<1>7. want \in 1..Len(HeldItems)
  BY <1>2, <1>6
<1>8. Backlog' = Backlog
  BY <1>1 DEF Backlog, Acceptable
<1>9. Fifo!Take(want)
  BY <1>1, <1>6, <1>7, <1>8 DEF Fifo!Take
<1> QED BY <1>7, <1>9 DEF Fifo!Next

LEMMA StutterHidden == UNCHANGED vars => UNCHANGED Fifo!specVars
BY DEF vars, configVars, bufferVars, roleVars, readerVars, producerVars, consumerVars,
       Fifo!specVars, Backlog, Acceptable, HeldItems, Size

\* The buffer, phase and word protocol of post() and read() implements the
\* queue that SpscQueue describes: no item accepted is lost, repeated or
\* reordered by any interleaving of the two threads, for every capacity.
THEOREM QueueRefinement == Spec => ImplementsFifo
<1>1. Init => Fifo!Init
  BY RefinesInit
<1>2. IInv /\ [Next]_vars => [Fifo!Next]_Fifo!specVars
  <2> SUFFICES ASSUME IInv, [Next]_vars PROVE [Fifo!Next]_Fifo!specVars
    OBVIOUS
  <2>1. CASE Owner
    BY <2>1, OwnerRefines
  <2>2. CASE Producer
    BY <2>2, ProducerRefines
  <2>3. CASE Consumer
    BY <2>3, ReadRefines, AcceptRefines, DropHidden, CopyRefines DEF Consumer
  <2>4. CASE UNCHANGED vars
    BY <2>4, StutterHidden
  <2> QED BY <2>1, <2>2, <2>3, <2>4 DEF Next
<1> QED BY <1>1, <1>2, Invariance, PTL DEF Spec, ImplementsFifo, Fifo!Spec

(* ----------------------------- the owner wait --------------------------- *)

LEMMA TypeInit == WakeInit => WakeTypeOK
<1> SUFFICES ASSUME WakeInit PROVE WakeTypeOK
  OBVIOUS
<1> USE DEF WakeInit
<1>1. /\ posted \in [Publisher -> 0..Publications] /\ seen \in [Publisher -> 0..Publications]
      /\ \A p \in Publisher : seen[p] <= posted[p]
  BY WakeAssumption
<1>2. signaller \in [Publisher -> Place] /\ owner \in Stage /\ remaining \in SUBSET Publisher
  BY DEF Place, Stage
<1> QED BY <1>1, <1>2 DEF WakeTypeOK

LEMMA TypeNext == WakeTypeOK /\ [WakeNext]_wakeVars => WakeTypeOK'
<1> SUFFICES ASSUME WakeTypeOK, [WakeNext]_wakeVars PROVE WakeTypeOK'
  OBVIOUS
<1> USE WakeAssumption DEF WakeTypeOK, Place, Stage
<1>1. ASSUME NEW p \in Publisher, PublishWork(p) PROVE WakeTypeOK'
  <2>1. posted' \in [Publisher -> 0..Publications] /\ \A q \in Publisher : seen'[q] <= posted'[q]
    BY <1>1 DEF PublishWork, Moves, hostVars
  <2>2. signaller' \in [Publisher -> Place]
    BY <1>1 DEF PublishWork, Moves
  <2> QED BY <1>1, <2>1, <2>2 DEF PublishWork, hostVars, notificationVars
<1>2. ASSUME NEW p \in Publisher, SignalStep(p) PROVE WakeTypeOK'
  <2>1. CASE Notify(p)
    BY <2>1 DEF Notify, Moves, hostVars
  <2>2. CASE StoreHint(p)
    BY <2>2 DEF StoreHint, Moves, hostVars
  <2>3. CASE Signal(p)
    BY <2>3 DEF Signal, Moves, hostVars, notificationVars
  <2>4. CASE CheckFailure(p)
    BY <2>4 DEF CheckFailure, hostVars, notificationVars
  <2>5. CASE SetEvent(p)
    BY <2>5 DEF SetEvent, Moves, hostVars, notificationVars
  <2>6. CASE SetEventFails(p)
    BY <2>6 DEF SetEventFails, Moves, hostVars, notificationVars
  <2>7. CASE SignalFailed(p)
    BY <2>7 DEF SignalFailed, Moves, hostVars
  <2> QED BY <1>2, <2>1, <2>2, <2>3, <2>4, <2>5, <2>6, <2>7 DEF SignalStep
<1>3. ASSUME NEW p \in Publisher, Drain(p) PROVE WakeTypeOK'
  <2>1. ReadUpTo(p) \in 0..Publications /\ ReadUpTo(p) <= posted[p]
    BY DEF ReadUpTo, ReadNow
  <2>2. seen' \in [Publisher -> 0..Publications] /\ \A q \in Publisher : seen'[q] <= posted'[q]
    BY <1>3, <2>1 DEF Drain, publisherVars
  <2>3. turn_pending' \in BOOLEAN
    BY <1>3 DEF Drain
  <2> QED BY <1>3, <2>2, <2>3 DEF Drain, publisherVars, notificationVars
<1>4. CASE ResetEvent \/ SkipCycle \/ ResetEventFails
  BY <1>4 DEF ResetEvent, SkipCycle, ResetEventFails, BeginTurn, Then, publisherVars, notificationVars
<1>5. CASE Acknowledge
  BY <1>5 DEF Acknowledge, Then, publisherVars, notificationVars
<1>6. CASE Drained
  BY <1>6 DEF Drained, Then, publisherVars, notificationVars
<1>7. CASE TakeHint \/ clear_pending
  BY <1>7 DEF TakeHint, clear_pending, Then, publisherVars
<1>8. CASE EndTurn
  BY <1>8 DEF EndTurn, OwnerGoes, publisherVars, notificationVars
<1>9. CASE CheckState \/ CheckError
  BY <1>9 DEF CheckState, CheckError, OwnerGoes, publisherVars, notificationVars
<1>10. CASE Expire \/ Park \/ Awake \/ ParkEnds
  BY <1>10 DEF Expire, Park, Awake, ParkEnds, OwnerGoes, publisherVars, notificationVars
<1>11. CASE UNCHANGED wakeVars
  BY <1>11 DEF wakeVars, hostVars, publisherVars, notificationVars
<1> QED BY <1>1, <1>2, <1>3, <1>4, <1>5, <1>6, <1>7, <1>8, <1>9, <1>10, <1>11 DEF WakeNext, HostStep

\* The Host reads only what was published, and every place and stage is one of
\* the code's: WakeTypeOK is an invariant for any publishers and any bounds.
THEOREM WakeTypes == WakeSpec => []WakeTypeOK
BY TypeInit, TypeNext, PTL DEF WakeSpec

(* --------------------------- the inductive invariant -------------------- *)

\* How far the turn has come: what is left to drain, and that the Host only
\* waits after a turn that left nothing.
TurnProgress ==
  /\ owner = "ack" => remaining = Publisher
  /\ owner \in {"direct", "hint", "clear"} => Notified \subseteq remaining
  /\ owner \in {"hint", "clear", "drain"} => remaining \cap Direct = {}
  /\ owner = "turned" => remaining = {}
  /\ owner \in {"check", "error", "deadline", "parked"} => remaining = {} /\ ~turn_pending

\* Unread work of a thread is in the turn's future or behind the pending bit.
DirectCovered ==
  \A p \in Direct : Unseen(p) =>
    owner = "reset" \/ p \in remaining \/ turn_pending \/ pending \/ signaller[p] = "signal"

\* Unread work of a notified publisher: likewise behind the notification.
NotifiedCovered ==
  \A p \in Notified : Unseen(p) =>
    owner = "reset" \/ p \in remaining \/ turn_pending \/ notification \/ signaller[p] = "notify"

\* A notification is cleared in this turn, or the Host has been or will be told.
NotificationCovered ==
  notification =>
    \/ owner \in {"reset", "ack", "direct", "hint", "clear"}
    \/ pending
    \/ \E q \in Publisher : signaller[q] \in {"hint", "signal"}

\* A pending bit is about to be acknowledged, or the event is or will be set.
PendingCovered ==
  pending => event \/ owner = "ack" \/ \E q \in Publisher : signaller[q] \in {"first", "set"}

\* Only a failed event is ever refused.
RefusedMeansFailure == refused \/ (\E p \in Publisher : signaller[p] = "failed") => failure

Covered == DirectCovered /\ NotifiedCovered /\ NotificationCovered /\ PendingCovered

WakeInv == WakeTypeOK /\ TurnProgress /\ RefusedMeansFailure /\ (~failure => Covered)

LEMMA InvariantInit == WakeInit => WakeInv
<1> SUFFICES ASSUME WakeInit PROVE WakeInv
  OBVIOUS
<1>1. WakeTypeOK
  BY TypeInit
<1>2. TurnProgress /\ RefusedMeansFailure
  BY DEF WakeInit, TurnProgress, RefusedMeansFailure
<1>3. Covered
  BY DEF WakeInit, Covered, DirectCovered, NotifiedCovered, NotificationCovered, PendingCovered
<1> QED BY <1>1, <1>2, <1>3 DEF WakeInv

LEMMA TurnProgressNext == WakeTypeOK /\ TurnProgress /\ [WakeNext]_wakeVars => TurnProgress'
<1> SUFFICES ASSUME WakeTypeOK, TurnProgress, [WakeNext]_wakeVars PROVE TurnProgress'
  OBVIOUS
<1> USE DEF TurnProgress
<1>1. ASSUME NEW p \in Publisher, PublishWork(p) \/ SignalStep(p) PROVE TurnProgress'
  BY <1>1 DEF PublishWork, SignalStep, Notify, StoreHint, Signal, CheckFailure, SetEvent,
              SetEventFails, SignalFailed, hostVars
<1>2. ASSUME NEW p \in Publisher, Drain(p) PROVE TurnProgress'
  BY <1>2, WakeAssumption DEF Drain, Publisher
<1>3. CASE ResetEvent \/ SkipCycle \/ ResetEventFails
  BY <1>3 DEF ResetEvent, SkipCycle, ResetEventFails, BeginTurn, Then, Publisher
<1>4. CASE Acknowledge
  BY <1>4 DEF Acknowledge, Then, Publisher
<1>5. CASE Drained
  BY <1>5 DEF Drained, Then, WakeTypeOK, Publisher
<1>6. CASE TakeHint \/ clear_pending
  BY <1>6 DEF TakeHint, clear_pending, Then
<1>7. CASE EndTurn
  BY <1>7 DEF EndTurn, OwnerGoes
<1>8. CASE CheckState \/ CheckError
  BY <1>8 DEF CheckState, CheckError, OwnerGoes
<1>9. CASE Expire \/ Park \/ Awake \/ ParkEnds
  BY <1>9 DEF Expire, Park, Awake, ParkEnds, OwnerGoes
<1>10. CASE UNCHANGED wakeVars
  BY <1>10 DEF wakeVars, hostVars
<1> QED BY <1>1, <1>2, <1>3, <1>4, <1>5, <1>6, <1>7, <1>8, <1>9, <1>10 DEF WakeNext, HostStep

LEMMA RefusedNext == WakeTypeOK /\ RefusedMeansFailure /\ [WakeNext]_wakeVars => RefusedMeansFailure'
<1> SUFFICES ASSUME WakeTypeOK, RefusedMeansFailure, [WakeNext]_wakeVars PROVE RefusedMeansFailure'
  OBVIOUS
<1> USE DEF RefusedMeansFailure
<1>1. ASSUME NEW p \in Publisher, PublishWork(p) \/ SignalStep(p) PROVE RefusedMeansFailure'
  <2> USE DEF WakeTypeOK, Moves, notificationVars
  <2>1. CASE PublishWork(p) \/ Notify(p) \/ StoreHint(p)
    BY <2>1 DEF PublishWork, Notify, StoreHint
  <2>2. CASE Signal(p) \/ SetEvent(p)
    BY <2>2 DEF Signal, SetEvent
  <2>3. CASE CheckFailure(p)
    BY <2>3 DEF CheckFailure
  <2>4. CASE SetEventFails(p) \/ SignalFailed(p)
    BY <2>4 DEF SetEventFails, SignalFailed
  <2> QED BY <1>1, <2>1, <2>2, <2>3, <2>4 DEF SignalStep
<1>2. CASE HostStep \/ Expire \/ ParkEnds
  BY <1>2 DEF HostStep, Expire, ParkEnds, ResetEvent, SkipCycle, ResetEventFails, Acknowledge,
              Drain, Drained, TakeHint, clear_pending, EndTurn, CheckState, CheckError, Park,
              Awake, OwnerGoes, publisherVars, notificationVars
<1>3. CASE UNCHANGED wakeVars
  BY <1>3 DEF wakeVars, publisherVars, notificationVars
<1> QED BY <1>1, <1>2, <1>3 DEF WakeNext

\* failure is never taken back.
LEMMA FailureStays == [WakeNext]_wakeVars /\ failure => failure'
BY DEF WakeNext, HostStep, SignalStep, PublishWork, Notify, StoreHint, Signal, CheckFailure, SetEvent,
       SetEventFails, SignalFailed, Expire, ParkEnds, ResetEvent, SkipCycle, ResetEventFails,
       Acknowledge, Drain, Drained, TakeHint, clear_pending, EndTurn, CheckState, CheckError,
       Park, Awake, OwnerGoes, wakeVars

LEMMA CoveredByPublisher ==
  ASSUME WakeTypeOK, RefusedMeansFailure, Covered, ~failure, ~failure',
         NEW p \in Publisher, PublishWork(p) \/ SignalStep(p)
  PROVE  Covered'
<1> USE DEF WakeTypeOK, Moves, hostVars, notificationVars, Unseen
<1> USE DEF Covered, DirectCovered, NotifiedCovered, NotificationCovered, PendingCovered
<1>1. CASE PublishWork(p)
  <2>1. \A q \in Publisher : q # p => signaller'[q] = signaller[q] /\ (Unseen(q)' <=> Unseen(q))
    BY <1>1 DEF PublishWork
  <2>2. signaller[p] = "idle" /\ signaller'[p] = IF p \in Direct THEN "signal" ELSE "notify"
    BY <1>1 DEF PublishWork
  <2>3. DirectCovered' /\ NotifiedCovered'
    BY <1>1, <2>1, <2>2, WakeAssumption DEF PublishWork, Publisher
  <2>4. NotificationCovered' /\ PendingCovered'
    BY <1>1, <2>1, <2>2 DEF PublishWork, Publisher
  <2> QED BY <2>3, <2>4
<1>2. CASE Notify(p)
  <2>1. \A q \in Publisher : q # p => signaller'[q] = signaller[q]
    BY <1>2 DEF Notify
  <2>2. /\ signaller[p] = "notify" /\ notification' = TRUE /\ ~refused
        /\ signaller'[p] = IF notification THEN "idle" ELSE "hint"
    BY <1>2 DEF Notify, RefusedMeansFailure
  <2>3. DirectCovered' /\ NotifiedCovered' /\ PendingCovered'
    BY <1>2, <2>1, <2>2 DEF Notify, Publisher
  <2>4. NotificationCovered'
    BY <1>2, <2>1, <2>2 DEF Notify, Publisher
  <2> QED BY <2>3, <2>4
<1>3. CASE StoreHint(p)
  BY <1>3 DEF StoreHint, Publisher
<1>4. CASE Signal(p)
  BY <1>4 DEF Signal, Publisher
<1>5. CASE CheckFailure(p)
  BY <1>5 DEF CheckFailure, Publisher
<1>6. CASE SetEvent(p)
  BY <1>6 DEF SetEvent, Publisher
<1>7. CASE SetEventFails(p) \/ SignalFailed(p)
  BY <1>7 DEF SetEventFails, SignalFailed, Publisher, RefusedMeansFailure
<1> QED BY <1>1, <1>2, <1>3, <1>4, <1>5, <1>6, <1>7 DEF SignalStep

LEMMA CoveredByHost ==
  ASSUME WakeTypeOK, TurnProgress, Covered, ~failure, ~failure', HostStep \/ Expire \/ ParkEnds
  PROVE  Covered'
<1> USE DEF publisherVars, notificationVars, Unseen
<1> USE DEF Covered, DirectCovered, NotifiedCovered, NotificationCovered, PendingCovered
<1>1. CASE ResetEvent \/ SkipCycle \/ ResetEventFails
  BY <1>1 DEF ResetEvent, SkipCycle, ResetEventFails, BeginTurn, Then, Publisher
<1>2. CASE Acknowledge
  BY <1>2 DEF Acknowledge, Then, TurnProgress, Publisher
<1>3. ASSUME NEW p \in Publisher, Drain(p) PROVE Covered'
  <2>1. \A q \in Publisher : q # p => (Unseen(q)' <=> Unseen(q))
    BY <1>3 DEF Drain, WakeTypeOK
  <2>2. \A q \in Publisher : q # p => (q \in remaining' <=> q \in remaining)
    BY <1>3 DEF Drain
  <2>3. Unseen(p)' => turn_pending'
    <3>1. seen'[p] = ReadUpTo(p) /\ posted' = posted
      BY <1>3 DEF Drain, WakeTypeOK
    <3>2. Unseen(p)' => UnfinishedDrain(p)
      BY <3>1, WakeAssumption DEF WakeTypeOK, ReadUpTo, ReadNow, UnfinishedDrain
    <3>3. UnfinishedDrain(p) => turn_pending'
      BY <1>3 DEF Drain
    <3> QED BY <3>2, <3>3
  <2>4. turn_pending => turn_pending'
    BY <1>3 DEF Drain
  <2>5. DirectCovered' /\ NotifiedCovered'
    BY <1>3, <2>1, <2>2, <2>3, <2>4 DEF Drain, Publisher
  <2>6. NotificationCovered' /\ PendingCovered'
    BY <1>3 DEF Drain
  <2> QED BY <2>5, <2>6
<1>4. CASE Drained
  BY <1>4 DEF Drained, Then
<1>5. CASE TakeHint
  BY <1>5 DEF TakeHint, Then
<1>6. CASE clear_pending
  BY <1>6 DEF clear_pending, Then, TurnProgress
<1>7. CASE EndTurn
  BY <1>7 DEF EndTurn, OwnerGoes
<1>8. CASE CheckState \/ CheckError
  BY <1>8 DEF CheckState, CheckError, OwnerGoes
<1>9. CASE Expire \/ Park \/ Awake \/ ParkEnds
  BY <1>9 DEF Expire, Park, Awake, ParkEnds, OwnerGoes
<1> QED BY <1>1, <1>2, <1>3, <1>4, <1>5, <1>6, <1>7, <1>8, <1>9 DEF HostStep

LEMMA InvariantNext == WakeInv /\ [WakeNext]_wakeVars => WakeInv'
<1> SUFFICES ASSUME WakeInv, [WakeNext]_wakeVars PROVE WakeInv'
  OBVIOUS
<1>1. WakeTypeOK' /\ TurnProgress' /\ RefusedMeansFailure'
  BY TypeNext, TurnProgressNext, RefusedNext DEF WakeInv
<1>2. ASSUME ~failure' PROVE Covered'
  <2>1. ~failure /\ Covered
    BY <1>2, FailureStays DEF WakeInv
  <2>2. ASSUME NEW p \in Publisher, PublishWork(p) \/ SignalStep(p) PROVE Covered'
    BY <1>2, <2>1, <2>2, CoveredByPublisher DEF WakeInv
  <2>3. CASE HostStep \/ Expire \/ ParkEnds
    BY <1>2, <2>1, <2>3, CoveredByHost DEF WakeInv
  <2>4. CASE UNCHANGED wakeVars
    BY <2>1, <2>4 DEF wakeVars, hostVars, publisherVars, notificationVars, Covered, DirectCovered,
          NotifiedCovered, NotificationCovered, PendingCovered, Unseen
  <2> QED BY <2>2, <2>3, <2>4 DEF WakeNext
<1> QED BY <1>1, <1>2 DEF WakeInv

LEMMA InvariantImpliesNoLostWake == WakeInv => NoLostWake
<1> SUFFICES ASSUME WakeInv, owner = "parked", ~event, ~failure,
                    NEW p \in Publisher, Unseen(p)
             PROVE  \E q \in Publisher : Waking(q)
  BY DEF NoLostWake
<1>1. remaining = {} /\ ~turn_pending /\ Covered
  BY DEF WakeInv, TurnProgress
<1>2. CASE pending
  BY <1>1, <1>2 DEF Covered, PendingCovered, Waking
<1>3. CASE ~pending /\ p \in Direct
  BY <1>1, <1>3 DEF Covered, DirectCovered, Waking
<1>4. CASE ~pending /\ p \in Notified
  BY <1>1, <1>4 DEF Covered, NotifiedCovered, NotificationCovered, Waking, Publisher
<1> QED BY <1>2, <1>3, <1>4 DEF Publisher

\* However many publishers there are and however their signals are coalesced,
\* the Host is never parked on unread work with nobody on the way to wake it
\* (COwnerWait::signal, begin_cycle and wait, CNotification::signal, CHost::run).
THEOREM HostIsWoken == WakeSpec => []NoLostWake
<1>1. WakeInit => WakeInv
  BY InvariantInit
<1>2. WakeInv /\ [WakeNext]_wakeVars => WakeInv'
  BY InvariantNext
<1>3. WakeInv => NoLostWake
  BY InvariantImpliesNoLostWake
<1> QED BY <1>1, <1>2, <1>3, PTL DEF WakeSpec

=============================================================================
