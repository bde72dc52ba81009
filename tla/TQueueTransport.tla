--------------------------- MODULE TQueueTransport ---------------------------
(***************************************************************************)
(* threading::transports::TQueue<T>, the triple-buffered single-producer   *)
(* single-consumer queue.  One step of the model is one access to the      *)
(* atomic staging word together with the work its thread does on state     *)
(* it owns; the other thread may run between any two of them.              *)
(*                                                                         *)
(* The staging word keeps the code's encoding: 0 is "consumed", 4 is the   *)
(* initial value, and buffer i published in phase p (0 or 1 for the code's *)
(* bool) is i + 1 + 4p.  A buffer's data is the run of items below its     *)
(* size; its allocation is its capacity.                                   *)
(***************************************************************************)
EXTENDS Integers, Sequences

CONSTANTS Payload,          \* the elements that are posted
          Postings,         \* the element sequences one post() may carry
          MinCapacity,      \* k_min_capacity
          TransportMax,     \* min(k_max_capacity, k_token_max_capacity)
          GrowthPolicy(_)   \* growth_policy()

\* vector_growth_policy() clamps its result to the two capacity limits and
\* recommends at least what is required whenever the maximum allows it.
ASSUME CapacityAssumption ==
  /\ MinCapacity \in Nat \ {0}
  /\ TransportMax \in Nat
  /\ MinCapacity <= TransportMax
  /\ \A n \in 0..(2 * TransportMax) :
        /\ GrowthPolicy(n) \in MinCapacity..TransportMax
        /\ n <= TransportMax => GrowthPolicy(n) >= n

ASSUME PostingsAssumption ==
  \A s \in Postings : s \in Seq(Payload) /\ Len(s) \in 1..TransportMax

VARIABLES
  \* configuration and poisoning
  allow_discard, capacity, max_capacity, allocation_failed,
  \* the three buffers: their contents and their allocations
  data, buffer_capacity,
  \* producer state
  posting_phase, output, staged, locked,
  \* consumer state
  reading_phase, reading, read_index,
  \* the atomic staging word
  staged_word,
  \* where the producer is inside post(), and its arguments and locals
  ppc, src, discard,
  \* where the consumer is inside read() or refresh_readable_count(), its
  \* argument (0 for a refresh) and what the last call returned
  cpc, want, dst

configVars   == <<allow_discard, capacity, max_capacity, allocation_failed>>
bufferVars   == <<data, buffer_capacity>>
roleVars     == <<posting_phase, output, staged, locked>>
readerVars   == <<reading_phase, reading, read_index>>
producerVars == <<ppc, src, discard>>
consumerVars == <<cpc, want, dst>>
vars == <<configVars, bufferVars, roleVars, readerVars, staged_word,
          producerVars, consumerVars>>

Buffers    == 0..2
NullBuffer == 3
DefaultWord == 4

Smaller(a, b) == IF a <= b THEN a ELSE b
Larger(a, b)  == IF a >= b THEN a ELSE b

Word(i, phase) == i + 1 + 4 * phase
WordId(w)      == w % 4
WordPhase(w)   == w \div 4
Flip(phase)    == 1 - phase

Size(i) == Len(data[i])

(* ---------------------------- setup and teardown ----------------------- *)

CanonicalEmpty ==
  /\ allow_discard = FALSE
  /\ capacity = 0
  /\ max_capacity = 0
  /\ allocation_failed = FALSE
  /\ data = [i \in Buffers |-> << >>]
  /\ buffer_capacity = [i \in Buffers |-> 0]
  /\ posting_phase = 0
  /\ output = 0
  /\ staged = 1
  /\ locked = 2
  /\ reading_phase = 0
  /\ reading = NullBuffer
  /\ read_index = 0
  /\ staged_word = DefaultWord

Init == /\ CanonicalEmpty
        /\ ppc = "idle"
        /\ src = << >>
        /\ discard = FALSE
        /\ cpc = "idle"
        /\ want = 0
        /\ dst = << >>

\* Setup and teardown are the owner's and must not race either role.
Quiescent == ppc = "idle" /\ cpc = "idle"

IsPow2(c) == \E k \in 0..c : 2^k = c

ConditionedCapacity(c) ==
  Larger(Smaller(IF IsPow2(c) THEN c ELSE GrowthPolicy(c), TransportMax), MinCapacity)

\* The roles, phases and word that both initialise_*() and deallocate() set.
RestoreRoles ==
  /\ posting_phase' = 0
  /\ output' = 0
  /\ staged' = 1
  /\ locked' = 2
  /\ reading_phase' = 0
  /\ reading' = NullBuffer
  /\ read_index' = 0
  /\ staged_word' = DefaultWord

Allocate(c, limit, may_discard) ==
  /\ allow_discard' = may_discard
  /\ capacity' = c
  /\ max_capacity' = limit
  /\ data' = [i \in Buffers |-> << >>]
  /\ buffer_capacity' = [i \in Buffers |-> c]
  /\ RestoreRoles
  /\ UNCHANGED <<allocation_failed, producerVars, consumerVars>>

deallocate ==
  /\ Quiescent
  /\ allow_discard' = FALSE
  /\ capacity' = 0
  /\ max_capacity' = 0
  /\ allocation_failed' = FALSE
  /\ data' = [i \in Buffers |-> << >>]
  /\ buffer_capacity' = [i \in Buffers |-> 0]
  /\ RestoreRoles
  /\ UNCHANGED <<producerVars, consumerVars>>

\* A failed allocation ends in deallocate(), which leaves the instance as it
\* was: canonical empty.  Only success changes state.
initialise_fixed(c, may_discard) ==
  /\ Quiescent
  /\ max_capacity = 0
  /\ Allocate(ConditionedCapacity(c), ConditionedCapacity(c), may_discard)

\* limit = 0 asks for growth up to the transport's own maximum.
initialise_growable(c, limit) ==
  /\ Quiescent
  /\ max_capacity = 0
  /\ c <= limit \/ limit = 0
  /\ LET conditioned == ConditionedCapacity(c) IN
     Allocate(conditioned,
              IF limit = 0 THEN TransportMax
              ELSE IF limit = c THEN conditioned
              ELSE Larger(limit, conditioned),
              FALSE)

(* -------------------------------- producer ----------------------------- *)

posting_is_ready == ~allocation_failed /\ max_capacity # 0

\* growth_and_discard_policy(): whether the posting is accepted, at which
\* capacity, and whether the pending backlog is abandoned for it.
UncappedGrowth(n) == Larger(GrowthPolicy(n), capacity)  \* fault: forgets the maximum

GrownCapacity(n) ==
  Smaller(Larger(GrowthPolicy(n), capacity), max_capacity)

growth_and_discard_policy(count, size) ==
  IF count <= capacity - size
    THEN [accept |-> TRUE, target |-> capacity, discard |-> FALSE]
  ELSE IF count <= GrownCapacity(size + count) - size
    THEN [accept |-> TRUE, target |-> GrownCapacity(size + count), discard |-> FALSE]
  ELSE [accept |-> allow_discard,
        target |-> IF allow_discard /\ count > capacity
                     THEN GrownCapacity(count) ELSE capacity,
        discard |-> allow_discard]

\* The first use of the staging word in post(): when the posting does not fit
\* and the publication was consumed, the old backlog is forgotten.
UncheckedReset(count) ==    \* fault: forgets a backlog that is still pending
  IF count > capacity - Size(output) THEN << >> ELSE data[output]

EffectiveOutput(count) ==
  IF count > capacity - Size(output) /\ staged_word = 0
    THEN << >> ELSE data[output]

\* post() from its entry to just before the exchange.  Everything it writes is
\* the producer's own; a refused posting changes nothing.
Prepare(s, kept, policy) ==
  /\ policy.accept
  /\ capacity' = policy.target
  /\ buffer_capacity' = [buffer_capacity EXCEPT ![output] = policy.target]
  /\ data' = [data EXCEPT ![output] = (IF policy.discard THEN << >> ELSE kept) \o s]
  /\ discard' = policy.discard
  /\ src' = s
  /\ ppc' = "publish"
  /\ UNCHANGED allocation_failed

\* The output buffer must be reallocated and the allocator refuses.
PrepareFails(kept, policy) ==
  /\ policy.accept
  /\ buffer_capacity[output] # policy.target
  /\ capacity' = policy.target
  /\ allocation_failed' = TRUE
  /\ data' = [data EXCEPT ![output] = kept]
  /\ UNCHANGED <<buffer_capacity, producerVars>>

post(s) ==
  /\ ppc = "idle"
  /\ posting_is_ready
  /\ Len(s) \in 1..max_capacity
  /\ LET kept   == EffectiveOutput(Len(s))
         policy == growth_and_discard_policy(Len(s), Len(kept))
     IN Prepare(s, kept, policy) \/ PrepareFails(kept, policy)
  /\ UNCHANGED <<allow_discard, max_capacity, roleVars, readerVars, staged_word,
                 consumerVars>>

\* The exchange found the earlier publication still pending.
PublishPending ==
  /\ ppc = "publish"
  /\ staged_word # 0
  /\ staged_word' = Word(output, posting_phase)
  /\ ppc' = "extend"
  /\ UNCHANGED <<configVars, bufferVars, roleVars, readerVars, src, discard,
                 consumerVars>>

\* The exchange found it consumed: the publication just made is obsolete.
PublishConsumed ==
  /\ ppc = "publish"
  /\ staged_word = 0
  /\ staged_word' = Word(output, posting_phase)
  /\ posting_phase' = Flip(posting_phase)
  /\ ppc' = "rebase"
  /\ UNCHANGED <<configVars, bufferVars, output, staged, locked, readerVars,
                 src, discard, consumerVars>>

\* The end of post(): a failed reallocation poisons the producer.
EndPost == /\ ppc' = "idle"
           /\ src' = << >>
           /\ discard' = FALSE

Poison(i) ==
  /\ buffer_capacity[i] # capacity
  /\ allocation_failed' = TRUE
  /\ EndPost
  /\ UNCHANGED <<allow_discard, capacity, max_capacity, bufferVars, roleVars,
                 readerVars, staged_word, consumerVars>>

\* Both producer-side buffers start again from this posting ...
Rebase ==
  /\ ppc = "rebase"
  /\ buffer_capacity' = [buffer_capacity EXCEPT ![locked] = capacity]
  /\ data' = [data EXCEPT ![output] = src, ![locked] = src]
  /\ ppc' = "republish"
  /\ UNCHANGED <<configVars, roleVars, readerVars, staged_word, src, discard,
                 consumerVars>>

RebaseFails == ppc = "rebase" /\ Poison(locked)

\* ... and the locked one is published in the new phase.
Republish ==
  /\ ppc = "republish"
  /\ staged_word' = Word(locked, posting_phase)
  /\ locked' = staged
  /\ staged' = locked
  /\ EndPost
  /\ UNCHANGED <<configVars, bufferVars, posting_phase, output, readerVars,
                 consumerVars>>

UndiscardedStaged == data[staged]   \* fault: discards the output buffer only

StagedKept == IF discard THEN << >> ELSE data[staged]

\* The posting is added to the other producer-side buffer too, and the two
\* swap roles.
Extend ==
  /\ ppc = "extend"
  /\ buffer_capacity' = [buffer_capacity EXCEPT ![staged] = capacity]
  /\ data' = [data EXCEPT ![staged] = StagedKept \o src]
  /\ output' = staged
  /\ staged' = output
  /\ EndPost
  /\ UNCHANGED <<configVars, posting_phase, locked, readerVars, staged_word,
                 consumerVars>>

ExtendFails == ppc = "extend" /\ Poison(staged)

(* -------------------------------- consumer ----------------------------- *)

current_readable_count ==
  IF reading # NullBuffer /\ Size(reading) >= read_index
    THEN Size(reading) - read_index ELSE 0

\* read(count), or refresh_readable_count() with count = 0, up to the point
\* where it changes state: a read of what is held goes on to the copy, and
\* with nothing held the word is looked at first.
read(count) ==
  /\ cpc = "idle"
  /\ max_capacity # 0
  /\ count <= max_capacity
  /\ want' = count
  /\ \/ /\ reading # NullBuffer
        /\ count \in 1..current_readable_count
        /\ cpc' = "copy"
     \/ /\ reading = NullBuffer
        /\ WordId(staged_word) # 0
        /\ cpc' = "exchange"
  /\ dst' = << >>
  /\ UNCHANGED <<configVars, bufferVars, roleVars, readerVars, staged_word,
                 producerVars>>

\* The exchange with 0; a publication of the wrong phase is dropped with it.
AnyPhase(w) == WordId(w) # 0    \* fault: accepts whatever phase was published

Acceptable(w) == WordId(w) # 0 /\ WordPhase(w) = reading_phase

AcceptPublication ==
  /\ cpc = "exchange"
  /\ Acceptable(staged_word)
  /\ reading_phase' = Flip(WordPhase(staged_word))
  /\ reading' = WordId(staged_word) - 1
  /\ read_index' = 0
  /\ staged_word' = 0
  /\ LET readable == Size(WordId(staged_word) - 1) IN
       IF want \in 1..readable
         THEN cpc' = "copy"  /\ UNCHANGED want
         ELSE cpc' = "idle" /\ want' = 0
  /\ UNCHANGED <<configVars, bufferVars, roleVars, producerVars, dst>>

DropPublication ==
  /\ cpc = "exchange"
  /\ ~Acceptable(staged_word)
  /\ staged_word' = 0
  /\ cpc' = "idle"
  /\ want' = 0
  /\ UNCHANGED <<configVars, bufferVars, roleVars, readerVars, producerVars, dst>>

\* The copy to the caller, and the release of an exhausted buffer.
Copy ==
  /\ cpc = "copy"
  /\ dst' = SubSeq(data[reading], read_index + 1, read_index + want)
  /\ IF read_index + want = Size(reading)
       THEN reading' = NullBuffer /\ read_index' = 0
       ELSE read_index' = read_index + want /\ UNCHANGED reading
  /\ cpc' = "idle"
  /\ want' = 0
  /\ UNCHANGED <<configVars, bufferVars, roleVars, reading_phase, staged_word,
                 producerVars>>

(* ----------------------------------------------------------------------- *)

Owner == \/ deallocate
         \/ \E c \in 0..TransportMax :
              \/ \E d \in BOOLEAN : initialise_fixed(c, d)
              \/ \E m \in 0..TransportMax : initialise_growable(c, m)

Producer == \/ \E s \in Postings : post(s)
            \/ PublishPending \/ PublishConsumed
            \/ Rebase \/ RebaseFails \/ Republish
            \/ Extend \/ ExtendFails

Consumer == \/ \E n \in 0..TransportMax : read(n)
            \/ AcceptPublication \/ DropPublication \/ Copy

Next == Owner \/ Producer \/ Consumer

Spec == Init /\ [][Next]_vars

(* ------------------------------- properties ---------------------------- *)

FlagTypes ==
  /\ allow_discard \in BOOLEAN
  /\ allocation_failed \in BOOLEAN
  /\ discard \in BOOLEAN

CapacityTypes ==
  /\ max_capacity \in 0..TransportMax
  /\ capacity \in 0..max_capacity
  /\ buffer_capacity \in [Buffers -> 0..capacity]
  /\ data \in [Buffers -> Seq(Payload)]
  /\ \A i \in Buffers : Size(i) <= buffer_capacity[i]

RoleTypes ==
  /\ posting_phase \in {0, 1}
  /\ output \in Buffers
  /\ staged \in Buffers
  /\ locked \in Buffers
  /\ reading_phase \in {0, 1}
  /\ reading \in Buffers \cup {NullBuffer}
  /\ read_index \in Nat
  /\ staged_word \in 0..7

CallTypes ==
  /\ ppc \in {"idle", "publish", "rebase", "republish", "extend"}
  /\ src \in Seq(Payload)
  /\ cpc \in {"idle", "exchange", "copy"}
  /\ want \in Nat
  /\ dst \in Seq(Payload)

\* Every variable holds a value of its C++ type, and a buffer never holds more
\* than its own allocation, nor an allocation more than the current capacity:
\* the memcpy()s of post() stay inside the storage they were given.
TypeOK == FlagTypes /\ CapacityTypes /\ RoleTypes /\ CallTypes

\* The buffers whose contents or allocation the producer may still change
\* before its next access to the staging word; a poisoned producer writes none.
ProducerMayWrite ==
  CASE allocation_failed               -> {}
    [] ~allocation_failed /\ ppc \in {"idle", "publish"} -> {output}
    [] ppc \in {"rebase", "republish"} -> {output, locked}
    [] ppc = "extend"                  -> {staged}

\* post() never writes, reallocates or resizes the buffer the consumer is
\* reading, although the two share no lock: a violation is a data race on the
\* element storage.
ConsumerBufferIsStable == reading # NullBuffer => reading \notin ProducerMayWrite

\* The two producer-side buffers hold the same run of items between posts, and
\* inside post() differ by exactly the posting, so whichever of them the consumer
\* is offered next carries the whole backlog.
MirroredBacklog ==
  ~allocation_failed =>
    /\ ppc = "idle" /\ staged_word # 0    => data[output] = data[staged]
    /\ ppc = "publish" /\ staged_word # 0 => data[output] = StagedKept \o src
    /\ ppc = "extend"                     => data[output] = StagedKept \o src
    /\ ppc = "republish"                  => data[output] = src /\ data[locked] = src
    /\ staged_word = DefaultWord          => data[staged] = << >>

\* A backlog is only ever discarded when it and the posting together exceed
\* the maximum, and only if that was asked for.
DiscardOnlyWhenFull ==
  ~allocation_failed /\ ppc = "publish" /\ staged_word # 0 /\ discard =>
    allow_discard /\ Len(data[staged]) + Len(src) > max_capacity

\* How the word, the two phases and the consumer's buffer go together at each
\* place of a healthy producer.
Untouched == /\ staged_word = DefaultWord
             /\ reading_phase = posting_phase
             /\ reading = NullBuffer

Pending(published) == /\ staged_word = Word(published, posting_phase)
                      /\ reading_phase = posting_phase
                      /\ reading \in {NullBuffer, locked}

Consumed(published) == /\ staged_word = 0
                       /\ reading_phase = Flip(posting_phase)
                       /\ reading \in {NullBuffer, published}

Obsolete == /\ staged_word \in {0, Word(output, Flip(posting_phase))}
            /\ reading_phase = posting_phase
            /\ reading \in {NullBuffer, staged}

Handoff ==
  ~allocation_failed =>
    /\ ppc \in {"idle", "publish"}     => Untouched \/ Pending(staged) \/ Consumed(staged)
    /\ ppc = "extend"                  => Pending(output) \/ Consumed(output)
    /\ ppc \in {"rebase", "republish"} => Obsolete

\* The three roles are three buffers, a posting in progress fits the capacity
\* its buffers are brought to, and a failed producer is outside post().
ProducerLocals ==
  /\ output # staged /\ output # locked /\ staged # locked
  /\ ppc # "idle" => /\ src \in Postings
                     /\ Len(src) <= capacity
                     /\ buffer_capacity[output] = capacity
  /\ allocation_failed => ppc = "idle"

\* read() copies only from below the size of a buffer it holds, and exchanges
\* only when it holds none and saw a publication.
ConsumerLocals ==
  /\ reading # NullBuffer => read_index <= Size(reading)
  /\ cpc = "exchange" => reading = NullBuffer /\ WordId(staged_word) # 0
  /\ cpc = "copy" => /\ reading # NullBuffer
                     /\ want >= 1
                     /\ read_index + want <= Size(reading)

\* A queue that is not set up has published nothing.
EmptyWhenDown ==
  max_capacity = 0 => staged_word = DefaultWord /\ reading = NullBuffer

\* The inductive invariant.
IInv == /\ TypeOK
        /\ MirroredBacklog
        /\ DiscardOnlyWhenFull
        /\ Handoff
        /\ ProducerLocals
        /\ ConsumerLocals
        /\ EmptyWhenDown

\* What the consumer can still obtain, in order: the rest of the buffer it
\* holds, then the publication it would accept.
HeldItems == IF reading = NullBuffer THEN << >>
             ELSE SubSeq(data[reading], read_index + 1, Size(reading))
Backlog == IF Acceptable(staged_word) THEN data[WordId(staged_word) - 1] ELSE << >>

Fifo == INSTANCE SpscQueue WITH limit <- max_capacity, droppable <- allow_discard,
                                backlog <- Backlog, held <- HeldItems

\* The buffer, phase and word protocol of post() and read() is a FIFO queue:
\* nothing accepted is lost, repeated or reordered, a posting is visible whole
\* or not at all, and only a discarding queue that is full drops its backlog.
ImplementsFifo == Fifo!Spec

==============================================================================
