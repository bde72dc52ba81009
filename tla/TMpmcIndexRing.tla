---------------------------- MODULE TMpmcIndexRing ----------------------------
(***************************************************************************)
(* TMpmcIndexRing: the lock-free bounded ring of arena indices that any    *)
(* number of threads push to and pop from.  A position is a counter of     *)
(* Width bits (32 in the code) and so is a slot's sequence number; a slot  *)
(* is ready to be written at position p when its sequence is p, and ready  *)
(* to be read when it is p + 1.                                            *)
(*                                                                         *)
(* One step is one atomic access, or the plain access to the payload that  *)
(* a claimed slot is for.  compare_exchange_weak may fail spuriously: it   *)
(* then reloads the position it already has and the loop runs again.       *)
(***************************************************************************)
EXTENDS Integers, Sequences

CONSTANTS Thread, Value,
          Capacity,     \* k_capacity
          Width,        \* the bits of a position
          Nothing       \* no value

\* The capacity is a power of two, no less than sixteen, and so is the number of
\* positions; the ring relies on a capacity of at least two, which divides it.
\* A ring of one slot would not work: the sequence that a release leaves for
\* the next push would be the one that a pop looks for.
ASSUME RingAssumption ==
  /\ Width \in Nat /\ 2^Width \in Nat
  /\ Capacity \in Nat \ {0, 1}
  /\ \E laps \in 4..2^Width : 2^Width = laps * Capacity
  /\ 0..(Capacity - 1) \subseteq Value /\ Nothing \notin Value

VARIABLES sequence, payload,                    \* the slots
          enqueue_position, dequeue_position,
          pc,           \* each thread's place in push() or pop()
          op, arg,      \* the operation it is in and push()'s payload
          position,     \* the position it loaded
          result        \* what its pop() returns

slotVars == <<sequence, payload>>
positionVars == <<enqueue_position, dequeue_position>>
threadVars == <<pc, op, arg, position, result>>
vars == <<slotVars, positionVars, threadVars>>

Modulus == 2^Width
Slots   == 0..(Capacity - 1)
Words   == 0..(Modulus - 1)

Wrap(n)      == n % Modulus
SlotOf(p)    == p % Capacity
Signed(w)    == IF w < Modulus \div 2 THEN w ELSE w - Modulus
\* static_cast<std::int32_t>(a - b) on unsigned a and b
Difference(a, b) == Signed(Wrap(a - b))

Started(full) ==
  /\ payload = [i \in Slots |-> i]
  /\ sequence = [i \in Slots |-> IF full THEN i + 1 ELSE i]
  /\ enqueue_position = IF full THEN Capacity ELSE 0
  /\ dequeue_position = 0

Init == /\ \E full \in BOOLEAN : Started(full)
        /\ pc = [t \in Thread |-> "idle"]
        /\ op = [t \in Thread |-> "none"]
        /\ arg = [t \in Thread |-> Nothing]
        /\ position = [t \in Thread |-> 0]
        /\ result = [t \in Thread |-> Nothing]

Go(t, where) == pc' = [pc EXCEPT ![t] = where]

Counter(t) == IF op[t] = "push" THEN enqueue_position ELSE dequeue_position

\* push() wants the slot's sequence to be its position, pop() one past it.
UnreadAhead(t) ==       \* fault: pop() takes a slot that is ready to be written
  Difference(sequence[SlotOf(position[t])], position[t])

Ahead(t) == Difference(sequence[SlotOf(position[t])],
                       IF op[t] = "push" THEN position[t] ELSE Wrap(position[t] + 1))

(* -------------------------------- the calls ---------------------------- *)

\* push() and pop() both begin by loading their counter.
push(t, v) ==
  /\ pc[t] = "idle"
  /\ op' = [op EXCEPT ![t] = "push"]
  /\ arg' = [arg EXCEPT ![t] = v]
  /\ position' = [position EXCEPT ![t] = enqueue_position]
  /\ Go(t, "look")
  /\ UNCHANGED <<slotVars, positionVars, result>>

pop(t) ==
  /\ pc[t] = "idle"
  /\ op' = [op EXCEPT ![t] = "pop"]
  /\ position' = [position EXCEPT ![t] = dequeue_position]
  /\ Go(t, "look")
  /\ UNCHANGED <<slotVars, positionVars, arg, result>>

\* The call returns and its locals go; a popped value is the caller's now.
Forget(t) == /\ op' = [op EXCEPT ![t] = "none"]
             /\ arg' = [arg EXCEPT ![t] = Nothing]
             /\ position' = [position EXCEPT ![t] = 0]
             /\ result' = [result EXCEPT ![t] = Nothing]
             /\ Go(t, "idle")

\* The load of the slot's sequence.  A slot that lags means that the ring is
\* full (empty): the call returns false.
LookRefused(t) ==
  /\ pc[t] = "look"
  /\ Ahead(t) < 0
  /\ Forget(t)
  /\ UNCHANGED <<slotVars, positionVars>>

\* One that leads means that the position is stale; otherwise the slot is ready.
LookDecided(t) ==
  /\ pc[t] = "look"
  /\ Ahead(t) >= 0
  /\ Go(t, IF Ahead(t) > 0 THEN "reload" ELSE "swap")
  /\ UNCHANGED <<slotVars, positionVars, op, arg, position, result>>

\* The reload of a stale position, or a compare_exchange that fails and brings
\* back the counter's present value.
Retry(t) ==
  /\ pc[t] \in {"reload", "swap"}
  /\ position' = [position EXCEPT ![t] = Counter(t)]
  /\ Go(t, "look")
  /\ UNCHANGED <<slotVars, positionVars, op, arg, result>>

\* How far a stalled thread's position may fall behind its counter.  The code
\* relies on no thread sleeping through half the range of a position (2^31
\* operations) between its load and its compare_exchange.
StallBound == Modulus \div 2 - Capacity

NobodyOversleeps(t) ==
  \A u \in Thread \ {t} : op[u] = op[t] /\ pc[u] \in {"look", "swap"} =>
                            Wrap(position[t] + 1 - position[u]) <= StallBound

BlindClaim(t) ==        \* fault: stores the new position without comparing
  /\ pc[t] = "swap"
  /\ NobodyOversleeps(t)
  /\ IF op[t] = "push"
       THEN /\ enqueue_position' = Wrap(position[t] + 1)
            /\ UNCHANGED dequeue_position
       ELSE /\ dequeue_position' = Wrap(position[t] + 1)
            /\ UNCHANGED enqueue_position
  /\ Go(t, "claimed")
  /\ UNCHANGED <<slotVars, op, arg, position, result>>

\* The compare_exchange succeeds: the slot is claimed.
Claim(t) ==
  /\ pc[t] = "swap"
  /\ Counter(t) = position[t]
  /\ NobodyOversleeps(t)
  /\ IF op[t] = "push"
       THEN /\ enqueue_position' = Wrap(position[t] + 1)
            /\ UNCHANGED dequeue_position
       ELSE /\ dequeue_position' = Wrap(position[t] + 1)
            /\ UNCHANGED enqueue_position
  /\ Go(t, "claimed")
  /\ UNCHANGED <<slotVars, op, arg, position, result>>

\* The plain access to the payload.
StrayAccess(t) ==       \* fault: uses the slot of the counter, not of the claim
  /\ pc[t] = "claimed"
  /\ IF op[t] = "push"
       THEN /\ payload' = [payload EXCEPT ![SlotOf(Counter(t))] = arg[t]]
            /\ UNCHANGED result
       ELSE /\ result' = [result EXCEPT ![t] = payload[SlotOf(Counter(t))]]
            /\ UNCHANGED payload
  /\ Go(t, "accessed")
  /\ UNCHANGED <<sequence, positionVars, op, arg, position>>

Access(t) ==
  /\ pc[t] = "claimed"
  /\ IF op[t] = "push"
       THEN /\ payload' = [payload EXCEPT ![SlotOf(position[t])] = arg[t]]
            /\ UNCHANGED result
       ELSE /\ result' = [result EXCEPT ![t] = payload[SlotOf(position[t])]]
            /\ UNCHANGED payload
  /\ Go(t, "accessed")
  /\ UNCHANGED <<sequence, positionVars, op, arg, position>>

\* The release store that hands the slot to the other side.
ReleasedSequence(t) ==
  IF op[t] = "push" THEN Wrap(position[t] + 1) ELSE Wrap(position[t] + Capacity)

Release(t) ==
  /\ pc[t] = "accessed"
  /\ sequence' = [sequence EXCEPT ![SlotOf(position[t])] = ReleasedSequence(t)]
  /\ Forget(t)
  /\ UNCHANGED <<payload, positionVars>>

Next == \E t \in Thread :
          \/ \E v \in Value : push(t, v)
          \/ pop(t)
          \/ LookRefused(t) \/ LookDecided(t) \/ Retry(t)
          \/ Claim(t) \/ Access(t) \/ Release(t)

Spec == Init /\ [][Next]_vars

(* ------------------------------- properties ---------------------------- *)

\* Every counter stays in its width and every thread at a place of its code.
TypeOK ==
  /\ sequence \in [Slots -> Words]
  /\ payload \in [Slots -> Value]
  /\ enqueue_position \in Words
  /\ dequeue_position \in Words
  /\ pc \in [Thread -> {"idle", "look", "reload", "swap", "claimed", "accessed"}]
  /\ op \in [Thread -> {"none", "push", "pop"}]
  /\ arg \in [Thread -> Value \cup {Nothing}]
  /\ position \in [Thread -> Words]
  /\ result \in [Thread -> Value \cup {Nothing}]

InSlot(t, i) == pc[t] \in {"claimed", "accessed"} /\ SlotOf(position[t]) = i

\* push() and pop() touch a slot's plain payload without a lock: no two
\* threads are ever inside the same slot, even across the wrap of the counters.
SlotExclusive ==
  \A t, u \in Thread, i \in Slots : InSlot(t, i) /\ InSlot(u, i) => t = u

Occupied == Wrap(enqueue_position - dequeue_position)

\* is_valid(): the two counters are never further apart than the capacity.
CountersInRange == Occupied <= Capacity

\* The value at ring position p: in its slot, or still in the hands of the
\* thread that claimed the position and has not written it yet.
ValueAt(p) ==
  IF \E t \in Thread : pc[t] = "claimed" /\ op[t] = "push" /\ position[t] = p
    THEN arg[CHOOSE t \in Thread :
               pc[t] = "claimed" /\ op[t] = "push" /\ position[t] = p]
    ELSE payload[SlotOf(p)]

Queue == [i \in 1..Occupied |-> ValueAt(Wrap(dequeue_position + i - 1))]

\* What a pop() will return is fixed when it claims its position.
Popped == [t \in Thread |-> IF pc[t] = "claimed" /\ op[t] = "pop"
                              THEN payload[SlotOf(position[t])] ELSE result[t]]

Fifo == INSTANCE BoundedFifo WITH queue <- Queue, popped <- Popped,
                                  Full <- [i \in 1..Capacity |-> i - 1]

\* push() and pop() together are one bounded queue, each taking effect when its
\* compare_exchange succeeds: nothing is lost, duplicated or reordered, however
\* the threads interleave and however often the positions wrap.
ImplementsQueue == Fifo!Spec
==============================================================================
