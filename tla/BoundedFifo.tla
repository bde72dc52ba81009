------------------------------ MODULE BoundedFifo ------------------------------
(***************************************************************************)
(* What the index ring promises its threads: one bounded queue.  A push    *)
(* appends, a pop removes the head and hands it to the popping thread.     *)
(* Either may also be refused without effect.                              *)
(***************************************************************************)
EXTENDS Naturals, Sequences

CONSTANTS Thread, Value, Capacity, Nothing, Full

VARIABLES queue,
          popped    \* what each thread's pop in progress returns

Init == /\ queue = Full \/ queue = << >>
        /\ popped = [t \in Thread |-> Nothing]

Push(v) == /\ Len(queue) < Capacity
           /\ queue' = Append(queue, v)
           /\ UNCHANGED popped

Pop(t) == /\ queue # << >>
          /\ popped' = [popped EXCEPT ![t] = Head(queue)]
          /\ queue' = Tail(queue)

\* A thread is done with the value it popped.
Finish(t) == /\ popped' = [popped EXCEPT ![t] = Nothing]
             /\ UNCHANGED queue

Next == \/ \E v \in Value : Push(v)
        \/ \E t \in Thread : Pop(t) \/ Finish(t)

Spec == Init /\ [][Next]_<<queue, popped>>
==============================================================================
