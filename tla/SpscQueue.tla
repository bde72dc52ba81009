------------------------------ MODULE SpscQueue ------------------------------
(***************************************************************************)
(* What a single-producer single-consumer queue promises its two users,    *)
(* with no word about buffers, phases or the staging word: an ordered      *)
(* backlog of accepted items and the run of items that the consumer has    *)
(* taken over and is reading.  TQueueTransport implements it.              *)
(*                                                                         *)
(*   limit     the configured maximum; 0 while the queue is not set up     *)
(*   droppable whether a full backlog may be abandoned for a new posting   *)
(*   backlog   items posted and not yet taken over by the consumer         *)
(*   held      items taken over by the consumer and not yet read           *)
(*   dst       what the last call of the consumer returned                 *)
(***************************************************************************)
EXTENDS Naturals, Sequences

CONSTANT Postings   \* the sequences of items that one posting may carry

VARIABLES limit, droppable, backlog, held, dst

specVars == <<limit, droppable, backlog, held, dst>>

Init == /\ limit = 0
        /\ droppable = FALSE
        /\ backlog = << >>
        /\ held = << >>
        /\ dst = << >>

SetUp == /\ limit = 0
         /\ limit' \in Nat \ {0}
         /\ droppable' \in BOOLEAN
         /\ UNCHANGED <<backlog, held, dst>>

TearDown == /\ limit' = 0
            /\ droppable' = FALSE
            /\ backlog' = << >>
            /\ held' = << >>
            /\ UNCHANGED dst

\* A posting goes to the end of the backlog, whole, if the backlog has room.
Enqueue(s) == /\ s # << >>
              /\ Len(backlog) + Len(s) <= limit
              /\ backlog' = backlog \o s
              /\ UNCHANGED <<limit, droppable, held, dst>>

\* Only a droppable queue, and only when the backlog has no room, starts the
\* backlog again from the new posting.
Replace(s) == /\ droppable
              /\ s # << >>
              /\ Len(s) <= limit
              /\ Len(backlog) + Len(s) > limit
              /\ backlog' = s
              /\ UNCHANGED <<limit, droppable, held, dst>>

\* The consumer takes over the whole backlog, and only when it has read
\* everything it had taken over before.
Accept == /\ held = << >>
          /\ held' = backlog
          /\ backlog' = << >>
          /\ UNCHANGED <<limit, droppable, dst>>

Take(n) == /\ n \in 1..Len(held)
           /\ dst' = SubSeq(held, 1, n)
           /\ held' = SubSeq(held, n + 1, Len(held))
           /\ UNCHANGED <<limit, droppable, backlog>>

\* The consumer starts another call.
Call == /\ dst' = << >>
        /\ UNCHANGED <<limit, droppable, backlog, held>>

Next == \/ SetUp
        \/ TearDown
        \/ \E s \in Postings : Enqueue(s) \/ Replace(s)
        \/ Accept
        \/ Call
        \/ \E n \in 1..Len(held) : Take(n)

Spec == Init /\ [][Next]_specVars
==============================================================================
