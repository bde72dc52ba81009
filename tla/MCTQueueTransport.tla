-------------------------- MODULE MCTQueueTransport --------------------------
(***************************************************************************)
(* A queue whose capacities are 2 and 3: fixed, discarding and growable    *)
(* instances, postings of one to three elements.  The elements of          *)
(* successive postings are numbered round a cycle longer than the items    *)
(* that are in play together in one direction, so a lost, repeated or      *)
(* reordered element shows.                                                *)
(***************************************************************************)
EXTENDS TQueueTransport

VARIABLE serial     \* the element number of the last posting that got through

MCGrowthPolicy(n) == IF n <= 2 THEN 2 ELSE 3

Numbered(first, n) == [i \in 1..n |-> (first + i) % 5]

MCPostings == {Numbered(first, n) : first \in 0..4, n \in 1..3}

PostStarts == ppc = "idle" /\ ppc' = "publish"

MCInit == Init /\ serial = 0

MCNext == /\ Next
          /\ PostStarts => src' = Numbered(serial, Len(src'))
          /\ serial' = IF PostStarts THEN (serial + Len(src')) % 5
                       ELSE IF max_capacity' = 0 THEN 0 ELSE serial

MCSpec == MCInit /\ [][MCNext]_<<vars, serial>>
==============================================================================
