------------------------------ MODULE TMpmcArena ------------------------------
(***************************************************************************)
(* TMpmcArenaTransport: arena slots that go round from the supplier ring   *)
(* through a producer, the populated ring and a consumer back to the       *)
(* supplier, under a status word that closes the transport in order or     *)
(* shuts it down.  Each ring is the bounded queue that TMpmcIndexRing      *)
(* implements; a push that meets a cell still being released is retried by *)
(* the code's loop and takes effect later.  One step is one atomic access  *)
(* or one ring operation.                                                  *)
(***************************************************************************)
EXTENDS Integers, Sequences, FiniteSets

CONSTANTS Thread,
          Capacity      \* k_capacity

ASSUME ArenaAssumption == Capacity \in Nat \ {0} /\ IsFiniteSet(Thread)

VARIABLES status,               \* m_status_word
          outstanding,          \* m_outstanding_count
          supplier, populated,  \* the two index rings
          pc, held              \* each thread's place and the slot it owns

vars == <<status, outstanding, supplier, populated, pc, held>>

Index  == 0..(Capacity - 1)
NoSlot == Capacity

state_allows_reserve             == status = "open"
state_allows_acquire_or_complete == status \in {"open", "closing"}

Init == /\ status = "open"
        /\ outstanding = 0
        /\ supplier = [i \in 1..Capacity |-> i - 1]
        /\ populated = << >>
        /\ pc = [t \in Thread |-> "idle"]
        /\ held = [t \in Thread |-> NoSlot]

Go(t, from, to) == pc[t] = from /\ pc' = [pc EXCEPT ![t] = to]
Hold(t, i)      == held' = [held EXCEPT ![t] = i]

(* ------------------------------ reserve, publish ------------------------ *)

\* reserve() is three separate accesses: the status, the ring, the count.
Reserve(t) == /\ Go(t, "idle", "popping")
              /\ state_allows_reserve
              /\ UNCHANGED <<status, outstanding, supplier, populated, held>>

ReservePop(t) == /\ Go(t, "popping", "counting")
                 /\ supplier # << >>
                 /\ Hold(t, Head(supplier))
                 /\ supplier' = Tail(supplier)
                 /\ UNCHANGED <<status, outstanding, populated>>

ReserveEmpty(t) == /\ Go(t, "popping", "idle")
                   /\ supplier = << >>
                   /\ UNCHANGED <<status, outstanding, supplier, populated, held>>

ReserveCount(t) == /\ Go(t, "counting", "reserved")
                   /\ outstanding' = outstanding + 1
                   /\ UNCHANGED <<status, supplier, populated, held>>

Publish(t) == /\ Go(t, "reserved", "publishing")
              /\ state_allows_acquire_or_complete
              /\ UNCHANGED <<status, outstanding, supplier, populated, held>>

KeptPublish(t) ==       \* fault: the producer goes on using a slot it published
  /\ Go(t, "publishing", "reserved")
  /\ populated' = Append(populated, held[t])
  /\ UNCHANGED <<status, outstanding, supplier, held>>

PublishPush(t) == /\ Go(t, "publishing", "idle")
                  /\ populated' = Append(populated, held[t])
                  /\ Hold(t, NoSlot)
                  /\ UNCHANGED <<status, outstanding, supplier>>

\* publish() returns false, on entry or between two tries of the push: the
\* caller has given the slot up and nobody will put it back.
UncountedRefusal(t) ==  \* fault: a refused publication is counted back
  /\ pc[t] \in {"reserved", "publishing"}
  /\ ~state_allows_acquire_or_complete
  /\ pc' = [pc EXCEPT ![t] = "idle"]
  /\ outstanding' = outstanding - 1
  /\ Hold(t, NoSlot)
  /\ UNCHANGED <<status, supplier, populated>>

PublishRefused(t) == /\ pc[t] \in {"reserved", "publishing"}
                     /\ ~state_allows_acquire_or_complete
                     /\ pc' = [pc EXCEPT ![t] = "idle"]
                     /\ Hold(t, NoSlot)
                     /\ UNCHANGED <<status, outstanding, supplier, populated>>

(* ------------------------------ acquire, recycle ------------------------ *)

Acquire(t) == /\ Go(t, "idle", "acquiring")
              /\ state_allows_acquire_or_complete
              /\ UNCHANGED <<status, outstanding, supplier, populated, held>>

AcquirePop(t) == /\ Go(t, "acquiring", "acquired")
                 /\ populated # << >>
                 /\ Hold(t, Head(populated))
                 /\ populated' = Tail(populated)
                 /\ UNCHANGED <<status, outstanding, supplier>>

AcquireEmpty(t) == /\ Go(t, "acquiring", "idle")
                   /\ populated = << >>
                   /\ UNCHANGED <<status, outstanding, supplier, populated, held>>

Recycle(t) == /\ Go(t, "acquired", "recycling")
              /\ state_allows_acquire_or_complete
              /\ UNCHANGED <<status, outstanding, supplier, populated, held>>

RecyclePush(t) == /\ Go(t, "recycling", "uncounting")
                  /\ supplier' = Append(supplier, held[t])
                  /\ Hold(t, NoSlot)
                  /\ UNCHANGED <<status, outstanding, populated>>

RecycleRefused(t) == /\ pc[t] \in {"acquired", "recycling"}
                     /\ ~state_allows_acquire_or_complete
                     /\ pc' = [pc EXCEPT ![t] = "idle"]
                     /\ Hold(t, NoSlot)
                     /\ UNCHANGED <<status, outstanding, supplier, populated>>

\* Whoever takes the count from 1 to 0 goes on to close a closing transport.
RecycleUncount(t) == /\ pc[t] = "uncounting"
                     /\ pc' = [pc EXCEPT ![t] = IF outstanding = 1 THEN "closing" ELSE "idle"]
                     /\ outstanding' = outstanding - 1
                     /\ UNCHANGED <<status, supplier, populated, held>>

(* --------------------------------- lifecycle ---------------------------- *)

begin_closing(t) == /\ Go(t, "idle", "checking")
                    /\ status = "open"
                    /\ status' = "closing"
                    /\ UNCHANGED <<outstanding, supplier, populated, held>>

UncheckedClosing(t) ==  \* fault: begin_closing() leaves closing to recycle()
  /\ Go(t, "checking", "idle")
  /\ UNCHANGED <<status, outstanding, supplier, populated, held>>

CheckOutstanding(t) ==
  /\ pc[t] = "checking"
  /\ pc' = [pc EXCEPT ![t] = IF outstanding = 0 THEN "closing" ELSE "idle"]
  /\ UNCHANGED <<status, outstanding, supplier, populated, held>>

\* The compare_exchange from closing to closed, in begin_closing() and recycle().
FinishClosing(t) == /\ Go(t, "closing", "idle")
                    /\ status' = IF status = "closing" THEN "closed" ELSE status
                    /\ UNCHANGED <<outstanding, supplier, populated, held>>

shutdown(t) == /\ Go(t, "idle", "idle")
               /\ status' = "shutdown"
               /\ UNCHANGED <<outstanding, supplier, populated, held>>

(* ------------------------------------------------------------------------ *)

\* What a thread that has begun an operation does until it holds no slot.
Continue(t) ==
  \/ ReservePop(t) \/ ReserveEmpty(t) \/ ReserveCount(t)
  \/ Publish(t) \/ PublishPush(t) \/ PublishRefused(t)
  \/ AcquirePop(t) \/ AcquireEmpty(t)
  \/ Recycle(t) \/ RecyclePush(t) \/ RecycleRefused(t) \/ RecycleUncount(t)
  \/ CheckOutstanding(t) \/ FinishClosing(t)

Begin(t) == Reserve(t) \/ Acquire(t) \/ begin_closing(t) \/ shutdown(t)

Next == \E t \in Thread : Begin(t) \/ Continue(t)

Spec == Init /\ [][Next]_vars

\* Threads run, complete what they began (the documented irrevocable pairing)
\* and keep polling for published slots.
Fairness == \A t \in Thread : WF_vars(Continue(t)) /\ WF_vars(Acquire(t))

FairSpec == Spec /\ Fairness

(* ------------------------------- properties ----------------------------- *)

\* The rings carry arena indices, a thread's place says what it does, and the
\* unsigned count never wraps below 0; it may pass the capacity while a slot is
\* reserved again before its last fetch_sub.
TypeOK ==
  /\ status \in {"open", "closing", "closed", "shutdown"}
  /\ outstanding \in 0..(Capacity + Cardinality(Thread))
  /\ supplier \in Seq(Index)
  /\ populated \in Seq(Index)
  /\ pc \in [Thread -> {"idle", "popping", "counting", "reserved", "publishing",
                        "acquiring", "acquired", "recycling", "uncounting",
                        "checking", "closing"}]
  /\ held \in [Thread -> Index \cup {NoSlot}]

Places(i) == {<<"supplier", n>> : n \in {m \in 1..Len(supplier) : supplier[m] = i}}
        \cup {<<"populated", n>> : n \in {m \in 1..Len(populated) : populated[m] = i}}
        \cup {<<"thread", t>> : t \in {u \in Thread : held[u] = i}}

\* An arena slot is in one ring once, or with one thread, and never in two
\* places: two owners would write the same element of the arena concurrently.
SlotHasOneOwner == \A i \in Index : Cardinality(Places(i)) <= 1

InState(s) == Cardinality({t \in Thread : pc[t] = s})

\* The count is the slots that have left the supplier, up to the calls that are
\* between their ring operation and their fetch_add or fetch_sub: it never
\* drifts, so it reaches 0 exactly when every slot is back.
OutstandingIsExact ==
  outstanding = Capacity - Len(supplier) - InState("counting") + InState("uncounting")

\* Orderly closing ends: whatever was reserved when begin_closing() was called,
\* and whoever sees the count reach 0, the transport gets to closed (or is
\* shut down); it is never left in closing with nobody to finish it.
ClosingCompletes == status = "closing" ~> status \in {"closed", "shutdown"}

==============================================================================
