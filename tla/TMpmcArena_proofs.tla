--------------------------- MODULE TMpmcArena_proofs ---------------------------
(***************************************************************************)
(* One owner per arena slot, an exact count of the slots in use and no     *)
(* wrap of that count, for every capacity and any finite set of threads.   *)
(***************************************************************************)
EXTENDS TMpmcArena, FiniteSetTheorems, SequenceTheorems, TLAPS

LEMMA Constants == Capacity \in Nat /\ Capacity > 0 /\ IsFiniteSet(Thread)
                   /\ NoSlot \notin Index /\ NoSlot = Capacity
BY ArenaAssumption DEF NoSlot, Index

(* --------------------------- the inductive invariant -------------------- *)

Place == {"idle", "popping", "counting", "reserved", "publishing", "acquiring",
          "acquired", "recycling", "uncounting", "checking", "closing"}

Typed == /\ status \in {"open", "closing", "closed", "shutdown"}
         /\ outstanding \in Int
         /\ supplier \in Seq(Index)
         /\ populated \in Seq(Index)
         /\ pc \in [Thread -> Place]
         /\ held \in [Thread -> Index \cup {NoSlot}]

\* A thread owns a slot exactly between taking it from a ring and giving it to
\* one: its place tells.
HeldByPlace ==
  \A t \in Thread : held[t] # NoSlot <=>
                    pc[t] \in {"counting", "reserved", "publishing", "acquired", "recycling"}

Once(queue) == \A m, n \in 1..Len(queue) : queue[m] = queue[n] => m = n

\* SlotHasOneOwner, position by position.
RingsOnce == /\ Once(supplier)
             /\ Once(populated)
             /\ \A m \in 1..Len(supplier), n \in 1..Len(populated) : supplier[m] # populated[n]

HeldOnce == /\ \A t, u \in Thread : held[t] = held[u] /\ held[t] # NoSlot => t = u
            /\ \A t \in Thread, n \in 1..Len(supplier) : supplier[n] # held[t]
            /\ \A t \in Thread, n \in 1..Len(populated) : populated[n] # held[t]

\* Slots are lost to refused publications, never gained.
Holders == {t \in Thread : held[t] # NoSlot}

SlotsConserved == Len(supplier) + Len(populated) + Cardinality(Holders) <= Capacity

IInv == Typed /\ HeldByPlace /\ RingsOnce /\ HeldOnce /\ SlotsConserved /\ OutstandingIsExact

(* ------------------------------- counting lemmas ------------------------ *)

\* A thread that goes from one place to another moves one count down and
\* another one up.
At(f, s) == Cardinality({u \in Thread : f[u] = s})

LEMMA CountMoves ==
  ASSUME NEW f \in [Thread -> Place], NEW t \in Thread, NEW to \in Place, NEW s \in Place
  PROVE  /\ At(f, s) \in Nat
         /\ s = to /\ s # f[t] => At([f EXCEPT ![t] = to], s) = At(f, s) + 1
         /\ s # to /\ s = f[t] => At([f EXCEPT ![t] = to], s) = At(f, s) - 1
         /\ (s = to <=> s = f[t]) => At([f EXCEPT ![t] = to], s) = At(f, s)
<1> DEFINE g == [f EXCEPT ![t] = to]
           A == {u \in Thread : f[u] = s}
           B == {u \in Thread : g[u] = s}
<1>1. IsFiniteSet(A) /\ IsFiniteSet(B)
  BY Constants, FS_Subset
<1>2. Cardinality(A) \in Nat /\ Cardinality(B) \in Nat
  BY <1>1, FS_CardinalityType
<1>3. CASE s = to /\ s = f[t]
  <2>1. A = B
    BY <1>3
  <2> QED BY <1>2, <1>3, <2>1 DEF At
<1>4. CASE s = to /\ s # f[t]
  <2>1. B = A \cup {t} /\ t \notin A
    BY <1>4
  <2>2. Cardinality(B) = Cardinality(A) + 1
    BY <1>1, <2>1, FS_AddElement
  <2> QED BY <1>2, <1>4, <2>2 DEF At
<1>5. CASE s # to /\ s = f[t]
  <2>1. B = A \ {t} /\ t \in A
    BY <1>5
  <2>2. Cardinality(B) = Cardinality(A) - 1
    BY <1>1, <2>1, FS_RemoveElement
  <2> QED BY <1>2, <1>5, <2>2 DEF At
<1>6. CASE s # to /\ s # f[t]
  <2>1. A = B
    BY <1>6
  <2> QED BY <1>2, <1>6, <2>1 DEF At
<1> QED BY <1>3, <1>4, <1>5, <1>6

\* The two counts that OutstandingIsExact is about.
LEMMA CallsMove ==
  ASSUME Typed, NEW t \in Thread, NEW to \in Place, pc' = [pc EXCEPT ![t] = to],
         NEW s \in {"counting", "uncounting"}
  PROVE  /\ At(pc, s) \in Nat
         /\ s = to /\ s # pc[t] => At(pc', s) = At(pc, s) + 1
         /\ s # to /\ s = pc[t] => At(pc', s) = At(pc, s) - 1
         /\ (s = to <=> s = pc[t]) => At(pc', s) = At(pc, s)
<1>1. pc \in [Thread -> Place] /\ s \in Place
  BY DEF Typed, Place
<1> QED BY <1>1, CountMoves

LEMMA ExactMeans ==
  /\ OutstandingIsExact <=>
       outstanding = Capacity - Len(supplier) - At(pc, "counting") + At(pc, "uncounting")
  /\ OutstandingIsExact' <=>
       outstanding' = Capacity - Len(supplier') - At(pc', "counting") + At(pc', "uncounting")
BY DEF OutstandingIsExact, InState, At

LEMMA HoldersFinite ==
  ASSUME Typed PROVE IsFiniteSet(Holders) /\ Cardinality(Holders) \in Nat
BY Constants, FS_Subset, FS_CardinalityType DEF Holders

\* Taking a slot makes one holder more, giving it up one less.
LEMMA HolderGained ==
  ASSUME Typed, NEW t \in Thread, held[t] = NoSlot, NEW i \in Index, Hold(t, i)
  PROVE  Cardinality(Holders)' = Cardinality(Holders) + 1
<1>1. Holders' = Holders \cup {t} /\ t \notin Holders
  BY Constants DEF Holders, Hold, Typed
<1> QED BY <1>1, HoldersFinite, FS_AddElement

LEMMA HolderLost ==
  ASSUME Typed, NEW t \in Thread, held[t] # NoSlot, Hold(t, NoSlot)
  PROVE  Cardinality(Holders)' = Cardinality(Holders) - 1
<1>1. Holders' = Holders \ {t} /\ t \in Holders
  BY DEF Holders, Hold, Typed
<1> QED BY <1>1, HoldersFinite, FS_RemoveElement

LEMMA HoldersSame ==
  ASSUME UNCHANGED held
  PROVE  Cardinality(Holders)' = Cardinality(Holders)
BY DEF Holders

(* ------------------------------- the steps ------------------------------ *)

\* The steps that leave rings, slots and count alone.
Owning == {"reserved", "publishing", "acquired", "recycling"}
Silent == Place \ {"counting", "uncounting"}

Quiet(t, from, to) ==
  /\ pc[t] = from
  /\ pc' = [pc EXCEPT ![t] = to]
  /\ status' \in {"open", "closing", "closed", "shutdown"}
  /\ UNCHANGED <<outstanding, supplier, populated, held>>

LEMMA QuietKeeps ==
  ASSUME IInv, NEW t \in Thread, NEW from \in Silent, NEW to \in Silent,
         from \in Owning <=> to \in Owning, Quiet(t, from, to)
  PROVE  IInv'
<1> USE DEF IInv
<1>1. Typed'
  BY DEF Quiet, Typed, Silent
<1>2. HeldByPlace'
  BY DEF Quiet, Typed, HeldByPlace, Place, Silent, Owning
<1>3. RingsOnce' /\ HeldOnce'
  BY DEF Quiet, RingsOnce, HeldOnce, Once
<1>4. SlotsConserved'
  BY HoldersSame DEF Quiet, SlotsConserved
<1>5. OutstandingIsExact'
  <2>1. At(pc', "counting") = At(pc, "counting") /\ At(pc', "uncounting") = At(pc, "uncounting")
    BY CallsMove DEF Quiet, Place, Silent
  <2> QED BY <2>1, ExactMeans DEF Quiet
<1> QED BY <1>1, <1>2, <1>3, <1>4, <1>5

LEMMA QuietStepsKeep ==
  ASSUME IInv, NEW t \in Thread,
         \/ Reserve(t) \/ ReserveEmpty(t) \/ Publish(t) \/ Acquire(t) \/ AcquireEmpty(t)
         \/ Recycle(t) \/ begin_closing(t) \/ CheckOutstanding(t) \/ FinishClosing(t)
         \/ shutdown(t)
  PROVE  IInv'
<1> USE DEF Quiet, Go, Silent, Place, Owning
<1> status \in {"open", "closing", "closed", "shutdown"}
  BY DEF IInv, Typed
<1>1. CASE Reserve(t)
  BY <1>1, QuietKeeps, Quiet(t, "idle", "popping") DEF Reserve
<1>2. CASE ReserveEmpty(t)
  BY <1>2, QuietKeeps, Quiet(t, "popping", "idle") DEF ReserveEmpty
<1>3. CASE Publish(t)
  BY <1>3, QuietKeeps, Quiet(t, "reserved", "publishing") DEF Publish
<1>4. CASE Acquire(t)
  BY <1>4, QuietKeeps, Quiet(t, "idle", "acquiring") DEF Acquire
<1>5. CASE AcquireEmpty(t)
  BY <1>5, QuietKeeps, Quiet(t, "acquiring", "idle") DEF AcquireEmpty
<1>6. CASE Recycle(t)
  BY <1>6, QuietKeeps, Quiet(t, "acquired", "recycling") DEF Recycle
<1>7. CASE begin_closing(t)
  BY <1>7, QuietKeeps, Quiet(t, "idle", "checking") DEF begin_closing
<1>8. CASE CheckOutstanding(t)
  <2>1. Quiet(t, "checking", "closing") \/ Quiet(t, "checking", "idle")
    BY <1>8 DEF CheckOutstanding
  <2> QED BY <2>1, QuietKeeps
<1>9. CASE FinishClosing(t)
  BY <1>9, QuietKeeps, Quiet(t, "closing", "idle") DEF FinishClosing
<1>10. CASE shutdown(t)
  BY <1>10, QuietKeeps, Quiet(t, "idle", "idle") DEF shutdown
<1> QED BY <1>1, <1>2, <1>3, <1>4, <1>5, <1>6, <1>7, <1>8, <1>9, <1>10

LEMMA ReservePopKeeps ==
  ASSUME IInv, NEW t \in Thread, ReservePop(t) PROVE IInv'
<1> USE DEF IInv
<1>1. /\ Head(supplier) \in Index /\ Tail(supplier) \in Seq(Index)
      /\ Len(supplier) \in Nat /\ Len(supplier) > 0 /\ Head(supplier) = supplier[1]
      /\ Len(Tail(supplier)) = Len(supplier) - 1
      /\ \A n \in 1..Len(Tail(supplier)) : Tail(supplier)[n] = supplier[n + 1]
  BY HeadTailProperties, EmptySeq, LenProperties DEF ReservePop, Typed
<1>2. /\ pc[t] = "popping" /\ pc' = [pc EXCEPT ![t] = "counting"]
      /\ held' = [held EXCEPT ![t] = supplier[1]] /\ supplier' = Tail(supplier)
      /\ UNCHANGED <<status, outstanding, populated>>
  BY <1>1 DEF ReservePop, Go, Hold
<1>3. held[t] = NoSlot
  BY <1>2 DEF HeldByPlace
<1>4. Typed'
  BY <1>1, <1>2 DEF Typed, Place
<1>5. HeldByPlace'
  BY <1>1, <1>2, Constants DEF HeldByPlace, Typed, Place
<1>6. RingsOnce'
  BY <1>1, <1>2 DEF RingsOnce, Once
<1>7. HeldOnce'
  BY <1>1, <1>2, Constants DEF HeldOnce, RingsOnce, Once, Typed
<1>8. SlotsConserved'
  <2>1. Cardinality(Holders)' = Cardinality(Holders) + 1
    BY <1>1, <1>2, <1>3, HolderGained DEF Hold
  <2> QED BY <1>1, <1>2, <2>1, HoldersFinite, LenProperties, Constants DEF SlotsConserved, Typed
<1>9. OutstandingIsExact'
  <2>1. /\ At(pc', "counting") = At(pc, "counting") + 1 /\ At(pc', "uncounting") = At(pc, "uncounting")
        /\ At(pc, "counting") \in Nat /\ At(pc, "uncounting") \in Nat
    BY <1>2, CallsMove DEF Place
  <2> QED BY <1>1, <1>2, <2>1, ExactMeans, Constants DEF Typed
<1> QED BY <1>4, <1>5, <1>6, <1>7, <1>8, <1>9

LEMMA ReserveCountKeeps ==
  ASSUME IInv, NEW t \in Thread, ReserveCount(t) PROVE IInv'
<1> USE DEF IInv
<1>1. /\ pc[t] = "counting" /\ pc' = [pc EXCEPT ![t] = "reserved"]
      /\ outstanding' = outstanding + 1
      /\ UNCHANGED <<status, supplier, populated, held>>
  BY DEF ReserveCount, Go
<1>2. Typed' /\ HeldByPlace'
  BY <1>1 DEF Typed, HeldByPlace, Place
<1>3. RingsOnce' /\ HeldOnce'
  BY <1>1 DEF RingsOnce, HeldOnce, Once
<1>4. SlotsConserved'
  BY <1>1, HoldersSame DEF SlotsConserved
<1>5. OutstandingIsExact'
  <2>1. /\ At(pc', "counting") = At(pc, "counting") - 1 /\ At(pc', "uncounting") = At(pc, "uncounting")
        /\ At(pc, "counting") \in Nat /\ At(pc, "uncounting") \in Nat
    BY <1>1, CallsMove DEF Place
  <2> QED BY <1>1, <2>1, ExactMeans, Constants, LenProperties DEF Typed
<1> QED BY <1>2, <1>3, <1>4, <1>5

LEMMA PublishPushKeeps ==
  ASSUME IInv, NEW t \in Thread, PublishPush(t) PROVE IInv'
<1> USE DEF IInv
<1>1. /\ pc[t] = "publishing" /\ pc' = [pc EXCEPT ![t] = "idle"]
      /\ held' = [held EXCEPT ![t] = NoSlot] /\ populated' = Append(populated, held[t])
      /\ UNCHANGED <<status, outstanding, supplier>>
  BY DEF PublishPush, Go, Hold
<1>2. held[t] # NoSlot /\ held[t] \in Index
  BY <1>1 DEF HeldByPlace, Typed
<1>3. /\ Len(populated) \in Nat /\ Len(supplier) \in Nat
      /\ populated' \in Seq(Index) /\ Len(populated') = Len(populated) + 1
      /\ \A n \in 1..Len(populated) : populated'[n] = populated[n]
      /\ populated'[Len(populated) + 1] = held[t]
  BY <1>1, <1>2, AppendProperties, LenProperties DEF Typed
<1>4. Typed' /\ HeldByPlace'
  BY <1>1, <1>3, Constants DEF Typed, HeldByPlace, Place
<1>5. RingsOnce'
  BY <1>1, <1>3 DEF RingsOnce, HeldOnce, Once
<1>6. HeldOnce'
  <2>1. \A n \in 1..Len(supplier) : supplier[n] # NoSlot
    BY Constants, ElementOfSeq DEF Typed
  <2>2. \A n \in 1..Len(populated) : populated[n] # NoSlot
    BY Constants, ElementOfSeq DEF Typed
  <2>3. \A u, v \in Thread : held'[u] = held'[v] /\ held'[u] # NoSlot => u = v
    BY <1>1 DEF HeldOnce, Typed
  <2>4. \A u \in Thread, n \in 1..Len(supplier) : supplier[n] # held'[u]
    BY <1>1, <2>1 DEF HeldOnce, Typed
  <2>5. \A u \in Thread, n \in 1..Len(populated') : populated'[n] # held'[u]
    <3> SUFFICES ASSUME NEW u \in Thread, NEW n \in 1..Len(populated') PROVE populated'[n] # held'[u]
      OBVIOUS
    <3>1. CASE n \in 1..Len(populated)
      BY <3>1, <1>1, <1>3, <2>2 DEF HeldOnce, Typed
    <3>2. CASE n = Len(populated) + 1
      BY <3>2, <1>1, <1>2, <1>3 DEF HeldOnce, Typed
    <3> QED BY <3>1, <3>2, <1>3
  <2> QED BY <1>1, <2>3, <2>4, <2>5 DEF HeldOnce
<1>7. SlotsConserved'
  <2>1. Cardinality(Holders)' = Cardinality(Holders) - 1
    BY <1>1, <1>2, HolderLost DEF Hold
  <2> QED BY <1>1, <1>3, <2>1, HoldersFinite, Constants DEF SlotsConserved
<1>8. OutstandingIsExact'
  <2>1. At(pc', "counting") = At(pc, "counting") /\ At(pc', "uncounting") = At(pc, "uncounting")
    BY <1>1, CallsMove DEF Place
  <2> QED BY <1>1, <2>1, ExactMeans
<1> QED BY <1>4, <1>5, <1>6, <1>7, <1>8

LEMMA RefusedKeeps ==
  ASSUME IInv, NEW t \in Thread, PublishRefused(t) \/ RecycleRefused(t) PROVE IInv'
<1> USE DEF IInv
<1>1. /\ pc[t] \in Owning /\ pc' = [pc EXCEPT ![t] = "idle"]
      /\ held' = [held EXCEPT ![t] = NoSlot]
      /\ UNCHANGED <<status, outstanding, supplier, populated>>
  BY DEF PublishRefused, RecycleRefused, Hold, Owning
<1>2. held[t] # NoSlot
  BY <1>1 DEF HeldByPlace, Owning
<1>3. Typed' /\ HeldByPlace'
  BY <1>1, Constants DEF Typed, HeldByPlace, Place
<1>4. RingsOnce'
  BY <1>1 DEF RingsOnce, Once
<1>5. HeldOnce'
  <2>1. \A n \in 1..Len(supplier) : supplier[n] # NoSlot
    BY Constants, ElementOfSeq DEF Typed
  <2>2. \A n \in 1..Len(populated) : populated[n] # NoSlot
    BY Constants, ElementOfSeq DEF Typed
  <2> QED BY <1>1, <2>1, <2>2 DEF HeldOnce, Typed
<1>6. SlotsConserved'
  <2>1. Cardinality(Holders)' = Cardinality(Holders) - 1
    BY <1>1, <1>2, HolderLost DEF Hold
  <2> QED BY <1>1, <2>1, HoldersFinite, LenProperties, Constants DEF SlotsConserved, Typed
<1>7. OutstandingIsExact'
  <2>1. At(pc', "counting") = At(pc, "counting") /\ At(pc', "uncounting") = At(pc, "uncounting")
    BY <1>1, CallsMove DEF Place, Owning
  <2> QED BY <1>1, <2>1, ExactMeans
<1> QED BY <1>3, <1>4, <1>5, <1>6, <1>7

LEMMA AcquirePopKeeps ==
  ASSUME IInv, NEW t \in Thread, AcquirePop(t) PROVE IInv'
<1> USE DEF IInv
<1>1. /\ Head(populated) \in Index /\ Tail(populated) \in Seq(Index)
      /\ Len(populated) \in Nat /\ Len(populated) > 0 /\ Head(populated) = populated[1]
      /\ Len(Tail(populated)) = Len(populated) - 1
      /\ \A n \in 1..Len(Tail(populated)) : Tail(populated)[n] = populated[n + 1]
  BY HeadTailProperties, EmptySeq, LenProperties DEF AcquirePop, Typed
<1>2. /\ pc[t] = "acquiring" /\ pc' = [pc EXCEPT ![t] = "acquired"]
      /\ held' = [held EXCEPT ![t] = populated[1]] /\ populated' = Tail(populated)
      /\ UNCHANGED <<status, outstanding, supplier>>
  BY <1>1 DEF AcquirePop, Go, Hold
<1>3. held[t] = NoSlot
  BY <1>2 DEF HeldByPlace
<1>4. Typed' /\ HeldByPlace'
  BY <1>1, <1>2, Constants DEF Typed, HeldByPlace, Place
<1>5. RingsOnce'
  BY <1>1, <1>2 DEF RingsOnce, Once
<1>6. HeldOnce'
  BY <1>1, <1>2, Constants DEF HeldOnce, RingsOnce, Once, Typed
<1>7. SlotsConserved'
  <2>1. Cardinality(Holders)' = Cardinality(Holders) + 1
    BY <1>1, <1>2, <1>3, HolderGained DEF Hold
  <2> QED BY <1>1, <1>2, <2>1, HoldersFinite, LenProperties, Constants DEF SlotsConserved, Typed
<1>8. OutstandingIsExact'
  <2>1. At(pc', "counting") = At(pc, "counting") /\ At(pc', "uncounting") = At(pc, "uncounting")
    BY <1>2, CallsMove DEF Place
  <2> QED BY <1>2, <2>1, ExactMeans
<1> QED BY <1>4, <1>5, <1>6, <1>7, <1>8

LEMMA RecyclePushKeeps ==
  ASSUME IInv, NEW t \in Thread, RecyclePush(t) PROVE IInv'
<1> USE DEF IInv
<1>1. /\ pc[t] = "recycling" /\ pc' = [pc EXCEPT ![t] = "uncounting"]
      /\ held' = [held EXCEPT ![t] = NoSlot] /\ supplier' = Append(supplier, held[t])
      /\ UNCHANGED <<status, outstanding, populated>>
  BY DEF RecyclePush, Go, Hold
<1>2. held[t] # NoSlot /\ held[t] \in Index
  BY <1>1 DEF HeldByPlace, Typed
<1>3. /\ Len(populated) \in Nat /\ Len(supplier) \in Nat
      /\ supplier' \in Seq(Index) /\ Len(supplier') = Len(supplier) + 1
      /\ \A n \in 1..Len(supplier) : supplier'[n] = supplier[n]
      /\ supplier'[Len(supplier) + 1] = held[t]
  BY <1>1, <1>2, AppendProperties, LenProperties DEF Typed
<1>4. Typed' /\ HeldByPlace'
  BY <1>1, <1>3, Constants DEF Typed, HeldByPlace, Place
<1>5. RingsOnce'
  BY <1>1, <1>3 DEF RingsOnce, HeldOnce, Once
<1>6. HeldOnce'
  <2>1. \A n \in 1..Len(supplier) : supplier[n] # NoSlot
    BY Constants, ElementOfSeq DEF Typed
  <2>2. \A n \in 1..Len(populated) : populated[n] # NoSlot
    BY Constants, ElementOfSeq DEF Typed
  <2>3. \A u, v \in Thread : held'[u] = held'[v] /\ held'[u] # NoSlot => u = v
    BY <1>1 DEF HeldOnce, Typed
  <2>4. \A u \in Thread, n \in 1..Len(populated) : populated[n] # held'[u]
    BY <1>1, <2>2 DEF HeldOnce, Typed
  <2>5. \A u \in Thread, n \in 1..Len(supplier') : supplier'[n] # held'[u]
    <3> SUFFICES ASSUME NEW u \in Thread, NEW n \in 1..Len(supplier') PROVE supplier'[n] # held'[u]
      OBVIOUS
    <3>1. CASE n \in 1..Len(supplier)
      BY <3>1, <1>1, <1>3, <2>1 DEF HeldOnce, Typed
    <3>2. CASE n = Len(supplier) + 1
      BY <3>2, <1>1, <1>2, <1>3 DEF HeldOnce, Typed
    <3> QED BY <3>1, <3>2, <1>3
  <2> QED BY <1>1, <2>3, <2>4, <2>5 DEF HeldOnce
<1>7. SlotsConserved'
  <2>1. Cardinality(Holders)' = Cardinality(Holders) - 1
    BY <1>1, <1>2, HolderLost DEF Hold
  <2> QED BY <1>1, <1>3, <2>1, HoldersFinite, Constants DEF SlotsConserved
<1>8. OutstandingIsExact'
  <2>1. /\ At(pc', "counting") = At(pc, "counting") /\ At(pc', "uncounting") = At(pc, "uncounting") + 1
        /\ At(pc, "counting") \in Nat /\ At(pc, "uncounting") \in Nat
    BY <1>1, CallsMove DEF Place
  <2> QED BY <1>1, <1>3, <2>1, ExactMeans, Constants DEF Typed
<1> QED BY <1>4, <1>5, <1>6, <1>7, <1>8

LEMMA RecycleUncountKeeps ==
  ASSUME IInv, NEW t \in Thread, RecycleUncount(t) PROVE IInv'
<1> USE DEF IInv
<1>0. PICK to \in {"idle", "closing"} : pc' = [pc EXCEPT ![t] = to]
  BY DEF RecycleUncount
<1>1. /\ pc[t] = "uncounting" /\ outstanding' = outstanding - 1
      /\ UNCHANGED <<status, supplier, populated, held>>
  BY DEF RecycleUncount
<1>2. Typed' /\ HeldByPlace'
  BY <1>0, <1>1 DEF Typed, HeldByPlace, Place
<1>3. RingsOnce' /\ HeldOnce'
  BY <1>1 DEF RingsOnce, HeldOnce, Once
<1>4. SlotsConserved'
  BY <1>1, HoldersSame DEF SlotsConserved
<1>5. OutstandingIsExact'
  <2>1. /\ At(pc', "counting") = At(pc, "counting") /\ At(pc', "uncounting") = At(pc, "uncounting") - 1
        /\ At(pc, "counting") \in Nat /\ At(pc, "uncounting") \in Nat
    BY <1>0, <1>1, CallsMove DEF Place
  <2> QED BY <1>1, <2>1, ExactMeans, Constants, LenProperties DEF Typed
<1> QED BY <1>2, <1>3, <1>4, <1>5

(* ------------------------------- the theorems --------------------------- *)

LEMMA InvInit == Init => IInv
<1> SUFFICES ASSUME Init PROVE IInv
  OBVIOUS
<1>1. /\ supplier \in Seq(Index) /\ Len(supplier) = Capacity
      /\ \A n \in 1..Capacity : supplier[n] = n - 1
  <2>1. supplier \in [1..Capacity -> Index]
    BY Constants DEF Init, Index
  <2> QED BY <2>1, Constants DEF Init, Index
<1>2. populated \in Seq(Index) /\ Len(populated) = 0
  BY DEF Init
<1>3. Typed /\ HeldByPlace
  BY <1>1, <1>2, Constants DEF Init, Typed, HeldByPlace, Place
<1>4. RingsOnce /\ HeldOnce
  BY <1>1, <1>2, Constants DEF Init, RingsOnce, HeldOnce, Once
<1>5. SlotsConserved
  <2>1. Holders = {}
    BY DEF Init, Holders
  <2> QED BY <1>1, <1>2, <2>1, FS_EmptySet, Constants DEF SlotsConserved
<1>6. OutstandingIsExact
  <2>1. {t \in Thread : pc[t] = "counting"} = {} /\ {t \in Thread : pc[t] = "uncounting"} = {}
    BY DEF Init
  <2>2. InState("counting") = 0 /\ InState("uncounting") = 0
    BY <2>1, FS_EmptySet DEF InState
  <2> QED BY <1>1, <2>2, Constants DEF Init, OutstandingIsExact
<1> QED BY <1>3, <1>4, <1>5, <1>6 DEF IInv

LEMMA InvNext == IInv /\ [Next]_vars => IInv'
<1> SUFFICES ASSUME IInv, [Next]_vars PROVE IInv'
  OBVIOUS
<1>1. ASSUME NEW t \in Thread, Begin(t) PROVE IInv'
  BY <1>1, QuietStepsKeep DEF Begin
<1>2. ASSUME NEW t \in Thread, Continue(t) PROVE IInv'
  BY <1>2, QuietStepsKeep, ReservePopKeeps, ReserveCountKeeps, PublishPushKeeps, RefusedKeeps,
     AcquirePopKeeps, RecyclePushKeeps, RecycleUncountKeeps DEF Continue
<1>3. CASE UNCHANGED vars
  <2>1. Holders' = Holders
    BY <1>3 DEF vars, Holders
  <2> QED BY <1>3, <2>1, ExactMeans DEF vars, IInv, Typed, HeldByPlace, RingsOnce, HeldOnce, Once, SlotsConserved
<1> QED BY <1>1, <1>2, <1>3 DEF Next

LEMMA Invariance == Spec => []IInv
BY InvInit, InvNext, PTL DEF Spec

\* reserve(), publish(), acquire() and recycle() hand every arena slot from one
\* owner to the next: whatever the threads do, an index is in one ring once or
\* with one thread.
THEOREM OneOwner == Spec => []SlotHasOneOwner
<1>1. IInv => SlotHasOneOwner
  <2> SUFFICES ASSUME IInv, NEW i \in Index PROVE Cardinality(Places(i)) <= 1
    BY DEF SlotHasOneOwner
  <2>1. i # NoSlot
    BY Constants
  <2>2. ASSUME NEW x \in Places(i), NEW y \in Places(i) PROVE x = y
    <3>1. CASE x[1] = "supplier"
      BY <3>1, <2>1, <2>2 DEF Places, IInv, RingsOnce, HeldOnce, Once
    <3>2. CASE x[1] = "populated"
      BY <3>2, <2>1, <2>2 DEF Places, IInv, RingsOnce, HeldOnce, Once
    <3>3. CASE x[1] = "thread"
      BY <3>3, <2>1, <2>2 DEF Places, IInv, RingsOnce, HeldOnce, Once
    <3>4. x[1] \in {"supplier", "populated", "thread"}
      BY <2>2 DEF Places
    <3> QED BY <3>1, <3>2, <3>3, <3>4
  <2>3. CASE Places(i) = {}
    BY <2>3, FS_EmptySet
  <2>4. CASE Places(i) # {}
    <3>1. PICK x : Places(i) = {x}
      BY <2>2, <2>4
    <3>2. Cardinality({x}) = 1
      BY FS_Singleton
    <3> QED BY <3>1, <3>2
  <2> QED BY <2>3, <2>4
<1> QED BY <1>1, Invariance, PTL

\* m_outstanding_count is the number of slots that have left the supplier, but
\* for the calls between their ring operation and their fetch_add or fetch_sub.
THEOREM ExactCount == Spec => []OutstandingIsExact
<1>1. IInv => OutstandingIsExact
  BY DEF IInv
<1> QED BY <1>1, Invariance, PTL

\* The unsigned count never wraps: recycle() subtracts only what reserve() has
\* added, and the count passes the capacity by at most the threads under way.
THEOREM TypeCorrect == Spec => []TypeOK
<1>1. IInv => TypeOK
  <2> SUFFICES ASSUME IInv PROVE TypeOK
    OBVIOUS
  <2>1. outstanding = Capacity - Len(supplier) - At(pc, "counting") + At(pc, "uncounting")
    BY ExactMeans DEF IInv
  <2> DEFINE C == {t \in Thread : pc[t] = "counting"}
             U == {t \in Thread : pc[t] = "uncounting"}
  <2>2. /\ IsFiniteSet(C) /\ IsFiniteSet(U)
        /\ Cardinality(C) <= Cardinality(Holders)
        /\ Cardinality(U) <= Cardinality(Thread)
    <3>1. C \subseteq Holders
      BY DEF IInv, HeldByPlace, Holders
    <3>2. IsFiniteSet(Holders) /\ IsFiniteSet(Thread)
      BY Constants, HoldersFinite DEF IInv
    <3>3. C \subseteq Thread /\ U \subseteq Thread
      OBVIOUS
    <3> HIDE DEF C, U
    <3> QED BY <3>1, <3>2, <3>3, FS_Subset
  <2>3. Cardinality(C) \in Nat /\ Cardinality(U) \in Nat /\ Cardinality(Thread) \in Nat /\ Cardinality(Holders) \in Nat
    BY <2>2, Constants, HoldersFinite, FS_CardinalityType DEF IInv
  <2>4. At(pc, "counting") = Cardinality(C) /\ At(pc, "uncounting") = Cardinality(U)
    BY DEF At
  <2>5. Len(supplier) \in Nat /\ Len(populated) \in Nat
    BY LenProperties DEF IInv, Typed
  <2> HIDE DEF C, U
  <2>6. outstanding \in 0..(Capacity + Cardinality(Thread))
    BY <2>1, <2>2, <2>3, <2>4, <2>5, Constants DEF IInv, SlotsConserved
  <2> QED BY <2>6 DEF TypeOK, IInv, Typed, Place
<1> QED BY <1>1, Invariance, PTL
==============================================================================
