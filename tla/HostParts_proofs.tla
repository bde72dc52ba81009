-------------------------- MODULE HostParts_proofs --------------------------
(***************************************************************************)
(* Proofs about three mechanisms of the Host thread that share no state:   *)
(* HostMaintenance, HostRestriction and InputConnection, in this order.    *)
(***************************************************************************)
EXTENDS HostMaintenance, HostRestriction, InputConnection,
        FiniteSetTheorems, SequenceTheorems, TLAPS

(***************************************************************************)
(* Proofs about HostMaintenance, for every set of sources and every        *)
(* capacity: messages are processed once and in order whatever a modal     *)
(* loop captures, every reserved credit stands for something, and a replay *)
(* leaves nothing behind for a client whose prefix was valid.              *)
(*                                                                         *)
(* The accounts are sums over what is held, so the first lemmas say what   *)
(* an appended and a removed entry do to a count of entries.  What is left *)
(* of the argument is where captures can be: nowhere in a turn of the      *)
(* Host, and in a replay only from the entry that is attempted next.       *)
(***************************************************************************)

Message == [n : Nat, k : 0..2]

Captures == [t : {"capture"}, src : Sources, m : Message, credits : 0..2]

Entry == Captures \cup [t : {"delivery"}, lane : Lanes]

Counts == [Lanes -> Nat]

Client == [inbox : Counts, reserved : Counts, owed : Counts, staged : Counts,
           phase : {"ready", "stopping", "stopped"}, prefix_failed : BOOLEAN]

HostState == [cl : Client, held : Seq(Entry), on : BOOLEAN, got : [Sources -> Nat]]

(* --------------------------- the inductive invariant -------------------- *)

Typed ==
    /\ box \in [Sources -> Seq(Message)] /\ posted \in [Sources -> 0..MaxPosts] /\ got \in [Sources -> Nat]
    /\ held \in Seq(Entry) /\ cl \in Client
    /\ frame \in [on : BOOLEAN, restricted : BOOLEAN, offered : Counts, replay : Nat]

\* A message asks for the replies of its source, and its capture took what
\* the source takes.
Asking(h, b) ==
    /\ \A i \in DOMAIN h : h[i].t = "capture" =>
           h[i].m.k \in Replies(h[i].src) /\ h[i].credits = CaptureCredits(h[i].src, h[i].m)
    /\ \A s \in Sources : \A i \in DOMAIN b[s] : b[s][i].k \in Replies(s)

Frames ==
    /\ frame.replay \in 0..Len(held) /\ (frame.restricted => frame.on)
    /\ frame.on => frame.replay = 0 /\ ~Terminal(cl) /\ \A l \in Lanes : frame.offered[l] <= cl.inbox[l]

\* What a replay has passed, or left when it ended, could not be sent.
Stuck(c, h, n) == \A i \in DOMAIN h : i < n => h[i].t = "delivery" /\ c.prefix_failed /\ ~Terminal(c)

Left == ~frame.on => Stuck(cl, held, IF frame.replay = 0 THEN Len(held) + 1 ELSE frame.replay)

\* The books of a client, with x credits on a lane that are not yet entered.
Books(c, h, lane, x) ==
    \A l \in Lanes :
        /\ c.staged[l] = Cardinality(StagedIn(h, l))
        /\ c.reserved[l] = c.owed[l] + CreditsIn(h, l) + (IF l = lane THEN x ELSE 0)
        /\ c.inbox[l] + c.reserved[l] <= Capacity[l]

\* The messages g+1..t of a source are held, in order.
Line(g, t, h, s) ==
    /\ g <= t
    /\ \A i \in CapturesOf(h, s) : h[i].m.n > g /\ h[i].m.n <= t
    /\ \A x \in 1..t : x > g => \E i \in CapturesOf(h, s) : h[i].m.n = x
    /\ \A i, j \in CapturesOf(h, s) : i < j => h[i].m.n < h[j].m.n

\* Those after t are queued.
Queue(q, t) == \A i \in DOMAIN q : q[i].n = t + i

Lined == \A s \in Sources : Line(got[s], TakenFrom(s), held, s) /\ Queue(box[s], TakenFrom(s))

Booked == \A lane \in Lanes : Books(cl, held, lane, 0)

IInv == Typed /\ Asking(held, box) /\ Frames /\ Left /\ Lined /\ Booked

(* ------------------------------- counting ------------------------------- *)

\* An index that has come to a set of indexes, and one that has gone while
\* those above it moved down.
LEMMA IndexSet ==
  ASSUME NEW n \in Nat, NEW T, T \subseteq 1..n
  PROVE  IsFiniteSet(T) /\ Cardinality(T) \in Nat
<1>1. IsFiniteSet(1..n)
  BY FS_Interval
<1> QED
  BY <1>1, FS_Subset, FS_CardinalityType

LEMMA CountAppended ==
  ASSUME NEW n \in Nat, NEW T, T \subseteq 1..n, NEW U, U \subseteq 1..(n + 1),
         \A j \in 1..n : j \in U <=> j \in T
  PROVE  Cardinality(U) = Cardinality(T) + (IF n + 1 \in U THEN 1 ELSE 0)
<1>1. IsFiniteSet(T) /\ Cardinality(T) \in Nat
  BY IndexSet
<1>0. \A x \in U : x \in 1..n \/ x = n + 1
  OBVIOUS
<1>2. n + 1 \in U => U = T \cup {n + 1}
  BY <1>0
<1>3. n + 1 \notin U => U = T
  BY <1>0
<1>4. n + 1 \notin T
  OBVIOUS
<1> QED
  BY <1>1, <1>2, <1>3, <1>4, FS_AddElement, FS_CardinalityType

Shifted(U, T, i, n) ==
    /\ T \subseteq 1..n /\ U \subseteq 1..(n - 1)
    /\ \A j \in 1..(n - 1) : /\ j < i => (j \in U <=> j \in T)
                             /\ j >= i => (j \in U <=> j + 1 \in T)

LEMMA CountRemoved ==
  ASSUME NEW n \in Nat, NEW i \in 1..n, NEW T, NEW U, Shifted(U, T, i, n)
  PROVE  Cardinality(T) = Cardinality(U) + (IF i \in T THEN 1 ELSE 0)
<1> DEFINE f == [j \in U |-> IF j < i THEN j ELSE j + 1]
           R == T \ {i}
<1>0. /\ T \subseteq 1..n /\ U \subseteq 1..(n - 1)
      /\ \A j \in 1..(n - 1) : /\ j < i => (j \in U <=> j \in T)
                               /\ j >= i => (j \in U <=> j + 1 \in T)
  BY DEF Shifted
<1>1. IsFiniteSet(T) /\ Cardinality(T) \in Nat /\ IsFiniteSet(R) /\ Cardinality(R) \in Nat
  BY <1>0, IndexSet
<1>2. f \in [U -> R]
  BY <1>0
<1>3. \A j, k \in U : f[j] = f[k] => j = k
  BY <1>0
<1>4. \A y \in R : \E j \in U : f[j] = y
  <2> SUFFICES ASSUME NEW y \in R PROVE \E j \in U : f[j] = y
    OBVIOUS
  <2>1. CASE y < i
    <3>1. y \in 1..(n - 1) /\ y \in U
      BY <1>0, <2>1
    <3>2. f[y] = y
      BY <2>1, <3>1
    <3> QED BY <3>1, <3>2
  <2>2. CASE y > i
    <3>1. y - 1 \in 1..(n - 1) /\ ~(y - 1 < i) /\ y - 1 + 1 = y
      BY <1>0, <2>2
    <3>2. y - 1 \in U
      BY <1>0, <3>1
    <3>3. f[y - 1] = y
      BY <3>1, <3>2
    <3> QED BY <3>2, <3>3
  <2>3. y \in 1..n /\ y # i
    BY <1>0
  <2> QED BY <2>1, <2>2, <2>3
<1>5. f \in Bijection(U, R)
  BY <1>2, <1>3, <1>4 DEF Bijection, Injection, Surjection, IsInjective
<1>6. Cardinality(U) = Cardinality(R)
  <2>1. ExistsBijection(U, R)
    BY <1>5 DEF ExistsBijection
  <2>2. IsFiniteSet(U)
    <3>1. n - 1 \in Nat
      OBVIOUS
    <3> QED BY <1>0, <3>1, IndexSet
  <2> QED BY <1>1, <2>1, <2>2, FS_Bijection
<1> QED
  BY <1>1, <1>6, FS_RemoveElement, FS_CardinalityType, FS_EmptySet


\* What is held, with an entry more and an entry less.
LEMMA Removed ==
  ASSUME NEW h \in Seq(Entry), NEW i \in 1..Len(h)
  PROVE  /\ RemoveAt(h, i) \in Seq(Entry) /\ Len(RemoveAt(h, i)) = Len(h) - 1
         /\ \A j \in 1..(Len(h) - 1) : /\ j < i => RemoveAt(h, i)[j] = h[j]
                                       /\ j >= i => RemoveAt(h, i)[j] = h[j + 1]
<1> DEFINE a == SubSeq(h, 1, i - 1)
           b == SubSeq(h, i + 1, Len(h))
<1>1. a \in Seq(Entry) /\ Len(a) = i - 1 /\ \A j \in 1..(i - 1) : a[j] = h[j]
  BY SubSeqProperties
<1>2. b \in Seq(Entry) /\ Len(b) = Len(h) - i /\ \A j \in 1..(Len(h) - i) : b[j] = h[i + j]
  BY SubSeqProperties
<1>3. RemoveAt(h, i) = a \o b
  BY DEF RemoveAt
<1> HIDE DEF a, b
<1>4. /\ a \o b \in Seq(Entry) /\ Len(a \o b) = Len(a) + Len(b)
      /\ \A j \in 1..(Len(a) + Len(b)) : (a \o b)[j] = IF j <= Len(a) THEN a[j] ELSE b[j - Len(a)]
  BY <1>1, <1>2, ConcatProperties
<1>5. Len(a) + Len(b) = Len(h) - 1 /\ Len(a) = i - 1
  BY <1>1, <1>2
<1>6. ASSUME NEW j \in 1..(Len(h) - 1)
      PROVE  /\ j < i => (a \o b)[j] = h[j]
             /\ j >= i => (a \o b)[j] = h[j + 1]
  <2>1. (a \o b)[j] = IF j <= i - 1 THEN a[j] ELSE b[j - (i - 1)]
    BY <1>4, <1>5
  <2>2. CASE j < i
    <3>1. j \in 1..(i - 1) /\ j <= i - 1 /\ ~(j >= i)
      BY <2>2
    <3> QED BY <1>1, <2>1, <3>1
  <2>3. CASE j >= i
    <3>1. j - (i - 1) \in 1..(Len(h) - i) /\ ~(j <= i - 1) /\ ~(j < i) /\ i + (j - (i - 1)) = j + 1
      BY <2>3
    <3> QED BY <1>2, <2>1, <3>1
  <2> QED BY <2>2, <2>3
<1> QED
  BY <1>3, <1>4, <1>5, <1>6

LEMMA Appended ==
  ASSUME NEW h \in Seq(Entry), NEW e \in Entry
  PROVE  /\ Append(h, e) \in Seq(Entry) /\ Len(Append(h, e)) = Len(h) + 1
         /\ \A j \in 1..Len(h) : Append(h, e)[j] = h[j]
         /\ Append(h, e)[Len(h) + 1] = e
BY AppendProperties

LEMMA Credit == ASSUME NEW e \in Entry, NEW l \in Lanes PROVE CreditsOf(e, l) \in 0..2
BY DEF Entry, Captures, CreditsOf

LEMMA AppendedCredits ==
  ASSUME NEW h \in Seq(Entry), NEW e \in Entry, NEW l \in Lanes
  PROVE  /\ CreditsIn(h, l) \in Nat /\ Cardinality(StagedIn(h, l)) \in Nat
         /\ Cardinality(StagedIn(h, l)) <= CreditsIn(h, l)
         /\ CreditsIn(Append(h, e), l) = CreditsIn(h, l) + CreditsOf(e, l)
         /\ e.t = "delivery" /\ e.lane = l =>
                Cardinality(StagedIn(Append(h, e), l)) = Cardinality(StagedIn(h, l)) + 1
         /\ ~(e.t = "delivery" /\ e.lane = l) =>
                Cardinality(StagedIn(Append(h, e), l)) = Cardinality(StagedIn(h, l))
<1> DEFINE n == Len(h)
           g == Append(h, e)
<1>1. /\ n \in Nat /\ DOMAIN h = 1..n /\ DOMAIN g = 1..(n + 1)
      /\ \A j \in 1..n : g[j] = h[j]
      /\ g[n + 1] = e
  BY Appended
<1>2. CreditsOf(e, l) \in 0..2
  BY Credit
<1>0. n \in Nat
  BY <1>1
<1> HIDE DEF n, g
<1>3. ASSUME NEW x \in 1..2
      PROVE  /\ IsFiniteSet(Crediting(h, l, x)) /\ Cardinality(Crediting(h, l, x)) \in Nat
             /\ x <= CreditsOf(e, l) => Cardinality(Crediting(g, l, x)) = Cardinality(Crediting(h, l, x)) + 1
             /\ ~(x <= CreditsOf(e, l)) => Cardinality(Crediting(g, l, x)) = Cardinality(Crediting(h, l, x))
  <2> DEFINE T == Crediting(h, l, x)
             U == Crediting(g, l, x)
  <2>1. T \subseteq 1..n /\ U \subseteq 1..(n + 1)
    BY <1>1 DEF Crediting
  <2>2. \A j \in 1..n : j \in U <=> j \in T
    BY <1>1 DEF Crediting
  <2>3. n + 1 \in U <=> x <= CreditsOf(e, l)
    BY <1>1 DEF Crediting
  <2> HIDE DEF T, U
  <2>4. Cardinality(U) = Cardinality(T) + (IF n + 1 \in U THEN 1 ELSE 0)
    BY <1>0, <2>1, <2>2, CountAppended
  <2>5. IsFiniteSet(T) /\ Cardinality(T) \in Nat
    BY <1>0, <2>1, IndexSet
  <2> QED BY <2>3, <2>4, <2>5 DEF T, U
<1>4. /\ IsFiniteSet(StagedIn(h, l)) /\ Cardinality(StagedIn(h, l)) \in Nat
      /\ e.t = "delivery" /\ e.lane = l => Cardinality(StagedIn(g, l)) = Cardinality(StagedIn(h, l)) + 1
      /\ ~(e.t = "delivery" /\ e.lane = l) => Cardinality(StagedIn(g, l)) = Cardinality(StagedIn(h, l))
  <2> DEFINE T == StagedIn(h, l)
             U == StagedIn(g, l)
  <2>1. T \subseteq 1..n /\ U \subseteq 1..(n + 1)
    BY <1>1 DEF StagedIn
  <2>2. \A j \in 1..n : j \in U <=> j \in T
    BY <1>1 DEF StagedIn
  <2>3. n + 1 \in U <=> e.t = "delivery" /\ e.lane = l
    BY <1>1 DEF StagedIn
  <2> HIDE DEF T, U
  <2>4. Cardinality(U) = Cardinality(T) + (IF n + 1 \in U THEN 1 ELSE 0)
    BY <1>0, <2>1, <2>2, CountAppended
  <2>5. IsFiniteSet(T) /\ Cardinality(T) \in Nat
    BY <1>0, <2>1, IndexSet
  <2> QED BY <2>3, <2>4, <2>5 DEF T, U
<1>5. Cardinality(StagedIn(h, l)) <= Cardinality(Crediting(h, l, 1))
  <2>1. StagedIn(h, l) \subseteq Crediting(h, l, 1)
    BY DEF StagedIn, Crediting, CreditsOf
  <2> QED BY <1>3, <2>1, FS_Subset
<1>6. CreditsIn(g, l) = CreditsIn(h, l) + CreditsOf(e, l) /\ CreditsIn(h, l) \in Nat
  <2>1. 1 \in 1..2 /\ 2 \in 1..2
    OBVIOUS
  <2> QED BY <1>2, <1>3, <2>1 DEF CreditsIn
<1> QED
  BY <1>3, <1>4, <1>5, <1>6 DEF CreditsIn, g

LEMMA RemovedCredits ==
  ASSUME NEW h \in Seq(Entry), NEW i \in 1..Len(h), NEW l \in Lanes
  PROVE  /\ CreditsIn(h, l) \in Nat /\ Cardinality(StagedIn(h, l)) \in Nat
         /\ CreditsIn(RemoveAt(h, i), l) = CreditsIn(h, l) - CreditsOf(h[i], l)
         /\ CreditsIn(RemoveAt(h, i), l) \in Nat
         /\ h[i].t = "delivery" /\ h[i].lane = l =>
                Cardinality(StagedIn(RemoveAt(h, i), l)) = Cardinality(StagedIn(h, l)) - 1
         /\ ~(h[i].t = "delivery" /\ h[i].lane = l) =>
                Cardinality(StagedIn(RemoveAt(h, i), l)) = Cardinality(StagedIn(h, l))
         /\ Cardinality(StagedIn(RemoveAt(h, i), l)) \in Nat
<1> DEFINE n == Len(h)
           g == RemoveAt(h, i)
           e == h[i]
<1>1. /\ n \in Nat /\ i \in 1..n /\ DOMAIN h = 1..n /\ DOMAIN g = 1..(n - 1)
      /\ \A j \in 1..(n - 1) : /\ j < i => g[j] = h[j]
                               /\ j >= i => g[j] = h[j + 1]
      /\ e \in Entry
  <2>1. g \in Seq(Entry) /\ Len(g) = n - 1
    BY Removed
  <2>2. \A j \in 1..(n - 1) : /\ j < i => g[j] = h[j]
                              /\ j >= i => g[j] = h[j + 1]
    BY Removed
  <2>3. n \in Nat /\ DOMAIN h = 1..n /\ e \in Entry
    OBVIOUS
  <2> HIDE DEF g, n
  <2>4. DOMAIN g = 1..(n - 1)
    BY <2>1, <2>3
  <2> QED BY <2>2, <2>3, <2>4 DEF n
<1>2. CreditsOf(e, l) \in 0..2
  BY <1>1, Credit
<1>0. n \in Nat /\ i \in 1..n
  BY <1>1
<1> HIDE DEF n, g
<1>3. ASSUME NEW x \in 1..2
      PROVE  /\ Cardinality(Crediting(h, l, x)) \in Nat
             /\ x <= CreditsOf(e, l) => /\ Cardinality(Crediting(g, l, x)) = Cardinality(Crediting(h, l, x)) - 1
                                        /\ Cardinality(Crediting(h, l, x)) > 0
             /\ ~(x <= CreditsOf(e, l)) => Cardinality(Crediting(g, l, x)) = Cardinality(Crediting(h, l, x))
  <2> DEFINE T == Crediting(h, l, x)
             U == Crediting(g, l, x)
  <2>1. T \subseteq 1..n /\ U \subseteq 1..(n - 1)
    BY <1>1 DEF Crediting
  <2>2. \A j \in 1..(n - 1) : /\ j < i => (j \in U <=> j \in T)
                              /\ j >= i => (j \in U <=> j + 1 \in T)
    BY <1>1 DEF Crediting
  <2>3. i \in T <=> x <= CreditsOf(e, l)
    BY <1>1 DEF Crediting
  <2> HIDE DEF T, U
  <2>4. Cardinality(T) = Cardinality(U) + (IF i \in T THEN 1 ELSE 0)
    <3>1. Shifted(U, T, i, n)
      BY <2>1, <2>2 DEF Shifted
    <3> QED BY <1>0, <3>1, CountRemoved
  <2>5. Cardinality(T) \in Nat /\ Cardinality(U) \in Nat
    <3>1. n - 1 \in Nat
      BY <1>0
    <3> QED BY <1>0, <2>1, <3>1, IndexSet
  <2> QED BY <2>3, <2>4, <2>5 DEF T, U
<1>4. /\ Cardinality(StagedIn(h, l)) \in Nat
      /\ e.t = "delivery" /\ e.lane = l => /\ Cardinality(StagedIn(g, l)) = Cardinality(StagedIn(h, l)) - 1
                                           /\ Cardinality(StagedIn(h, l)) > 0
      /\ ~(e.t = "delivery" /\ e.lane = l) => Cardinality(StagedIn(g, l)) = Cardinality(StagedIn(h, l))
  <2> DEFINE T == StagedIn(h, l)
             U == StagedIn(g, l)
  <2>1. T \subseteq 1..n /\ U \subseteq 1..(n - 1)
    BY <1>1 DEF StagedIn
  <2>2. \A j \in 1..(n - 1) : /\ j < i => (j \in U <=> j \in T)
                              /\ j >= i => (j \in U <=> j + 1 \in T)
    BY <1>1 DEF StagedIn
  <2>3. i \in T <=> e.t = "delivery" /\ e.lane = l
    BY <1>1 DEF StagedIn
  <2> HIDE DEF T, U
  <2>4. Cardinality(T) = Cardinality(U) + (IF i \in T THEN 1 ELSE 0)
    <3>1. Shifted(U, T, i, n)
      BY <2>1, <2>2 DEF Shifted
    <3> QED BY <1>0, <3>1, CountRemoved
  <2>5. Cardinality(T) \in Nat /\ Cardinality(U) \in Nat
    <3>1. n - 1 \in Nat
      BY <1>0
    <3> QED BY <1>0, <2>1, <3>1, IndexSet
  <2> QED BY <2>3, <2>4, <2>5 DEF T, U
<1>5. /\ CreditsIn(g, l) = CreditsIn(h, l) - CreditsOf(e, l) /\ CreditsIn(h, l) \in Nat
      /\ CreditsIn(g, l) \in Nat
  <2>1. 1 \in 1..2 /\ 2 \in 1..2
    OBVIOUS
  <2> QED BY <1>2, <1>3, <2>1 DEF CreditsIn
<1> QED
  BY <1>4, <1>5 DEF g

(* ------------------------- the client's accounts ------------------------ *)

\* d is c with its accounts of one lane changed.
Moved(d, c, lane, inbox, reserved, owed, staged) ==
    /\ d \in Client /\ d.phase = c.phase /\ d.prefix_failed = c.prefix_failed
    /\ \A l \in Lanes :
           /\ l # lane => /\ d.inbox[l] = c.inbox[l] /\ d.reserved[l] = c.reserved[l]
                          /\ d.owed[l] = c.owed[l] /\ d.staged[l] = c.staged[l]
           /\ l = lane => /\ d.inbox[l] = c.inbox[l] + inbox /\ d.reserved[l] = c.reserved[l] + reserved
                          /\ d.owed[l] = c.owed[l] + owed /\ d.staged[l] = c.staged[l] + staged

LEMMA ClientOps ==
  ASSUME NEW c \in Client, NEW lane \in Lanes, NEW n \in Nat
  PROVE  /\ Moved(Reserve(c, lane, n), c, lane, 0, n, 0, 0)
         /\ n <= c.reserved[lane] => Moved(Release(c, lane, n), c, lane, 0, 0 - n, 0, 0)
         /\ Moved(Owe(c, lane, n), c, lane, 0, 0, n, 0)
         /\ c.owed[lane] > 0 => Moved(Answered(c, lane), c, lane, 0, 0, 0 - 1, 0)
         /\ Moved(Staged(c, lane), c, lane, 0, 0, 0, 1)
         /\ Moved(Deliver(c, lane), c, lane, 1, 0, 0, 0)
         /\ c.staged[lane] > 0 => Moved([c EXCEPT !.staged[lane] = @ - 1], c, lane, 0, 0, 0, 0 - 1)
<1>1. \A l \in Lanes : c.inbox[l] \in Nat /\ c.reserved[l] \in Nat /\ c.owed[l] \in Nat /\ c.staged[l] \in Nat
  BY DEF Client, Counts
<1>2. Moved(Reserve(c, lane, n), c, lane, 0, n, 0, 0)
  BY <1>1 DEF Reserve, Moved, Client, Counts
<1>3. n <= c.reserved[lane] => Moved(Release(c, lane, n), c, lane, 0, 0 - n, 0, 0)
  BY <1>1 DEF Release, Moved, Client, Counts
<1>4. Moved(Owe(c, lane, n), c, lane, 0, 0, n, 0)
  BY <1>1 DEF Owe, Moved, Client, Counts
<1>5. c.owed[lane] > 0 => Moved(Answered(c, lane), c, lane, 0, 0, 0 - 1, 0)
  BY <1>1 DEF Answered, Moved, Client, Counts
<1>6. Moved(Staged(c, lane), c, lane, 0, 0, 0, 1)
  BY <1>1 DEF Staged, Moved, Client, Counts
<1>7. Moved(Deliver(c, lane), c, lane, 1, 0, 0, 0)
  BY <1>1 DEF Deliver, Moved, Client, Counts
<1>8. c.staged[lane] > 0 => Moved([c EXCEPT !.staged[lane] = @ - 1], c, lane, 0, 0, 0, 0 - 1)
  BY <1>1 DEF Moved, Client, Counts
<1> QED
  BY <1>2, <1>3, <1>4, <1>5, <1>6, <1>7, <1>8

LEMMA MovedTwice ==
  ASSUME NEW c \in Client, NEW d, NEW e, NEW lane \in Lanes,
         NEW a1 \in Int, NEW a2 \in Int, NEW a3 \in Int, NEW a4 \in Int,
         NEW b1 \in Int, NEW b2 \in Int, NEW b3 \in Int, NEW b4 \in Int,
         Moved(d, c, lane, a1, a2, a3, a4), Moved(e, d, lane, b1, b2, b3, b4)
  PROVE  Moved(e, c, lane, a1 + b1, a2 + b2, a3 + b3, a4 + b4)
<1>1. \A l \in Lanes : c.inbox[l] \in Nat /\ c.reserved[l] \in Nat /\ c.owed[l] \in Nat /\ c.staged[l] \in Nat
  BY DEF Client, Counts
<1> QED
  BY <1>1 DEF Moved

LEMMA BooksTyped ==
  ASSUME NEW c \in Client, NEW h \in Seq(Entry), NEW lane \in Lanes
  PROVE  /\ c.inbox[lane] \in Nat /\ c.reserved[lane] \in Nat /\ c.owed[lane] \in Nat /\ c.staged[lane] \in Nat
         /\ Capacity[lane] \in Nat /\ CreditsIn(h, lane) \in Nat /\ Cardinality(StagedIn(h, lane)) \in Nat
         /\ Cardinality(StagedIn(h, lane)) <= CreditsIn(h, lane)
<1>1. c.inbox[lane] \in Nat /\ c.reserved[lane] \in Nat /\ c.owed[lane] \in Nat /\ c.staged[lane] \in Nat
  BY DEF Client, Counts
<1>2. Capacity[lane] \in Nat
  BY MaintenanceAssumption DEF Capacity, Lanes
<1>3. /\ CreditsIn(h, lane) \in Nat /\ Cardinality(StagedIn(h, lane)) \in Nat
      /\ Cardinality(StagedIn(h, lane)) <= CreditsIn(h, lane)
  <2>1. Delivery(lane) \in Entry
    BY DEF Delivery, Entry
  <2> QED BY <2>1, AppendedCredits
<1> QED BY <1>1, <1>2, <1>3

\* What is held has changed by credits and deliveries of one lane.
Grown(g, h, lane, credits, staged) ==
    \A l \in Lanes :
        /\ l # lane => CreditsIn(g, l) = CreditsIn(h, l) /\ Cardinality(StagedIn(g, l)) = Cardinality(StagedIn(h, l))
        /\ l = lane => /\ CreditsIn(g, l) = CreditsIn(h, l) + credits
                       /\ Cardinality(StagedIn(g, l)) = Cardinality(StagedIn(h, l)) + staged

Balanced(inbox, reserved, owed, staged, credits, x, y) ==
    /\ inbox \in Int /\ reserved \in Int /\ owed \in Int /\ staged \in Int
    /\ credits \in Int /\ x \in Int /\ y \in Int
    /\ reserved + x = owed + credits + y

Fits(c, lane, inbox, reserved) == c.inbox[lane] + inbox + c.reserved[lane] + reserved <= Capacity[lane]

\* An entry in the books: what is held grows by credits of one lane, of which
\* some stand behind a delivery.
LEMMA Entered ==
  ASSUME NEW c \in Client, NEW d, NEW h \in Seq(Entry), NEW g \in Seq(Entry), NEW lane \in Lanes,
         NEW ib, NEW re, NEW ow, NEW sd, NEW cr, NEW x, NEW y,
         Moved(d, c, lane, ib, re, ow, sd), Books(c, h, lane, x), Grown(g, h, lane, cr, sd),
         Balanced(ib, re, ow, sd, cr, x, y), Fits(c, lane, ib, re)
  PROVE  Books(d, g, lane, y)
<1> SUFFICES ASSUME NEW l \in Lanes
             PROVE /\ d.staged[l] = Cardinality(StagedIn(g, l))
                   /\ d.reserved[l] = d.owed[l] + CreditsIn(g, l) + (IF l = lane THEN y ELSE 0)
                   /\ d.inbox[l] + d.reserved[l] <= Capacity[l]
  BY DEF Books
<1>0. /\ d \in Client
      /\ ib \in Int /\ re \in Int /\ ow \in Int /\ sd \in Int /\ cr \in Int /\ x \in Int /\ y \in Int
      /\ re + x = ow + cr + y
  BY DEF Moved, Balanced
<1>1. /\ c.inbox[l] \in Nat /\ c.reserved[l] \in Nat /\ c.owed[l] \in Nat /\ c.staged[l] \in Nat
      /\ Capacity[l] \in Nat /\ CreditsIn(h, l) \in Nat /\ Cardinality(StagedIn(h, l)) \in Nat
  BY BooksTyped
<1>2. CreditsIn(g, l) \in Nat /\ Cardinality(StagedIn(g, l)) \in Nat
  BY <1>0, BooksTyped
<1>3. /\ c.staged[l] = Cardinality(StagedIn(h, l))
      /\ c.reserved[l] = c.owed[l] + CreditsIn(h, l) + (IF l = lane THEN x ELSE 0)
      /\ c.inbox[l] + c.reserved[l] <= Capacity[l]
  BY DEF Books
<1>4. CASE l = lane
  <2>1. /\ d.inbox[l] = c.inbox[l] + ib /\ d.reserved[l] = c.reserved[l] + re
        /\ d.owed[l] = c.owed[l] + ow /\ d.staged[l] = c.staged[l] + sd
    BY <1>4 DEF Moved
  <2>2. /\ CreditsIn(g, l) = CreditsIn(h, l) + cr
        /\ Cardinality(StagedIn(g, l)) = Cardinality(StagedIn(h, l)) + sd
        /\ c.inbox[l] + ib + c.reserved[l] + re <= Capacity[l]
    BY <1>4 DEF Grown, Fits
  <2>3. d.staged[l] = Cardinality(StagedIn(g, l))
    BY <1>3, <2>1, <2>2
  <2>4. d.reserved[l] = d.owed[l] + CreditsIn(g, l) + y
    <3> DEFINE pledged == c.reserved[l]
               q == c.owed[l]
               m == CreditsIn(h, l)
    <3>1. pledged \in Nat /\ q \in Nat /\ m \in Nat /\ pledged = q + m + x
      BY <1>1, <1>3, <1>4
    <3>2. d.reserved[l] = pledged + re /\ d.owed[l] = q + ow /\ CreditsIn(g, l) = m + cr
      BY <2>1, <2>2
    <3> HIDE DEF pledged, q, m
    <3>3. pledged + re = (q + m) + (re + x)
      BY <1>0, <3>1
    <3>4. (q + m) + (ow + cr + y) = (q + ow) + (m + cr) + y
      BY <1>0, <3>1
    <3> QED BY <1>0, <3>1, <3>2, <3>3, <3>4
  <2>5. d.inbox[l] + d.reserved[l] <= Capacity[l]
    <3> DEFINE pledged == c.inbox[l]
               q == c.reserved[l]
               m == Capacity[l]
    <3>1. pledged \in Nat /\ q \in Nat /\ m \in Nat /\ pledged + ib + q + re <= m
      BY <1>1, <2>2
    <3>2. d.inbox[l] = pledged + ib /\ d.reserved[l] = q + re
      BY <2>1
    <3> HIDE DEF pledged, q, m
    <3>3. (pledged + ib) + (q + re) <= m
      BY <1>0, <3>1
    <3> QED BY <3>2, <3>3 DEF m
  <2> QED BY <1>4, <2>3, <2>4, <2>5
<1>5. CASE l # lane
  <2>1. /\ d.inbox[l] = c.inbox[l] /\ d.reserved[l] = c.reserved[l]
        /\ d.owed[l] = c.owed[l] /\ d.staged[l] = c.staged[l]
    BY <1>5 DEF Moved
  <2>2. CreditsIn(g, l) = CreditsIn(h, l) /\ Cardinality(StagedIn(g, l)) = Cardinality(StagedIn(h, l))
    BY <1>5 DEF Grown
  <2> QED BY <1>1, <1>2, <1>3, <1>5, <2>1, <2>2
<1> QED BY <1>4, <1>5

LEMMA GrownBy ==
  ASSUME NEW h \in Seq(Entry), NEW lane \in Lanes
  PROVE  /\ Delivery(lane) \in Entry /\ Append(h, Delivery(lane)) \in Seq(Entry)
         /\ Grown(h, h, lane, 0, 0)
         /\ Grown(Append(h, Delivery(lane)), h, lane, 1, 1)
<1>1. Delivery(lane) \in Entry
  BY DEF Delivery, Entry
<1>2. Append(h, Delivery(lane)) \in Seq(Entry)
  BY <1>1, Appended
<1>3. Grown(h, h, lane, 0, 0)
  <2>1. \A l \in Lanes : CreditsIn(h, l) \in Nat /\ Cardinality(StagedIn(h, l)) \in Nat
    BY <1>1, AppendedCredits
  <2> QED BY <2>1 DEF Grown
<1>4. Grown(Append(h, Delivery(lane)), h, lane, 1, 1)
  <2>0. /\ Delivery(lane).t = "delivery" /\ Delivery(lane).lane = lane
        /\ \A l \in Lanes : CreditsOf(Delivery(lane), l) = IF l = lane THEN 1 ELSE 0
    BY DEF Delivery, CreditsOf
  <2> DEFINE e == Delivery(lane)
  <2> HIDE DEF e
  <2>1. ASSUME NEW l \in Lanes
        PROVE  /\ CreditsIn(h, l) \in Nat /\ Cardinality(StagedIn(h, l)) \in Nat
               /\ CreditsIn(Append(h, e), l) = CreditsIn(h, l) + CreditsOf(e, l)
               /\ e.t = "delivery" /\ e.lane = l =>
                      Cardinality(StagedIn(Append(h, e), l)) = Cardinality(StagedIn(h, l)) + 1
               /\ ~(e.t = "delivery" /\ e.lane = l) =>
                      Cardinality(StagedIn(Append(h, e), l)) = Cardinality(StagedIn(h, l))
    <3>1. e \in Entry
      BY <1>1 DEF e
    <3> QED BY <3>1, AppendedCredits
  <2>2. e.t = "delivery" /\ e.lane = lane /\ \A l \in Lanes : CreditsOf(e, l) = IF l = lane THEN 1 ELSE 0
    BY <2>0 DEF e
  <2>3. Grown(Append(h, e), h, lane, 1, 1)
    BY <2>1, <2>2 DEF Grown
  <2> QED BY <2>3 DEF e
<1> QED
  BY <1>1, <1>2, <1>3, <1>4

\* r is s after a reply that was owed, and may have been sent.
Replied(r, s, lane) ==
    /\ r.cl \in Client /\ r.held \in Seq(Entry) /\ Books(r.cl, r.held, lane, 0)
    /\ r.cl.phase = s.cl.phase /\ r.cl.prefix_failed = s.cl.prefix_failed /\ r.got = s.got
    /\ r.held = s.held \/ (Protected(s) /\ r.held = Append(s.held, Delivery(lane)))
    /\ Protected(s) => \A l \in Lanes : r.cl.inbox[l] = s.cl.inbox[l]

LEMMA Replying ==
  ASSUME NEW s \in HostState, NEW lane \in Lanes, Books(s.cl, s.held, lane, 0), s.cl.owed[lane] > 0
  PROVE  Replied(SendReply(s, lane), s, lane)
<1> DEFINE c == s.cl
           h == s.held
           counted == [s EXCEPT !.cl = Answered(@, lane)]
           a == Answered(c, lane)
           g == Append(h, Delivery(lane))
<1>1. c \in Client /\ h \in Seq(Entry) /\ s.on \in BOOLEAN
  BY DEF HostState
<1>2. /\ c.inbox[lane] \in Nat /\ c.reserved[lane] \in Nat /\ c.owed[lane] \in Nat /\ c.staged[lane] \in Nat
      /\ Capacity[lane] \in Nat /\ CreditsIn(h, lane) \in Nat /\ Cardinality(StagedIn(h, lane)) \in Nat
      /\ Cardinality(StagedIn(h, lane)) <= CreditsIn(h, lane)
  BY <1>1, BooksTyped
<1>3. /\ c.staged[lane] = Cardinality(StagedIn(h, lane)) /\ c.reserved[lane] = c.owed[lane] + CreditsIn(h, lane)
      /\ c.inbox[lane] + c.reserved[lane] <= Capacity[lane] /\ c.owed[lane] > 0
  BY <1>2 DEF Books
<1>4. Moved(a, c, lane, 0, 0, 0 - 1, 0)
  BY <1>1, <1>3, ClientOps, 0 \in Nat
<1>5. /\ counted.cl = a /\ counted.held = h /\ counted.got = s.got /\ counted \in HostState
      /\ a \in Client /\ a.reserved[lane] = c.reserved[lane] /\ a.staged[lane] = c.staged[lane]
  <2>1. /\ a \in Client /\ a.reserved[lane] = c.reserved[lane] /\ a.staged[lane] = c.staged[lane]
    BY <1>2, <1>4 DEF Moved
  <2> HIDE DEF a
  <2>2. counted = [s EXCEPT !.cl = a]
    BY DEF a
  <2> QED BY <2>1, <2>2 DEF HostState
<1>6. Grown(h, h, lane, 0, 0) /\ Grown(g, h, lane, 1, 1) /\ g \in Seq(Entry) /\ Delivery(lane) \in Entry
  BY <1>1, GrownBy
<1> HIDE DEF a, counted, g
<1>7. CASE Protected(s)
  <2>1. CASE CanStage(s, lane, TRUE)
    <3> DEFINE d == Staged(a, lane)
    <3>1. SendReply(s, lane) = [counted EXCEPT !.cl = d, !.held = g]
      <4>1. ~NeedsCredit(a, lane, TRUE)
        BY <1>2, <1>3, <1>5 DEF NeedsCredit
      <4>2. Stage(counted, lane, TRUE) = [counted EXCEPT !.cl = d, !.held = g]
        BY <1>5, <4>1 DEF Stage, g
      <4> QED BY <1>7, <2>1, <4>2 DEF SendReply, counted
    <3>2. Moved(d, a, lane, 0, 0, 0, 1)
      BY <1>5, ClientOps, 0 \in Nat
    <3> HIDE DEF d
    <3>3. Moved(d, c, lane, 0 + 0, 0 + 0, (0 - 1) + 0, 0 + 1)
      BY <1>1, <1>4, <3>2, MovedTwice, 0 \in Int, 1 \in Int, 0 - 1 \in Int
    <3>4. Moved(d, c, lane, 0, 0, 0 - 1, 1)
      BY <3>3
    <3>5. Books(d, g, lane, 0)
      <4>1. Balanced(0, 0, 0 - 1, 1, 1, 0, 0) /\ Fits(c, lane, 0, 0)
        BY <1>2, <1>3 DEF Balanced, Fits
      <4> QED BY <1>1, <1>6, <3>4, <4>1, Entered
    <3>6. d \in Client /\ d.phase = c.phase /\ d.prefix_failed = c.prefix_failed /\ \A l \in Lanes : d.inbox[l] = c.inbox[l]
      BY <1>1, <3>4 DEF Moved, Client, Counts
    <3> DEFINE r == SendReply(s, lane)
    <3>7. r.cl = d /\ r.held = g /\ r.got = s.got
      BY <1>5, <3>1 DEF HostState
    <3> HIDE DEF r
    <3>8. Replied(r, s, lane)
      BY <1>6, <1>7, <3>5, <3>6, <3>7 DEF Replied, g
    <3> QED BY <3>8 DEF r
  <2>2. CASE ~CanStage(s, lane, TRUE)
    <3>1. SendReply(s, lane) = s
      BY <1>7, <2>2 DEF SendReply
    <3>2. Replied(s, s, lane)
      BY <1>1 DEF Replied
    <3> QED BY <3>1, <3>2
  <2> QED BY <2>1, <2>2
<1>8. CASE ~Protected(s)
  <2> DEFINE b == Release(a, lane, 1)
             d == Deliver(b, lane)
  <2>1. Moved(b, a, lane, 0, 0 - 1, 0, 0)
    <3>1. 1 <= a.reserved[lane]
      BY <1>2, <1>3, <1>5
    <3> QED BY <1>5, <3>1, ClientOps, 1 \in Nat
  <2>2. Moved(b, c, lane, 0, 0 - 1, 0 - 1, 0)
    <3>1. Moved(b, c, lane, 0 + 0, 0 + (0 - 1), (0 - 1) + 0, 0 + 0)
      BY <1>1, <1>4, <2>1, MovedTwice, 0 \in Int, 0 - 1 \in Int
    <3> QED BY <3>1
  <2>3. b \in Client
    BY <2>2 DEF Moved
  <2>4. Moved(d, b, lane, 1, 0, 0, 0)
    BY <2>3, ClientOps, 0 \in Nat
  <2> HIDE DEF b, d
  <2>5. Moved(d, c, lane, 1, 0 - 1, 0 - 1, 0)
    <3>1. Moved(d, c, lane, 0 + 1, (0 - 1) + 0, (0 - 1) + 0, 0 + 0)
      BY <1>1, <2>2, <2>4, MovedTwice, 0 \in Int, 1 \in Int, 0 - 1 \in Int
    <3> QED BY <3>1
  <2>6. Books(b, h, lane, 0) /\ Books(d, h, lane, 0)
    <3>0. /\ Balanced(0, 0 - 1, 0 - 1, 0, 0, 0, 0) /\ Balanced(1, 0 - 1, 0 - 1, 0, 0, 0, 0)
          /\ Fits(c, lane, 0, 0 - 1) /\ Fits(c, lane, 1, 0 - 1)
      BY <1>2, <1>3 DEF Balanced, Fits
    <3>1. Books(b, h, lane, 0)
      BY <1>1, <1>6, <2>2, <3>0, Entered
    <3>2. Books(d, h, lane, 0)
      BY <1>1, <1>6, <2>5, <3>0, Entered
    <3> QED BY <3>1, <3>2
  <2>7. /\ b \in Client /\ b.phase = c.phase /\ b.prefix_failed = c.prefix_failed
        /\ d \in Client /\ d.phase = c.phase /\ d.prefix_failed = c.prefix_failed
    BY <2>2, <2>5 DEF Moved
  <2>8. \/ SendReply(s, lane) = [counted EXCEPT !.cl = b]
        \/ SendReply(s, lane) = [counted EXCEPT !.cl = d]
    BY <1>5, <1>8 DEF SendReply, counted, b, d
  <2> DEFINE r == SendReply(s, lane)
  <2>9. (r.cl = b \/ r.cl = d) /\ r.held = h /\ r.got = s.got
    BY <1>5, <2>8 DEF HostState
  <2> HIDE DEF r
  <2>10. Replied(r, s, lane)
    BY <1>1, <1>8, <2>6, <2>7, <2>9 DEF Replied
  <2> QED BY <2>10 DEF r
<1> QED BY <1>7, <1>8

\* r is s after message m of src, whose credits s has not entered yet.
Processed(r, s, src, m) ==
    /\ r.cl \in Client /\ r.held \in Seq(Entry) /\ Books(r.cl, r.held, ReplyLane(src), 0)
    /\ r.cl.phase = s.cl.phase /\ r.cl.prefix_failed = s.cl.prefix_failed
    /\ r.got = Heard(s.got, src, m)
    /\ r.held = s.held \/ (Protected(s) /\ r.held = Append(s.held, Delivery(ReplyLane(src))))

LEMMA Processing ==
  ASSUME NEW s \in HostState, NEW src \in Sources, NEW m \in Message,
         Books(s.cl, s.held, ReplyLane(src), IF src \in Pumped THEN m.k ELSE 0)
  PROVE  Processed(Process(s, src, m), s, src, m)
<1> DEFINE lane == ReplyLane(src)
           heard == [s EXCEPT !.got = Heard(@, src, m)]
           c == s.cl
           h == s.held
           o == Owe(c, lane, m.k)
           owing == [heard EXCEPT !.cl = Owe(@, lane, m.k)]
<1>1. c \in Client /\ h \in Seq(Entry) /\ lane \in Lanes /\ m.n \in Nat /\ m.k \in 0..2
  BY DEF HostState, Message, ReplyLane, Lanes
<1>2. heard \in HostState /\ heard.cl = c /\ heard.held = h /\ heard.got = Heard(s.got, src, m) /\ heard.on = s.on
  <2>1. Heard(s.got, src, m) \in [Sources -> Nat]
    BY <1>1 DEF HostState, Heard
  <2> DEFINE g == Heard(s.got, src, m)
  <2> HIDE DEF g
  <2>2. [s EXCEPT !.got = g] \in HostState /\ [s EXCEPT !.got = g].got = g
    BY <2>1 DEF HostState, g
  <2> QED BY <2>2 DEF HostState, g
<1>3. CASE src \notin Pumped
  <2>1. Process(s, src, m) = heard
    BY <1>3 DEF Process
  <2>2. Books(c, h, lane, 0)
    BY <1>3
  <2> HIDE DEF lane, heard, c, h
  <2>3. Processed(heard, s, src, m)
    BY <1>1, <1>2, <2>2 DEF Processed, c, h, lane
  <2> QED BY <2>1, <2>3
<1>4. CASE src \in Pumped
  <2>1. Books(c, h, lane, m.k)
    BY <1>4
  <2>2. Moved(o, c, lane, 0, 0, m.k, 0)
    <3>1. m.k \in Nat
      BY <1>1
    <3> QED BY <1>1, <3>1, ClientOps
  <2>3. /\ owing \in HostState /\ owing.cl = o /\ owing.held = h /\ owing.got = heard.got /\ owing.on = s.on
        /\ o \in Client /\ o.phase = c.phase /\ o.prefix_failed = c.prefix_failed
    <3>1. o \in Client /\ o.phase = c.phase /\ o.prefix_failed = c.prefix_failed
      BY <2>2 DEF Moved
    <3>2. owing = [heard EXCEPT !.cl = o]
      BY <1>2
    <3> HIDE DEF owing, heard, o
    <3> QED BY <1>2, <3>1, <3>2 DEF HostState
  <2>4. Books(o, h, lane, 0)
    <3>1. Balanced(0, 0, m.k, 0, 0, m.k, 0)
      BY <1>1 DEF Balanced
    <3>2. Fits(c, lane, 0, 0)
      BY <1>1, <2>1, BooksTyped DEF Fits, Books
    <3>3. Grown(h, h, lane, 0, 0)
      BY <1>1, GrownBy
    <3> HIDE DEF lane, o, c, h
    <3> QED BY <1>1, <2>1, <2>2, <3>1, <3>2, <3>3, Entered
  <2>5. CASE m.k = 2
    <3> DEFINE r == SendReply(owing, lane)
    <3>1. Process(s, src, m) = r
      BY <1>4, <2>5 DEF Process
    <3>2. o.owed[lane] > 0
      BY <1>1, <2>2, <2>5 DEF Moved, Client, Counts
    <3> HIDE DEF owing, o, heard, lane, c, h
    <3>3. Replied(r, owing, lane)
      BY <1>1, <2>3, <2>4, <3>2, Replying
    <3> HIDE DEF r
    <3>4. Protected(owing) <=> Protected(s)
      BY <2>3 DEF Protected, Terminal, c
    <3>5. Processed(r, s, src, m)
      BY <1>2, <2>3, <3>3, <3>4 DEF Replied, Processed, lane, c, h
    <3> QED BY <3>1, <3>5
  <2>6. CASE m.k # 2
    <3>1. Process(s, src, m) = owing
      BY <1>4, <2>6 DEF Process
    <3> HIDE DEF owing, o, heard, lane, c, h
    <3>2. Processed(owing, s, src, m)
      BY <1>1, <1>2, <2>3, <2>4 DEF Processed, lane, c, h
    <3> QED BY <3>1, <3>2
  <2> QED BY <2>5, <2>6
<1> QED BY <1>3, <1>4

(* ------------------------------ the order ------------------------------- *)

LEMMA Caught ==
  ASSUME NEW h \in Seq(Entry), NEW s
  PROVE  \A i \in CapturesOf(h, s) : i \in 1..Len(h) /\ h[i] \in Captures /\ h[i].m.n \in Nat
BY DEF CapturesOf, Entry, Captures, Message

LEMMA OrderIsLine ==
  ASSUME Typed
  PROVE  SourceOrder <=> Lined
<1> SUFFICES ASSUME NEW s \in Sources
             PROVE  ({held[i].m.n : i \in CapturesOf(held, s)} = (got[s] + 1)..TakenFrom(s))
                      <=> /\ \A i \in CapturesOf(held, s) : held[i].m.n > got[s] /\ held[i].m.n <= TakenFrom(s)
                          /\ \A x \in 1..TakenFrom(s) : x > got[s] =>
                                 \E i \in CapturesOf(held, s) : held[i].m.n = x
  BY DEF SourceOrder, Lined, Line, Queue
<1> DEFINE t == TakenFrom(s)
           g == got[s]
           C == CapturesOf(held, s)
           N(i) == held[i].m.n
<1>1. t \in Int /\ g \in Nat
  <2>1. posted[s] \in Nat /\ Len(box[s]) \in Nat
    BY MaintenanceAssumption DEF Typed
  <2> QED BY <2>1 DEF TakenFrom, Typed
<1>2. \A i \in C : N(i) \in Nat
  BY Caught DEF Typed
<1> HIDE DEF t, g, C, N
<1>3. ({N(i) : i \in C} = (g + 1)..t)
        <=> /\ \A i \in C : N(i) > g /\ N(i) <= t
            /\ \A x \in 1..t : x > g => \E i \in C : N(i) = x
  <2>1. ASSUME {N(i) : i \in C} = (g + 1)..t
        PROVE  /\ \A i \in C : N(i) > g /\ N(i) <= t
               /\ \A x \in 1..t : x > g => \E i \in C : N(i) = x
    <3>1. \A i \in C : N(i) \in (g + 1)..t
      BY <2>1
    <3>2. \A x \in (g + 1)..t : \E i \in C : N(i) = x
      BY <2>1
    <3>3. \A y : y \in (g + 1)..t <=> y \in 1..t /\ y > g
      BY <1>1
    <3> HIDE DEF N
    <3> QED BY <3>1, <3>2, <3>3
  <2>2. ASSUME \A i \in C : N(i) > g /\ N(i) <= t,
               \A x \in 1..t : x > g => \E i \in C : N(i) = x
        PROVE  {N(i) : i \in C} = (g + 1)..t
    <3>0. \A y : y \in (g + 1)..t <=> y \in 1..t /\ y > g
      BY <1>1
    <3>1. \A i \in C : N(i) \in (g + 1)..t
      BY <1>1, <1>2, <2>2
    <3>2. \A x \in (g + 1)..t : \E i \in C : N(i) = x
      BY <2>2, <3>0
    <3> QED BY <3>1, <3>2
  <2> QED BY <2>1, <2>2
<1> QED BY <1>3 DEF t, g, C, N

LEMMA LineAppended ==
  ASSUME NEW h \in Seq(Entry), NEW e \in Entry, NEW s, NEW g \in Nat, NEW t \in Int, Line(g, t, h, s)
  PROVE  /\ ~(e.t = "capture" /\ e.src = s) => Line(g, t, Append(h, e), s)
         /\ e.t = "capture" /\ e.src = s /\ e.m.n = t + 1 => Line(g, t + 1, Append(h, e), s)
<1> DEFINE n == Len(h)
           k == Append(h, e)
           C == CapturesOf(h, s)
           D == CapturesOf(k, s)
<1>1. n \in Nat /\ DOMAIN h = 1..n /\ DOMAIN k = 1..(n + 1) /\ (\A j \in 1..n : k[j] = h[j]) /\ k[n + 1] = e
  BY Appended
<1>2. \A j \in C : j \in 1..n /\ h[j].m.n \in Nat
  BY Caught
<1> HIDE DEF k, n
<1>3. \A j \in 1..n : j \in D <=> j \in C
  BY <1>1 DEF CapturesOf
<1>4. n + 1 \in D <=> e.t = "capture" /\ e.src = s
  BY <1>1 DEF CapturesOf
<1>5. \A j \in D : j \in 1..n \/ j = n + 1
  BY <1>1 DEF CapturesOf
<1>6. /\ g <= t
      /\ \A i \in C : h[i].m.n > g /\ h[i].m.n <= t
      /\ \A x \in 1..t : x > g => \E i \in C : h[i].m.n = x
      /\ \A i, j \in C : i < j => h[i].m.n < h[j].m.n
  BY DEF Line
<1> HIDE DEF C, D
<1>7. ASSUME ~(e.t = "capture" /\ e.src = s)
      PROVE  Line(g, t, k, s)
  <2>1. \A j \in D : j \in C /\ k[j] = h[j]
    BY <1>1, <1>3, <1>4, <1>5, <1>7
  <2>2. \A j \in C : j \in D /\ k[j] = h[j]
    BY <1>1, <1>2, <1>3
  <2>3. /\ \A i \in D : k[i].m.n > g /\ k[i].m.n <= t
        /\ \A x \in 1..t : x > g => \E i \in D : k[i].m.n = x
        /\ \A i, j \in D : i < j => k[i].m.n < k[j].m.n
    BY <1>6, <2>1, <2>2
  <2> QED BY <1>6, <2>3 DEF Line, D
<1>8. ASSUME e.t = "capture", e.src = s, e.m.n = t + 1
      PROVE  Line(g, t + 1, k, s)
  <2>1. \A j \in D : (j \in C /\ k[j] = h[j] /\ j \in 1..n) \/ (j = n + 1 /\ k[j].m.n = t + 1)
    BY <1>1, <1>3, <1>5, <1>8
  <2>2. \A j \in C : j \in D /\ k[j] = h[j]
    BY <1>1, <1>2, <1>3
  <2>3. n + 1 \in D /\ k[n + 1].m.n = t + 1
    BY <1>1, <1>4, <1>8
  <2>4. \A i \in D : k[i].m.n > g /\ k[i].m.n <= t + 1
    BY <1>2, <1>6, <2>1
  <2>5. \A x \in 1..(t + 1) : x > g => \E i \in D : k[i].m.n = x
    <3> SUFFICES ASSUME NEW x \in 1..(t + 1), x > g
                 PROVE  \E i \in D : k[i].m.n = x
      OBVIOUS
    <3>1. CASE x <= t
      <4>1. PICK i \in C : h[i].m.n = x
        BY <1>6, <3>1
      <4> QED BY <2>2, <4>1
    <3>2. CASE x = t + 1
      BY <2>3, <3>2
    <3> QED BY <3>1, <3>2
  <2>6. \A i, j \in D : i < j => k[i].m.n < k[j].m.n
    <3> SUFFICES ASSUME NEW i \in D, NEW j \in D, i < j
                 PROVE  k[i].m.n < k[j].m.n
      OBVIOUS
    <3>1. i \in C /\ k[i] = h[i] /\ i \in 1..n
      BY <1>1, <2>1
    <3>2. CASE j \in C /\ k[j] = h[j]
      BY <1>6, <3>1, <3>2
    <3>3. CASE k[j].m.n = t + 1
      BY <1>2, <1>6, <3>1, <3>3
    <3> QED BY <2>1, <3>2, <3>3
  <2> QED BY <1>6, <2>4, <2>5, <2>6 DEF Line, D
<1> QED BY <1>7, <1>8 DEF k

LEMMA LineRemoved ==
  ASSUME NEW h \in Seq(Entry), NEW i \in 1..Len(h), NEW s, NEW g \in Nat, NEW t \in Int, Line(g, t, h, s)
  PROVE  /\ i \notin CapturesOf(h, s) => Line(g, t, RemoveAt(h, i), s)
         /\ i \in CapturesOf(h, s) /\ (\A j \in CapturesOf(h, s) : j >= i) =>
                h[i].m.n = g + 1 /\ Line(g + 1, t, RemoveAt(h, i), s)
<1> DEFINE n == Len(h)
           k == RemoveAt(h, i)
           C == CapturesOf(h, s)
           D == CapturesOf(k, s)
           f(j) == IF j < i THEN j ELSE j + 1
           b(j) == IF j < i THEN j ELSE j - 1
<1>1. /\ n \in Nat /\ i \in 1..n /\ DOMAIN h = 1..n /\ DOMAIN k = 1..(n - 1)
      /\ \A j \in 1..(n - 1) : k[j] = h[f(j)]
  <2>1. k \in Seq(Entry) /\ Len(k) = n - 1
    BY Removed
  <2>2. \A j \in 1..(n - 1) : k[j] = h[f(j)]
    <3>1. \A j \in 1..(n - 1) : /\ j < i => k[j] = h[j]
                                /\ j >= i => k[j] = h[j + 1]
      BY Removed
    <3> HIDE DEF k, n
    <3>2. n \in Nat
      BY DEF n
    <3> QED BY <3>1, <3>2
  <2>3. n \in Nat /\ DOMAIN h = 1..n
    OBVIOUS
  <2> HIDE DEF k, n
  <2>4. DOMAIN k = 1..(n - 1)
    BY <2>1, <2>3
  <2> QED BY <2>2, <2>3, <2>4 DEF n
<1>2. \A j \in C : j \in 1..n /\ h[j].m.n \in Nat
  BY Caught
<1> HIDE DEF k, n
<1>3. \A j \in D : f(j) \in C /\ f(j) # i /\ k[j] = h[f(j)] /\ j \in 1..(n - 1)
  BY <1>1 DEF CapturesOf
<1>4. \A j \in C : j # i => b(j) \in D /\ k[b(j)] = h[j]
  <2> SUFFICES ASSUME NEW j \in C, j # i PROVE b(j) \in D /\ k[b(j)] = h[j]
    OBVIOUS
  <2>1. b(j) \in 1..(n - 1) /\ f(b(j)) = j
    BY <1>1, <1>2
  <2>2. k[b(j)] = h[j]
    BY <1>1, <2>1
  <2> HIDE DEF b, f
  <2>3. b(j) \in D
    BY <1>1, <2>1, <2>2 DEF CapturesOf
  <2> QED BY <2>2, <2>3
<1>5. \A x, y \in D : x < y => f(x) < f(y)
  BY <1>3
<1>6. /\ g <= t
      /\ \A x \in C : h[x].m.n > g /\ h[x].m.n <= t
      /\ \A x \in 1..t : x > g => \E y \in C : h[y].m.n = x
      /\ \A x, y \in C : x < y => h[x].m.n < h[y].m.n
  BY DEF Line
<1> HIDE DEF C, D, f, b
<1>7. \A x, y \in D : x < y => k[x].m.n < k[y].m.n
  BY <1>3, <1>5, <1>6
<1>8. ASSUME i \notin C
      PROVE  Line(g, t, k, s)
  <2>1. \A x \in D : k[x].m.n > g /\ k[x].m.n <= t
    BY <1>3, <1>6
  <2>2. \A x \in 1..t : x > g => \E y \in D : k[y].m.n = x
    BY <1>4, <1>6, <1>8
  <2> QED BY <1>6, <1>7, <2>1, <2>2 DEF Line, D
<1>9. ASSUME i \in C, \A j \in C : j >= i
      PROVE  h[i].m.n = g + 1 /\ Line(g + 1, t, k, s)
  <2>1. \A j \in C : j # i => h[i].m.n < h[j].m.n
    BY <1>1, <1>2, <1>6, <1>9
  <2>2. h[i].m.n = g + 1 /\ g + 1 <= t
    <3>1. h[i].m.n > g /\ h[i].m.n <= t /\ h[i].m.n \in Nat
      BY <1>2, <1>6, <1>9
    <3>2. PICK y \in C : h[y].m.n = g + 1
      BY <1>6, <3>1, g + 1 \in 1..t
    <3>3. y # i => FALSE
      BY <1>2, <2>1, <3>1, <3>2
    <3> QED BY <3>1, <3>2, <3>3
  <2>3. \A x \in D : k[x].m.n > g + 1 /\ k[x].m.n <= t
    BY <1>2, <1>3, <1>6, <2>1, <2>2
  <2>4. \A x \in 1..t : x > g + 1 => \E y \in D : k[y].m.n = x
    <3> SUFFICES ASSUME NEW x \in 1..t, x > g + 1 PROVE \E y \in D : k[y].m.n = x
      OBVIOUS
    <3>1. PICK y \in C : h[y].m.n = x
      BY <1>6
    <3>2. y # i
      BY <2>2, <3>1
    <3> QED BY <1>4, <3>1, <3>2
  <2> QED BY <1>7, <2>2, <2>3, <2>4 DEF Line, D
<1> QED BY <1>8, <1>9 DEF k, C

\* A message that is taken when nothing of its source is held.
LEMMA LineDirect ==
  ASSUME NEW h, NEW s, NEW g \in Nat, NEW t \in Int, Line(g, t, h, s), CapturesOf(h, s) = {}
  PROVE  g = t /\ Line(g + 1, t + 1, h, s)
<1>1. g = t
  <2>1. g <= t /\ \A x \in 1..t : ~(x > g)
    BY DEF Line
  <2>2. ~(g + 1 <= t)
    BY <2>1
  <2> QED BY <2>1, <2>2
<1> QED BY <1>1 DEF Line

LEMMA QueueOps ==
  ASSUME NEW q \in Seq(Message), NEW t \in Int, Queue(q, t)
  PROVE  /\ \A k \in 0..2 : Queue(Append(q, [n |-> t + Len(q) + 1, k |-> k]), t)
         /\ q # <<>> => /\ Head(q) \in Message /\ Head(q).n = t + 1 /\ Queue(Tail(q), t + 1)
                        /\ Tail(q) \in Seq(Message) /\ Len(Tail(q)) = Len(q) - 1
                        /\ \E i \in DOMAIN q : Head(q) = q[i]
                        /\ \A i \in DOMAIN Tail(q) : i + 1 \in DOMAIN q /\ Tail(q)[i] = q[i + 1]
<1>1. ASSUME NEW k \in 0..2 PROVE Queue(Append(q, [n |-> t + Len(q) + 1, k |-> k]), t)
  <2> DEFINE m == [n |-> t + Len(q) + 1, k |-> k]
             u == Append(q, m)
  <2>1. Len(q) \in Nat /\ DOMAIN q = 1..Len(q) /\ DOMAIN u = 1..(Len(q) + 1)
    OBVIOUS
  <2>2. \A i \in 1..(Len(q) + 1) : u[i] = IF i <= Len(q) THEN q[i] ELSE m
    OBVIOUS
  <2>3. m.n = t + (Len(q) + 1)
    BY <2>1
  <2> HIDE DEF m, u
  <2>4. ASSUME NEW i \in DOMAIN u PROVE u[i].n = t + i
    <3>1. CASE i <= Len(q)
      BY <2>1, <2>2, <3>1 DEF Queue
    <3>2. CASE i = Len(q) + 1
      BY <2>1, <2>2, <2>3, <3>2
    <3> QED BY <2>1, <3>1, <3>2
  <2> QED BY <2>4 DEF Queue, u, m
<1>2. ASSUME q # <<>>
      PROVE  /\ Head(q) \in Message /\ Head(q).n = t + 1 /\ Queue(Tail(q), t + 1)
             /\ Tail(q) \in Seq(Message) /\ Len(Tail(q)) = Len(q) - 1
             /\ \E i \in DOMAIN q : Head(q) = q[i]
             /\ \A i \in DOMAIN Tail(q) : i + 1 \in DOMAIN q /\ Tail(q)[i] = q[i + 1]
  <2>1. Len(q) >= 1 /\ Head(q) = q[1] /\ 1 \in DOMAIN q /\ q[1] \in Message
    BY <1>2
  <2>2. Tail(q) \in Seq(Message) /\ Len(Tail(q)) = Len(q) - 1
    BY <1>2
  <2>3. \A i \in DOMAIN Tail(q) : i \in Nat /\ i + 1 \in DOMAIN q /\ Tail(q)[i] = q[i + 1]
    BY <1>2
  <2>4. Queue(Tail(q), t + 1)
    BY <2>3 DEF Queue
  <2> QED BY <2>1, <2>2, <2>3, <2>4 DEF Queue
<1> QED BY <1>1, <1>2

LEMMA BooksOfLane ==
  ASSUME NEW c \in Client, NEW h \in Seq(Entry), NEW lane \in Lanes, NEW other \in Lanes, Books(c, h, lane, 0)
  PROVE  Books(c, h, other, 0)
BY BooksTyped DEF Books

(* ------------------------- what stays as it was ------------------------- *)

\* A delivery that is staged disturbs neither the captures nor their order.
LEMMA DeliveryStaged ==
  ASSUME NEW h \in Seq(Entry), NEW lane \in Lanes
  PROVE  /\ \A b : Asking(h, b) => Asking(Append(h, Delivery(lane)), b)
         /\ \A s : \A g \in Nat : \A t \in Int : Line(g, t, h, s) => Line(g, t, Append(h, Delivery(lane)), s)
<1> DEFINE e == Delivery(lane)
<1>1. e \in Entry /\ e.t = "delivery"
  BY DEF Delivery, Entry
<1> HIDE DEF e
<1>2. ASSUME NEW b, Asking(h, b) PROVE Asking(Append(h, e), b)
  <2>1. \A i \in DOMAIN Append(h, e) : (i \in DOMAIN h /\ Append(h, e)[i] = h[i]) \/ Append(h, e)[i] = e
    BY <1>1
  <2> QED BY <1>1, <1>2, <2>1 DEF Asking
<1>3. ASSUME NEW s, NEW g \in Nat, NEW t \in Int, Line(g, t, h, s) PROVE Line(g, t, Append(h, e), s)
  BY <1>1, <1>3, LineAppended
<1> QED BY <1>2, <1>3 DEF e

LEMMA EntryRemoved ==
  ASSUME NEW h \in Seq(Entry), NEW i \in 1..Len(h), NEW c
  PROVE  /\ \A b : Asking(h, b) => Asking(RemoveAt(h, i), b)
         /\ Stuck(c, h, i) => Stuck(c, RemoveAt(h, i), i)
<1> DEFINE k == RemoveAt(h, i)
           n == Len(h)
<1>1. /\ k \in Seq(Entry) /\ Len(k) = n - 1
      /\ \A j \in 1..(n - 1) : /\ j < i => k[j] = h[j]
                               /\ j >= i => k[j] = h[j + 1]
  BY Removed
<1>2. n \in Nat /\ DOMAIN h = 1..n /\ i \in 1..n
  OBVIOUS
<1> HIDE DEF k, n
<1>3. DOMAIN k = 1..(n - 1)
  BY <1>1, <1>2
<1>4. ASSUME NEW b, Asking(h, b) PROVE Asking(k, b)
  <2>1. \A j \in DOMAIN k : (k[j] = h[j] /\ j \in DOMAIN h) \/ (k[j] = h[j + 1] /\ j + 1 \in DOMAIN h)
    BY <1>1, <1>2, <1>3
  <2> QED BY <1>4, <2>1 DEF Asking
<1>5. ASSUME Stuck(c, h, i) PROVE Stuck(c, k, i)
  BY <1>1, <1>2, <1>3, <1>5 DEF Stuck
<1> QED BY <1>4, <1>5 DEF k

\* What is held has not changed, or a delivery came to it where deliveries
\* may stay held.
Extended(lane) ==
    held' = held \/ ((frame.on \/ (cl.prefix_failed /\ ~Terminal(cl))) /\ held' = Append(held, Delivery(lane)))

LEMMA AfterReply ==
  ASSUME IInv, NEW lane \in Lanes, frame' = frame, cl' \in Client, Extended(lane),
         cl'.phase = cl.phase, cl'.prefix_failed = cl.prefix_failed,
         frame.on => \A l \in Lanes : cl'.inbox[l] = cl.inbox[l]
  PROVE  /\ held' \in Seq(Entry) /\ Frames' /\ Left'
         /\ \A b : Asking(held, b) => Asking(held', b)
         /\ \A s : \A g \in Nat : \A t \in Int : Line(g, t, held, s) => Line(g, t, held', s)
<1>1. held \in Seq(Entry) /\ Frames /\ Left /\ frame.replay \in Nat /\ frame.on \in BOOLEAN
  BY DEF IInv, Typed
<1>2. Delivery(lane) \in Entry /\ Append(held, Delivery(lane)) \in Seq(Entry)
  BY <1>1, GrownBy
<1>3. /\ held' \in Seq(Entry)
      /\ \A b : Asking(held, b) => Asking(held', b)
      /\ \A s : \A g \in Nat : \A t \in Int : Line(g, t, held, s) => Line(g, t, held', s)
  BY <1>1, <1>2, DeliveryStaged DEF Extended
<1>4. Len(held) <= Len(held')
  BY <1>1, <1>2, Appended DEF Extended
<1>5. Frames'
  <2>1. frame.replay \in 0..Len(held')
    BY <1>1, <1>3, <1>4 DEF Frames
  <2> QED BY <1>1, <2>1 DEF Frames, Terminal
<1>6. Left'
  <2> SUFFICES ASSUME ~frame.on
               PROVE  Stuck(cl', held', IF frame.replay = 0 THEN Len(held') + 1 ELSE frame.replay)
    BY DEF Left
  <2> DEFINE h == held
             k == held'
             n == Len(h)
             e == Delivery(lane)
             x == IF frame.replay = 0 THEN n + 1 ELSE frame.replay
             y == IF frame.replay = 0 THEN Len(k) + 1 ELSE frame.replay
  <2>1. /\ n \in Nat /\ DOMAIN h = 1..n /\ frame.replay \in 0..n
        /\ Stuck(cl, h, x)
    BY <1>1 DEF Left, Frames
  <2>2. CASE k = h
    BY <2>1, <2>2 DEF Stuck, Terminal
  <2>3. CASE cl.prefix_failed /\ ~Terminal(cl) /\ k = Append(h, e)
    <3>1. /\ Len(k) = n + 1 /\ DOMAIN k = 1..(n + 1) /\ \A j \in 1..n : k[j] = h[j]
          /\ k[n + 1] = e /\ e.t = "delivery"
      <4>1. /\ k \in Seq(Entry) /\ Len(k) = n + 1 /\ (\A j \in 1..n : k[j] = h[j]) /\ k[n + 1] = e
        BY <1>1, <1>2, <2>3, Appended
      <4>2. e.t = "delivery"
        BY DEF Delivery
      <4> HIDE DEF k, n, e
      <4> QED BY <2>1, <4>1, <4>2
    <3> HIDE DEF h, k, n, e
    <3>2. \A i \in DOMAIN k : i < y => k[i].t = "delivery"
      <4> SUFFICES ASSUME NEW i \in DOMAIN k, i < y PROVE k[i].t = "delivery"
        OBVIOUS
      <4>1. CASE i = n + 1
        BY <3>1, <4>1
      <4>2. CASE i \in 1..n /\ i < x
        BY <2>1, <3>1, <4>2 DEF Stuck
      <4> QED BY <2>1, <3>1, <4>1, <4>2
    <3> HIDE DEF y
    <3>3. Stuck(cl', k, y)
      BY <2>3, <3>2 DEF Stuck, Terminal
    <3> QED BY <3>3 DEF k, y
  <2> QED BY <2>2, <2>3 DEF Extended
<1> QED BY <1>3, <1>5, <1>6

LEMMA TakenType ==
  ASSUME Typed
  PROVE  \A s \in Sources : TakenFrom(s) \in Int /\ got[s] \in Nat /\ posted[s] \in Nat /\ box[s] \in Seq(Message)
BY MaintenanceAssumption DEF Typed, TakenFrom

\* A reply, asked for or not, that is sent or staged.
LEMMA ReplyKeeps ==
  ASSUME IInv, NEW lane \in Lanes, UNCHANGED <<box, posted, got, frame>>, cl' \in Client, Extended(lane),
         cl'.phase = cl.phase, cl'.prefix_failed = cl.prefix_failed,
         frame.on => \A l \in Lanes : cl'.inbox[l] = cl.inbox[l],
         Books(cl', held', lane, 0)
  PROVE  IInv'
<1>1. /\ held' \in Seq(Entry) /\ Frames' /\ Left'
      /\ \A b : Asking(held, b) => Asking(held', b)
      /\ \A s : \A g \in Nat : \A t \in Int : Line(g, t, held, s) => Line(g, t, held', s)
  BY AfterReply
<1>2. Typed'
  BY <1>1 DEF IInv, Typed
<1>3. Asking(held', box')
  BY <1>1 DEF IInv
<1>4. Lined'
  <2>1. \A s \in Sources : TakenFrom(s)' = TakenFrom(s)
    BY DEF TakenFrom
  <2> QED BY <1>1, <2>1, TakenType DEF IInv, Lined
<1>5. Booked'
  BY <1>1, BooksOfLane DEF Booked
<1> QED BY <1>1, <1>2, <1>3, <1>4, <1>5 DEF IInv

LEMMA AnswerKeeps ==
  ASSUME IInv, NEW lane \in Lanes, Answer(lane)
  PROVE  IInv'
<1> DEFINE s == [cl |-> cl, held |-> held, on |-> frame.on, got |-> got]
<1>1. s \in HostState /\ s.cl = cl /\ s.held = held /\ s.on = frame.on
  BY DEF IInv, Typed, HostState
<1>2. /\ cl.owed[lane] > 0 /\ UNCHANGED <<box, posted, got, frame>>
      /\ cl' = SendReply(s, lane).cl /\ held' = SendReply(s, lane).held
  BY DEF Answer
<1> DEFINE r == SendReply(s, lane)
<1> HIDE DEF s
<1>3. Replied(r, s, lane)
  BY <1>1, <1>2, Replying DEF IInv, Booked
<1>4. cl' = r.cl /\ held' = r.held
  BY <1>2
<1> HIDE DEF r
<1>5. /\ cl' \in Client /\ cl'.phase = cl.phase /\ cl'.prefix_failed = cl.prefix_failed
      /\ Books(cl', held', lane, 0)
      /\ held' = held \/ (Protected(s) /\ held' = Append(held, Delivery(lane)))
      /\ Protected(s) => \A l \in Lanes : cl'.inbox[l] = cl.inbox[l]
  BY <1>1, <1>3, <1>4 DEF Replied
<1>6. Extended(lane) /\ (frame.on => \A l \in Lanes : cl'.inbox[l] = cl.inbox[l])
  BY <1>1, <1>5 DEF Protected, Extended
<1> QED BY <1>2, <1>5, <1>6, ReplyKeeps

LEMMA NotifyKeeps ==
  ASSUME IInv, Notify
  PROVE  IInv'
<1> DEFINE s == [cl |-> cl, held |-> held, on |-> frame.on, got |-> got]
           lane == "control"
           h == held
           g == Append(held, Delivery(lane))
<1>1. s \in HostState /\ s.cl = cl /\ s.held = held /\ s.on = frame.on /\ lane \in Lanes /\ cl \in Client /\ h \in Seq(Entry)
  BY DEF IInv, Typed, HostState, Lanes
<1>2. UNCHANGED <<box, posted, got, frame>>
  BY DEF Notify
<1>3. Books(cl, h, lane, 0)
  BY <1>1 DEF IInv, Booked
<1>4. /\ cl.inbox[lane] \in Nat /\ cl.reserved[lane] \in Nat /\ cl.owed[lane] \in Nat /\ cl.staged[lane] \in Nat
      /\ Capacity[lane] \in Nat /\ cl.inbox[lane] + cl.reserved[lane] <= Capacity[lane]
  BY <1>1, <1>3, BooksTyped DEF Books
<1>5. Grown(h, h, lane, 0, 0) /\ Grown(g, h, lane, 1, 1) /\ g \in Seq(Entry)
  BY <1>1, GrownBy
<1>6. \/ /\ Protected(s) /\ CanStage(s, lane, FALSE)
         /\ cl' = Stage(s, lane, FALSE).cl
         /\ held' = Stage(s, lane, FALSE).held
      \/ /\ ~Protected(s) /\ CanDeliver(cl, lane)
         /\ cl' = Deliver(cl, lane)
         /\ held' = held
  BY DEF Notify
<1> HIDE DEF s, lane, g
<1>7. CASE /\ Protected(s) /\ CanStage(s, lane, FALSE)
           /\ cl' = Stage(s, lane, FALSE).cl
           /\ held' = Stage(s, lane, FALSE).held
  <2> DEFINE b == Reserve(cl, lane, 1)
             d == Staged(b, lane)
  <2>1. NeedsCredit(s.cl, lane, FALSE)
    BY DEF NeedsCredit
  <2>2. cl.inbox[lane] + cl.reserved[lane] + 1 <= Capacity[lane]
    BY <1>1, <1>7, <2>1 DEF CanStage, CanReserve
  <2>3. Stage(s, lane, FALSE) = [s EXCEPT !.cl = d, !.held = g]
    BY <1>1, <2>1 DEF Stage, g
  <2>4. cl' = d /\ held' = g
    <3> HIDE DEF d
    <3> QED BY <1>1, <1>7, <2>3 DEF HostState
  <2>5. Moved(b, cl, lane, 0, 1, 0, 0)
    BY <1>1, ClientOps, 1 \in Nat
  <2>6. Moved(d, b, lane, 0, 0, 0, 1)
    <3>1. b \in Client
      BY <2>5 DEF Moved
    <3> QED BY <1>1, <3>1, ClientOps, 0 \in Nat
  <2> HIDE DEF b, d
  <2>7. Moved(d, cl, lane, 0, 1, 0, 1)
    <3>1. Moved(d, cl, lane, 0 + 0, 1 + 0, 0 + 0, 0 + 1)
      BY <1>1, <2>5, <2>6, MovedTwice, 0 \in Int, 1 \in Int
    <3> QED BY <3>1
  <2>8. Books(d, g, lane, 0)
    <3>1. Balanced(0, 1, 0, 1, 1, 0, 0) /\ Fits(cl, lane, 0, 1)
      BY <1>4, <2>2 DEF Balanced, Fits
    <3> QED BY <1>1, <1>3, <1>5, <2>7, <3>1, Entered
  <2>9. /\ cl' \in Client /\ cl'.phase = cl.phase /\ cl'.prefix_failed = cl.prefix_failed
        /\ \A l \in Lanes : cl'.inbox[l] = cl.inbox[l]
    BY <1>1, <2>4, <2>7 DEF Moved, Client, Counts
  <2>10. Extended(lane)
    BY <1>1, <1>7, <2>4 DEF Protected, Extended, g
  <2>11. Books(cl', held', lane, 0)
    BY <2>4, <2>8
  <2> QED BY <1>1, <1>2, <2>9, <2>10, <2>11, ReplyKeeps
<1>8. CASE /\ ~Protected(s) /\ CanDeliver(cl, lane)
           /\ cl' = Deliver(cl, lane)
           /\ held' = held
  <2>1. ~frame.on /\ cl.inbox[lane] + cl.reserved[lane] + 1 <= Capacity[lane]
    BY <1>1, <1>8 DEF Protected, CanDeliver, CanReserve
  <2>2. Moved(cl', cl, lane, 1, 0, 0, 0)
    BY <1>1, <1>8, ClientOps, 0 \in Nat
  <2>3. Books(cl', h, lane, 0)
    <3>1. Balanced(1, 0, 0, 0, 0, 0, 0) /\ Fits(cl, lane, 1, 0)
      BY <1>4, <2>1 DEF Balanced, Fits
    <3> QED BY <1>1, <1>3, <1>5, <2>2, <3>1, Entered
  <2>4. cl' \in Client /\ cl'.phase = cl.phase /\ cl'.prefix_failed = cl.prefix_failed
    BY <2>2 DEF Moved
  <2>5. Extended(lane)
    BY <1>8 DEF Extended
  <2>6. Books(cl', held', lane, 0)
    BY <1>8, <2>3
  <2> QED BY <1>1, <1>2, <2>1, <2>4, <2>5, <2>6, ReplyKeeps
<1> QED BY <1>6, <1>7, <1>8

\* The frame moves on, and at most the inbox is emptied.
LEMMA FrameKeeps ==
  ASSUME IInv, UNCHANGED <<box, posted, got, held>>, cl' \in Client,
         \A l \in Lanes : /\ cl'.reserved[l] = cl.reserved[l] /\ cl'.owed[l] = cl.owed[l]
                          /\ cl'.staged[l] = cl.staged[l] /\ cl'.inbox[l] <= cl.inbox[l],
         frame' \in [on : BOOLEAN, restricted : BOOLEAN, offered : Counts, replay : Nat],
         Frames', Left'
  PROVE  IInv'
<1>1. Typed'
  BY DEF IInv, Typed
<1>2. Asking(held', box')
  BY DEF IInv
<1>3. Lined'
  <2>1. \A s \in Sources : TakenFrom(s)' = TakenFrom(s)
    BY DEF TakenFrom
  <2> QED BY <2>1 DEF IInv, Lined
<1>4. Booked'
  <2> SUFFICES ASSUME NEW lane \in Lanes, NEW l \in Lanes
               PROVE /\ cl'.staged[l] = Cardinality(StagedIn(held, l))
                     /\ cl'.reserved[l] = cl'.owed[l] + CreditsIn(held, l) + (IF l = lane THEN 0 ELSE 0)
                     /\ cl'.inbox[l] + cl'.reserved[l] <= Capacity[l]
    BY DEF Booked, Books
  <2>1. /\ cl.staged[l] = Cardinality(StagedIn(held, l))
        /\ cl.reserved[l] = cl.owed[l] + CreditsIn(held, l) + (IF l = lane THEN 0 ELSE 0)
        /\ cl.inbox[l] + cl.reserved[l] <= Capacity[l]
    BY DEF IInv, Booked, Books
  <2>2. cl.inbox[l] \in Nat /\ cl.reserved[l] \in Nat /\ cl'.inbox[l] \in Nat /\ Capacity[l] \in Nat
    BY BooksTyped DEF IInv, Typed
  <2>3. /\ cl'.reserved[l] = cl.reserved[l] /\ cl'.owed[l] = cl.owed[l]
        /\ cl'.staged[l] = cl.staged[l] /\ cl'.inbox[l] <= cl.inbox[l]
    OBVIOUS
  <2>4. cl'.inbox[l] + cl'.reserved[l] <= Capacity[l]
    BY <2>1, <2>2, <2>3
  <2> QED BY <2>1, <2>3, <2>4
<1> QED BY <1>1, <1>2, <1>3, <1>4 DEF IInv

\* A replay that begins with what is held at i.
LEMMA ReplayFrom ==
  ASSUME NEW i \in Nat, i > 0, ReplayTo(i), held' \in Seq(Entry), Stuck(cl', held', i)
  PROVE  /\ frame' \in [on : BOOLEAN, restricted : BOOLEAN, offered : Counts, replay : Nat]
         /\ Frames' /\ Left'
<1> DEFINE u == Upcoming(held', i)
<1>1. DOMAIN held' = 1..Len(held') /\ Len(held') \in Nat
  OBVIOUS
<1>2. u \in 0..Len(held') /\ ((u = 0 /\ i > Len(held')) \/ u = i)
  BY <1>1 DEF Upcoming
<1>3. frame' = [on |-> FALSE, restricted |-> FALSE, offered |-> [l \in Lanes |-> 0], replay |-> u]
  BY DEF ReplayTo, NoFrame
<1> HIDE DEF u
<1>4. frame' \in [on : BOOLEAN, restricted : BOOLEAN, offered : Counts, replay : Nat]
  BY <1>2, <1>3 DEF Counts
<1>5. frame'.on = FALSE /\ frame'.restricted = FALSE /\ frame'.replay = u
  BY <1>3
<1>6. Frames'
  BY <1>2, <1>5 DEF Frames
<1>7. Left'
  <2>1. CASE u = 0
    <3>1. \A j \in DOMAIN held' : j < i
      BY <1>1, <1>2, <2>1
    <3>2. Stuck(cl', held', Len(held') + 1)
      BY <3>1 DEF Stuck
    <3> QED BY <1>5, <2>1, <3>2 DEF Left
  <2>2. CASE u # 0
    BY <1>2, <1>5, <2>2 DEF Left
  <2> QED BY <2>1, <2>2
<1> QED BY <1>4, <1>6, <1>7

LEMMA TurnKeeps ==
  ASSUME IInv, BeginFrame \/ EnterRestriction \/ LeaveRestriction \/ ReplayInTurn
  PROVE  IInv'
<1>1. /\ cl \in Client /\ held \in Seq(Entry) /\ Frames /\ Left
      /\ frame \in [on : BOOLEAN, restricted : BOOLEAN, offered : Counts, replay : Nat]
      /\ \A l \in Lanes : cl.inbox[l] \in Nat
  BY DEF IInv, Typed, Client, Counts
<1>2. UNCHANGED <<box, posted, got, held, cl>>
  BY DEF BeginFrame, EnterRestriction, LeaveRestriction, ReplayInTurn
<1>3. /\ frame' \in [on : BOOLEAN, restricted : BOOLEAN, offered : Counts, replay : Nat]
      /\ Frames' /\ Left'
  <2>1. CASE BeginFrame
    <3> DEFINE o == [l \in Lanes |-> IF cl.prefix_failed THEN 0 ELSE cl.inbox[l]]
    <3>1. frame' = [on |-> TRUE, restricted |-> FALSE, offered |-> o, replay |-> 0] /\ ~Terminal(cl)
      BY <2>1 DEF BeginFrame, NoFrame
    <3>2. o \in Counts /\ \A l \in Lanes : o[l] <= cl.inbox[l]
      BY <1>1 DEF Counts
    <3> HIDE DEF o
    <3>3. frame'.on = TRUE /\ frame'.restricted = FALSE /\ frame'.offered = o /\ frame'.replay = 0
      BY <3>1
    <3>4. frame' \in [on : BOOLEAN, restricted : BOOLEAN, offered : Counts, replay : Nat]
      BY <3>1, <3>2
    <3>5. 0 \in 0..Len(held)
      BY <1>1
    <3> QED BY <1>2, <3>1, <3>2, <3>3, <3>4, <3>5 DEF Frames, Left
  <2>2. CASE EnterRestriction \/ LeaveRestriction
    <3>1. frame.on = TRUE /\ \E b \in BOOLEAN : frame' = [frame EXCEPT !.restricted = b]
      BY <1>1, <2>2 DEF EnterRestriction, LeaveRestriction, Frames
    <3>2. /\ frame' \in [on : BOOLEAN, restricted : BOOLEAN, offered : Counts, replay : Nat]
          /\ frame'.on = TRUE /\ frame'.offered = frame.offered /\ frame'.replay = frame.replay
      BY <1>1, <3>1
    <3> QED BY <1>1, <1>2, <3>1, <3>2 DEF Frames, Left
  <2>3. CASE ReplayInTurn
    <3>1. ReplayTo(1) /\ held' \in Seq(Entry)
      BY <1>1, <1>2, <2>3 DEF ReplayInTurn
    <3>2. Stuck(cl', held', 1)
      BY <3>1 DEF Stuck
    <3> QED BY <3>1, <3>2, ReplayFrom, 1 \in Nat, 1 > 0
  <2> QED BY <2>1, <2>2, <2>3
<1> QED BY <1>1, <1>2, <1>3, FrameKeeps

LEMMA FlushKeeps ==
  ASSUME IInv, FlushTerminal \/ RequestStop
  PROVE  IInv'
<1>1. /\ cl \in Client /\ held \in Seq(Entry) /\ Frames /\ Left
      /\ frame \in [on : BOOLEAN, restricted : BOOLEAN, offered : Counts, replay : Nat]
      /\ \A l \in Lanes : cl.inbox[l] \in Nat
  BY DEF IInv, Typed, Client, Counts
<1>2. UNCHANGED <<box, posted, got, held, frame>> /\ ~frame.on
  BY DEF FlushTerminal, RequestStop, InTurn
<1>3. /\ cl' \in Client /\ cl'.prefix_failed = cl.prefix_failed /\ Terminal(cl') = Terminal(cl)
      /\ \A l \in Lanes : /\ cl'.reserved[l] = cl.reserved[l] /\ cl'.owed[l] = cl.owed[l]
                          /\ cl'.staged[l] = cl.staged[l] /\ cl'.inbox[l] <= cl.inbox[l]
  <2>1. CASE FlushTerminal
    <3> DEFINE z == [l \in Lanes |-> 0]
    <3>1. cl' = [cl EXCEPT !.inbox = z]
      BY <2>1 DEF FlushTerminal
    <3>2. z \in Counts /\ \A l \in Lanes : z[l] <= cl.inbox[l]
      BY <1>1 DEF Counts
    <3> HIDE DEF z
    <3> QED BY <1>1, <3>1, <3>2 DEF Client, Terminal
  <2>2. CASE RequestStop
    BY <1>1, <2>2 DEF RequestStop, Client, Terminal
  <2> QED BY <2>1, <2>2
<1>4. Frames' /\ Left'
  BY <1>1, <1>2, <1>3 DEF Frames, Left, Stuck
<1> QED BY <1>1, <1>2, <1>3, <1>4, FrameKeeps

LEMMA EndKeeps ==
  ASSUME IInv, EndFrame
  PROVE  IInv'
<1>1. /\ cl \in Client /\ held \in Seq(Entry) /\ Frames
      /\ frame \in [on : BOOLEAN, restricted : BOOLEAN, offered : Counts, replay : Nat]
      /\ \A l \in Lanes : cl.inbox[l] \in Nat
  BY DEF IInv, Typed, Client, Counts
<1>2. PICK controls \in 0..frame.offered["control"], answers \in 0..frame.offered["reply"],
           outcome \in {"valid", "invalid", "stopped"} :
          /\ frame.on
          /\ cl' = [Consume(cl, [l \in Lanes |-> IF l = "control" THEN controls ELSE answers]) EXCEPT
                       !.prefix_failed = @ \/ outcome = "invalid",
                       !.phase = IF outcome = "stopped" THEN "stopped"
                                 ELSE IF outcome = "invalid" THEN "stopping" ELSE @]
          /\ UNCHANGED <<box, posted, got, held>>
          /\ ReplayTo(1)
  BY DEF EndFrame
<1> DEFINE i == [l \in Lanes |-> cl.inbox[l] - [x \in Lanes |-> IF x = "control" THEN controls ELSE answers][l]]
           f == cl.prefix_failed \/ outcome = "invalid"
           pledged == IF outcome = "stopped" THEN "stopped" ELSE IF outcome = "invalid" THEN "stopping" ELSE cl.phase
<1>3. i \in Counts /\ \A l \in Lanes : i[l] <= cl.inbox[l]
  <2>1. "control" \in Lanes /\ "reply" \in Lanes /\ \A l \in Lanes : l = "control" \/ l = "reply"
    BY DEF Lanes
  <2>2. /\ frame.offered["control"] \in Nat /\ frame.offered["control"] <= cl.inbox["control"]
        /\ frame.offered["reply"] \in Nat /\ frame.offered["reply"] <= cl.inbox["reply"]
    BY <1>1, <1>2, <2>1 DEF Frames, Counts
  <2>3. /\ controls \in Nat /\ controls <= cl.inbox["control"]
        /\ answers \in Nat /\ answers <= cl.inbox["reply"]
    BY <1>1, <2>1, <2>2
  <2>4. ASSUME NEW l \in Lanes PROVE i[l] \in Nat /\ i[l] <= cl.inbox[l]
    <3>1. CASE l = "control"
      <4>1. i[l] = cl.inbox[l] - controls
        BY <3>1
      <4> QED BY <1>1, <2>3, <3>1, <4>1
    <3>2. CASE l = "reply"
      <4>1. i[l] = cl.inbox[l] - answers
        BY <3>2
      <4> QED BY <1>1, <2>3, <3>2, <4>1
    <3> QED BY <2>1, <3>1, <3>2
  <2> QED BY <2>4 DEF Counts
<1>4. cl' = [cl EXCEPT !.inbox = i, !.prefix_failed = f, !.phase = pledged]
  BY <1>1, <1>2 DEF Consume, Client
<1>5. f \in BOOLEAN /\ pledged \in {"ready", "stopping", "stopped"}
  BY <1>1 DEF Client
<1> HIDE DEF i, f, pledged
<1>6. /\ cl' \in Client
      /\ \A l \in Lanes : /\ cl'.reserved[l] = cl.reserved[l] /\ cl'.owed[l] = cl.owed[l]
                          /\ cl'.staged[l] = cl.staged[l] /\ cl'.inbox[l] <= cl.inbox[l]
  BY <1>1, <1>3, <1>4, <1>5 DEF Client
<1>9. UNCHANGED <<box, posted, got, held>> /\ ReplayTo(1)
  BY <1>2
<1>7. held' \in Seq(Entry) /\ Stuck(cl', held', 1)
  BY <1>1, <1>9 DEF Stuck
<1>8. /\ frame' \in [on : BOOLEAN, restricted : BOOLEAN, offered : Counts, replay : Nat]
      /\ Frames' /\ Left'
  BY <1>7, <1>9, ReplayFrom, 1 \in Nat, 1 > 0
<1> QED BY <1>6, <1>8, <1>9, FrameKeeps

LEMMA PostKeeps ==
  ASSUME IInv, NEW src \in Sources, NEW k \in 0..2, Post(src, k)
  PROVE  IInv'
<1> DEFINE m == [n |-> posted[src] + 1, k |-> k]
           q == box[src]
           t == TakenFrom(src)
<1>1. /\ box \in [Sources -> Seq(Message)] /\ posted \in [Sources -> 0..MaxPosts] /\ MaxPosts \in Nat
      /\ q \in Seq(Message) /\ posted[src] \in Nat /\ t \in Int
  BY TakenType, MaintenanceAssumption DEF IInv, Typed
<1>2. /\ posted[src] < MaxPosts /\ k \in Replies(src) /\ UNCHANGED <<got, held, frame, cl>>
      /\ posted' = [posted EXCEPT ![src] = @ + 1]
      /\ box' = [box EXCEPT ![src] = Append(@, m)]
  BY DEF Post
<1>3. m \in Message /\ m = [n |-> t + Len(q) + 1, k |-> k]
  <2>1. t + Len(q) = posted[src] /\ posted[src] + 1 \in Nat
    BY <1>1 DEF TakenFrom
  <2> QED BY <2>1 DEF Message
<1>4. posted[src] + 1 \in 0..MaxPosts
  BY <1>1, <1>2
<1> HIDE DEF m, q, t
<1>5. box' \in [Sources -> Seq(Message)] /\ posted' \in [Sources -> 0..MaxPosts]
  BY <1>1, <1>2, <1>3, <1>4 DEF q
<1>6. \A s \in Sources : TakenFrom(s)' = TakenFrom(s)
  <2> SUFFICES ASSUME NEW s \in Sources PROVE posted'[s] - Len(box'[s]) = posted[s] - Len(box[s])
    BY DEF TakenFrom
  <2>1. CASE s = src
    <3>1. posted'[s] = posted[s] + 1 /\ Len(box'[s]) = Len(box[s]) + 1 /\ Len(box[s]) \in Nat /\ posted[s] \in Nat
      BY <1>1, <1>2, <1>3, <2>1
    <3> QED BY <3>1
  <2>2. CASE s # src
    BY <1>1, <1>2, <2>2
  <2> QED BY <2>1, <2>2
<1>7. Lined'
  <2> SUFFICES ASSUME NEW s \in Sources
               PROVE  Line(got[s], TakenFrom(s), held, s) /\ Queue(box'[s], TakenFrom(s))
    BY <1>2, <1>6 DEF Lined
  <2>1. Line(got[s], TakenFrom(s), held, s) /\ Queue(box[s], TakenFrom(s))
    BY DEF IInv, Lined
  <2>2. CASE s = src
    <3>1. Queue(Append(q, m), t)
      BY <1>1, <1>3, <2>1, <2>2, QueueOps DEF q, t
    <3> QED BY <1>1, <1>2, <2>1, <2>2, <3>1 DEF q, t
  <2>3. CASE s # src
    BY <1>1, <1>2, <2>1, <2>3
  <2> QED BY <2>2, <2>3
<1>8. Asking(held', box')
  <2>1. Asking(held, box)
    BY DEF IInv
  <2>2. ASSUME NEW s \in Sources, NEW i \in DOMAIN box'[s] PROVE box'[s][i].k \in Replies(s)
    <3>1. CASE s = src
      <4>1. box'[s] = Append(q, m)
        BY <1>1, <1>2, <3>1 DEF q
      <4>2. m.k \in Replies(s)
        BY <1>2, <3>1 DEF m
      <4>3. (i \in DOMAIN q /\ box'[s][i] = q[i]) \/ box'[s][i] = m
        BY <1>1, <4>1
      <4> QED BY <2>1, <3>1, <4>2, <4>3 DEF Asking, q
    <3>2. CASE s # src
      BY <1>1, <1>2, <2>1, <3>2 DEF Asking
    <3> QED BY <3>1, <3>2
  <2> QED BY <1>2, <2>1, <2>2 DEF Asking
<1>9. Typed' /\ Frames' /\ Left' /\ Booked'
  BY <1>2, <1>5 DEF IInv, Typed, Frames, Left, Booked
<1> QED BY <1>7, <1>8, <1>9 DEF IInv

\* The head of a source's queue is taken.
LEMMA HeadTaken ==
  ASSUME IInv, NEW src \in Sources, box[src] # <<>>, box' = [box EXCEPT ![src] = Tail(@)], UNCHANGED posted
  PROVE  /\ box' \in [Sources -> Seq(Message)]
         /\ Head(box[src]) \in Message /\ Head(box[src]).n = TakenFrom(src) + 1 /\ Head(box[src]).k \in Replies(src)
         /\ TakenFrom(src)' = TakenFrom(src) + 1
         /\ \A s \in Sources : s # src => TakenFrom(s)' = TakenFrom(s)
         /\ \A s \in Sources : Queue(box'[s], TakenFrom(s)')
         /\ \A h : Asking(h, box) => Asking(h, box')
<1> DEFINE q == box[src]
           t == TakenFrom(src)
<1>1. /\ box \in [Sources -> Seq(Message)] /\ q \in Seq(Message) /\ q # <<>> /\ posted[src] \in Nat /\ t \in Int
      /\ t = posted[src] - Len(q)
  BY TakenType DEF IInv, Typed, TakenFrom
<1>2. Queue(q, t)
  BY DEF IInv, Lined
<1>3. box'[src] = Tail(q) /\ \A s \in Sources : s # src => box'[s] = box[s]
  BY <1>1
<1>0. \A s \in Sources : Queue(box[s], TakenFrom(s))
  BY DEF IInv, Lined
<1>a. box' = [box EXCEPT ![src] = Tail(q)]
  OBVIOUS
<1> HIDE DEF q, t
<1>4. /\ Head(q) \in Message /\ Head(q).n = t + 1 /\ Queue(Tail(q), t + 1)
      /\ Tail(q) \in Seq(Message) /\ Len(Tail(q)) = Len(q) - 1
      /\ \E i \in DOMAIN q : Head(q) = q[i]
      /\ \A i \in DOMAIN Tail(q) : i + 1 \in DOMAIN q /\ Tail(q)[i] = q[i + 1]
  BY <1>1, <1>2, QueueOps
<1>5. TakenFrom(src)' = t + 1
  <2>1. posted'[src] - Len(box'[src]) = t + 1
    <3>1. posted'[src] = posted[src] /\ Len(q) \in Nat
      BY <1>1
    <3>2. Len(box'[src]) = Len(q) - 1
      BY <1>3, <1>4
    <3> DEFINE a == posted[src]
               b == Len(q)
    <3>3. a \in Nat /\ b \in Nat /\ t = a - b
      BY <1>1, <3>1
    <3> HIDE DEF a, b
    <3>4. a - (b - 1) = t + 1
      BY <3>3
    <3> QED BY <3>1, <3>2, <3>4 DEF a, b
  <2> QED BY <2>1 DEF TakenFrom
<1>6. \A s \in Sources : s # src => TakenFrom(s)' = TakenFrom(s)
  BY <1>3 DEF TakenFrom
<1>7. \A s \in Sources : Queue(box'[s], TakenFrom(s)')
  <2> SUFFICES ASSUME NEW s \in Sources PROVE Queue(box'[s], TakenFrom(s)')
    OBVIOUS
  <2>1. CASE s = src
    BY <1>3, <1>4, <1>5, <2>1
  <2>2. CASE s # src
    BY <1>0, <1>3, <1>6, <2>2
  <2> QED BY <2>1, <2>2
<1>8. Head(q).k \in Replies(src)
  BY <1>4 DEF IInv, Asking, q
<1>9. ASSUME NEW h, Asking(h, box) PROVE Asking(h, box')
  <2>1. ASSUME NEW s \in Sources, NEW i \in DOMAIN box'[s] PROVE box'[s][i].k \in Replies(s)
    <3>1. CASE s = src
      <4>1. i + 1 \in DOMAIN box[s] /\ box'[s][i] = box[s][i + 1]
        BY <1>3, <1>4, <3>1 DEF q
      <4> QED BY <1>9, <4>1 DEF Asking
    <3>2. CASE s # src
      BY <1>3, <1>9, <3>2 DEF Asking
    <3> QED BY <3>1, <3>2
  <2> QED BY <1>9, <2>1 DEF Asking
<1>10. box' \in [Sources -> Seq(Message)]
  BY <1>1, <1>4, <1>a
<1> QED BY <1>4, <1>5, <1>6, <1>7, <1>8, <1>9, <1>10 DEF q, t

LEMMA CaptureKeeps ==
  ASSUME IInv, NEW src \in Sources, Capture(src)
  PROVE  IInv'
<1> DEFINE m == Head(box[src])
           credits == CaptureCredits(src, m)
           e == [t |-> "capture", src |-> src, m |-> m, credits |-> credits]
           lane == ReplyLane(src)
           x == IF src \in Pumped THEN credits ELSE 0
<1>1. /\ frame.restricted /\ box[src] # <<>> /\ UNCHANGED <<posted, got, frame>>
      /\ src \in Pumped => CanReserve(cl, lane, credits)
      /\ cl' = IF src \in Pumped THEN Reserve(cl, lane, credits) ELSE cl
      /\ held' = Append(held, e)
      /\ box' = [box EXCEPT ![src] = Tail(@)]
  BY DEF Capture
<1>2. /\ cl \in Client /\ held \in Seq(Entry) /\ Frames /\ frame.on /\ Typed /\ lane \in Lanes
      /\ Asking(held, box)
  BY <1>1 DEF IInv, Typed, Frames, ReplyLane, Lanes
<1>3. /\ box' \in [Sources -> Seq(Message)]
      /\ m \in Message /\ m.n = TakenFrom(src) + 1 /\ m.k \in Replies(src)
      /\ TakenFrom(src)' = TakenFrom(src) + 1
      /\ \A s \in Sources : s # src => TakenFrom(s)' = TakenFrom(s)
      /\ \A s \in Sources : Queue(box'[s], TakenFrom(s)')
      /\ Asking(held, box')
  BY <1>1, <1>2, HeadTaken
<1> HIDE DEF m
<1>4. credits \in 0..2 /\ credits \in Nat
  <2>1. m.k \in 0..2
    BY <1>3 DEF Message
  <2> QED BY <2>1 DEF CaptureCredits
<1> HIDE DEF credits
<1>5. e \in Entry /\ e.t = "capture" /\ e.src = src /\ e.m = m /\ e.credits = credits
  BY <1>3, <1>4 DEF Entry, Captures
<1>6. \A l \in Lanes : CreditsOf(e, l) = IF l = lane THEN x ELSE 0
  BY <1>4 DEF e, CreditsOf
<1> HIDE DEF e
<1>7. held' \in Seq(Entry)
  BY <1>1, <1>2, <1>5, Appended
<1>8. Grown(held', held, lane, x, 0)
  <2>1. \A l \in Lanes : /\ CreditsIn(held, l) \in Nat /\ Cardinality(StagedIn(held, l)) \in Nat
                         /\ CreditsIn(held', l) = CreditsIn(held, l) + CreditsOf(e, l)
                         /\ Cardinality(StagedIn(held', l)) = Cardinality(StagedIn(held, l))
    BY <1>1, <1>2, <1>5, AppendedCredits
  <2> HIDE DEF x, lane
  <2> QED BY <1>6, <2>1 DEF Grown
<1>9. Moved(cl', cl, lane, 0, x, 0, 0)
  <2>1. CASE src \in Pumped
    BY <1>1, <1>2, <1>4, <2>1, ClientOps
  <2>2. CASE src \notin Pumped
    <3>1. cl' = cl /\ x = 0
      BY <1>1, <2>2
    <3>2. Moved(cl, cl, lane, 0, 0, 0, 0)
      BY <1>2 DEF Moved, Client, Counts
    <3> QED BY <3>1, <3>2
  <2> QED BY <2>1, <2>2
<1>10. Booked'
  <2>0. Books(cl, held, lane, 0)
    BY <1>2 DEF IInv, Booked
  <2>1. /\ cl.inbox[lane] \in Nat /\ cl.reserved[lane] \in Nat
        /\ Capacity[lane] \in Nat /\ cl.inbox[lane] + cl.reserved[lane] <= Capacity[lane]
    BY <1>2, <2>0, BooksTyped DEF Books
  <2>2. Balanced(0, x, 0, 0, x, 0, 0) /\ Fits(cl, lane, 0, x)
    <3>1. CASE src \in Pumped
      BY <1>1, <1>4, <2>1, <3>1 DEF Balanced, Fits, CanReserve
    <3>2. CASE src \notin Pumped
      BY <2>1, <3>2 DEF Balanced, Fits
    <3> QED BY <3>1, <3>2
  <2> HIDE DEF x, lane
  <2>3. Books(cl', held', lane, 0)
    BY <1>2, <1>7, <1>8, <1>9, <2>0, <2>2, Entered
  <2>4. cl' \in Client
    BY <1>9 DEF Moved
  <2> QED BY <1>2, <1>7, <2>3, <2>4, BooksOfLane DEF Booked
<1>11. Lined'
  <2> SUFFICES ASSUME NEW s \in Sources
               PROVE  Line(got[s], TakenFrom(s)', held', s)
    BY <1>1, <1>3 DEF Lined
  <2>1. Line(got[s], TakenFrom(s), held, s) /\ got[s] \in Nat /\ TakenFrom(s) \in Int
    BY TakenType DEF IInv, Lined
  <2> DEFINE t == TakenFrom(s)
  <2> HIDE DEF t
  <2>2. Line(got[s], t, held, s) /\ got[s] \in Nat /\ t \in Int
    BY <2>1 DEF t
  <2>3. CASE s = src
    <3>1. e.m.n = t + 1
      BY <1>3, <1>5, <2>3 DEF t
    <3>2. Line(got[s], t + 1, Append(held, e), s)
      BY <1>2, <1>5, <2>2, <2>3, <3>1, LineAppended
    <3> QED BY <1>1, <1>3, <2>3, <3>2 DEF t
  <2>4. CASE s # src
    <3>1. Line(got[s], t, Append(held, e), s)
      BY <1>2, <1>5, <2>2, <2>4, LineAppended
    <3> QED BY <1>1, <1>3, <2>4, <3>1 DEF t
  <2> QED BY <2>3, <2>4
<1>12. Asking(held', box')
  <2>1. \A i \in DOMAIN held' : (i \in DOMAIN held /\ held'[i] = held[i]) \/ held'[i] = e
    BY <1>1, <1>2, <1>5
  <2> QED BY <1>3, <1>5, <2>1 DEF Asking, credits
<1>13. Frames'
  <2>1. Len(held') = Len(held) + 1 /\ Len(held) \in Nat
    BY <1>1, <1>2, <1>5, Appended
  <2>2. /\ cl'.phase = cl.phase /\ \A l \in Lanes : cl'.inbox[l] = cl.inbox[l]
    BY <1>2, <1>9 DEF Moved, Client, Counts
  <2> QED BY <1>1, <1>2, <2>1, <2>2 DEF Frames, Terminal
<1>14. Typed' /\ Left'
  <2>1. cl' \in Client
    BY <1>9 DEF Moved
  <2> QED BY <1>1, <1>2, <1>3, <1>7, <2>1 DEF Typed, Left
<1> QED BY <1>10, <1>11, <1>12, <1>13, <1>14 DEF IInv

LEMMA DrainKeeps ==
  ASSUME IInv, NEW src \in Sources, Drain(src)
  PROVE  IInv'
<1> DEFINE m == Head(box[src])
           credits == IF src = "owner" THEN 2 ELSE m.k
           lane == ReplyLane(src)
           c0 == Taken(cl, src, credits, m.k)
           s0 == [cl |-> c0, held |-> held, on |-> FALSE, got |-> got]
           r == Process(s0, src, m)
           k == IF src \in Pumped THEN m.k ELSE 0
<1>1. /\ InTurn /\ box[src] # <<>> /\ UNCHANGED <<posted, frame>>
      /\ src \in Pumped => CanReserve(cl, lane, credits)
      /\ box' = [box EXCEPT ![src] = Tail(@)]
      /\ got' = r.got /\ cl' = r.cl /\ held' = r.held
  BY DEF Drain
<1>2. /\ cl \in Client /\ held \in Seq(Entry) /\ got \in [Sources -> Nat] /\ Typed /\ lane \in Lanes
      /\ ~frame.on /\ frame.replay = 0 /\ Asking(held, box)
      /\ Books(cl, held, lane, 0)
  BY <1>1 DEF IInv, Typed, InTurn, ReplyLane, Lanes, Booked
<1>3. /\ box' \in [Sources -> Seq(Message)]
      /\ m \in Message /\ m.n = TakenFrom(src) + 1
      /\ TakenFrom(src)' = TakenFrom(src) + 1
      /\ \A s \in Sources : s # src => TakenFrom(s)' = TakenFrom(s)
      /\ \A s \in Sources : Queue(box'[s], TakenFrom(s)')
      /\ Asking(held, box')
  BY <1>1, <1>2, HeadTaken
<1>4. \A s \in Sources : CapturesOf(held, s) = {}
  <2>1. Stuck(cl, held, Len(held) + 1)
    BY <1>2 DEF IInv, Left
  <2>2. \A i \in DOMAIN held : held[i].t = "delivery"
    BY <1>2, <2>1 DEF Stuck
  <2> QED BY <2>2 DEF CapturesOf
<1> HIDE DEF m
<1>5. m.k \in 0..2 /\ credits \in 0..2 /\ m.k <= credits /\ credits - m.k \in Nat /\ credits \in Nat
  BY <1>3 DEF Message
<1> HIDE DEF credits
<1>6. Moved(c0, cl, lane, 0, k, 0, 0)
  <2>1. CASE src \in Pumped
    <3> DEFINE b == Reserve(cl, lane, credits)
               d == Release(b, lane, credits - m.k)
    <3>1. Moved(b, cl, lane, 0, credits, 0, 0)
      BY <1>2, <1>5, ClientOps
    <3>2. b \in Client /\ credits - m.k <= b.reserved[lane]
      <4>1. b \in Client /\ b.reserved[lane] = cl.reserved[lane] + credits /\ cl.reserved[lane] \in Nat
        BY <1>2, <3>1 DEF Moved, Client, Counts
      <4> DEFINE a == cl.reserved[lane]
                 j == m.k
      <4>2. a \in Nat /\ j \in Nat /\ j <= credits /\ credits \in Nat
        BY <1>5, <4>1
      <4> HIDE DEF a, j, b
      <4>3. credits - j <= a + credits
        BY <4>2
      <4> QED BY <4>1, <4>3 DEF a, j
    <3> HIDE DEF b
    <3>3. Moved(d, b, lane, 0, 0 - (credits - m.k), 0, 0)
      BY <1>2, <1>5, <3>2, ClientOps
    <3> DEFINE x == 0 - (credits - m.k)
    <3>4. x \in Int /\ credits + x = m.k /\ credits \in Int
      BY <1>5
    <3> HIDE DEF d, x
    <3>5. Moved(d, b, lane, 0, x, 0, 0)
      BY <3>3 DEF x
    <3>6. Moved(d, cl, lane, 0 + 0, credits + x, 0 + 0, 0 + 0)
      BY <1>2, <3>1, <3>4, <3>5, MovedTwice, 0 \in Int
    <3>7. Moved(d, cl, lane, 0, m.k, 0, 0)
      BY <3>4, <3>6
    <3>8. c0 = d /\ k = m.k
      BY <2>1 DEF Taken, d, b
    <3> QED BY <3>7, <3>8
  <2>2. CASE src \notin Pumped
    <3>1. c0 = cl /\ k = 0
      BY <2>2 DEF Taken
    <3>2. Moved(cl, cl, lane, 0, 0, 0, 0)
      BY <1>2 DEF Moved, Client, Counts
    <3> QED BY <3>1, <3>2
  <2> QED BY <2>1, <2>2
<1>7. Books(c0, held, lane, k)
  <2>1. /\ cl.inbox[lane] \in Nat /\ cl.reserved[lane] \in Nat
        /\ Capacity[lane] \in Nat /\ cl.inbox[lane] + cl.reserved[lane] <= Capacity[lane]
    BY <1>2, BooksTyped DEF Books
  <2>2. Balanced(0, k, 0, 0, 0, 0, k) /\ Fits(cl, lane, 0, k)
    <3>1. CASE src \in Pumped
      <4> DEFINE a == cl.inbox[lane]
                 b == cl.reserved[lane]
                 c == Capacity[lane]
                 j == m.k
      <4>1. /\ a \in Nat /\ b \in Nat /\ c \in Nat /\ j \in Nat /\ j <= credits /\ credits \in Nat
            /\ a + b + credits <= c /\ k = j
        BY <1>1, <1>5, <2>1, <3>1 DEF CanReserve
      <4> HIDE DEF a, b, c, j, k
      <4>2. Balanced(0, j, 0, 0, 0, 0, j) /\ a + 0 + b + j <= c
        BY <4>1 DEF Balanced
      <4> QED BY <4>1, <4>2 DEF Fits, a, b, c
    <3>2. CASE src \notin Pumped
      BY <2>1, <3>2 DEF Balanced, Fits
    <3> QED BY <3>1, <3>2
  <2>3. Grown(held, held, lane, 0, 0)
    BY <1>2, GrownBy
  <2> HIDE DEF c0, k, lane
  <2> QED BY <1>2, <1>6, <2>2, <2>3, Entered
<1>8. /\ c0 \in Client /\ c0.phase = cl.phase /\ c0.prefix_failed = cl.prefix_failed
  BY <1>6 DEF Moved
<1> HIDE DEF c0
<1>9. s0 \in HostState /\ s0.cl = c0 /\ s0.held = held /\ s0.got = got /\ s0.on = FALSE
  BY <1>2, <1>8 DEF HostState
<1> HIDE DEF s0
<1>10. Processed(r, s0, src, m)
  BY <1>3, <1>7, <1>9, Processing
<1> HIDE DEF r, lane
<1>11. /\ cl' \in Client /\ held' \in Seq(Entry) /\ Books(cl', held', lane, 0)
       /\ cl'.phase = cl.phase /\ cl'.prefix_failed = cl.prefix_failed
       /\ got' = Heard(got, src, m)
       /\ held' = held \/ (Protected(s0) /\ held' = Append(held, Delivery(lane)))
  BY <1>1, <1>8, <1>9, <1>10 DEF Processed, lane
<1>12. Extended(lane)
  BY <1>8, <1>9, <1>11 DEF Protected, Terminal, Extended
<1>13. /\ Frames' /\ Left'
       /\ \A b : Asking(held, b) => Asking(held', b)
       /\ \A s : \A g \in Nat : \A t \in Int : Line(g, t, held, s) => Line(g, t, held', s)
  BY <1>1, <1>2, <1>11, <1>12, AfterReply
<1>14. Lined'
  <2> SUFFICES ASSUME NEW s \in Sources
               PROVE  Line(got'[s], TakenFrom(s)', held', s)
    BY <1>3 DEF Lined
  <2>1. Line(got[s], TakenFrom(s), held, s) /\ got[s] \in Nat /\ TakenFrom(s) \in Int
    BY TakenType DEF IInv, Lined
  <2> DEFINE t == TakenFrom(s)
             g == got[s]
  <2> HIDE DEF t, g
  <2>2. Line(g, t, held, s) /\ g \in Nat /\ t \in Int
    BY <2>1 DEF t, g
  <2>3. CASE s = src
    <3>1. g = t /\ Line(g + 1, t + 1, held, s)
      BY <1>4, <2>2, LineDirect
    <3>2. m.n = t + 1
      BY <1>3, <2>3 DEF t
    <3>3. Line(g + 1, t + 1, held', s)
      BY <1>13, <2>2, <3>1
    <3>4. got'[s] = g + 1
      BY <1>2, <1>11, <2>2, <2>3, <3>1, <3>2 DEF Heard, g
    <3> QED BY <1>3, <2>3, <3>3, <3>4 DEF t
  <2>4. CASE s # src
    <3>1. got'[s] = g
      BY <1>2, <1>11, <2>4 DEF Heard, g
    <3>2. Line(g, t, held', s)
      BY <1>13, <2>2
    <3> QED BY <1>3, <2>4, <3>1, <3>2 DEF t
  <2> QED BY <2>3, <2>4
<1>15. Typed'
  <2>1. got' \in [Sources -> Nat]
    BY <1>2, <1>3, <1>11 DEF Heard, Message
  <2> QED BY <1>1, <1>2, <1>3, <1>11, <2>1 DEF Typed
<1>16. Booked'
  <2>1. lane \in Lanes
    BY <1>2
  <2> QED BY <1>11, <2>1, BooksOfLane DEF Booked
<1>17. Asking(held', box')
  BY <1>3, <1>13
<1> QED BY <1>13, <1>14, <1>15, <1>16, <1>17 DEF IInv

LEMMA ReplayCaptureKeeps ==
  ASSUME IInv, ReplayCapture
  PROVE  IInv'
<1> DEFINE at == frame.replay
           e == held[at]
           src == e.src
           m == e.m
           lane == ReplyLane(src)
           c0 == WithoutSurplus(cl, e)
           h == RemoveAt(held, at)
           s0 == [cl |-> c0, held |-> h, on |-> FALSE, got |-> got]
           r == Process(s0, src, m)
           k == IF src \in Pumped THEN m.k ELSE 0
           x == IF src \in Pumped THEN e.credits ELSE 0
<1>1. /\ at > 0 /\ e.t = "capture" /\ UNCHANGED <<box, posted>>
      /\ got' = r.got /\ cl' = r.cl /\ held' = r.held /\ ReplayTo(at)
  BY DEF ReplayCapture
<1>2. /\ cl \in Client /\ held \in Seq(Entry) /\ got \in [Sources -> Nat] /\ Typed
      /\ Asking(held, box) /\ at \in 1..Len(held) /\ at \in Nat /\ ~frame.on
  BY <1>1 DEF IInv, Typed, Frames
<1>3. e \in Captures /\ e \in Entry /\ src \in Sources /\ m \in Message /\ lane \in Lanes
  <2>1. e \in Entry
    BY <1>2
  <2> QED BY <1>1, <2>1 DEF Entry, Captures, ReplyLane, Lanes
<1>4. Stuck(cl, held, at)
  BY <1>1, <1>2 DEF IInv, Left
<1>5. h \in Seq(Entry) /\ Len(h) = Len(held) - 1 /\ Asking(h, box) /\ Stuck(cl, h, at)
  BY <1>2, <1>4, Removed, EntryRemoved
<1>6. m.k \in 0..2 /\ e.credits \in 0..2 /\ m.k <= e.credits
  <2>1. m.k \in Replies(src) /\ e.credits = CaptureCredits(src, m)
    BY <1>1, <1>2 DEF Asking
  <2>2. m.k \in 0..2 /\ e.credits \in 0..2
    BY <1>3 DEF Captures, Message
  <2> QED BY <2>1, <2>2 DEF CaptureCredits, Replies, Pumped
<1>7. \A l \in Lanes : CreditsOf(e, l) = IF l = lane THEN x ELSE 0
  BY <1>1, <1>3, <1>6 DEF CreditsOf, Captures
<1>8. x \in 0..2 /\ k \in 0..2 /\ k <= x
  BY <1>6
<1>9. Grown(h, held, lane, 0 - x, 0)
  <2>1. ASSUME NEW l \in Lanes
        PROVE  /\ CreditsIn(held, l) \in Nat /\ Cardinality(StagedIn(held, l)) \in Nat
               /\ CreditsIn(h, l) = CreditsIn(held, l) - CreditsOf(e, l)
               /\ Cardinality(StagedIn(h, l)) = Cardinality(StagedIn(held, l))
    BY <1>1, <1>2, RemovedCredits
  <2> HIDE DEF h, e, x, lane
  <2> QED BY <1>7, <1>8, <2>1 DEF Grown
<1>10. Moved(c0, cl, lane, 0, 0 - (x - k), 0, 0)
  <2>1. CASE src \in Pumped
    <3>1. x - k \in Nat /\ x = e.credits /\ k = m.k
      BY <1>8, <2>1
    <3>2. x - k <= cl.reserved[lane]
      <4>1. CreditsIn(h, lane) = CreditsIn(held, lane) - x /\ CreditsIn(h, lane) \in Nat /\ CreditsIn(held, lane) \in Nat
        BY <1>2, <1>3, <1>7, RemovedCredits
      <4>2. cl.reserved[lane] = cl.owed[lane] + CreditsIn(held, lane) /\ cl.owed[lane] \in Nat /\ cl.reserved[lane] \in Nat
        BY <1>2, <1>3, BooksTyped DEF IInv, Booked, Books
      <4> DEFINE a == CreditsIn(held, lane)
      <4> HIDE DEF a, h, x, k
      <4>3. a \in Nat /\ x <= a
        BY <1>8, <4>1 DEF a
      <4>4. cl.reserved[lane] >= a
        BY <4>2, <4>3 DEF a
      <4> QED BY <1>8, <4>2, <4>3, <4>4
    <3>3. c0 = Release(cl, lane, x - k)
      BY <2>1, <3>1 DEF WithoutSurplus
    <3> HIDE DEF c0, x, k
    <3> QED BY <1>2, <1>3, <3>1, <3>2, <3>3, ClientOps
  <2>2. CASE src \notin Pumped
    <3>1. c0 = cl /\ x = 0 /\ k = 0
      BY <2>2 DEF WithoutSurplus
    <3>2. Moved(cl, cl, lane, 0, 0, 0, 0)
      BY <1>2 DEF Moved, Client, Counts
    <3> QED BY <3>1, <3>2
  <2> QED BY <2>1, <2>2
<1>11. Books(c0, h, lane, k)
  <2>0. Books(cl, held, lane, 0)
    BY <1>3 DEF IInv, Booked
  <2>1. /\ cl.inbox[lane] \in Nat /\ cl.reserved[lane] \in Nat
        /\ Capacity[lane] \in Nat /\ cl.inbox[lane] + cl.reserved[lane] <= Capacity[lane]
    BY <1>2, <1>3, <2>0, BooksTyped DEF Books
  <2> HIDE DEF c0, x, k, lane, h
  <2>2. Balanced(0, 0 - (x - k), 0, 0, 0 - x, 0, k)
    BY <1>8 DEF Balanced
  <2>3. Fits(cl, lane, 0, 0 - (x - k))
    BY <1>8, <2>1 DEF Fits
  <2> QED BY <1>2, <1>3, <1>5, <1>9, <1>10, <2>0, <2>2, <2>3, Entered
<1>12. c0 \in Client /\ c0.phase = cl.phase /\ c0.prefix_failed = cl.prefix_failed
  BY <1>10 DEF Moved
<1> HIDE DEF c0, h
<1>13. s0 \in HostState /\ s0.cl = c0 /\ s0.held = h /\ s0.got = got /\ s0.on = FALSE
  BY <1>2, <1>5, <1>12 DEF HostState
<1> HIDE DEF s0
<1>14. Processed(r, s0, src, m)
  <2> HIDE DEF src, m
  <2> QED BY <1>3, <1>11, <1>13, Processing
<1> HIDE DEF r, lane
<1>15. /\ cl' \in Client /\ held' \in Seq(Entry) /\ Books(cl', held', lane, 0)
       /\ cl'.phase = cl.phase /\ cl'.prefix_failed = cl.prefix_failed
       /\ got' = Heard(got, src, m)
       /\ held' = h \/ held' = Append(h, Delivery(lane))
  BY <1>1, <1>12, <1>13, <1>14 DEF Processed, lane
<1>16. /\ Asking(held', box')
       /\ \A s : \A g \in Nat : \A t \in Int : Line(g, t, h, s) => Line(g, t, held', s)
  BY <1>1, <1>3, <1>5, <1>15, DeliveryStaged
<1>17. Stuck(cl', held', at)
  <2>1. Delivery(lane) \in Entry
    BY <1>3, <1>5, GrownBy
  <2>2. \A i \in DOMAIN held' : i < at => i \in DOMAIN h /\ held'[i] = h[i]
    <3>1. CASE held' = h
      BY <3>1
    <3>2. CASE held' = Append(h, Delivery(lane))
      <4>1. Len(held') = Len(h) + 1 /\ \A j \in 1..Len(h) : held'[j] = h[j]
        BY <1>5, <2>1, <3>2, Appended
      <4>2. Len(h) \in Nat /\ DOMAIN h = 1..Len(h) /\ DOMAIN held' = 1..Len(held') /\ at <= Len(h) + 1 /\ Len(held) \in Nat
        BY <1>2, <1>5, <1>15
      <4> QED BY <1>2, <4>1, <4>2
    <3> QED BY <1>15, <3>1, <3>2
  <2> QED BY <1>5, <1>15, <2>2 DEF Stuck, Terminal
<1>18. Frames' /\ Left' /\ frame' \in [on : BOOLEAN, restricted : BOOLEAN, offered : Counts, replay : Nat]
  BY <1>1, <1>2, <1>15, <1>17, ReplayFrom
<1>19. Lined'
  <2>0. \A s \in Sources : TakenFrom(s)' = TakenFrom(s)
    BY <1>1 DEF TakenFrom
  <2> SUFFICES ASSUME NEW s \in Sources
               PROVE  Line(got'[s], TakenFrom(s), held', s)
    BY <1>1, <2>0 DEF Lined, IInv
  <2>1. Line(got[s], TakenFrom(s), held, s) /\ got[s] \in Nat /\ TakenFrom(s) \in Int
    BY <1>2, TakenType DEF IInv, Lined
  <2> DEFINE t == TakenFrom(s)
             g == got[s]
  <2> HIDE DEF t, g
  <2>2. Line(g, t, held, s) /\ g \in Nat /\ t \in Int
    BY <2>1 DEF t, g
  <2>3. CASE s = src
    <3>1. at \in CapturesOf(held, s)
      BY <1>1, <1>2, <2>3 DEF CapturesOf
    <3>2. \A j \in CapturesOf(held, s) : j >= at
      BY <1>2, <1>4 DEF Stuck, CapturesOf
    <3>3. held[at].m.n = g + 1 /\ Line(g + 1, t, h, s)
      BY <1>2, <2>2, <3>1, <3>2, LineRemoved DEF h
    <3>4. got'[s] = g + 1
      BY <1>2, <1>15, <2>2, <2>3, <3>3 DEF Heard, g
    <3>5. Line(g + 1, t, held', s)
      BY <1>16, <2>2, <3>3
    <3> QED BY <3>4, <3>5 DEF t
  <2>4. CASE s # src
    <3>1. at \notin CapturesOf(held, s)
      BY <2>4 DEF CapturesOf
    <3>2. Line(g, t, h, s)
      BY <1>2, <2>2, <3>1, LineRemoved DEF h
    <3>3. got'[s] = g
      BY <1>2, <1>15, <2>4 DEF Heard, g
    <3>4. Line(g, t, held', s)
      BY <1>16, <2>2, <3>2
    <3> QED BY <3>3, <3>4 DEF t
  <2> QED BY <2>3, <2>4
<1>20. Typed'
  <2>1. got' \in [Sources -> Nat]
    BY <1>2, <1>3, <1>15 DEF Heard, Message
  <2> QED BY <1>1, <1>2, <1>15, <1>18, <2>1 DEF Typed
<1>21. Booked'
  BY <1>3, <1>15, BooksOfLane DEF Booked
<1> QED BY <1>16, <1>18, <1>19, <1>20, <1>21 DEF IInv

LEMMA ReplayDeliveryKeeps ==
  ASSUME IInv, ReplayDelivery
  PROVE  IInv'
<1> DEFINE at == frame.replay
           e == held[at]
           lane == e.lane
           h == RemoveAt(held, at)
           b == Release(cl, lane, 1)
           freed == [b EXCEPT !.staged[lane] = @ - 1]
           stays == Protected([cl |-> cl, held |-> held, on |-> FALSE, got |-> got]) \/ EarlierDelivery(at, lane)
<1>1. /\ at > 0 /\ e.t = "delivery" /\ UNCHANGED <<box, posted, got>>
      /\ \/ /\ ~stays /\ (Terminal(cl) \/ CanDeliver(freed, lane))
            /\ cl' = IF Terminal(cl) THEN freed ELSE Deliver(freed, lane)
            /\ held' = h
            /\ ReplayTo(at)
         \/ /\ stays \/ ~(Terminal(cl) \/ CanDeliver(freed, lane))
            /\ UNCHANGED <<cl, held>>
            /\ ReplayTo(at + 1)
  BY DEF ReplayDelivery
<1>2. /\ cl \in Client /\ held \in Seq(Entry) /\ Typed
      /\ Asking(held, box) /\ at \in 1..Len(held) /\ at \in Nat /\ ~frame.on
  BY <1>1 DEF IInv, Typed, Frames
<1>3. e \in Entry /\ lane \in Lanes
  <2>1. e \in Entry
    BY <1>2
  <2> QED BY <1>1, <2>1 DEF Entry, Captures
<1>4. Stuck(cl, held, at)
  BY <1>1, <1>2 DEF IInv, Left
<1>5. h \in Seq(Entry) /\ Asking(h, box) /\ Stuck(cl, h, at)
  BY <1>2, <1>4, Removed, EntryRemoved
<1>6. \A l \in Lanes : CreditsOf(e, l) = IF l = lane THEN 1 ELSE 0
  BY <1>1 DEF CreditsOf
<1>7. Grown(h, held, lane, 0 - 1, 0 - 1) /\ CreditsIn(held, lane) >= 1 /\ Cardinality(StagedIn(held, lane)) >= 1
  <2>1. ASSUME NEW l \in Lanes
        PROVE  /\ CreditsIn(held, l) \in Nat /\ Cardinality(StagedIn(held, l)) \in Nat
               /\ CreditsIn(h, l) = CreditsIn(held, l) - CreditsOf(e, l) /\ CreditsIn(h, l) \in Nat
               /\ e.t = "delivery" /\ e.lane = l =>
                      Cardinality(StagedIn(h, l)) = Cardinality(StagedIn(held, l)) - 1
               /\ ~(e.t = "delivery" /\ e.lane = l) =>
                      Cardinality(StagedIn(h, l)) = Cardinality(StagedIn(held, l))
               /\ Cardinality(StagedIn(h, l)) \in Nat
    BY <1>2, RemovedCredits
  <2>2. Cardinality(StagedIn(h, lane)) = Cardinality(StagedIn(held, lane)) - 1
        /\ \A l \in Lanes : l # lane => Cardinality(StagedIn(h, l)) = Cardinality(StagedIn(held, l))
    BY <1>1, <1>3, <2>1
  <2> HIDE DEF h, e, lane
  <2>3. Grown(h, held, lane, 0 - 1, 0 - 1)
    BY <1>6, <2>1, <2>2 DEF Grown
  <2>4. CreditsIn(held, lane) >= 1 /\ Cardinality(StagedIn(held, lane)) >= 1
    BY <1>3, <1>6, <2>1, <2>2
  <2> QED BY <2>3, <2>4
<1>8. Books(cl, held, lane, 0)
  BY <1>3 DEF IInv, Booked
<1>9. /\ cl.inbox[lane] \in Nat /\ cl.reserved[lane] \in Nat /\ cl.staged[lane] \in Nat /\ Capacity[lane] \in Nat
      /\ cl.inbox[lane] + cl.reserved[lane] <= Capacity[lane] /\ cl.reserved[lane] >= 1 /\ cl.staged[lane] >= 1
  <2>1. /\ cl.inbox[lane] \in Nat /\ cl.reserved[lane] \in Nat /\ cl.staged[lane] \in Nat /\ Capacity[lane] \in Nat
        /\ cl.owed[lane] \in Nat /\ CreditsIn(held, lane) \in Nat
    BY <1>2, <1>3, BooksTyped
  <2>2. /\ cl.staged[lane] = Cardinality(StagedIn(held, lane)) /\ cl.reserved[lane] = cl.owed[lane] + CreditsIn(held, lane)
        /\ cl.inbox[lane] + cl.reserved[lane] <= Capacity[lane]
    BY <1>3, <1>8, <2>1 DEF Books
  <2> HIDE DEF lane
  <2> QED BY <1>7, <2>1, <2>2
<1>10. Moved(freed, cl, lane, 0, 0 - 1, 0, 0 - 1)
  <2>1. Moved(b, cl, lane, 0, 0 - 1, 0, 0)
    BY <1>2, <1>3, <1>9, ClientOps, 1 \in Nat
  <2>2. b \in Client /\ b.staged[lane] = cl.staged[lane]
    BY <1>2, <1>3, <1>9, <2>1 DEF Moved
  <2> HIDE DEF b, lane
  <2>3. Moved(freed, b, lane, 0, 0, 0, 0 - 1)
    BY <1>3, <1>9, <2>2, ClientOps, 0 \in Nat
  <2> HIDE DEF freed
  <2>4. Moved(freed, cl, lane, 0 + 0, (0 - 1) + 0, 0 + 0, 0 + (0 - 1))
    BY <1>2, <1>3, <2>1, <2>3, MovedTwice, 0 \in Int, 0 - 1 \in Int
  <2> QED BY <2>4
<1>11. freed \in Client /\ freed.phase = cl.phase /\ freed.prefix_failed = cl.prefix_failed
  BY <1>10 DEF Moved
<1> HIDE DEF b, freed, h
<1>12. Terminal(cl) \/ CanDeliver(freed, lane)
  <2>1. freed.inbox[lane] = cl.inbox[lane] /\ freed.reserved[lane] = cl.reserved[lane] - 1
    BY <1>3, <1>9, <1>10 DEF Moved
  <2>2. freed.inbox[lane] + freed.reserved[lane] + 1 <= Capacity[lane]
    BY <1>9, <2>1
  <2> QED BY <1>11, <2>2 DEF Terminal, CanDeliver, CanReserve
<1>13. CASE /\ cl' = IF Terminal(cl) THEN freed ELSE Deliver(freed, lane)
            /\ held' = h
            /\ ReplayTo(at)
  <2> DEFINE in == IF Terminal(cl) THEN 0 ELSE 1
  <2>1. Moved(cl', cl, lane, in, 0 - 1, 0, 0 - 1)
    <3>1. CASE Terminal(cl)
      BY <1>10, <1>13, <3>1
    <3>2. CASE ~Terminal(cl)
      <4>1. Moved(cl', freed, lane, 1, 0, 0, 0)
        BY <1>3, <1>11, <1>13, <3>2, ClientOps, 0 \in Nat
      <4>2. Moved(cl', cl, lane, 0 + 1, (0 - 1) + 0, 0 + 0, (0 - 1) + 0)
        BY <1>2, <1>3, <1>10, <4>1, MovedTwice, 0 \in Int, 1 \in Int, 0 - 1 \in Int
      <4> QED BY <3>2, <4>2
    <3> QED BY <3>1, <3>2
  <2>2. cl' \in Client /\ cl'.phase = cl.phase /\ cl'.prefix_failed = cl.prefix_failed
    BY <2>1 DEF Moved
  <2>3. Booked'
    <3>1. Balanced(in, 0 - 1, 0, 0 - 1, 0 - 1, 0, 0) /\ Fits(cl, lane, in, 0 - 1)
      BY <1>9 DEF Balanced, Fits
    <3> HIDE DEF in, lane
    <3>2. Books(cl', h, lane, 0)
      BY <1>2, <1>3, <1>5, <1>7, <1>8, <2>1, <3>1, Entered
    <3> QED BY <1>3, <1>5, <1>13, <2>2, <3>2, BooksOfLane DEF Booked
  <2>4. Stuck(cl', held', at) /\ held' \in Seq(Entry)
    BY <1>5, <1>13, <2>2 DEF Stuck, Terminal
  <2>5. Frames' /\ Left' /\ frame' \in [on : BOOLEAN, restricted : BOOLEAN, offered : Counts, replay : Nat]
    BY <1>1, <1>2, <1>13, <2>4, ReplayFrom
  <2>6. Lined'
    <3>0. \A s \in Sources : TakenFrom(s)' = TakenFrom(s)
      BY <1>1 DEF TakenFrom
    <3>1. ASSUME NEW s \in Sources PROVE Line(got[s], TakenFrom(s), h, s)
      <4>1. at \notin CapturesOf(held, s)
        BY <1>1 DEF CapturesOf
      <4>2. Line(got[s], TakenFrom(s), held, s) /\ got[s] \in Nat /\ TakenFrom(s) \in Int
        BY <1>2, TakenType DEF IInv, Lined
      <4> QED BY <1>2, <4>1, <4>2, LineRemoved DEF h
    <3> QED BY <1>1, <1>13, <3>0, <3>1 DEF IInv, Lined
  <2>7. Typed' /\ Asking(held', box')
    BY <1>1, <1>2, <1>5, <1>13, <2>2, <2>5 DEF Typed
  <2> QED BY <2>3, <2>5, <2>6, <2>7 DEF IInv
<1>14. CASE /\ stays /\ UNCHANGED <<cl, held>> /\ ReplayTo(at + 1)
  <2>1. cl.prefix_failed /\ ~Terminal(cl)
    <3>1. CASE Protected([cl |-> cl, held |-> held, on |-> FALSE, got |-> got])
      BY <3>1 DEF Protected
    <3>2. CASE EarlierDelivery(at, lane)
      BY <1>4, <3>2 DEF EarlierDelivery, Stuck
    <3> QED BY <1>14, <3>1, <3>2
  <2>2. Stuck(cl', held', at + 1) /\ held' \in Seq(Entry) /\ at + 1 \in Nat /\ at + 1 > 0
    <3>1. \A i \in DOMAIN held : i < at + 1 => i < at \/ i = at
      BY <1>2
    <3> HIDE DEF stays
    <3> QED BY <1>1, <1>2, <1>4, <1>14, <2>1, <3>1 DEF Stuck
  <2>3. Frames' /\ Left' /\ frame' \in [on : BOOLEAN, restricted : BOOLEAN, offered : Counts, replay : Nat]
    BY <1>14, <2>2, ReplayFrom
  <2>4. UNCHANGED <<box, posted, got, held, cl>>
    BY <1>1, <1>14
  <2>5. \A l \in Lanes : cl.inbox[l] \in Nat
    BY <1>2 DEF Client, Counts
  <2> QED BY <1>2, <2>3, <2>4, <2>5, FrameKeeps
<1> QED BY <1>1, <1>12, <1>13, <1>14

(* ------------------------------- theorems ------------------------------- *)

LEMMA Inductive == MaintenanceSpec => []IInv
<1>1. MaintenanceInit => IInv
  <2> SUFFICES ASSUME MaintenanceInit PROVE IInv
    OBVIOUS
  <2> DEFINE z == [l \in Lanes |-> 0]
  <2>1. /\ box = [s \in Sources |-> <<>>] /\ posted = [s \in Sources |-> 0] /\ got = [s \in Sources |-> 0]
        /\ held = <<>>
        /\ frame = [on |-> FALSE, restricted |-> FALSE, offered |-> z, replay |-> 0]
        /\ cl = [inbox |-> z, reserved |-> z, owed |-> z, staged |-> z, phase |-> "ready", prefix_failed |-> FALSE]
    BY DEF MaintenanceInit, NoFrame
  <2>2. z \in Counts /\ \A l \in Lanes : z[l] = 0
    BY DEF Counts
  <2> HIDE DEF z
  <2>3. Typed
    <3>1. held \in Seq(Entry)
      BY <2>1
    <3>2. box \in [Sources -> Seq(Message)] /\ posted \in [Sources -> 0..MaxPosts] /\ got \in [Sources -> Nat]
      BY <2>1, MaintenanceAssumption
    <3> QED BY <2>1, <2>2, <3>1, <3>2 DEF Typed, Client
  <2>4. Asking(held, box) /\ Frames /\ Left /\ frame.on = FALSE
    BY <2>1 DEF Asking, Frames, Left, Stuck
  <2>5. Lined
    <3> SUFFICES ASSUME NEW s \in Sources PROVE Line(got[s], TakenFrom(s), held, s) /\ Queue(box[s], TakenFrom(s))
      BY DEF Lined
    <3>1. got[s] = 0 /\ TakenFrom(s) = 0 /\ CapturesOf(held, s) = {} /\ DOMAIN box[s] = {}
      BY <2>1 DEF TakenFrom, CapturesOf
    <3> QED BY <3>1 DEF Line, Queue
  <2>6. Booked
    <3> SUFFICES ASSUME NEW lane \in Lanes, NEW l \in Lanes
                 PROVE /\ cl.staged[l] = Cardinality(StagedIn(held, l))
                       /\ cl.reserved[l] = cl.owed[l] + CreditsIn(held, l) + (IF l = lane THEN 0 ELSE 0)
                       /\ cl.inbox[l] + cl.reserved[l] <= Capacity[l]
      BY DEF Booked, Books
    <3>1. StagedIn(held, l) = {} /\ Crediting(held, l, 1) = {} /\ Crediting(held, l, 2) = {}
      BY <2>1 DEF StagedIn, Crediting
    <3>2. Cardinality(StagedIn(held, l)) = 0 /\ CreditsIn(held, l) = 0
      BY <3>1, FS_EmptySet DEF CreditsIn
    <3>3. cl.staged[l] = 0 /\ cl.reserved[l] = 0 /\ cl.owed[l] = 0 /\ cl.inbox[l] = 0
      BY <2>1, <2>2
    <3>4. Capacity[l] \in Nat
      BY MaintenanceAssumption DEF Capacity
    <3> QED BY <3>2, <3>3, <3>4
  <2> QED BY <2>3, <2>4, <2>5, <2>6 DEF IInv
<1>2. IInv /\ [MaintenanceNext]_maintenance => IInv'
  <2> SUFFICES ASSUME IInv, [MaintenanceNext]_maintenance PROVE IInv'
    OBVIOUS
  <2>1. CASE \E src \in Sources, k \in 0..2 : Post(src, k)
    BY <2>1, PostKeeps
  <2>2. CASE \E src \in Sources : Drain(src) \/ Capture(src)
    BY <2>2, DrainKeeps, CaptureKeeps
  <2>3. CASE \E lane \in Lanes : Answer(lane)
    BY <2>3, AnswerKeeps
  <2>4. CASE Notify
    BY <2>4, NotifyKeeps
  <2>5. CASE BeginFrame \/ EnterRestriction \/ LeaveRestriction \/ ReplayInTurn
    BY <2>5, TurnKeeps
  <2>6. CASE FlushTerminal \/ RequestStop
    BY <2>6, FlushKeeps
  <2>7. CASE EndFrame
    BY <2>7, EndKeeps
  <2>8. CASE ReplayCapture
    BY <2>8, ReplayCaptureKeeps
  <2>9. CASE ReplayDelivery
    BY <2>9, ReplayDeliveryKeeps
  <2>10. CASE UNCHANGED maintenance
    BY <2>10 DEF maintenance, IInv, Typed, Frames, Left, Lined, Booked, TakenFrom
  <2> QED BY <2>1, <2>2, <2>3, <2>4, <2>5, <2>6, <2>7, <2>8, <2>9, <2>10 DEF MaintenanceNext
<1> QED BY <1>1, <1>2, PTL DEF MaintenanceSpec

\* Whatever a modal loop captures and whatever a turn drains, each source's
\* messages are processed once each, in the order they were posted.
THEOREM InOrder == MaintenanceSpec => []SourceOrder
<1>1. IInv => SourceOrder
  BY OrderIsLine DEF IInv
<1> QED BY <1>1, Inductive, PTL

\* A credit is reserved exactly while something needs it, and no lane is
\* promised more messages than it holds.
THEOREM CreditsKept == MaintenanceSpec => []CreditsCovered
<1>1. IInv => CreditsCovered
  <2> SUFFICES ASSUME IInv, NEW l \in Lanes
               PROVE  /\ cl.staged[l] = Cardinality(StagedIn(held, l))
                      /\ cl.reserved[l] = cl.owed[l] + CreditsIn(held, l)
                      /\ cl.inbox[l] + cl.reserved[l] <= Capacity[l]
    BY DEF CreditsCovered
  <2>1. cl.owed[l] \in Nat /\ CreditsIn(held, l) \in Nat
    BY BooksTyped DEF IInv, Typed
  <2> QED BY <2>1 DEF IInv, Booked, Books
<1> QED BY <1>1, Inductive, PTL

\* A replay that has ended leaves nothing held, except for a client whose
\* prefix failed.
THEOREM NothingLeft == MaintenanceSpec => []ReplayNeverBlocks
<1>1. IInv => ReplayNeverBlocks
  <2> SUFFICES ASSUME IInv, InTurn, ~(cl.prefix_failed /\ ~Terminal(cl)) PROVE held = <<>>
    BY DEF ReplayNeverBlocks
  <2>1. held \in Seq(Entry) /\ Stuck(cl, held, Len(held) + 1)
    BY DEF IInv, Typed, Left, InTurn
  <2>2. \A i \in 1..Len(held) : FALSE
    BY <2>1 DEF Stuck
  <2> QED BY <2>1, <2>2
<1> QED BY <1>1, Inductive, PTL

\* The record and the frame keep their shape.
THEOREM MaintenanceTyped == MaintenanceSpec => []MaintenanceTypeOK
<1>1. IInv => MaintenanceTypeOK
  <2> SUFFICES ASSUME IInv PROVE MaintenanceTypeOK
    OBVIOUS
  <2>1. \A l \in Lanes : {cl.inbox[l], cl.reserved[l], cl.owed[l], cl.staged[l]} \subseteq Nat
    BY DEF IInv, Typed, Client, Counts
  <2> QED BY <2>1 DEF IInv, Typed, Client, Frames, MaintenanceTypeOK
<1> QED BY <1>1, Inductive, PTL

(***************************************************************************)
(* A budget is charged for exactly the time the Host was unrestricted, and *)
(* a watchdog fails only with the Host or a clock, for every number of     *)
(* scopes, revisions and attempts.  The Host's half of the invariant says  *)
(* what the published words are worth at each moment of a publication; the *)
(* reader's half says what a reading is worth as long as the revision it   *)
(* was made under still stands.                                            *)
(***************************************************************************)

(* --------------------------- the inductive invariant -------------------- *)

WordsSnapshot == [completed : Nat, start : Nat, depth : Nat, sampling : Nat, error : Nat]

HostPlace == {"idle", "store", "enter", "leave", "publish", "close"}

HostRecord == [pc : HostPlace, goal : Nat, next : Nat, then : HostPlace,
               call : {"none", "plain", "restricting"}, ending : BOOLEAN]

HostType ==
    /\ rev \in Nat /\ clock \in 0..MaxClock
    /\ words \in WordsSnapshot /\ st \in WordsSnapshot
    /\ st.depth <= MaxDepth /\ st.sampling \in {0, 1} /\ st.error \in {0, 1}
    /\ st.completed <= MaxClock /\ st.start <= MaxClock
    /\ host \in HostRecord /\ host.next \in 1..6
    /\ truth \in [eligible : Nat, restricted : BOOLEAN]

(* Where the Host is, or will be when the words are stored.                *)
HostStage == IF host.pc = "store" THEN host.then ELSE host.pc

(* A boundary is being sampled in two stages; scopes are closed without    *)
(* publication only after a failure.                                       *)
Stages ==
    /\ HostStage # "store"
    /\ host.pc = "store" => host.then # "publish"
    /\ st.sampling = 1 <=> HostStage \in {"enter", "leave"}
    /\ HostStage = "enter" => ~Failed /\ st.depth = 0
    /\ HostStage = "leave" => ~Failed /\ st.depth = 1
    /\ HostStage = "publish" => ~Failed
    /\ HostStage = "close" => Failed /\ st.depth > 0

(* The revision is odd exactly while words are stored; a failure takes the *)
(* last one.                                                               *)
Revisions ==
    /\ rev > 0
    /\ host.pc = "store" => rev % 2 = 1 /\ rev = host.goal - 1
    /\ host.pc # "store" => rev % 2 = 0
    /\ ~Failed => rev <= TerminalRevision - 2
    /\ Failed /\ host.pc = "store" => rev = TerminalRevision - 1
    /\ Failed /\ host.pc # "store" => rev = TerminalRevision

(* The first n - 1 words of a are those of b.                              *)
Agree(a, b, n) ==
    /\ n > 1 => a.completed = b.completed
    /\ n > 2 => a.start = b.start
    /\ n > 3 => a.depth = b.depth
    /\ n > 4 => a.sampling = b.sampling
    /\ n > 5 => a.error = b.error

(* Between publications the words are the state, unless they say that a    *)
(* boundary is being sampled or that the Host has failed.                  *)
PublishedWords ==
         /\ host.pc = "store" => Agree(words, st, host.next)
         /\ host.pc \in {"idle", "enter", "leave", "close"} /\ ~Failed => words = st
         /\ host.pc = "publish" => words.sampling = 1 /\ words.error = 0
         /\ host.pc # "store" /\ Failed => words.error = 1
         /\ words.error = 1 => Failed

(* While the Host has not failed, its state accounts for all of the clock. *)
Eligible(s, now) == (IF s.depth > 0 THEN s.start ELSE now) - s.completed

Sound(s, now) == s.completed <= now /\ (s.depth > 0 => s.completed <= s.start /\ s.start <= now)

Accounts ==
    ~Failed => /\ truth.restricted <=> st.depth > 0
               /\ Sound(st, clock)
               /\ truth.eligible = Eligible(st, clock)

HInv == HostType /\ Stages /\ Revisions /\ PublishedWords /\ Accounts

ReaderPlace == {"idle", "revision", "words", "clock", "retry"}

Reading == [pc : ReaderPlace, attempt : Int, inner : Int, i : Nat, second : BOOLEAN, seen : Nat,
            cand : WordsSnapshot, before : WordsSnapshot, first : Nat, awake : Nat, due : Int]

Budget == [at : Reading, status : {"new", "unstarted", "running", "restricted", "expired", "failed"},
           from : Int, last : Int, lastAwake : Nat, error : {"none", "clock", "host", "overflow", "invalid"},
           fair : BOOLEAN]

ReaderType == /\ budget \in Budget /\ budget.at.i \in 1..6
              /\ budget.at.pc \in {"revision", "clock"} => budget.at.i = 1

(* A word that has been read is the published one if the revision stands.  *)
WordsRead ==
    budget.at.pc = "words" =>
        /\ budget.at.seen <= rev /\ budget.at.seen % 2 = 0
        /\ rev = budget.at.seen => Agree(budget.at.cand, words, budget.at.i)

(* So is the first snapshot, which is neither a sample nor a failure.      *)
HasBefore == budget.at.pc = "clock" \/ budget.at.second

BeforeRead ==
    HasBefore =>
        /\ budget.at.pc # "idle"
        /\ budget.at.first <= rev /\ budget.at.first % 2 = 0
        /\ budget.at.before.sampling # 1 /\ budget.at.before.error # 1
        /\ rev = budget.at.first => words = budget.at.before

(* The clock was read at a moment when the time due was due.               *)
ClockRead ==
    budget.at.second =>
        /\ budget.at.awake <= clock /\ budget.lastAwake <= budget.at.awake
        /\ budget.at.due <= truth.eligible /\ budget.last <= budget.at.due
        /\ rev = budget.at.first => /\ Sound(budget.at.before, budget.at.awake)
                                /\ budget.at.due = Eligible(budget.at.before, budget.at.awake)

Charged == budget.lastAwake <= clock /\ budget.last <= truth.eligible

RInv == /\ ReaderType /\ WordsRead /\ BeforeRead /\ ClockRead /\ Charged
        /\ RestrictedTimeIsFree /\ NoSpuriousFailure

BudgetIInv == HInv /\ RInv

(* ------------------------------ publications ---------------------------- *)

LEMMA WordsAre == /\ Len(Words) = 5
                  /\ Words[1] = "completed" /\ Words[2] = "start" /\ Words[3] = "depth"
                  /\ Words[4] = "sampling" /\ Words[5] = "error"
BY DEF Words

(* A state that may be published now, to be followed by the given stage.   *)
Publishable(s, then) ==
    /\ s \in WordsSnapshot /\ s.depth <= MaxDepth /\ s.sampling \in {0, 1} /\ s.error \in {0, 1}
    /\ s.completed <= MaxClock /\ s.start <= MaxClock
    /\ then \in {"idle", "enter", "leave", "close"}
    /\ s.sampling = 1 <=> then \in {"enter", "leave"}
    /\ then = "enter" => s.error = 0 /\ s.depth = 0
    /\ then = "leave" => s.error = 0 /\ s.depth = 1
    /\ then = "close" => s.error = 1 /\ s.depth > 0
    /\ s.error = 0 => /\ truth.restricted <=> s.depth > 0
                      /\ Sound(s, clock)
                      /\ truth.eligible = Eligible(s, clock)

LEMMA BeginStoreKeeps ==
    ASSUME HInv, host.pc # "store", ~Failed, NEW s, NEW then, NEW goal \in Nat,
           Publishable(s, then), BeginStore(s, goal, then), UNCHANGED <<words, clock, truth>>,
           s.error = 0 => goal = rev + 2 /\ goal <= TerminalRevision - 2,
           s.error = 1 => goal = TerminalRevision
    PROVE  HInv'
<1> USE RestrictionAssumption
<1>1. /\ rev \in Nat /\ rev > 0 /\ rev % 2 = 0 /\ rev <= TerminalRevision - 2
  BY DEF HInv, HostType, Revisions
<1>2. /\ st' = s /\ rev' = goal - 1 /\ host'.pc = "store" /\ host'.goal = goal /\ host'.next = 1
      /\ host'.then = then /\ host' \in HostRecord
  <2>1. then \in HostPlace /\ "store" \in HostPlace
    BY DEF Publishable, HostPlace
  <2>2. host \in HostRecord
    BY DEF HInv, HostType
  <2> QED BY <2>1, <2>2 DEF BeginStore, HostRecord
<1>3. rev' \in Nat /\ rev' % 2 = 1 /\ rev' > rev /\ rev' <= TerminalRevision - 1
      /\ (s.error = 0 => rev' <= TerminalRevision - 2)
  BY <1>1, <1>2 DEF Publishable
<1>4. HostType'
  BY <1>2, <1>3 DEF HInv, HostType, Publishable
<1>5. Stages'
  BY <1>2 DEF Stages, HostStage, Publishable, Failed
<1>6. Revisions'
  BY <1>1, <1>2, <1>3 DEF Revisions, Publishable, Failed
<1>7. PublishedWords'
  BY <1>2 DEF HInv, PublishedWords, Agree, Publishable, Failed, HostType
<1>8. Accounts'
  BY <1>2 DEF Accounts, Publishable, Failed, Sound, Eligible
<1> QED BY <1>4, <1>5, <1>6, <1>7, <1>8 DEF HInv

(* fail(): the first failure, from any state the Host publishes from.      *)
LEMMA FailKeeps ==
    ASSUME HInv, host.pc # "store", ~Failed, NEW s, NEW then \in {"idle", "close"},
           s \in WordsSnapshot, s.depth <= MaxDepth, s.completed <= MaxClock, s.start <= MaxClock,
           then = "close" => s.depth > 0,
           Fail(s, then), UNCHANGED <<words, clock, truth>>
    PROVE  HInv'
<1> DEFINE f == [s EXCEPT !.error = 1, !.sampling = 0]
<1>1. /\ f \in WordsSnapshot /\ f.error = 1 /\ f.sampling = 0 /\ f.depth = s.depth
      /\ f.completed = s.completed /\ f.start = s.start
  BY DEF WordsSnapshot
<1>2. BeginStore(f, TerminalRevision, then)
  BY DEF Fail
<1> HIDE DEF f
<1>3. Publishable(f, then)
  BY <1>1 DEF Publishable
<1> QED BY <1>1, <1>2, <1>3, BeginStoreKeeps, RestrictionAssumption

LEMMA PublishKeeps ==
    ASSUME HInv, host.pc # "store", ~Failed, NEW s, NEW then, s.error = 0,
           Publishable(s, then), then = "idle" \/ CanPublish(1),
           PublishSnapshot(s, then), UNCHANGED <<words, clock, truth>>
    PROVE  HInv'
<1>1. CASE CanPublish(1) /\ BeginStore(s, rev + 2, then)
  <2>1. rev + 2 \in Nat /\ rev + 2 <= TerminalRevision - 2
    BY <1>1, RestrictionAssumption DEF CanPublish, HInv, HostType
  <2> QED BY <1>1, <2>1, BeginStoreKeeps
<1>2. CASE ~CanPublish(1) /\ Fail(s, then)
  BY <1>2, FailKeeps DEF Publishable
<1> QED BY <1>1, <1>2 DEF PublishSnapshot

LEMMA StoreWordKeeps == ASSUME HInv, StoreWord PROVE HInv'
<1> DEFINE w == Words[host.next]
<1>1. /\ host \in HostRecord /\ words \in WordsSnapshot /\ st \in WordsSnapshot /\ host.next \in 1..5 /\ host.pc = "store"
      /\ host' = [host EXCEPT !.next = host.next + 1]
      /\ words' = [words EXCEPT ![w] = st[w]]
      /\ UNCHANGED <<rev, st, clock, truth>>
  BY WordsAre DEF HInv, HostType, HostRecord, StoreWord
<1>2. /\ host' \in HostRecord /\ host'.pc = host.pc /\ host'.goal = host.goal /\ host'.then = host.then
      /\ host'.next = host.next + 1
  BY <1>1 DEF HostRecord
<1>3. words' \in WordsSnapshot /\ Agree(words', st', host'.next)
  <2> Agree(words, st, host.next)
    BY <1>1 DEF HInv, PublishedWords
  <2> USE <1>1, <1>2, WordsAre DEF WordsSnapshot, Agree
  <2>1. CASE host.next = 1
    BY <2>1
  <2>2. CASE host.next = 2
    BY <2>2
  <2>3. CASE host.next = 3
    BY <2>3
  <2>4. CASE host.next = 4
    BY <2>4
  <2>5. CASE host.next = 5
    BY <2>5
  <2> QED BY <1>1, <2>1, <2>2, <2>3, <2>4, <2>5
<1>4. words'.error = 1 => Failed'
  <2>1. words'.error = words.error \/ words'.error = st.error
    BY <1>1 DEF WordsSnapshot
  <2> QED BY <1>1, <2>1 DEF HInv, PublishedWords, Failed
<1> HIDE DEF w
<1>5. HostType' /\ Stages' /\ Revisions' /\ Accounts'
  BY <1>1, <1>2, <1>3 DEF HInv, HostType, HostRecord, Stages, HostStage, Revisions, Accounts, Failed
<1>6. PublishedWords'
  BY <1>1, <1>2, <1>3, <1>4 DEF PublishedWords
<1> QED BY <1>5, <1>6 DEF HInv

LEMMA StoreRevisionKeeps == ASSUME HInv, StoreRevision PROVE HInv'
<1> USE RestrictionAssumption
<1>1. /\ host \in HostRecord /\ words \in WordsSnapshot /\ st \in WordsSnapshot /\ host.next = 6 /\ host.pc = "store"
      /\ host.goal \in Nat /\ rev = host.goal - 1 /\ rev % 2 = 1 /\ rev \in Nat
      /\ UNCHANGED <<words, st, clock, truth>>
  BY WordsAre DEF HInv, HostType, HostRecord, StoreRevision, Revisions
<1>2. /\ host' \in HostRecord /\ host'.pc = host.then /\ rev' = host.goal /\ host'.next = 1
  <2>1. "idle" \in HostPlace
    BY DEF HostPlace
  <2> QED BY <1>1, <2>1 DEF HostRecord, StoreRevision
<1>3. rev' = rev + 1 /\ rev' % 2 = 0
  BY <1>1, <1>2
<1>4. words = st
  BY <1>1 DEF HInv, PublishedWords, Agree, WordsSnapshot
<1>5. host.then \in {"idle", "enter", "leave", "close"}
  BY <1>1 DEF HInv, Stages, HostStage, HostRecord, HostPlace
<1>6. HostType'
  BY <1>1, <1>2, <1>3 DEF HInv, HostType, HostRecord
<1>7. Stages'
  BY <1>1, <1>2, <1>5 DEF HInv, Stages, HostStage, Failed
<1>8. Revisions'
  <2>1. ~Failed => rev + 1 <= TerminalRevision - 2
    <3>1. rev <= TerminalRevision - 2 => rev + 1 <= TerminalRevision - 2
      <4> DEFINE T == TerminalRevision
      <4>1. T \in Nat /\ T % 2 = 0
        OBVIOUS
      <4>2. rev \in Nat /\ rev % 2 = 1
        BY <1>1
      <4> HIDE DEF T
      <4>3. rev # T - 2
        BY <4>1, <4>2
      <4> QED BY <4>1, <4>2, <4>3 DEF T
    <3> QED BY <3>1 DEF HInv, Revisions
  <2>2. Failed => rev = TerminalRevision - 1
    BY <1>1 DEF HInv, Revisions
  <2>3. host'.pc # "store"
    BY <1>2, <1>5
  <2>4. st' = st /\ rev' > 0 /\ TerminalRevision - 1 + 1 = TerminalRevision
    BY <1>1, <1>3
  <2> QED BY <1>3, <2>1, <2>2, <2>3, <2>4 DEF Revisions, Failed
<1>9. PublishedWords'
  BY <1>1, <1>2, <1>4, <1>5 DEF HInv, HostType, PublishedWords, Failed
<1>10. Accounts'
  BY <1>1 DEF HInv, Accounts, Failed
<1> QED BY <1>6, <1>7, <1>8, <1>9, <1>10 DEF HInv

(* ------------------------------ the Host's steps ------------------------ *)

(* What a scope's state becomes stays within its type.                     *)
LEMMA ClosedIs ==
    ASSUME NEW s \in WordsSnapshot, s.depth > 0
    PROVE  /\ Closed(s) \in WordsSnapshot /\ Closed(s).depth = s.depth - 1
           /\ Closed(s).completed = s.completed /\ Closed(s).sampling = s.sampling
           /\ Closed(s).error = s.error
           /\ s.depth # 1 => Closed(s).start = s.start
           /\ s.depth = 1 => Closed(s).start = 0
<1>1. s.depth \in Nat /\ s.depth - 1 \in Nat /\ s.start \in Nat
  BY DEF WordsSnapshot
<1> DEFINE d == s.depth - 1
<1>2. d \in Nat
  BY <1>1
<1>3. CASE s.depth = 1
  <2>1. Closed(s) = [s EXCEPT !.depth = d, !.start = 0]
    BY <1>3 DEF Closed
  <2>2. /\ Closed(s) \in WordsSnapshot /\ Closed(s).depth = d /\ Closed(s).completed = s.completed
        /\ Closed(s).sampling = s.sampling /\ Closed(s).error = s.error /\ Closed(s).start = 0
    <3> DEFINE none == 0
    <3>0. none \in Nat /\ Closed(s) = [s EXCEPT !.depth = d, !.start = none]
      BY <2>1
    <3> HIDE DEF d, none
    <3>1. Closed(s) \in WordsSnapshot
      BY <1>1, <1>2, <3>0 DEF WordsSnapshot
    <3> QED BY <1>1, <1>2, <2>1, <3>1 DEF WordsSnapshot
  <2> QED BY <1>3, <2>2
<1>4. CASE s.depth # 1
  <2>1. Closed(s) = [s EXCEPT !.depth = d, !.start = s.start]
    BY <1>4 DEF Closed
  <2>2. /\ Closed(s) \in WordsSnapshot /\ Closed(s).depth = d /\ Closed(s).completed = s.completed
        /\ Closed(s).sampling = s.sampling /\ Closed(s).error = s.error /\ Closed(s).start = s.start
    <3> HIDE DEF d
    <3> QED BY <1>1, <1>2, <2>1 DEF WordsSnapshot
  <2> QED BY <1>4, <2>2
<1> QED BY <1>3, <1>4

(* The Host's state while it is idle and well.                             *)
LEMMA IdleState ==
    ASSUME HInv, host.pc = "idle", ~Failed
    PROVE  /\ st \in WordsSnapshot /\ st.sampling = 0 /\ st.error = 0 /\ st.depth <= MaxDepth
           /\ st.completed <= MaxClock /\ st.start <= MaxClock
           /\ truth.restricted <=> st.depth > 0
           /\ Sound(st, clock)
           /\ truth.eligible = Eligible(st, clock)
BY DEF HInv, HostType, Stages, HostStage, Accounts, Failed

LEMMA SampleBoundaryKeeps ==
    ASSUME HInv, host.pc = "idle", ~Failed, NEW then \in {"enter", "leave"},
           then = "enter" => st.depth = 0, then = "leave" => st.depth = 1,
           SampleBoundary(then), UNCHANGED <<words, clock, truth>>
    PROVE  HInv'
<1>1. CASE CanPublish(2) /\ PublishSnapshot([st EXCEPT !.sampling = 1], then)
  <2> DEFINE s == [st EXCEPT !.sampling = 1]
  <2>1. /\ s \in WordsSnapshot /\ s.sampling = 1 /\ s.error = 0 /\ s.depth = st.depth
        /\ s.completed = st.completed /\ s.start = st.start
    BY IdleState DEF WordsSnapshot
  <2>2. PublishSnapshot(s, then)
    BY <1>1
  <2> HIDE DEF s
  <2>3. Publishable(s, then)
    BY <2>1, IdleState DEF Publishable, Sound, Eligible
  <2>4. CanPublish(1)
    BY <1>1, RestrictionAssumption DEF CanPublish, HInv, HostType
  <2> QED BY <2>1, <2>2, <2>3, <2>4, PublishKeeps
<1>2. CASE ~CanPublish(2) /\ Fail(st, IF then = "leave" THEN "close" ELSE "idle")
  <2>1. CASE then = "leave"
    BY <1>2, <2>1, IdleState, FailKeeps
  <2>2. CASE then = "enter"
    BY <1>2, <2>2, IdleState, FailKeeps
  <2> QED BY <2>1, <2>2
<1> QED BY <1>1, <1>2 DEF SampleBoundary

LEMMA EnterKeeps == ASSUME HInv, Enter PROVE HInv'
<1>1. host.pc = "idle" /\ ~Failed /\ st.depth < MaxDepth /\ UNCHANGED <<words, clock, truth>>
  BY DEF Enter
<1>2. CASE st.depth = 0 /\ SampleBoundary("enter")
  BY <1>1, <1>2, SampleBoundaryKeeps
<1>3. CASE st.depth > 0 /\ CanPublish(1) /\ PublishSnapshot([st EXCEPT !.depth = @ + 1], "idle")
  <2> DEFINE s == [st EXCEPT !.depth = st.depth + 1]
  <2>1. /\ s \in WordsSnapshot /\ s.sampling = 0 /\ s.error = 0 /\ s.depth = st.depth + 1
        /\ s.completed = st.completed /\ s.start = st.start
    BY <1>1, IdleState DEF WordsSnapshot
  <2>2. PublishSnapshot(s, "idle")
    BY <1>3
  <2>3. st.depth \in Nat /\ MaxDepth \in Nat
    BY <1>1, IdleState, RestrictionAssumption DEF WordsSnapshot
  <2> HIDE DEF s
  <2>4. Publishable(s, "idle")
    BY <1>1, <1>3, <2>1, <2>3, IdleState DEF Publishable, Sound, Eligible
  <2> QED BY <1>1, <2>1, <2>2, <2>4, PublishKeeps
<1>4. CASE st.depth > 0 /\ ~CanPublish(1) /\ Fail(st, "idle")
  BY <1>1, <1>4, IdleState, FailKeeps
<1> QED BY <1>2, <1>3, <1>4 DEF Enter

LEMMA EnterSampledKeeps == ASSUME HInv, EnterSampled PROVE HInv'
<1>1. /\ host.pc = "enter" /\ ~Failed /\ st.depth = 0 /\ st.sampling = 1 /\ st.error = 0
      /\ words = st /\ st \in WordsSnapshot /\ host \in HostRecord /\ clock \in Nat /\ clock <= MaxClock
      /\ st.completed <= MaxClock /\ st.start <= MaxClock
      /\ UNCHANGED <<words, clock>>
  BY RestrictionAssumption DEF EnterSampled, HInv, HostType, Stages, HostStage, PublishedWords, Failed
<1>2. CASE /\ st' = [st EXCEPT !.sampling = 0, !.start = clock, !.depth = 1]
           /\ host' = [host EXCEPT !.pc = "publish"] /\ UNCHANGED rev
           /\ truth' = [truth EXCEPT !.restricted = TRUE]
  <2>1. /\ st' \in WordsSnapshot /\ st'.sampling = 0 /\ st'.error = 0 /\ st'.depth = 1
        /\ st'.completed = st.completed /\ st'.start = clock
    BY <1>1, <1>2 DEF WordsSnapshot
  <2>2. /\ host' \in HostRecord /\ host'.pc = "publish" /\ host'.next = host.next
    <3>1. "publish" \in HostPlace
      BY DEF HostPlace
    <3> QED BY <1>1, <1>2, <3>1 DEF HostRecord
  <2>3. /\ truth' \in [eligible : Nat, restricted : BOOLEAN] /\ truth'.restricted = TRUE
        /\ truth'.eligible = truth.eligible
    BY <1>2 DEF HInv, HostType
  <2>4. HostType'
    BY <1>1, <1>2, <2>1, <2>2, <2>3, RestrictionAssumption DEF HInv, HostType
  <2>5. Stages' /\ Revisions' /\ PublishedWords'
    BY <1>1, <1>2, <2>1, <2>2 DEF HInv, Stages, HostStage, Revisions, PublishedWords, Failed
  <2>6. Accounts'
    <3>1. truth.eligible = clock - st.completed /\ st.completed <= clock
      BY <1>1 DEF HInv, Accounts, Sound, Eligible
    <3> QED BY <1>1, <2>1, <2>3, <3>1 DEF Accounts, Sound, Eligible
  <2> QED BY <2>4, <2>5, <2>6 DEF HInv
<1>3. CASE Fail(st, "idle") /\ UNCHANGED truth
  BY <1>1, <1>3, FailKeeps DEF HInv, HostType
<1> QED BY <1>2, <1>3 DEF EnterSampled

LEMMA LeaveKeeps == ASSUME HInv, Leave PROVE HInv'
<1>1. /\ host.pc = "idle" /\ st \in WordsSnapshot /\ st.depth > 0 /\ st.depth \in Nat
      /\ host \in HostRecord /\ UNCHANGED <<words, clock, truth>>
  BY DEF Leave, HInv, HostType, WordsSnapshot
<1>2. CASE Failed
  <2>1. st' = Closed(st) /\ UNCHANGED <<rev, host>>
    BY <1>2 DEF Leave
  <2>2. /\ st' \in WordsSnapshot /\ st'.depth = st.depth - 1 /\ st'.completed = st.completed
        /\ st'.sampling = st.sampling /\ st'.error = st.error /\ (st'.start = st.start \/ st'.start = 0)
    BY <1>1, <2>1, ClosedIs
  <2>3. HostType'
    BY <1>1, <2>1, <2>2, RestrictionAssumption DEF HInv, HostType
  <2> QED BY <1>1, <1>2, <2>1, <2>2, <2>3 DEF HInv, Stages, HostStage, Revisions, PublishedWords, Accounts, Failed
<1>3. CASE ~Failed /\ st.depth = 1 /\ SampleBoundary("leave")
  BY <1>1, <1>3, SampleBoundaryKeeps
<1>4. CASE ~Failed /\ st.depth > 1 /\ PublishSnapshot(Closed(st), "idle")
  <2>1. /\ Closed(st) \in WordsSnapshot /\ Closed(st).depth = st.depth - 1
        /\ Closed(st).completed = st.completed /\ Closed(st).sampling = 0
        /\ Closed(st).error = 0 /\ Closed(st).start = st.start
    BY <1>1, <1>4, ClosedIs, IdleState
  <2>2. Publishable(Closed(st), "idle")
    BY <1>1, <1>4, <2>1, IdleState, RestrictionAssumption DEF Publishable, Sound, Eligible
  <2> QED BY <1>1, <1>4, <2>1, <2>2, PublishKeeps
<1> QED BY <1>2, <1>3, <1>4 DEF Leave

LEMMA LeaveSampledKeeps == ASSUME HInv, LeaveSampled PROVE HInv'
<1>1. /\ host.pc = "leave" /\ ~Failed /\ st.depth = 1 /\ st.sampling = 1 /\ st.error = 0
      /\ words = st /\ st \in WordsSnapshot /\ host \in HostRecord /\ clock \in Nat /\ clock <= MaxClock
      /\ st.completed <= MaxClock /\ st.start <= MaxClock
      /\ UNCHANGED <<words, clock>>
  BY RestrictionAssumption DEF LeaveSampled, HInv, HostType, Stages, HostStage, PublishedWords, Failed
<1>2. CASE /\ st' = Closed([st EXCEPT !.sampling = 0, !.completed = @ + (clock - st.start)])
           /\ host' = [host EXCEPT !.pc = "publish"] /\ UNCHANGED rev
           /\ truth' = [truth EXCEPT !.restricted = FALSE]
  <2> DEFINE total == st.completed + (clock - st.start)
             s == [st EXCEPT !.sampling = 0, !.completed = total]
  <2>0. /\ st.completed \in Nat /\ st.start \in Nat /\ st.completed <= st.start /\ st.start <= clock
        /\ truth.eligible = st.start - st.completed
    BY <1>1 DEF HInv, Accounts, Sound, Eligible, WordsSnapshot
  <2>1. /\ s \in WordsSnapshot /\ s.sampling = 0 /\ s.error = 0 /\ s.depth = 1
        /\ s.completed = total
    <3>1. total \in Nat
      BY <1>1, <2>0
    <3> HIDE DEF total
    <3> QED BY <1>1, <3>1 DEF WordsSnapshot
  <2>2. st' = Closed(s)
    BY <1>2
  <2> HIDE DEF s
  <2>3. /\ st' \in WordsSnapshot /\ st'.sampling = 0 /\ st'.error = 0 /\ st'.depth = 0 /\ st'.start = 0
        /\ st'.completed = st.completed + (clock - st.start)
    BY <2>1, <2>2, ClosedIs
  <2>4. /\ host' \in HostRecord /\ host'.pc = "publish" /\ host'.next = host.next
    <3>1. "publish" \in HostPlace
      BY DEF HostPlace
    <3> QED BY <1>1, <1>2, <3>1 DEF HostRecord
  <2>5. /\ truth' \in [eligible : Nat, restricted : BOOLEAN] /\ truth'.restricted = FALSE
        /\ truth'.eligible = truth.eligible
    BY <1>2 DEF HInv, HostType
  <2>6. HostType'
    BY <1>1, <1>2, <2>0, <2>3, <2>4, <2>5, RestrictionAssumption DEF HInv, HostType
  <2>7. Stages' /\ Revisions' /\ PublishedWords'
    BY <1>1, <1>2, <2>3, <2>4 DEF HInv, Stages, HostStage, Revisions, PublishedWords, Failed
  <2>8. Accounts'
    BY <1>1, <2>0, <2>3, <2>5 DEF Accounts, Sound, Eligible
  <2> QED BY <2>6, <2>7, <2>8 DEF HInv
<1>3. CASE Fail(st, "close") /\ UNCHANGED truth
  BY <1>1, <1>3, FailKeeps DEF HInv, HostType
<1> QED BY <1>2, <1>3 DEF LeaveSampled

LEMMA PublishBoundaryKeeps == ASSUME HInv, PublishBoundary PROVE HInv'
<1>1. host.pc = "publish" /\ ~Failed /\ st.sampling = 0 /\ st.error = 0
      /\ PublishSnapshot(st, "idle") /\ UNCHANGED <<words, clock, truth>>
  BY DEF PublishBoundary, HInv, HostType, Stages, HostStage, Failed
<1>2. Publishable(st, "idle")
  BY <1>1 DEF Publishable, HInv, HostType, Accounts
<1> QED BY <1>1, <1>2, PublishKeeps

LEMMA CloseFailedKeeps == ASSUME HInv, CloseFailed PROVE HInv'
<1>1. /\ host.pc = "close" /\ Failed /\ st \in WordsSnapshot /\ st.depth > 0 /\ st.depth \in Nat /\ st.sampling = 0
      /\ host \in HostRecord /\ UNCHANGED <<rev, words, clock, truth>> /\ st' = Closed(st)
      /\ host' = [host EXCEPT !.pc = "idle"]
  BY DEF CloseFailed, HInv, HostType, Stages, HostStage, WordsSnapshot
<1>2. /\ st' \in WordsSnapshot /\ st'.depth = st.depth - 1 /\ st'.completed = st.completed
      /\ st'.sampling = st.sampling /\ st'.error = st.error /\ (st'.start = st.start \/ st'.start = 0)
  BY <1>1, ClosedIs
<1>3. /\ host' \in HostRecord /\ host'.pc = "idle" /\ host'.next = host.next
  <2>1. "idle" \in HostPlace
    BY DEF HostPlace
  <2> QED BY <1>1, <2>1 DEF HostRecord
<1>4. HostType'
  BY <1>1, <1>2, <1>3, RestrictionAssumption DEF HInv, HostType
<1> QED BY <1>1, <1>2, <1>3, <1>4 DEF HInv, Stages, HostStage, Revisions, PublishedWords, Accounts, Failed

LEMMA InvocationKeeps == ASSUME HInv, BeginInvocation \/ EndInvocation PROVE HInv'
<1>1. /\ host \in HostRecord /\ host' \in HostRecord /\ host'.pc = host.pc /\ host.pc = "idle"
      /\ host'.next = host.next /\ UNCHANGED <<rev, words, st, clock, truth>>
  BY DEF HInv, HostType, BeginInvocation, EndInvocation, HostRecord
<1> QED BY <1>1 DEF HInv, HostType, Stages, HostStage, Revisions, PublishedWords, Accounts, Failed

LEMMA TickKeeps == ASSUME HInv, Tick PROVE HInv'
<1>1. /\ clock \in Nat /\ clock < MaxClock /\ clock' = clock + 1 /\ UNCHANGED <<rev, words, st, host>>
      /\ truth' \in [eligible : Nat, restricted : BOOLEAN] /\ truth'.restricted = truth.restricted
      /\ truth.restricted => truth'.eligible = truth.eligible
      /\ ~truth.restricted => truth'.eligible = truth.eligible + 1
  BY RestrictionAssumption DEF HInv, HostType, Tick
<1>2. HostType'
  BY <1>1, RestrictionAssumption DEF HInv, HostType
<1>3. Stages' /\ Revisions' /\ PublishedWords'
  BY <1>1 DEF HInv, Stages, HostStage, Revisions, PublishedWords, Failed
<1>4. Accounts'
  BY <1>1 DEF HInv, HostType, WordsSnapshot, Accounts, Failed, Sound, Eligible
<1> QED BY <1>2, <1>3, <1>4 DEF HInv

(* What a step of the Host, or of the clock, can mean to a reader.         *)
Moves ==
    /\ rev' \in Nat /\ rev <= rev'
    /\ rev' = rev => rev % 2 = 1 \/ words' = words
    /\ clock' \in Nat /\ clock <= clock'
    /\ truth'.eligible \in Nat /\ truth.eligible <= truth'.eligible
    /\ Failed => Failed'

LEMMA StoreMoves ==
    ASSUME HInv, ~Failed, NEW s, NEW then, PublishSnapshot(s, then) \/ Fail(s, then)
    PROVE  rev' \in Nat /\ rev < rev'
<1>1. rev \in Nat /\ rev <= TerminalRevision - 2 /\ TerminalRevision \in Nat /\ TerminalRevision >= 4
  BY RestrictionAssumption DEF HInv, HostType, Revisions
<1>2. CASE BeginStore(s, rev + 2, then)
  BY <1>1, <1>2 DEF BeginStore
<1>3. CASE Fail(s, then)
  BY <1>1, <1>3 DEF Fail, BeginStore
<1> QED BY <1>2, <1>3 DEF PublishSnapshot

LEMMA BoundaryMoves ==
    ASSUME HInv, ~Failed, NEW then, SampleBoundary(then)
    PROVE  rev' \in Nat /\ rev < rev'
BY StoreMoves DEF SampleBoundary

HostStep == \/ StoreWord \/ StoreRevision \/ BeginInvocation \/ Enter \/ EnterSampled \/ Leave \/ LeaveSampled
            \/ PublishBoundary \/ CloseFailed \/ EndInvocation \/ Tick

LEMMA HostStepKeeps == ASSUME HInv, HostStep PROVE HInv'
BY StoreWordKeeps, StoreRevisionKeeps, EnterKeeps, EnterSampledKeeps, LeaveKeeps, LeaveSampledKeeps,
   PublishBoundaryKeeps, CloseFailedKeeps, InvocationKeeps, TickKeeps DEF HostStep

LEMMA HostMoves == ASSUME HInv, HostStep PROVE Moves /\ UNCHANGED budget
<1>1. /\ rev \in Nat /\ clock \in Nat /\ truth \in [eligible : Nat, restricted : BOOLEAN]
      /\ st \in WordsSnapshot /\ host \in HostRecord
  BY RestrictionAssumption DEF HInv, HostType
<1>2. truth.eligible \in Nat
  BY <1>1
<1>3. CASE StoreWord
  BY <1>1, <1>2, <1>3 DEF StoreWord, Moves, HInv, Revisions, Failed
<1>4. CASE StoreRevision
  BY <1>1, <1>2, <1>4 DEF StoreRevision, Moves, HInv, Revisions, Failed, HostRecord
<1>5. CASE BeginInvocation \/ EndInvocation
  BY <1>1, <1>2, <1>5 DEF BeginInvocation, EndInvocation, Moves, Failed
<1>6. CASE Enter
  <2>1. ~Failed /\ rev' \in Nat /\ rev < rev'
    BY <1>6, StoreMoves, BoundaryMoves DEF Enter
  <2> QED BY <1>1, <1>2, <1>6, <2>1 DEF Enter, Moves
<1>7. CASE EnterSampled
  <2>1. ~Failed
    BY <1>7 DEF EnterSampled, HInv, Stages, HostStage
  <2>2. rev' \in Nat /\ rev <= rev' /\ truth'.eligible = truth.eligible
    BY <1>1, <1>7, <2>1, StoreMoves DEF EnterSampled
  <2> QED BY <1>1, <1>2, <1>7, <2>1, <2>2 DEF EnterSampled, Moves
<1>8. CASE Leave
  <2>1. CASE Failed
    <3>1. st' = Closed(st) /\ st.depth > 0 /\ UNCHANGED <<rev, words, clock, truth, budget>>
      BY <1>8, <2>1 DEF Leave
    <3>2. st'.error = st.error
      BY <1>1, <3>1, ClosedIs
    <3> QED BY <1>1, <1>2, <3>1, <3>2 DEF Moves, Failed
  <2>2. CASE ~Failed
    <3>1. rev' \in Nat /\ rev < rev'
      BY <1>8, <2>2, StoreMoves, BoundaryMoves DEF Leave
    <3> QED BY <1>1, <1>2, <1>8, <2>2, <3>1 DEF Leave, Moves
  <2> QED BY <2>1, <2>2
<1>9. CASE LeaveSampled
  <2>1. ~Failed
    BY <1>9 DEF LeaveSampled, HInv, Stages, HostStage
  <2>2. rev' \in Nat /\ rev <= rev' /\ truth'.eligible = truth.eligible
    BY <1>1, <1>9, <2>1, StoreMoves DEF LeaveSampled
  <2> QED BY <1>1, <1>2, <1>9, <2>1, <2>2 DEF LeaveSampled, Moves
<1>10. CASE PublishBoundary
  <2>1. ~Failed
    BY <1>10 DEF PublishBoundary, HInv, Stages, HostStage
  <2>2. rev' \in Nat /\ rev < rev'
    BY <1>10, <2>1, StoreMoves DEF PublishBoundary
  <2> QED BY <1>1, <1>2, <1>10, <2>1, <2>2 DEF PublishBoundary, Moves
<1>11. CASE CloseFailed
  <2>1. st.depth > 0
    BY <1>11 DEF CloseFailed, HInv, Stages, HostStage
  <2>2. st'.error = st.error
    BY <1>1, <1>11, <2>1, ClosedIs DEF CloseFailed
  <2> QED BY <1>1, <1>2, <1>11, <2>2 DEF CloseFailed, Moves, Failed
<1>12. CASE Tick
  <2>1. truth'.eligible = truth.eligible \/ truth'.eligible = truth.eligible + 1
    BY <1>1, <1>12 DEF Tick
  <2> QED BY <1>1, <1>2, <1>12, <2>1 DEF Tick, Moves, Failed
<1> QED BY <1>3, <1>4, <1>5, <1>6, <1>7, <1>8, <1>9, <1>10, <1>11, <1>12 DEF HostStep

(* A reading survives the Host's steps: it stands, or its revision is past. *)
LEMMA ReaderUnderHost == ASSUME HInv, RInv, HInv', Moves, UNCHANGED budget PROVE RInv'
<1>1. /\ budget \in Budget /\ budget' = budget /\ rev \in Nat /\ clock \in Nat /\ truth.eligible \in Nat
      /\ budget.at \in Reading
  BY RestrictionAssumption DEF HInv, HostType, RInv, ReaderType, Budget
<1>2. /\ budget.at.seen \in Nat /\ budget.at.first \in Nat /\ budget.at.awake \in Nat /\ budget.at.due \in Int
      /\ budget.last \in Int /\ budget.lastAwake \in Nat
  BY <1>1 DEF Budget, Reading
<1>3. \A n \in Nat : n <= rev /\ n % 2 = 0 /\ rev' = n => rev = n /\ words' = words
  BY <1>1 DEF Moves
<1>4. ReaderType' /\ RestrictedTimeIsFree' /\ NoSpuriousFailure' /\ Charged'
  BY <1>1, <1>2 DEF RInv, ReaderType, RestrictedTimeIsFree, NoSpuriousFailure, Charged, Moves
<1>5. WordsRead'
  BY <1>1, <1>2, <1>3 DEF RInv, WordsRead, Moves
<1>6. BeforeRead'
  BY <1>1, <1>2, <1>3 DEF RInv, BeforeRead, HasBefore, Moves
<1>7. ClockRead'
  BY <1>1, <1>2, <1>3 DEF RInv, BeforeRead, HasBefore, ClockRead, Moves
<1> QED BY <1>4, <1>5, <1>6, <1>7 DEF RInv

(* ----------------------------- the reader's steps ----------------------- *)

HostStill == UNCHANGED <<rev, words, st, host, clock, truth>>

SameBudget(q, r) ==
    q.status = r.status /\ q.from = r.from /\ q.last = r.last /\ q.lastAwake = r.lastAwake
    /\ q.error = r.error /\ q.fair = r.fair

SameReading(a, b) ==
    a.second = b.second /\ a.before = b.before /\ a.first = b.first /\ a.awake = b.awake /\ a.due = b.due

(* A new reading in a budget leaves the rest of it alone.                  *)
LEMMA AtIs ==
    ASSUME NEW r \in Budget, NEW a \in Reading
    PROVE  [r EXCEPT !.at = a] \in Budget /\ [r EXCEPT !.at = a].at = a /\ SameBudget([r EXCEPT !.at = a], r)
BY DEF Budget, SameBudget

LEMMA BlankIs ==
    /\ Blank \in WordsSnapshot
    /\ NoReading \in Reading
    /\ \A pledged \in ReaderPlace, n \in Int :
          LET a == [NoReading EXCEPT !.pc = pledged, !.attempt = n]
          IN  a \in Reading /\ a.pc = pledged /\ a.i = 1 /\ a.second = FALSE
    /\ \A pledged \in ReaderPlace :
          LET a == [NoReading EXCEPT !.pc = pledged]
          IN  a \in Reading /\ a.pc = pledged /\ a.i = 1 /\ a.second = FALSE
<1>1. Blank \in WordsSnapshot
  BY DEF Blank, WordsSnapshot
<1>2. NoReading \in Reading
  BY <1>1 DEF NoReading, Reading, ReaderPlace
<1>3. NoReading.i = 1 /\ NoReading.second = FALSE
  BY DEF NoReading
<1> QED BY <1>1, <1>2, <1>3 DEF Reading

(* A reading that is given up for another attempt at it.                   *)
LEMMA MidReading ==
    ASSUME HInv, RInv, HostStill, budget' \in Budget, SameBudget(budget', budget), SameReading(budget'.at, budget.at),
           budget'.at.i \in 1..6, budget'.at.pc = "retry" \/ (budget'.at.pc = "revision" /\ budget'.at.i = 1)
    PROVE  RInv'
<1>1. ReaderType' /\ RestrictedTimeIsFree' /\ NoSpuriousFailure' /\ Charged'
  BY DEF RInv, ReaderType, RestrictedTimeIsFree, NoSpuriousFailure, Charged, SameBudget, HostStill, Failed
<1>2. WordsRead'
  BY DEF WordsRead
<1>3. BeforeRead'
  BY DEF RInv, BeforeRead, HasBefore, SameReading, HostStill
<1>4. ClockRead'
  BY DEF RInv, ClockRead, SameReading, SameBudget, HostStill
<1> QED BY <1>1, <1>2, <1>3, <1>4 DEF RInv

(* A reading that is over, or that starts again from nothing.              *)
LEMMA FreshReading ==
    ASSUME HInv, RInv, HostStill, budget' \in Budget, budget'.at.i = 1, budget'.at.second = FALSE,
           budget'.at.pc \in {"idle", "revision"},
           Charged', RestrictedTimeIsFree', NoSpuriousFailure'
    PROVE  RInv'
BY DEF RInv, ReaderType, WordsRead, BeforeRead, HasBefore, ClockRead

LEMMA BeginSampleKeeps == ASSUME HInv, RInv, BeginSample PROVE RInv'
<1> DEFINE a == [NoReading EXCEPT !.pc = "revision"]
<1>1. a \in Reading /\ a.pc = "revision" /\ a.i = 1 /\ a.second = FALSE
  BY BlankIs DEF ReaderPlace
<1>2. budget \in Budget /\ budget' = [budget EXCEPT !.at = a] /\ HostStill
  BY DEF RInv, ReaderType, BeginSample, HostStill
<1> HIDE DEF a
<1>3. budget' \in Budget /\ budget'.at = a /\ SameBudget(budget', budget)
  BY <1>1, <1>2, AtIs
<1>4. Charged' /\ RestrictedTimeIsFree' /\ NoSpuriousFailure'
  BY <1>2, <1>3 DEF RInv, Charged, RestrictedTimeIsFree, NoSpuriousFailure, SameBudget, HostStill, Failed
<1> QED BY <1>1, <1>2, <1>3, <1>4, FreshReading

LEMMA PcIs ==
    ASSUME NEW r \in Budget, NEW pledged \in ReaderPlace
    PROVE  /\ [r EXCEPT !.at.pc = pledged] \in Budget
           /\ SameBudget([r EXCEPT !.at.pc = pledged], r)
           /\ SameReading([r EXCEPT !.at.pc = pledged].at, r.at)
           /\ [r EXCEPT !.at.pc = pledged].at.pc = pledged /\ [r EXCEPT !.at.pc = pledged].at.i = r.at.i
<1> DEFINE a == [r.at EXCEPT !.pc = pledged]
<1>1. a \in Reading /\ SameReading(a, r.at) /\ a.pc = pledged /\ a.i = r.at.i
  BY DEF Budget, Reading, SameReading
<1>2. [r EXCEPT !.at.pc = pledged] = [r EXCEPT !.at = a]
  BY DEF Budget
<1> HIDE DEF a
<1>3. [r EXCEPT !.at = a] \in Budget /\ [r EXCEPT !.at = a].at = a /\ SameBudget([r EXCEPT !.at = a], r)
  BY <1>1, AtIs
<1> QED BY <1>1, <1>2, <1>3

LEMMA NextReadIs ==
    ASSUME NEW r \in Budget
    PROVE  /\ NextRead(r) \in Budget /\ SameBudget(NextRead(r), r) /\ SameReading(NextRead(r).at, r.at)
           /\ \/ NextRead(r).at.pc = "retry" /\ NextRead(r).at.i = r.at.i
              \/ NextRead(r).at.pc = "revision" /\ NextRead(r).at.i = 1
<1>1. CASE r.at.inner < ReadAttempts
  <2> DEFINE a == [r.at EXCEPT !.pc = "revision", !.inner = r.at.inner + 1, !.i = 1, !.cand = Blank]
  <2>1. a \in Reading /\ SameReading(a, r.at) /\ a.pc = "revision" /\ a.i = 1
    <3>1. r.at \in Reading /\ r.at.inner + 1 \in Int /\ 1 \in Nat /\ "revision" \in ReaderPlace
      BY DEF Budget, Reading, ReaderPlace
    <3> DEFINE n == r.at.inner + 1
               one == 1
               b == [r.at EXCEPT !.pc = "revision", !.inner = n, !.i = one, !.cand = Blank]
    <3>2. n \in Int /\ one \in Nat /\ a = b
      BY <3>1
    <3> HIDE DEF n, one
    <3>3. b \in Reading /\ SameReading(b, r.at) /\ b.pc = "revision" /\ b.i = one
      BY <3>1, <3>2, BlankIs DEF Reading, SameReading
    <3> QED BY <3>2, <3>3 DEF one
  <2>2. NextRead(r) = [r EXCEPT !.at = a]
    BY <1>1 DEF NextRead, Budget
  <2> HIDE DEF a
  <2> QED BY <2>1, <2>2, AtIs
<1>2. CASE ~(r.at.inner < ReadAttempts)
  <2>1. NextRead(r) = [r EXCEPT !.at.pc = "retry"]
    BY <1>2 DEF NextRead
  <2>2. "retry" \in ReaderPlace
    BY DEF ReaderPlace
  <2> QED BY <2>1, <2>2, PcIs
<1> QED BY <1>1, <1>2

LEMMA ReadRevisionKeeps == ASSUME HInv, RInv, ReadRevision PROVE RInv'
<1>1. budget \in Budget /\ budget.at \in Reading /\ budget.at.pc = "revision" /\ budget.at.i = 1 /\ HostStill /\ rev \in Nat
  BY DEF RInv, ReaderType, ReadRevision, HostStill, Budget, HInv, HostType
<1>2. CASE rev % 2 = 1
  <2>1. budget' = NextRead(budget)
    BY <1>2 DEF ReadRevision
  <2>2. 1 \in 1..6
    OBVIOUS
  <2> QED BY <1>1, <2>1, <2>2, NextReadIs, MidReading
<1>3. CASE rev % 2 # 1
  <2> DEFINE a == [budget.at EXCEPT !.pc = "words", !.seen = rev]
  <2>1. a \in Reading /\ SameReading(a, budget.at) /\ a.pc = "words" /\ a.i = 1 /\ a.seen = rev
    <3>1. "words" \in ReaderPlace
      BY DEF ReaderPlace
    <3> QED BY <1>1, <3>1 DEF Reading, SameReading
  <2>2. budget' = [budget EXCEPT !.at = a]
    BY <1>1, <1>3 DEF ReadRevision, Budget
  <2> HIDE DEF a
  <2>3. budget' \in Budget /\ budget'.at = a /\ SameBudget(budget', budget)
    BY <1>1, <2>1, <2>2, AtIs
  <2>4. ReaderType' /\ RestrictedTimeIsFree' /\ NoSpuriousFailure' /\ Charged'
    BY <1>1, <2>1, <2>3
    DEF RInv, ReaderType, RestrictedTimeIsFree, NoSpuriousFailure, Charged, SameBudget, HostStill, Failed
  <2>5. WordsRead'
    BY <1>1, <1>3, <2>1, <2>3 DEF WordsRead, Agree, HostStill
  <2>6. BeforeRead' /\ ClockRead'
    BY <1>1, <2>1, <2>3 DEF RInv, BeforeRead, ClockRead, HasBefore, SameReading, SameBudget, HostStill
  <2> QED BY <2>4, <2>5, <2>6 DEF RInv
<1> QED BY <1>2, <1>3

LEMMA ReadWordKeeps == ASSUME HInv, RInv, ReadWord PROVE RInv'
<1> DEFINE w == Words[budget.at.i]
           c == [budget.at.cand EXCEPT ![w] = words[w]]
           n == budget.at.i + 1
           a == [budget.at EXCEPT !.cand = c, !.i = n]
<1>1. /\ budget \in Budget /\ budget.at \in Reading /\ budget.at.pc = "words" /\ budget.at.i \in 1..5 /\ HostStill
      /\ words \in WordsSnapshot /\ budget.at.cand \in WordsSnapshot /\ n \in Nat /\ n \in 1..6
      /\ budget.at.seen \in Nat
  BY WordsAre DEF RInv, ReaderType, ReadWord, HostStill, Budget, Reading, HInv, HostType
<1>2. c \in WordsSnapshot /\ (Agree(budget.at.cand, words, budget.at.i) => Agree(c, words, n))
  <2>1. CASE budget.at.i = 1
    <3>1. c = [budget.at.cand EXCEPT !.completed = words.completed] /\ n = 2
      BY <2>1, WordsAre
    <3> HIDE DEF c, n
    <3> QED BY <1>1, <2>1, <3>1 DEF WordsSnapshot, Agree
  <2>2. CASE budget.at.i = 2
    <3>1. c = [budget.at.cand EXCEPT !.start = words.start] /\ n = 3
      BY <2>2, WordsAre
    <3> HIDE DEF c, n
    <3> QED BY <1>1, <2>2, <3>1 DEF WordsSnapshot, Agree
  <2>3. CASE budget.at.i = 3
    <3>1. c = [budget.at.cand EXCEPT !.depth = words.depth] /\ n = 4
      BY <2>3, WordsAre
    <3> HIDE DEF c, n
    <3> QED BY <1>1, <2>3, <3>1 DEF WordsSnapshot, Agree
  <2>4. CASE budget.at.i = 4
    <3>1. c = [budget.at.cand EXCEPT !.sampling = words.sampling] /\ n = 5
      BY <2>4, WordsAre
    <3> HIDE DEF c, n
    <3> QED BY <1>1, <2>4, <3>1 DEF WordsSnapshot, Agree
  <2>5. CASE budget.at.i = 5
    <3>1. c = [budget.at.cand EXCEPT !.error = words.error] /\ n = 6
      BY <2>5, WordsAre
    <3> HIDE DEF c, n
    <3> QED BY <1>1, <2>5, <3>1 DEF WordsSnapshot, Agree
  <2> QED BY <1>1, <2>1, <2>2, <2>3, <2>4, <2>5
<1>3. budget' = [budget EXCEPT !.at = a]
  BY <1>1 DEF ReadWord, Budget, Reading
<1> HIDE DEF c, n, w
<1>4. a \in Reading /\ SameReading(a, budget.at) /\ a.pc = "words" /\ a.i = n /\ a.seen = budget.at.seen /\ a.cand = c
  BY <1>1, <1>2 DEF Reading, SameReading
<1> HIDE DEF a
<1>5. budget' \in Budget /\ budget'.at = a /\ SameBudget(budget', budget)
  BY <1>1, <1>3, <1>4, AtIs
<1>6. ReaderType' /\ RestrictedTimeIsFree' /\ NoSpuriousFailure' /\ Charged'
  BY <1>1, <1>4, <1>5
  DEF RInv, ReaderType, RestrictedTimeIsFree, NoSpuriousFailure, Charged, SameBudget, HostStill, Failed
<1>7. WordsRead'
  BY <1>1, <1>2, <1>4, <1>5 DEF RInv, WordsRead, HostStill
<1>8. BeforeRead' /\ ClockRead'
  BY <1>1, <1>4, <1>5 DEF RInv, BeforeRead, ClockRead, HasBefore, SameReading, SameBudget, HostStill
<1> QED BY <1>6, <1>7, <1>8 DEF RInv

(* A first snapshot whose revision still stands accounts for the clock.    *)
LEMMA StandingIsTrue ==
    ASSUME HInv, NEW b, words = b, rev % 2 = 0, b.sampling # 1, b.error # 1
    PROVE  Sound(b, clock) /\ truth.eligible = Eligible(b, clock)
<1>1. host.pc # "store"
  BY DEF HInv, Revisions
<1>2. ~Failed
  BY <1>1 DEF HInv, PublishedWords
<1>3. host.pc # "publish"
  BY DEF HInv, PublishedWords
<1>4. words = st
  BY <1>1, <1>2, <1>3 DEF HInv, PublishedWords, HostType, HostRecord, HostPlace
<1> QED BY <1>2, <1>4 DEF HInv, Accounts

LEMMA DoneIs ==
    ASSUME NEW r \in Budget
    PROVE  /\ Done(r) \in Budget /\ SameBudget(Done(r), r)
           /\ Done(r).at.i = 1 /\ Done(r).at.second = FALSE /\ Done(r).at.pc = "idle"
<1>1. Done(r) \in Budget /\ Done(r).at = NoReading /\ SameBudget(Done(r), r)
  BY AtIs, BlankIs DEF Done
<1> QED BY <1>1 DEF NoReading

LEMMA ReadClockKeeps == ASSUME HInv, RInv, ReadClock PROVE RInv'
<1>1. /\ budget \in Budget /\ budget.at \in Reading /\ budget.at.pc = "clock" /\ budget.at.i = 1 /\ HostStill
      /\ clock \in Nat /\ truth.eligible \in Nat
  BY RestrictionAssumption DEF RInv, ReaderType, ReadClock, HostStill, Budget, HInv, HostType
<1>2. CASE budget' = Done([budget EXCEPT !.status = "failed", !.error = "clock"])
  <2> DEFINE r == [budget EXCEPT !.status = "failed", !.error = "clock"]
  <2>1. /\ r \in Budget /\ r.status = "failed" /\ r.error = "clock" /\ r.fair = budget.fair /\ r.last = budget.last
        /\ r.lastAwake = budget.lastAwake
    BY <1>1 DEF Budget
  <2>2. budget' = Done(r)
    BY <1>2
  <2> HIDE DEF r
  <2>3. /\ budget' \in Budget /\ SameBudget(budget', r) /\ budget'.at.i = 1 /\ budget'.at.second = FALSE /\ budget'.at.pc = "idle"
    BY <2>1, <2>2, DoneIs
  <2>4. Charged' /\ RestrictedTimeIsFree' /\ NoSpuriousFailure'
    BY <1>1, <2>1, <2>3 DEF RInv, Charged, RestrictedTimeIsFree, NoSpuriousFailure, SameBudget, HostStill
  <2> QED BY <1>1, <2>3, <2>4, FreshReading
<1>3. CASE budget' = [budget EXCEPT !.at = [@ EXCEPT !.pc = "revision", !.inner = 1, !.second = TRUE,
                                            !.awake = clock, !.due = truth.eligible]]
  <2> DEFINE one == 1
             due == truth.eligible
             a == [budget.at EXCEPT !.pc = "revision", !.inner = one, !.second = TRUE,
                                            !.awake = clock, !.due = due]
  <2>1. budget' = [budget EXCEPT !.at = a] /\ one \in Int /\ due \in Int
    BY <1>1, <1>3 DEF Budget
  <2> HIDE DEF one, due
  <2>2. /\ a \in Reading /\ a.pc = "revision" /\ a.i = 1 /\ a.second = TRUE /\ a.awake = clock /\ a.due = due
        /\ a.first = budget.at.first /\ a.before = budget.at.before
    <3>1. "revision" \in ReaderPlace
      BY DEF ReaderPlace
    <3> QED BY <1>1, <2>1, <3>1 DEF Reading
  <2> HIDE DEF a
  <2>3. budget' \in Budget /\ budget'.at = a /\ SameBudget(budget', budget)
    BY <1>1, <2>1, <2>2, AtIs
  <2>4. ReaderType' /\ RestrictedTimeIsFree' /\ NoSpuriousFailure' /\ Charged' /\ WordsRead'
    BY <1>1, <2>2, <2>3
    DEF RInv, ReaderType, RestrictedTimeIsFree, NoSpuriousFailure, Charged, SameBudget, HostStill, Failed, WordsRead
  <2>5. BeforeRead'
    BY <1>1, <2>2, <2>3 DEF RInv, BeforeRead, HasBefore, HostStill
  <2>6. rev = budget.at.first => Sound(budget.at.before, clock) /\ due = Eligible(budget.at.before, clock)
    BY <1>1, StandingIsTrue DEF RInv, BeforeRead, HasBefore, due
  <2>7. ClockRead'
    <3>1. due = truth.eligible /\ due <= due /\ clock <= clock
      BY <1>1 DEF due
    <3> QED BY <1>1, <2>2, <2>3, <2>6, <3>1 DEF RInv, Charged, ClockRead, SameBudget, HostStill, Sound, Eligible
  <2> QED BY <2>4, <2>5, <2>7 DEF RInv
<1> QED BY <1>2, <1>3 DEF ReadClock

LEMMA RetryKeeps == ASSUME HInv, RInv, Retry PROVE RInv'
<1>1. budget \in Budget /\ budget.at \in Reading /\ budget.at.pc = "retry" /\ HostStill
  BY DEF RInv, ReaderType, Retry, HostStill, Budget
<1>2. CASE budget.at.attempt < SampleAttempts
  <2> DEFINE n == budget.at.attempt + 1
             a == [NoReading EXCEPT !.pc = "revision", !.attempt = n]
  <2>1. n \in Int /\ budget' = [budget EXCEPT !.at = a]
    BY <1>1, <1>2 DEF Reading, Retry
  <2> HIDE DEF n
  <2>2. a \in Reading /\ a.pc = "revision" /\ a.i = 1 /\ a.second = FALSE
    BY <2>1, BlankIs DEF ReaderPlace
  <2> HIDE DEF a
  <2>3. budget' \in Budget /\ budget'.at = a /\ SameBudget(budget', budget)
    BY <1>1, <2>1, <2>2, AtIs
  <2>4. Charged' /\ RestrictedTimeIsFree' /\ NoSpuriousFailure'
    BY <1>1, <2>3 DEF RInv, Charged, RestrictedTimeIsFree, NoSpuriousFailure, SameBudget, HostStill, Failed
  <2> QED BY <1>1, <2>2, <2>3, <2>4, FreshReading
<1>3. CASE ~(budget.at.attempt < SampleAttempts)
  <2> DEFINE r == [budget EXCEPT !.status = IF @ = "new" THEN "unstarted" ELSE @]
  <2>1. /\ r \in Budget /\ r.status \in {budget.status, "unstarted"}
        /\ r.error = budget.error /\ r.fair = budget.fair /\ r.last = budget.last /\ r.lastAwake = budget.lastAwake
    BY <1>1 DEF Budget
  <2>2. budget' = Done(r)
    BY <1>3 DEF Retry
  <2> HIDE DEF r
  <2>3. /\ budget' \in Budget /\ SameBudget(budget', r) /\ budget'.at.i = 1 /\ budget'.at.second = FALSE /\ budget'.at.pc = "idle"
    BY <2>1, <2>2, DoneIs
  <2>4. Charged' /\ RestrictedTimeIsFree' /\ NoSpuriousFailure'
    BY <1>1, <2>1, <2>3 DEF RInv, Charged, RestrictedTimeIsFree, NoSpuriousFailure, SameBudget, HostStill, Failed
  <2> QED BY <1>1, <2>3, <2>4, FreshReading
<1> QED BY <1>2, <1>3

(* A second snapshot under the first one's revision: the sample is exact.  *)
LEMMA SampledIs ==
    ASSUME RInv, budget.at.second, rev = budget.at.first
    PROVE  /\ Sampled(budget) \in Budget /\ Sampled(budget).fair = TRUE
           /\ Sampled(budget).status # "failed"
           /\ Sampled(budget).last = budget.at.due /\ Sampled(budget).lastAwake = budget.at.awake
<1> DEFINE b == budget.at.before
           awake == budget.at.awake
           eligible == (IF b.depth > 0 THEN b.start ELSE awake) - b.completed
           broken == \/ awake < b.completed
                     \/ b.depth > 0 /\ (awake < b.start \/ b.start < b.completed)
           state == IF b.depth > 0 THEN "restricted" ELSE "running"
<1>1. /\ budget \in Budget /\ budget.at \in Reading /\ budget.at.due \in Int /\ awake \in Nat /\ b \in WordsSnapshot
      /\ budget.from \in Int /\ budget.last \in Int /\ budget.lastAwake \in Nat
  BY DEF RInv, ReaderType, Budget, Reading
<1>2. b.completed \in Nat /\ b.start \in Nat /\ b.depth \in Nat
  BY <1>1 DEF WordsSnapshot
<1>3. eligible = budget.at.due /\ ~broken /\ budget.last <= eligible /\ budget.lastAwake <= awake
  BY <1>1, <1>2 DEF RInv, ClockRead, Sound, Eligible
<1>4. /\ state \in {"restricted", "running"} /\ eligible \in Int
      /\ ~(eligible < budget.last \/ awake < budget.lastAwake)
  BY <1>1, <1>2, <1>3
<1>5. CASE budget.status = "new"
  <2> DEFINE next == IF Duration = 0 THEN "expired" ELSE state
  <2>1. Sampled(budget) = [budget EXCEPT !.status = next, !.fair = eligible = budget.at.due,
                                 !.from = eligible, !.last = eligible, !.lastAwake = awake]
    BY <1>3, <1>5 DEF Sampled
  <2>2. next \in {"restricted", "running", "expired"} /\ (eligible = budget.at.due) = TRUE
    BY <1>3
  <2> HIDE DEF next, eligible, awake, b, state, broken
  <2> QED BY <1>1, <1>3, <1>4, <2>1, <2>2 DEF Budget, awake
<1>6. CASE budget.status # "new"
  <2> DEFINE next == IF eligible - budget.from >= Duration THEN "expired" ELSE state
  <2>1. Sampled(budget) = [budget EXCEPT !.status = next, !.fair = eligible = budget.at.due,
                                 !.last = eligible, !.lastAwake = awake]
    BY <1>3, <1>4, <1>6 DEF Sampled
  <2>2. next \in {"restricted", "running", "expired"} /\ (eligible = budget.at.due) = TRUE
    BY <1>3
  <2> HIDE DEF next, eligible, awake, b, state, broken
  <2> QED BY <1>1, <1>3, <1>4, <2>1, <2>2 DEF Budget, awake
<1> QED BY <1>5, <1>6

LEMMA CheckRevisionKeeps == ASSUME HInv, RInv, CheckRevision PROVE RInv'
<1>1. /\ budget \in Budget /\ budget.at \in Reading /\ budget.at.pc = "words" /\ budget.at.i = 6 /\ HostStill
      /\ words \in WordsSnapshot /\ budget.at.cand \in WordsSnapshot /\ rev \in Nat /\ budget.at.second \in BOOLEAN
      /\ budget.at.seen \in Nat /\ budget.at.first \in Nat
  BY WordsAre DEF RInv, ReaderType, CheckRevision, HostStill, Budget, Reading, HInv, HostType
<1>2. 6 \in 1..6 /\ 1 \in 1..6 /\ "retry" \in ReaderPlace
  BY DEF ReaderPlace
<1>3. CASE budget' = NextRead(budget)
  BY <1>1, <1>2, <1>3, NextReadIs, MidReading
<1>4. CASE budget' = [budget EXCEPT !.at.pc = "retry"]
  BY <1>1, <1>2, <1>4, PcIs, MidReading
<1>5. rev = budget.at.seen => budget.at.cand = words /\ rev % 2 = 0
  BY <1>1 DEF RInv, WordsRead, Agree, WordsSnapshot
<1>6. CASE /\ rev = budget.at.seen /\ budget.at.cand.error = 1
           /\ budget' = Done([budget EXCEPT !.status = "failed", !.error = "host"])
  <2> DEFINE r == [budget EXCEPT !.status = "failed", !.error = "host"]
  <2>1. /\ r \in Budget /\ r.status = "failed" /\ r.error = "host" /\ r.fair = budget.fair /\ r.last = budget.last
        /\ r.lastAwake = budget.lastAwake
    BY <1>1 DEF Budget
  <2>2. budget' = Done(r)
    BY <1>6
  <2> HIDE DEF r
  <2>3. /\ budget' \in Budget /\ SameBudget(budget', r) /\ budget'.at.i = 1 /\ budget'.at.second = FALSE /\ budget'.at.pc = "idle"
    BY <2>1, <2>2, DoneIs
  <2>4. Failed
    BY <1>5, <1>6 DEF HInv, PublishedWords
  <2>5. Charged' /\ RestrictedTimeIsFree' /\ NoSpuriousFailure'
    BY <1>1, <2>1, <2>3, <2>4
    DEF RInv, Charged, RestrictedTimeIsFree, NoSpuriousFailure, SameBudget, HostStill, Failed
  <2> QED BY <1>1, <2>3, <2>5, FreshReading
<1>7. CASE /\ rev = budget.at.seen /\ budget.at.cand.error # 1 /\ budget.at.cand.sampling # 1 /\ ~budget.at.second
           /\ budget' = [budget EXCEPT !.at.pc = "clock", !.at.before = budget.at.cand, !.at.first = budget.at.seen,
                               !.at.i = 1, !.at.cand = Blank]
  <2> DEFINE one == 1
             a == [budget.at EXCEPT !.pc = "clock", !.before = budget.at.cand, !.first = budget.at.seen,
                                !.i = one, !.cand = Blank]
  <2>1. budget' = [budget EXCEPT !.at = a] /\ one \in Nat /\ one = 1
    BY <1>1, <1>7 DEF Budget
  <2> HIDE DEF one
  <2>2. /\ a \in Reading /\ a.pc = "clock" /\ a.i = one /\ a.second = FALSE
        /\ a.first = budget.at.seen /\ a.before = budget.at.cand
    <3>1. "clock" \in ReaderPlace
      BY DEF ReaderPlace
    <3> QED BY <1>1, <1>7, <2>1, <3>1, BlankIs DEF Reading
  <2> HIDE DEF a
  <2>3. budget' \in Budget /\ budget'.at = a /\ SameBudget(budget', budget)
    BY <1>1, <2>1, <2>2, AtIs
  <2>4. ReaderType' /\ RestrictedTimeIsFree' /\ NoSpuriousFailure' /\ Charged' /\ WordsRead' /\ ClockRead'
    BY <1>1, <2>1, <2>2, <2>3
    DEF RInv, ReaderType, RestrictedTimeIsFree, NoSpuriousFailure, Charged, SameBudget, HostStill, Failed,
        WordsRead, ClockRead
  <2>5. BeforeRead'
    BY <1>1, <1>5, <1>7, <2>2, <2>3 DEF BeforeRead, HasBefore, HostStill
  <2> QED BY <2>4, <2>5 DEF RInv
<1>8. CASE /\ rev = budget.at.seen /\ budget.at.second /\ budget.at.first = budget.at.seen
           /\ budget' = Done(Sampled(budget))
  <2>1. /\ Sampled(budget) \in Budget /\ Sampled(budget).fair = TRUE /\ Sampled(budget).status # "failed"
        /\ Sampled(budget).last = budget.at.due /\ Sampled(budget).lastAwake = budget.at.awake
    BY <1>8, SampledIs
  <2>2. /\ budget' \in Budget /\ SameBudget(budget', Sampled(budget))
        /\ budget'.at.i = 1 /\ budget'.at.second = FALSE /\ budget'.at.pc = "idle"
    BY <1>8, <2>1, DoneIs
  <2>3. budget.at.awake <= clock /\ budget.at.due <= truth.eligible
    BY <1>8 DEF RInv, ClockRead
  <2>4. Charged' /\ RestrictedTimeIsFree' /\ NoSpuriousFailure'
    BY <1>1, <2>1, <2>2, <2>3 DEF Charged, RestrictedTimeIsFree, NoSpuriousFailure, SameBudget, HostStill
  <2> QED BY <1>1, <2>2, <2>4, FreshReading
<1> QED BY <1>1, <1>3, <1>4, <1>6, <1>7, <1>8 DEF CheckRevision

(* ------------------------------- the theorems --------------------------- *)

LEMMA InvInit == RestrictionInit => BudgetIInv
<1> SUFFICES ASSUME RestrictionInit PROVE BudgetIInv
  OBVIOUS
<1>1. /\ rev = 2 /\ clock = 0 /\ words = Blank /\ st = Blank /\ host = Idle
      /\ truth = [eligible |-> 0, restricted |-> FALSE]
      /\ budget = [at |-> NoReading, status |-> "new", from |-> 0, last |-> 0, lastAwake |-> 0, error |-> "none",
               fair |-> TRUE]
  BY DEF RestrictionInit
<1>2. HostType
  <2>1. Idle \in HostRecord /\ Idle.next = 1
    BY DEF Idle, HostRecord, HostPlace
  <2>2. Blank.depth = 0 /\ Blank.sampling = 0 /\ Blank.error = 0 /\ Blank.completed = 0 /\ Blank.start = 0
    BY DEF Blank
  <2>3. truth \in [eligible : Nat, restricted : BOOLEAN]
    BY <1>1
  <2>4. rev \in Nat /\ clock \in 0..MaxClock /\ words \in WordsSnapshot /\ st \in WordsSnapshot
    <3>1. words \in WordsSnapshot /\ st \in WordsSnapshot
      BY <1>1, BlankIs
    <3> QED BY <1>1, <3>1, RestrictionAssumption
  <2>5. /\ st.depth <= MaxDepth /\ st.sampling \in {0, 1} /\ st.error \in {0, 1}
        /\ st.completed <= MaxClock /\ st.start <= MaxClock
    BY <1>1, <2>2, RestrictionAssumption
  <2>6. host \in HostRecord /\ host.next \in 1..6
    BY <1>1, <2>1
  <2> QED BY <2>3, <2>4, <2>5, <2>6 DEF HostType
<1>3. Stages /\ Revisions /\ PublishedWords /\ Accounts
  BY <1>1, RestrictionAssumption
  DEF Stages, HostStage, Revisions, PublishedWords, Accounts, Idle, Blank, Failed, Sound, Eligible
<1>4. budget \in Budget
  <2> DEFINE none == 0
  <2>1. none \in Int /\ none \in Nat
    OBVIOUS
  <2>2. budget = [at |-> NoReading, status |-> "new", from |-> none, last |-> none, lastAwake |-> none,
              error |-> "none", fair |-> TRUE]
    BY <1>1
  <2> HIDE DEF none
  <2> QED BY <2>1, <2>2, BlankIs DEF Budget
<1>5. NoReading.pc = "idle" /\ NoReading.i = 1 /\ NoReading.second = FALSE
  BY DEF NoReading
<1>6. RInv
  BY <1>1, <1>4, <1>5 DEF RInv, ReaderType, WordsRead, BeforeRead, HasBefore, ClockRead, Charged,
                          RestrictedTimeIsFree, NoSpuriousFailure
<1> QED BY <1>2, <1>3, <1>6 DEF BudgetIInv, HInv

LEMMA InvNext == BudgetIInv /\ [RestrictionNext]_restriction => BudgetIInv'
<1> SUFFICES ASSUME BudgetIInv, [RestrictionNext]_restriction PROVE BudgetIInv'
  OBVIOUS
<1>1. HInv /\ RInv
  BY DEF BudgetIInv
<1>2. CASE HostStep
  BY <1>1, <1>2, HostStepKeeps, HostMoves, ReaderUnderHost DEF BudgetIInv
<1>3. CASE BeginSample \/ ReadRevision \/ ReadWord \/ CheckRevision \/ ReadClock \/ Retry
  <2>1. RInv'
    BY <1>1, <1>3, BeginSampleKeeps, ReadRevisionKeeps, ReadWordKeeps, CheckRevisionKeeps, ReadClockKeeps, RetryKeeps
  <2>2. UNCHANGED <<rev, words, st, host, clock, truth>>
    BY <1>3 DEF BeginSample, ReadRevision, ReadWord, CheckRevision, ReadClock, Retry
  <2>3. HInv'
    BY <1>1, <2>2 DEF HInv, HostType, Stages, HostStage, Revisions, PublishedWords, Accounts, Failed
  <2> QED BY <2>1, <2>3 DEF BudgetIInv
<1>4. CASE UNCHANGED restriction
  BY <1>1, <1>4 DEF restriction, BudgetIInv, HInv, HostType, Stages, HostStage, Revisions, PublishedWords, Accounts, Failed, RInv,
     ReaderType, WordsRead, BeforeRead, HasBefore, ClockRead, Charged, RestrictedTimeIsFree, NoSpuriousFailure
<1> QED BY <1>2, <1>3, <1>4 DEF RestrictionNext, HostStep

LEMMA Invariance == RestrictionSpec => []BudgetIInv
BY InvInit, InvNext, PTL DEF RestrictionSpec

(* However the Host opens, nests, closes and fails its scopes while a      *)
(* client samples, word by word, the eligible time a sample comes to is    *)
(* exactly the time the Host had been unrestricted for when the client     *)
(* read the clock (CHostEligibleBudget over CHostRestrictionPublication).  *)
THEOREM ExactCharge == RestrictionSpec => []RestrictedTimeIsFree
<1>1. BudgetIInv => RestrictedTimeIsFree
  BY DEF BudgetIInv, RInv
<1> QED BY <1>1, Invariance, PTL

(* A budget that fails, fails because a clock could not be read or because *)
(* the Host has failed: its own arithmetic never finds time running back,  *)
(* nor a completed total larger than the clock.                            *)
THEOREM OnlyRealFailures == RestrictionSpec => []NoSpuriousFailure
<1>1. BudgetIInv => NoSpuriousFailure
  BY DEF BudgetIInv, RInv
<1> QED BY <1>1, Invariance, PTL

(* The revision never passes the terminal one, which only the first        *)
(* failure takes; the depth never passes the limit on open scopes, and     *)
(* the completed total never passes the clock.                             *)
THEOREM RestrictionTyped == RestrictionSpec => []RestrictionTypeOK
<1>1. ASSUME BudgetIInv PROVE RestrictionTypeOK
  <2>1. HInv /\ budget \in Budget
    BY <1>1 DEF BudgetIInv, RInv, ReaderType
  <2>2. rev \in 1..TerminalRevision
    BY <2>1, RestrictionAssumption DEF HInv, HostType, Revisions
  <2>3. /\ st.depth \in 0..MaxDepth /\ st.sampling \in 0..1 /\ st.error \in 0..1
        /\ st.completed \in 0..MaxClock /\ st.start \in 0..MaxClock
    BY <2>1, RestrictionAssumption DEF HInv, HostType, WordsSnapshot
  <2>4. /\ host.call \in {"none", "plain", "restricting"}
        /\ budget.status \in {"new", "unstarted", "running", "restricted", "expired", "failed"}
    BY <2>1 DEF HInv, HostType, HostRecord, Budget
  <2> QED BY <2>2, <2>3, <2>4 DEF RestrictionTypeOK
<1> QED BY <1>1, Invariance, PTL

(***************************************************************************)
(* Three promises of an input connection, for every capacity of the rings  *)
(* and every limit of the counters: the reader merges the two rings        *)
(* without a gap, it applies nothing of an earlier generation or context,  *)
(* and a boundary never leaves each side waiting for the other.            *)
(*                                                                         *)
(* The first part of the invariant follows the records from their post to  *)
(* the reader: every number after the last one taken is in exactly one     *)
(* place, and a stream whose head is missing has nothing within the        *)
(* cutoff.  The second part says what a generation is worth: as long as a  *)
(* stream's generation stands, its records are of the present context.     *)
(* The third follows the handshake of a boundary: the marker of a pending  *)
(* stream is on its way or was noted, and then so is the answer to it.     *)
(***************************************************************************)

\* A desktop has both streams, a controller only the actions.
StreamsAreKnown == "actions" \in Streams /\ Streams \subseteq {"actions", "text"}

(* --------------------------------- types -------------------------------- *)

Record == [kind : {"marker", "data"}, seq : Nat, gen : Nat, trans : Nat]

Generations == [Streams -> Nat]

Phase == {"reserved", "active", "closing"}

Authority == [phase : Phase, pending : SUBSET Streams, enabled : BOOLEAN, gen : Generations,
              trans : Nat, committed : Nat, failure : BOOLEAN]

ProviderState ==
    [phase : Phase, pending : SUBSET Streams, enabled : BOOLEAN, gen : Generations,
     trans : Nat, committed : Nat, failure : BOOLEAN, markers : SUBSET Streams,
     context_pending : BOOLEAN, target_pending : BOOLEAN, ready : BOOLEAN, gate : Nat,
     neutral : BOOLEAN, pc : {"idle", "text", "publish"}, then : {"idle", "text"}]

Place == {"idle", "actions", "text", "choose", "closed", "failed"}

ReaderState ==
    [state : Authority, head : [Streams -> Record \cup {NoHead}],
     seen : Generations, ack : Generations, cancel : Generations, last : Nat, cutoff : Nat,
     cancellation : SUBSET Streams, local_cancel : SUBSET Streams, pc : Place,
     event : Record \cup {NoHead}, stamp : Nat, on : Streams, acking : BOOLEAN,
     request : {"none", "context", "target", "accepted"}, changing : SUBSET Streams,
     trans : Nat, asked : Nat]

\* Only a connection with text has a target for it.
Sent == {"ready", "ack", "context"} \cup {t \in {"target"} : "text" \in Streams}

InputTyped ==
         /\ p \in ProviderState /\ pub \in Authority /\ rd \in ReaderState
         /\ ring \in [Streams -> Seq(Record)]
         /\ cmds \in Seq([t : Sent, gen : Generations, trans : Nat, on : BOOLEAN])
         /\ replies \in Seq([t : Sent, gen : Generations, trans : Nat,
                             status : {"closing", "success", "stale", "busy", "failed"}])

(* ------------------------------ the records ----------------------------- *)

Elements(q) == {q[i] : i \in DOMAIN q}

\* Records follow each other in sequence, and their generations never go back.
Follows(m, n) == m.seq < n.seq /\ m.gen <= n.gen

Orderly(q) == \A i, j \in DOMAIN q : i < j => Follows(q[i], q[j])

\* What a stream holds that the reader has not taken.
Waiting(s) == ({rd.head[s]} \ {NoHead}) \cup Elements(ring[s])

RecordsInOrder ==
           \A s \in Streams :
               /\ Orderly(ring[s])
               /\ rd.head[s] # NoHead => \A m \in Elements(ring[s]) : Follows(rd.head[s], m)

Untaken ==
    /\ rd.last <= p.committed
    /\ \A s \in Streams : \A m \in Waiting(s) : rd.last < m.seq /\ m.seq <= p.committed

OneStream ==
    \A s, x \in Streams : \A m \in Waiting(s), n \in Waiting(x) : m.seq = n.seq => s = x

Running == rd.pc \notin {"closed", "failed"}

NothingLost ==
    Running => \A n \in (rd.last + 1)..p.committed :
                   \E s \in Streams : \E m \in Waiting(s) : m.seq = n

\* The streams whose heads the reader has filled since it read the cutoff.
Filled == CASE rd.pc = "text" -> {"actions"}
            [] rd.pc = "choose" -> Streams
            [] OTHER -> {}

BeyondCutoff ==
    /\ pub.committed <= p.committed
    /\ rd.pc \in {"actions", "text", "choose"} => rd.cutoff <= p.committed
    /\ \A s \in Filled : rd.head[s] = NoHead => \A m \in Elements(ring[s]) : m.seq > rd.cutoff

(* ---------------------------- the generations --------------------------- *)

\* The published snapshot is the provider's state, but for records of which
\* the publication is still to come.
Mirrored == pub.phase = p.phase /\ pub.gen = p.gen /\ pub.trans = p.trans

OfContext(m, s) == p.phase # "closing" /\ m.gen = p.gen[s] => m.trans = p.trans

Stamped ==
    \A s \in Streams :
        /\ rd.seen[s] <= p.gen[s]
        /\ \A m \in Waiting(s) : rd.seen[s] <= m.gen /\ m.gen <= p.gen[s] /\ OfContext(m, s)

Held ==
    rd.event # NoHead =>
        /\ rd.event.gen = rd.stamp /\ rd.stamp <= p.gen[rd.on]
        /\ OfContext(rd.event, rd.on)

(* -------------------------- changes of context -------------------------- *)

Change(m) == m.t \in {"context", "target"}

Single(q) == \A i, j \in DOMAIN q : Change(q[i]) /\ Change(q[j]) => i = j

NoChange(q) == \A m \in Elements(q) : ~Change(m)

\* At most one change is on its way or on its way back.
OneChange == Single(cmds) /\ Single(replies) /\ (NoChange(cmds) \/ NoChange(replies))

Told ==
    Running /\ p.phase # "closing" =>
        /\ \A m \in Elements(cmds) : Change(m) => m.t = rd.request /\ rd.trans = p.trans
        /\ \A m \in Elements(replies) : Change(m) =>
               /\ m.t = rd.request
               /\ IF m.status = "success" THEN m.trans = p.trans ELSE rd.trans = p.trans
        /\ rd.request # "context" => rd.trans = p.trans
        /\ rd.request = "context" => Streams \subseteq rd.local_cancel

MergeInv == RecordsInOrder /\ Untaken /\ OneStream /\ NothingLost /\ BeyondCutoff

FreshInv == Mirrored /\ Stamped /\ Held /\ OneChange /\ Told

InputInv == InputTyped /\ MergeInv /\ FreshInv

(* ------------------------------- sequences ------------------------------ *)

LEMMA RecordTaken ==
  ASSUME NEW S, NEW q \in Seq(S), q # << >>
  PROVE  /\ Head(q) \in S /\ Tail(q) \in Seq(S)
         /\ Elements(q) = {Head(q)} \cup Elements(Tail(q))
<1>1. /\ Head(q) = q[1] /\ Head(q) \in S /\ Tail(q) \in Seq(S)
      /\ Len(q) \in Nat /\ Len(q) >= 1 /\ DOMAIN q = 1..Len(q)
      /\ DOMAIN Tail(q) = 1..(Len(q) - 1)
      /\ \A i \in 1..(Len(q) - 1) : Tail(q)[i] = q[i + 1]
  BY SMT
<1>2. ASSUME NEW m \in Elements(q) PROVE m \in {Head(q)} \cup Elements(Tail(q))
  <2>1. PICK i \in DOMAIN q : m = q[i]
    BY DEF Elements
  <2>2. CASE i = 1
    BY <1>1, <2>1, <2>2
  <2>3. CASE i # 1
    <3>1. i - 1 \in DOMAIN Tail(q) /\ Tail(q)[i - 1] = q[i]
      BY <1>1, <2>1, <2>3, SMT
    <3> QED
      BY <2>1, <3>1 DEF Elements
  <2> QED
    BY <2>2, <2>3
<1>3. ASSUME NEW m \in Elements(Tail(q)) PROVE m \in Elements(q)
  <2>1. PICK i \in DOMAIN Tail(q) : m = Tail(q)[i]
    BY DEF Elements
  <2>2. i + 1 \in DOMAIN q /\ m = q[i + 1]
    BY <1>1, <2>1, SMT
  <2> QED
    BY <2>2 DEF Elements
<1>4. Head(q) \in Elements(q)
  <2>1. 1 \in DOMAIN q
    BY <1>1, SMT
  <2> QED
    BY <1>1, <2>1 DEF Elements
<1> QED
  BY <1>1, <1>2, <1>3, <1>4

LEMMA InputAppended ==
  ASSUME NEW S, NEW q \in Seq(S), NEW m \in S
  PROVE  /\ Append(q, m) \in Seq(S)
         /\ Elements(Append(q, m)) = Elements(q) \cup {m}
<1> DEFINE a == Append(q, m)
<1>1. /\ a \in Seq(S) /\ Len(q) \in Nat
      /\ DOMAIN q = 1..Len(q) /\ DOMAIN a = 1..(Len(q) + 1)
      /\ \A i \in 1..Len(q) : a[i] = q[i]
      /\ a[Len(q) + 1] = m
  BY SMT
<1> HIDE DEF a
<1>2. \A i \in DOMAIN a : i \in DOMAIN q \/ i = Len(q) + 1
  BY <1>1, SMT
<1>3. \A i \in DOMAIN q : i \in DOMAIN a
  BY <1>1, SMT
<1>4. Len(q) + 1 \in DOMAIN a
  BY <1>1, SMT
<1>5. Elements(a) = Elements(q) \cup {m}
  BY <1>1, <1>2, <1>3, <1>4 DEF Elements
<1> QED
  BY <1>1, <1>5 DEF a

LEMMA OrderlyTail ==
  ASSUME NEW q \in Seq(Record), q # << >>, Orderly(q)
  PROVE  Orderly(Tail(q)) /\ \A m \in Elements(Tail(q)) : Follows(Head(q), m)
<1>1. /\ Head(q) = q[1] /\ Len(q) \in Nat /\ Len(q) >= 1 /\ DOMAIN q = 1..Len(q)
      /\ DOMAIN Tail(q) = 1..(Len(q) - 1)
      /\ \A i \in 1..(Len(q) - 1) : Tail(q)[i] = q[i + 1]
  BY SMT
<1>2. \A i \in DOMAIN Tail(q) : i + 1 \in DOMAIN q /\ Tail(q)[i] = q[i + 1] /\ 1 < i + 1
  BY <1>1, SMT
<1>3. 1 \in DOMAIN q
  BY <1>1, SMT
<1>4. \A i, j \in DOMAIN Tail(q) : i < j => i + 1 < j + 1
  BY <1>1, SMT
<1>5. Orderly(Tail(q))
  BY <1>2, <1>4 DEF Orderly
<1>6. ASSUME NEW m \in Elements(Tail(q)) PROVE Follows(Head(q), m)
  BY <1>1, <1>2, <1>3 DEF Orderly, Elements
<1> QED
  BY <1>5, <1>6

LEMMA OrderlyAppend ==
  ASSUME NEW q \in Seq(Record), Orderly(q), NEW m \in Record,
         \A n \in Elements(q) : Follows(n, m)
  PROVE  Orderly(Append(q, m))
<1> DEFINE a == Append(q, m)
<1>1. /\ Len(q) \in Nat /\ DOMAIN q = 1..Len(q) /\ DOMAIN a = 1..(Len(q) + 1)
      /\ \A i \in 1..Len(q) : a[i] = q[i]
      /\ a[Len(q) + 1] = m
  BY SMT
<1> HIDE DEF a
<1>2. \A i, j \in DOMAIN a : i < j => i \in DOMAIN q /\ (j \in DOMAIN q \/ j = Len(q) + 1)
  BY <1>1, SMT
<1>3. ASSUME NEW i \in DOMAIN a, NEW j \in DOMAIN a, i < j PROVE Follows(a[i], a[j])
  <2>1. i \in DOMAIN q /\ a[i] = q[i] /\ q[i] \in Elements(q)
    BY <1>1, <1>2, <1>3 DEF Elements
  <2>2. CASE j \in DOMAIN q
    BY <1>1, <1>3, <2>1, <2>2 DEF Orderly
  <2>3. CASE j = Len(q) + 1
    BY <1>1, <2>1, <2>3
  <2> QED
    BY <1>2, <1>3, <2>2, <2>3
<1> QED
  BY <1>3 DEF Orderly, a

LEMMA ElementsAre ==
  ASSUME NEW S, NEW q \in Seq(S)
  PROVE  Elements(q) \subseteq S
BY DEF Elements

(* ------------------------------ the provider ---------------------------- *)

\* What every step of the provider does that posts no record and leaves the
\* context alone: generations only grow, and closing is for good.
KeepsContext(a, b) ==
    /\ b \in ProviderState /\ b.committed = a.committed
    /\ \A s \in Streams : a.gen[s] <= b.gen[s]
    /\ a.phase = "closing" => b.phase = "closing"
    /\ b.phase # "closing" => b.trans = a.trans

LEMMA KeepsTwice ==
  ASSUME NEW a \in ProviderState, NEW b \in ProviderState, NEW c \in ProviderState,
         KeepsContext(a, b), KeepsContext(b, c)
  PROVE  KeepsContext(a, c)
<1>1. \A s \in Streams : a.gen[s] \in Nat /\ b.gen[s] \in Nat /\ c.gen[s] \in Nat
  BY DEF ProviderState, Generations
<1>2. \A s \in Streams : a.gen[s] <= c.gen[s]
  BY <1>1, SMT DEF KeepsContext
<1> QED
  BY <1>2 DEF KeepsContext

LEMMA CloseKeeps ==
  ASSUME NEW a \in ProviderState, NEW failed \in BOOLEAN
  PROVE  Close(a, failed) \in ProviderState /\ KeepsContext(a, Close(a, failed))
         /\ Close(a, failed).phase = "closing"
<1>1. \A s \in Streams : a.gen[s] \in Nat /\ a.gen[s] <= a.gen[s]
  BY DEF ProviderState, Generations
<1>2. CASE a.phase = "closing"
  BY <1>1, <1>2 DEF Close, KeepsContext
<1>3. CASE a.phase # "closing"
  <2> DEFINE b == [a EXCEPT !.phase = "closing", !.pending = {}, !.enabled = FALSE, !.failure = failed]
  <2>1. b \in ProviderState
    BY DEF ProviderState, Phase
  <2>2. b.phase = "closing" /\ b.committed = a.committed /\ b.gen = a.gen
    BY DEF ProviderState
  <2>3. Close(a, failed) = b
    BY <1>3 DEF Close
  <2> HIDE DEF b
  <2> QED
    BY <1>1, <2>1, <2>2, <2>3 DEF KeepsContext
<1> QED
  BY <1>2, <1>3

LEMMA BoundaryKeeps ==
  ASSUME NEW a \in ProviderState, NEW mask \in SUBSET Streams
  PROVE  /\ Boundary(a, mask) \in ProviderState /\ KeepsContext(a, Boundary(a, mask))
         /\ Boundary(a, mask).phase # "closing" => \A s \in mask : a.gen[s] < Boundary(a, mask).gen[s]
<1>1. CASE \E s \in mask : a.gen[s] = GenerationLimit
  BY <1>1, CloseKeeps DEF Boundary
<1>2. CASE ~ \E s \in mask : a.gen[s] = GenerationLimit
  <2> DEFINE g == [s \in Streams |-> IF s \in mask THEN a.gen[s] + 1 ELSE a.gen[s]]
             h == IF "actions" \in mask THEN 0 ELSE a.gate
             b == [a EXCEPT !.gen = g, !.gate = h, !.pending = a.pending \cup mask,
                            !.markers = a.markers \ mask]
  <2>1. Boundary(a, mask) = b
    BY <1>2 DEF Boundary
  <2>2. \A s \in Streams : a.gen[s] \in Nat
    BY DEF ProviderState, Generations
  <2>3. g \in Generations /\ h \in Nat
    BY <2>2, SMT DEF Generations, ProviderState
  <2>4. \A s \in Streams : a.gen[s] <= g[s] /\ (s \in mask => a.gen[s] < g[s])
    BY <2>2, SMT
  <2> HIDE DEF g, h
  <2>5. b \in ProviderState
    BY <2>3 DEF ProviderState
  <2>6. b.gen = g /\ b.phase = a.phase /\ b.trans = a.trans /\ b.committed = a.committed
    BY DEF ProviderState
  <2> HIDE DEF b
  <2> QED
    BY <2>1, <2>4, <2>5, <2>6 DEF KeepsContext
<1> QED
  BY <1>1, <1>2

LEMMA PublishedKeeps ==
  ASSUME NEW a \in ProviderState, NEW b \in Published(a)
  PROVE  /\ b \in ProviderState /\ KeepsContext(a, b)
         /\ b.gen = a.gen /\ b.trans = a.trans /\ b.committed = a.committed
         /\ b.pc = a.pc /\ (b = a \/ b.phase = "closing")
<1>1. \A s \in Streams : a.gen[s] \in Nat /\ a.gen[s] <= a.gen[s]
  BY DEF ProviderState, Generations
<1>2. b = a \/ b = [a EXCEPT !.phase = "closing", !.failure = TRUE]
  BY DEF Published
<1>3. CASE b = a
  BY <1>1, <1>3 DEF KeepsContext
<1>4. CASE b = [a EXCEPT !.phase = "closing", !.failure = TRUE]
  <2>1. b \in ProviderState
    BY <1>4 DEF ProviderState, Phase
  <2>2. b.phase = "closing" /\ b.gen = a.gen /\ b.trans = a.trans /\ b.committed = a.committed
        /\ b.pc = a.pc
    BY <1>4 DEF ProviderState
  <2> QED
    BY <1>1, <2>1, <2>2 DEF KeepsContext
<1> QED
  BY <1>2, <1>3, <1>4

LEMMA SnapshotIs ==
  ASSUME NEW a \in ProviderState
  PROVE  /\ Snapshot(a) \in Authority
         /\ Snapshot(a).phase = a.phase /\ Snapshot(a).gen = a.gen /\ Snapshot(a).trans = a.trans
         /\ Snapshot(a).committed = a.committed
BY DEF Snapshot, Authority, ProviderState

\* A step of the provider that posts no record.
Quiet ==
    /\ UNCHANGED <<ring, rd>>
    /\ p' \in ProviderState /\ pub' \in Authority
    /\ p'.committed = p.committed /\ pub'.committed <= p'.committed /\ Mirrored'
    /\ \A s \in Streams : p.gen[s] <= p'.gen[s]
    /\ p.phase = "closing" => p'.phase = "closing"
    /\ p'.phase # "closing" => p'.trans = p.trans \/ \A s \in Streams : p.gen[s] < p'.gen[s]

LEMMA WaitingIs ==
  ASSUME InputTyped
  PROVE  /\ \A s \in Streams : Waiting(s) \subseteq Record
         /\ \A s \in Streams : rd.head[s] # NoHead => rd.head[s] \in Record /\ rd.head[s] \in Waiting(s)
         /\ \A s \in Streams : Elements(ring[s]) \subseteq Waiting(s)
         /\ \A m \in Record : m # NoHead /\ m.seq \in Nat /\ m.gen \in Nat /\ m.trans \in Nat
<1>1. \A s \in Streams : rd.head[s] \in Record \cup {NoHead}
  BY DEF InputTyped, ReaderState
<1>2. \A s \in Streams : ring[s] \in Seq(Record)
  BY DEF InputTyped
<1>3. \A s \in Streams : Elements(ring[s]) \subseteq Record
  BY <1>2, ElementsAre
<1>4. \A m \in Record : m # NoHead /\ m.seq \in Nat /\ m.gen \in Nat /\ m.trans \in Nat
  BY DEF Record, NoHead
<1> QED
  BY <1>1, <1>3, <1>4 DEF Waiting

LEMMA QuietStep ==
  ASSUME InputInv, Quiet
  PROVE  MergeInv' /\ Mirrored' /\ Stamped' /\ Held'
<1>1. \A s \in Streams : Waiting(s)' = Waiting(s)
  BY DEF Quiet, Waiting
<1>2. ring' = ring /\ rd' = rd /\ p'.committed = p.committed
  BY DEF Quiet
<1>3. RecordsInOrder'
  BY <1>2 DEF InputInv, MergeInv, RecordsInOrder
<1>4. Untaken' /\ OneStream' /\ NothingLost'
  BY <1>1, <1>2 DEF InputInv, MergeInv, Untaken, OneStream, NothingLost, Running
<1>5. BeyondCutoff'
  BY <1>2 DEF InputInv, MergeInv, BeyondCutoff, Filled, Quiet
<1>6. \A s \in Streams : p.gen[s] \in Nat /\ p'.gen[s] \in Nat /\ rd.seen[s] \in Nat
  BY DEF InputInv, InputTyped, Quiet, ProviderState, ReaderState, Generations
<1>7. ASSUME NEW s \in Streams, NEW m, m.gen \in Nat, m.gen <= p.gen[s], OfContext(m, s)
      PROVE  m.gen <= p'.gen[s] /\ OfContext(m, s)'
  <2>1. p.gen[s] <= p'.gen[s]
    BY DEF Quiet
  <2>2. m.gen <= p'.gen[s]
    BY <1>6, <1>7, <2>1, SMT
  <2>3. ASSUME p'.phase # "closing", m.gen = p'.gen[s] PROVE m.trans = p'.trans
    <3>1. ~(p.gen[s] < p'.gen[s]) /\ m.gen = p.gen[s]
      BY <1>6, <1>7, <2>1, <2>3, SMT
    <3>2. p'.trans = p.trans /\ p.phase # "closing"
      BY <2>3, <3>1 DEF Quiet
    <3> QED
      BY <1>7, <3>1, <3>2 DEF OfContext
  <2> QED
    BY <2>2, <2>3 DEF OfContext
<1>8. Stamped'
  <2> SUFFICES ASSUME NEW s \in Streams
               PROVE  /\ rd.seen[s] <= p'.gen[s]
                      /\ \A m \in Waiting(s) : rd.seen[s] <= m.gen /\ m.gen <= p'.gen[s] /\ OfContext(m, s)'
    BY <1>1, <1>2 DEF Stamped
  <2>1. rd.seen[s] <= p.gen[s] /\ p.gen[s] <= p'.gen[s]
    BY DEF InputInv, FreshInv, Stamped, Quiet
  <2>2. rd.seen[s] <= p'.gen[s]
    BY <1>6, <2>1, SMT
  <2>3. ASSUME NEW m \in Waiting(s)
        PROVE  rd.seen[s] <= m.gen /\ m.gen <= p'.gen[s] /\ OfContext(m, s)'
    <3>1. m.gen \in Nat
      BY WaitingIs DEF InputInv
    <3>2. rd.seen[s] <= m.gen /\ m.gen <= p.gen[s] /\ OfContext(m, s)
      BY DEF InputInv, FreshInv, Stamped
    <3> QED
      BY <1>7, <3>1, <3>2
  <2> QED
    BY <2>2, <2>3
<1>9. Held'
  <2> SUFFICES ASSUME rd.event # NoHead
               PROVE  /\ rd.event.gen = rd.stamp /\ rd.stamp <= p'.gen[rd.on]
                      /\ OfContext(rd.event, rd.on)'
    BY <1>2 DEF Held, OfContext
  <2>1. rd.event.gen = rd.stamp /\ rd.stamp <= p.gen[rd.on] /\ OfContext(rd.event, rd.on)
    BY DEF InputInv, FreshInv, Held
  <2>2. rd.on \in Streams /\ rd.stamp \in Nat
    BY DEF InputInv, InputTyped, ReaderState
  <2>3. rd.event.gen <= p'.gen[rd.on] /\ OfContext(rd.event, rd.on)'
    BY <1>2, <1>7, <2>1, <2>2 DEF OfContext
  <2> QED
    BY <2>1, <2>3
<1> QED
  BY <1>3, <1>4, <1>5, <1>8, <1>9 DEF MergeInv, Quiet

\* A step of the provider that posts m to stream s.
Posts(s, m) ==
    /\ m \in Record /\ m.seq = p.committed + 1 /\ m.gen = p.gen[s] /\ m.trans = p.trans
    /\ ring' = [ring EXCEPT ![s] = Append(@, m)]
    /\ p' \in ProviderState /\ p'.committed = p.committed + 1
    /\ p'.phase = p.phase /\ p'.gen = p.gen /\ p'.trans = p.trans
    /\ UNCHANGED <<pub, rd, cmds, replies>>

LEMMA PostStep ==
  ASSUME InputInv, NEW s \in Streams, NEW m, Posts(s, m)
  PROVE  InputInv'
<1>1. /\ ring' = [ring EXCEPT ![s] = Append(ring[s], m)] /\ rd' = rd /\ pub' = pub
      /\ cmds' = cmds /\ replies' = replies /\ m \in Record
      /\ p'.committed = p.committed + 1 /\ p'.gen = p.gen /\ p'.trans = p.trans
      /\ p'.phase = p.phase /\ m.gen = p.gen[s] /\ m.trans = p.trans /\ m.seq = p.committed + 1
  BY DEF Posts
<1>2. /\ ring \in [Streams -> Seq(Record)] /\ p.committed \in Nat /\ rd.last \in Nat
      /\ rd.cutoff \in Nat /\ pub.committed \in Nat
  BY DEF InputInv, InputTyped, ProviderState, ReaderState, Authority
<1>3. /\ Append(ring[s], m) \in Seq(Record)
      /\ Elements(Append(ring[s], m)) = Elements(ring[s]) \cup {m}
  BY <1>1, <1>2, InputAppended
<1>4. InputTyped'
  BY <1>1, <1>2, <1>3 DEF InputInv, InputTyped, Posts
<1>5. /\ ring'[s] = Append(ring[s], m)
      /\ \A x \in Streams : x # s => ring'[x] = ring[x]
  BY <1>1, <1>2
<1>6. /\ Waiting(s)' = Waiting(s) \cup {m}
      /\ \A x \in Streams : x # s => Waiting(x)' = Waiting(x)
  BY <1>1, <1>3, <1>5 DEF Waiting
<1>7. \A x \in Streams : \A n \in Waiting(x) :
        /\ rd.last < n.seq /\ n.seq <= p.committed /\ n.seq < m.seq
        /\ n.seq \in Nat /\ n.gen \in Nat
  <2> TAKE x \in Streams
  <2> TAKE n \in Waiting(x)
  <2>1. n.seq \in Nat /\ n.gen \in Nat
    BY WaitingIs DEF InputInv
  <2>2. rd.last < n.seq /\ n.seq <= p.committed
    BY DEF InputInv, MergeInv, Untaken
  <2> QED
    BY <1>1, <1>2, <2>1, <2>2, SMT
<1>8. \A n \in Waiting(s) : Follows(n, m)
  BY <1>1, <1>7 DEF Follows, InputInv, FreshInv, Stamped
<1>9. RecordsInOrder'
  <2>1. ASSUME NEW x \in Streams
        PROVE  /\ Orderly(ring'[x])
               /\ rd.head[x] # NoHead => \A n \in Elements(ring'[x]) : Follows(rd.head[x], n)
    <3>1. CASE x = s
      <4>1. Orderly(ring[s]) /\ \A n \in Elements(ring[s]) : Follows(n, m)
        BY <1>8, WaitingIs DEF InputInv, MergeInv, RecordsInOrder
      <4>2. Orderly(Append(ring[s], m))
        BY <1>1, <1>2, <4>1, OrderlyAppend
      <4>3. rd.head[s] # NoHead => \A n \in Elements(ring[s]) \cup {m} : Follows(rd.head[s], n)
        BY <1>8, WaitingIs DEF InputInv, MergeInv, RecordsInOrder
      <4> QED
        BY <1>3, <1>5, <3>1, <4>2, <4>3
    <3>2. CASE x # s
      BY <1>5, <3>2 DEF InputInv, MergeInv, RecordsInOrder
    <3> QED
      BY <3>1, <3>2
  <2> QED
    BY <1>1, <2>1 DEF RecordsInOrder
<1>10. Untaken'
  <2>1. rd.last <= p.committed
    BY DEF InputInv, MergeInv, Untaken
  <2>2. rd.last <= p.committed + 1
    BY <1>2, <2>1, SMT
  <2>3. ASSUME NEW x \in Streams, NEW n \in Waiting(x)'
        PROVE  rd.last < n.seq /\ n.seq <= p.committed + 1
    <3>1. n \in Waiting(x) \/ n = m
      BY <1>6
    <3>2. CASE n \in Waiting(x)
      BY <1>2, <1>7, <3>2, SMT
    <3>3. CASE n = m
      BY <1>1, <1>2, <2>1, <3>3, SMT
    <3> QED
      BY <3>1, <3>2, <3>3
  <2> QED
    BY <1>1, <2>2, <2>3 DEF Untaken
<1>11. OneStream'
  <2> SUFFICES ASSUME NEW x \in Streams, NEW y \in Streams,
                      NEW n \in Waiting(x)', NEW o \in Waiting(y)', n.seq = o.seq
               PROVE  x = y
    BY DEF OneStream
  <2>1. /\ n \in Waiting(x) \/ (n = m /\ x = s)
        /\ o \in Waiting(y) \/ (o = m /\ y = s)
    BY <1>6
  <2>2. \A z \in Streams : \A k \in Waiting(z) : k.seq # m.seq
    BY <1>1, <1>2, <1>7, SMT
  <2> QED
    BY <2>1, <2>2 DEF InputInv, MergeInv, OneStream
<1>12. NothingLost'
  <2> SUFFICES ASSUME Running, NEW n \in (rd.last + 1)..(p.committed + 1)
               PROVE  \E x \in Streams : \E k \in Waiting(x)' : k.seq = n
    BY <1>1 DEF NothingLost, Running
  <2>1. CASE n = p.committed + 1
    BY <1>1, <1>6, <2>1
  <2>2. CASE n # p.committed + 1
    <3>1. n \in (rd.last + 1)..p.committed
      BY <1>2, <2>2, SMT
    <3>2. PICK x \in Streams : \E k \in Waiting(x) : k.seq = n
      BY <3>1 DEF InputInv, MergeInv, NothingLost
    <3> QED
      BY <1>6, <3>2
  <2> QED
    BY <2>1, <2>2
<1>13. BeyondCutoff'
  <2>1. /\ pub.committed <= p.committed + 1
        /\ rd.pc \in {"actions", "text", "choose"} => rd.cutoff <= p.committed + 1 /\ rd.cutoff < m.seq
    BY <1>1, <1>2, SMT DEF InputInv, MergeInv, BeyondCutoff
  <2>2. ASSUME NEW x \in Filled, rd.head[x] = NoHead, NEW n \in Elements(ring'[x])
        PROVE  n.seq > rd.cutoff
    <3>1. rd.pc \in {"actions", "text", "choose"}
      BY DEF Filled
    <3>2. \A k \in Elements(ring[x]) : k.seq > rd.cutoff
      BY <2>2 DEF InputInv, MergeInv, BeyondCutoff
    <3>3. m.seq > rd.cutoff
      BY <1>1, <1>2, <2>1, <3>1, SMT
    <3>4. n \in Elements(ring[x]) \/ n = m
      <4>1. CASE x = s
        BY <1>3, <1>5, <4>1
      <4>2. CASE x # s
        <5>1. x \in Streams \/ ring'[x] = ring[x]
          BY <1>1, <1>2, <2>2, <4>2
        <5> QED
          BY <1>5, <4>2, <5>1
      <4> QED
        BY <4>1, <4>2
    <3> QED
      BY <3>2, <3>3, <3>4
  <2> QED
    BY <1>1, <2>1, <2>2 DEF BeyondCutoff, Filled
<1>14. Mirrored'
  BY <1>1 DEF InputInv, FreshInv, Mirrored
<1>15. Stamped'
  <2> SUFFICES ASSUME NEW x \in Streams
               PROVE  /\ rd.seen[x] <= p.gen[x]
                      /\ \A n \in Waiting(x)' : rd.seen[x] <= n.gen /\ n.gen <= p.gen[x] /\ OfContext(n, x)
    BY <1>1 DEF Stamped, OfContext
  <2>1. p.gen[x] \in Nat /\ rd.seen[x] \in Nat /\ p.gen[x] <= p.gen[x]
    BY DEF InputInv, InputTyped, ProviderState, ReaderState, Generations
  <2>2. rd.seen[x] <= p.gen[x]
    BY DEF InputInv, FreshInv, Stamped
  <2> QED
    BY <1>1, <1>6, <2>1, <2>2 DEF InputInv, FreshInv, Stamped, OfContext
<1>16. Held' /\ OneChange' /\ Told'
  BY <1>1 DEF InputInv, FreshInv, Held, OfContext, OneChange, Told, Running
<1> QED
  BY <1>4, <1>9, <1>10, <1>11, <1>12, <1>13, <1>14, <1>15, <1>16 DEF InputInv, MergeInv, FreshInv

\* A step that keeps the context and leaves every queue alone.
LEMMA AloneStep ==
  ASSUME InputInv, UNCHANGED <<ring, rd, cmds, replies>>, KeepsContext(p, p'),
         pub' \in Authority, pub'.committed <= p'.committed, Mirrored'
  PROVE  InputInv'
<1>1. Quiet
  BY DEF Quiet, KeepsContext
<1>2. InputTyped'
  BY DEF InputInv, InputTyped, KeepsContext
<1>3. OneChange' /\ Told'
  BY DEF InputInv, FreshInv, OneChange, Single, NoChange, Told, KeepsContext, Running
<1> QED
  BY <1>1, <1>2, <1>3, QuietStep DEF InputInv, FreshInv

\* A step that publishes the state it leaves.
LEMMA Settled ==
  ASSUME InputInv, NEW q \in ProviderState, KeepsContext(p, q), Settle(q)
  PROVE  /\ p' \in ProviderState /\ KeepsContext(p, p')
         /\ pub' \in Authority /\ pub'.committed <= p'.committed /\ Mirrored'
<1>1. p' \in Published(q) /\ pub' = Snapshot(p')
  BY DEF Settle
<1>2. p' \in ProviderState /\ KeepsContext(q, p')
  BY <1>1, PublishedKeeps
<1>3. p \in ProviderState
  BY DEF InputInv, InputTyped
<1>4. KeepsContext(p, p')
  BY <1>2, <1>3, KeepsTwice
<1>5. /\ pub' \in Authority /\ pub'.committed = p'.committed /\ p'.committed \in Nat
      /\ pub'.phase = p'.phase /\ pub'.gen = p'.gen /\ pub'.trans = p'.trans
  BY <1>1, <1>2, SnapshotIs DEF ProviderState
<1>6. pub'.committed <= p'.committed
  BY <1>5, SMT
<1> QED
  BY <1>2, <1>4, <1>5, <1>6 DEF Mirrored

LEMMA SameContext ==
  ASSUME NEW a \in ProviderState, NEW b \in ProviderState, b.committed = a.committed,
         b.gen = a.gen, b.trans = a.trans, b.phase = a.phase \/ a.phase # "closing"
  PROVE  KeepsContext(a, b)
<1>1. \A s \in Streams : a.gen[s] \in Nat /\ a.gen[s] <= a.gen[s]
  BY DEF ProviderState, Generations
<1> QED
  BY <1>1 DEF KeepsContext

LEMMA PublishStep ==
  ASSUME InputInv, Publish
  PROVE  InputInv'
<1> DEFINE a == [p EXCEPT !.pc = p.then, !.then = "idle"]
<1>1. p \in ProviderState
  BY DEF InputInv, InputTyped
<1>2. a \in ProviderState /\ a.committed = p.committed /\ a.gen = p.gen /\ a.trans = p.trans
      /\ a.phase = p.phase
  BY <1>1 DEF ProviderState
<1> HIDE DEF a
<1>3. PICK q \in Published(a) :
        /\ p' = IF q.phase = "closing" THEN [q EXCEPT !.pc = "idle"] ELSE q
        /\ pub' = Snapshot(q)
  BY DEF Publish, a
<1>4. KeepsContext(p, a)
  BY <1>1, <1>2, SameContext
<1>5. q \in ProviderState /\ KeepsContext(a, q)
  BY <1>2, PublishedKeeps
<1>6. KeepsContext(p, q)
  BY <1>1, <1>2, <1>4, <1>5, KeepsTwice
<1>7. /\ p' \in ProviderState /\ p'.phase = q.phase /\ p'.gen = q.gen /\ p'.trans = q.trans
      /\ p'.committed = q.committed
  BY <1>3, <1>5 DEF ProviderState
<1>8. KeepsContext(p, p')
  BY <1>6, <1>7 DEF KeepsContext
<1>9. /\ pub' \in Authority /\ pub'.committed = q.committed /\ q.committed \in Nat
      /\ pub'.phase = q.phase /\ pub'.gen = q.gen /\ pub'.trans = q.trans
  BY <1>3, <1>5, SnapshotIs DEF ProviderState
<1>10. pub'.committed <= p'.committed
  BY <1>7, <1>9, SMT
<1>11. Mirrored'
  BY <1>7, <1>9 DEF Mirrored
<1>12. UNCHANGED <<ring, rd, cmds, replies>>
  BY DEF Publish
<1> QED
  BY <1>8, <1>9, <1>10, <1>11, <1>12, AloneStep

\* A step that posts a record, or finds that no sequence is left.
LEMMA PostedRecord ==
  ASSUME InputInv, NEW s \in Streams, NEW kind \in {"marker", "data"}, NEW then \in {"idle", "text"},
         NEW q \in ProviderState, q.committed = p.committed, q.gen = p.gen, q.trans = p.trans,
         q.phase = p.phase, PostRecord(s, kind, q, then), UNCHANGED <<rd, cmds, replies>>
  PROVE  InputInv'
<1>1. p \in ProviderState
  BY DEF InputInv, InputTyped
<1>2. CASE p.committed = SequenceLimit
  <2> DEFINE c == Close(p, TRUE)
  <2>1. c \in ProviderState /\ KeepsContext(p, c)
    BY <1>1, CloseKeeps
  <2>2. p' = [c EXCEPT !.pc = "idle"] /\ pub' = Snapshot(p') /\ UNCHANGED ring
    BY <1>2 DEF PostRecord
  <2> HIDE DEF c
  <2>3. /\ p' \in ProviderState /\ p'.phase = c.phase /\ p'.gen = c.gen /\ p'.trans = c.trans
        /\ p'.committed = c.committed
    BY <2>1, <2>2 DEF ProviderState
  <2>4. KeepsContext(p, p')
    BY <2>1, <2>3 DEF KeepsContext
  <2>5. /\ pub' \in Authority /\ pub'.committed = p'.committed /\ p'.committed \in Nat
        /\ pub'.phase = p'.phase /\ pub'.gen = p'.gen /\ pub'.trans = p'.trans
    BY <2>2, <2>3, SnapshotIs DEF ProviderState
  <2>6. pub'.committed <= p'.committed
    BY <2>5, SMT
  <2> QED
    BY <2>2, <2>4, <2>5, <2>6, AloneStep DEF Mirrored
<1>3. CASE p.committed # SequenceLimit
  <2> DEFINE m == [kind |-> kind, seq |-> p.committed + 1, gen |-> p.gen[s], trans |-> p.trans]
             n == q.committed + 1
  <2>1. p.committed \in Nat /\ p.gen[s] \in Nat /\ p.trans \in Nat /\ n \in Nat
    BY <1>1 DEF ProviderState, Generations
  <2>2. p.committed + 1 \in Nat
    BY <2>1, SMT
  <2>3. m \in Record /\ m.seq = p.committed + 1 /\ m.gen = p.gen[s] /\ m.trans = p.trans
    BY <2>1, <2>2 DEF Record
  <2>4. /\ ring' = [ring EXCEPT ![s] = Append(ring[s], m)]
        /\ p' = [q EXCEPT !.committed = n, !.pc = "publish", !.then = then] /\ UNCHANGED pub
    BY <1>3 DEF PostRecord
  <2>5. n = p.committed + 1
    OBVIOUS
  <2> HIDE DEF m, n
  <2>6. /\ p' \in ProviderState /\ p'.phase = q.phase /\ p'.gen = q.gen /\ p'.trans = q.trans
        /\ p'.committed = n
    BY <2>1, <2>4 DEF ProviderState
  <2>7. Posts(s, m)
    BY <2>3, <2>4, <2>5, <2>6 DEF Posts
  <2> QED
    BY <2>7, PostStep
<1> QED
  BY <1>2, <1>3

LEMMA ProgressStep ==
  ASSUME StreamsAreKnown, InputInv, Progress
  PROVE  InputInv'
<1>1. p \in ProviderState /\ UNCHANGED <<rd, cmds, replies>> /\ "actions" \in Streams
  BY DEF InputInv, InputTyped, Progress, StreamsAreKnown
<1>2. CASE PostRecord("actions", "marker", [p EXCEPT !.markers = @ \cup {"actions"}], "text")
  <2> DEFINE q == [p EXCEPT !.markers = p.markers \cup {"actions"}]
  <2>1. q \in ProviderState /\ q.committed = p.committed /\ q.gen = p.gen /\ q.trans = p.trans
        /\ q.phase = p.phase
    BY <1>1 DEF ProviderState
  <2>2. PostRecord("actions", "marker", q, "text")
    BY <1>2
  <2> HIDE DEF q
  <2> QED
    BY <1>1, <2>1, <2>2, PostedRecord
<1>3. CASE /\ "text" \in Streams
           /\ PostRecord("text", "marker", [p EXCEPT !.markers = @ \cup {"text"}, !.pc = "idle"], "idle")
  <2> DEFINE q == [p EXCEPT !.markers = p.markers \cup {"text"}, !.pc = "idle"]
  <2>1. q \in ProviderState /\ q.committed = p.committed /\ q.gen = p.gen /\ q.trans = p.trans
        /\ q.phase = p.phase
    BY <1>1, <1>3 DEF ProviderState
  <2>2. PostRecord("text", "marker", q, "idle")
    BY <1>3
  <2> HIDE DEF q
  <2> QED
    BY <1>1, <1>3, <2>1, <2>2, PostedRecord
<1>4. CASE p' = [p EXCEPT !.pc = "idle"] /\ UNCHANGED <<pub, ring>>
  <2>1. p' \in ProviderState /\ p'.committed = p.committed /\ p'.gen = p.gen /\ p'.trans = p.trans
        /\ p'.phase = p.phase
    BY <1>1, <1>4 DEF ProviderState
  <2>2. KeepsContext(p, p')
    BY <1>1, <2>1, SameContext
  <2>3. pub' \in Authority /\ pub'.committed <= p'.committed /\ Mirrored'
    BY <1>4, <2>1 DEF InputInv, InputTyped, MergeInv, BeyondCutoff, FreshInv, Mirrored
  <2> QED
    BY <1>1, <1>4, <2>2, <2>3, AloneStep
<1> QED
  BY <1>2, <1>3, <1>4 DEF Progress

LEMMA ObserveStep ==
  ASSUME StreamsAreKnown, InputInv, NEW neutral \in BOOLEAN, ObserveSubject(neutral)
  PROVE  InputInv'
<1>1. p \in ProviderState /\ "actions" \in Streams
  BY DEF InputInv, InputTyped, StreamsAreKnown
<1> DEFINE g == IF neutral THEN p.gen["actions"]
                ELSE IF p.phase # "active" \/ "actions" \in p.pending THEN 0 ELSE p.gate
<1>2. p' = [p EXCEPT !.neutral = neutral, !.gate = g] /\ UNCHANGED <<pub, ring, rd, cmds, replies>>
  BY DEF ObserveSubject
<1>3. g \in Nat
  BY <1>1 DEF ProviderState, Generations
<1> HIDE DEF g
<1>4. p' \in ProviderState /\ p'.committed = p.committed /\ p'.gen = p.gen /\ p'.trans = p.trans
      /\ p'.phase = p.phase
  BY <1>1, <1>2, <1>3 DEF ProviderState
<1>5. KeepsContext(p, p')
  BY <1>1, <1>4, SameContext
<1>6. pub' \in Authority /\ pub'.committed <= p'.committed /\ Mirrored'
  BY <1>2, <1>4 DEF InputInv, InputTyped, MergeInv, BeyondCutoff, FreshInv, Mirrored
<1> QED
  BY <1>2, <1>5, <1>6, AloneStep

LEMMA PostInputStep ==
  ASSUME InputInv, NEW s \in Streams, PostInput(s)
  PROVE  InputInv'
<1>1. p \in ProviderState /\ UNCHANGED <<rd, cmds, replies>>
  BY DEF InputInv, InputTyped, PostInput
<1>2. CASE Settle(IF s = "actions" THEN [p EXCEPT !.gate = 0] ELSE p) /\ UNCHANGED ring
  <2> DEFINE q == IF s = "actions" THEN [p EXCEPT !.gate = 0] ELSE p
  <2>1. q \in ProviderState /\ q.committed = p.committed /\ q.gen = p.gen /\ q.trans = p.trans
        /\ q.phase = p.phase
    BY <1>1 DEF ProviderState
  <2>2. Settle(q)
    BY <1>2
  <2> HIDE DEF q
  <2>3. KeepsContext(p, q)
    BY <1>1, <2>1, SameContext
  <2> QED
    BY <1>1, <1>2, <2>1, <2>2, <2>3, Settled, AloneStep
<1>3. CASE Settle(Boundary(p, {s})) /\ UNCHANGED ring
  <2>1. Boundary(p, {s}) \in ProviderState /\ KeepsContext(p, Boundary(p, {s}))
    BY <1>1, BoundaryKeeps
  <2> QED
    BY <1>1, <1>3, <2>1, Settled, AloneStep
<1>4. CASE PostRecord(s, "data", p, "idle")
  BY <1>1, <1>4, PostedRecord
<1> QED
  BY <1>2, <1>3, <1>4 DEF PostInput

LEMMA CloseInputStep ==
  ASSUME InputInv, CloseInput
  PROVE  InputInv'
<1>1. p \in ProviderState
  BY DEF InputInv, InputTyped
<1>2. Close(p, FALSE) \in ProviderState /\ KeepsContext(p, Close(p, FALSE))
  BY <1>1, CloseKeeps
<1> QED
  BY <1>2, Settled, AloneStep DEF CloseInput

(* ----------------------------- the commands ----------------------------- *)

LEMMA SingleTail ==
  ASSUME NEW S, NEW q \in Seq(S), q # << >>, Single(q)
  PROVE  Single(Tail(q)) /\ (Change(Head(q)) => NoChange(Tail(q)))
<1>1. /\ Head(q) = q[1] /\ Len(q) \in Nat /\ Len(q) >= 1 /\ DOMAIN q = 1..Len(q)
      /\ DOMAIN Tail(q) = 1..(Len(q) - 1)
      /\ \A i \in 1..(Len(q) - 1) : Tail(q)[i] = q[i + 1]
  BY SMT
<1>2. \A i \in DOMAIN Tail(q) : i + 1 \in DOMAIN q /\ Tail(q)[i] = q[i + 1] /\ 1 # i + 1
  BY <1>1, SMT
<1>3. 1 \in DOMAIN q
  BY <1>1, SMT
<1>4. \A i, j \in DOMAIN Tail(q) : i + 1 = j + 1 => i = j
  BY <1>1, SMT
<1>5. Single(Tail(q))
  BY <1>2, <1>4 DEF Single
<1>6. ASSUME Change(Head(q)) PROVE NoChange(Tail(q))
  BY <1>1, <1>2, <1>3, <1>6 DEF Single, NoChange, Elements
<1> QED
  BY <1>5, <1>6

LEMMA SingleAppend ==
  ASSUME NEW S, NEW q \in Seq(S), NEW m \in S, Single(q), NoChange(q) \/ ~Change(m)
  PROVE  Single(Append(q, m))
<1> DEFINE a == Append(q, m)
<1>1. /\ Len(q) \in Nat /\ DOMAIN q = 1..Len(q) /\ DOMAIN a = 1..(Len(q) + 1)
      /\ \A i \in 1..Len(q) : a[i] = q[i]
      /\ a[Len(q) + 1] = m
  BY SMT
<1> HIDE DEF a
<1>2. \A i \in DOMAIN a : (i \in DOMAIN q /\ a[i] = q[i]) \/ (i = Len(q) + 1 /\ a[i] = m)
  BY <1>1, SMT
<1>3. Single(a)
  BY <1>2 DEF Single, NoChange, Elements
<1> QED
  BY <1>3 DEF a

Command == [t : Sent, gen : Generations, trans : Nat, on : BOOLEAN]

AnswerMessage == [t : Sent, gen : Generations, trans : Nat,
                  status : {"closing", "success", "stale", "busy", "failed"}]

LEMMA Queues ==
  ASSUME InputTyped
  PROVE  cmds \in Seq(Command) /\ replies \in Seq(AnswerMessage)
BY DEF InputTyped, Command, AnswerMessage

\* A command that has been carried out is answered; only an accepted change
\* of context moves the provider to another context.
LEMMA CommandStep ==
  ASSUME InputInv, cmds # << >>, cmds' = Tail(cmds), Quiet,
         NEW status \in {"closing", "success", "stale", "busy", "failed"},
         replies' = Append(replies, [t |-> Head(cmds).t, gen |-> Head(cmds).gen,
                                     status |-> status, trans |-> p'.trans]),
         \/ KeepsContext(p, p')
         \/ Head(cmds).t = "context" /\ (status = "success" \/ p'.phase = "closing")
  PROVE  InputInv'
<1> DEFINE m == Head(cmds)
           a == [t |-> m.t, gen |-> m.gen, status |-> status, trans |-> p'.trans]
<1>1. cmds \in Seq(Command) /\ replies \in Seq(AnswerMessage)
  BY Queues DEF InputInv
<1>2. m \in Command /\ cmds' \in Seq(Command) /\ Elements(cmds) = {m} \cup Elements(cmds')
  BY <1>1, RecordTaken
<1>3. p' \in ProviderState /\ pub' \in Authority /\ ring' = ring /\ rd' = rd
  BY DEF Quiet
<1>4. a \in AnswerMessage /\ a.t = m.t /\ a.status = status /\ a.trans = p'.trans
  BY <1>2, <1>3 DEF Command, AnswerMessage, ProviderState
<1>5. replies' \in Seq(AnswerMessage) /\ Elements(replies') = Elements(replies) \cup {a}
  BY <1>1, <1>4, InputAppended
<1>6. Change(a) <=> Change(m)
  BY <1>4 DEF Change
<1>7. replies' = Append(replies, a)
  OBVIOUS
<1> HIDE DEF m, a
<1>8. InputTyped'
  BY <1>2, <1>3, <1>5 DEF InputInv, InputTyped, Command, AnswerMessage
<1>9. Single(cmds') /\ (Change(m) => NoChange(cmds')) /\ (Change(m) => NoChange(replies))
  <2>1. Single(cmds) /\ (NoChange(cmds) \/ NoChange(replies))
    BY DEF InputInv, FreshInv, OneChange
  <2> QED
    BY <1>1, <1>2, <2>1, SingleTail DEF NoChange, m
<1>10. OneChange'
  <2>1. Single(replies')
    BY <1>1, <1>4, <1>6, <1>7, <1>9, SingleAppend DEF InputInv, FreshInv, OneChange
  <2>2. NoChange(cmds') \/ NoChange(replies')
    BY <1>2, <1>5, <1>6, <1>9 DEF InputInv, FreshInv, OneChange, NoChange
  <2> QED
    BY <1>9, <2>1, <2>2 DEF OneChange, Single, NoChange
<1>11. Told'
  <2> SUFFICES ASSUME Running, p'.phase # "closing"
               PROVE  /\ \A n \in Elements(cmds') : Change(n) => n.t = rd.request /\ rd.trans = p'.trans
                      /\ \A n \in Elements(replies') : Change(n) =>
                           /\ n.t = rd.request
                           /\ IF n.status = "success" THEN n.trans = p'.trans ELSE rd.trans = p'.trans
                      /\ rd.request # "context" => rd.trans = p'.trans
                      /\ rd.request = "context" => Streams \subseteq rd.local_cancel
    BY <1>3 DEF Told, Running
  <2>1. p.phase # "closing"
    BY DEF Quiet
  <2>2. /\ \A n \in Elements(cmds) : Change(n) => n.t = rd.request /\ rd.trans = p.trans
        /\ \A n \in Elements(replies) : Change(n) =>
             /\ n.t = rd.request
             /\ IF n.status = "success" THEN n.trans = p.trans ELSE rd.trans = p.trans
        /\ rd.request # "context" => rd.trans = p.trans
        /\ rd.request = "context" => Streams \subseteq rd.local_cancel
    BY <2>1 DEF InputInv, FreshInv, Told
  <2>3. CASE KeepsContext(p, p')
    <3>1. p'.trans = p.trans
      BY <2>3 DEF KeepsContext
    <3> QED
      BY <1>2, <1>4, <1>5, <1>6, <2>2, <3>1
  <2>4. CASE m.t = "context" /\ status = "success"
    <3>1. Change(m)
      BY <2>4 DEF Change
    <3> QED
      BY <1>2, <1>4, <1>5, <1>9, <2>2, <2>4, <3>1 DEF NoChange
  <2> QED
    BY <2>3, <2>4 DEF m
<1> QED
  BY <1>8, <1>10, <1>11, QuietStep DEF InputInv, FreshInv

LEMMA NothingDone ==
  ASSUME InputInv, UNCHANGED <<p, pub, ring, rd>>
  PROVE  Quiet /\ KeepsContext(p, p')
<1>1. p \in ProviderState
  BY DEF InputInv, InputTyped
<1>2. KeepsContext(p, p')
  BY <1>1, SameContext
<1> QED
  BY <1>2 DEF Quiet, KeepsContext, InputInv, InputTyped, MergeInv, BeyondCutoff, FreshInv, Mirrored

LEMMA SettledQuietly ==
  ASSUME InputInv, NEW q \in ProviderState, KeepsContext(p, q), Settle(q), UNCHANGED <<ring, rd>>
  PROVE  Quiet /\ KeepsContext(p, p')
BY Settled DEF Quiet, KeepsContext

LEMMA InputCommandStep ==
  ASSUME StreamsAreKnown, InputInv, InputCommand
  PROVE  InputInv'
<1> DEFINE m == Head(cmds)
           Answering(status) == replies' = Append(replies, [t |-> m.t, gen |-> m.gen, status |-> status,
                                                            trans |-> p'.trans])
<1>1. cmds # << >> /\ cmds' = Tail(cmds) /\ UNCHANGED <<ring, rd>> /\ p \in ProviderState
  BY DEF InputCommand, InputInv, InputTyped
<1>2. m \in Command
  BY <1>1, RecordTaken, Queues DEF InputInv
<1>3. "actions" \in Streams
  BY DEF StreamsAreKnown
<1>4. ASSUME UNCHANGED <<p, pub>>, NEW status \in {"closing", "success", "stale", "busy", "failed"},
             Answering(status)
      PROVE  InputInv'
  BY <1>1, <1>4, NothingDone, CommandStep
<1>5. ASSUME NEW q \in ProviderState, KeepsContext(p, q), Settle(q),
             NEW status \in {"closing", "success", "stale", "busy", "failed"}, Answering(status)
      PROVE  InputInv'
  BY <1>1, <1>5, SettledQuietly, CommandStep
<1>6. CASE m.t = "ready" /\ InputReady(m)
  <2>1. CASE Closing
    BY <1>4, <1>6, <2>1 DEF InputReady, Reply
  <2>2. CASE ~Closing
    <3> DEFINE q == [p EXCEPT !.ready = TRUE]
           status == IF p'.phase = "closing" THEN "failed" ELSE "success"
    <3>1. q \in ProviderState /\ q.committed = p.committed /\ q.gen = p.gen /\ q.trans = p.trans
          /\ q.phase = p.phase
      BY <1>1 DEF ProviderState
    <3>2. Settle(q) /\ Answering(status)
      BY <1>6, <2>2 DEF InputReady, Reply
    <3>3. status \in {"closing", "success", "stale", "busy", "failed"}
      OBVIOUS
    <3> HIDE DEF q, Answering, status
    <3>4. KeepsContext(p, q)
      BY <1>1, <3>1, SameContext
    <3> QED
      BY <1>5, <3>1, <3>2, <3>3, <3>4
  <2> QED
    BY <2>1, <2>2
<1>7. CASE m.t = "ack" /\ BoundaryReady(m)
  <2>1. CASE UNCHANGED <<p, pub>> /\ \E status \in {"closing", "stale", "busy"} : Answering(status)
    BY <1>4, <2>1
  <2> DEFINE g == IF "actions" \in p.pending /\ p.neutral THEN p.gen["actions"] ELSE p.gate
             q == IF p.pending = {} THEN p
                  ELSE [p EXCEPT !.gate = g, !.context_pending = FALSE, !.target_pending = FALSE,
                                 !.pending = {}, !.phase = "active"]
             status == IF p'.phase = "closing" THEN "failed" ELSE "success"
  <2>2. CASE ~Closing /\ Settle(q) /\ Answering(status)
    <3>1. g \in Nat
      BY <1>1, <1>3 DEF ProviderState, Generations
    <3> HIDE DEF g
    <3>2. q \in ProviderState /\ q.committed = p.committed /\ q.gen = p.gen /\ q.trans = p.trans
      BY <1>1, <3>1 DEF ProviderState, Phase
    <3> HIDE DEF q
    <3>3. KeepsContext(p, q)
      BY <1>1, <2>2, <3>2, SameContext DEF Closing
    <3>4. status \in {"closing", "success", "stale", "busy", "failed"}
      OBVIOUS
    <3> HIDE DEF status, Answering
    <3> QED
      BY <1>5, <2>2, <3>2, <3>3, <3>4
  <2> QED
    BY <1>7, <2>1, <2>2 DEF BoundaryReady, Reply
<1>8. CASE m.t = "context" /\ SelectContext(m)
  <2>1. CASE UNCHANGED <<p, pub>> /\ \E status \in {"closing", "stale", "busy"} : Answering(status)
    BY <1>4, <2>1
  <2> DEFINE n == p.trans + 1
             q == [p EXCEPT !.context_pending = TRUE, !.trans = n, !.enabled = FALSE]
             b == Boundary(q, Streams)
             status == IF p'.phase = "closing" THEN "failed" ELSE "success"
  <2>2. CASE Settle(b) /\ Answering(status)
    <3>1. n \in Nat
      BY <1>1, SMT DEF ProviderState
    <3> HIDE DEF n
    <3>2. q \in ProviderState /\ q.committed = p.committed /\ q.gen = p.gen /\ q.phase = p.phase
      BY <1>1, <3>1 DEF ProviderState
    <3> HIDE DEF q
    <3>3. b \in ProviderState /\ KeepsContext(q, b)
          /\ (b.phase # "closing" => \A s \in Streams : q.gen[s] < b.gen[s])
      BY <3>2, BoundaryKeeps
    <3> HIDE DEF b
    <3>4. p' \in Published(b) /\ pub' = Snapshot(p')
      BY <2>2 DEF Settle
    <3>5. p' \in ProviderState /\ p'.gen = b.gen /\ p'.committed = b.committed
          /\ (p' = b \/ p'.phase = "closing") /\ KeepsContext(b, p')
      BY <3>3, <3>4, PublishedKeeps
    <3>6. /\ pub' \in Authority /\ pub'.committed = p'.committed /\ p'.committed \in Nat
          /\ pub'.phase = p'.phase /\ pub'.gen = p'.gen /\ pub'.trans = p'.trans
      BY <3>4, <3>5, SnapshotIs DEF ProviderState
    <3>7. pub'.committed <= p'.committed
      BY <3>6, SMT
    <3>8. Quiet
      <4>1. p'.committed = p.committed /\ \A s \in Streams : p.gen[s] <= p'.gen[s]
        BY <3>2, <3>3, <3>5 DEF KeepsContext
      <4>2. p.phase = "closing" => p'.phase = "closing"
        BY <3>2, <3>3, <3>5 DEF KeepsContext
      <4>3. p'.phase # "closing" => \A s \in Streams : p.gen[s] < p'.gen[s]
        BY <3>2, <3>3, <3>5
      <4> QED
        BY <1>1, <3>5, <3>6, <3>7, <4>1, <4>2, <4>3 DEF Quiet, Mirrored
    <3>9. status \in {"closing", "success", "stale", "busy", "failed"}
          /\ (status = "success" \/ p'.phase = "closing")
      OBVIOUS
    <3>10. replies' = Append(replies, [t |-> Head(cmds).t, gen |-> Head(cmds).gen,
                                       status |-> status, trans |-> p'.trans])
      BY <2>2
    <3> HIDE DEF status, Answering
    <3> QED
      BY <1>1, <1>8, <3>8, <3>9, <3>10, CommandStep DEF m
  <2> QED
    BY <1>8, <2>1, <2>2 DEF SelectContext, Reply
<1>9. CASE m.t = "target" /\ TextTarget(m)
  <2>1. CASE UNCHANGED <<p, pub>> /\ \E status \in {"closing", "stale", "busy"} : Answering(status)
    BY <1>4, <2>1
  <2> DEFINE q == [p EXCEPT !.target_pending = TRUE, !.enabled = m.on]
             b == Boundary(q, {"text"})
             status == IF p'.phase = "closing" THEN "failed" ELSE "success"
  <2>2. CASE ~Closing /\ Settle(b) /\ Answering(status)
    <3>1. q \in ProviderState /\ q.committed = p.committed /\ q.gen = p.gen /\ q.trans = p.trans
          /\ q.phase = p.phase
      BY <1>1, <1>2 DEF ProviderState, Command
    <3> HIDE DEF q
    <3>2. KeepsContext(p, q)
      BY <1>1, <3>1, SameContext
    <3>6. {"text"} \in SUBSET Streams
      BY <1>2, <1>9 DEF Command, Sent
    <3>3. b \in ProviderState /\ KeepsContext(q, b)
      BY <3>1, <3>6, BoundaryKeeps
    <3> HIDE DEF b
    <3>4. KeepsContext(p, b)
      BY <1>1, <3>1, <3>2, <3>3, KeepsTwice
    <3>5. status \in {"closing", "success", "stale", "busy", "failed"}
      OBVIOUS
    <3> HIDE DEF status, Answering
    <3> QED
      BY <1>5, <2>2, <3>3, <3>4, <3>5
  <2> QED
    BY <1>9, <2>1, <2>2 DEF TextTarget, Reply
<1> QED
  BY <1>6, <1>7, <1>8, <1>9 DEF InputCommand

(* ------------------------------- the reader ----------------------------- *)

LEMMA RefreshIs ==
  ASSUME pub \in Authority, NEW r \in ReaderState
  PROVE  /\ Refresh(r) \in ReaderState /\ Refresh(r).state = pub
         /\ \A s \in Streams : Refresh(r).seen[s] <= r.seen[s]
         /\ Refresh(r).head = r.head /\ Refresh(r).last = r.last /\ Refresh(r).cutoff = r.cutoff
         /\ Refresh(r).pc = r.pc /\ Refresh(r).event = r.event /\ Refresh(r).stamp = r.stamp
         /\ Refresh(r).on = r.on /\ Refresh(r).request = r.request /\ Refresh(r).trans = r.trans
         /\ Refresh(r).local_cancel = r.local_cancel /\ Refresh(r).changing = r.changing
<1> DEFINE moved == {s \in Streams : pub.gen[s] # r.state.gen[s]}
           seen == [s \in Streams |-> IF s \in moved THEN 0 ELSE r.seen[s]]
           ack == [s \in Streams |-> IF s \in moved THEN 0 ELSE r.ack[s]]
           gone == r.cancellation \cup moved \cup (IF pub.phase = "closing" THEN Streams ELSE {})
           b == [r EXCEPT !.state = pub, !.seen = seen, !.ack = ack, !.cancellation = gone]
<1>1. Refresh(r) = b
  BY DEF Refresh
<1>2. \A s \in Streams : r.seen[s] \in Nat /\ r.ack[s] \in Nat
  BY DEF ReaderState, Generations
<1>3. seen \in Generations /\ ack \in Generations /\ \A s \in Streams : seen[s] <= r.seen[s]
  BY <1>2, SMT DEF Generations
<1>4. gone \in SUBSET Streams
  BY DEF ReaderState
<1> HIDE DEF seen, ack, gone
<1>5. b \in ReaderState
  BY <1>3, <1>4 DEF ReaderState
<1>6. /\ b.state = pub /\ b.seen = seen
      /\ b.head = r.head /\ b.last = r.last /\ b.cutoff = r.cutoff
      /\ b.pc = r.pc /\ b.event = r.event /\ b.stamp = r.stamp
      /\ b.on = r.on /\ b.request = r.request /\ b.trans = r.trans
      /\ b.local_cancel = r.local_cancel /\ b.changing = r.changing
  BY DEF ReaderState
<1> HIDE DEF b
<1> QED
  BY <1>1, <1>3, <1>5, <1>6

\* What a step of the reader does that takes no record.
Reads(a, b) ==
    /\ b \in ReaderState /\ b.last = a.last
    /\ b.head = a.head \/ (b.pc = "closed" /\ \A s \in Streams : b.head[s] = NoHead)
    /\ \A s \in Streams : b.seen[s] <= a.seen[s]
    /\ b.event # NoHead => b.event = a.event /\ b.stamp = a.stamp /\ b.on = a.on
    /\ b.pc \in {"idle", "actions", "closed", "failed"}
    /\ b.pc = "actions" => b.cutoff <= p.committed
    /\ b.pc \in {"idle", "actions"} => a.pc \notin {"closed", "failed"}

LEMMA ReadsStep ==
  ASSUME InputInv, UNCHANGED <<p, pub, ring>>, Reads(rd, rd')
  PROVE  MergeInv' /\ Mirrored' /\ Stamped' /\ Held' /\ (Running' => Running)
<1>1. /\ rd' \in ReaderState /\ rd'.last = rd.last /\ ring' = ring /\ p' = p /\ pub' = pub
      /\ \A s \in Streams : rd'.head[s] = rd.head[s] \/ rd'.head[s] = NoHead
  BY DEF Reads
<1>2. \A s \in Streams : Waiting(s)' \subseteq Waiting(s)
  BY <1>1 DEF Waiting
<1>3. Running' => Running /\ \A s \in Streams : Waiting(s)' = Waiting(s)
  BY <1>1 DEF Running, Reads, Waiting
<1>4. RecordsInOrder'
  BY <1>1 DEF InputInv, MergeInv, RecordsInOrder
<1>5. Untaken' /\ OneStream'
  BY <1>1, <1>2 DEF InputInv, MergeInv, Untaken, OneStream
<1>6. NothingLost'
  BY <1>1, <1>3 DEF InputInv, MergeInv, NothingLost
<1>7. BeyondCutoff'
  <2>1. Filled' = {} /\ pub.committed <= p.committed
        /\ (rd'.pc \in {"actions", "text", "choose"} => rd'.cutoff <= p.committed)
    BY DEF Filled, Reads, InputInv, MergeInv, BeyondCutoff
  <2> QED
    BY <1>1, <2>1 DEF BeyondCutoff
<1>8. Mirrored'
  BY <1>1 DEF InputInv, FreshInv, Mirrored
<1>9. Stamped'
  <2> SUFFICES ASSUME NEW s \in Streams
               PROVE  /\ rd'.seen[s] <= p.gen[s]
                      /\ \A m \in Waiting(s)' : rd'.seen[s] <= m.gen /\ m.gen <= p.gen[s] /\ OfContext(m, s)
    BY <1>1 DEF Stamped, OfContext
  <2>1. /\ rd'.seen[s] \in Nat /\ rd.seen[s] \in Nat /\ p.gen[s] \in Nat
        /\ rd'.seen[s] <= rd.seen[s] /\ rd.seen[s] <= p.gen[s]
    BY <1>1 DEF InputInv, InputTyped, ProviderState, ReaderState, Generations, Reads, FreshInv, Stamped
  <2>2. rd'.seen[s] <= p.gen[s]
    BY <2>1, SMT
  <2>3. ASSUME NEW m \in Waiting(s)'
        PROVE  rd'.seen[s] <= m.gen /\ m.gen <= p.gen[s] /\ OfContext(m, s)
    <3>1. m \in Waiting(s)
      BY <1>2
    <3>2. m.gen \in Nat /\ rd.seen[s] <= m.gen /\ m.gen <= p.gen[s] /\ OfContext(m, s)
      BY <3>1, WaitingIs DEF InputInv, FreshInv, Stamped
    <3>3. rd'.seen[s] <= m.gen
      BY <2>1, <3>2, SMT
    <3> QED
      BY <3>2, <3>3
  <2> QED
    BY <2>2, <2>3
<1>10. Held'
  BY <1>1 DEF InputInv, FreshInv, Held, OfContext, Reads
<1> QED
  BY <1>3, <1>4, <1>5, <1>6, <1>7, <1>8, <1>9, <1>10 DEF MergeInv

\* A step of the reader that leaves the commands and what it was told alone.
LEMMA ToldAlone ==
  ASSUME InputInv, UNCHANGED <<p, cmds, replies>>, Running' => Running,
         rd'.request = rd.request, rd'.trans = rd.trans, rd.local_cancel \subseteq rd'.local_cancel
  PROVE  OneChange' /\ Told'
BY DEF InputInv, FreshInv, OneChange, Single, NoChange, Told

LEMMA EndedIs ==
  ASSUME NEW r \in ReaderState
  PROVE  /\ Ended(r) \in ReaderState /\ Ended(r).pc = "closed" /\ Ended(r).last = r.last
         /\ Ended(r).event = NoHead /\ Ended(r).seen = r.seen
         /\ \A s \in Streams : Ended(r).head[s] = NoHead
         /\ Ended(r).request = r.request /\ Ended(r).trans = r.trans
         /\ Ended(r).local_cancel = r.local_cancel
<1> DEFINE none == [s \in Streams |-> NoHead]
           b == [r EXCEPT !.pc = "closed", !.head = none, !.event = NoHead, !.cancellation = Streams]
<1>1. Ended(r) = b
  BY DEF Ended
<1>2. none \in [Streams -> Record \cup {NoHead}] /\ \A s \in Streams : none[s] = NoHead
  OBVIOUS
<1>3. NoHead \in Record \cup {NoHead}
  OBVIOUS
<1> HIDE DEF none, NoHead
<1>4. b \in ReaderState
  BY <1>2, <1>3 DEF ReaderState, Place
<1>5. /\ b.pc = "closed" /\ b.last = r.last /\ b.event = NoHead /\ b.seen = r.seen /\ b.head = none
      /\ b.request = r.request /\ b.trans = r.trans /\ b.local_cancel = r.local_cancel
  BY DEF ReaderState
<1> HIDE DEF b
<1> QED
  BY <1>1, <1>2, <1>4, <1>5

\* What the client has asked for and what it holds back.
Asks(a, b) == b.request = a.request /\ b.trans = a.trans /\ b.local_cancel = a.local_cancel

\* What is taken next is the record after the last one.
InLine == rd'.last # rd.last => rd'.last = rd.last + 1

LEMMA ReaderReads ==
  ASSUME InputInv, UNCHANGED <<p, pub, ring, cmds, replies>>, Reads(rd, rd'), Asks(rd, rd')
  PROVE  InputInv' /\ InLine
<1>1. MergeInv' /\ Mirrored' /\ Stamped' /\ Held' /\ (Running' => Running)
  BY ReadsStep
<1>2. OneChange' /\ Told'
  BY <1>1, ToldAlone DEF Asks
<1>3. InputTyped'
  BY DEF InputInv, InputTyped, Reads
<1> QED
  BY <1>1, <1>2, <1>3 DEF InputInv, FreshInv, InLine, Reads

LEMMA Refreshed ==
  ASSUME InputInv
  PROVE  /\ Refresh(rd) \in ReaderState /\ Refresh(rd).state = pub /\ Asks(rd, Refresh(rd))
         /\ Refresh(rd).head = rd.head /\ Refresh(rd).last = rd.last /\ Refresh(rd).cutoff = rd.cutoff
         /\ Refresh(rd).pc = rd.pc /\ Refresh(rd).event = rd.event /\ Refresh(rd).stamp = rd.stamp
         /\ Refresh(rd).on = rd.on /\ Refresh(rd).changing = rd.changing
         /\ \A s \in Streams : Refresh(rd).seen[s] <= rd.seen[s]
         /\ pub \in Authority /\ pub.committed <= p.committed
BY RefreshIs DEF InputInv, InputTyped, Asks, MergeInv, BeyondCutoff

\* A snapshot that ends the reading of records, or goes on to what follows.
LEMMA UnlessIs ==
  ASSUME InputInv, Running, NEW next
  PROVE  LET r == Refresh(rd)
             u == Unless(r, next)
         IN  \/ Reads(rd, u) /\ Asks(rd, u)
             \/ u = next /\ p.phase # "closing"
<1> DEFINE r == Refresh(rd)
           u == Unless(r, next)
<1>1. /\ r \in ReaderState /\ r.state = pub /\ Asks(rd, r) /\ r.head = rd.head /\ r.last = rd.last
      /\ r.pc = rd.pc /\ r.event = rd.event /\ r.stamp = rd.stamp /\ r.on = rd.on
      /\ \A s \in Streams : r.seen[s] <= rd.seen[s]
  BY Refreshed
<1> HIDE DEF r
<1>2. CASE u = [r EXCEPT !.pc = "failed"]
  <2>1. /\ u \in ReaderState /\ u.pc = "failed" /\ u.last = r.last /\ u.head = r.head /\ u.seen = r.seen
        /\ u.event = r.event /\ u.stamp = r.stamp /\ u.on = r.on
        /\ u.request = r.request /\ u.trans = r.trans /\ u.local_cancel = r.local_cancel
    BY <1>1, <1>2 DEF ReaderState, Place
  <2> HIDE DEF u
  <2> QED
    BY <1>1, <2>1 DEF Reads, Asks, r, u
<1>3. CASE u = Ended(r)
  <2> HIDE DEF u
  <2> QED
    BY <1>1, <1>3, EndedIs DEF Reads, Asks, r, u
<1>4. CASE u = [r EXCEPT !.pc = "idle"]
  <2>1. /\ u \in ReaderState /\ u.pc = "idle" /\ u.last = r.last /\ u.head = r.head /\ u.seen = r.seen
        /\ u.event = r.event /\ u.stamp = r.stamp /\ u.on = r.on
        /\ u.request = r.request /\ u.trans = r.trans /\ u.local_cancel = r.local_cancel
    BY <1>1, <1>4 DEF ReaderState, Place
  <2> HIDE DEF u
  <2> QED
    BY <1>1, <2>1 DEF Reads, Asks, Running, r, u
<1>5. CASE u = next /\ r.state.phase # "closing"
  BY <1>1, <1>5 DEF InputInv, FreshInv, Mirrored, r
<1>6. \/ u = [r EXCEPT !.pc = "failed"] \/ u = Ended(r) \/ u = [r EXCEPT !.pc = "idle"]
      \/ u = next /\ r.state.phase # "closing"
  BY DEF Unless
<1> QED
  BY <1>2, <1>3, <1>4, <1>5, <1>6 DEF r

LEMMA NextBeginStep ==
  ASSUME InputInv, NextBegin
  PROVE  InputInv' /\ InLine
<1> DEFINE r == Refresh(rd)
           k == r.state.committed
           next == [r EXCEPT !.pc = "actions", !.cutoff = k]
<1>1. rd.pc = "idle" /\ rd' = Unless(r, next) /\ UNCHANGED <<p, pub, ring, cmds, replies>>
  BY DEF NextBegin
<1>2. /\ r \in ReaderState /\ r.state = pub /\ Asks(rd, r) /\ r.head = rd.head /\ r.last = rd.last
      /\ r.event = rd.event /\ r.stamp = rd.stamp /\ r.on = rd.on
      /\ \A s \in Streams : r.seen[s] <= rd.seen[s]
      /\ k \in Nat /\ k <= p.committed
  BY Refreshed DEF Authority
<1>3. Running
  BY <1>1 DEF Running
<1> HIDE DEF k
<1>4. CASE rd' = next
  <2> HIDE DEF r
  <2>1. /\ next \in ReaderState /\ next.pc = "actions" /\ next.cutoff = k /\ next.last = r.last
        /\ next.head = r.head /\ next.seen = r.seen
        /\ next.event = r.event /\ next.stamp = r.stamp /\ next.on = r.on
        /\ next.request = r.request /\ next.trans = r.trans /\ next.local_cancel = r.local_cancel
    BY <1>2 DEF ReaderState, Place
  <2> HIDE DEF next
  <2>2. Reads(rd, rd') /\ Asks(rd, rd')
    BY <1>1, <1>2, <1>4, <2>1 DEF Reads, Asks
  <2> QED
    BY <1>1, <2>2, ReaderReads
<1>5. CASE Reads(rd, rd') /\ Asks(rd, rd')
  BY <1>1, <1>5, ReaderReads
<1> QED
  <2> HIDE DEF next
  <2> QED
    BY <1>1, <1>3, <1>4, <1>5, UnlessIs

LEMMA TakeCancellationStep ==
  ASSUME InputInv, TakeCancellation
  PROVE  InputInv' /\ InLine
<1>1. rd.pc = "idle" /\ rd' = [rd EXCEPT !.cancellation = {}] /\ UNCHANGED <<p, pub, ring, cmds, replies>>
  BY DEF TakeCancellation
<1>2. rd \in ReaderState /\ \A s \in Streams : rd.seen[s] \in Nat /\ rd.seen[s] <= rd.seen[s]
  BY DEF InputInv, InputTyped, ReaderState, Generations
<1>3. /\ rd' \in ReaderState /\ rd'.pc = "idle" /\ rd'.last = rd.last /\ rd'.head = rd.head
      /\ rd'.seen = rd.seen /\ rd'.event = rd.event /\ rd'.stamp = rd.stamp /\ rd'.on = rd.on
      /\ rd'.request = rd.request /\ rd'.trans = rd.trans /\ rd'.local_cancel = rd.local_cancel
  BY <1>1, <1>2 DEF ReaderState
<1>4. Reads(rd, rd') /\ Asks(rd, rd')
  BY <1>1, <1>2, <1>3 DEF Reads, Asks
<1> QED
  BY <1>1, <1>4, ReaderReads

LEMMA ApplyStep ==
  ASSUME StreamsAreKnown, InputInv, Apply
  PROVE  InputInv' /\ InLine
<1> DEFINE r == Refresh(rd)
<1>1. /\ rd.pc = "idle" /\ rd' = [r EXCEPT !.event = NoHead, !.stamp = 0, !.on = "actions"]
      /\ UNCHANGED <<p, pub, ring, cmds, replies>> /\ "actions" \in Streams
  BY DEF Apply, StreamsAreKnown
<1>2. /\ r \in ReaderState /\ r.pc = rd.pc /\ Asks(rd, r) /\ r.head = rd.head /\ r.last = rd.last
      /\ \A s \in Streams : r.seen[s] <= rd.seen[s]
  BY Refreshed
<1> HIDE DEF r
<1>3. NoHead \in Record \cup {NoHead}
  OBVIOUS
<1> HIDE DEF NoHead
<1>4. /\ rd' \in ReaderState /\ rd'.pc = r.pc /\ rd'.last = r.last /\ rd'.head = r.head
      /\ rd'.seen = r.seen /\ rd'.event = NoHead
      /\ rd'.request = r.request /\ rd'.trans = r.trans /\ rd'.local_cancel = r.local_cancel
  BY <1>1, <1>2, <1>3 DEF ReaderState
<1>5. Reads(rd, rd') /\ Asks(rd, rd')
  BY <1>1, <1>2, <1>4 DEF Reads, Asks
<1> QED
  BY <1>1, <1>5, ReaderReads

\* A look at one ring moves a record from the ring to the head of its stream.
LEMMA ReadHeadStep ==
  ASSUME StreamsAreKnown, InputInv, NEW s \in Streams, NEW then, ReadHead(s, then),
         \/ s = "actions" /\ then = (IF "text" \in Streams THEN "text" ELSE "choose")
         \/ s = "text" /\ then = "choose"
  PROVE  InputInv' /\ InLine
<1> DEFINE fills == rd.head[s] = NoHead /\ ring[s] # << >>
           h == IF fills THEN [rd.head EXCEPT ![s] = Head(ring[s])] ELSE rd.head
<1>1. /\ rd.pc = s /\ s \in {"actions", "text"} /\ then \in {"text", "choose"}
      /\ UNCHANGED <<p, pub, cmds, replies>>
  BY DEF ReadHead, StreamsAreKnown
<1>2. rd \in ReaderState /\ ring \in [Streams -> Seq(Record)] /\ p \in ProviderState
      /\ rd.head \in [Streams -> Record \cup {NoHead}]
  BY DEF InputInv, InputTyped, ReaderState
<1>3. rd' = [rd EXCEPT !.head = h, !.pc = then]
  <2>1. CASE fills
    BY <1>2, <2>1 DEF ReadHead, ReaderState
  <2>2. CASE ~fills
    <3>1. rd' = [rd EXCEPT !.pc = then]
      BY <2>2 DEF ReadHead
    <3>2. [rd EXCEPT !.head = rd.head, !.pc = then] = [rd EXCEPT !.pc = then]
      BY <1>2 DEF ReaderState
    <3> QED
      BY <2>2, <3>1, <3>2
  <2> QED
    BY <2>1, <2>2
<1>4. ring' = IF fills THEN [ring EXCEPT ![s] = Tail(ring[s])] ELSE ring
  BY DEF ReadHead
<1>5. fills => /\ Head(ring[s]) \in Record /\ Tail(ring[s]) \in Seq(Record)
               /\ Elements(ring[s]) = {Head(ring[s])} \cup Elements(Tail(ring[s]))
               /\ Orderly(Tail(ring[s])) /\ \A m \in Elements(Tail(ring[s])) : Follows(Head(ring[s]), m)
  BY <1>2, RecordTaken, OrderlyTail DEF InputInv, MergeInv, RecordsInOrder
<1>6. /\ h \in [Streams -> Record \cup {NoHead}]
      /\ fills => h[s] = Head(ring[s])
      /\ ~fills => h[s] = rd.head[s]
      /\ \A x \in Streams : x # s => h[x] = rd.head[x]
  BY <1>2, <1>5
<1>7. /\ ring' \in [Streams -> Seq(Record)]
      /\ fills => ring'[s] = Tail(ring[s])
      /\ ~fills => ring'[s] = ring[s]
      /\ \A x \in Streams : x # s => ring'[x] = ring[x]
  BY <1>2, <1>4, <1>5
<1> HIDE DEF h
<1>8. /\ rd' \in ReaderState /\ rd'.head = h /\ rd'.pc = then /\ rd'.last = rd.last
      /\ rd'.seen = rd.seen /\ rd'.cutoff = rd.cutoff
      /\ rd'.event = rd.event /\ rd'.stamp = rd.stamp /\ rd'.on = rd.on
      /\ rd'.request = rd.request /\ rd'.trans = rd.trans /\ rd'.local_cancel = rd.local_cancel
  <2> HIDE DEF NoHead
  <2> QED
    BY <1>1, <1>2, <1>3, <1>6 DEF ReaderState, Place
<1>9. \A m \in Record : m # NoHead
  BY WaitingIs DEF InputInv
<1>10. \A x \in Streams : Waiting(x)' = Waiting(x)
  <2> TAKE x \in Streams
  <2>1. CASE x = s /\ fills
    BY <1>5, <1>6, <1>7, <1>8, <1>9, <2>1 DEF Waiting
  <2>2. CASE x # s \/ ~fills
    BY <1>6, <1>7, <1>8, <2>2 DEF Waiting
  <2> QED
    BY <2>1, <2>2
<1>11. Running /\ Running'
  BY <1>1, <1>8 DEF Running
<1>12. RecordsInOrder'
  <2> SUFFICES ASSUME NEW x \in Streams
               PROVE  /\ Orderly(ring'[x])
                      /\ h[x] # NoHead => \A m \in Elements(ring'[x]) : Follows(h[x], m)
    BY <1>8 DEF RecordsInOrder
  <2>1. CASE x = s /\ fills
    BY <1>5, <1>6, <1>7, <2>1
  <2>2. CASE x # s \/ ~fills
    BY <1>6, <1>7, <2>2 DEF InputInv, MergeInv, RecordsInOrder
  <2> QED
    BY <2>1, <2>2
<1>13. Untaken' /\ OneStream'
  BY <1>1, <1>8, <1>10 DEF InputInv, MergeInv, Untaken, OneStream
<1>14. NothingLost'
  BY <1>1, <1>8, <1>10, <1>11 DEF InputInv, MergeInv, NothingLost
<1>15. BeyondCutoff'
  <2>1. /\ pub.committed <= p.committed /\ rd.cutoff <= p.committed
        /\ \A x \in Filled : rd.head[x] = NoHead => \A m \in Elements(ring[x]) : m.seq > rd.cutoff
    BY <1>1 DEF InputInv, MergeInv, BeyondCutoff
  <2>2. Filled' \subseteq Filled \cup {s}
    <3>1. CASE then = "text"
      BY <1>8, <3>1 DEF Filled
    <3>2. CASE then = "choose" /\ s = "actions"
      BY <1>1, <1>8, <3>2 DEF Filled, StreamsAreKnown
    <3>3. CASE then = "choose" /\ s = "text"
      BY <1>1, <1>8, <3>3 DEF Filled, StreamsAreKnown
    <3> QED
      BY <1>1, <3>1, <3>2, <3>3
  <2>3. ASSUME NEW x \in Filled', h[x] = NoHead, NEW m \in Elements(ring'[x])
        PROVE  m.seq > rd.cutoff
    <3>1. CASE x = s
      <4>1. ~fills
        BY <1>5, <1>6, <1>9, <2>3, <3>1
      <4>2. rd.head[s] = NoHead /\ ring[s] = << >>
        BY <1>6, <2>3, <3>1, <4>1
      <4>3. DOMAIN ring'[s] = {}
        BY <1>7, <4>1, <4>2, SMT
      <4> QED
        BY <2>3, <3>1, <4>3 DEF Elements
    <3>2. CASE x # s
      <4>1. x \in Filled /\ x \in Streams
        BY <2>2, <2>3, <3>2, <1>1 DEF Filled, StreamsAreKnown
      <4> QED
        BY <1>6, <1>7, <2>1, <2>3, <3>2, <4>1
    <3> QED
      BY <3>1, <3>2
  <2> QED
    BY <1>1, <1>8, <2>1, <2>3 DEF BeyondCutoff
<1>16. Mirrored'
  BY <1>1 DEF InputInv, FreshInv, Mirrored
<1>17. Stamped' /\ Held'
  BY <1>1, <1>8, <1>10 DEF InputInv, FreshInv, Stamped, Held, OfContext
<1>18. OneChange' /\ Told'
  BY <1>1, <1>8, <1>11, ToldAlone
<1>19. InputTyped'
  BY <1>1, <1>7, <1>8 DEF InputInv, InputTyped
<1> QED
  BY <1>8, <1>12, <1>13, <1>14, <1>15, <1>16, <1>17, <1>18, <1>19 DEF InputInv, MergeInv, FreshInv, InLine

LEMMA ReadHeadsStep ==
  ASSUME StreamsAreKnown, InputInv, ReadHeads
  PROVE  InputInv' /\ InLine
BY ReadHeadStep DEF ReadHeads, StreamsAreKnown

\* The head taken is the record after the last one: an earlier one would be
\* within the cutoff too, and every head within the cutoff has been read.
LEMMA Earliest ==
  ASSUME StreamsAreKnown, InputInv, rd.pc = "choose", NEW s \in Streams,
         rd.head[s] # NoHead, rd.head[s].seq <= rd.cutoff,
         \A x \in Streams : rd.head[x] # NoHead /\ rd.head[x].seq <= rd.cutoff =>
                                rd.head[s].seq <= rd.head[x].seq
  PROVE  rd.head[s].seq = rd.last + 1
<1> DEFINE m == rd.head[s]
<1>1. m \in Waiting(s) /\ m \in Record
  BY WaitingIs DEF InputInv
<1>2. m.seq \in Nat /\ rd.last \in Nat /\ rd.cutoff \in Nat /\ p.committed \in Nat
  BY <1>1, WaitingIs DEF InputInv, InputTyped, ReaderState, ProviderState
<1>3. rd.last < m.seq /\ rd.cutoff <= p.committed /\ m.seq <= rd.cutoff
  BY <1>1 DEF InputInv, MergeInv, Untaken, BeyondCutoff
<1> DEFINE n == rd.last + 1
<1>4. n \in Nat /\ n <= m.seq /\ n <= rd.cutoff /\ n \in (rd.last + 1)..p.committed
  BY <1>2, <1>3, SMT
<1>5. PICK x \in Streams : \E k \in Waiting(x) : k.seq = n
  BY <1>4 DEF InputInv, MergeInv, NothingLost, Running
<1>6. PICK k \in Waiting(x) : k.seq = n
  BY <1>5
<1>7. CASE k = rd.head[x] /\ rd.head[x] # NoHead
  <2>1. m.seq <= n
    BY <1>4, <1>6, <1>7
  <2> QED
    BY <1>2, <1>4, <2>1, SMT
<1>8. CASE k \in Elements(ring[x])
  <2>1. CASE rd.head[x] = NoHead
    <3>1. n > rd.cutoff
      BY <1>6, <1>8, <2>1 DEF InputInv, MergeInv, BeyondCutoff, Filled
    <3> QED
      BY <1>2, <1>4, <3>1, SMT
  <2>2. CASE rd.head[x] # NoHead
    <3>1. rd.head[x].seq < n
      BY <1>6, <1>8, <2>2 DEF InputInv, MergeInv, RecordsInOrder, Follows
    <3>2. rd.head[x].seq \in Nat /\ rd.last < rd.head[x].seq
      BY <2>2, WaitingIs DEF InputInv, MergeInv, Untaken
    <3> QED
      BY <1>2, <3>1, <3>2, SMT
  <2> QED
    BY <2>1, <2>2
<1> QED
  BY <1>6, <1>7, <1>8 DEF Waiting

\* A step of the reader that takes the head m of stream s.
Takes(s, m) ==
    /\ UNCHANGED <<p, pub, ring, cmds, replies>>
    /\ m = rd.head[s] /\ m # NoHead /\ m.seq = rd.last + 1
    /\ rd' \in ReaderState /\ rd'.head = [rd.head EXCEPT ![s] = NoHead]
    /\ rd'.last = m.seq /\ rd'.pc = "idle" /\ Asks(rd, rd')
    /\ \A x \in Streams : rd'.seen[x] <= rd.seen[x] \/ (x = s /\ rd'.seen[x] = m.gen)
    /\ rd'.event # NoHead =>
           \/ rd'.event = rd.event /\ rd'.stamp = rd.stamp /\ rd'.on = rd.on
           \/ rd'.event = m /\ rd'.stamp = m.gen /\ rd'.on = s

LEMMA TakesStep ==
  ASSUME InputInv, Running, NEW s \in Streams, NEW m, Takes(s, m)
  PROVE  InputInv' /\ InLine
<1>1. /\ p' = p /\ pub' = pub /\ ring' = ring /\ cmds' = cmds /\ replies' = replies
      /\ m = rd.head[s] /\ m # NoHead /\ m.seq = rd.last + 1 /\ rd'.last = m.seq /\ rd'.pc = "idle"
  BY DEF Takes
<1>2. rd.head \in [Streams -> Record \cup {NoHead}]
  BY DEF InputInv, InputTyped, ReaderState
<1>3. /\ rd'.head[s] = NoHead
      /\ \A x \in Streams : x # s => rd'.head[x] = rd.head[x]
  BY <1>2 DEF Takes
<1>4. /\ m \in Record /\ m \in Waiting(s) /\ m.seq \in Nat /\ m.gen \in Nat
      /\ rd.last \in Nat /\ p.committed \in Nat
      /\ rd.last < m.seq /\ m.seq <= p.committed
  BY <1>1, WaitingIs DEF InputInv, InputTyped, ReaderState, ProviderState, MergeInv, Untaken
<1>5. \A n \in Elements(ring[s]) : Follows(m, n)
  BY <1>1 DEF InputInv, MergeInv, RecordsInOrder
<1>6. /\ Waiting(s)' = Elements(ring[s])
      /\ \A x \in Streams : x # s => Waiting(x)' = Waiting(x)
      /\ Waiting(s) = {m} \cup Elements(ring[s])
  BY <1>1, <1>3 DEF Waiting
<1>7. \A x \in Streams : Waiting(x)' \subseteq Waiting(x)
  BY <1>6
<1>8. \A x \in Streams : \A n \in Waiting(x)' : m.seq < n.seq /\ n.seq <= p.committed
  <2> TAKE x \in Streams
  <2> TAKE n \in Waiting(x)'
  <2>1. n \in Waiting(x) /\ n.seq \in Nat /\ rd.last < n.seq /\ n.seq <= p.committed
    BY <1>7, WaitingIs DEF InputInv, MergeInv, Untaken
  <2>2. CASE n.seq = m.seq
    <3>1. x = s
      BY <1>4, <2>1, <2>2 DEF InputInv, MergeInv, OneStream
    <3>2. m.seq < n.seq
      BY <1>5, <1>6, <3>1 DEF Follows
    <3> QED
      BY <2>1, <3>2
  <2>3. CASE n.seq # m.seq
    BY <1>1, <1>4, <2>1, <2>3, SMT
  <2> QED
    BY <2>2, <2>3
<1>9. RecordsInOrder'
  <2> SUFFICES ASSUME NEW x \in Streams
               PROVE  /\ Orderly(ring[x])
                      /\ rd'.head[x] # NoHead => \A n \in Elements(ring[x]) : Follows(rd'.head[x], n)
    BY <1>1 DEF RecordsInOrder
  <2> QED
    BY <1>3 DEF InputInv, MergeInv, RecordsInOrder
<1>10. Untaken'
  BY <1>1, <1>4, <1>8 DEF Untaken
<1>11. OneStream'
  BY <1>7 DEF InputInv, MergeInv, OneStream
<1>12. NothingLost'
  <2> SUFFICES ASSUME NEW n \in (m.seq + 1)..p.committed
               PROVE  \E x \in Streams : \E k \in Waiting(x)' : k.seq = n
    BY <1>1 DEF NothingLost
  <2>1. n \in (rd.last + 1)..p.committed /\ n # m.seq
    BY <1>1, <1>4, SMT
  <2>2. PICK x \in Streams : \E k \in Waiting(x) : k.seq = n
    BY <2>1 DEF InputInv, MergeInv, NothingLost
  <2>3. PICK k \in Waiting(x) : k.seq = n
    BY <2>2
  <2>4. k \in Waiting(x)'
    BY <1>6, <2>1, <2>3
  <2> QED
    BY <2>3, <2>4
<1>13. BeyondCutoff'
  <2>1. Filled' = {}
    BY <1>1 DEF Filled
  <2> QED
    BY <1>1, <2>1 DEF BeyondCutoff, InputInv, MergeInv
<1>14. Stamped'
  <2> SUFFICES ASSUME NEW x \in Streams
               PROVE  /\ rd'.seen[x] <= p.gen[x]
                      /\ \A n \in Waiting(x)' : rd'.seen[x] <= n.gen /\ n.gen <= p.gen[x] /\ OfContext(n, x)
    BY <1>1 DEF Stamped, OfContext
  <2>1. /\ rd'.seen[x] \in Nat /\ rd.seen[x] \in Nat /\ p.gen[x] \in Nat /\ rd.seen[x] <= p.gen[x]
        /\ m.gen <= p.gen[s]
    BY <1>4 DEF Takes, InputInv, InputTyped, ReaderState, ProviderState, Generations, FreshInv, Stamped
  <2>2. ASSUME NEW n \in Waiting(x)'
        PROVE  n.gen \in Nat /\ rd.seen[x] <= n.gen /\ n.gen <= p.gen[x] /\ OfContext(n, x)
    BY <1>7, WaitingIs DEF InputInv, FreshInv, Stamped
  <2>3. CASE rd'.seen[x] <= rd.seen[x]
    <3>1. rd'.seen[x] <= p.gen[x] /\ \A n \in Waiting(x)' : rd'.seen[x] <= n.gen
      BY <2>1, <2>2, <2>3, SMT
    <3> QED
      BY <2>2, <3>1
  <2>4. CASE x = s /\ rd'.seen[x] = m.gen
    <3>1. \A n \in Waiting(x)' : m.gen <= n.gen
      BY <1>5, <1>6, <2>4 DEF Follows
    <3> QED
      BY <2>1, <2>2, <2>4, <3>1
  <2> QED
    BY <2>3, <2>4 DEF Takes
<1>15. Held'
  <2> SUFFICES ASSUME rd'.event # NoHead
               PROVE  /\ rd'.event.gen = rd'.stamp /\ rd'.stamp <= p.gen[rd'.on]
                      /\ OfContext(rd'.event, rd'.on)
    BY <1>1 DEF Held, OfContext
  <2>1. CASE rd'.event = rd.event /\ rd'.stamp = rd.stamp /\ rd'.on = rd.on
    BY <2>1 DEF InputInv, FreshInv, Held
  <2>2. CASE rd'.event = m /\ rd'.stamp = m.gen /\ rd'.on = s
    BY <1>4, <2>2 DEF InputInv, FreshInv, Stamped
  <2> QED
    BY <2>1, <2>2 DEF Takes
<1>16. Mirrored'
  BY <1>1 DEF InputInv, FreshInv, Mirrored
<1>17. OneChange' /\ Told'
  BY <1>1, ToldAlone DEF Takes, Asks
<1>18. InputTyped'
  BY <1>1 DEF Takes, InputInv, InputTyped
<1> QED
  BY <1>1, <1>9, <1>10, <1>11, <1>12, <1>13, <1>14, <1>15, <1>16, <1>17, <1>18 DEF InputInv, MergeInv, FreshInv, InLine

\* Of the streams with a head within the cutoff one has the earliest.
LEMMA EarliestExists ==
  ASSUME StreamsAreKnown, NEW W \in SUBSET Streams, W # {}, NEW h \in [Streams -> Record \cup {NoHead}],
         \A x \in W : h[x] # NoHead
  PROVE  \E x \in W : \A y \in W : h[x].seq <= h[y].seq
<1>1. \A x \in W : h[x].seq \in Nat
  BY DEF Record
<1>2. \A x, y \in W : h[x].seq <= h[y].seq \/ h[y].seq <= h[x].seq
  BY <1>1, SMT
<1>3. \A x \in W : h[x].seq <= h[x].seq
  BY <1>1, SMT
<1>4. W = {"actions"} \/ W = {"text"} \/ W = {"actions", "text"}
  BY DEF StreamsAreKnown
<1> QED
  BY <1>2, <1>3, <1>4

\* A record is given to the client only while its stream's generation stands.
LEMMA AllowedIsOfItsGeneration ==
  ASSUME InputInv, NEW s \in Streams, rd.head[s] # NoHead, Allowed(Refresh(rd), s)
  PROVE  Refresh(rd).state.gen[s] = rd.head[s].gen
<1> DEFINE r == Refresh(rd)
<1>1. r.state = pub /\ r.seen[s] <= rd.seen[s] /\ r.seen[s] = r.state.gen[s] /\ pub.gen = p.gen
  BY Refreshed DEF Allowed, InputInv, FreshInv, Mirrored
<1>2. /\ p.gen[s] \in Nat /\ rd.seen[s] \in Nat /\ rd.head[s].gen \in Nat
      /\ rd.seen[s] <= rd.head[s].gen /\ rd.head[s].gen <= p.gen[s]
  BY WaitingIs DEF InputInv, InputTyped, ReaderState, ProviderState, Generations, FreshInv, Stamped
<1> HIDE DEF r
<1>3. p.gen[s] <= rd.seen[s] /\ r.state.gen[s] = p.gen[s]
  BY <1>1
<1> QED
  BY <1>2, <1>3, SMT DEF r

LEMMA TakeStep ==
  ASSUME StreamsAreKnown, InputInv, rd.pc = "choose", Within(Refresh(rd)) # {}, rd' = Take(Refresh(rd)),
         UNCHANGED <<p, pub, ring, cmds, replies>>
  PROVE  InputInv' /\ InLine
<1> DEFINE r == Refresh(rd)
           s == CHOOSE x \in Within(r) : \A y \in Within(r) : r.head[x].seq <= r.head[y].seq
           m == r.head[s]
           without == [rd.head EXCEPT ![s] = NoHead]
           n == m.seq
           taken == [r EXCEPT !.head[s] = NoHead, !.last = m.seq, !.pc = "idle", !.cutoff = 0]
           took == [r EXCEPT !.head = without, !.last = n, !.pc = "idle", !.cutoff = 0]
           seen == [r.seen EXCEPT ![s] = m.gen]
<1>1. /\ r \in ReaderState /\ r.state = pub /\ Asks(rd, r) /\ r.head = rd.head /\ r.last = rd.last
      /\ r.cutoff = rd.cutoff /\ r.event = rd.event /\ r.stamp = rd.stamp /\ r.on = rd.on
      /\ \A x \in Streams : r.seen[x] <= rd.seen[x]
  BY Refreshed
<1>2. /\ rd.head \in [Streams -> Record \cup {NoHead}] /\ Within(r) \subseteq Streams
      /\ Within(r) = {x \in Streams : rd.head[x] # NoHead /\ rd.head[x].seq <= rd.cutoff}
  BY <1>1 DEF InputInv, InputTyped, ReaderState, Within
<1>3. \E x \in Within(r) : \A y \in Within(r) : rd.head[x].seq <= rd.head[y].seq
  <2> HIDE DEF r
  <2>1. Within(r) # {}
    BY DEF r
  <2> QED
    BY <1>2, <2>1, EarliestExists
<1>4. s \in Within(r) /\ \A y \in Within(r) : rd.head[s].seq <= rd.head[y].seq
  BY <1>1, <1>3
<1>5. s \in Streams /\ m = rd.head[s] /\ m # NoHead /\ m.seq = rd.last + 1
  <2> HIDE DEF s
  <2> QED
    BY <1>1, <1>2, <1>4, Earliest
<1>6. m \in Record /\ n \in Nat /\ m.gen \in Nat /\ rd.last \in Nat
  BY <1>5, WaitingIs DEF InputInv, InputTyped, ReaderState
<1>7. ~(n <= r.last)
  BY <1>1, <1>5, <1>6, SMT
<1>8. taken = took
  BY <1>1 DEF ReaderState
<1>9. \/ rd' = [took EXCEPT !.seen = seen]
      \/ Allowed(r, s) /\ rd' = [took EXCEPT !.event = m, !.stamp = r.state.gen[s], !.on = s]
      \/ rd' = took
  <2>1. \/ rd' = [taken EXCEPT !.seen[s] = m.gen]
        \/ Allowed(r, s) /\ rd' = [taken EXCEPT !.event = m, !.stamp = r.state.gen[s], !.on = s]
        \/ rd' = taken
    BY <1>7 DEF Take
  <2>2. [taken EXCEPT !.seen[s] = m.gen] = [took EXCEPT !.seen = seen]
    BY <1>1, <1>8 DEF ReaderState
  <2> HIDE DEF r, s, m, taken, took, seen
  <2> QED
    BY <1>8, <2>1, <2>2
<1>10. /\ seen \in Generations /\ seen[s] = m.gen
       /\ \A x \in Streams : x # s => seen[x] = r.seen[x]
  BY <1>1, <1>5, <1>6 DEF ReaderState, Generations
<1>11. Allowed(r, s) => r.state.gen[s] = m.gen
  BY <1>1, <1>5, AllowedIsOfItsGeneration
<1>12. without \in [Streams -> Record \cup {NoHead}]
  BY <1>2
<1> HIDE DEF s
<1>13. /\ m = rd.head[s] /\ m # NoHead
  BY <1>5
<1> HIDE DEF r, m, n, without, seen
<1>14. /\ took \in ReaderState /\ took.head = without /\ took.last = n /\ took.pc = "idle"
       /\ took.seen = r.seen /\ took.event = r.event /\ took.stamp = r.stamp /\ took.on = r.on
       /\ took.request = r.request /\ took.trans = r.trans /\ took.local_cancel = r.local_cancel
  <2> HIDE DEF NoHead
  <2> QED
    BY <1>1, <1>6, <1>12 DEF ReaderState, Place
<1> HIDE DEF took, taken
<1>15. n = m.seq /\ without = [rd.head EXCEPT ![s] = NoHead]
  BY DEF n, without
<1>16. CASE rd' = [took EXCEPT !.seen = seen]
  <2>1. /\ rd' \in ReaderState /\ rd'.head = took.head /\ rd'.last = took.last /\ rd'.pc = took.pc
        /\ rd'.seen = seen /\ rd'.event = took.event /\ rd'.stamp = took.stamp /\ rd'.on = took.on
        /\ rd'.request = took.request /\ rd'.trans = took.trans /\ rd'.local_cancel = took.local_cancel
    BY <1>10, <1>14, <1>16 DEF ReaderState
  <2>2. Takes(s, m)
    BY <1>1, <1>5, <1>10, <1>13, <1>14, <1>15, <2>1 DEF Takes, Asks
  <2> QED
    BY <1>5, <2>2, TakesStep DEF Running
<1>17. CASE Allowed(r, s) /\ rd' = [took EXCEPT !.event = m, !.stamp = r.state.gen[s], !.on = s]
  <2> DEFINE g == r.state.gen[s]
  <2>1. g = m.gen /\ g \in Nat
    BY <1>6, <1>11, <1>17
  <2> HIDE DEF g
  <2>2. rd' = [took EXCEPT !.event = m, !.stamp = g, !.on = s]
    BY <1>17 DEF g
  <2>3. /\ rd' \in ReaderState /\ rd'.head = took.head /\ rd'.last = took.last /\ rd'.pc = took.pc
        /\ rd'.seen = took.seen /\ rd'.event = m /\ rd'.stamp = g /\ rd'.on = s
        /\ rd'.request = took.request /\ rd'.trans = took.trans /\ rd'.local_cancel = took.local_cancel
    <3> HIDE DEF NoHead
    <3> QED
      BY <1>5, <1>6, <1>14, <2>1, <2>2 DEF ReaderState
  <2>4. Takes(s, m)
    BY <1>1, <1>5, <1>13, <1>14, <1>15, <2>1, <2>3 DEF Takes, Asks
  <2> QED
    BY <1>5, <2>4, TakesStep DEF Running
<1>18. CASE rd' = took
  <2>1. Takes(s, m)
    BY <1>1, <1>5, <1>13, <1>14, <1>15, <1>18 DEF Takes, Asks
  <2> QED
    BY <1>5, <2>1, TakesStep DEF Running
<1> QED
  BY <1>9, <1>16, <1>17, <1>18

LEMMA NextChooseStep ==
  ASSUME StreamsAreKnown, InputInv, NextChoose
  PROVE  InputInv' /\ InLine
<1> DEFINE r == Refresh(rd)
           next == IF Within(r) = {} THEN [r EXCEPT !.pc = "idle", !.cutoff = 0] ELSE Take(r)
<1>1. rd.pc = "choose" /\ UNCHANGED <<p, pub, ring, cmds, replies>> /\ rd \in ReaderState
  BY DEF NextChoose, InputInv, InputTyped
<1>2. Running
  BY <1>1 DEF Running
<1>3. ASSUME NEW a \in ReaderState, a.head = rd.head, a.last = rd.last, a.event = rd.event,
             a.stamp = rd.stamp, a.on = rd.on, Asks(rd, a), \A s \in Streams : a.seen[s] <= rd.seen[s],
             rd' = [a EXCEPT !.pc = "idle", !.cutoff = 0]
      PROVE  InputInv' /\ InLine
  <2>1. /\ rd' \in ReaderState /\ rd'.head = a.head /\ rd'.last = a.last /\ rd'.pc = "idle"
        /\ rd'.seen = a.seen /\ rd'.event = a.event /\ rd'.stamp = a.stamp /\ rd'.on = a.on
        /\ rd'.request = a.request /\ rd'.trans = a.trans /\ rd'.local_cancel = a.local_cancel
    BY <1>3 DEF ReaderState, Place
  <2>2. Reads(rd, rd') /\ Asks(rd, rd')
    BY <1>1, <1>3, <2>1 DEF Reads, Asks
  <2> QED
    BY <1>1, <2>2, ReaderReads
<1>4. CASE rd' = Unless(r, next)
  <2>1. CASE Reads(rd, rd') /\ Asks(rd, rd')
    BY <1>1, <2>1, ReaderReads
  <2>2. CASE rd' = next /\ Within(r) = {}
    <3>1. rd' = [r EXCEPT !.pc = "idle", !.cutoff = 0]
      BY <2>2
    <3>2. /\ r \in ReaderState /\ r.head = rd.head /\ r.last = rd.last /\ r.event = rd.event
          /\ r.stamp = rd.stamp /\ r.on = rd.on /\ Asks(rd, r) /\ \A s \in Streams : r.seen[s] <= rd.seen[s]
      BY Refreshed
    <3> HIDE DEF r
    <3> QED
      BY <1>3, <3>1, <3>2
  <2>3. CASE rd' = next /\ Within(r) # {}
    BY <1>1, <2>3, TakeStep
  <2> HIDE DEF next
  <2> QED
    BY <1>2, <1>4, <2>1, <2>2, <2>3, UnlessIs
<1>5. CASE rd' = [rd EXCEPT !.pc = "idle", !.cutoff = 0]
  <2>1. Asks(rd, rd) /\ \A s \in Streams : rd.seen[s] <= rd.seen[s]
    BY <1>1 DEF Asks, ReaderState, Generations
  <2> QED
    BY <1>1, <1>3, <1>5, <2>1
<1> QED
  BY <1>4, <1>5 DEF NextChoose

(* ------------------------- requests and their answers ------------------- *)

LEMMA ReaderAsks ==
  ASSUME InputInv, UNCHANGED <<p, pub, ring>>, Reads(rd, rd'),
         cmds' \in Seq(Command), replies' \in Seq(AnswerMessage), OneChange', Told'
  PROVE  InputInv' /\ InLine
<1>1. MergeInv' /\ Mirrored' /\ Stamped' /\ Held'
  BY ReadsStep
<1>2. InputTyped'
  BY DEF InputInv, InputTyped, Reads, Command, AnswerMessage
<1> QED
  BY <1>1, <1>2 DEF InputInv, FreshInv, InLine, Reads

\* While no change is asked for, none is on its way.
LEMMA NoneAsked ==
  ASSUME InputInv, Running, p.phase # "closing", rd.request \in {"none", "accepted"}
  PROVE  NoChange(cmds) /\ NoChange(replies) /\ rd.trans = p.trans
BY DEF InputInv, FreshInv, Told, NoChange, Change

LEMMA SubmitBoundaryStep ==
  ASSUME InputInv, SubmitBoundary
  PROVE  InputInv' /\ InLine
<1> DEFINE r == Refresh(rd)
           g == r.state.gen
           c == [t |-> "ack", gen |-> g, trans |-> rd.trans, on |-> FALSE]
<1>1. /\ rd.pc = "idle" /\ rd' = [r EXCEPT !.ack = g, !.acking = TRUE] /\ cmds' = Append(cmds, c)
      /\ UNCHANGED <<p, pub, ring, replies>>
  BY DEF SubmitBoundary
<1>2. /\ r \in ReaderState /\ r.head = rd.head /\ r.last = rd.last /\ r.pc = rd.pc
      /\ r.event = rd.event /\ r.stamp = rd.stamp /\ r.on = rd.on
      /\ Asks(rd, r) /\ \A s \in Streams : r.seen[s] <= rd.seen[s]
      /\ g \in Generations /\ rd.trans \in Nat
  BY Refreshed DEF Authority, InputInv, InputTyped, ReaderState
<1> HIDE DEF r, g
<1>3. c \in Command /\ ~Change(c)
  BY <1>2 DEF Command, Sent, Change
<1>4. /\ rd' \in ReaderState /\ rd'.head = r.head /\ rd'.last = r.last /\ rd'.pc = r.pc
      /\ rd'.seen = r.seen /\ rd'.event = r.event /\ rd'.stamp = r.stamp /\ rd'.on = r.on
      /\ rd'.request = r.request /\ rd'.trans = r.trans /\ rd'.local_cancel = r.local_cancel
  BY <1>1, <1>2 DEF ReaderState
<1>5. Reads(rd, rd') /\ Asks(rd, rd') /\ Running
  BY <1>1, <1>2, <1>4 DEF Reads, Asks, Running
<1> HIDE DEF c
<1>6. /\ cmds \in Seq(Command) /\ replies \in Seq(AnswerMessage)
      /\ cmds' \in Seq(Command) /\ Elements(cmds') = Elements(cmds) \cup {c}
  BY <1>1, <1>3, Queues, InputAppended DEF InputInv
<1>7. OneChange'
  <2>1. Single(cmds')
    BY <1>1, <1>3, <1>6, SingleAppend DEF InputInv, FreshInv, OneChange
  <2> QED
    BY <1>1, <1>3, <1>6, <2>1 DEF InputInv, FreshInv, OneChange, NoChange, Single
<1>8. Told'
  BY <1>1, <1>3, <1>5, <1>6 DEF InputInv, FreshInv, Told, Asks
<1> QED
  BY <1>1, <1>5, <1>6, <1>7, <1>8, ReaderAsks

LEMMA RequestChangeStep ==
  ASSUME StreamsAreKnown, InputInv, NEW t \in {"context", "target"}, NEW on \in BOOLEAN,
         NEW streams \in SUBSET Streams, RequestChange(t, on, streams),
         \/ t = "context" /\ streams = Streams
         \/ t = "target" /\ streams = {"text"}
  PROVE  InputInv' /\ InLine
<1> DEFINE r == Refresh(rd)
           cancelled == r.local_cancel \cup streams
           cancel == [s \in Streams |-> IF s \in streams THEN r.state.gen[s] ELSE r.cancel[s]]
           gone == r.cancellation \cup streams
           k == r.asked + 1
           c == [t |-> t, gen |-> Vector(0), trans |-> rd.trans, on |-> on]
<1>1. /\ rd.pc = "idle" /\ rd.request = "none" /\ r.state.phase # "closing"
      /\ rd' = [r EXCEPT !.local_cancel = cancelled, !.cancellation = gone, !.cancel = cancel,
                         !.request = t, !.changing = streams, !.asked = k]
      /\ cmds' = Append(cmds, c) /\ UNCHANGED <<p, pub, ring, replies>>
  BY DEF RequestChange
<1>2. /\ r \in ReaderState /\ r.head = rd.head /\ r.last = rd.last /\ r.pc = rd.pc
      /\ r.event = rd.event /\ r.stamp = rd.stamp /\ r.on = rd.on
      /\ Asks(rd, r) /\ \A s \in Streams : r.seen[s] <= rd.seen[s]
      /\ r.state = pub /\ pub \in Authority /\ rd.trans \in Nat
  BY Refreshed DEF InputInv, InputTyped, ReaderState
<1>3. p.phase # "closing" /\ Running
  BY <1>1, <1>2 DEF InputInv, FreshInv, Mirrored, Running
<1>4. NoChange(cmds) /\ NoChange(replies) /\ rd.trans = p.trans
  BY <1>1, <1>3, NoneAsked
<1> HIDE DEF r
<1>5. /\ cancelled \in SUBSET Streams /\ gone \in SUBSET Streams /\ k \in Nat
      /\ \A s \in Streams : r.state.gen[s] \in Nat /\ r.cancel[s] \in Nat
  BY <1>2, SMT DEF ReaderState, Authority, Generations
<1>6. cancel \in Generations
  BY <1>5 DEF Generations
<1>7. t = "context" => Streams \subseteq cancelled
  OBVIOUS
<1>8. c \in Command /\ c.t = t /\ Change(c)
  BY <1>2 DEF Command, Sent, Change, Vector, Generations
<1> HIDE DEF cancelled, gone, cancel, k, c
<1>9. /\ rd' \in ReaderState /\ rd'.head = r.head /\ rd'.last = r.last /\ rd'.pc = r.pc
      /\ rd'.seen = r.seen /\ rd'.event = r.event /\ rd'.stamp = r.stamp /\ rd'.on = r.on
      /\ rd'.request = t /\ rd'.trans = r.trans /\ rd'.local_cancel = cancelled
  BY <1>1, <1>2, <1>5, <1>6 DEF ReaderState
<1>10. Reads(rd, rd')
  BY <1>1, <1>2, <1>9 DEF Reads
<1>11. /\ cmds \in Seq(Command) /\ replies \in Seq(AnswerMessage)
       /\ cmds' \in Seq(Command) /\ Elements(cmds') = Elements(cmds) \cup {c}
  BY <1>1, <1>8, Queues, InputAppended DEF InputInv
<1>12. OneChange'
  <2>1. Single(cmds')
    BY <1>1, <1>4, <1>8, <1>11, SingleAppend DEF InputInv, FreshInv, OneChange
  <2> QED
    BY <1>1, <1>4, <2>1 DEF InputInv, FreshInv, OneChange, NoChange, Single
<1>13. Told'
  BY <1>1, <1>2, <1>4, <1>7, <1>8, <1>9, <1>11 DEF Told, NoChange, Asks
<1> QED
  BY <1>1, <1>10, <1>11, <1>12, <1>13, ReaderAsks

LEMMA HearStep ==
  ASSUME InputInv, Hear
  PROVE  InputInv' /\ InLine
<1> DEFINE m == Head(replies)
<1>1. /\ rd.pc = "idle" /\ replies # << >> /\ replies' = Tail(replies)
      /\ UNCHANGED <<p, pub, ring, cmds>>
  BY DEF Hear
<1>2. /\ cmds \in Seq(Command) /\ replies \in Seq(AnswerMessage) /\ m \in AnswerMessage
      /\ replies' \in Seq(AnswerMessage) /\ Elements(replies) = {m} \cup Elements(replies')
  BY <1>1, RecordTaken, Queues DEF InputInv
<1>3. rd \in ReaderState /\ Running /\ \A s \in Streams : rd.seen[s] \in Nat /\ rd.seen[s] <= rd.seen[s]
  <2>1. rd \in ReaderState /\ Running
    BY <1>1 DEF InputInv, InputTyped, Running
  <2>2. \A s \in Streams : rd.seen[s] \in Nat
    BY <2>1 DEF ReaderState, Generations
  <2>3. \A s \in Streams : rd.seen[s] <= rd.seen[s]
    BY <2>2, SMT
  <2> QED
    BY <2>1, <2>2, <2>3
<1>4. /\ Single(replies') /\ (Change(m) => NoChange(replies') /\ NoChange(cmds))
  BY <1>1, <1>2, SingleTail DEF InputInv, FreshInv, OneChange, NoChange
<1>5. OneChange'
  <2>1. Single(cmds) /\ (NoChange(cmds) \/ NoChange(replies'))
    BY <1>2 DEF InputInv, FreshInv, OneChange, NoChange
  <2>2. cmds' = cmds
    BY <1>1
  <2>3. Single(cmds)' /\ (NoChange(cmds)' \/ NoChange(replies)') /\ Single(replies)'
    BY <1>4, <2>1, <2>2 DEF Single, NoChange
  <2> QED
    BY <2>3 DEF OneChange
<1> DEFINE again == [s \in Streams |-> IF m.gen = rd.ack /\ s \in rd.state.pending THEN 0 ELSE rd.ack[s]]
           retry == [rd EXCEPT !.ack = [s \in Streams |-> IF m.gen = rd.ack /\ s \in rd.state.pending
                                                           THEN 0 ELSE @[s]]]
<1> HIDE DEF m
<1>6. CASE rd' = Ended(rd)
  <2>1. Reads(rd, rd') /\ ~Running'
    BY <1>3, <1>6, EndedIs DEF Reads, Running
  <2> QED
    BY <1>1, <1>2, <1>5, <2>1, ReaderAsks DEF Told
<1>7. CASE rd' = rd
  <2>1. Reads(rd, rd') /\ Asks(rd, rd')
    BY <1>1, <1>3, <1>7 DEF Reads, Asks
  <2>2. Told'
    BY <1>1, <1>2, <1>3, <1>7 DEF Told, InputInv, FreshInv
  <2> QED
    BY <1>1, <1>2, <1>5, <2>1, <2>2, ReaderAsks
<1>8. ASSUME NEW ack \in Generations, rd' = [rd EXCEPT !.ack = ack, !.acking = FALSE]
      PROVE  InputInv' /\ InLine
  <2>1. /\ rd' \in ReaderState /\ rd'.head = rd.head /\ rd'.last = rd.last /\ rd'.pc = rd.pc
        /\ rd'.seen = rd.seen /\ rd'.event = rd.event /\ rd'.stamp = rd.stamp /\ rd'.on = rd.on
        /\ rd'.request = rd.request /\ rd'.trans = rd.trans /\ rd'.local_cancel = rd.local_cancel
    BY <1>3, <1>8 DEF ReaderState
  <2>2. Reads(rd, rd')
    BY <1>1, <1>3, <2>1 DEF Reads
  <2>3. Told'
    BY <1>1, <1>2, <1>3, <2>1 DEF Told, InputInv, FreshInv
  <2> QED
    BY <1>1, <1>2, <1>5, <2>2, <2>3, ReaderAsks
<1>9. CASE m.t \in {"context", "target"} /\ m.status # "success"
           /\ rd' = [rd EXCEPT !.request = "none", !.changing = {}]
  <2>1. /\ rd' \in ReaderState /\ rd'.head = rd.head /\ rd'.last = rd.last /\ rd'.pc = rd.pc
        /\ rd'.seen = rd.seen /\ rd'.event = rd.event /\ rd'.stamp = rd.stamp /\ rd'.on = rd.on
        /\ rd'.request = "none" /\ rd'.trans = rd.trans /\ rd'.local_cancel = rd.local_cancel
    BY <1>3, <1>9 DEF ReaderState
  <2>2. Reads(rd, rd')
    BY <1>1, <1>3, <2>1 DEF Reads
  <2>3. Change(m) /\ NoChange(replies') /\ NoChange(cmds)
    BY <1>4, <1>9 DEF Change
  <2>4. p.phase # "closing" => rd.trans = p.trans
    BY <1>2, <1>3, <1>9, <2>3 DEF InputInv, FreshInv, Told
  <2>5. Told'
    BY <1>1, <2>1, <2>3, <2>4 DEF Told, NoChange
  <2> QED
    BY <1>1, <1>2, <1>5, <2>2, <2>5, ReaderAsks
<1>10. CASE m.t \in {"context", "target"} /\ m.status = "success"
            /\ rd' = [rd EXCEPT !.request = "accepted", !.trans = m.trans]
  <2>1. m.trans \in Nat
    BY <1>2 DEF AnswerMessage
  <2>2. /\ rd' \in ReaderState /\ rd'.head = rd.head /\ rd'.last = rd.last /\ rd'.pc = rd.pc
        /\ rd'.seen = rd.seen /\ rd'.event = rd.event /\ rd'.stamp = rd.stamp /\ rd'.on = rd.on
        /\ rd'.request = "accepted" /\ rd'.trans = m.trans /\ rd'.local_cancel = rd.local_cancel
    BY <1>3, <1>10, <2>1 DEF ReaderState
  <2>3. Reads(rd, rd')
    BY <1>1, <1>3, <2>2 DEF Reads
  <2>4. Change(m) /\ NoChange(replies') /\ NoChange(cmds)
    BY <1>4, <1>10 DEF Change
  <2>5. p.phase # "closing" => m.trans = p.trans
    BY <1>2, <1>3, <1>10, <2>4 DEF InputInv, FreshInv, Told
  <2>6. Told'
    BY <1>1, <2>2, <2>4, <2>5 DEF Told, NoChange
  <2> QED
    BY <1>1, <1>2, <1>5, <2>3, <2>6, ReaderAsks
<1>11. CASE m.t = "ack" /\ rd' = [rd EXCEPT !.acking = FALSE]
  <2>1. rd' = [rd EXCEPT !.ack = rd.ack, !.acking = FALSE] /\ rd.ack \in Generations
    BY <1>3, <1>11 DEF ReaderState
  <2> QED
    BY <1>8, <2>1
<1>12. CASE m.t = "ack" /\ rd' = [[rd EXCEPT !.ack = again] EXCEPT !.acking = FALSE]
  <2>1. again \in Generations
    BY <1>3 DEF ReaderState, Generations
  <2> HIDE DEF again
  <2>2. rd' = [rd EXCEPT !.ack = again, !.acking = FALSE]
    BY <1>3, <1>12 DEF ReaderState
  <2> QED
    BY <1>8, <2>1, <2>2
<1>13. retry = [rd EXCEPT !.ack = again]
  BY <1>3 DEF ReaderState
<1> HIDE DEF again
<1>14. \/ rd' = Ended(rd) \/ rd' = rd
       \/ m.t = "ack" /\ rd' = [(IF m.status = "busy" THEN retry ELSE rd) EXCEPT !.acking = FALSE]
       \/ m.t \in {"context", "target"} /\ m.status # "success"
          /\ rd' = [rd EXCEPT !.request = "none", !.changing = {}]
       \/ m.t \in {"context", "target"} /\ m.status = "success"
          /\ rd' = [rd EXCEPT !.request = "accepted", !.trans = m.trans]
  BY DEF Hear, m
<1> HIDE DEF retry
<1>15. m.t = "ack" /\ rd' = [(IF m.status = "busy" THEN retry ELSE rd) EXCEPT !.acking = FALSE] => InputInv' /\ InLine
  BY <1>11, <1>12, <1>13
<1> QED
  BY <1>6, <1>7, <1>9, <1>10, <1>14, <1>15

LEMMA ResumeStep ==
  ASSUME InputInv, Resume
  PROVE  InputInv' /\ InLine
<1> DEFINE r == Refresh(rd)
           cancelled == r.local_cancel \ r.changing
<1>1. /\ rd.pc = "idle" /\ rd.request = "accepted" /\ r.state.phase = "active"
      /\ rd' = [r EXCEPT !.local_cancel = cancelled, !.request = "none", !.changing = {}]
      /\ UNCHANGED <<p, pub, ring, cmds, replies>>
  BY DEF Resume
<1>2. /\ r \in ReaderState /\ r.head = rd.head /\ r.last = rd.last /\ r.pc = rd.pc
      /\ r.event = rd.event /\ r.stamp = rd.stamp /\ r.on = rd.on
      /\ Asks(rd, r) /\ \A s \in Streams : r.seen[s] <= rd.seen[s] /\ r.state = pub
  BY Refreshed
<1>3. p.phase # "closing" /\ Running
  BY <1>1, Refreshed DEF InputInv, FreshInv, Mirrored, Running
<1>4. NoChange(cmds) /\ NoChange(replies) /\ rd.trans = p.trans
  BY <1>1, <1>3, NoneAsked
<1> HIDE DEF r
<1>5. cancelled \in SUBSET Streams
  BY <1>2 DEF ReaderState
<1> HIDE DEF cancelled
<1>6. /\ rd' \in ReaderState /\ rd'.head = r.head /\ rd'.last = r.last /\ rd'.pc = r.pc
      /\ rd'.seen = r.seen /\ rd'.event = r.event /\ rd'.stamp = r.stamp /\ rd'.on = r.on
      /\ rd'.request = "none" /\ rd'.trans = r.trans
  BY <1>1, <1>2, <1>5 DEF ReaderState
<1>7. Reads(rd, rd')
  BY <1>1, <1>2, <1>6 DEF Reads
<1>8. OneChange'
  BY <1>1 DEF InputInv, FreshInv, OneChange, NoChange, Single
<1>9. Told'
  BY <1>1, <1>2, <1>4, <1>6 DEF Told, NoChange, Asks
<1> QED
  BY <1>1, <1>7, <1>8, <1>9, ReaderAsks, Queues DEF InputInv

(* ------------------------------- the limits ----------------------------- *)

LimitsAreNatural == RingCapacity \in Nat /\ GenerationLimit \in Nat \ {0} /\ SequenceLimit \in Nat

WithinLimits(q) ==
    /\ q.committed <= SequenceLimit
    /\ \A s \in Streams : 1 <= q.gen[s] /\ q.gen[s] <= GenerationLimit

RingsFit == \A s \in Streams : Len(ring[s]) <= RingCapacity

LEMMA CloseWithin ==
  ASSUME NEW a \in ProviderState, WithinLimits(a), NEW failed \in BOOLEAN
  PROVE  WithinLimits(Close(a, failed))
<1> DEFINE b == [a EXCEPT !.phase = "closing", !.pending = {}, !.enabled = FALSE, !.failure = failed]
<1>1. b.gen = a.gen /\ b.committed = a.committed
  BY DEF ProviderState
<1>2. Close(a, failed) = a \/ Close(a, failed) = b
  BY DEF Close
<1> HIDE DEF b
<1> QED
  BY <1>1, <1>2 DEF WithinLimits

\* boundary() closes the connection rather than let a generation wrap.
LEMMA BoundaryWithin ==
  ASSUME LimitsAreNatural, NEW a \in ProviderState, WithinLimits(a), NEW mask \in SUBSET Streams
  PROVE  WithinLimits(Boundary(a, mask))
<1>1. CASE \E s \in mask : a.gen[s] = GenerationLimit
  BY <1>1, CloseWithin DEF Boundary
<1>2. CASE ~ \E s \in mask : a.gen[s] = GenerationLimit
  <2> DEFINE g == [s \in Streams |-> IF s \in mask THEN a.gen[s] + 1 ELSE a.gen[s]]
             h == IF "actions" \in mask THEN 0 ELSE a.gate
             b == [a EXCEPT !.gen = g, !.gate = h, !.pending = a.pending \cup mask,
                            !.markers = a.markers \ mask]
  <2>1. Boundary(a, mask) = b
    BY <1>2 DEF Boundary
  <2>2. \A s \in Streams : a.gen[s] \in Nat
    BY DEF ProviderState, Generations
  <2>3. \A s \in Streams : 1 <= a.gen[s] /\ a.gen[s] <= GenerationLimit
                           /\ (s \in mask => a.gen[s] # GenerationLimit)
    BY <1>2 DEF WithinLimits
  <2>4. \A s \in Streams : 1 <= g[s] /\ g[s] <= GenerationLimit
    BY <2>2, <2>3, SMT DEF LimitsAreNatural
  <2> HIDE DEF g, h
  <2>5. b.gen = g /\ b.committed = a.committed
    BY DEF ProviderState
  <2> HIDE DEF b
  <2> QED
    BY <2>1, <2>4, <2>5 DEF WithinLimits
<1> QED
  BY <1>1, <1>2

LEMMA SettledWithin ==
  ASSUME NEW q \in ProviderState, WithinLimits(q), Settle(q)
  PROVE  WithinLimits(p)'
<1>1. p' \in Published(q)
  BY DEF Settle
<1>2. p'.gen = q.gen /\ p'.committed = q.committed
  BY <1>1, PublishedKeeps
<1> QED
  BY <1>2 DEF WithinLimits

LEMMA PostedWithin ==
  ASSUME LimitsAreNatural, InputTyped, WithinLimits(p), RingsFit, NEW s \in Streams, Room(s),
         NEW kind, NEW then,
         NEW q \in ProviderState, q.committed = p.committed, q.gen = p.gen, PostRecord(s, kind, q, then)
  PROVE  WithinLimits(p)' /\ RingsFit'
<1>1. p \in ProviderState /\ ring \in [Streams -> Seq(Record)] /\ p.committed \in Nat
  BY DEF InputTyped, ProviderState
<1>2. CASE p.committed = SequenceLimit
  <2> DEFINE c == Close(p, TRUE)
  <2>1. c \in ProviderState /\ WithinLimits(c)
    BY <1>1, CloseKeeps, CloseWithin
  <2>2. p' = [c EXCEPT !.pc = "idle"] /\ UNCHANGED ring
    BY <1>2 DEF PostRecord
  <2> HIDE DEF c
  <2>3. p'.gen = c.gen /\ p'.committed = c.committed
    BY <2>1, <2>2 DEF ProviderState
  <2> QED
    BY <2>1, <2>2, <2>3 DEF WithinLimits, RingsFit
<1>3. CASE p.committed # SequenceLimit
  <2> DEFINE m == [kind |-> kind, seq |-> p.committed + 1, gen |-> p.gen[s], trans |-> p.trans]
             k == q.committed + 1
  <2>1. ring' = [ring EXCEPT ![s] = Append(ring[s], m)]
        /\ p' = [q EXCEPT !.committed = k, !.pc = "publish", !.then = then]
    BY <1>1, <1>3 DEF PostRecord, ProviderState
  <2> HIDE DEF m
  <2>2. p.committed <= SequenceLimit /\ k <= SequenceLimit
    BY <1>1, <1>3, SMT DEF LimitsAreNatural, WithinLimits
  <2> HIDE DEF k
  <2>3. p'.committed = k /\ p'.gen = p.gen
    BY <2>1 DEF ProviderState
  <2>4. WithinLimits(p)'
    BY <2>2, <2>3 DEF WithinLimits
  <2>5. ASSUME NEW x \in Streams PROVE Len(ring'[x]) <= RingCapacity
    <3>1. CASE x = s
      <4>1. ring'[s] = Append(ring[s], m) /\ ring[s] \in Seq(Record)
        BY <1>1, <2>1
      <4>2. Len(Append(ring[s], m)) = Len(ring[s]) + 1 /\ Len(ring[s]) \in Nat
        BY <4>1, SMT
      <4>3. Len(ring[s]) + 1 <= RingCapacity
        BY <4>2, SMT DEF Room, LimitsAreNatural
      <4> QED
        BY <3>1, <4>1, <4>2, <4>3
    <3>2. CASE x # s
      BY <1>1, <2>1, <3>2 DEF RingsFit
    <3> QED
      BY <3>1, <3>2
  <2> QED
    BY <2>4, <2>5 DEF RingsFit
<1> QED
  BY <1>2, <1>3

\* No step posts to a full ring or takes a number past its limit.
LEMMA LimitsStep ==
  ASSUME StreamsAreKnown, LimitsAreNatural, InputTyped, WithinLimits(p), RingsFit, InputNext
  PROVE  WithinLimits(p)' /\ RingsFit'
<1>1. /\ p \in ProviderState /\ ring \in [Streams -> Seq(Record)] /\ "actions" \in Streams
      /\ \A s \in Streams : ring[s] \in Seq(Record)
  BY DEF InputTyped, StreamsAreKnown
<1>2. ASSUME p'.gen = p.gen, p'.committed = p.committed, UNCHANGED ring
      PROVE  WithinLimits(p)' /\ RingsFit'
  BY <1>2 DEF WithinLimits, RingsFit
<1>3. ASSUME NEW q \in ProviderState, WithinLimits(q), Settle(q), UNCHANGED ring
      PROVE  WithinLimits(p)' /\ RingsFit'
  BY <1>3, SettledWithin DEF RingsFit
<1>4. ASSUME NEW s \in Streams, NEW then, ReadHead(s, then) PROVE WithinLimits(p)' /\ RingsFit'
  <2>1. UNCHANGED p
    BY <1>4 DEF ReadHead
  <2>2. CASE ring' = ring
    BY <1>2, <2>1, <2>2
  <2>3. CASE ring[s] # << >> /\ ring' = [ring EXCEPT ![s] = Tail(ring[s])]
    <3>1. Len(Tail(ring[s])) \in Nat /\ Len(ring[s]) \in Nat /\ Len(Tail(ring[s])) <= Len(ring[s])
      BY <1>1, <2>3, SMT
    <3>2. Len(ring[s]) <= RingCapacity
      BY DEF RingsFit
    <3>3. Len(Tail(ring[s])) <= RingCapacity
      BY <3>1, <3>2, SMT DEF LimitsAreNatural
    <3> QED
      BY <1>1, <2>1, <2>3, <3>3 DEF RingsFit, WithinLimits
  <2> QED
    BY <1>4, <2>2, <2>3 DEF ReadHead
<1>5. CASE Reader
  <2>1. CASE ReadHeads
    BY <1>1, <1>4, <2>1 DEF ReadHeads
  <2>2. CASE UNCHANGED <<p, ring>>
    BY <1>2, <2>2
  <2> QED
    BY <1>5, <2>1, <2>2 DEF Reader, NextBegin, NextChoose, TakeCancellation, Apply, SubmitBoundary, Hear, Resume
<1>6. CASE Publish
  <2> DEFINE a == [p EXCEPT !.pc = p.then, !.then = "idle"]
  <2>1. a \in ProviderState /\ a.gen = p.gen /\ a.committed = p.committed
    BY <1>1 DEF ProviderState
  <2> HIDE DEF a
  <2>2. PICK q \in Published(a) : p' = IF q.phase = "closing" THEN [q EXCEPT !.pc = "idle"] ELSE q
    BY <1>6 DEF Publish, a
  <2>3. q \in ProviderState /\ q.gen = a.gen /\ q.committed = a.committed
    BY <2>1, PublishedKeeps
  <2>4. p'.gen = q.gen /\ p'.committed = q.committed
    BY <2>2, <2>3 DEF ProviderState
  <2> QED
    BY <1>2, <1>6, <2>1, <2>3, <2>4 DEF Publish
<1>7. CASE Progress
  <2>1. CASE MarkerDue("actions") /\ PostRecord("actions", "marker", [p EXCEPT !.markers = @ \cup {"actions"}], "text")
    <3> DEFINE q == [p EXCEPT !.markers = p.markers \cup {"actions"}]
    <3>1. q \in ProviderState /\ q.committed = p.committed /\ q.gen = p.gen
      BY <1>1 DEF ProviderState
    <3>2. PostRecord("actions", "marker", q, "text") /\ Room("actions")
      BY <2>1 DEF MarkerDue
    <3> HIDE DEF q
    <3> QED
      BY <1>1, <3>1, <3>2, PostedWithin
  <2>2. CASE "text" \in Streams /\ MarkerDue("text")
             /\ PostRecord("text", "marker", [p EXCEPT !.markers = @ \cup {"text"}, !.pc = "idle"], "idle")
    <3> DEFINE q == [p EXCEPT !.markers = p.markers \cup {"text"}, !.pc = "idle"]
    <3>1. q \in ProviderState /\ q.committed = p.committed /\ q.gen = p.gen
      BY <1>1, <2>2 DEF ProviderState
    <3>2. PostRecord("text", "marker", q, "idle") /\ Room("text")
      BY <2>2 DEF MarkerDue
    <3> HIDE DEF q
    <3> QED
      BY <2>2, <3>1, <3>2, PostedWithin
  <2>3. CASE p' = [p EXCEPT !.pc = "idle"] /\ UNCHANGED ring
    <3>1. p'.gen = p.gen /\ p'.committed = p.committed
      BY <1>1, <2>3 DEF ProviderState
    <3> QED
      BY <1>2, <2>3, <3>1
  <2> QED
    BY <1>7, <2>1, <2>2, <2>3 DEF Progress
<1>8. ASSUME NEW neutral \in BOOLEAN, ObserveSubject(neutral) PROVE WithinLimits(p)' /\ RingsFit'
  <2>1. p'.gen = p.gen /\ p'.committed = p.committed
    BY <1>1, <1>8 DEF ObserveSubject, ProviderState
  <2> QED
    BY <1>2, <1>8, <2>1 DEF ObserveSubject
<1>9. ASSUME NEW s \in Streams, PostInput(s) PROVE WithinLimits(p)' /\ RingsFit'
  <2>1. CASE UNCHANGED ring /\ Settle(IF s = "actions" THEN [p EXCEPT !.gate = 0] ELSE p)
    <3> DEFINE q == IF s = "actions" THEN [p EXCEPT !.gate = 0] ELSE p
    <3>1. q \in ProviderState /\ q.committed = p.committed /\ q.gen = p.gen
      BY <1>1 DEF ProviderState
    <3>2. Settle(q)
      BY <2>1
    <3> HIDE DEF q
    <3> QED
      BY <1>3, <2>1, <3>1, <3>2 DEF WithinLimits
  <2>2. CASE UNCHANGED ring /\ Settle(Boundary(p, {s}))
    <3>1. Boundary(p, {s}) \in ProviderState /\ WithinLimits(Boundary(p, {s}))
      BY <1>1, BoundaryKeeps, BoundaryWithin
    <3> QED
      BY <1>3, <2>2, <3>1
  <2>3. CASE Room(s) /\ PostRecord(s, "data", p, "idle")
    BY <1>1, <2>3, PostedWithin
  <2> QED
    BY <1>9, <2>1, <2>2, <2>3 DEF PostInput
<1>10. CASE InputCommand
  <2> DEFINE m == Head(cmds)
  <2>1. m \in Command /\ UNCHANGED ring
    BY <1>10, RecordTaken, Queues DEF InputCommand
  <2>2. CASE UNCHANGED p
    BY <1>2, <2>1, <2>2
  <2>3. CASE Settle([p EXCEPT !.ready = TRUE])
    <3> DEFINE q == [p EXCEPT !.ready = TRUE]
    <3>1. q \in ProviderState /\ q.committed = p.committed /\ q.gen = p.gen
      BY <1>1 DEF ProviderState
    <3> HIDE DEF q
    <3> QED
      BY <1>3, <2>1, <2>3, <3>1 DEF WithinLimits, q
  <2>4. CASE BoundaryReady(m) /\ ~UNCHANGED p
    <3> DEFINE g == IF "actions" \in p.pending /\ p.neutral THEN p.gen["actions"] ELSE p.gate
               q == IF p.pending = {} THEN p
                    ELSE [p EXCEPT !.gate = g, !.context_pending = FALSE, !.target_pending = FALSE,
                                   !.pending = {}, !.phase = "active"]
    <3>1. Settle(q)
      BY <2>4 DEF BoundaryReady
    <3>2. g \in Nat
      BY <1>1 DEF ProviderState, Generations
    <3> HIDE DEF g
    <3>3. q \in ProviderState /\ q.committed = p.committed /\ q.gen = p.gen
      BY <1>1, <3>2 DEF ProviderState, Phase
    <3> HIDE DEF q
    <3> QED
      BY <1>3, <2>1, <3>1, <3>3 DEF WithinLimits
  <2>5. CASE SelectContext(m) /\ ~UNCHANGED p
    <3> DEFINE n == p.trans + 1
               q == [p EXCEPT !.context_pending = TRUE, !.trans = n, !.enabled = FALSE]
    <3>1. Settle(Boundary(q, Streams))
      BY <2>5 DEF SelectContext
    <3>2. n \in Nat
      BY <1>1, SMT DEF ProviderState
    <3> HIDE DEF n
    <3>3. q \in ProviderState /\ q.committed = p.committed /\ q.gen = p.gen
      BY <1>1, <3>2 DEF ProviderState
    <3> HIDE DEF q
    <3>4. WithinLimits(q)
      BY <3>3 DEF WithinLimits
    <3>5. Boundary(q, Streams) \in ProviderState /\ WithinLimits(Boundary(q, Streams))
      BY <3>3, <3>4, BoundaryKeeps, BoundaryWithin
    <3> QED
      BY <1>3, <2>1, <3>1, <3>5
  <2>6. CASE m.t = "target" /\ TextTarget(m) /\ ~UNCHANGED p
    <3> DEFINE q == [p EXCEPT !.target_pending = TRUE, !.enabled = m.on]
    <3>1. Settle(Boundary(q, {"text"}))
      BY <2>6 DEF TextTarget
    <3>2. q \in ProviderState /\ q.committed = p.committed /\ q.gen = p.gen
      BY <1>1, <2>1 DEF ProviderState, Command
    <3> HIDE DEF q
    <3>3. WithinLimits(q) /\ {"text"} \in SUBSET Streams
      BY <2>1, <2>6, <3>2 DEF WithinLimits, Command, Sent
    <3>4. Boundary(q, {"text"}) \in ProviderState /\ WithinLimits(Boundary(q, {"text"}))
      BY <3>2, <3>3, BoundaryKeeps, BoundaryWithin
    <3> QED
      BY <1>3, <2>1, <3>1, <3>4
  <2> QED
    BY <1>10, <2>2, <2>3, <2>4, <2>5, <2>6 DEF InputCommand, InputReady
<1>11. CASE CloseInput
  <2>1. Close(p, FALSE) \in ProviderState /\ WithinLimits(Close(p, FALSE))
    BY <1>1, CloseKeeps, CloseWithin
  <2> QED
    BY <1>3, <1>11, <2>1 DEF CloseInput
<1>12. ASSUME NEW t, NEW on, NEW streams, RequestChange(t, on, streams)
       PROVE  WithinLimits(p)' /\ RingsFit'
  BY <1>2, <1>12 DEF RequestChange
<1> QED
  BY <1>5, <1>6, <1>7, <1>8, <1>9, <1>10, <1>11, <1>12 DEF InputNext, Provider

(* ------------------------------ the boundary ---------------------------- *)

\* The marker of the present generation of s is still on its way.
Marked(s) == \E m \in Waiting(s) : m.kind = "marker" /\ m.gen = p.gen[s]

Noted(s) == rd.seen[s] = p.gen[s] /\ rd.state.gen[s] = p.gen[s]

MarkersArrive ==
    Running /\ p.phase # "closing" => \A s \in p.markers : Marked(s) \/ Noted(s)

\* An acknowledgement that is on its way, or comes back to be sent again.
AckUnderWay ==
    \/ \E m \in Elements(cmds) : m.t = "ack" /\ m.gen = p.gen
    \/ \E m \in Elements(replies) : m.t = "ack" /\ m.gen = p.gen /\ m.status = "busy"

AckAnswered ==
    Running /\ p.phase # "closing" /\ p.pending # {} /\ rd.ack = p.gen =>
        rd.state.pending # {} /\ AckUnderWay

FailureCloses == (p.failure => p.phase = "closing") /\ (pub.failure => pub.phase = "closing")

BoundaryInv ==
    /\ pub.pending = p.pending /\ FailureCloses
    /\ \A s \in Streams : 1 <= p.gen[s] /\ rd.ack[s] <= p.gen[s]
    /\ MarkersArrive /\ AckAnswered

\* What a step of the provider does to a boundary: one begins with another
\* generation, and ends for all streams at once.
Turns(a, b) ==
    /\ (a.failure => a.phase = "closing") => (b.failure => b.phase = "closing")
    /\ a.phase = "closing" => b.phase = "closing"
    /\ \A s \in Streams : a.gen[s] <= b.gen[s]
    /\ b.phase # "closing" =>
           /\ b.pending # {} => (a.pending # {} /\ b.gen = a.gen) \/ \E s \in Streams : a.gen[s] < b.gen[s]
           /\ \A s \in b.markers : s \in a.markers /\ b.gen[s] = a.gen[s]

LEMMA SameTurns ==
  ASSUME NEW a \in ProviderState, NEW b \in ProviderState, b.gen = a.gen, b.markers = a.markers,
         b.pending = a.pending \/ b.pending = {}, b.failure = a.failure,
         b.phase = a.phase \/ (a.phase # "closing" /\ ~b.failure)
  PROVE  Turns(a, b)
<1>1. \A s \in Streams : a.gen[s] \in Nat /\ a.gen[s] <= a.gen[s]
  BY DEF ProviderState, Generations
<1> QED
  BY <1>1 DEF Turns

LEMMA TurnsTwice ==
  ASSUME NEW a \in ProviderState, NEW b \in ProviderState, NEW c \in ProviderState, Turns(a, b), Turns(b, c)
  PROVE  Turns(a, c)
<1>1. \A s \in Streams : a.gen[s] \in Nat /\ b.gen[s] \in Nat /\ c.gen[s] \in Nat
  BY DEF ProviderState, Generations
<1>2. \A s \in Streams : a.gen[s] <= b.gen[s] /\ b.gen[s] <= c.gen[s]
  BY DEF Turns
<1>3. \A s \in Streams : /\ a.gen[s] <= c.gen[s]
                         /\ a.gen[s] < b.gen[s] \/ b.gen[s] < c.gen[s] => a.gen[s] < c.gen[s]
  BY <1>1, <1>2, SMT
<1>4. /\ (a.failure => a.phase = "closing") => (c.failure => c.phase = "closing")
      /\ a.phase = "closing" => c.phase = "closing"
  BY DEF Turns
<1>5. ASSUME c.phase # "closing"
      PROVE  /\ c.pending # {} => (a.pending # {} /\ c.gen = a.gen) \/ \E s \in Streams : a.gen[s] < c.gen[s]
             /\ \A s \in c.markers : s \in a.markers /\ c.gen[s] = a.gen[s]
  <2>1. b.phase # "closing"
    BY <1>5 DEF Turns
  <2> QED
    BY <1>3, <1>5, <2>1 DEF Turns
<1> QED
  BY <1>3, <1>4, <1>5 DEF Turns

LEMMA CloseTurns ==
  ASSUME NEW a \in ProviderState, NEW failed \in BOOLEAN
  PROVE  Turns(a, Close(a, failed))
<1>1. \A s \in Streams : a.gen[s] \in Nat /\ a.gen[s] <= a.gen[s]
  BY DEF ProviderState, Generations
<1>2. Close(a, failed).phase = "closing" /\ Close(a, failed).gen = a.gen
  BY DEF Close, ProviderState
<1> QED
  BY <1>1, <1>2 DEF Turns

LEMMA BoundaryTurns ==
  ASSUME NEW a \in ProviderState, NEW mask \in SUBSET Streams, mask # {}
  PROVE  Turns(a, Boundary(a, mask))
<1>1. CASE \E s \in mask : a.gen[s] = GenerationLimit
  BY <1>1, CloseTurns DEF Boundary
<1>2. CASE ~ \E s \in mask : a.gen[s] = GenerationLimit
  <2> DEFINE g == [s \in Streams |-> IF s \in mask THEN a.gen[s] + 1 ELSE a.gen[s]]
             h == IF "actions" \in mask THEN 0 ELSE a.gate
             b == [a EXCEPT !.gen = g, !.gate = h, !.pending = a.pending \cup mask,
                            !.markers = a.markers \ mask]
  <2>1. Boundary(a, mask) = b
    BY <1>2 DEF Boundary
  <2>2. \A s \in Streams : a.gen[s] \in Nat
    BY DEF ProviderState, Generations
  <2>3. \A s \in Streams : a.gen[s] <= g[s] /\ (s \in mask => a.gen[s] < g[s])
                           /\ (s \notin mask => g[s] = a.gen[s])
    BY <2>2, SMT
  <2> HIDE DEF g, h
  <2>4. b.gen = g /\ b.phase = a.phase /\ b.failure = a.failure /\ b.markers = a.markers \ mask
    BY DEF ProviderState
  <2>5. a.markers \subseteq Streams
    BY DEF ProviderState
  <2> HIDE DEF b
  <2> QED
    BY <2>1, <2>3, <2>4, <2>5 DEF Turns
<1> QED
  BY <1>1, <1>2

LEMMA PublishedTurns ==
  ASSUME NEW a \in ProviderState, NEW b \in Published(a)
  PROVE  Turns(a, b) /\ b.pending = a.pending /\ b.markers = a.markers
<1>1. \A s \in Streams : a.gen[s] \in Nat /\ a.gen[s] <= a.gen[s]
  BY DEF ProviderState, Generations
<1>2. b = a \/ b = [a EXCEPT !.phase = "closing", !.failure = TRUE]
  BY DEF Published
<1>3. CASE b = a
  BY <1>1, <1>3 DEF Turns
<1>4. CASE b = [a EXCEPT !.phase = "closing", !.failure = TRUE]
  <2>1. b.phase = "closing" /\ b.gen = a.gen /\ b.pending = a.pending /\ b.markers = a.markers
    BY <1>4 DEF ProviderState
  <2> QED
    BY <1>1, <2>1 DEF Turns
<1> QED
  BY <1>2, <1>3, <1>4

LEMMA SettledTurns ==
  ASSUME InputInv, NEW q \in ProviderState, Turns(p, q), Settle(q)
  PROVE  Turns(p, p') /\ pub'.pending = p'.pending /\ pub'.failure = p'.failure /\ pub'.phase = p'.phase
<1>1. p' \in Published(q) /\ pub' = Snapshot(p') /\ p \in ProviderState
  BY DEF Settle, InputInv, InputTyped
<1>2. p' \in ProviderState /\ Turns(q, p')
  BY <1>1, PublishedKeeps, PublishedTurns
<1> QED
  BY <1>1, <1>2, TurnsTwice DEF Snapshot

\* A step of the provider that posts no record keeps the acknowledgements,
\* those it answers included.
LEMMA TurnStep ==
  ASSUME InputInv, BoundaryInv, UNCHANGED <<ring, rd>>, p' \in ProviderState, Turns(p, p'),
         pub'.pending = p'.pending, pub'.failure = p'.failure, pub'.phase = p'.phase,
         AckUnderWay /\ p'.phase # "closing" /\ p'.pending # {} /\ p'.gen = p.gen => AckUnderWay'
  PROVE  BoundaryInv'
<1>1. \A s \in Streams : p.gen[s] \in Nat /\ p'.gen[s] \in Nat /\ rd.ack[s] \in Nat
  BY DEF InputInv, InputTyped, ProviderState, ReaderState, Generations
<1>2. \A s \in Streams : p.gen[s] <= p'.gen[s] /\ 1 <= p.gen[s] /\ rd.ack[s] <= p.gen[s]
  BY DEF Turns, BoundaryInv
<1>3. \A s \in Streams : /\ 1 <= p'.gen[s] /\ rd.ack[s] <= p'.gen[s]
                         /\ p.gen[s] < p'.gen[s] => rd.ack[s] # p'.gen[s]
  BY <1>1, <1>2, SMT
<1>4. FailureCloses'
  BY DEF BoundaryInv, FailureCloses, Turns
<1>5. MarkersArrive'
  <2> SUFFICES ASSUME Running, p'.phase # "closing", NEW s \in p'.markers
               PROVE  Marked(s)' \/ Noted(s)'
    BY DEF MarkersArrive, Running
  <2>1. p.phase # "closing" /\ s \in p.markers /\ p'.gen[s] = p.gen[s]
    BY DEF Turns
  <2>2. Marked(s) \/ Noted(s)
    BY <2>1 DEF BoundaryInv, MarkersArrive
  <2> QED
    BY <2>1, <2>2 DEF Marked, Noted, Waiting
<1>6. AckAnswered'
  <2> SUFFICES ASSUME Running, p'.phase # "closing", p'.pending # {}, rd.ack = p'.gen
               PROVE  rd.state.pending # {} /\ AckUnderWay'
    BY DEF AckAnswered, Running
  <2>1. p.phase # "closing" /\ p.pending # {} /\ p'.gen = p.gen
    BY <1>3 DEF Turns
  <2> QED
    BY <2>1 DEF BoundaryInv, AckAnswered
<1> QED
  BY <1>3, <1>4, <1>5, <1>6 DEF BoundaryInv

LEMMA TurnAlone ==
  ASSUME InputInv, BoundaryInv, UNCHANGED <<ring, rd, cmds, replies>>, p' \in ProviderState, Turns(p, p'),
         pub'.pending = p'.pending, pub'.failure = p'.failure, pub'.phase = p'.phase
  PROVE  BoundaryInv'
BY TurnStep DEF AckUnderWay

\* The same for a post: a marker is the one that its stream waits for.
LEMMA PostTurn ==
  ASSUME InputInv, BoundaryInv, NEW s \in Streams, NEW kind \in {"marker", "data"}, NEW then \in {"idle", "text"},
         NEW q \in ProviderState, q.committed = p.committed, q.gen = p.gen, q.pending = p.pending,
         q.phase = p.phase, q.failure = p.failure,
         \A x \in q.markers : x \in p.markers \/ (x = s /\ kind = "marker"),
         PostRecord(s, kind, q, then), UNCHANGED <<rd, cmds, replies>>
  PROVE  BoundaryInv'
<1>1. p \in ProviderState /\ ring \in [Streams -> Seq(Record)] /\ p.committed \in Nat
  BY DEF InputInv, InputTyped, ProviderState
<1>2. CASE p.committed = SequenceLimit
  <2> DEFINE c == Close(p, TRUE)
  <2>1. c \in ProviderState /\ Turns(p, c) /\ c.phase = "closing"
    BY <1>1, CloseKeeps, CloseTurns
  <2>2. p' = [c EXCEPT !.pc = "idle"] /\ pub' = Snapshot(p') /\ UNCHANGED ring
    BY <1>2 DEF PostRecord
  <2> HIDE DEF c
  <2>3. p' \in ProviderState /\ p'.gen = c.gen /\ p'.markers = c.markers /\ p'.pending = c.pending
        /\ p'.failure = c.failure /\ p'.phase = c.phase
    BY <2>1, <2>2 DEF ProviderState
  <2>4. Turns(p, p')
    BY <2>1, <2>3 DEF Turns
  <2> QED
    BY <2>2, <2>3, <2>4, TurnAlone DEF Snapshot
<1>3. CASE p.committed # SequenceLimit
  <2> DEFINE m == [kind |-> kind, seq |-> p.committed + 1, gen |-> p.gen[s], trans |-> p.trans]
             k == q.committed + 1
  <2>1. ring' = [ring EXCEPT ![s] = Append(ring[s], m)] /\ pub' = pub
        /\ p' = [q EXCEPT !.committed = k, !.pc = "publish", !.then = then]
    BY <1>1, <1>3 DEF PostRecord, ProviderState
  <2>2. m.kind = kind /\ m.gen = p.gen[s]
    OBVIOUS
  <2>3. m \in Record
    BY <1>1, SMT DEF Record, ProviderState, Generations
  <2> HIDE DEF m, k
  <2>4. p'.gen = p.gen /\ p'.pending = p.pending /\ p'.phase = p.phase /\ p'.failure = p.failure
        /\ p'.markers = q.markers
    BY <2>1 DEF ProviderState
  <2>5. /\ Elements(ring'[s]) = Elements(ring[s]) \cup {m}
        /\ \A x \in Streams : x # s => ring'[x] = ring[x]
    BY <1>1, <2>1, <2>3, InputAppended
  <2>6. m \in Waiting(s)' /\ \A x \in Streams : Waiting(x) \subseteq Waiting(x)'
    BY <2>5 DEF Waiting
  <2>7. MarkersArrive'
    <3> SUFFICES ASSUME Running, p.phase # "closing", NEW x \in q.markers
                 PROVE  Marked(x)' \/ Noted(x)'
      BY <2>4 DEF MarkersArrive, Running
    <3>1. CASE x \in p.markers
      <4>1. x \in Streams
        BY <1>1, <3>1 DEF ProviderState
      <4>2. Marked(x) \/ Noted(x)
        BY <3>1 DEF BoundaryInv, MarkersArrive
      <4>3. CASE Marked(x)
        BY <2>4, <2>6, <4>1, <4>3 DEF Marked
      <4>4. CASE Noted(x)
        BY <2>4, <4>4 DEF Noted
      <4> QED
        BY <4>2, <4>3, <4>4
    <3>2. CASE x = s /\ kind = "marker"
      BY <2>2, <2>4, <2>6, <3>2 DEF Marked
    <3> QED
      BY <3>1, <3>2
  <2>8. AckAnswered'
    BY <2>4 DEF BoundaryInv, AckAnswered, AckUnderWay, Running
  <2> QED
    BY <2>1, <2>4, <2>7, <2>8 DEF BoundaryInv, FailureCloses
<1> QED
  BY <1>2, <1>3

LEMMA CommandTurn ==
  ASSUME StreamsAreKnown, InputInv, InputInv', BoundaryInv, InputCommand
  PROVE  BoundaryInv'
<1> DEFINE m == Head(cmds)
           Answering(status) == replies' = Append(replies, [t |-> m.t, gen |-> m.gen, status |-> status,
                                                            trans |-> p'.trans])
<1>1. cmds # << >> /\ cmds' = Tail(cmds) /\ UNCHANGED <<ring, rd>> /\ p \in ProviderState /\ p' \in ProviderState
  BY DEF InputCommand, InputInv, InputTyped
<1>2. /\ m \in Command /\ Elements(cmds) = {m} \cup Elements(cmds') /\ replies \in Seq(AnswerMessage)
      /\ p'.trans \in Nat
  BY <1>1, RecordTaken, Queues DEF InputInv, ProviderState
<1>3. ASSUME NEW status \in {"closing", "success", "stale", "busy", "failed"}, Answering(status)
      PROVE  /\ \A n \in Elements(replies) : n \in Elements(replies')
             /\ \E n \in Elements(replies') : n.t = m.t /\ n.gen = m.gen /\ n.status = status
  <2> DEFINE a == [t |-> m.t, gen |-> m.gen, status |-> status, trans |-> p'.trans]
  <2>1. a \in AnswerMessage
    BY <1>2 DEF AnswerMessage, Command
  <2>2. a.t = m.t /\ a.gen = m.gen /\ a.status = status
    OBVIOUS
  <2> HIDE DEF a
  <2>3. replies' = Append(replies, a)
    BY <1>3 DEF a
  <2>4. Elements(replies') = Elements(replies) \cup {a}
    BY <1>2, <2>1, <2>3, InputAppended
  <2> QED
    BY <2>2, <2>4
\* An acknowledgement that is not asked for again leaves no boundary behind.
<1>4. ASSUME NEW status \in {"closing", "success", "stale", "busy", "failed"}, Answering(status),
             m.t = "ack" /\ m.gen = p.gen => status = "busy" \/ p'.phase = "closing" \/ p'.pending = {}
      PROVE  AckUnderWay /\ p'.phase # "closing" /\ p'.pending # {} /\ p'.gen = p.gen => AckUnderWay'
  <2> SUFFICES ASSUME AckUnderWay, p'.phase # "closing", p'.pending # {}, p'.gen = p.gen PROVE AckUnderWay'
    OBVIOUS
  <2>1. CASE \E n \in Elements(replies) : n.t = "ack" /\ n.gen = p.gen /\ n.status = "busy"
    BY <1>3, <1>4, <2>1 DEF AckUnderWay
  <2>2. CASE \E n \in Elements(cmds') : n.t = "ack" /\ n.gen = p.gen
    BY <2>2 DEF AckUnderWay
  <2>3. CASE m.t = "ack" /\ m.gen = p.gen
    <3>1. status = "busy"
      BY <1>4, <2>3
    <3> QED
      BY <1>3, <1>4, <2>3, <3>1 DEF AckUnderWay
  <2> HIDE DEF m
  <2> QED
    BY <1>2, <2>1, <2>2, <2>3 DEF AckUnderWay
<1>5. ASSUME UNCHANGED <<p, pub>>,
             NEW status \in {"closing", "success", "stale", "busy", "failed"}, Answering(status),
             m.t = "ack" /\ m.gen = p.gen => status = "busy" \/ p.phase = "closing"
      PROVE  BoundaryInv'
  <2>1. Turns(p, p')
    BY <1>1, <1>5, SameTurns
  <2>2. AckUnderWay /\ p'.phase # "closing" /\ p'.pending # {} /\ p'.gen = p.gen => AckUnderWay'
    BY <1>4, <1>5
  <2>3. p'.pending = p.pending /\ pub'.pending = p'.pending
    BY <1>5 DEF BoundaryInv
  <2>4. /\ pub' = pub /\ p' = p
    BY <1>5
  <2>5. FailureCloses'
    BY <2>4 DEF BoundaryInv, FailureCloses
  <2>6. MarkersArrive' /\ \A s \in Streams : 1 <= p'.gen[s] /\ rd'.ack[s] <= p'.gen[s]
    BY <1>1, <2>4 DEF BoundaryInv, MarkersArrive, Marked, Noted, Waiting, Running
  <2>7. AckAnswered'
    BY <1>1, <2>2, <2>4 DEF BoundaryInv, AckAnswered, Running
  <2> QED
    BY <2>3, <2>5, <2>6, <2>7 DEF BoundaryInv
<1>6. ASSUME NEW q \in ProviderState, Turns(p, q), Settle(q),
             NEW status \in {"closing", "success", "stale", "busy", "failed"}, Answering(status),
             m.t = "ack" /\ m.gen = p.gen => p'.phase = "closing" \/ q.pending = {}
      PROVE  BoundaryInv'
  <2>1. /\ Turns(p, p') /\ pub'.pending = p'.pending /\ pub'.failure = p'.failure /\ pub'.phase = p'.phase
        /\ p'.pending = q.pending
    BY <1>6, SettledTurns, PublishedTurns DEF Settle
  <2>2. AckUnderWay /\ p'.phase # "closing" /\ p'.pending # {} /\ p'.gen = p.gen => AckUnderWay'
    BY <1>4, <1>6, <2>1
  <2> QED
    BY <1>1, <2>1, <2>2, TurnStep
<1>7. CASE m.t = "ready" /\ InputReady(m)
  <2>1. CASE Closing
    BY <1>5, <1>7, <2>1 DEF InputReady, Reply
  <2>2. CASE ~Closing
    <3> DEFINE q == [p EXCEPT !.ready = TRUE]
           status == IF p'.phase = "closing" THEN "failed" ELSE "success"
    <3>1. q \in ProviderState /\ q.gen = p.gen /\ q.markers = p.markers /\ q.pending = p.pending
          /\ q.failure = p.failure /\ q.phase = p.phase
      BY <1>1 DEF ProviderState
    <3>2. Settle(q) /\ Answering(status)
      BY <1>7, <2>2 DEF InputReady, Reply
    <3>3. status \in {"closing", "success", "stale", "busy", "failed"}
      OBVIOUS
    <3> HIDE DEF q, Answering, status
    <3>4. Turns(p, q)
      BY <1>1, <3>1, SameTurns
    <3>5. m.t # "ack"
      BY <1>7
    <3> QED
      BY <1>6, <3>1, <3>2, <3>3, <3>4, <3>5
  <2> QED
    BY <2>1, <2>2
<1>8. CASE m.t = "ack" /\ BoundaryReady(m)
  <2>1. CASE UNCHANGED <<p, pub>>
             /\ ((Closing /\ Answering("closing")) \/ (m.gen # p.gen /\ Answering("stale")) \/ Answering("busy"))
    BY <1>5, <2>1 DEF Closing
  <2> DEFINE g == IF "actions" \in p.pending /\ p.neutral THEN p.gen["actions"] ELSE p.gate
             q == IF p.pending = {} THEN p
                  ELSE [p EXCEPT !.gate = g, !.context_pending = FALSE, !.target_pending = FALSE,
                                 !.pending = {}, !.phase = "active"]
             status == IF p'.phase = "closing" THEN "failed" ELSE "success"
  <2>2. CASE ~Closing /\ Settle(q) /\ Answering(status)
    <3>1. g \in Nat
      BY <1>1 DEF ProviderState, Generations, StreamsAreKnown
    <3> HIDE DEF g
    <3>2. q \in ProviderState /\ q.gen = p.gen /\ q.markers = p.markers /\ q.pending = {}
          /\ q.failure = p.failure
      <4> DEFINE e == [p EXCEPT !.gate = g, !.context_pending = FALSE, !.target_pending = FALSE,
                                !.pending = {}, !.phase = "active"]
      <4>1. e \in ProviderState /\ e.gen = p.gen /\ e.markers = p.markers /\ e.pending = {} /\ e.failure = p.failure
        BY <1>1, <3>1 DEF ProviderState, Phase
      <4>2. q = IF p.pending = {} THEN p ELSE e
        OBVIOUS
      <4> HIDE DEF q, e
      <4> QED
        BY <1>1, <4>1, <4>2
    <3> HIDE DEF q
    <3>3. p.phase # "closing" /\ ~p.failure
      BY <2>2 DEF Closing, BoundaryInv, FailureCloses
    <3>4. Turns(p, q)
      BY <1>1, <3>2, <3>3, SameTurns
    <3>5. status \in {"closing", "success", "stale", "busy", "failed"}
      OBVIOUS
    <3> HIDE DEF status, Answering
    <3> QED
      BY <1>6, <2>2, <3>2, <3>4, <3>5
  <2> QED
    BY <1>8, <2>1, <2>2 DEF BoundaryReady, Reply
<1>9. CASE m.t = "context" /\ SelectContext(m)
  <2>1. CASE UNCHANGED <<p, pub>> /\ \E status \in {"closing", "stale", "busy"} : Answering(status)
    BY <1>5, <1>9, <2>1
  <2> DEFINE n == p.trans + 1
             q == [p EXCEPT !.context_pending = TRUE, !.trans = n, !.enabled = FALSE]
             b == Boundary(q, Streams)
             status == IF p'.phase = "closing" THEN "failed" ELSE "success"
  <2>2. CASE Settle(b) /\ Answering(status)
    <3>1. n \in Nat
      BY <1>1, SMT DEF ProviderState
    <3> HIDE DEF n
    <3>2. q \in ProviderState /\ q.gen = p.gen /\ q.markers = p.markers /\ q.pending = p.pending
          /\ q.failure = p.failure /\ q.phase = p.phase
      BY <1>1, <3>1 DEF ProviderState
    <3> HIDE DEF q
    <3>3. b \in ProviderState /\ Turns(q, b) /\ Turns(p, q)
      BY <1>1, <3>2, BoundaryKeeps, BoundaryTurns, SameTurns DEF StreamsAreKnown
    <3> HIDE DEF b
    <3>4. Turns(p, b)
      BY <1>1, <3>2, <3>3, TurnsTwice
    <3>5. status \in {"closing", "success", "stale", "busy", "failed"}
      OBVIOUS
    <3>6. m.t # "ack"
      BY <1>9
    <3> HIDE DEF status, Answering
    <3> QED
      BY <1>6, <2>2, <3>3, <3>4, <3>5, <3>6
  <2> QED
    BY <1>9, <2>1, <2>2 DEF SelectContext, Reply
<1>10. CASE m.t = "target" /\ TextTarget(m)
  <2>1. CASE UNCHANGED <<p, pub>> /\ \E status \in {"closing", "stale", "busy"} : Answering(status)
    BY <1>5, <1>10, <2>1
  <2> DEFINE q == [p EXCEPT !.target_pending = TRUE, !.enabled = m.on]
             b == Boundary(q, {"text"})
             status == IF p'.phase = "closing" THEN "failed" ELSE "success"
  <2>2. CASE Settle(b) /\ Answering(status)
    <3>1. q \in ProviderState /\ q.gen = p.gen /\ q.markers = p.markers /\ q.pending = p.pending
          /\ q.failure = p.failure /\ q.phase = p.phase
      BY <1>1, <1>2 DEF ProviderState, Command
    <3>2. {"text"} \in SUBSET Streams
      BY <1>2, <1>10 DEF Command, Sent
    <3> HIDE DEF q
    <3>3. b \in ProviderState /\ Turns(q, b) /\ Turns(p, q)
      BY <1>1, <3>1, <3>2, BoundaryKeeps, BoundaryTurns, SameTurns
    <3> HIDE DEF b
    <3>4. Turns(p, b)
      BY <1>1, <3>1, <3>3, TurnsTwice
    <3>5. status \in {"closing", "success", "stale", "busy", "failed"}
      OBVIOUS
    <3>6. m.t # "ack"
      BY <1>10
    <3> HIDE DEF status, Answering
    <3> QED
      BY <1>6, <2>2, <3>3, <3>4, <3>5, <3>6
  <2> QED
    BY <1>10, <2>1, <2>2 DEF TextTarget, Reply
<1> QED
  BY <1>7, <1>8, <1>9, <1>10 DEF InputCommand

LEMMA ProviderTurn ==
  ASSUME StreamsAreKnown, InputInv, InputInv', BoundaryInv,
         \/ Provider \/ CloseInput
         \/ \E neutral \in BOOLEAN : ObserveSubject(neutral)
         \/ \E s \in Streams : PostInput(s)
  PROVE  BoundaryInv'
<1>1. p \in ProviderState /\ p' \in ProviderState /\ "actions" \in Streams
  BY DEF InputInv, InputTyped, StreamsAreKnown
<1>2. ASSUME NEW q \in ProviderState, Turns(p, q), Settle(q), UNCHANGED <<ring, rd, cmds, replies>>
      PROVE  BoundaryInv'
  BY <1>1, <1>2, SettledTurns, TurnAlone
<1>3. ASSUME UNCHANGED <<pub, ring, rd, cmds, replies>>, p'.gen = p.gen, p'.markers = p.markers,
             p'.pending = p.pending, p'.failure = p.failure, p'.phase = p.phase
      PROVE  BoundaryInv'
  BY <1>3 DEF BoundaryInv, FailureCloses, MarkersArrive, Marked, Noted, Waiting, Running, AckAnswered, AckUnderWay
<1>4. CASE Publish
  <2> DEFINE a == [p EXCEPT !.pc = p.then, !.then = "idle"]
  <2>1. a \in ProviderState /\ a.gen = p.gen /\ a.markers = p.markers /\ a.pending = p.pending
        /\ a.failure = p.failure /\ a.phase = p.phase
    BY <1>1 DEF ProviderState
  <2> HIDE DEF a
  <2>2. PICK q \in Published(a) : /\ p' = IF q.phase = "closing" THEN [q EXCEPT !.pc = "idle"] ELSE q
                                  /\ pub' = Snapshot(q)
    BY <1>4 DEF Publish, a
  <2>3. q \in ProviderState /\ Turns(a, q) /\ Turns(p, a)
    BY <1>1, <2>1, PublishedKeeps, PublishedTurns, SameTurns
  <2>4. p'.gen = q.gen /\ p'.markers = q.markers /\ p'.pending = q.pending
        /\ p'.failure = q.failure /\ p'.phase = q.phase
    BY <2>2, <2>3 DEF ProviderState
  <2>5. Turns(p, q)
    BY <1>1, <2>1, <2>3, TurnsTwice
  <2>6. Turns(p, p')
    BY <2>4, <2>5 DEF Turns
  <2>7. pub'.pending = p'.pending /\ pub'.failure = p'.failure /\ pub'.phase = p'.phase
    BY <2>2, <2>4 DEF Snapshot
  <2> QED
    BY <1>1, <1>4, <2>6, <2>7, TurnAlone DEF Publish
<1>5. CASE Progress
  <2>1. CASE PostRecord("actions", "marker", [p EXCEPT !.markers = @ \cup {"actions"}], "text")
    <3> DEFINE q == [p EXCEPT !.markers = p.markers \cup {"actions"}]
    <3>1. q \in ProviderState /\ q.committed = p.committed /\ q.gen = p.gen /\ q.pending = p.pending
          /\ q.phase = p.phase /\ q.failure = p.failure /\ q.markers = p.markers \cup {"actions"}
      BY <1>1 DEF ProviderState
    <3>2. PostRecord("actions", "marker", q, "text")
      BY <2>1
    <3> HIDE DEF q
    <3> QED
      BY <1>1, <1>5, <3>1, <3>2, PostTurn DEF Progress
  <2>2. CASE "text" \in Streams
             /\ PostRecord("text", "marker", [p EXCEPT !.markers = @ \cup {"text"}, !.pc = "idle"], "idle")
    <3> DEFINE q == [p EXCEPT !.markers = p.markers \cup {"text"}, !.pc = "idle"]
    <3>1. q \in ProviderState /\ q.committed = p.committed /\ q.gen = p.gen /\ q.pending = p.pending
          /\ q.phase = p.phase /\ q.failure = p.failure /\ q.markers = p.markers \cup {"text"}
      BY <1>1, <2>2 DEF ProviderState
    <3>2. PostRecord("text", "marker", q, "idle")
      BY <2>2
    <3> HIDE DEF q
    <3> QED
      BY <1>5, <2>2, <3>1, <3>2, PostTurn DEF Progress
  <2>3. CASE p' = [p EXCEPT !.pc = "idle"] /\ UNCHANGED <<pub, ring>>
    <3>1. p'.gen = p.gen /\ p'.markers = p.markers /\ p'.pending = p.pending
          /\ p'.failure = p.failure /\ p'.phase = p.phase
      BY <1>1, <2>3 DEF ProviderState
    <3> QED
      BY <1>3, <1>5, <2>3, <3>1 DEF Progress
  <2> QED
    BY <1>5, <2>1, <2>2, <2>3 DEF Progress
<1>6. ASSUME NEW neutral \in BOOLEAN, ObserveSubject(neutral) PROVE BoundaryInv'
  <2>1. p'.gen = p.gen /\ p'.markers = p.markers /\ p'.pending = p.pending
        /\ p'.failure = p.failure /\ p'.phase = p.phase
    BY <1>1, <1>6 DEF ObserveSubject, ProviderState
  <2> QED
    BY <1>3, <1>6, <2>1 DEF ObserveSubject
<1>7. ASSUME NEW s \in Streams, PostInput(s) PROVE BoundaryInv'
  <2>1. CASE Settle(IF s = "actions" THEN [p EXCEPT !.gate = 0] ELSE p) /\ UNCHANGED ring
    <3> DEFINE q == IF s = "actions" THEN [p EXCEPT !.gate = 0] ELSE p
    <3>1. q \in ProviderState /\ q.gen = p.gen /\ q.markers = p.markers /\ q.pending = p.pending
          /\ q.failure = p.failure /\ q.phase = p.phase
      BY <1>1 DEF ProviderState
    <3>2. Settle(q)
      BY <2>1
    <3> HIDE DEF q
    <3> QED
      BY <1>1, <1>2, <1>7, <2>1, <3>1, <3>2, SameTurns DEF PostInput
  <2>2. CASE Settle(Boundary(p, {s})) /\ UNCHANGED ring
    <3>1. Boundary(p, {s}) \in ProviderState /\ Turns(p, Boundary(p, {s}))
      BY <1>1, BoundaryKeeps, BoundaryTurns
    <3> QED
      BY <1>2, <1>7, <2>2, <3>1 DEF PostInput
  <2>3. CASE PostRecord(s, "data", p, "idle")
    BY <1>1, <1>7, <2>3, PostTurn DEF PostInput
  <2> QED
    BY <1>7, <2>1, <2>2, <2>3 DEF PostInput
<1>8. CASE CloseInput
  <2>1. Close(p, FALSE) \in ProviderState /\ Turns(p, Close(p, FALSE))
    BY <1>1, CloseKeeps, CloseTurns
  <2> QED
    BY <1>2, <1>8, <2>1 DEF CloseInput
<1> QED
  BY <1>4, <1>5, <1>6, <1>7, <1>8, CommandTurn DEF Provider

\* What a step of the reader keeps of what it has seen and acknowledged.
Sees(a, b) ==
    /\ b.state = a.state \/ b.state = pub
    /\ \A s \in Streams : b.ack[s] = a.ack[s] \/ b.ack[s] = 0
    /\ \A s \in Streams : a.state.gen[s] = pub.gen[s] => b.seen[s] = a.seen[s]

SameSight(a, b) == b.state = a.state /\ b.seen = a.seen /\ b.ack = a.ack /\ b.head = a.head

LEMMA RefreshSees ==
  ASSUME InputInv
  PROVE  /\ Sees(rd, Refresh(rd)) /\ Refresh(rd) \in ReaderState /\ Refresh(rd).state = pub
         /\ \A s \in Streams : rd.state.gen[s] # pub.gen[s] => Refresh(rd).ack[s] = 0
         /\ \A s \in Streams : rd.state.gen[s] = pub.gen[s] => Refresh(rd).ack[s] = rd.ack[s]
<1> DEFINE moved == {s \in Streams : pub.gen[s] # rd.state.gen[s]}
           seen == [s \in Streams |-> IF s \in moved THEN 0 ELSE rd.seen[s]]
           ack == [s \in Streams |-> IF s \in moved THEN 0 ELSE rd.ack[s]]
           gone == rd.cancellation \cup moved \cup (IF pub.phase = "closing" THEN Streams ELSE {})
           b == [rd EXCEPT !.state = pub, !.seen = seen, !.ack = ack, !.cancellation = gone]
<1>1. Refresh(rd) = b
  BY DEF Refresh
<1>2. \A s \in Streams : /\ ack[s] = rd.ack[s] \/ ack[s] = 0
                         /\ rd.state.gen[s] = pub.gen[s] => seen[s] = rd.seen[s] /\ ack[s] = rd.ack[s]
                         /\ rd.state.gen[s] # pub.gen[s] => ack[s] = 0
  OBVIOUS
<1> HIDE DEF seen, ack, gone
<1>3. b.state = pub /\ b.seen = seen /\ b.ack = ack
  BY DEF InputInv, InputTyped, ReaderState
<1> HIDE DEF b
<1> QED
  BY <1>1, <1>2, <1>3, Refreshed DEF Sees

LEMMA SightStep ==
  ASSUME InputInv, InputInv', BoundaryInv, UNCHANGED <<p, pub>>, Running' => Running, Sees(rd, rd'),
         Running' => \A s \in Streams : Waiting(s) \subseteq Waiting(s)',
         AckUnderWay => AckUnderWay'
  PROVE  BoundaryInv'
<1>1. /\ p' = p /\ pub' = pub /\ pub.gen = p.gen /\ pub.pending = p.pending
  BY DEF InputInv, FreshInv, Mirrored, BoundaryInv
<1>2. \A s \in Streams : /\ p.gen[s] \in Nat /\ rd.ack[s] \in Nat /\ rd'.ack[s] \in Nat
                         /\ rd.ack[s] <= p.gen[s] /\ 1 <= p.gen[s]
                         /\ rd'.ack[s] = rd.ack[s] \/ rd'.ack[s] = 0
  BY DEF InputInv, InputTyped, ProviderState, ReaderState, Generations, BoundaryInv, Sees
<1>3. \A s \in Streams : rd'.ack[s] <= p.gen[s] /\ (rd'.ack[s] = p.gen[s] => rd.ack[s] = p.gen[s])
  BY <1>2, SMT
<1>4. MarkersArrive'
  <2> SUFFICES ASSUME Running', p.phase # "closing", NEW s \in p.markers
               PROVE  Marked(s)' \/ Noted(s)'
    BY <1>1 DEF MarkersArrive
  <2>1. s \in Streams /\ (Marked(s) \/ Noted(s))
    BY DEF InputInv, InputTyped, ProviderState, BoundaryInv, MarkersArrive
  <2>2. CASE Marked(s)
    BY <1>1, <2>1, <2>2 DEF Marked
  <2>3. CASE Noted(s)
    BY <1>1, <2>1, <2>3 DEF Noted, Sees
  <2> QED
    BY <2>1, <2>2, <2>3
<1>5. AckAnswered'
  <2> SUFFICES ASSUME Running', p.phase # "closing", p.pending # {}, rd'.ack = p.gen
               PROVE  rd'.state.pending # {} /\ AckUnderWay'
    BY <1>1 DEF AckAnswered
  <2>1. p.gen \in [Streams -> Nat] /\ rd.ack \in [Streams -> Nat]
    BY DEF InputInv, InputTyped, ProviderState, ReaderState, Generations
  <2>2. rd.ack = p.gen
    BY <1>3, <2>1
  <2>3. rd.state.pending # {} /\ AckUnderWay
    BY <2>2 DEF BoundaryInv, AckAnswered
  <2> QED
    BY <1>1, <2>3 DEF Sees
<1> QED
  BY <1>1, <1>2, <1>3, <1>4, <1>5 DEF BoundaryInv, FailureCloses

\* A step of the reader that takes no record and answers nothing.
LEMMA LookStep ==
  ASSUME InputInv, InputInv', BoundaryInv, UNCHANGED <<p, pub, ring>>,
         rd.pc \in {"idle", "choose"}, SameSight(rd, rd') \/ SameSight(Refresh(rd), rd'),
         AckUnderWay => AckUnderWay'
  PROVE  BoundaryInv'
<1>1. Running
  BY DEF Running
<1>2. rd'.head = rd.head
  BY Refreshed DEF SameSight
<1>3. \A s \in Streams : Waiting(s)' = Waiting(s)
  BY <1>2 DEF Waiting
<1>4. Sees(rd, rd')
  BY RefreshSees DEF Sees, SameSight
<1> QED
  BY <1>1, <1>3, <1>4, SightStep

LEMMA EndStep ==
  ASSUME InputInv, InputInv', BoundaryInv, UNCHANGED <<p, pub>>, ~Running',
         \A s \in Streams : rd'.ack[s] = rd.ack[s] \/ rd'.ack[s] = 0
  PROVE  BoundaryInv'
<1>1. \A s \in Streams : /\ p.gen[s] \in Nat /\ rd.ack[s] \in Nat
                         /\ rd.ack[s] <= p.gen[s] /\ 1 <= p.gen[s]
  BY DEF InputInv, InputTyped, ProviderState, ReaderState, Generations, BoundaryInv
<1>2. \A s \in Streams : rd'.ack[s] <= p.gen[s]
  BY <1>1, SMT
<1> QED
  BY <1>1, <1>2 DEF BoundaryInv, FailureCloses, MarkersArrive, AckAnswered

LEMMA EndedSight ==
  ASSUME NEW r \in ReaderState
  PROVE  Ended(r).ack = r.ack /\ Ended(r).pc = "closed"
BY DEF Ended, ReaderState

\* Reading a snapshot that ends the reading of records, or stops to report a
\* cancellation.
LEMMA UnlessTurn ==
  ASSUME InputInv, InputInv', BoundaryInv, UNCHANGED <<p, pub, ring, cmds, replies>>, rd.pc \in {"idle", "choose"},
         NEW next, rd' = Unless(Refresh(rd), next), rd' # next
  PROVE  BoundaryInv'
<1> DEFINE r == Refresh(rd)
<1>1. r \in ReaderState /\ Sees(rd, r)
  BY RefreshSees
<1>2. AckUnderWay => AckUnderWay'
  BY DEF AckUnderWay
<1> HIDE DEF r
<1>3. CASE rd' = [r EXCEPT !.pc = "failed"]
  <2>1. rd'.pc = "failed" /\ rd'.ack = r.ack
    BY <1>1, <1>3 DEF ReaderState
  <2> QED
    BY <1>1, <2>1, EndStep DEF Running, Sees
<1>4. CASE rd' = Ended(r)
  BY <1>1, <1>4, EndedSight, EndStep DEF Running, Sees
<1>5. CASE rd' = [r EXCEPT !.pc = "idle"]
  <2>1. SameSight(r, rd')
    BY <1>1, <1>5 DEF ReaderState, SameSight
  <2> QED
    BY <1>2, <2>1, LookStep DEF r
<1> QED
  BY <1>3, <1>4, <1>5 DEF Unless, r

\* A marker of the present generation is noted when it is taken.
LEMMA TakeTurn ==
  ASSUME StreamsAreKnown, InputInv, InputInv', BoundaryInv, rd.pc = "choose", Within(Refresh(rd)) # {},
         rd' = Take(Refresh(rd)), rd'.pc # "broken", UNCHANGED <<p, pub, ring, cmds, replies>>
  PROVE  BoundaryInv'
<1> DEFINE r == Refresh(rd)
           s == CHOOSE x \in Within(r) : \A y \in Within(r) : r.head[x].seq <= r.head[y].seq
           m == r.head[s]
           without == [rd.head EXCEPT ![s] = NoHead]
           n == m.seq
           taken == [r EXCEPT !.head[s] = NoHead, !.last = m.seq, !.pc = "idle", !.cutoff = 0]
           took == [r EXCEPT !.head = without, !.last = n, !.pc = "idle", !.cutoff = 0]
           seen == [r.seen EXCEPT ![s] = m.gen]
           current == m.kind = "marker" /\ m.gen = r.state.gen[s] /\ m.trans = r.state.trans
<1>1. /\ r \in ReaderState /\ r.state = pub /\ r.head = rd.head /\ Sees(rd, r)
  BY Refreshed, RefreshSees
<1>2. /\ rd.head \in [Streams -> Record \cup {NoHead}] /\ Within(r) \subseteq Streams
      /\ Within(r) = {x \in Streams : rd.head[x] # NoHead /\ rd.head[x].seq <= r.cutoff}
  BY <1>1 DEF InputInv, InputTyped, ReaderState, Within
<1>3. \E x \in Within(r) : \A y \in Within(r) : rd.head[x].seq <= rd.head[y].seq
  <2> HIDE DEF r
  <2>1. Within(r) # {}
    BY DEF r
  <2> QED
    BY <1>2, <2>1, EarliestExists
<1>4. s \in Streams /\ m = rd.head[s] /\ m # NoHead
  <2>1. s \in Within(r)
    BY <1>1, <1>3
  <2> HIDE DEF s
  <2> QED
    BY <1>1, <1>2, <2>1
<1>5. taken = took
  BY <1>1 DEF ReaderState
<1>6. rd'.pc # "broken"
  OBVIOUS
<1>7. \/ current /\ rd' = [took EXCEPT !.seen = seen]
      \/ ~current /\ rd' = [took EXCEPT !.event = m, !.stamp = r.state.gen[s], !.on = s]
      \/ ~current /\ rd' = took
  <2>1. \/ rd' = [r EXCEPT !.pc = "broken"]
        \/ current /\ rd' = [taken EXCEPT !.seen[s] = m.gen]
        \/ ~current /\ rd' = [taken EXCEPT !.event = m, !.stamp = r.state.gen[s], !.on = s]
        \/ ~current /\ rd' = taken
    BY DEF Take
  <2>2. [taken EXCEPT !.seen[s] = m.gen] = [took EXCEPT !.seen = seen]
    BY <1>1, <1>5 DEF ReaderState
  <2>3. rd' # [r EXCEPT !.pc = "broken"]
    BY <1>1, <1>6 DEF ReaderState
  <2> HIDE DEF r, s, m, taken, took, seen, current
  <2> QED
    BY <1>5, <2>1, <2>2, <2>3
<1>8. m \in Record /\ m \in Waiting(s)
  BY <1>4, WaitingIs DEF InputInv
<1>9. /\ seen[s] = m.gen
      /\ \A x \in Streams : x # s => seen[x] = r.seen[x]
  <2>1. r.seen \in [Streams -> Nat]
    BY <1>1 DEF ReaderState, Generations
  <2> HIDE DEF r, s, m
  <2> QED
    BY <1>4, <2>1
<1>10. without[s] = NoHead /\ \A x \in Streams : x # s => without[x] = rd.head[x]
  <2> HIDE DEF s, NoHead
  <2> QED
    BY <1>2, <1>4
\* A marker of the present generation is of the present context.
<1>11. p.phase # "closing" /\ m.kind = "marker" /\ m.gen = p.gen[s] => current
  BY <1>1, <1>4, <1>8 DEF InputInv, FreshInv, Mirrored, Stamped, OfContext
<1>12. current => m.gen = pub.gen[s]
  BY <1>1
<1> HIDE DEF s
<1>13. without \in [Streams -> Record \cup {NoHead}]
  BY <1>2, <1>4
<1> HIDE DEF r, m, n, without, seen, current
<1>14. /\ took.head = without /\ took.seen = r.seen /\ took.state = r.state /\ took.ack = r.ack /\ took.pc = "idle"
       /\ DOMAIN took = DOMAIN r
  BY <1>1 DEF ReaderState
<1>15. /\ rd'.head = without /\ rd'.state = pub /\ rd'.ack = r.ack /\ rd'.pc = "idle"
       /\ rd'.seen = IF current THEN seen ELSE r.seen
  <2>1. DOMAIN took = {"state", "head", "seen", "ack", "cancel", "last", "cutoff", "cancellation", "local_cancel",
                       "pc", "event", "stamp", "on", "acking", "request", "changing", "trans", "asked"}
    BY <1>1, <1>14 DEF ReaderState
  <2> HIDE DEF took, taken
  <2>2. CASE current /\ rd' = [took EXCEPT !.seen = seen]
    BY <1>1, <1>14, <2>1, <2>2
  <2>3. CASE ~current /\ rd' = [took EXCEPT !.event = m, !.stamp = r.state.gen[s], !.on = s]
    BY <1>1, <1>14, <2>1, <2>3
  <2>4. CASE ~current /\ rd' = took
    BY <1>1, <1>14, <2>4
  <2> QED
    BY <1>7, <2>2, <2>3, <2>4
<1> HIDE DEF took, taken
<1>16. PICK z \in Streams : z = s
  BY <1>4
<1>a. /\ \A x \in Streams : x # z => Waiting(x)' = Waiting(x)
      /\ Waiting(z) = {m} \cup Waiting(z)'
  <2>1. ASSUME NEW x \in Streams, x # z PROVE Waiting(x)' = Waiting(x)
    BY <1>10, <1>15, <1>16, <2>1 DEF Waiting
  <2>2. rd'.head[z] = NoHead /\ rd.head[z] = m /\ m # NoHead
    BY <1>4, <1>10, <1>15, <1>16
  <2>3. Waiting(z) = {m} \cup Waiting(z)'
    BY <2>2 DEF Waiting
  <2> QED
    BY <2>1, <2>3
<1>17. p' = p /\ pub' = pub /\ pub.gen = p.gen /\ pub.pending = p.pending
  BY DEF InputInv, FreshInv, Mirrored, BoundaryInv
<1>18. MarkersArrive'
  <2> SUFFICES ASSUME p.phase # "closing", NEW x \in p.markers
               PROVE  Marked(x)' \/ (rd'.seen[x] = p.gen[x] /\ rd'.state.gen[x] = p.gen[x])
    BY <1>17 DEF MarkersArrive, Noted
  <2>1. x \in Streams /\ (Marked(x) \/ Noted(x))
    BY DEF InputInv, InputTyped, ProviderState, BoundaryInv, MarkersArrive, Running
  <2>2. rd'.state.gen[x] = p.gen[x]
    BY <1>15, <1>17
  <2>3. CASE Noted(x)
    <3>1. rd.seen[x] = p.gen[x] /\ r.seen[x] = rd.seen[x]
      BY <1>1, <1>17, <2>1, <2>3 DEF Noted, Sees
    <3>2. rd'.seen[x] = p.gen[x]
      BY <1>9, <1>12, <1>15, <1>17, <2>1, <3>1
    <3> QED
      BY <2>2, <3>2
  <2>4. CASE \E k \in Waiting(x)' : k.kind = "marker" /\ k.gen = p.gen[x]
    BY <1>17, <2>4 DEF Marked
  <2>5. CASE x = s /\ m.kind = "marker" /\ m.gen = p.gen[s]
    <3>1. current
      BY <1>11, <2>5
    <3> QED
      BY <1>9, <1>15, <2>2, <2>5, <3>1
  <2>6. Marked(x) => (\E k \in Waiting(x)' : k.kind = "marker" /\ k.gen = p.gen[x])
                     \/ (x = s /\ m.kind = "marker" /\ m.gen = p.gen[s])
    BY <1>16, <1>a, <2>1 DEF Marked
  <2> QED
    BY <2>1, <2>3, <2>4, <2>5, <2>6
<1>19. \A x \in Streams : /\ p.gen[x] \in Nat /\ rd.ack[x] \in Nat
                          /\ rd.ack[x] <= p.gen[x] /\ 1 <= p.gen[x]
                          /\ rd'.ack[x] = rd.ack[x] \/ rd'.ack[x] = 0
  <2>1. p.gen \in Generations /\ rd.ack \in Generations
    BY DEF InputInv, InputTyped, ProviderState, ReaderState
  <2>2. rd'.ack = r.ack /\ \A x \in Streams : r.ack[x] = rd.ack[x] \/ r.ack[x] = 0
    BY <1>1, <1>15 DEF Sees
  <2> QED
    BY <2>1, <2>2 DEF Generations, BoundaryInv
<1>20. \A x \in Streams : rd'.ack[x] <= p.gen[x] /\ (rd'.ack[x] = p.gen[x] => rd.ack[x] = p.gen[x])
  BY <1>19, SMT
<1>21. AckAnswered'
  <2> SUFFICES ASSUME p.phase # "closing", p.pending # {}, rd'.ack = p.gen
               PROVE  rd'.state.pending # {} /\ AckUnderWay'
    BY <1>17 DEF AckAnswered
  <2>1. p.gen \in [Streams -> Nat] /\ rd.ack \in [Streams -> Nat]
    BY DEF InputInv, InputTyped, ProviderState, ReaderState, Generations
  <2>2. rd.ack = p.gen
    BY <1>20, <2>1
  <2>3. AckUnderWay
    BY <2>2 DEF BoundaryInv, AckAnswered, Running
  <2> QED
    BY <1>15, <1>17, <2>3 DEF AckUnderWay
<1> QED
  BY <1>17, <1>18, <1>19, <1>20, <1>21 DEF BoundaryInv, FailureCloses

LEMMA ChooseTurn ==
  ASSUME StreamsAreKnown, InputInv, InputInv', BoundaryInv, NextChoose
  PROVE  BoundaryInv'
<1> DEFINE r == Refresh(rd)
           next == IF Within(r) = {} THEN [r EXCEPT !.pc = "idle", !.cutoff = 0] ELSE Take(r)
<1>1. rd.pc = "choose" /\ UNCHANGED <<p, pub, ring, cmds, replies>> /\ rd \in ReaderState /\ rd' \in ReaderState
  BY DEF NextChoose, InputInv, InputTyped
<1>2. r \in ReaderState /\ (AckUnderWay => AckUnderWay')
  BY <1>1, Refreshed DEF AckUnderWay
<1>3. rd'.pc # "broken"
  BY <1>1 DEF ReaderState, Place
<1>4. CASE rd' = next /\ Within(r) = {}
  <2>1. rd' = [r EXCEPT !.pc = "idle", !.cutoff = 0]
    BY <1>4
  <2> HIDE DEF r
  <2>2. SameSight(r, rd')
    BY <1>2, <2>1 DEF SameSight, ReaderState
  <2> QED
    BY <1>1, <1>2, <2>2, LookStep DEF r
<1>5. CASE rd' = next /\ Within(r) # {}
  BY <1>1, <1>3, <1>5, TakeTurn
<1>6. CASE rd' = Unless(r, next)
  <2> HIDE DEF next
  <2> QED
    BY <1>1, <1>4, <1>5, <1>6, UnlessTurn
<1>7. CASE rd' = [rd EXCEPT !.pc = "idle", !.cutoff = 0]
  <2>1. SameSight(rd, rd')
    BY <1>1, <1>7 DEF SameSight, ReaderState
  <2> QED
    BY <1>1, <1>2, <2>1, LookStep
<1> QED
  BY <1>6, <1>7 DEF NextChoose

LEMMA BeginTurn ==
  ASSUME InputInv, InputInv', BoundaryInv, NextBegin
  PROVE  BoundaryInv'
<1> DEFINE r == Refresh(rd)
           next == [r EXCEPT !.pc = "actions", !.cutoff = r.state.committed]
<1>1. rd.pc = "idle" /\ rd' = Unless(r, next) /\ UNCHANGED <<p, pub, ring, cmds, replies>>
  BY DEF NextBegin
<1>2. r \in ReaderState /\ (AckUnderWay => AckUnderWay')
  BY <1>1, Refreshed DEF AckUnderWay
<1>3. CASE rd' = next
  <2> HIDE DEF r
  <2>1. SameSight(r, rd')
    BY <1>2, <1>3 DEF SameSight, ReaderState
  <2> QED
    BY <1>1, <1>2, <2>1, LookStep DEF r
<1>4. CASE rd' # next
  <2> HIDE DEF next
  <2> QED
    BY <1>1, <1>4, UnlessTurn
<1> QED
  BY <1>3, <1>4

LEMMA HeadTurn ==
  ASSUME InputInv, InputInv', BoundaryInv, NEW s \in Streams, NEW then, ReadHead(s, then), then \in {"text", "choose"},
         s \in {"actions", "text"}
  PROVE  BoundaryInv'
<1>1. /\ rd \in ReaderState /\ ring \in [Streams -> Seq(Record)] /\ UNCHANGED <<p, pub, cmds, replies>>
      /\ rd.head \in [Streams -> Record \cup {NoHead}]
  BY DEF ReadHead, InputInv, InputTyped, ReaderState
<1>2. Running /\ (AckUnderWay => AckUnderWay')
  BY <1>1 DEF ReadHead, Running, AckUnderWay
<1>3. CASE rd.head[s] = NoHead /\ ring[s] # << >>
  <2> DEFINE h == [rd.head EXCEPT ![s] = Head(ring[s])]
  <2>1. rd' = [rd EXCEPT !.head = h, !.pc = then] /\ ring' = [ring EXCEPT ![s] = Tail(ring[s])]
    BY <1>1, <1>3 DEF ReadHead, ReaderState
  <2>2. /\ Head(ring[s]) \in Record
        /\ Elements(ring[s]) = {Head(ring[s])} \cup Elements(Tail(ring[s]))
    BY <1>1, <1>3, RecordTaken
  <2>3. h[s] = Head(ring[s]) /\ \A x \in Streams : x # s => h[x] = rd.head[x]
    BY <1>1
  <2> HIDE DEF h
  <2>4. rd'.head = h /\ rd'.state = rd.state /\ rd'.seen = rd.seen /\ rd'.ack = rd.ack
    BY <1>1, <2>1 DEF ReaderState
  <2>5. Head(ring[s]) # NoHead
    BY <2>2, WaitingIs DEF InputInv
  <2>6. ASSUME NEW x \in Streams PROVE Waiting(x) \subseteq Waiting(x)'
    <3>1. CASE x = s
      BY <1>1, <1>3, <2>1, <2>2, <2>3, <2>4, <2>5, <3>1 DEF Waiting
    <3>2. CASE x # s
      BY <1>1, <2>1, <2>3, <2>4, <3>2 DEF Waiting
    <3> QED
      BY <3>1, <3>2
  <2>7. Sees(rd, rd')
    BY <2>4 DEF Sees
  <2> QED
    BY <1>1, <1>2, <2>6, <2>7, SightStep
<1>4. CASE ~(rd.head[s] = NoHead /\ ring[s] # << >>)
  <2>1. rd' = [rd EXCEPT !.pc = then] /\ UNCHANGED ring
    BY <1>4 DEF ReadHead
  <2>2. rd'.head = rd.head /\ rd'.state = rd.state /\ rd'.seen = rd.seen /\ rd'.ack = rd.ack
    BY <1>1, <2>1 DEF ReaderState
  <2>3. Sees(rd, rd') /\ \A x \in Streams : Waiting(x) \subseteq Waiting(x)'
    BY <2>1, <2>2 DEF Sees, Waiting
  <2> QED
    BY <1>1, <1>2, <2>3, SightStep
<1> QED
  BY <1>3, <1>4

\* An acknowledgement is sent for the generation it acknowledges.
LEMMA SubmitTurn ==
  ASSUME InputInv, InputInv', BoundaryInv, SubmitBoundary
  PROVE  BoundaryInv'
<1> DEFINE r == Refresh(rd)
           g == r.state.gen
           c == [t |-> "ack", gen |-> g, trans |-> rd.trans, on |-> FALSE]
<1>1. /\ rd.pc = "idle" /\ rd' = [r EXCEPT !.ack = g, !.acking = TRUE] /\ cmds' = Append(cmds, c)
      /\ UNCHANGED <<p, pub, ring, replies>> /\ r.state.pending # {}
  BY DEF SubmitBoundary, CanSubmit
<1>2. r \in ReaderState /\ r.state = pub /\ Sees(rd, r) /\ r.head = rd.head /\ g \in Generations /\ rd.trans \in Nat
  BY Refreshed, RefreshSees DEF Authority, InputInv, InputTyped, ReaderState
<1>3. g = p.gen /\ pub.pending = p.pending /\ pub.pending # {}
  BY <1>1, <1>2 DEF InputInv, FreshInv, Mirrored, BoundaryInv
<1>4. c \in Command
  BY <1>2 DEF Command, Sent
<1>5. c.t = "ack" /\ c.gen = g
  OBVIOUS
<1> HIDE DEF c, g
<1>6. c \in Elements(cmds')
  BY <1>1, <1>4, Queues, InputAppended DEF InputInv
<1>7. AckUnderWay'
  BY <1>1, <1>3, <1>5, <1>6 DEF AckUnderWay
<1> HIDE DEF r
<1>8. rd'.head = r.head /\ rd'.state = r.state /\ rd'.seen = r.seen /\ rd'.ack = g
  BY <1>1, <1>2 DEF ReaderState
<1>9. Running /\ p' = p /\ pub' = pub
  BY <1>1 DEF Running
<1>10. MarkersArrive'
  <2> SUFFICES ASSUME p.phase # "closing", NEW s \in p.markers
               PROVE  Marked(s)' \/ Noted(s)'
    BY <1>9 DEF MarkersArrive
  <2>1. s \in Streams /\ (Marked(s) \/ Noted(s)) /\ pub.gen = p.gen
    BY <1>9 DEF InputInv, InputTyped, ProviderState, BoundaryInv, MarkersArrive, FreshInv, Mirrored
  <2>2. CASE Marked(s)
    BY <1>1, <1>2, <1>8, <2>2 DEF Marked, Waiting
  <2>3. CASE Noted(s)
    BY <1>2, <1>8, <1>9, <2>1, <2>3 DEF Noted, Sees
  <2> QED
    BY <2>1, <2>2, <2>3
<1>11. AckAnswered'
  BY <1>2, <1>3, <1>7, <1>8 DEF AckAnswered
<1>12. \A s \in Streams : 1 <= p.gen[s] /\ p.gen[s] \in Nat /\ p.gen[s] <= p.gen[s]
  BY DEF BoundaryInv, InputInv, InputTyped, ProviderState, Generations
<1> QED
  BY <1>3, <1>8, <1>9, <1>10, <1>11, <1>12 DEF BoundaryInv, FailureCloses

\* An answer of "busy" has the acknowledgement sent again.
LEMMA HearTurn ==
  ASSUME StreamsAreKnown, InputInv, InputInv', BoundaryInv, Hear
  PROVE  BoundaryInv'
<1> DEFINE m == Head(replies)
           again == [s \in Streams |-> IF m.gen = rd.ack /\ s \in rd.state.pending THEN 0 ELSE rd.ack[s]]
           retry == [rd EXCEPT !.ack = [s \in Streams |-> IF m.gen = rd.ack /\ s \in rd.state.pending
                                                          THEN 0 ELSE @[s]]]
           one == [rd EXCEPT !.acking = FALSE]
           two == [rd EXCEPT !.request = "none", !.changing = {}]
           three == [rd EXCEPT !.request = "accepted", !.trans = m.trans]
<1>1. /\ rd.pc = "idle" /\ replies # << >> /\ replies' = Tail(replies)
      /\ UNCHANGED <<p, pub, ring, cmds>> /\ rd \in ReaderState
  BY DEF Hear, InputInv, InputTyped
<1>2. Elements(replies) = {m} \cup Elements(replies')
  BY <1>1, RecordTaken, Queues DEF InputInv
<1>3. retry = [rd EXCEPT !.ack = again] /\ again \in Generations
      /\ \A s \in Streams : again[s] = IF m.gen = rd.ack /\ s \in rd.state.pending THEN 0 ELSE rd.ack[s]
  BY <1>1 DEF ReaderState, Generations
<1> HIDE DEF again
<1>4. \/ rd' = Ended(rd)
      \/ (m.t = "ack" => m.status # "busy") /\ rd' \in {rd, one, two, three}
      \/ m.t = "ack" /\ m.status = "busy" /\ rd' = [retry EXCEPT !.acking = FALSE]
  BY DEF Hear, m
<1> HIDE DEF m, retry
<1>5. CASE rd' = Ended(rd)
  BY <1>1, <1>5, EndedSight, EndStep DEF Running
<1>6. CASE (m.t = "ack" => m.status # "busy") /\ rd' \in {rd, one, two, three}
  <2>1. SameSight(rd, rd')
    BY <1>1, <1>6 DEF SameSight, ReaderState
  <2>2. AckUnderWay => AckUnderWay'
    BY <1>1, <1>2, <1>6 DEF AckUnderWay
  <2> QED
    BY <1>1, <2>1, <2>2, LookStep
<1>7. CASE m.t = "ack" /\ m.status = "busy" /\ rd' = [retry EXCEPT !.acking = FALSE]
  <2>1. rd' = [rd EXCEPT !.ack = again, !.acking = FALSE]
    BY <1>1, <1>3, <1>7 DEF ReaderState
  <2>2. rd'.ack = again /\ rd'.state = rd.state /\ rd'.seen = rd.seen /\ rd'.head = rd.head
    BY <1>1, <2>1 DEF ReaderState
  <2>3. Running /\ p' = p /\ pub' = pub
    BY <1>1 DEF Running
  <2>4. MarkersArrive'
    BY <1>1, <2>2, <2>3 DEF MarkersArrive, Marked, Noted, Waiting, BoundaryInv
  <2>5. \A s \in Streams : /\ p.gen[s] \in Nat /\ rd.ack[s] \in Nat
                           /\ rd.ack[s] <= p.gen[s] /\ 1 <= p.gen[s]
                           /\ again[s] = rd.ack[s] \/ again[s] = 0
    BY <1>3 DEF InputInv, InputTyped, ProviderState, ReaderState, Generations, BoundaryInv
  <2>6. \A s \in Streams : again[s] <= p.gen[s] /\ (again[s] = p.gen[s] => rd.ack[s] = p.gen[s] /\ again[s] # 0)
    BY <2>5, SMT
  <2>7. AckAnswered'
    <3> SUFFICES ASSUME p.phase # "closing", p.pending # {}, again = p.gen
                 PROVE  rd.state.pending # {} /\ AckUnderWay'
      BY <2>2, <2>3 DEF AckAnswered
    <3>1. p.gen \in [Streams -> Nat] /\ rd.ack \in [Streams -> Nat]
      BY DEF InputInv, InputTyped, ProviderState, ReaderState, Generations
    <3>2. rd.ack = p.gen
      BY <2>6, <3>1
    <3>3. rd.state.pending # {} /\ AckUnderWay
      BY <2>3, <3>2 DEF BoundaryInv, AckAnswered
    <3>4. rd.state.pending \subseteq Streams
      BY <1>1 DEF ReaderState, Authority
    <3>5. m.gen # p.gen
      BY <1>3, <2>6, <3>2, <3>3, <3>4
    <3> QED
      BY <1>1, <1>2, <3>3, <3>5 DEF AckUnderWay
  <2> QED
    BY <2>2, <2>3, <2>4, <2>5, <2>6, <2>7 DEF BoundaryInv, FailureCloses
<1> QED
  BY <1>4, <1>5, <1>6, <1>7

\* The client's other steps leave a boundary where it is.
LEMMA QuietTurn ==
  ASSUME InputInv, InputInv', BoundaryInv, TakeCancellation \/ Apply \/ Resume
  PROVE  BoundaryInv'
<1> DEFINE r == Refresh(rd)
<1>1. /\ rd.pc = "idle" /\ UNCHANGED <<p, pub, ring, cmds, replies>> /\ rd \in ReaderState /\ r \in ReaderState
      /\ (AckUnderWay => AckUnderWay')
  BY Refreshed DEF TakeCancellation, Apply, Resume, AckUnderWay, InputInv, InputTyped
<1>2. \/ rd' = [rd EXCEPT !.cancellation = {}]
      \/ rd' = [r EXCEPT !.event = NoHead, !.stamp = 0, !.on = "actions"]
      \/ rd' = [r EXCEPT !.local_cancel = r.local_cancel \ r.changing, !.request = "none", !.changing = {}]
  BY DEF TakeCancellation, Apply, Resume
<1> HIDE DEF r
<1>3. SameSight(rd, rd') \/ SameSight(r, rd')
  BY <1>1, <1>2 DEF SameSight, ReaderState
<1> QED
  BY <1>1, <1>3, LookStep DEF r

LEMMA RequestTurn ==
  ASSUME InputInv, InputInv', BoundaryInv, NEW t \in {"context", "target"}, NEW on \in BOOLEAN,
         NEW streams \in SUBSET Streams, RequestChange(t, on, streams), t = "target" => "text" \in Streams
  PROVE  BoundaryInv'
<1> DEFINE r == Refresh(rd)
           cancelled == r.local_cancel \cup streams
           cancel == [s \in Streams |-> IF s \in streams THEN r.state.gen[s] ELSE r.cancel[s]]
           gone == r.cancellation \cup streams
           k == r.asked + 1
           c == [t |-> t, gen |-> Vector(0), trans |-> rd.trans, on |-> on]
<1>1. /\ rd.pc = "idle" /\ cmds' = Append(cmds, c) /\ UNCHANGED <<p, pub, ring, replies>>
      /\ rd' = [r EXCEPT !.local_cancel = cancelled, !.cancellation = gone, !.cancel = cancel,
                         !.request = t, !.changing = streams, !.asked = k]
  BY DEF RequestChange
<1>2. r \in ReaderState /\ rd.trans \in Nat
  BY Refreshed DEF InputInv, InputTyped, ReaderState
<1>3. c \in Command
  BY <1>2 DEF Command, Sent, Vector, Generations
<1> HIDE DEF r, cancelled, cancel, gone, k, c
<1>4. Elements(cmds') = Elements(cmds) \cup {c}
  BY <1>1, <1>3, Queues, InputAppended DEF InputInv
<1>5. AckUnderWay => AckUnderWay'
  BY <1>1, <1>4 DEF AckUnderWay
<1>6. SameSight(r, rd')
  BY <1>1, <1>2 DEF SameSight, ReaderState
<1> QED
  BY <1>1, <1>5, <1>6, LookStep DEF r

LEMMA ReaderTurn ==
  ASSUME StreamsAreKnown, InputInv, InputInv', BoundaryInv, Reader
  PROVE  BoundaryInv'
<1>1. CASE ReadHeads
  BY <1>1, HeadTurn DEF ReadHeads, StreamsAreKnown
<1> QED
  BY <1>1, BeginTurn, ChooseTurn, QuietTurn, SubmitTurn, HearTurn DEF Reader

LEMMA BoundaryNext ==
  ASSUME StreamsAreKnown, InputInv, InputInv', BoundaryInv, InputNext
  PROVE  BoundaryInv'
<1>1. ASSUME RequestChange("context", FALSE, Streams) PROVE BoundaryInv'
  BY <1>1, RequestTurn
<1>2. ASSUME NEW on \in BOOLEAN, RequestChange("target", on, {"text"}) PROVE BoundaryInv'
  <2>1. {"text"} \in SUBSET Streams
    BY <1>2 DEF RequestChange
  <2> QED
    BY <1>2, <2>1, RequestTurn
<1> QED
  BY <1>1, <1>2, ReaderTurn, ProviderTurn DEF InputNext

LEMMA BoundaryStutter ==
  ASSUME BoundaryInv, UNCHANGED input
  PROVE  BoundaryInv'
BY DEF input, BoundaryInv, FailureCloses, MarkersArrive, Marked, Noted, Waiting, Running, AckAnswered, AckUnderWay

\* The initial boundary has not been acknowledged: every generation is past
\* the one the client starts from.
LEMMA BoundaryInit ==
  ASSUME StreamsAreKnown, InputInit
  PROVE  BoundaryInv
<1>1. /\ p.phase = "reserved" /\ p.failure = FALSE /\ p.markers = {} /\ p.gen = Vector(1) /\ pub = Snapshot(p)
      /\ rd.ack = Vector(0)
  BY DEF InputInit
<1>2. \A s \in Streams : p.gen[s] = 1 /\ rd.ack[s] = 0
  BY <1>1 DEF Vector
<1>3. rd.ack # p.gen
  BY <1>2, SMT DEF StreamsAreKnown
<1>4. \A s \in Streams : 1 <= p.gen[s] /\ rd.ack[s] <= p.gen[s]
  BY <1>2, SMT
<1> QED
  BY <1>1, <1>3, <1>4 DEF BoundaryInv, FailureCloses, Snapshot, MarkersArrive, AckAnswered

(* ------------------------------ the theorems ---------------------------- *)

LEMMA InitInv ==
  ASSUME StreamsAreKnown, InputInit
  PROVE  InputInv
<1> DEFINE none == [s \in Streams |-> NoHead]
           c == [t |-> "ready", gen |-> Vector(0), trans |-> 1, on |-> FALSE]
<1>1. "actions" \in Streams /\ Vector(0) \in Generations /\ Vector(1) \in Generations
      /\ \A s \in Streams : Vector(0)[s] = 0 /\ Vector(1)[s] = 1
  BY DEF StreamsAreKnown, Vector, Generations
<1>2. p \in ProviderState /\ p.committed = 0 /\ p.gen = Vector(1) /\ p.trans = 1
  BY <1>1 DEF InputInit, ProviderState, Phase
<1>3. pub = Snapshot(p) /\ pub \in Authority /\ pub.committed = 0 /\ Mirrored
  BY <1>2, SnapshotIs DEF InputInit, Mirrored
<1>4. none \in [Streams -> Record \cup {NoHead}] /\ \A s \in Streams : none[s] = NoHead
  OBVIOUS
<1> DEFINE summary == [Snapshot(p) EXCEPT !.gen = Vector(0), !.pending = {}, !.trans = 0]
<1>5. summary \in Authority
  BY <1>1, <1>3 DEF Authority
<1>6. NoHead \in Record \cup {NoHead}
  OBVIOUS
<1>7. rd = [state |-> summary, head |-> none,
            seen |-> Vector(0), ack |-> Vector(0), cancel |-> Vector(0), last |-> 0, cutoff |-> 0,
            cancellation |-> {}, local_cancel |-> {}, pc |-> "idle", event |-> NoHead, stamp |-> 0,
            on |-> "actions", acking |-> FALSE, request |-> "none", changing |-> {}, trans |-> 1, asked |-> 0]
  BY DEF InputInit
<1> HIDE DEF summary, none
<1>8. rd \in ReaderState
  <2> HIDE DEF NoHead
  <2> QED
    BY <1>1, <1>4, <1>5, <1>6, <1>7 DEF ReaderState, Place
<1>9. ring \in [Streams -> Seq(Record)] /\ \A s \in Streams : ring[s] = << >>
  BY DEF InputInit
<1>10. cmds = <<c>> /\ replies = << >>
  BY DEF InputInit
<1>11. c \in Command /\ ~Change(c)
  BY <1>1 DEF Command, Sent, Change
<1> HIDE DEF c
<1>12. cmds \in Seq(Command) /\ replies \in Seq(AnswerMessage) /\ NoChange(cmds) /\ NoChange(replies)
  <2>1. DOMAIN cmds = {1} /\ cmds[1] = c /\ DOMAIN replies = {}
    BY <1>10, SMT
  <2> QED
    BY <1>10, <1>11, <2>1 DEF NoChange, Elements
<1>13. InputTyped
  BY <1>2, <1>3, <1>8, <1>9, <1>12 DEF InputTyped, Command, AnswerMessage
<1>14. \A s \in Streams : rd.head[s] = NoHead /\ DOMAIN ring[s] = {} /\ Waiting(s) = {}
  <2>1. \A s \in Streams : rd.head[s] = NoHead
    BY <1>4, <1>7
  <2>2. \A s \in Streams : DOMAIN ring[s] = {}
    BY <1>9, SMT
  <2> QED
    BY <2>1, <2>2 DEF Waiting, Elements
<1>15. MergeInv
  <2>1. rd.last = 0 /\ p.committed = 0 /\ rd.pc = "idle"
    BY <1>2, <1>7
  <2>2. RecordsInOrder /\ OneStream
    BY <1>14 DEF RecordsInOrder, OneStream, Orderly
  <2>3. Untaken
    BY <1>14, <2>1, SMT DEF Untaken
  <2>4. (rd.last + 1)..p.committed = {}
    BY <2>1, SMT
  <2>5. NothingLost
    BY <2>4 DEF NothingLost
  <2>6. BeyondCutoff
    BY <1>3, <2>1 DEF BeyondCutoff, Filled
  <2> QED
    BY <2>2, <2>3, <2>5, <2>6 DEF MergeInv
<1>16. FreshInv
  <2>1. Stamped
    BY <1>1, <1>2, <1>7, <1>14, SMT DEF Stamped
  <2>2. Held
    BY <1>7 DEF Held
  <2>3. OneChange
    BY <1>12 DEF OneChange, Single, NoChange, Elements
  <2>4. Told
    BY <1>2, <1>7, <1>12 DEF Told, NoChange
  <2> QED
    BY <1>3, <2>1, <2>2, <2>3, <2>4 DEF FreshInv
<1> QED
  BY <1>13, <1>15, <1>16 DEF InputInv

LEMMA NextInv ==
  ASSUME StreamsAreKnown, InputInv, InputNext
  PROVE  InputInv' /\ InLine
<1>1. CASE Reader
  BY <1>1, NextBeginStep, ReadHeadsStep, NextChooseStep, TakeCancellationStep, ApplyStep,
     SubmitBoundaryStep, HearStep, ResumeStep DEF Reader
<1>2. ASSUME rd' = rd PROVE InLine
  BY <1>2 DEF InLine
<1>3. CASE Publish
  BY <1>2, <1>3, PublishStep DEF Publish
<1>4. CASE Progress
  BY <1>2, <1>4, ProgressStep DEF Progress
<1>5. CASE InputCommand
  BY <1>2, <1>5, InputCommandStep DEF InputCommand
<1>6. ASSUME NEW neutral \in BOOLEAN, ObserveSubject(neutral) PROVE InputInv' /\ InLine
  BY <1>2, <1>6, ObserveStep DEF ObserveSubject
<1>7. ASSUME NEW s \in Streams, PostInput(s) PROVE InputInv' /\ InLine
  BY <1>2, <1>7, PostInputStep DEF PostInput
<1>8. CASE CloseInput
  BY <1>2, <1>8, CloseInputStep DEF CloseInput
<1>9. CASE RequestChange("context", FALSE, Streams)
  BY <1>9, RequestChangeStep
<1>10. ASSUME NEW on \in BOOLEAN, RequestChange("target", on, {"text"}) PROVE InputInv' /\ InLine
  <2>1. {"text"} \in SUBSET Streams
    BY <1>10 DEF RequestChange
  <2> QED
    BY <1>10, <2>1, RequestChangeStep
<1> QED
  BY <1>1, <1>3, <1>4, <1>5, <1>6, <1>7, <1>8, <1>9, <1>10 DEF InputNext, Provider

LEMMA StutterInv ==
  ASSUME InputInv, UNCHANGED input
  PROVE  InputInv' /\ InLine
BY DEF input, InputInv, InputTyped, MergeInv, RecordsInOrder, Untaken, OneStream, NothingLost, BeyondCutoff, Filled,
       FreshInv, Mirrored, Stamped, Held, OneChange, Single, NoChange, Told, OfContext, Running, Waiting, InLine

LEMMA Assumed == StreamsAreKnown /\ LimitsAreNatural
BY InputAssumption DEF StreamsAreKnown, LimitsAreNatural

LEMMA InputAlways == InputSpec => []InputInv
<1>1. InputInit => InputInv
  BY Assumed, InitInv
<1>2. InputInv /\ [InputNext]_input => InputInv'
  BY Assumed, NextInv, StutterInv
<1> QED
  BY <1>1, <1>2, PTL DEF InputSpec

\* Each ring stays within its capacity, generations and sequence numbers stop
\* at their limits and never wrap (a connection that cannot advance closes),
\* and the reader is always in a state from which it can go on or has ended.
THEOREM InputTypeCorrect == InputSpec => []InputTypeOK
<1> DEFINE LInv == InputInv /\ WithinLimits(p) /\ RingsFit
<1>1. InputInit => LInv
  <2> SUFFICES ASSUME InputInit PROVE WithinLimits(p) /\ RingsFit
    BY Assumed, InitInv
  <2>1. p.committed = 0 /\ \A s \in Streams : p.gen[s] = 1
    BY DEF InputInit, Vector
  <2>2. \A s \in Streams : Len(ring[s]) = 0
    BY SMT DEF InputInit
  <2> QED
    BY Assumed, <2>1, <2>2, SMT DEF WithinLimits, RingsFit, LimitsAreNatural
<1>2. LInv /\ [InputNext]_input => LInv'
  <2>1. LInv /\ UNCHANGED input => LInv'
    BY StutterInv DEF WithinLimits, RingsFit, input
  <2>2. LInv /\ InputNext => LInv'
    BY Assumed, NextInv, LimitsStep DEF InputInv
  <2> QED
    BY <2>1, <2>2
<1>3. LInv => InputTypeOK
  <2> SUFFICES ASSUME LInv PROVE InputTypeOK
    OBVIOUS
  <2>1. p \in ProviderState /\ rd \in ReaderState
    BY DEF InputInv, InputTyped
  <2>2. p.committed \in 0..SequenceLimit
    BY Assumed, <2>1, SMT DEF WithinLimits, LimitsAreNatural, ProviderState
  <2>3. p.gen \in [Streams -> Nat]
    BY <2>1 DEF ProviderState, Generations
  <2>4. \A s \in Streams : p.gen[s] \in 1..GenerationLimit
    BY Assumed, <2>3, SMT DEF WithinLimits, LimitsAreNatural
  <2>5. p.gen \in [Streams -> 1..GenerationLimit]
    BY <2>3, <2>4
  <2> QED
    BY <2>1, <2>2, <2>5 DEF InputTypeOK, ProviderState, ReaderState, Phase, Place, RingsFit
<1> HIDE DEF LInv
<1> QED
  BY <1>1, <1>2, <1>3, PTL DEF InputSpec

\* CInputReader::next merges the two rings without a gap: the record it takes
\* is the one after the last it took, whatever the provider posts between its
\* look at one ring and its look at the other, and it never finds the stream
\* of records broken.
THEOREM Merged == InputSpec => MergeInOrder
<1>1. InputInit => InputInv
  BY Assumed, InitInv
<1>2. InputInv /\ [InputNext]_input => InputInv'
  BY Assumed, NextInv, StutterInv
<1>3. InputInv /\ [InputNext]_input => [rd'.last # rd.last => rd'.last = rd.last + 1]_input
  BY Assumed, NextInv, StutterInv DEF InLine
<1> QED
  BY <1>1, <1>2, <1>3, PTL DEF InputSpec, MergeInOrder

\* A record that CInputReader::validate lets through was posted under the
\* generation it is stamped with and under the context the client was told
\* it is in, though the record itself carries neither.
THEOREM Fresh == InputSpec => []FreshInput
<1>1. InputInv => FreshInput
  <2> SUFFICES ASSUME InputInv, rd.pc = "idle", rd.event # NoHead, Current(Refresh(rd))
               PROVE  rd.event.gen = rd.stamp /\ rd.event.trans = rd.trans
    BY DEF FreshInput
  <2> DEFINE r == Refresh(rd)
  <2>1. /\ r.state = pub /\ r.stamp = rd.stamp /\ r.on = rd.on /\ r.local_cancel = rd.local_cancel
        /\ pub.phase = p.phase /\ pub.gen = p.gen /\ rd.on \in Streams
    BY Refreshed DEF Asks, InputInv, FreshInv, Mirrored, InputTyped, ReaderState
  <2>2. /\ r.state.phase = "active" /\ r.on \notin r.local_cancel /\ r.stamp = r.state.gen[r.on]
    BY DEF Current, Allowed
  <2> HIDE DEF r
  <2>3. p.phase # "closing" /\ rd.on \notin rd.local_cancel /\ rd.stamp = p.gen[rd.on]
    BY <2>1, <2>2
  <2>4. rd.event.gen = rd.stamp /\ rd.event.trans = p.trans
    BY <2>3 DEF InputInv, FreshInv, Held, OfContext
  <2>5. rd.trans = p.trans
    BY <2>1, <2>3 DEF InputInv, FreshInv, Told, Running
  <2> QED
    BY <2>4, <2>5
<1> QED
  BY <1>1, InputAlways, PTL

\* The boundary handshake never waits for itself: with a boundary pending, and
\* nothing left to read or to answer, either CInputConnection::progress has a
\* marker to post or CInputReader::boundary_ready holds.
THEOREM NeverStalls == InputSpec => []BoundaryNeverStalls
<1> DEFINE BInv == InputInv /\ BoundaryInv
<1>1. InputInit => BInv
  BY Assumed, InitInv, BoundaryInit
<1>2. BInv /\ [InputNext]_input => BInv'
  BY Assumed, NextInv, StutterInv, BoundaryNext, BoundaryStutter
<1>3. BInv => BoundaryNeverStalls
  <2> DEFINE r == Refresh(rd)
  <2> SUFFICES ASSUME BInv, p.ready, p.phase # "closing", p.pending # {}, rd.pc = "idle",
                      \A s \in Streams : ring[s] = << >> /\ rd.head[s] = NoHead,
                      cmds = << >>, replies = << >>,
                      ~ \E s \in Streams : MarkerDue(s)
               PROVE  CanSubmit(r)
    BY DEF BoundaryNeverStalls, Closing
  <2>1. /\ p \in ProviderState /\ rd \in ReaderState /\ r \in ReaderState /\ r.state = pub /\ Sees(rd, r)
        /\ pub.phase = p.phase /\ pub.gen = p.gen /\ pub.pending = p.pending /\ Running
    BY RefreshSees DEF InputInv, InputTyped, FreshInv, Mirrored, BoundaryInv, Running
  <2>2. \A s \in Streams : Len(ring[s]) = 0 /\ DOMAIN ring[s] = {}
    BY SMT
  <2>3. \A s \in Streams : Room(s) /\ Waiting(s) = {}
    BY InputAssumption, <2>2, SMT DEF Room, Waiting, Elements
  <2>4. p.pending \subseteq Streams /\ p.pending \subseteq p.markers
    BY <2>1, <2>3 DEF MarkerDue, ProviderState
  <2>5. \A s \in p.pending : Noted(s)
    BY <2>1, <2>3, <2>4 DEF BoundaryInv, MarkersArrive, Marked
  <2>6. \A s \in p.pending : r.seen[s] = r.state.gen[s]
    BY <2>1, <2>4, <2>5 DEF Noted, Sees
  <2>7. Elements(cmds) = {} /\ Elements(replies) = {}
    <3>1. DOMAIN cmds = {} /\ DOMAIN replies = {}
      BY SMT
    <3> QED
      BY <3>1 DEF Elements
  <2>8. rd.ack # p.gen
    BY <2>1, <2>7 DEF BoundaryInv, AckAnswered, AckUnderWay
  <2>9. r.ack # p.gen
    <3>1. \A s \in Streams : /\ r.ack[s] = rd.ack[s] \/ r.ack[s] = 0
                             /\ 1 <= p.gen[s] /\ p.gen[s] \in Nat
      BY <2>1 DEF Sees, BoundaryInv, ProviderState, Generations
    <3>2. \A s \in Streams : r.ack[s] = p.gen[s] => rd.ack[s] = p.gen[s]
      BY <3>1, SMT
    <3>3. p.gen \in [Streams -> Nat] /\ rd.ack \in [Streams -> Nat]
      BY <2>1 DEF ProviderState, ReaderState, Generations
    <3> QED
      BY <2>8, <3>2, <3>3
  <2>10. ~pub.failure
    BY <2>1 DEF BoundaryInv, FailureCloses
  <2> HIDE DEF r
  <2> QED
    BY <2>1, <2>6, <2>9, <2>10 DEF CanSubmit
<1> HIDE DEF BInv
<1> QED
  BY <1>1, <1>2, <1>3, PTL DEF InputSpec

=============================================================================
