------------------------ MODULE TMpmcIndexRing_proofs ------------------------
(***************************************************************************)
(* Proofs about TMpmcIndexRing, for every set of threads, every capacity   *)
(* from two up and every width of the positions it divides.                *)
(*                                                                         *)
(* The argument looks at the Capacity positions from dequeue_position on.  *)
(* Each falls in a slot of its own, and the slot's sequence says how far   *)
(* it has come: a position that has been claimed by a push and not yet by  *)
(* a pop is being written or can be read; one that no push has claimed can *)
(* be written, or a pop of the lap before is still reading its slot.       *)
(*                                                                         *)
(* The ring implements BoundedFifo.  A push takes effect when it claims    *)
(* its position, before it has written the payload, so the refinement      *)
(* needs to know where the value of a claimed position is: Placed.         *)
(***************************************************************************)
EXTENDS TMpmcIndexRing, SequenceTheorems, TLAPS

(* ------------------------- arithmetic of positions ---------------------- *)

LEMMA Sizes == /\ Capacity \in Nat /\ Capacity >= 2
               /\ Modulus \in Nat /\ Modulus >= 4 * Capacity
               /\ \E laps \in Nat : Modulus = laps * Capacity
BY RingAssumption, SMT DEF Modulus

LEMMA Bounds == Capacity \in Nat /\ Capacity >= 2 /\ Modulus \in Nat /\ Modulus >= 4 * Capacity
BY Sizes

\* The remainder, for the divisors the model uses.
LEMMA Remainder ==
  ASSUME NEW a \in Int, NEW b \in Nat, b > 0
  PROVE  /\ a % b \in 0..(b - 1)
         /\ \E q \in Int : a = q * b + (a % b)
<1>1. /\ a % b \in 0..(b - 1)
      /\ a \div b \in Int /\ a = b * (a \div b) + (a % b)
  BY SMT
<1>2. a = (a \div b) * b + (a % b)
  BY <1>1, SMT
<1> QED
  BY <1>1, <1>2

\* A product with a positive factor is at least the other factor.
LEMMA AtLeastOnce ==
  ASSUME NEW q \in Int, NEW b \in Nat, q >= 1
  PROVE  q * b >= b
<1>1. (q - 1) * b >= 0
  BY SMT
<1> QED
  BY <1>1, SMT

LEMMA SameRemainder ==
  ASSUME NEW b \in Nat, NEW q \in Int, NEW p \in Int,
         NEW r \in 0..(b - 1), NEW s \in 0..(b - 1), q * b + r = p * b + s
  PROVE  q = p /\ r = s
<1>1. (q - p) * b = s - r /\ (p - q) * b = r - s
  BY SMT
<1>2. ~(q - p >= 1)
  <2>1. SUFFICES ASSUME q - p >= 1 PROVE FALSE
    OBVIOUS
  <2>2. (q - p) * b >= b
    BY <2>1, AtLeastOnce
  <2> QED
    BY <1>1, <2>2, SMT
<1>3. ~(p - q >= 1)
  <2>1. SUFFICES ASSUME p - q >= 1 PROVE FALSE
    OBVIOUS
  <2>2. (p - q) * b >= b
    BY <2>1, AtLeastOnce
  <2> QED
    BY <1>1, <2>2, SMT
<1>4. q = p
  BY <1>2, <1>3, SMT
<1> QED
  BY <1>1, <1>4, SMT

\* Within one lap either way, wrapping adds or takes off one modulus at most.
LEMMA Wrapping ==
  ASSUME NEW n \in Int, n >= -Modulus, n < 2 * Modulus
  PROVE  /\ Wrap(n) \in Words
         /\ n >= 0 /\ n < Modulus => Wrap(n) = n
         /\ n >= Modulus => Wrap(n) = n - Modulus
         /\ n < 0 => Wrap(n) = n + Modulus
<1>1. Modulus \in Nat /\ Modulus > 0
  BY Sizes, SMT
<1>2. Wrap(n) \in 0..(Modulus - 1) /\ \E q \in Int : n = q * Modulus + Wrap(n)
  BY <1>1, Remainder DEF Wrap
<1>3. PICK q \in Int : n = q * Modulus + Wrap(n)
  BY <1>2
<1> DEFINE w == Wrap(n)
           m == Modulus
<1>4. w \in 0..(m - 1) /\ n = q * m + w /\ m \in Nat /\ m > 0
  BY <1>1, <1>2, <1>3
<1>5. n >= -m /\ n < 2 * m
  OBVIOUS
<1> HIDE DEF w, m
<1>6. ASSUME n >= 0, n < m PROVE w = n
  <2>1. q * m + w = 0 * m + n
    BY <1>4, SMT
  <2> QED
    BY <2>1, <1>4, <1>6, SameRemainder, SMT
<1>7. ASSUME n >= m PROVE w = n - m
  <2>1. q * m + w = 1 * m + (n - m) /\ n - m \in 0..(m - 1)
    BY <1>4, <1>5, <1>7, SMT
  <2> QED
    BY <2>1, <1>4, SameRemainder
<1>8. ASSUME n < 0 PROVE w = n + m
  <2>1. q * m + w = (-1) * m + (n + m) /\ n + m \in 0..(m - 1)
    BY <1>4, <1>5, <1>8, SMT
  <2>2. -1 \in Int
    OBVIOUS
  <2> QED
    BY <2>1, <2>2, <1>4, SameRemainder
<1> QED
  BY <1>2, <1>6, <1>7, <1>8 DEF w, m, Words

LEMMA SlotOfIs ==
  ASSUME NEW n \in Int, NEW q \in Int, NEW r \in Slots, n = q * Capacity + r
  PROVE  SlotOf(n) = r
<1>1. PICK p \in Int : n = p * Capacity + (n % Capacity)
  BY Remainder, Sizes, SMT
<1>2. n % Capacity \in Slots
  BY Remainder, Sizes, SMT DEF Slots
<1> DEFINE s == n % Capacity
<1>3. s \in Slots /\ p * Capacity + s = q * Capacity + r
  BY <1>1, <1>2
<1> HIDE DEF s
<1>4. s = r
  BY <1>3, SameRemainder, Sizes DEF Slots
<1> QED
  BY <1>4 DEF s, SlotOf

LEMMA InSlots ==
  ASSUME NEW n \in Int
  PROVE  /\ SlotOf(n) \in Slots
         /\ \E q \in Int : n = q * Capacity + SlotOf(n)
<1>1. Capacity \in Nat /\ Capacity > 0
  BY Sizes, SMT
<1>2. /\ n % Capacity \in 0..(Capacity - 1)
      /\ \E q \in Int : n = q * Capacity + (n % Capacity)
  BY <1>1, Remainder
<1> QED
  BY <1>2 DEF SlotOf, Slots

\* A position falls in the slot of the position one lap before it.
LEMMA Around ==
  ASSUME NEW d \in Words
  PROVE  SlotOf(Wrap(d + Capacity)) = SlotOf(d)
<1>1. PICK laps \in Nat : Modulus = laps * Capacity
  BY Sizes
<1>2. d \in Int /\ d >= 0 /\ d < Modulus
  BY Sizes, SMT DEF Words
<1>3. PICK q \in Int : d = q * Capacity + SlotOf(d)
  BY <1>2, InSlots
<1>4. SlotOf(d) \in Slots
  BY <1>2, InSlots
<1>5. Wrap(d + Capacity) \in {d + Capacity, d + Capacity - Modulus}
  BY <1>2, Wrapping, Sizes, SMT
<1> DEFINE r == SlotOf(d)
           c == Capacity
<1>6. d = q * c + r /\ Modulus = laps * c /\ c \in Nat /\ r \in Int
  BY <1>1, <1>3, <1>4, Sizes, SMT DEF Slots
<1> HIDE DEF r, c
<1>7. /\ d + c = (q + 1) * c + r
      /\ d + c - Modulus = (q + 1 - laps) * c + r
  BY <1>6, SMT
<1>8. d + Capacity \in Int /\ d + Capacity - Modulus \in Int
      /\ q + 1 \in Int /\ q + 1 - laps \in Int
  BY <1>2, Sizes, SMT
<1>9. SlotOf(d + Capacity) = r /\ SlotOf(d + Capacity - Modulus) = r
  BY <1>4, <1>7, <1>8, SlotOfIs DEF r, c
<1> QED
  BY <1>5, <1>9 DEF r

\* Capacity positions in a row fall in different slots, across the wrap too.
LEMMA WindowUp ==
  ASSUME NEW d \in Words, NEW i \in Slots, NEW j \in Slots, i <= j,
         SlotOf(Wrap(d + i)) = SlotOf(Wrap(d + j))
  PROVE  i = j
<1> DEFINE a == Wrap(d + i)
           b == Wrap(d + j)
           r == SlotOf(a)
           c == Capacity
<1>1. PICK laps \in Nat : Modulus = laps * c
  BY Sizes
<1>2. d \in Int /\ d >= 0 /\ d < Modulus /\ c \in Nat /\ c >= 2 /\ Modulus >= 4 * c
      /\ Modulus \in Nat
  BY Sizes, SMT DEF Words
<1>3. i \in Nat /\ j \in Nat /\ i < c /\ j < c
  BY <1>2, SMT DEF Slots
<1>4. /\ a \in {d + i, d + i - Modulus} /\ (a = d + i - Modulus => d + i >= Modulus)
      /\ b \in {d + j, d + j - Modulus} /\ (b = d + j => d + j < Modulus)
  BY <1>2, <1>3, Wrapping, SMT
<1>5. a \in Int /\ b \in Int
  BY <1>2, <1>3, <1>4, SMT
<1>6. PICK q \in Int : a = q * c + r
  BY <1>5, InSlots
<1>7. PICK p \in Int : b = p * c + r
  BY <1>5, InSlots
<1>8. r \in Int
  BY <1>5, InSlots, Sizes, SMT DEF Slots
<1> HIDE DEF a, b, r, c
<1>9. b - a = j - i \/ b - a = j - i - Modulus
  BY <1>2, <1>3, <1>4, SMT
<1>10. (p - q) * c + 0 = b - a
  BY <1>2, <1>6, <1>7, <1>8, SMT
<1>11. j - i \in 0..(c - 1) /\ 0 \in 0..(c - 1)
  BY <1>2, <1>3, SMT
<1>12. CASE b - a = j - i
  <2>1. (p - q) * c + 0 = 0 * c + (j - i) /\ p - q \in Int
    BY <1>2, <1>3, <1>10, <1>12, SMT
  <2>2. 0 = j - i
    BY <2>1, <1>2, <1>11, SameRemainder
  <2> QED
    BY <2>2, <1>3, SMT
<1>13. CASE b - a = j - i - Modulus
  <2>1. (p - q) * c + laps * c = (p - q + laps) * c
    BY <1>2, SMT
  <2>2. (p - q + laps) * c + 0 = 0 * c + (j - i) /\ p - q + laps \in Int
    BY <2>1, <1>1, <1>2, <1>3, <1>10, <1>13, SMT
  <2>3. 0 = j - i
    BY <2>2, <1>2, <1>11, SameRemainder
  <2> QED
    BY <2>3, <1>3, SMT
<1> QED
  BY <1>9, <1>12, <1>13

LEMMA Window ==
  ASSUME NEW d \in Words, NEW i \in Slots, NEW j \in Slots,
         SlotOf(Wrap(d + i)) = SlotOf(Wrap(d + j))
  PROVE  i = j
<1>1. i <= j \/ j <= i
  BY Sizes, SMT DEF Slots
<1> QED
  BY <1>1, WindowUp

(* -------------------------- the invariant ------------------------------- *)

\* The j-th position from the one that will be popped next.
At(j) == Wrap(dequeue_position + j)

\* A position that a push has claimed: written or being written.
Claimed ==
  \A j \in Slots : j < Occupied => sequence[SlotOf(At(j))] \in {At(j), Wrap(At(j) + 1)}

\* One that none has claimed: free, or its slot is being read a lap behind.
Unclaimed ==
  \A j \in Slots : j >= Occupied =>
    sequence[SlotOf(At(j))] \in {At(j), Wrap(At(j) + 1 - Capacity)}

Inside(t, call) == pc[t] \in {"claimed", "accessed"} /\ op[t] = call

\* Whoever is inside a slot holds a position of the window, and the slot's
\* sequence is still the one it found.
Writers ==
  \A t \in Thread : Inside(t, "push") =>
    /\ sequence[SlotOf(position[t])] = position[t]
    /\ \E j \in Slots : j < Occupied /\ position[t] = At(j)

Readers ==
  \A t \in Thread : Inside(t, "pop") =>
    /\ sequence[SlotOf(position[t])] = Wrap(position[t] + 1)
    /\ \E j \in Slots : j >= Occupied /\ Wrap(position[t] + Capacity) = At(j)

ClaimedOnce ==
  \A t, u \in Thread, call \in {"push", "pop"} :
    Inside(t, call) /\ Inside(u, call) /\ position[t] = position[u] => t = u

\* A position that was loaded has not fallen out of reach of its counter.
Lag(t) == Wrap(Counter(t) - position[t])

InReach == \A t \in Thread : pc[t] \in {"look", "swap"} => Lag(t) <= StallBound

\* If the counter still stands where it was loaded, the slot that was found
\* ready is ready.
StillReady ==
  \A t \in Thread : pc[t] = "swap" /\ Counter(t) = position[t] =>
    /\ op[t] = "push" => sequence[SlotOf(position[t])] = position[t]
    /\ op[t] = "pop" => sequence[SlotOf(position[t])] = Wrap(position[t] + 1)

InCall ==
  \A t \in Thread : pc[t] # "idle" =>
    op[t] \in {"push", "pop"} /\ (op[t] = "push" => arg[t] \in Value)

IInv == /\ TypeOK /\ InCall
        /\ CountersInRange /\ Claimed /\ Unclaimed
        /\ Writers /\ Readers /\ ClaimedOnce
        /\ InReach /\ StillReady

(* --------------------- positions along the window ----------------------- *)

LEMMA WordIsInt == \A w \in Words : w \in Int /\ w >= 0 /\ w < Modulus
BY Sizes, SMT DEF Words

LEMMA Forward ==
  ASSUME NEW a \in Words, NEW x \in 0..Capacity
  PROVE  /\ Wrap(a + x) \in Words
         /\ a + x < Modulus => Wrap(a + x) = a + x
         /\ a + x >= Modulus => Wrap(a + x) = (a + x) - Modulus
<1> DEFINE n == a + x
<1>1. n \in Int /\ n >= 0 /\ n < 2 * Modulus /\ n >= -Modulus
  BY WordIsInt, Sizes, SMT
<1> HIDE DEF n
<1>2. /\ Wrap(n) \in Words
      /\ n >= 0 /\ n < Modulus => Wrap(n) = n
      /\ n >= Modulus => Wrap(n) = n - Modulus
  BY <1>1, Wrapping
<1>3. /\ Wrap(n) \in Words
      /\ n < Modulus => Wrap(n) = n
      /\ n >= Modulus => Wrap(n) = n - Modulus
  BY <1>1, <1>2
<1> QED
  BY <1>3 DEF n

LEMMA Between ==
  ASSUME NEW a \in Words, NEW b \in Words
  PROVE  /\ Wrap(a - b) \in Words
         /\ a >= b => Wrap(a - b) = a - b
         /\ a < b => Wrap(a - b) = a - b + Modulus
<1> DEFINE n == a - b
<1>1. /\ n \in Int /\ n >= -Modulus /\ n < 2 * Modulus /\ n < Modulus
      /\ a >= b => n >= 0
      /\ a < b => n < 0
  BY WordIsInt, Sizes, SMT
<1> HIDE DEF n
<1>2. /\ Wrap(n) \in Words
      /\ n >= 0 /\ n < Modulus => Wrap(n) = n
      /\ n < 0 => Wrap(n) = n + Modulus
  BY <1>1, Wrapping
<1>3. /\ Wrap(n) \in Words
      /\ a >= b => Wrap(n) = n
      /\ a < b => Wrap(n) = n + Modulus
  BY <1>1, <1>2
<1> QED
  BY <1>3 DEF n

\* Two steps of at most a lap of the ring are the same only if they are equal.
LEMMA SameStep ==
  ASSUME NEW a \in Words, NEW x \in 0..Capacity, NEW y \in 0..Capacity,
         Wrap(a + x) = Wrap(a + y)
  PROVE  x = y
<1> DEFINE u == Wrap(a + x)
           v == Wrap(a + y)
<1>1. /\ a + x < Modulus => u = a + x
      /\ a + x >= Modulus => u = (a + x) - Modulus
      /\ a + y < Modulus => v = a + y
      /\ a + y >= Modulus => v = (a + y) - Modulus
      /\ u = v
  BY Forward
<1> HIDE DEF u, v
<1> QED
  BY <1>1, WordIsInt, Sizes, SMT

LEMMA SameStart ==
  ASSUME NEW a \in Words, NEW b \in Words, NEW x \in 0..Capacity,
         Wrap(a + x) = Wrap(b + x)
  PROVE  a = b
<1> DEFINE u == Wrap(a + x)
           v == Wrap(b + x)
<1>1. /\ a + x < Modulus => u = a + x
      /\ a + x >= Modulus => u = (a + x) - Modulus
      /\ b + x < Modulus => v = b + x
      /\ b + x >= Modulus => v = (b + x) - Modulus
      /\ u = v
  BY Forward
<1> HIDE DEF u, v
<1> QED
  BY <1>1, WordIsInt, Sizes, SMT

LEMMA NoStep == \A a \in Words : Wrap(a + 0) = a
<1> TAKE a \in Words
<1>1. 0 \in 0..Capacity /\ a + 0 = a /\ a < Modulus /\ a \in Int
  BY WordIsInt, Sizes, SMT
<1> QED
  BY <1>1, Forward

\* Counters move by one.
LEMMA Next1 ==
  ASSUME NEW a \in Words
  PROVE  /\ Wrap(a + 1) \in Words
         /\ a + 1 < Modulus => Wrap(a + 1) = a + 1
         /\ a + 1 >= Modulus => Wrap(a + 1) = (a + 1) - Modulus
<1>1. 1 \in 0..Capacity
  BY Sizes, SMT
<1> QED
  BY <1>1, Forward

LEMMA OneMore ==
  ASSUME NEW d \in Words, NEW e \in Words, Wrap(e - d) < Capacity
  PROVE  Wrap(Wrap(e + 1) - d) = Wrap(e - d) + 1
<1> DEFINE f == Wrap(e + 1)
           o == Wrap(e - d)
<1>1. /\ f \in Words
      /\ e + 1 < Modulus => f = e + 1
      /\ e + 1 >= Modulus => f = (e + 1) - Modulus
  BY Next1
<1>2. /\ e >= d => o = e - d
      /\ e < d => o = e - d + Modulus
      /\ o < Capacity
  BY Between
<1> HIDE DEF f, o
<1> DEFINE n == Wrap(f - d)
<1>3. /\ f >= d => n = f - d
      /\ f < d => n = f - d + Modulus
  BY <1>1, Between
<1> HIDE DEF n
<1>4. n = o + 1
  BY <1>1, <1>2, <1>3, WordIsInt, Bounds, SMT
<1> QED
  BY <1>4 DEF f, o, n

LEMMA OneLess ==
  ASSUME NEW d \in Words, NEW e \in Words, Wrap(e - d) > 0
  PROVE  Wrap(e - Wrap(d + 1)) = Wrap(e - d) - 1
<1> DEFINE f == Wrap(d + 1)
           o == Wrap(e - d)
<1>1. /\ f \in Words
      /\ d + 1 < Modulus => f = d + 1
      /\ d + 1 >= Modulus => f = (d + 1) - Modulus
  BY Next1
<1>2. /\ e >= d => o = e - d
      /\ e < d => o = e - d + Modulus
      /\ o > 0
  BY Between
<1> HIDE DEF f, o
<1> DEFINE n == Wrap(e - f)
<1>3. /\ e >= f => n = e - f
      /\ e < f => n = e - f + Modulus
  BY <1>1, Between
<1> HIDE DEF n
<1>4. n = o - 1
  BY <1>1, <1>2, <1>3, WordIsInt, Bounds, SMT
<1> QED
  BY <1>4 DEF f, o, n

LEMMA StepOn ==
  ASSUME NEW d \in Words, NEW j \in Slots
  PROVE  Wrap(Wrap(d + 1) + j) = Wrap(d + (j + 1))
<1>1. j \in 0..Capacity /\ j + 1 \in 0..Capacity
  BY Sizes, SMT DEF Slots
<1> DEFINE f == Wrap(d + 1)
           i == j + 1
<1>2. /\ f \in Words
      /\ d + 1 < Modulus => f = d + 1
      /\ d + 1 >= Modulus => f = (d + 1) - Modulus
  BY Next1
<1> HIDE DEF f
<1> DEFINE n == Wrap(f + j)
           m == Wrap(d + i)
<1>3. /\ f + j < Modulus => n = f + j
      /\ f + j >= Modulus => n = (f + j) - Modulus
  BY <1>1, <1>2, Forward
<1>4. /\ d + i < Modulus => m = d + i
      /\ d + i >= Modulus => m = (d + i) - Modulus
  <2> HIDE DEF i
  <2>1. i \in 0..Capacity
    BY <1>1 DEF i
  <2> QED
    BY <2>1, Forward
<1> HIDE DEF n, m
<1>5. n = m
  BY <1>1, <1>2, <1>3, <1>4, WordIsInt, Bounds, SMT
<1> QED
  BY <1>5 DEF f, n, m, i

\* The counter that passed a position by one lap all but one is out of reach.
LEMMA Reach ==
  ASSUME NEW a \in Words, NEW b \in Words
  PROVE  /\ Wrap(Wrap(a + 1) - b) = Wrap(a + 1 - b)
         /\ Wrap(a + 1) = b => Wrap(a - b) > StallBound
         /\ Wrap(a - a) <= StallBound
<1>2. StallBound \in Int /\ StallBound >= 0 /\ StallBound < Modulus - 1
  BY Sizes, SMT DEF StallBound
<1> DEFINE n == a + 1 - b
           f == Wrap(a + 1)
           g == Wrap(n)
           h == Wrap(a - b)
           z == Wrap(a - a)
<1>3. n \in Int /\ n >= -Modulus /\ n < 2 * Modulus
  BY WordIsInt, Bounds, SMT
<1>4. /\ n >= 0 /\ n < Modulus => g = n
      /\ n >= Modulus => g = n - Modulus
      /\ n < 0 => g = n + Modulus
  <2> HIDE DEF n
  <2> QED
    BY <1>3, Wrapping
<1>5. /\ f \in Words
      /\ a + 1 < Modulus => f = a + 1
      /\ a + 1 >= Modulus => f = (a + 1) - Modulus
  BY Next1
<1>6. /\ a >= b => h = a - b
      /\ a < b => h = a - b + Modulus
      /\ a >= a => z = a - a
  BY Between
<1> HIDE DEF f, g, h, z
<1> DEFINE k == Wrap(f - b)
<1>7. /\ f >= b => k = f - b
      /\ f < b => k = f - b + Modulus
  BY <1>5, Between
<1> HIDE DEF k
<1>8. k = g
  BY <1>3, <1>4, <1>5, <1>7, WordIsInt, Bounds, SMT
<1>9. f = b => h > StallBound
  BY <1>2, <1>5, <1>6, WordIsInt, Bounds, SMT
<1>10. z <= StallBound
  BY <1>2, <1>6, WordIsInt, SMT
<1> QED
  BY <1>8, <1>9, <1>10 DEF f, g, h, k, z, n

LEMMA NoDifference ==
  ASSUME NEW a \in Words, NEW b \in Words, Difference(a, b) = 0
  PROVE  a = b
<1> DEFINE h == Wrap(a - b)
<1>1. /\ h \in Words
      /\ a >= b => h = a - b
      /\ a < b => h = a - b + Modulus
  BY Between
<1>2. Signed(h) = 0
  BY DEF Difference
<1> HIDE DEF h
<1>3. h = 0
  BY <1>1, <1>2, WordIsInt, Bounds, SMT DEF Signed
<1> QED
  BY <1>1, <1>3, WordIsInt, Bounds, SMT

(* ------------------------------ the ring -------------------------------- *)

\* Where the counters stand in the window.
LEMMA Numbers ==
  ASSUME TypeOK, CountersInRange
  PROVE  /\ dequeue_position \in Words /\ enqueue_position \in Words
         /\ Occupied \in 0..Capacity
         /\ enqueue_position = At(Occupied)
         /\ At(0) = dequeue_position
         /\ 0 \in Slots
         /\ \A j \in Slots : At(j) \in Words /\ j \in 0..Capacity
<1> DEFINE d == dequeue_position
           e == enqueue_position
           o == Occupied
<1>1. d \in Words /\ e \in Words
  BY DEF TypeOK
<1>2. /\ o \in Words
      /\ e >= d => o = e - d
      /\ e < d => o = e - d + Modulus
      /\ o <= Capacity
  BY <1>1, Between DEF Occupied, CountersInRange
<1> HIDE DEF d, e, o
<1>3. o \in 0..Capacity
  BY <1>2, WordIsInt, Bounds, SMT
<1> DEFINE m == Wrap(d + o)
<1>4. /\ d + o < Modulus => m = d + o
      /\ d + o >= Modulus => m = (d + o) - Modulus
  BY <1>1, <1>3, Forward
<1> HIDE DEF m
<1>5. e = m
  BY <1>1, <1>2, <1>3, <1>4, WordIsInt, Bounds, SMT
<1>6. Wrap(d + 0) = d
  BY <1>1, NoStep
<1>7. 0 \in Slots /\ \A j \in Slots : j \in 0..Capacity
  BY Bounds, SMT DEF Slots
<1>8. \A j \in Slots : Wrap(d + j) \in Words
  BY <1>1, <1>7, Forward
<1> QED
  BY <1>1, <1>3, <1>5, <1>6, <1>7, <1>8 DEF d, e, o, m, At

LEMMA ValueIsNoNothing == Slots \subseteq Value /\ Nothing \notin Value
BY RingAssumption DEF Slots

LEMMA AtStart ==
  ASSUME NEW i \in Slots, dequeue_position = 0
  PROVE  At(i) = i /\ SlotOf(At(i)) = i
<1>1. 0 \in Words /\ i \in Int /\ i >= 0 /\ i < Capacity /\ i \in 0..Capacity
  BY Bounds, SMT DEF Words, Slots
<1>2. At(i) = i
  <2>1. 0 + i = i /\ i < Modulus
    BY <1>1, Bounds, SMT
  <2> QED
    BY <1>1, <2>1, Forward DEF At
<1>3. SlotOf(i) = i
  <2>1. i = 0 * Capacity + i
    BY <1>1, Bounds, SMT
  <2> QED
    BY <1>1, <2>1, SlotOfIs
<1> QED
  BY <1>2, <1>3

(* The start: an empty ring, or a full one.                                *)
LEMMA InitInv == Init => IInv
<1> SUFFICES ASSUME Init PROVE IInv
  OBVIOUS
<1>1. PICK full \in BOOLEAN : Started(full)
  BY DEF Init
<1> USE <1>1 DEF Started
<1>2. /\ pc = [t \in Thread |-> "idle"] /\ op = [t \in Thread |-> "none"]
      /\ arg = [t \in Thread |-> Nothing] /\ position = [t \in Thread |-> 0]
      /\ result = [t \in Thread |-> Nothing]
  BY DEF Init
<1>3. /\ 0 \in Words /\ Capacity \in Words /\ \A i \in Slots : i \in Words /\ i + 1 \in Words
      /\ \A i \in Slots : i \in Int /\ i >= 0 /\ i < Capacity /\ i \in 0..Capacity
  BY Bounds, SMT DEF Words, Slots
<1>4. TypeOK
  <2>1. sequence \in [Slots -> Words]
    <3>1. CASE full
      BY <1>3, <3>1
    <3>2. CASE ~full
      BY <1>3, <3>2
    <3> QED
      BY <3>1, <3>2
  <2>2. payload \in [Slots -> Value]
    BY ValueIsNoNothing
  <2>3. enqueue_position \in Words /\ dequeue_position \in Words
    BY <1>3
  <2> QED
    BY <1>2, <1>3, <2>1, <2>2, <2>3 DEF TypeOK
<1>5. \A i \in Slots : At(i) = i /\ SlotOf(At(i)) = i
  BY AtStart
<1>6. CASE full
  <2>1. Occupied = Capacity
    <3>1. Capacity - 0 = Capacity /\ Capacity >= 0
      BY Bounds, SMT
    <3>2. Wrap(Capacity - 0) = Capacity - 0
      BY <1>3, <3>1, Between
    <3> QED
      BY <1>6, <3>1, <3>2 DEF Occupied
  <2>2. CountersInRange
    BY <2>1, Bounds, SMT DEF CountersInRange
  <2>3. Claimed
    <3> SUFFICES ASSUME NEW j \in Slots PROVE sequence[SlotOf(At(j))] = Wrap(At(j) + 1)
      BY DEF Claimed
    <3>1. j + 1 < Modulus
      BY <1>3, Bounds, SMT
    <3>2. Wrap(j + 1) = j + 1
      BY <1>3, <3>1, Next1
    <3> QED
      BY <1>5, <1>6, <3>2
  <2>4. Unclaimed
    BY <1>3, <2>1, Bounds, SMT DEF Unclaimed
  <2> QED
    BY <1>2, <1>4, <2>2, <2>3, <2>4
       DEF IInv, InCall, Writers, Readers, ClaimedOnce, InReach, StillReady, Inside
<1>7. CASE ~full
  <2>1. Occupied = 0
    <3>1. 0 >= 0 /\ 0 - 0 = 0
      OBVIOUS
    <3>2. Wrap(0 - 0) = 0 - 0
      BY <1>3, <3>1, Between
    <3> QED
      BY <1>7, <3>1, <3>2 DEF Occupied
  <2>2. CountersInRange
    BY <2>1, Bounds, SMT DEF CountersInRange
  <2>3. Claimed
    BY <1>3, <2>1, SMT DEF Claimed
  <2>4. Unclaimed
    BY <1>5, <1>7 DEF Unclaimed
  <2> QED
    BY <1>2, <1>4, <2>2, <2>3, <2>4
       DEF IInv, InCall, Writers, Readers, ClaimedOnce, InReach, StillReady, Inside
<1> QED
  BY <1>6, <1>7

(* A step of one thread that leaves the ring alone.                        *)
Others(t) == \A u \in Thread \ {t} : /\ pc'[u] = pc[u] /\ op'[u] = op[u]
                                     /\ arg'[u] = arg[u] /\ position'[u] = position[u]

LEMMA RingAlone ==
  ASSUME IInv, UNCHANGED <<sequence, positionVars>>
  PROVE  /\ CountersInRange' /\ Claimed' /\ Unclaimed'
         /\ Occupied' = Occupied /\ \A j \in Slots : At(j)' = At(j)
BY DEF IInv, CountersInRange, Claimed, Unclaimed, Occupied, At, positionVars

LEMMA OutsideStep ==
  ASSUME IInv, TypeOK', NEW t \in Thread, UNCHANGED <<sequence, positionVars>>, Others(t),
         pc'[t] \in {"idle", "look", "reload", "swap"},
         pc'[t] # "idle" => op'[t] \in {"push", "pop"} /\ (op'[t] = "push" => arg'[t] \in Value),
         pc'[t] \in {"look", "swap"} => Lag(t)' <= StallBound,
         pc'[t] = "swap" /\ Counter(t)' = position'[t] =>
           /\ op'[t] = "push" => sequence[SlotOf(position'[t])] = position'[t]
           /\ op'[t] = "pop" => sequence[SlotOf(position'[t])] = Wrap(position'[t] + 1)
  PROVE  IInv'
<1>1. /\ CountersInRange' /\ Claimed' /\ Unclaimed'
      /\ Occupied' = Occupied /\ \A j \in Slots : At(j)' = At(j)
  BY RingAlone
<1>2. \A u \in Thread, call \in {"push", "pop"} :
        Inside(u, call)' => u # t /\ Inside(u, call) /\ position'[u] = position[u]
  BY DEF Others, Inside
<1>3. sequence' = sequence /\ enqueue_position' = enqueue_position
      /\ dequeue_position' = dequeue_position
  BY DEF positionVars
<1>4. Writers'
  BY <1>1, <1>2, <1>3 DEF Writers, IInv
<1>5. Readers'
  BY <1>1, <1>2, <1>3 DEF Readers, IInv
<1>6. ClaimedOnce'
  BY <1>2 DEF ClaimedOnce, IInv
<1>7. InReach'
  <2> SUFFICES ASSUME NEW u \in Thread, pc'[u] \in {"look", "swap"} PROVE Lag(u)' <= StallBound
    BY DEF InReach, StallBound
  <2>1. CASE u = t
    BY <2>1
  <2>2. CASE u # t
    BY <1>3, <2>2 DEF Others, InReach, IInv, Lag, Counter
  <2> QED
    BY <2>1, <2>2
<1>8. StillReady'
  <2> SUFFICES ASSUME NEW u \in Thread, pc'[u] = "swap", Counter(u)' = position'[u]
               PROVE  /\ op'[u] = "push" => sequence[SlotOf(position'[u])] = position'[u]
                      /\ op'[u] = "pop" => sequence[SlotOf(position'[u])] = Wrap(position'[u] + 1)
    BY <1>3 DEF StillReady
  <2>1. CASE u = t
    BY <2>1
  <2>2. CASE u # t
    BY <1>3, <2>2 DEF Others, StillReady, IInv, Counter
  <2> QED
    BY <2>1, <2>2
<1>9. InCall'
  <2> SUFFICES ASSUME NEW u \in Thread, pc'[u] # "idle"
               PROVE  op'[u] \in {"push", "pop"} /\ (op'[u] = "push" => arg'[u] \in Value)
    BY DEF InCall
  <2>1. CASE u = t
    BY <2>1
  <2>2. CASE u # t
    BY <2>2 DEF Others, InCall, IInv
  <2> QED
    BY <2>1, <2>2
<1> QED
  BY <1>1, <1>4, <1>5, <1>6, <1>7, <1>8, <1>9 DEF IInv

(* ----------------- the steps outside the slots -------------------------- *)

LEMMA StartPush ==
  ASSUME IInv, NEW t \in Thread, NEW v \in Value, push(t, v)
  PROVE  IInv'
<1>1. /\ pc' = [pc EXCEPT ![t] = "look"] /\ op' = [op EXCEPT ![t] = "push"]
      /\ arg' = [arg EXCEPT ![t] = v]
      /\ position' = [position EXCEPT ![t] = enqueue_position]
      /\ UNCHANGED <<sequence, payload, enqueue_position, dequeue_position, result>>
  BY DEF push, Go, slotVars, positionVars
<1>2. TypeOK'
  BY <1>1 DEF TypeOK, IInv
<1>3. /\ pc'[t] = "look" /\ op'[t] = "push" /\ arg'[t] = v /\ position'[t] = enqueue_position
      /\ Others(t)
  BY <1>1 DEF TypeOK, IInv, Others
<1>4. Lag(t)' <= StallBound
  <2>1. Lag(t)' = Wrap(enqueue_position - enqueue_position)
    BY <1>1, <1>3 DEF Lag, Counter
  <2> QED
    BY <2>1, Reach DEF TypeOK, IInv
<1> QED
  BY <1>1, <1>2, <1>3, <1>4, OutsideStep DEF positionVars

LEMMA StartPop ==
  ASSUME IInv, NEW t \in Thread, pop(t)
  PROVE  IInv'
<1>1. /\ pc' = [pc EXCEPT ![t] = "look"] /\ op' = [op EXCEPT ![t] = "pop"]
      /\ position' = [position EXCEPT ![t] = dequeue_position]
      /\ UNCHANGED <<sequence, payload, enqueue_position, dequeue_position, arg, result>>
  BY DEF pop, Go, slotVars, positionVars
<1>2. TypeOK'
  BY <1>1 DEF TypeOK, IInv
<1>3. /\ pc'[t] = "look" /\ op'[t] = "pop" /\ position'[t] = dequeue_position
      /\ Others(t)
  BY <1>1 DEF TypeOK, IInv, Others
<1>4. Lag(t)' <= StallBound
  <2>1. Lag(t)' = Wrap(dequeue_position - dequeue_position)
    BY <1>1, <1>3 DEF Lag, Counter
  <2> QED
    BY <2>1, Reach DEF TypeOK, IInv
<1> QED
  BY <1>1, <1>2, <1>3, <1>4, OutsideStep DEF positionVars

LEMMA Refused ==
  ASSUME IInv, NEW t \in Thread, LookRefused(t)
  PROVE  IInv'
<1>1. /\ pc' = [pc EXCEPT ![t] = "idle"] /\ op' = [op EXCEPT ![t] = "none"]
      /\ arg' = [arg EXCEPT ![t] = Nothing] /\ position' = [position EXCEPT ![t] = 0]
      /\ result' = [result EXCEPT ![t] = Nothing]
      /\ UNCHANGED <<sequence, payload, enqueue_position, dequeue_position>>
  BY DEF LookRefused, Forget, Go, slotVars, positionVars
<1>2. 0 \in Words
  BY Bounds, SMT DEF Words
<1>3. TypeOK'
  BY <1>1, <1>2 DEF TypeOK, IInv
<1>4. pc'[t] = "idle" /\ Others(t)
  BY <1>1 DEF TypeOK, IInv, Others
<1> QED
  BY <1>1, <1>3, <1>4, OutsideStep DEF positionVars

\* A thread that goes on to its compare_exchange has found its slot ready.
LEMMA Decided ==
  ASSUME IInv, NEW t \in Thread, LookDecided(t)
  PROVE  IInv'
<1>1. /\ pc[t] = "look" /\ pc' = [pc EXCEPT ![t] = IF Ahead(t) > 0 THEN "reload" ELSE "swap"]
      /\ Ahead(t) >= 0
      /\ UNCHANGED <<sequence, payload, enqueue_position, dequeue_position, op, arg, position, result>>
  BY DEF LookDecided, Go, slotVars, positionVars
<1>2. TypeOK'
  BY <1>1 DEF TypeOK, IInv
<1>3. pc'[t] \in {"reload", "swap"} /\ (pc'[t] = "swap" => ~(Ahead(t) > 0)) /\ Others(t)
  BY <1>1 DEF TypeOK, IInv, Others
<1>4. op[t] \in {"push", "pop"} /\ (op[t] = "push" => arg[t] \in Value)
  BY <1>1 DEF IInv, InCall
<1>5. Lag(t)' <= StallBound
  BY <1>1 DEF IInv, InReach, Lag, Counter
<1>6. ASSUME pc'[t] = "swap"
      PROVE  /\ op[t] = "push" => sequence[SlotOf(position[t])] = position[t]
             /\ op[t] = "pop" => sequence[SlotOf(position[t])] = Wrap(position[t] + 1)
  <2>1. position[t] \in Words /\ position[t] \in Int
    BY WordIsInt DEF TypeOK, IInv
  <2>2. Wrap(position[t] + 1) \in Words
    BY <2>1, Next1
  <2>3. sequence[SlotOf(position[t])] \in Words
    BY <2>1, InSlots DEF TypeOK, IInv
  <2> DEFINE s == sequence[SlotOf(position[t])]
             w == IF op[t] = "push" THEN position[t] ELSE Wrap(position[t] + 1)
  <2>4. Ahead(t) = Difference(s, w) /\ s \in Words /\ w \in Words
    BY <2>1, <2>2, <2>3 DEF Ahead
  <2> HIDE DEF s, w
  <2>5. Difference(s, w) \in Int
    <3>1. Wrap(s - w) \in Words
      BY <2>4, Between
    <3> QED
      BY <3>1, WordIsInt, Bounds, SMT DEF Difference, Signed
  <2>6. Difference(s, w) = 0
    BY <1>1, <1>3, <1>6, <2>4, <2>5, SMT
  <2>7. s = w
    BY <2>4, <2>6, NoDifference
  <2> QED
    BY <2>7 DEF s, w
<1> QED
  BY <1>1, <1>2, <1>3, <1>4, <1>5, <1>6, OutsideStep DEF positionVars

LEMMA Again ==
  ASSUME IInv, NEW t \in Thread, Retry(t)
  PROVE  IInv'
<1>1. /\ pc[t] \in {"reload", "swap"} /\ pc' = [pc EXCEPT ![t] = "look"]
      /\ position' = [position EXCEPT ![t] = Counter(t)]
      /\ UNCHANGED <<sequence, payload, enqueue_position, dequeue_position, op, arg, result>>
  BY DEF Retry, Go, slotVars, positionVars
<1>2. Counter(t) \in Words
  BY DEF Counter, TypeOK, IInv
<1>3. TypeOK'
  BY <1>1, <1>2 DEF TypeOK, IInv
<1>4. pc'[t] = "look" /\ position'[t] = Counter(t) /\ Others(t)
  BY <1>1 DEF TypeOK, IInv, Others
<1>5. op[t] \in {"push", "pop"} /\ (op[t] = "push" => arg[t] \in Value)
  BY <1>1 DEF IInv, InCall
<1>6. Lag(t)' <= StallBound
  <2>1. Lag(t)' = Wrap(Counter(t) - Counter(t))
    BY <1>1, <1>4 DEF Lag, Counter
  <2> QED
    BY <1>2, <2>1, Reach
<1> QED
  BY <1>1, <1>3, <1>4, <1>5, <1>6, OutsideStep DEF positionVars

(* The plain access keeps the thread inside its slot.                      *)
LEMMA Accessed ==
  ASSUME IInv, NEW t \in Thread, Access(t)
  PROVE  IInv'
<1>1. /\ pc[t] = "claimed" /\ pc' = [pc EXCEPT ![t] = "accessed"]
      /\ UNCHANGED <<sequence, enqueue_position, dequeue_position, op, arg, position>>
  BY DEF Access, Go, positionVars
<1>2. op[t] \in {"push", "pop"} /\ (op[t] = "push" => arg[t] \in Value)
  BY <1>1 DEF IInv, InCall
<1>3. SlotOf(position[t]) \in Slots
  BY InSlots, WordIsInt DEF TypeOK, IInv
<1>4. payload' \in [Slots -> Value] /\ result' \in [Thread -> Value \cup {Nothing}]
  <2>1. CASE op[t] = "push"
    BY <1>2, <1>3, <2>1 DEF Access, TypeOK, IInv
  <2>2. CASE op[t] # "push"
    BY <1>3, <2>2 DEF Access, TypeOK, IInv
  <2> QED
    BY <2>1, <2>2
<1>5. TypeOK'
  BY <1>1, <1>4 DEF TypeOK, IInv
<1>6. \A u \in Thread : pc'[u] = IF u = t THEN "accessed" ELSE pc[u]
  BY <1>1 DEF TypeOK, IInv
<1>7. /\ CountersInRange' /\ Claimed' /\ Unclaimed'
      /\ Occupied' = Occupied /\ \A j \in Slots : At(j)' = At(j)
  BY <1>1, RingAlone DEF positionVars
<1>8. \A u \in Thread, call \in {"push", "pop"} : Inside(u, call)' => Inside(u, call)
  BY <1>1, <1>6 DEF Inside
<1>9. Writers' /\ Readers' /\ ClaimedOnce'
  BY <1>1, <1>7, <1>8 DEF Writers, Readers, ClaimedOnce, IInv
<1>10. InReach'
  BY <1>1, <1>6 DEF InReach, IInv, Lag, Counter, StallBound
<1>11. StillReady' /\ InCall'
  BY <1>1, <1>2, <1>6 DEF StillReady, InCall, IInv, Counter
<1> QED
  BY <1>5, <1>7, <1>9, <1>10, <1>11 DEF IInv

(* ------------------------ claims of a slot ------------------------------ *)

\* Both kinds of thread inside a slot stand in the window, each kind in its part.
LEMMA WindowSlots ==
  ASSUME IInv
  PROVE  /\ \A i, j \in Slots : SlotOf(At(i)) = SlotOf(At(j)) => i = j
         /\ \A u \in Thread : position[u] \in Words /\ SlotOf(position[u]) \in Slots
         /\ \A u \in Thread : Inside(u, "pop") =>
              \E j \in Slots : /\ j >= Occupied /\ Wrap(position[u] + Capacity) = At(j)
                               /\ SlotOf(position[u]) = SlotOf(At(j))
<1>1. \A u \in Thread : position[u] \in Words /\ SlotOf(position[u]) \in Slots
  BY InSlots, WordIsInt DEF TypeOK, IInv
<1>2. \A i, j \in Slots : SlotOf(At(i)) = SlotOf(At(j)) => i = j
  BY Window DEF At, TypeOK, IInv
<1>3. \A u \in Thread : SlotOf(Wrap(position[u] + Capacity)) = SlotOf(position[u])
  BY <1>1, Around
<1> QED
  BY <1>1, <1>2, <1>3 DEF IInv, Readers

(* What a claim does to the threads that have loaded the same counter.     *)
LEMMA LoadedElsewhere ==
  ASSUME IInv, NEW t \in Thread, pc[t] = "swap", Counter(t) = position[t], NobodyOversleeps(t),
         NEW u \in Thread, u # t, op[u] = op[t], pc[u] \in {"look", "swap"}
  PROVE  /\ Wrap(Wrap(position[t] + 1) - position[u]) <= StallBound
         /\ pc[u] = "swap" => Wrap(position[t] + 1) # position[u]
<1>1. position[t] \in Words /\ position[u] \in Words
  BY DEF IInv, TypeOK
<1>2. Wrap(position[t] + 1 - position[u]) <= StallBound
  BY DEF NobodyOversleeps
<1>3. Wrap(Wrap(position[t] + 1) - position[u]) <= StallBound
  BY <1>1, <1>2, Reach
<1>4. Counter(u) = position[t]
  BY DEF Counter
<1>5. Wrap(position[t] - position[u]) <= StallBound
  BY <1>4 DEF IInv, InReach, Lag
<1>6. Wrap(position[t] + 1) # position[u]
  <2> SUFFICES ASSUME Wrap(position[t] + 1) = position[u] PROVE FALSE
    OBVIOUS
  <2>1. Wrap(position[t] - position[u]) > StallBound
    BY <1>1, Reach
  <2>2. Wrap(position[t] - position[u]) \in Int /\ StallBound \in Int
    BY <1>1, Between, WordIsInt, Bounds, SMT DEF StallBound
  <2> QED
    BY <1>5, <2>1, <2>2, SMT
<1> QED
  BY <1>3, <1>6

\* A slot that is found ready is one that the counters leave room for.
LEMMA RoomToPush ==
  ASSUME IInv, NEW t \in Thread, pc[t] = "swap", op[t] = "push", Counter(t) = position[t]
  PROVE  Occupied < Capacity
<1> DEFINE d == dequeue_position
           e == enqueue_position
           o == Occupied
<1>1. position[t] = e
  BY DEF Counter
<1>2. /\ d \in Words /\ e \in Words /\ o \in 0..Capacity /\ e = At(o) /\ At(0) = d /\ 0 \in Slots
      /\ \A j \in Slots : At(j) \in Words /\ j \in 0..Capacity
  BY Numbers DEF IInv
<1>3. sequence[SlotOf(e)] = e
  BY <1>1 DEF IInv, StillReady
<1>4. o < Capacity
  <2> SUFFICES ASSUME o = Capacity PROVE FALSE
    BY <1>2, Bounds, SMT
  <2>1. SlotOf(e) = SlotOf(d)
    BY <1>2, Around DEF At
  <2>2. 0 < Occupied
    BY Bounds, SMT
  <2>3. e \in {d, Wrap(d + 1)}
    BY <1>2, <1>3, <2>1, <2>2 DEF IInv, Claimed
  <2>4. e = Wrap(d + Capacity) /\ d = Wrap(d + 0)
    BY <1>2, NoStep DEF At
  <2>5. 0 \in 0..Capacity /\ 1 \in 0..Capacity /\ Capacity \in 0..Capacity
        /\ Capacity # 0 /\ Capacity # 1
    BY Bounds, SMT
  <2> QED
    BY <1>2, <2>3, <2>4, <2>5, SameStep
<1> QED
  BY <1>4

LEMMA ItemToPop ==
  ASSUME IInv, NEW t \in Thread, pc[t] = "swap", op[t] = "pop", Counter(t) = position[t]
  PROVE  Occupied > 0 /\ sequence[SlotOf(dequeue_position)] = Wrap(dequeue_position + 1)
<1> DEFINE d == dequeue_position
           e == enqueue_position
           o == Occupied
<1>1. position[t] = d
  BY DEF Counter
<1>2. /\ d \in Words /\ e \in Words /\ o \in 0..Capacity /\ e = At(o) /\ At(0) = d /\ 0 \in Slots
      /\ \A j \in Slots : At(j) \in Words /\ j \in 0..Capacity
  BY Numbers DEF IInv
<1>4. sequence[SlotOf(d)] = Wrap(d + 1)
  BY <1>1 DEF IInv, StillReady
<1>5. o > 0
  <2> SUFFICES ASSUME ~(o > 0) PROVE FALSE
    OBVIOUS
  <2>1. 0 >= Occupied
    BY <1>2, SMT
  <2>2. Wrap(d + 1) \in {d, Wrap(d + 1 - Capacity)}
    BY <1>2, <1>4, <2>1 DEF IInv, Unclaimed
  <2>3. CASE Wrap(d + 1) = d
    <3>1. Wrap(d + 1) = Wrap(d + 0) /\ 0 \in 0..Capacity /\ 1 \in 0..Capacity
      BY <1>2, <2>3, NoStep, Bounds, SMT
    <3>2. 1 = 0
      BY <1>2, <3>1, SameStep
    <3> QED
      BY <3>2, SMT
  <2>4. CASE Wrap(d + 1) = Wrap(d + 1 - Capacity)
    <3> DEFINE n == d + 1 - Capacity
               f == Wrap(d + 1)
               g == Wrap(n)
    <3>1. n \in Int /\ n >= -Modulus /\ n < 2 * Modulus /\ n < Modulus
      BY <1>2, WordIsInt, Bounds, SMT
    <3>2. /\ n >= 0 /\ n < Modulus => g = n
          /\ n < 0 => g = n + Modulus
      <4> HIDE DEF n
      <4> QED
        BY <3>1, Wrapping
    <3>3. /\ d + 1 < Modulus => f = d + 1
          /\ d + 1 >= Modulus => f = (d + 1) - Modulus
      BY <1>2, Next1
    <3>4. f = g
      BY <2>4
    <3> HIDE DEF f, g
    <3> QED
      BY <1>2, <3>1, <3>2, <3>3, <3>4, WordIsInt, Bounds, SMT
  <2> QED
    BY <2>2, <2>3, <2>4
<1> QED
  BY <1>4, <1>5

LEMMA ClaimedToPush ==
  ASSUME IInv, NEW t \in Thread, Claim(t), op[t] = "push"
  PROVE  IInv'
<1> DEFINE d == dequeue_position
           e == enqueue_position
           o == Occupied
<1>1. /\ pc[t] = "swap" /\ position[t] = e /\ NobodyOversleeps(t)
      /\ enqueue_position' = Wrap(e + 1) /\ pc' = [pc EXCEPT ![t] = "claimed"]
      /\ UNCHANGED <<sequence, payload, dequeue_position, op, arg, position, result>>
  BY DEF Claim, Counter, Go, slotVars
<1>2. /\ d \in Words /\ e \in Words /\ o \in 0..Capacity /\ e = At(o) /\ At(0) = d /\ 0 \in Slots
      /\ \A j \in Slots : At(j) \in Words /\ j \in 0..Capacity
  BY Numbers DEF IInv
<1>3. sequence[SlotOf(e)] = e
  BY <1>1 DEF IInv, StillReady, Counter
<1>4. o < Capacity
  BY RoomToPush DEF Claim
<1>5. o \in Slots /\ o \in Int /\ \A j \in Slots : j \in Int
  BY <1>2, <1>4, Bounds, SMT DEF Slots
<1>6. Occupied' = o + 1
  BY <1>1, <1>2, <1>4, OneMore DEF Occupied
<1>7. \A j \in Slots : At(j)' = At(j)
  BY <1>1 DEF At
<1>8. TypeOK'
  BY <1>1, <1>2, Next1 DEF TypeOK, IInv
<1>9. CountersInRange'
  BY <1>4, <1>5, <1>6, Bounds, SMT DEF CountersInRange
<1>10. \A j \in Slots : /\ j < o + 1 => j < o \/ j = o
                        /\ j >= o + 1 => j >= o /\ j # o
                        /\ j < o => j < o + 1
                        /\ j >= o /\ j # o => j >= o + 1
                        /\ j < o => j # o
                        /\ o < o + 1
  BY <1>5, SMT
<1>11. Claimed'
  <2> SUFFICES ASSUME NEW j \in Slots, j < o + 1
               PROVE  sequence[SlotOf(At(j))] \in {At(j), Wrap(At(j) + 1)}
    BY <1>1, <1>6, <1>7 DEF Claimed
  <2> QED
    BY <1>2, <1>3, <1>10 DEF IInv, Claimed
<1>12. Unclaimed'
  <2> SUFFICES ASSUME NEW j \in Slots, j >= o + 1
               PROVE  sequence[SlotOf(At(j))] \in {At(j), Wrap(At(j) + 1 - Capacity)}
    BY <1>1, <1>6, <1>7 DEF Unclaimed
  <2> QED
    BY <1>10 DEF IInv, Unclaimed
<1>13. \A u \in Thread : /\ Inside(u, "push")' <=> u = t \/ Inside(u, "push")
                         /\ Inside(u, "pop")' <=> Inside(u, "pop")
                         /\ u # t => pc'[u] = pc[u]
                         /\ pc'[t] = "claimed" /\ ~Inside(t, "push")
  BY <1>1 DEF Inside, TypeOK, IInv
<1>14. Writers'
  <2> SUFFICES ASSUME NEW u \in Thread, u = t \/ Inside(u, "push")
               PROVE  /\ sequence[SlotOf(position[u])] = position[u]
                      /\ \E j \in Slots : j < o + 1 /\ position[u] = At(j)
    BY <1>1, <1>6, <1>7, <1>13 DEF Writers
  <2>1. CASE u = t
    BY <1>1, <1>2, <1>3, <1>5, <1>10, <2>1
  <2>2. CASE Inside(u, "push")
    BY <1>10, <2>2 DEF IInv, Writers
  <2> QED
    BY <2>1, <2>2
<1>15. Readers'
  <2> SUFFICES ASSUME NEW u \in Thread, Inside(u, "pop")
               PROVE  /\ sequence[SlotOf(position[u])] = Wrap(position[u] + 1)
                      /\ \E j \in Slots : j >= o + 1 /\ Wrap(position[u] + Capacity) = At(j)
    BY <1>1, <1>6, <1>7, <1>13 DEF Readers
  <2>1. PICK j \in Slots : /\ j >= o /\ Wrap(position[u] + Capacity) = At(j)
                           /\ SlotOf(position[u]) = SlotOf(At(j))
    BY WindowSlots
  <2>2. sequence[SlotOf(position[u])] = Wrap(position[u] + 1) /\ position[u] \in Words
    BY WindowSlots DEF IInv, Readers
  <2>3. j # o
    <3> SUFFICES ASSUME j = o PROVE FALSE
      OBVIOUS
    <3>1. Wrap(position[u] + 1) = Wrap(position[u] + Capacity)
      BY <1>2, <1>3, <2>1, <2>2
    <3>2. 1 \in 0..Capacity /\ Capacity \in 0..Capacity /\ Capacity # 1
      BY Bounds, SMT
    <3> QED
      BY <2>2, <3>1, <3>2, SameStep
  <2> QED
    BY <1>10, <2>1, <2>2, <2>3
<1>16. ClaimedOnce'
  <2>1. \A u \in Thread : Inside(u, "push") => position[u] # position[t]
    <3> SUFFICES ASSUME NEW u \in Thread, Inside(u, "push"), position[u] = position[t] PROVE FALSE
      OBVIOUS
    <3>1. PICK j \in Slots : j < o /\ position[u] = At(j)
      BY DEF IInv, Writers
    <3>2. j = o
      BY <1>1, <1>2, <1>5, <3>1, WindowSlots
    <3> QED
      BY <1>10, <3>1, <3>2
  <2> QED
    BY <1>1, <1>13, <2>1 DEF ClaimedOnce, IInv
<1>17. InReach'
  <2> SUFFICES ASSUME NEW u \in Thread, pc'[u] \in {"look", "swap"} PROVE Lag(u)' <= StallBound
    BY DEF InReach, StallBound
  <2>1. u # t /\ pc[u] \in {"look", "swap"}
    BY <1>13
  <2>2. CASE op[u] = "push"
    <3>1. Lag(u)' = Wrap(Wrap(position[t] + 1) - position[u])
      BY <1>1, <2>2 DEF Lag, Counter
    <3> QED
      BY <1>1, <2>1, <2>2, <3>1, LoadedElsewhere DEF Counter
  <2>3. CASE op[u] # "push"
    BY <1>1, <2>1, <2>3 DEF IInv, InReach, Lag, Counter
  <2> QED
    BY <2>2, <2>3
<1>18. StillReady'
  <2> SUFFICES ASSUME NEW u \in Thread, pc'[u] = "swap", Counter(u)' = position'[u]
               PROVE  /\ op[u] = "push" => sequence[SlotOf(position[u])] = position[u]
                      /\ op[u] = "pop" => sequence[SlotOf(position[u])] = Wrap(position[u] + 1)
    BY <1>1 DEF StillReady
  <2>1. u # t /\ pc[u] = "swap"
    BY <1>13
  <2>2. CASE op[u] = "push"
    <3>1. Wrap(position[t] + 1) = position[u]
      BY <1>1, <2>2 DEF Counter
    <3> QED
      BY <1>1, <2>1, <2>2, <3>1, LoadedElsewhere DEF Counter
  <2>3. CASE op[u] # "push"
    BY <1>1, <2>1, <2>3 DEF IInv, StillReady, Counter
  <2> QED
    BY <2>2, <2>3
<1>19. InCall'
  BY <1>1, <1>13 DEF InCall, IInv
<1> QED
  BY <1>8, <1>9, <1>11, <1>12, <1>14, <1>15, <1>16, <1>17, <1>18, <1>19 DEF IInv

LEMMA ClaimedToPop ==
  ASSUME IInv, NEW t \in Thread, Claim(t), op[t] # "push"
  PROVE  IInv'
<1> DEFINE d == dequeue_position
           e == enqueue_position
           o == Occupied
           last == Capacity - 1
<1>1. /\ pc[t] = "swap" /\ position[t] = d /\ NobodyOversleeps(t)
      /\ dequeue_position' = Wrap(d + 1) /\ pc' = [pc EXCEPT ![t] = "claimed"]
      /\ UNCHANGED <<sequence, payload, enqueue_position, op, arg, position, result>>
  BY DEF Claim, Counter, Go, slotVars
<1>2. /\ d \in Words /\ e \in Words /\ o \in 0..Capacity /\ e = At(o) /\ At(0) = d /\ 0 \in Slots
      /\ \A j \in Slots : At(j) \in Words /\ j \in 0..Capacity
  BY Numbers DEF IInv
<1>3. op[t] = "pop"
  BY <1>1 DEF IInv, InCall
<1>4. sequence[SlotOf(d)] = Wrap(d + 1)
  BY <1>1, <1>3 DEF IInv, StillReady, Counter
<1>5. o > 0
  BY <1>3, ItemToPop DEF Claim
<1>6. /\ o \in Int /\ last \in Slots /\ last >= o - 1
      /\ \A j \in Slots : /\ j # last => j + 1 \in Slots
                          /\ j < o - 1 => j # last /\ j + 1 < o
                          /\ j >= o - 1 /\ j # last => j + 1 >= o
                          /\ j # 0 => j - 1 \in Slots /\ j - 1 # last /\ (j - 1) + 1 = j
                          /\ j < o /\ j # 0 => j - 1 < o - 1
                          /\ j >= o => j # 0 /\ j - 1 >= o - 1
      /\ last + 1 = Capacity
  BY <1>2, <1>5, Bounds, SMT DEF Slots
<1>7. Occupied' = o - 1
  BY <1>1, <1>2, <1>5, OneLess DEF Occupied
<1>8. \A j \in Slots : j # last => At(j)' = At(j + 1)
  BY <1>1, <1>2, StepOn DEF At
<1>9. At(last)' = Wrap(d + Capacity)
  BY <1>1, <1>2, <1>6, StepOn DEF At
<1>10. TypeOK'
  BY <1>1, <1>2, Next1 DEF TypeOK, IInv
<1>11. CountersInRange'
  BY <1>2, <1>7, Bounds, SMT DEF CountersInRange
<1>12. Claimed'
  <2> SUFFICES ASSUME NEW j \in Slots, j < o - 1
               PROVE  sequence[SlotOf(At(j)')] \in {At(j)', Wrap(At(j)' + 1)}
    BY <1>1, <1>7 DEF Claimed
  <2>1. j + 1 \in Slots /\ j + 1 < o /\ At(j)' = At(j + 1)
    BY <1>6, <1>8
  <2> QED
    BY <2>1 DEF IInv, Claimed
<1>13. Unclaimed'
  <2> SUFFICES ASSUME NEW j \in Slots, j >= o - 1
               PROVE  sequence[SlotOf(At(j)')] \in {At(j)', Wrap(At(j)' + 1 - Capacity)}
    BY <1>1, <1>7 DEF Unclaimed
  <2>1. CASE j # last
    <3>1. j + 1 \in Slots /\ j + 1 >= o /\ At(j)' = At(j + 1)
      BY <1>6, <1>8, <2>1
    <3> QED
      BY <3>1 DEF IInv, Unclaimed
  <2>2. CASE j = last
    <3> DEFINE f == Wrap(d + Capacity)
               g == Wrap(d + 1)
               n == f + 1 - Capacity
               h == Wrap(n)
    <3>1. SlotOf(f) = SlotOf(d) /\ Capacity \in 0..Capacity
      BY <1>2, Around, Bounds, SMT
    <3>2. /\ f \in Words
          /\ d + Capacity < Modulus => f = d + Capacity
          /\ d + Capacity >= Modulus => f = (d + Capacity) - Modulus
      BY <1>2, <3>1, Forward
    <3>3. /\ d + 1 < Modulus => g = d + 1
          /\ d + 1 >= Modulus => g = (d + 1) - Modulus
      BY <1>2, Next1
    <3> HIDE DEF f, g, h
    <3>4. n \in Int /\ n >= -Modulus /\ n < 2 * Modulus /\ n < Modulus
      BY <3>2, WordIsInt, Bounds, SMT
    <3>5. /\ n >= 0 /\ n < Modulus => h = n
          /\ n < 0 => h = n + Modulus
      <4> HIDE DEF n
      <4> QED
        BY <3>4, Wrapping DEF h
    <3>6. h = g
      BY <1>2, <3>2, <3>3, <3>4, <3>5, WordIsInt, Bounds, SMT
    <3>7. sequence[SlotOf(f)] = Wrap(f + 1 - Capacity)
      BY <1>4, <3>1, <3>6 DEF g, h
    <3> QED
      BY <1>9, <2>2, <3>7 DEF f
  <2> QED
    BY <2>1, <2>2
<1>14. \A u \in Thread : /\ Inside(u, "pop")' <=> u = t \/ Inside(u, "pop")
                         /\ Inside(u, "push")' <=> Inside(u, "push")
                         /\ u # t => pc'[u] = pc[u]
                         /\ pc'[t] = "claimed" /\ ~Inside(t, "pop")
  BY <1>1, <1>3 DEF Inside, TypeOK, IInv
<1>15. Writers'
  <2> SUFFICES ASSUME NEW u \in Thread, Inside(u, "push")
               PROVE  /\ sequence[SlotOf(position[u])] = position[u]
                      /\ \E j \in Slots : j < o - 1 /\ position[u] = At(j)'
    BY <1>1, <1>7, <1>14 DEF Writers
  <2>1. PICK j \in Slots : j < o /\ position[u] = At(j)
    BY DEF IInv, Writers
  <2>2. sequence[SlotOf(position[u])] = position[u]
    BY DEF IInv, Writers
  <2>3. j # 0
    <3> SUFFICES ASSUME j = 0 PROVE FALSE
      OBVIOUS
    <3>1. Wrap(d + 1) = Wrap(d + 0) /\ 0 \in 0..Capacity /\ 1 \in 0..Capacity
      <4>1. Wrap(d + 1) = d
        BY <1>2, <1>4, <2>1, <2>2
      <4> QED
        BY <1>2, <4>1, NoStep, Bounds, SMT
    <3>2. 1 = 0
      BY <1>2, <3>1, SameStep
    <3> QED
      BY <3>2, SMT
  <2>4. j - 1 \in Slots /\ j - 1 # last /\ j - 1 < o - 1 /\ (j - 1) + 1 = j
    BY <1>6, <2>1, <2>3
  <2>5. At(j - 1)' = At(j)
    BY <1>8, <2>4
  <2> QED
    BY <2>1, <2>2, <2>4, <2>5
<1>16. Readers'
  <2> SUFFICES ASSUME NEW u \in Thread, u = t \/ Inside(u, "pop")
               PROVE  /\ sequence[SlotOf(position[u])] = Wrap(position[u] + 1)
                      /\ \E j \in Slots : j >= o - 1 /\ Wrap(position[u] + Capacity) = At(j)'
    BY <1>1, <1>7, <1>14 DEF Readers
  <2>1. CASE u = t
    BY <1>1, <1>4, <1>6, <1>9, <2>1
  <2>2. CASE Inside(u, "pop")
    <3>1. PICK j \in Slots : j >= o /\ Wrap(position[u] + Capacity) = At(j)
      BY <2>2 DEF IInv, Readers
    <3>2. j - 1 \in Slots /\ j - 1 # last /\ j - 1 >= o - 1 /\ (j - 1) + 1 = j
      BY <1>6, <3>1
    <3>3. At(j - 1)' = At(j)
      BY <1>8, <3>2
    <3> QED
      BY <2>2, <3>1, <3>2, <3>3 DEF IInv, Readers
  <2> QED
    BY <2>1, <2>2
<1>17. ClaimedOnce'
  <2>1. \A u \in Thread : Inside(u, "pop") => position[u] # position[t]
    <3> SUFFICES ASSUME NEW u \in Thread, Inside(u, "pop"), position[u] = position[t] PROVE FALSE
      OBVIOUS
    <3>1. PICK j \in Slots : j >= o /\ SlotOf(position[u]) = SlotOf(At(j))
      BY WindowSlots
    <3>2. j = 0
      BY <1>1, <1>2, <3>1, WindowSlots
    <3> QED
      BY <1>6, <3>1, <3>2
  <2> QED
    BY <1>1, <1>14, <2>1 DEF ClaimedOnce, IInv
<1>18. InReach'
  <2> SUFFICES ASSUME NEW u \in Thread, pc'[u] \in {"look", "swap"} PROVE Lag(u)' <= StallBound
    BY DEF InReach, StallBound
  <2>1. u # t /\ pc[u] \in {"look", "swap"} /\ op[u] \in {"push", "pop"}
    BY <1>14 DEF IInv, InCall
  <2>2. CASE op[u] = "pop"
    <3>1. Lag(u)' = Wrap(Wrap(position[t] + 1) - position[u])
      BY <1>1, <2>2 DEF Lag, Counter
    <3> QED
      BY <1>1, <1>3, <2>1, <2>2, <3>1, LoadedElsewhere DEF Counter
  <2>3. CASE op[u] = "push"
    BY <1>1, <2>1, <2>3 DEF IInv, InReach, Lag, Counter
  <2> QED
    BY <2>1, <2>2, <2>3
<1>19. StillReady'
  <2> SUFFICES ASSUME NEW u \in Thread, pc'[u] = "swap", Counter(u)' = position'[u]
               PROVE  /\ op[u] = "push" => sequence[SlotOf(position[u])] = position[u]
                      /\ op[u] = "pop" => sequence[SlotOf(position[u])] = Wrap(position[u] + 1)
    BY <1>1 DEF StillReady
  <2>1. u # t /\ pc[u] = "swap"
    BY <1>14
  <2>2. CASE op[u] = "pop"
    <3>1. Wrap(position[t] + 1) = position[u]
      BY <1>1, <2>2 DEF Counter
    <3> QED
      BY <1>1, <1>3, <2>1, <2>2, <3>1, LoadedElsewhere DEF Counter
  <2>3. CASE op[u] # "pop"
    BY <1>1, <2>1, <2>3 DEF IInv, StillReady, Counter
  <2> QED
    BY <2>2, <2>3
<1>20. InCall'
  BY <1>1, <1>14 DEF InCall, IInv
<1> QED
  BY <1>10, <1>11, <1>12, <1>13, <1>15, <1>16, <1>17, <1>18, <1>19, <1>20 DEF IInv

(* ------------------------ releases of a slot ---------------------------- *)

\* A release changes the sequence of the slot it leaves, and nothing else of
\* the ring.
LEMMA Released ==
  ASSUME IInv, NEW t \in Thread, Release(t)
  PROVE  /\ op[t] \in {"push", "pop"} /\ Inside(t, op[t]) /\ TypeOK' /\ CountersInRange'
         /\ Occupied' = Occupied /\ \A j \in Slots : At(j)' = At(j)
         /\ sequence'[SlotOf(position[t])] = ReleasedSequence(t)
         /\ \A i \in Slots : i # SlotOf(position[t]) => sequence'[i] = sequence[i]
         /\ \A u \in Thread \ {t} : /\ pc'[u] = pc[u] /\ op'[u] = op[u] /\ arg'[u] = arg[u]
                                    /\ position'[u] = position[u] /\ Counter(u)' = Counter(u)
         /\ pc'[t] = "idle"
<1>1. /\ pc' = [pc EXCEPT ![t] = "idle"] /\ op' = [op EXCEPT ![t] = "none"]
      /\ arg' = [arg EXCEPT ![t] = Nothing] /\ position' = [position EXCEPT ![t] = 0]
      /\ result' = [result EXCEPT ![t] = Nothing]
      /\ sequence' = [sequence EXCEPT ![SlotOf(position[t])] = ReleasedSequence(t)]
      /\ UNCHANGED <<payload, enqueue_position, dequeue_position>> /\ pc[t] = "accessed"
  BY DEF Release, Forget, Go, positionVars
<1>2. SlotOf(position[t]) \in Slots /\ position[t] \in Words
  BY WindowSlots
<1>3. ReleasedSequence(t) \in Words
  <2>1. Capacity \in 0..Capacity
    BY Bounds, SMT
  <2> QED
    BY <1>2, <2>1, Next1, Forward DEF ReleasedSequence
<1>4. 0 \in Words
  BY Bounds, SMT DEF Words
<1>5. TypeOK'
  BY <1>1, <1>2, <1>3, <1>4 DEF TypeOK, IInv
<1>6. op[t] \in {"push", "pop"} /\ Inside(t, op[t])
  BY <1>1 DEF IInv, InCall, Inside
<1>7. CountersInRange' /\ Occupied' = Occupied /\ \A j \in Slots : At(j)' = At(j)
  BY <1>1 DEF IInv, CountersInRange, Occupied, At
<1> QED
  BY <1>1, <1>2, <1>5, <1>6, <1>7 DEF TypeOK, IInv, Counter

\* The parts of the invariant that follow for whoever stands in another slot.
LEMMA ReleasedByOne ==
  ASSUME IInv, NEW t \in Thread, Release(t), Claimed', Unclaimed',
         \A u \in Thread \ {t}, call \in {"push", "pop"} :
           Inside(u, call) => SlotOf(position[u]) # SlotOf(position[t]),
         \A u \in Thread \ {t} :
           pc[u] = "swap" /\ Counter(u) = position[u] =>
             SlotOf(position[u]) # SlotOf(position[t])
  PROVE  IInv'
<1>1. \A u \in Thread, call \in {"push", "pop"} :
        Inside(u, call)' => u # t /\ Inside(u, call)
  BY Released DEF Inside
<1>2. \A u \in Thread : SlotOf(position[u]) \in Slots
  BY WindowSlots
<1>3. Writers'
  <2> SUFFICES ASSUME NEW u \in Thread, Inside(u, "push")'
               PROVE  /\ sequence'[SlotOf(position'[u])] = position'[u]
                      /\ \E j \in Slots : j < Occupied' /\ position'[u] = At(j)'
    BY DEF Writers
  <2>1. u # t /\ Inside(u, "push") /\ position'[u] = position[u]
    BY <1>1, Released
  <2>2. sequence'[SlotOf(position[u])] = sequence[SlotOf(position[u])]
    BY <1>2, <2>1, Released
  <2>3. /\ sequence[SlotOf(position[u])] = position[u]
        /\ \E j \in Slots : j < Occupied /\ position[u] = At(j)
    BY <2>1 DEF IInv, Writers
  <2> QED
    BY <2>1, <2>2, <2>3, Released
<1>4. Readers'
  <2> SUFFICES ASSUME NEW u \in Thread, Inside(u, "pop")'
               PROVE  /\ sequence'[SlotOf(position'[u])] = Wrap(position'[u] + 1)
                      /\ \E j \in Slots : j >= Occupied' /\ Wrap(position'[u] + Capacity) = At(j)'
    BY DEF Readers
  <2>1. u # t /\ Inside(u, "pop") /\ position'[u] = position[u]
    BY <1>1, Released
  <2>2. sequence'[SlotOf(position[u])] = sequence[SlotOf(position[u])]
    BY <1>2, <2>1, Released
  <2>3. /\ sequence[SlotOf(position[u])] = Wrap(position[u] + 1)
        /\ \E j \in Slots : j >= Occupied /\ Wrap(position[u] + Capacity) = At(j)
    BY <2>1 DEF IInv, Readers
  <2> QED
    BY <2>1, <2>2, <2>3, Released
<1>5. ClaimedOnce'
  <2>1. \A u \in Thread, call \in {"push", "pop"} : Inside(u, call)' => position'[u] = position[u]
    BY <1>1, Released
  <2> QED
    BY <1>1, <2>1 DEF IInv, ClaimedOnce
<1>6. InReach'
  <2> SUFFICES ASSUME NEW u \in Thread, pc'[u] \in {"look", "swap"} PROVE Lag(u)' <= StallBound
    BY DEF InReach, StallBound
  <2>1. u # t
    BY Released
  <2>2. Lag(u)' = Lag(u) /\ pc[u] \in {"look", "swap"}
    BY <2>1, Released DEF Lag
  <2> QED
    BY <2>2 DEF IInv, InReach
<1>7. StillReady'
  <2> SUFFICES ASSUME NEW u \in Thread, pc'[u] = "swap", Counter(u)' = position'[u]
               PROVE  /\ op'[u] = "push" => sequence'[SlotOf(position'[u])] = position'[u]
                      /\ op'[u] = "pop" => sequence'[SlotOf(position'[u])] = Wrap(position'[u] + 1)
    BY DEF StillReady
  <2>1. u # t
    BY Released
  <2>2. pc[u] = "swap" /\ Counter(u) = position[u] /\ position'[u] = position[u] /\ op'[u] = op[u]
    BY <2>1, Released
  <2>3. sequence'[SlotOf(position[u])] = sequence[SlotOf(position[u])]
    BY <1>2, <2>1, <2>2, Released
  <2>4. /\ op[u] = "push" => sequence[SlotOf(position[u])] = position[u]
        /\ op[u] = "pop" => sequence[SlotOf(position[u])] = Wrap(position[u] + 1)
    BY <2>2 DEF IInv, StillReady
  <2> QED
    BY <2>2, <2>3, <2>4
<1>8. InCall'
  <2> SUFFICES ASSUME NEW u \in Thread, pc'[u] # "idle"
               PROVE  op'[u] \in {"push", "pop"} /\ (op'[u] = "push" => arg'[u] \in Value)
    BY DEF InCall
  <2>1. u # t
    BY Released
  <2> QED
    BY <2>1, Released DEF IInv, InCall
<1> QED
  BY <1>3, <1>4, <1>5, <1>6, <1>7, <1>8, Released DEF IInv

LEMMA ReleasedByPush ==
  ASSUME IInv, NEW t \in Thread, Release(t), op[t] = "push"
  PROVE  IInv'
<1> DEFINE o == Occupied
           w == position[t]
<1>1. PICK k \in Slots : k < o /\ w = At(k)
  BY Released DEF IInv, Writers
<1>2. sequence[SlotOf(w)] = w /\ sequence'[SlotOf(w)] = Wrap(w + 1)
  BY Released DEF IInv, Writers, ReleasedSequence
<1>3. /\ dequeue_position \in Words /\ o \in 0..Capacity /\ enqueue_position = At(o)
      /\ At(0) = dequeue_position /\ 0 \in Slots
      /\ \A j \in Slots : At(j) \in Words /\ j \in 0..Capacity /\ j \in Int
  BY Numbers, SMT DEF IInv
<1>4. \A j \in Slots : SlotOf(At(j)) \in Slots
  BY <1>3, InSlots, WordIsInt
<1>5. \A j \in Slots : j # k => sequence'[SlotOf(At(j))] = sequence[SlotOf(At(j))]
  BY <1>1, <1>4, WindowSlots, Released
<1>6. Claimed'
  BY <1>1, <1>2, <1>5, Released DEF IInv, Claimed
<1>7. Unclaimed'
  <2>1. \A j \in Slots : j >= o => j # k
    BY <1>1, <1>3, SMT
  <2> QED
    BY <1>5, <2>1, Released DEF IInv, Unclaimed
<1>8. ASSUME NEW u \in Thread \ {t}, NEW call \in {"push", "pop"}, Inside(u, call)
      PROVE  SlotOf(position[u]) # SlotOf(w)
  <2>1. CASE call = "push"
    <3>1. PICK j \in Slots : position[u] = At(j)
      BY <1>8, <2>1 DEF IInv, Writers
    <3>2. position[u] # position[t]
      BY <1>8, <2>1, Released DEF IInv, ClaimedOnce
    <3> QED
      BY <1>1, <3>1, <3>2, WindowSlots
  <2>2. CASE call = "pop"
    <3>1. PICK j \in Slots : j >= o /\ SlotOf(position[u]) = SlotOf(At(j))
      BY <1>8, <2>2, WindowSlots
    <3>2. j # k
      BY <1>1, <1>3, <3>1, SMT
    <3> QED
      BY <1>1, <3>1, <3>2, WindowSlots
  <2> QED
    BY <2>1, <2>2
<1>9. ASSUME NEW u \in Thread \ {t}, pc[u] = "swap", Counter(u) = position[u],
             SlotOf(position[u]) = SlotOf(w)
      PROVE  FALSE
  <2>1. op[u] \in {"push", "pop"}
    BY <1>9 DEF IInv, InCall
  <2>2. CASE op[u] = "push"
    <3>1. enqueue_position = w
      BY <1>2, <1>9, <2>2 DEF IInv, StillReady, Counter
    <3>2. k = o
      BY <1>1, <1>3, <3>1, SameStep DEF At
    <3> QED
      BY <1>1, <1>3, <3>2, SMT
  <2>3. CASE op[u] = "pop"
    <3>1. position[u] = At(0) /\ w = Wrap(dequeue_position + 1)
      BY <1>2, <1>3, <1>9, <2>3 DEF IInv, StillReady, Counter
    <3>2. k = 0
      BY <1>1, <1>3, <1>9, <3>1, WindowSlots
    <3>3. Wrap(dequeue_position + 0) = Wrap(dequeue_position + 1)
      BY <1>1, <3>1, <3>2 DEF At
    <3>4. 0 \in 0..Capacity /\ 1 \in 0..Capacity /\ 0 # 1
      BY Bounds, SMT
    <3> QED
      BY <1>3, <3>3, <3>4, SameStep
  <2> QED
    BY <2>1, <2>2, <2>3
<1> QED
  BY <1>6, <1>7, <1>8, <1>9, ReleasedByOne

LEMMA ReleasedByPop ==
  ASSUME IInv, NEW t \in Thread, Release(t), op[t] = "pop"
  PROVE  IInv'
<1> DEFINE o == Occupied
           w == position[t]
<1>1. PICK k \in Slots : /\ k >= o /\ Wrap(w + Capacity) = At(k)
                         /\ SlotOf(w) = SlotOf(At(k))
  BY WindowSlots, Released
<1>2. sequence[SlotOf(w)] = Wrap(w + 1) /\ sequence'[SlotOf(w)] = At(k)
  BY <1>1, Released DEF IInv, Readers, ReleasedSequence
<1>3. /\ dequeue_position \in Words /\ o \in 0..Capacity /\ enqueue_position = At(o)
      /\ At(0) = dequeue_position /\ 0 \in Slots /\ o \in Int
      /\ \A j \in Slots : At(j) \in Words /\ j \in 0..Capacity /\ j \in Int
  BY Numbers, SMT DEF IInv
<1>4. \A j \in Slots : SlotOf(At(j)) \in Slots
  BY <1>3, InSlots, WordIsInt
<1>5. \A j \in Slots : j # k => sequence'[SlotOf(At(j))] = sequence[SlotOf(At(j))]
  BY <1>1, <1>4, WindowSlots, Released
<1>6. Claimed'
  <2>1. \A j \in Slots : j < o => j # k
    BY <1>1, <1>3, SMT
  <2> QED
    BY <1>5, <2>1, Released DEF IInv, Claimed
<1>7. Unclaimed'
  BY <1>1, <1>2, <1>5, Released DEF IInv, Unclaimed
<1>8. w \in Words /\ Capacity \in 0..Capacity /\ 1 \in 0..Capacity /\ 0 \in 0..Capacity
      /\ Capacity # 1 /\ Capacity # 0
  BY WindowSlots, Bounds, SMT
<1>9. ASSUME NEW u \in Thread \ {t}, NEW call \in {"push", "pop"}, Inside(u, call)
      PROVE  SlotOf(position[u]) # SlotOf(w)
  <2>1. CASE call = "push"
    <3>1. PICK j \in Slots : j < o /\ position[u] = At(j)
      BY <1>9, <2>1 DEF IInv, Writers
    <3>2. j # k
      BY <1>1, <1>3, <3>1, SMT
    <3> QED
      BY <1>1, <3>1, <3>2, WindowSlots
  <2>2. CASE call = "pop"
    <3>1. PICK j \in Slots : /\ Wrap(position[u] + Capacity) = At(j)
                             /\ SlotOf(position[u]) = SlotOf(At(j))
      BY <1>9, <2>2, WindowSlots
    <3>2. position[u] # w /\ position[u] \in Words
      BY <1>9, <2>2, Released, WindowSlots DEF IInv, ClaimedOnce
    <3>3. j # k
      BY <1>1, <1>8, <3>1, <3>2, SameStart
    <3> QED
      BY <1>1, <3>1, <3>3, WindowSlots
  <2> QED
    BY <2>1, <2>2
<1>10. ASSUME NEW u \in Thread \ {t}, pc[u] = "swap", Counter(u) = position[u],
              SlotOf(position[u]) = SlotOf(w)
       PROVE  FALSE
  <2>1. op[u] \in {"push", "pop"}
    BY <1>10 DEF IInv, InCall
  <2>2. CASE op[u] = "push"
    <3>1. enqueue_position = position[u] /\ enqueue_position = Wrap(w + 1)
      BY <1>2, <1>10, <2>2 DEF IInv, StillReady, Counter
    <3>2. o \in Slots
      BY <1>1, <1>3, Bounds, SMT DEF Slots
    <3>3. o = k
      BY <1>1, <1>3, <1>10, <3>1, <3>2, WindowSlots
    <3>4. Wrap(w + 1) = Wrap(w + Capacity)
      BY <1>1, <1>3, <3>1, <3>3
    <3> QED
      BY <1>8, <3>4, SameStep
  <2>3. CASE op[u] = "pop"
    <3>1. position[u] = At(0) /\ Wrap(w + 1) = Wrap(dequeue_position + 1)
      BY <1>2, <1>3, <1>10, <2>3 DEF IInv, StillReady, Counter
    <3>2. k = 0
      BY <1>1, <1>3, <1>10, <3>1, WindowSlots
    <3>3. w = dequeue_position
      BY <1>3, <1>8, <3>1, SameStart
    <3>4. Wrap(w + Capacity) = Wrap(w + 0)
      BY <1>1, <3>2, <3>3 DEF At
    <3> QED
      BY <1>8, <3>4, SameStep
  <2> QED
    BY <2>1, <2>2, <2>3
<1> QED
  BY <1>6, <1>7, <1>9, <1>10, ReleasedByOne

(* ------------------------- the invariant holds -------------------------- *)

LEMMA NextInv == IInv /\ [Next]_vars => IInv'
<1> SUFFICES ASSUME IInv, [Next]_vars PROVE IInv'
  OBVIOUS
<1>1. CASE Next
  <2>1. PICK t \in Thread :
          \/ \E v \in Value : push(t, v)
          \/ pop(t)
          \/ LookRefused(t) \/ LookDecided(t) \/ Retry(t)
          \/ Claim(t) \/ Access(t) \/ Release(t)
    BY <1>1 DEF Next
  <2>2. ASSUME Claim(t) PROVE IInv'
    BY <2>2, ClaimedToPush, ClaimedToPop
  <2>3. ASSUME Release(t) PROVE IInv'
    BY <2>3, Released, ReleasedByPush, ReleasedByPop
  <2> QED
    BY <2>1, <2>2, <2>3, StartPush, StartPop, Refused, Decided, Again, Accessed
<1>2. CASE UNCHANGED vars
  BY <1>2 DEF vars, slotVars, positionVars, threadVars, IInv, TypeOK, InCall, CountersInRange,
              Occupied, Claimed, Unclaimed, At, Writers, Readers, ClaimedOnce, Inside,
              InReach, Lag, Counter, StillReady
<1> QED
  BY <1>1, <1>2

LEMMA Inductive == Spec => []IInv
BY InitInv, NextInv, PTL DEF Spec

LEMMA OneInside == IInv => SlotExclusive
<1> SUFFICES ASSUME IInv, NEW t \in Thread, NEW u \in Thread, NEW i \in Slots,
                    InSlot(t, i), InSlot(u, i)
             PROVE  t = u
  BY DEF SlotExclusive
<1>1. /\ op[t] \in {"push", "pop"} /\ op[u] \in {"push", "pop"}
      /\ Inside(t, op[t]) /\ Inside(u, op[u]) /\ SlotOf(position[t]) = SlotOf(position[u])
  BY DEF InSlot, Inside, IInv, InCall
<1>2. \A s \in Thread : Inside(s, "push") => \E j \in Slots : j < Occupied /\ position[s] = At(j)
  BY DEF IInv, Writers
<1>3. Occupied \in Int /\ \A j \in Slots : ~(j < Occupied /\ j >= Occupied)
  BY Numbers, SMT DEF IInv
<1>4. op[t] = op[u]
  BY <1>1, <1>2, <1>3, WindowSlots
<1>5. position[t] = position[u]
  <2>1. CASE op[t] = "push"
    BY <1>1, <1>2, <1>4, <2>1, WindowSlots
  <2>2. CASE op[t] = "pop"
    <3>1. PICK j \in Slots : Wrap(position[t] + Capacity) = At(j) /\ SlotOf(position[t]) = SlotOf(At(j))
      BY <1>1, <2>2, WindowSlots
    <3>2. PICK k \in Slots : Wrap(position[u] + Capacity) = At(k) /\ SlotOf(position[u]) = SlotOf(At(k))
      BY <1>1, <1>4, <2>2, WindowSlots
    <3>3. j = k
      BY <1>1, <3>1, <3>2, WindowSlots
    <3>4. Capacity \in 0..Capacity
      BY Bounds, SMT
    <3> QED
      BY <3>1, <3>2, <3>3, <3>4, WindowSlots, SameStart
  <2> QED
    BY <1>1, <2>1, <2>2
<1> QED
  BY <1>1, <1>4, <1>5 DEF IInv, ClaimedOnce

(* --------------------------- the queue it is ---------------------------- *)

Writing(t, p) == pc[t] = "claimed" /\ op[t] = "push" /\ position[t] = p

\* The values by position, so that a step can be said to keep them.
Held == [p \in Words |-> ValueAt(p)]

\* Where the value of a position is, and the queue as the values from
\* dequeue_position on.
Placed ==
  /\ \A p \in Words, t \in Thread : Writing(t, p) => Held[p] = arg[t]
  /\ \A p \in Words : (\A t \in Thread : ~Writing(t, p)) => Held[p] = payload[SlotOf(p)]
  /\ Queue \in Seq(Value) /\ Len(Queue) = Occupied
  /\ \A i \in 1..Occupied : Queue[i] = Held[At(i - 1)]
  /\ Popped \in [Thread -> Value \cup {Nothing}]

LEMMA InWindow ==
  ASSUME IInv, NEW i \in 1..Occupied
  PROVE  i - 1 \in Slots /\ i - 1 < Occupied /\ dequeue_position + i - 1 = dequeue_position + (i - 1)
         /\ At(i - 1) \in Words
<1>1. Occupied \in 0..Capacity /\ dequeue_position \in Words /\ \A j \in Slots : At(j) \in Words
  BY Numbers DEF IInv
<1>2. i - 1 \in Slots /\ i - 1 < Occupied /\ dequeue_position + i - 1 = dequeue_position + (i - 1)
  BY <1>1, WordIsInt, Bounds, SMT DEF Slots
<1> QED
  BY <1>1, <1>2

LEMMA IsPlaced == IInv => Placed
<1> SUFFICES ASSUME IInv PROVE Placed
  OBVIOUS
<1>1. ASSUME NEW p \in Words, NEW t \in Thread, Writing(t, p) PROVE Held[p] = arg[t]
  <2>1. \A u \in Thread : Writing(u, p) => u = t
    BY <1>1 DEF Writing, IInv, ClaimedOnce, Inside
  <2>2. (CHOOSE u \in Thread : Writing(u, p)) = t
    BY <1>1, <2>1
  <2> QED
    BY <1>1, <2>2 DEF Held, ValueAt, Writing
<1>2. ASSUME NEW p \in Words, \A t \in Thread : ~Writing(t, p) PROVE Held[p] = payload[SlotOf(p)]
  BY <1>2 DEF Held, ValueAt, Writing
<1>3. \A p \in Words : Held[p] \in Value
  <2> SUFFICES ASSUME NEW p \in Words PROVE Held[p] \in Value
    OBVIOUS
  <2>1. CASE \E t \in Thread : Writing(t, p)
    BY <1>1, <2>1 DEF Writing, IInv, InCall
  <2>2. CASE \A t \in Thread : ~Writing(t, p)
    <3>1. SlotOf(p) \in Slots
      BY WordIsInt, InSlots
    <3> QED
      BY <1>2, <2>2, <3>1 DEF IInv, TypeOK
  <2> QED
    BY <2>1, <2>2
<1>4. \A i \in 1..Occupied : Queue[i] = Held[At(i - 1)] /\ Queue[i] \in Value
  <2> SUFFICES ASSUME NEW i \in 1..Occupied PROVE Queue[i] = Held[At(i - 1)] /\ At(i - 1) \in Words
    BY <1>3
  <2>1. At(i - 1) = Wrap(dequeue_position + i - 1) /\ At(i - 1) \in Words
    BY InWindow DEF At
  <2>2. Queue[i] = ValueAt(Wrap(dequeue_position + i - 1))
    BY DEF Queue
  <2> QED
    BY <2>1, <2>2 DEF Held
<1>5. Queue \in Seq(Value) /\ Len(Queue) = Occupied
  <2>1. Occupied \in Nat
    BY Numbers, Bounds, SMT DEF IInv
  <2>2. Queue \in [1..Occupied -> Value]
    BY <1>4 DEF Queue
  <2> QED
    BY <2>1, <2>2, SMT
<1>6. Popped \in [Thread -> Value \cup {Nothing}]
  <2> SUFFICES ASSUME NEW t \in Thread
               PROVE  (IF pc[t] = "claimed" /\ op[t] = "pop" THEN payload[SlotOf(position[t])] ELSE result[t])
                        \in Value \cup {Nothing}
    BY DEF Popped
  <2>1. payload[SlotOf(position[t])] \in Value /\ result[t] \in Value \cup {Nothing}
    BY WindowSlots DEF IInv, TypeOK
  <2> QED
    BY <2>1
<1> QED
  BY <1>1, <1>2, <1>4, <1>5, <1>6 DEF Placed

LEMMA IsPlacedNext == IInv' => Placed'
BY IsPlaced, PTL

LEMMA SameSequence ==
  ASSUME NEW a \in Seq(Value), NEW b \in Seq(Value), Len(a) = Len(b), \A i \in 1..Len(a) : a[i] = b[i]
  PROVE  a = b
BY SMT

\* A step that keeps the counters and the value at each position of the window
\* keeps the queue.
LEMMA SameQueue ==
  ASSUME IInv, IInv', UNCHANGED positionVars,
         \A j \in Slots : j < Occupied => Held'[At(j)] = Held[At(j)]
  PROVE  Queue' = Queue
<1>1. Occupied' = Occupied /\ \A j : At(j)' = At(j)
  BY DEF positionVars, Occupied, At
<1>2. Placed /\ Placed'
  BY IsPlaced, IsPlacedNext
<1>3. \A i \in 1..Occupied : Queue[i] = Held[At(i - 1)] /\ Queue'[i] = Held'[At(i - 1)]
  BY <1>1, <1>2 DEF Placed
<1>4. \A i \in 1..Occupied : Queue'[i] = Queue[i]
  BY <1>3, InWindow
<1>5. Queue \in Seq(Value) /\ Queue' \in Seq(Value) /\ Len(Queue) = Occupied /\ Len(Queue') = Occupied
  BY <1>1, <1>2 DEF Placed
<1> QED
  BY <1>4, <1>5, SameSequence

\* Threads that neither claim nor write leave every value where it is.
LEMMA SameValues ==
  ASSUME IInv, IInv', UNCHANGED payload,
         \A u \in Thread, p \in Words : Writing(u, p)' <=> Writing(u, p),
         \A u \in Thread : pc[u] = "claimed" /\ op[u] = "push" => arg'[u] = arg[u]
  PROVE  \A p \in Words : Held'[p] = Held[p]
<1> SUFFICES ASSUME NEW p \in Words PROVE Held'[p] = Held[p]
  OBVIOUS
<1>1. Placed /\ Placed'
  BY IsPlaced, IsPlacedNext
<1>2. CASE \E u \in Thread : Writing(u, p)
  <2>1. PICK u \in Thread : Writing(u, p)
    BY <1>2
  <2>2. Writing(u, p)' /\ arg'[u] = arg[u]
    BY <2>1 DEF Writing
  <2> QED
    BY <1>1, <2>1, <2>2 DEF Placed
<1>3. CASE \A u \in Thread : ~Writing(u, p)
  <2>1. \A u \in Thread : ~Writing(u, p)'
    BY <1>3
  <2> QED
    BY <1>1, <1>3, <2>1 DEF Placed
<1> QED
  BY <1>2, <1>3

(* The steps outside the slots, and the release of one.                    *)
LEMMA HiddenStep ==
  ASSUME IInv, IInv', NEW t \in Thread, UNCHANGED <<payload, positionVars>>, Others(t),
         pc[t] # "claimed", pc'[t] # "claimed",
         \A u \in Thread \ {t} : result'[u] = result[u],
         result'[t] \in {result[t], Nothing}
  PROVE  [Fifo!Next]_<<Queue, Popped>>
<1>1. ASSUME NEW u \in Thread, NEW p \in Words PROVE Writing(u, p)' <=> Writing(u, p)
  BY DEF Writing, Others
<1>2. \A u \in Thread : pc[u] = "claimed" /\ op[u] = "push" => arg'[u] = arg[u]
  BY DEF Others
<1>3. \A p \in Words : Held'[p] = Held[p]
  BY <1>1, <1>2, SameValues
<1>4. \A j \in Slots : At(j) \in Words
  BY Numbers DEF IInv
<1>5. Queue' = Queue
  BY <1>3, <1>4, SameQueue
<1>6. ASSUME NEW u \in Thread PROVE Popped'[u] = IF u = t THEN result'[t] ELSE Popped[u]
  <2>1. u # t => pc'[u] = pc[u] /\ op'[u] = op[u] /\ position'[u] = position[u] /\ result'[u] = result[u]
    BY DEF Others
  <2> QED
    BY <2>1 DEF Popped
<1>7. Popped[t] = result[t]
  BY DEF Popped
<1>8. Popped \in [Thread -> Value \cup {Nothing}] /\ Popped' \in [Thread -> Value \cup {Nothing}]
  BY IsPlaced, IsPlacedNext DEF Placed
<1>9. CASE result'[t] = result[t]
  <2>1. \A u \in Thread : Popped'[u] = Popped[u]
    BY <1>6, <1>7, <1>9
  <2>2. Popped' = Popped
    BY <1>8, <2>1
  <2> QED
    BY <1>5, <2>2
<1>10. CASE result'[t] = Nothing
  <2>1. Popped' = [Popped EXCEPT ![t] = Nothing]
    BY <1>6, <1>8, <1>10
  <2> QED
    BY <1>5, <2>1 DEF Fifo!Next, Fifo!Finish
<1> QED
  BY <1>9, <1>10

\* A push that claims a position appends its value.
LEMMA PushAppends ==
  ASSUME IInv, IInv', NEW t \in Thread, Claim(t), op[t] = "push"
  PROVE  Fifo!Push(arg[t]) /\ arg[t] \in Value
<1> DEFINE d == dequeue_position
           e == enqueue_position
           o == Occupied
<1>1. /\ pc[t] = "swap" /\ position[t] = e /\ Counter(t) = position[t]
      /\ enqueue_position' = Wrap(e + 1) /\ pc' = [pc EXCEPT ![t] = "claimed"]
      /\ UNCHANGED <<sequence, payload, dequeue_position, op, arg, position, result>>
  BY DEF Claim, Counter, Go, slotVars
<1>2. /\ d \in Words /\ e \in Words /\ o \in 0..Capacity /\ e = At(o)
      /\ \A j \in Slots : At(j) \in Words /\ j \in 0..Capacity
  BY Numbers DEF IInv
<1>3. o < Capacity
  BY <1>1, RoomToPush
<1>4. Occupied' = o + 1 /\ \A j : At(j)' = At(j)
  BY <1>1, <1>2, <1>3, OneMore DEF Occupied, At
<1>5. arg[t] \in Value
  BY <1>1 DEF IInv, InCall
<1>6. \A u \in Thread, p \in Words : Writing(u, p)' <=> Writing(u, p) \/ (u = t /\ p = e)
  BY <1>1 DEF Writing, IInv, TypeOK
<1>7. Placed /\ Placed'
  BY IsPlaced, IsPlacedNext
<1>8. Held'[e] = arg[t]
  BY <1>1, <1>2, <1>6, <1>7 DEF Placed
<1>9. ASSUME NEW p \in Words, p # e PROVE Held'[p] = Held[p]
  <2>1. \A u \in Thread : Writing(u, p)' <=> Writing(u, p)
    BY <1>6, <1>9
  <2>2. CASE \E u \in Thread : Writing(u, p)
    BY <1>1, <1>7, <2>1, <2>2 DEF Placed
  <2>3. CASE \A u \in Thread : ~Writing(u, p)
    BY <1>1, <1>7, <2>1, <2>3 DEF Placed
  <2> QED
    BY <2>2, <2>3
<1>10. Queue \in Seq(Value) /\ Len(Queue) = o /\ Queue' \in Seq(Value) /\ Len(Queue') = o + 1
  BY <1>4, <1>7 DEF Placed
<1>11. /\ \A i \in 1..o : Queue[i] = Held[At(i - 1)]
       /\ \A i \in 1..(o + 1) : Queue'[i] = Held'[At(i - 1)]
  BY <1>4, <1>7 DEF Placed
<1>12. ASSUME NEW i \in 1..o PROVE Queue'[i] = Queue[i]
  <2>1. i \in 1..(o + 1) /\ i - 1 # o /\ i - 1 \in 0..Capacity
    BY <1>2, Bounds, SMT
  <2>2. At(i - 1) \in Words /\ At(i - 1) # e
    BY <1>2, <2>1, InWindow, SameStep DEF At
  <2> QED
    BY <1>9, <1>11, <2>1, <2>2
<1>13. Queue'[o + 1] = arg[t]
  <2>1. o + 1 \in 1..(o + 1) /\ (o + 1) - 1 = o
    BY <1>2, Bounds, SMT
  <2> QED
    BY <1>2, <1>8, <1>11, <2>1
<1>14. Queue' = Append(Queue, arg[t])
  <2> DEFINE q == Queue
             n == Queue'
             a == Append(q, arg[t])
  <2>1. a \in Seq(Value) /\ Len(a) = o + 1 /\ (\A i \in 1..o : a[i] = q[i]) /\ a[o + 1] = arg[t]
    BY <1>5, <1>10, AppendProperties
  <2>2. o \in Nat
    BY <1>2, Bounds, SMT
  <2>3. \A i \in 1..(o + 1) : i \in 1..o \/ i = o + 1
    BY <2>2, SMT
  <2>4. \A i \in 1..(o + 1) : n[i] = a[i]
    BY <1>12, <1>13, <2>1, <2>3
  <2> QED
    BY <1>10, <2>1, <2>4, SameSequence
<1>15. Popped' = Popped
  <2>1. ASSUME NEW u \in Thread PROVE Popped'[u] = Popped[u]
    BY <1>1 DEF Popped, IInv, TypeOK
  <2> QED
    BY <1>7, <2>1 DEF Placed
<1> QED
  BY <1>3, <1>5, <1>10, <1>14, <1>15 DEF Fifo!Push

\* A pop that claims a position takes the head.
LEMMA PopTakes ==
  ASSUME IInv, IInv', NEW t \in Thread, Claim(t), op[t] = "pop"
  PROVE  Fifo!Pop(t)
<1> DEFINE d == dequeue_position
           e == enqueue_position
           o == Occupied
<1>1. /\ pc[t] = "swap" /\ position[t] = d /\ Counter(t) = position[t]
      /\ dequeue_position' = Wrap(d + 1) /\ pc' = [pc EXCEPT ![t] = "claimed"]
      /\ UNCHANGED <<sequence, payload, enqueue_position, op, arg, position, result>>
  BY DEF Claim, Counter, Go, slotVars
<1>2. /\ d \in Words /\ e \in Words /\ o \in 0..Capacity /\ At(0) = d
  BY Numbers DEF IInv
<1>3. o > 0 /\ sequence[SlotOf(d)] = Wrap(d + 1)
  BY <1>1, ItemToPop
<1>4. Occupied' = o - 1
  BY <1>1, <1>2, <1>3, OneLess DEF Occupied
<1>5. Placed /\ Placed'
  BY IsPlaced, IsPlacedNext
<1>6. \A u \in Thread, p \in Words : Writing(u, p)' <=> Writing(u, p)
  BY <1>1 DEF Writing, IInv, TypeOK
<1>7. \A p \in Words : Held'[p] = Held[p]
  BY <1>1, <1>6, SameValues
\* The value at d has been written: its slot is ready to be read.
<1>8. Held[d] = payload[SlotOf(d)]
  <2>1. 0 \in 0..Capacity /\ 1 \in 0..Capacity /\ 0 # 1
    BY Bounds, SMT
  <2>2. Wrap(d + 1) # d
    BY <1>2, <2>1, NoStep, SameStep
  <2>3. \A u \in Thread : ~Writing(u, d)
    BY <1>3, <2>2 DEF Writing, IInv, Writers, Inside
  <2> QED
    BY <1>2, <1>5, <2>3 DEF Placed
<1>9. Queue \in Seq(Value) /\ Len(Queue) = o /\ Queue' \in Seq(Value) /\ Len(Queue') = o - 1
  BY <1>4, <1>5 DEF Placed
<1>10. Queue # << >>
  BY <1>3, <1>9, SMT
<1>11. Head(Queue) = payload[SlotOf(d)]
  <2>1. 1 \in 1..o /\ 1 - 1 = 0
    BY <1>2, <1>3, Bounds, SMT
  <2>2. Queue[1] = Held[d]
    BY <1>2, <1>5, <2>1 DEF Placed
  <2> QED
    BY <1>8, <1>9, <1>10, <2>2, HeadTailProperties
<1>12. ASSUME NEW i \in 1..(o - 1) PROVE Queue'[i] = Queue[i + 1]
  <2>1. i + 1 \in 1..o /\ i \in 1..o /\ (i + 1) - 1 = i /\ (i - 1) + 1 = i
    BY <1>2, Bounds, SMT
  <2>2. Queue[i + 1] = Held[At(i)] /\ At(i) \in Words
    BY <1>5, <2>1, InWindow DEF Placed
  <2>3. At(i - 1)' = At(i)
    BY <1>1, <1>2, <2>1, InWindow, StepOn DEF At
  <2>4. Queue'[i] = Held'[At(i - 1)']
    BY <1>4, <1>5 DEF Placed
  <2> QED
    BY <1>7, <2>2, <2>3, <2>4
<1>13. Queue' = Tail(Queue)
  <2> DEFINE q == Queue
             n == Queue'
             a == Tail(q)
  <2>1. a \in Seq(Value) /\ Len(a) = o - 1 /\ \A i \in 1..(o - 1) : a[i] = q[i + 1]
    BY <1>9, <1>10, HeadTailProperties
  <2>2. \A i \in 1..(o - 1) : n[i] = a[i]
    BY <1>12, <2>1
  <2> QED
    BY <1>9, <2>1, <2>2, SameSequence
<1>14. Popped' = [Popped EXCEPT ![t] = Head(Queue)]
  <2>1. Popped'[t] = payload[SlotOf(d)]
    BY <1>1 DEF Popped, IInv, TypeOK
  <2>2. ASSUME NEW u \in Thread, u # t PROVE Popped'[u] = Popped[u]
    BY <1>1, <2>2 DEF Popped, IInv, TypeOK
  <2> QED
    BY <1>5, <1>11, <2>1, <2>2 DEF Placed
<1> QED
  BY <1>10, <1>13, <1>14 DEF Fifo!Pop

\* Writing the slot that a push has claimed, and reading the one that a pop
\* has claimed, change neither the queue nor what any pop will return.
LEMMA AccessHidden ==
  ASSUME IInv, IInv', NEW t \in Thread, Access(t)
  PROVE  Queue' = Queue /\ Popped' = Popped
<1> DEFINE k == SlotOf(position[t])
<1>1. /\ pc[t] = "claimed" /\ pc' = [pc EXCEPT ![t] = "accessed"] /\ op[t] \in {"push", "pop"}
      /\ UNCHANGED <<sequence, enqueue_position, dequeue_position, op, arg, position>>
  BY DEF Access, Go, positionVars, IInv, InCall
<1>2. position[t] \in Words /\ k \in Slots /\ \A j \in Slots : At(j) \in Words
  BY WindowSlots, Numbers DEF IInv
<1>3. Placed /\ Placed' /\ UNCHANGED positionVars
  BY <1>1, IsPlaced, IsPlacedNext DEF positionVars
<1>4. \A u \in Thread : pc'[u] = IF u = t THEN "accessed" ELSE pc[u]
  BY <1>1 DEF IInv, TypeOK
<1>5. CASE op[t] = "push"
  <2>1. payload' = [payload EXCEPT ![k] = arg[t]] /\ result' = result
    BY <1>5 DEF Access
  <2>2. payload'[k] = arg[t] /\ \A i \in Slots : i # k => payload'[i] = payload[i]
    BY <1>2, <2>1 DEF IInv, TypeOK
  <2>3. Writing(t, position[t]) /\ \A p \in Words : ~Writing(t, p)'
    BY <1>1, <1>4, <1>5 DEF Writing
  <2>4. ASSUME NEW u \in Thread, u # t PROVE ~(pc[u] = "claimed" /\ op[u] = "push" /\ position[u] = position[t])
    BY <1>1, <1>5, <2>4 DEF IInv, ClaimedOnce, Inside
  <2>5. Held'[position[t]] = Held[position[t]]
    <3>1. PICK p \in Words : p = position[t]
      BY <1>2
    <3>2. Held[p] = arg[t]
      BY <1>3, <2>3, <3>1 DEF Placed
    <3>3. \A u \in Thread : ~Writing(u, p)'
      BY <1>1, <1>4, <2>4, <3>1 DEF Writing
    <3>4. Held'[p] = payload'[SlotOf(p)]
      BY <1>3, <3>3 DEF Placed
    <3> QED
      BY <2>2, <3>1, <3>2, <3>4
  <2>6. PICK m \in Slots : m < Occupied /\ position[t] = At(m)
    BY <1>1, <1>5 DEF IInv, Writers, Inside
  <2>7. ASSUME NEW j \in Slots, j # m PROVE Held'[At(j)] = Held[At(j)]
    <3>1. SlotOf(At(j)) # k /\ SlotOf(At(j)) \in Slots
      BY <1>2, <2>6, <2>7, WindowSlots, WordIsInt, InSlots
    <3>2. payload'[SlotOf(At(j))] = payload[SlotOf(At(j))]
      BY <2>2, <3>1
    <3>3. At(j) # position[t]
      BY <3>1
    <3>4. PICK p \in Words : p = At(j)
      BY <1>2
    <3>5. \A u \in Thread : Writing(u, p)' <=> Writing(u, p)
      BY <1>1, <1>4, <3>3, <3>4 DEF Writing
    <3>6. CASE \E u \in Thread : Writing(u, p)
      <4>1. PICK u \in Thread : Writing(u, p) /\ Writing(u, p)'
        BY <3>5, <3>6
      <4> QED
        BY <1>1, <1>3, <3>4, <4>1 DEF Placed
    <3>7. CASE \A u \in Thread : ~Writing(u, p)
      <4>1. Held[p] = payload[SlotOf(p)] /\ Held'[p] = payload'[SlotOf(p)]
        BY <1>3, <3>5, <3>7 DEF Placed
      <4> QED
        BY <3>2, <3>4, <4>1
    <3> QED
      BY <3>6, <3>7
  <2>8. Queue' = Queue
    BY <1>3, <2>5, <2>6, <2>7, SameQueue
  <2>9. ASSUME NEW u \in Thread PROVE Popped'[u] = Popped[u]
    <3>1. CASE pc[u] = "claimed" /\ op[u] = "pop"
      <4>1. u # t /\ SlotOf(position[u]) \in Slots
        BY <1>5, <3>1, WindowSlots
      <4>2. SlotOf(position[u]) # k
        BY <1>1, <1>2, <3>1, <4>1, OneInside DEF SlotExclusive, InSlot
      <4>3. payload'[SlotOf(position[u])] = payload[SlotOf(position[u])]
        BY <2>2, <4>1, <4>2
      <4> QED
        BY <1>1, <1>4, <3>1, <4>1, <4>3 DEF Popped
    <3>2. CASE ~(pc[u] = "claimed" /\ op[u] = "pop")
      BY <1>1, <1>4, <1>5, <2>1, <3>2 DEF Popped
    <3> QED
      BY <3>1, <3>2
  <2> QED
    BY <1>3, <2>8, <2>9 DEF Placed
<1>6. CASE op[t] = "pop"
  <2>1. result' = [result EXCEPT ![t] = payload[k]] /\ payload' = payload
    BY <1>6 DEF Access
  <2>2. \A u \in Thread, p \in Words : Writing(u, p)' <=> Writing(u, p)
    BY <1>1, <1>4, <1>6 DEF Writing
  <2>3. \A p \in Words : Held'[p] = Held[p]
    BY <1>1, <2>1, <2>2, SameValues
  <2>4. Queue' = Queue
    BY <1>2, <1>3, <2>3, SameQueue
  <2>5. \A u \in Thread : result'[u] = IF u = t THEN payload[k] ELSE result[u]
    BY <2>1 DEF IInv, TypeOK
  <2>6. ASSUME NEW u \in Thread PROVE Popped'[u] = Popped[u]
    BY <1>1, <1>4, <1>6, <2>1, <2>5 DEF Popped
  <2> QED
    BY <1>3, <2>4, <2>6 DEF Placed
<1> QED
  BY <1>1, <1>5, <1>6

LEMMA StepRefines ==
  ASSUME IInv, IInv', NEW t \in Thread,
         \/ \E v \in Value : push(t, v)
         \/ pop(t)
         \/ LookRefused(t) \/ LookDecided(t) \/ Retry(t)
         \/ Claim(t) \/ Access(t) \/ Release(t)
  PROVE  [Fifo!Next]_<<Queue, Popped>>
<1>1. ASSUME \/ \E v \in Value : push(t, v)
             \/ pop(t)
             \/ LookDecided(t) \/ Retry(t)
      PROVE  [Fifo!Next]_<<Queue, Popped>>
  <2>1. /\ UNCHANGED <<payload, positionVars, result>> /\ pc[t] # "claimed" /\ pc'[t] # "claimed"
        /\ Others(t)
    BY <1>1 DEF push, pop, LookDecided, Retry, Go, slotVars, positionVars, Others, IInv, TypeOK
  <2> QED
    BY <2>1, HiddenStep
<1>2. ASSUME LookRefused(t) \/ Release(t)
      PROVE  [Fifo!Next]_<<Queue, Popped>>
  <2>1. /\ UNCHANGED <<payload, positionVars>> /\ pc[t] # "claimed" /\ Forget(t)
    BY <1>2 DEF LookRefused, Release, slotVars
  <2>2. pc'[t] # "claimed" /\ Others(t)
    BY <2>1 DEF Forget, Go, Others, IInv, TypeOK
  <2>3. result'[t] = Nothing /\ \A u \in Thread \ {t} : result'[u] = result[u]
    BY <2>1 DEF Forget, IInv, TypeOK
  <2> QED
    BY <2>1, <2>2, <2>3, HiddenStep
<1>3. ASSUME Claim(t)
      PROVE  Fifo!Next
  <2>1. op[t] \in {"push", "pop"}
    BY <1>3 DEF Claim, IInv, InCall
  <2>2. CASE op[t] = "push"
    BY <1>3, <2>2, PushAppends DEF Fifo!Next
  <2>3. CASE op[t] = "pop"
    BY <1>3, <2>3, PopTakes DEF Fifo!Next
  <2> QED
    BY <2>1, <2>2, <2>3
<1> QED
  BY <1>1, <1>2, <1>3, AccessHidden

\* The ring starts empty, or full of the indices in order.
LEMMA StartsAsQueue == Init => Fifo!Init
<1> SUFFICES ASSUME Init PROVE Fifo!Init
  OBVIOUS
<1>1. PICK full \in BOOLEAN : Started(full)
  BY DEF Init
<1>2. /\ \A t \in Thread : pc[t] = "idle" /\ result[t] = Nothing
      /\ dequeue_position = 0 /\ payload = [i \in Slots |-> i]
      /\ enqueue_position = IF full THEN Capacity ELSE 0
  BY <1>1 DEF Init, Started
<1>3. IInv /\ Placed
  BY InitInv, IsPlaced
<1>4. Popped = [t \in Thread |-> Nothing]
  BY <1>2 DEF Popped
<1>5. 0 \in Words /\ Capacity \in Words /\ Capacity >= 0 /\ Capacity - 0 = Capacity /\ 0 - 0 = 0
  BY Bounds, SMT DEF Words
<1>6. CASE full
  <2>1. Occupied = Capacity
    BY <1>2, <1>5, <1>6, Between DEF Occupied
  <2> DEFINE f == [i \in 1..Capacity |-> i - 1]
  <2>2. ASSUME NEW i \in 1..Capacity PROVE Queue[i] = i - 1 /\ i - 1 \in Value
    <3>1. i - 1 \in Slots /\ At(i - 1) \in Words
      BY <1>3, <2>1, InWindow
    <3>2. At(i - 1) = i - 1 /\ SlotOf(At(i - 1)) = i - 1
      BY <1>2, <3>1, AtStart
    <3>3. \A u \in Thread : ~Writing(u, At(i - 1))
      BY <1>2 DEF Writing
    <3>4. Queue[i] = payload[SlotOf(At(i - 1))]
      BY <1>3, <2>1, <3>1, <3>3 DEF Placed
    <3> QED
      BY <1>2, <3>1, <3>2, <3>4, ValueIsNoNothing
  <2>3. f \in Seq(Value) /\ Len(f) = Capacity /\ \A i \in 1..Capacity : f[i] = i - 1
    <3>1. f \in [1..Capacity -> Value]
      BY <2>2
    <3>2. Capacity \in Nat /\ \A i \in 1..Capacity : f[i] = i - 1
      BY Bounds
    <3> HIDE DEF f
    <3> QED
      BY <3>1, <3>2, SMT
  <2> HIDE DEF f
  <2>4. Queue \in Seq(Value) /\ Len(Queue) = Capacity
    BY <1>3, <2>1 DEF Placed
  <2>5. Queue = f
    <3> DEFINE q == Queue
    <3>1. \A i \in 1..Capacity : q[i] = f[i]
      BY <2>2, <2>3
    <3> HIDE DEF q
    <3> QED
      BY <2>3, <2>4, <3>1, SameSequence DEF q
  <2> QED
    BY <1>4, <2>5 DEF Fifo!Init, f
<1>7. CASE ~full
  <2>1. Occupied = 0
    BY <1>2, <1>5, <1>7, Between DEF Occupied
  <2>2. Queue = << >>
    BY <1>3, <2>1, EmptySeq DEF Placed
  <2> QED
    BY <1>4, <2>2 DEF Fifo!Init
<1> QED
  BY <1>6, <1>7

(* ------------------------------ the theorems ---------------------------- *)

\* No two threads are ever inside the same slot (push() and pop() access its
\* payload without a lock), with any number of threads, for every capacity from
\* two up and across every wrap of the positions, as long as no thread sleeps
\* through half the range of a position.
THEOREM OneThreadPerSlot == Spec => []SlotExclusive
BY Inductive, OneInside, PTL

\* push() and pop() together are one bounded queue, each taking effect when
\* its compare_exchange succeeds: with any number of threads, for every
\* capacity and across every wrap of the positions, nothing that was pushed is
\* lost, handed out twice or overtaken.
THEOREM RingIsQueue == Spec => ImplementsQueue
<1>1. Init => Fifo!Init
  BY StartsAsQueue
<1>2. IInv /\ IInv' /\ [Next]_vars => [Fifo!Next]_<<Queue, Popped>>
  <2> SUFFICES ASSUME IInv, IInv', [Next]_vars PROVE [Fifo!Next]_<<Queue, Popped>>
    OBVIOUS
  <2>1. CASE Next
    BY <2>1, StepRefines DEF Next
  <2>2. CASE UNCHANGED vars
    BY <2>2 DEF vars, slotVars, positionVars, threadVars, Queue, Occupied, ValueAt, Popped
  <2> QED
    BY <2>1, <2>2
<1> QED
  BY <1>1, <1>2, Inductive, PTL DEF Spec, ImplementsQueue, Fifo!Spec

\* is_valid(): the counters are never further apart than the capacity.
THEOREM CountersKept == Spec => []CountersInRange
<1>1. IInv => CountersInRange
  BY DEF IInv
<1> QED
  BY <1>1, Inductive, PTL

\* Every position and sequence stays in its width, and every thread at a place
\* of push() or pop().
THEOREM TypeCorrect == Spec => []TypeOK
<1>1. IInv => TypeOK
  BY DEF IInv
<1> QED
  BY <1>1, Inductive, PTL
=============================================================================
