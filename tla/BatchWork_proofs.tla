--------------------------- MODULE BatchWork_proofs ---------------------------
(***************************************************************************)
(* The safety of the batch runners, for any number of requesters, runners, *)
(* correlations and slots: accepted work is in exactly one place, a        *)
(* response always finds a return slot, and a requester's client is not    *)
(* released under a runner.                                                *)
(*                                                                         *)
(* The argument counts by sets.  The items that occupy return slots of a   *)
(* requester are a proper subset of its accepted items as long as one of   *)
(* them is still on its way to complete(), and the accepted items are no   *)
(* more than the credits.                                                  *)
(***************************************************************************)
EXTENDS BatchWork, FiniteSetTheorems, SequenceTheorems, TLAPS

(* --------------------------- the inductive invariant -------------------- *)

In(s, x) == \E n \in 1..Len(s) : s[n] = x

Distinct(s) == \A m, n \in 1..Len(s) : s[m] = s[n] => m = n

\* Where a thread has an item that is nowhere else, and where it has a job.
HoldPc == {"recycle", "credit", "publish", "r_recycle", "execute", "reserve", "r_publish"}

Held(p, j) == [t \in Thread |-> IF p[t] \in HoldPc THEN j[t] ELSE NoItem]

RequesterPc == {"top", "receive", "recycle", "credit", "submit", "publish", "releasing", "poke",
                "wake", "decide", "wait", "exited"}

RequesterJobPc == {"recycle", "credit", "publish", "releasing"}

InsidePc == {"reserve", "r_publish", "r_releasing", "r_poke", "r_wake", "leave"}

RunnerJobPc == {"r_recycle", "execute"} \cup InsidePc

RunnerPc == {"top", "acquire", "wait", "exited"} \cup RunnerJobPc

Place == RequesterPc \cup RunnerPc
HostPlace == {"serving", "poking", "waking", "joining", "retired"}

\* Types, and what a thread works on at each place.  No runner is ever at
\* "undelivered" or "failed".
Typed ==
  /\ work \in Seq(Items) /\ returns \in [Requester -> Seq(Items)]
  /\ work_free \in Nat /\ returns_free \in [Requester -> Nat]
  /\ pending \in [Requester -> SUBSET Items]
  /\ outstanding \in [Requester -> Nat] /\ return_publishers \in [Requester -> Nat]
  /\ unchanged \subseteq Thread /\ parked \subseteq Thread /\ exit_requested \subseteq Thread
  /\ released \subseteq Requester /\ pool_released \in BOOLEAN
  /\ pc \in [Thread -> Place] /\ job \in [Thread -> Items \cup {NoItem}]
  /\ progressed \in [Thread -> BOOLEAN] /\ host \in [Requester -> HostPlace]

Jobs(p, j) ==
  /\ \A q \in Requester :
       /\ p[q] \in RequesterPc
       /\ p[q] \in RequesterJobPc => j[q] \in Items /\ From(j[q]) = q
       /\ p[q] \notin RequesterJobPc => j[q] = NoItem
  /\ \A r \in Runner :
       /\ p[r] \in RunnerPc
       /\ p[r] \in RunnerJobPc => j[r] \in Items
       /\ p[r] \notin RunnerJobPc => j[r] = NoItem

\* Nothing is in two places, ...
Apart(w, r, h) ==
  /\ Distinct(w) /\ \A q \in Requester : Distinct(r[q])
  /\ \A q \in Requester, x \in Items : In(r[q], x) => From(x) = q /\ ~In(w, x)
  /\ \A t \in Thread, x \in Items : h[t] = x => ~In(w, x) /\ ~In(r[From(x)], x)
  /\ \A t, u \in Thread : h[t] \in Items /\ h[t] = h[u] => t = u

\* ... and what is anywhere is what was accepted and has not been received.
Accepted(w, r, pd, h) ==
  \A q \in Requester, x \in Items :
    x \in pd[q] <=> From(x) = q /\ (In(w, x) \/ In(r[q], x) \/ \E t \in Thread : h[t] = x)

\* The items that occupy a slot of the work channel, or of q's return channel.
WorkSlots(w, p, j) ==
  {x \in Items : \/ In(w, x)
                 \/ \E q \in Requester : p[q] = "publish" /\ j[q] = x
                 \/ \E r \in Runner : p[r] = "r_recycle" /\ j[r] = x}

ReturnSlots(r, p, j, q) ==
  {x \in Items : \/ In(r, x)
                 \/ p[q] = "recycle" /\ j[q] = x
                 \/ \E u \in Runner : p[u] = "r_publish" /\ j[u] = x /\ From(x) = q}

WorkCounted(w, free, p, j) ==
  IsFiniteSet(WorkSlots(w, p, j)) /\ free = Capacity - Cardinality(WorkSlots(w, p, j))

ReturnsCounted(r, free, p, j) ==
  \A q \in Requester : /\ IsFiniteSet(ReturnSlots(r[q], p, j, q))
                       /\ free[q] = Capacity - Cardinality(ReturnSlots(r[q], p, j, q))

Credited(pd, out) ==
  \A q \in Requester : IsFiniteSet(pd[q]) /\ out[q] = Cardinality(pd[q]) /\ out[q] <= Capacity

\* The runners inside complete() for q.
Inside(p, j, q) == {r \in Runner : p[r] \in InsidePc /\ From(j[r]) = q}

Insiders(rp, p, j) == \A q \in Requester : rp[q] = Cardinality(Inside(p, j, q))

Gone(rel, pd, p, j) ==
  \A q \in Requester : /\ p[q] = "exited" => pd[q] = {}
                       /\ q \in rel => p[q] = "exited" /\ Inside(p, j, q) = {}

IInv ==
  /\ Typed /\ Jobs(pc, job)
  /\ Apart(work, returns, Held(pc, job)) /\ Accepted(work, returns, pending, Held(pc, job))
  /\ WorkCounted(work, work_free, pc, job) /\ ReturnsCounted(returns, returns_free, pc, job)
  /\ Credited(pending, outstanding)
  /\ Insiders(return_publishers, pc, job)
  /\ Gone(released, pending, pc, job)

(* ------------------------------ items and queues ------------------------ *)

LEMMA ItemIs ==
  /\ \A x \in Items : From(x) \in Requester
  /\ \A q \in Requester, c \in Correlation : <<q, c>> \in Items /\ From(<<q, c>>) = q
BY DEF Items, From

LEMMA NoItemIs == NoItem \notin Items
<1>1. \A q \in Requester, c \in Correlation : Len(<<q, c>>) = 2
  OBVIOUS
<1>2. Len(<< >>) = 0
  OBVIOUS
<1>3. \A x \in Items : \E q \in Requester, c \in Correlation : x = <<q, c>>
  BY DEF Items
<1> QED BY <1>1, <1>2, <1>3 DEF NoItem

LEMMA AppendIs ==
  ASSUME NEW s \in Seq(Items), NEW x \in Items, Distinct(s), ~In(s, x)
  PROVE  /\ Append(s, x) \in Seq(Items) /\ Distinct(Append(s, x))
         /\ \A y : In(Append(s, x), y) <=> In(s, y) \/ y = x
<1>1. /\ Append(s, x) \in Seq(Items) /\ Len(Append(s, x)) = Len(s) + 1 /\ Len(s) \in Nat
      /\ \A n \in 1..Len(s) : Append(s, x)[n] = s[n]
      /\ Append(s, x)[Len(s) + 1] = x
  OBVIOUS
<1> DEFINE a == Append(s, x)
<1> HIDE DEF a
<1>2. Distinct(a)
  BY <1>1 DEF Distinct, In, a
<1>3. \A y : In(a, y) <=> In(s, y) \/ y = x
  BY <1>1 DEF In, a
<1> QED BY <1>1, <1>2, <1>3 DEF a

LEMMA TailIs ==
  ASSUME NEW s \in Seq(Items), s # << >>, Distinct(s)
  PROVE  /\ Tail(s) \in Seq(Items) /\ Distinct(Tail(s)) /\ Head(s) \in Items
         /\ In(s, Head(s)) /\ ~In(Tail(s), Head(s))
         /\ \A y : In(s, y) <=> In(Tail(s), y) \/ y = Head(s)
<1>1. /\ Tail(s) \in Seq(Items) /\ Len(Tail(s)) = Len(s) - 1 /\ Len(s) \in Nat /\ Len(s) > 0
      /\ \A n \in 1..(Len(s) - 1) : Tail(s)[n] = s[n + 1]
      /\ Head(s) = s[1] /\ s[1] \in Items
  OBVIOUS
<1> DEFINE a == Tail(s)
           h == Head(s)
<1> HIDE DEF a, h
<1>2. Distinct(a)
  BY <1>1 DEF Distinct, a
<1>3. In(s, h) /\ ~In(a, h)
  BY <1>1 DEF In, Distinct, a, h
<1>4. ASSUME NEW y PROVE In(s, y) <=> In(a, y) \/ y = h
  <2>1. In(s, y) => In(a, y) \/ y = h
    <3> SUFFICES ASSUME NEW n \in 1..Len(s), s[n] = y, n # 1 PROVE In(a, y)
      BY <1>1 DEF In, h
    <3>1. n - 1 \in 1..(Len(s) - 1) /\ n - 1 + 1 = n
      BY <1>1
    <3>2. a[n - 1] = y /\ n - 1 \in 1..Len(a)
      BY <1>1, <3>1 DEF a
    <3> QED BY <3>2 DEF In
  <2>2. In(a, y) => In(s, y)
    <3> SUFFICES ASSUME NEW n \in 1..Len(a), a[n] = y PROVE In(s, y)
      BY DEF In
    <3>1. n + 1 \in 1..Len(s) /\ s[n + 1] = y
      BY <1>1 DEF a
    <3> QED BY <3>1 DEF In
  <2> QED BY <1>3, <2>1, <2>2
<1> QED BY <1>1, <1>2, <1>3, <1>4 DEF a, h

(* ----------------------------- moves of an item ------------------------- *)

Holders == [Thread -> Items \cup {NoItem}]
Returns == [Requester -> Seq(Items)]
Pending == [Requester -> SUBSET Items]

Placed(w, r, pd, h) == Apart(w, r, h) /\ Accepted(w, r, pd, h)

LEMMA AcceptMove ==
  ASSUME NEW w, NEW r, NEW pd \in Pending, NEW h \in Holders, Placed(w, r, pd, h),
         NEW q \in Requester, NEW x \in Items, From(x) = q, x \notin pd[q], h[q] = NoItem
  PROVE  Placed(w, r, [pd EXCEPT ![q] = @ \cup {x}], [h EXCEPT ![q] = x])
<1> DEFINE hh == [h EXCEPT ![q] = x]
           pp == [pd EXCEPT ![q] = @ \cup {x}]
<1>1. \A t \in Thread : hh[t] = IF t = q THEN x ELSE h[t]
  BY DEF Holders, Thread
<1>2. \A s \in Requester : (s # q => pp[s] = pd[s]) /\ pp[q] = pd[q] \cup {x}
  BY DEF Pending
<1>3. q \in Thread
  BY DEF Thread
<1>4. ~In(w, x) /\ ~In(r[q], x) /\ \A t \in Thread : h[t] # x
  BY DEF Placed, Accepted
<1> HIDE DEF hh, pp
<1>5. Apart(w, r, hh)
  BY <1>1, <1>4 DEF Placed, Apart
<1>6. Accepted(w, r, pp, hh)
  BY <1>1, <1>2, <1>3, <1>4, NoItemIs DEF Placed, Accepted
<1> QED BY <1>5, <1>6 DEF Placed, hh, pp

LEMMA WorkMove ==
  ASSUME NEW w \in Seq(Items), NEW r, NEW pd \in Pending, NEW h \in Holders, Placed(w, r, pd, h),
         NEW t \in Thread, NEW x \in Items, h[t] = x
  PROVE  Placed(Append(w, x), r, pd, [h EXCEPT ![t] = NoItem]) /\ ~In(w, x)
<1> DEFINE hh == [h EXCEPT ![t] = NoItem]
           ww == Append(w, x)
<1>1. \A u \in Thread : hh[u] = IF u = t THEN NoItem ELSE h[u]
  BY DEF Holders
<1>2. ~In(w, x) /\ ~In(r[From(x)], x) /\ \A u \in Thread : h[u] = x => u = t
  BY DEF Placed, Apart
<1>3. Distinct(ww) /\ \A y : In(ww, y) <=> In(w, y) \/ y = x
  BY <1>2, AppendIs DEF Placed, Apart
<1> HIDE DEF hh, ww
<1>4. Apart(ww, r, hh)
  BY <1>1, <1>2, <1>3, NoItemIs DEF Placed, Apart
<1>5. Accepted(ww, r, pd, hh)
  <2> SUFFICES ASSUME NEW q \in Requester, NEW y \in Items
               PROVE  y \in pd[q] <=> From(y) = q /\ (In(ww, y) \/ In(r[q], y) \/ \E u \in Thread : hh[u] = y)
    BY DEF Accepted
  <2>1. y \in pd[q] <=> From(y) = q /\ (In(w, y) \/ In(r[q], y) \/ \E u \in Thread : h[u] = y)
    BY DEF Placed, Accepted
  <2>2. CASE y = x
    BY <1>3, <2>1, <2>2
  <2>3. CASE y # x
    BY <1>1, <1>3, <2>1, <2>3, NoItemIs
  <2> QED BY <2>2, <2>3
<1> QED BY <1>2, <1>4, <1>5 DEF Placed, hh, ww

LEMMA AcquireMove ==
  ASSUME NEW w \in Seq(Items), NEW r, NEW pd \in Pending, NEW h \in Holders, Placed(w, r, pd, h),
         NEW t \in Thread, h[t] = NoItem, w # << >>
  PROVE  Placed(Tail(w), r, pd, [h EXCEPT ![t] = Head(w)])
<1> DEFINE x == Head(w)
           hh == [h EXCEPT ![t] = x]
           ww == Tail(w)
<1>1. \A u \in Thread : hh[u] = IF u = t THEN x ELSE h[u]
  BY DEF Holders
<1>2. /\ x \in Items /\ Distinct(ww) /\ ~In(ww, x) /\ In(w, x)
      /\ \A y : In(w, y) <=> In(ww, y) \/ y = x
  BY TailIs DEF Placed, Apart
<1> HIDE DEF hh, ww, x
<1>3. ~In(r[From(x)], x) /\ \A u \in Thread : h[u] # x
  BY <1>2, ItemIs DEF Placed, Apart
<1>4. Apart(ww, r, hh)
  BY <1>1, <1>2, <1>3 DEF Placed, Apart
<1>5. Accepted(ww, r, pd, hh)
  <2> SUFFICES ASSUME NEW q \in Requester, NEW y \in Items
               PROVE  y \in pd[q] <=> From(y) = q /\ (In(ww, y) \/ In(r[q], y) \/ \E u \in Thread : hh[u] = y)
    BY DEF Accepted
  <2>1. y \in pd[q] <=> From(y) = q /\ (In(w, y) \/ In(r[q], y) \/ \E u \in Thread : h[u] = y)
    BY DEF Placed, Accepted
  <2>2. CASE y = x
    BY <1>1, <1>2, <2>1, <2>2
  <2>3. CASE y # x
    BY <1>1, <1>2, <2>1, <2>3, NoItemIs
  <2> QED BY <2>2, <2>3
<1> QED BY <1>4, <1>5 DEF Placed, hh, ww, x

LEMMA ReturnMove ==
  ASSUME NEW w, NEW r \in Returns, NEW pd \in Pending, NEW h \in Holders, Placed(w, r, pd, h),
         NEW t \in Thread, NEW x \in Items, h[t] = x, NEW q \in Requester, q = From(x)
  PROVE  Placed(w, [r EXCEPT ![q] = Append(@, x)], pd, [h EXCEPT ![t] = NoItem]) /\ ~In(r[q], x)
<1> DEFINE hh == [h EXCEPT ![t] = NoItem]
           a == Append(r[q], x)
           rr == [r EXCEPT ![q] = a]
<1>1. \A u \in Thread : hh[u] = IF u = t THEN NoItem ELSE h[u]
  BY DEF Holders
<1>2. ~In(w, x) /\ ~In(r[q], x) /\ \A u \in Thread : h[u] = x => u = t
  BY DEF Placed, Apart
<1>3. Distinct(a) /\ \A y : In(a, y) <=> In(r[q], y) \/ y = x
  <2>1. r[q] \in Seq(Items) /\ Distinct(r[q])
    BY DEF Placed, Apart, Returns
  <2> QED BY <1>2, <2>1, AppendIs
<1>4. \A s \in Requester : rr[s] = IF s = q THEN a ELSE r[s]
  BY DEF Returns
<1> HIDE DEF hh, rr, a
<1>5. Apart(w, rr, hh)
  BY <1>1, <1>2, <1>3, <1>4, NoItemIs, ItemIs DEF Placed, Apart
<1>6. Accepted(w, rr, pd, hh)
  <2> SUFFICES ASSUME NEW s \in Requester, NEW y \in Items
               PROVE  y \in pd[s] <=> From(y) = s /\ (In(w, y) \/ In(rr[s], y) \/ \E u \in Thread : hh[u] = y)
    BY DEF Accepted
  <2>1. y \in pd[s] <=> From(y) = s /\ (In(w, y) \/ In(r[s], y) \/ \E u \in Thread : h[u] = y)
    BY DEF Placed, Accepted
  <2>2. CASE y = x
    BY <1>3, <1>4, <2>1, <2>2
  <2>3. CASE y # x
    BY <1>1, <1>3, <1>4, <2>1, <2>3, NoItemIs
  <2> QED BY <2>2, <2>3
<1> QED BY <1>2, <1>5, <1>6 DEF Placed, hh, rr, a

LEMMA ReceiveMove ==
  ASSUME NEW w, NEW r \in Returns, NEW pd \in Pending, NEW h \in Holders, Placed(w, r, pd, h),
         NEW q \in Requester, h[q] = NoItem, r[q] # << >>
  PROVE  Placed(w, [r EXCEPT ![q] = Tail(@)], pd, [h EXCEPT ![q] = Head(r[q])])
<1> DEFINE x == Head(r[q])
           a == Tail(r[q])
           hh == [h EXCEPT ![q] = x]
           rr == [r EXCEPT ![q] = a]
<1>1. (\A u \in Thread : hh[u] = IF u = q THEN x ELSE h[u]) /\ q \in Thread
  BY DEF Holders, Thread
<1>2. /\ x \in Items /\ Distinct(a) /\ ~In(a, x) /\ In(r[q], x)
      /\ \A y : In(r[q], y) <=> In(a, y) \/ y = x
  <2>1. r[q] \in Seq(Items) /\ Distinct(r[q])
    BY DEF Placed, Apart, Returns
  <2> QED BY <2>1, TailIs
<1>3. \A s \in Requester : rr[s] = IF s = q THEN a ELSE r[s]
  BY DEF Returns
<1> HIDE DEF hh, rr, a, x
<1>4. From(x) = q /\ ~In(w, x) /\ \A u \in Thread : h[u] # x
  BY <1>2, ItemIs DEF Placed, Apart
<1>5. Apart(w, rr, hh)
  BY <1>1, <1>2, <1>3, <1>4, ItemIs DEF Placed, Apart
<1>6. Accepted(w, rr, pd, hh)
  <2> SUFFICES ASSUME NEW s \in Requester, NEW y \in Items
               PROVE  y \in pd[s] <=> From(y) = s /\ (In(w, y) \/ In(rr[s], y) \/ \E u \in Thread : hh[u] = y)
    BY DEF Accepted
  <2>1. y \in pd[s] <=> From(y) = s /\ (In(w, y) \/ In(r[s], y) \/ \E u \in Thread : h[u] = y)
    BY DEF Placed, Accepted
  <2>2. CASE y = x
    BY <1>1, <1>2, <1>3, <1>4, <2>1, <2>2
  <2>3. CASE y # x
    BY <1>1, <1>2, <1>3, <2>1, <2>3, NoItemIs
  <2> QED BY <2>2, <2>3
<1> QED BY <1>5, <1>6 DEF Placed, hh, rr, a, x

LEMMA CreditMove ==
  ASSUME NEW w, NEW r, NEW pd \in Pending, NEW h \in Holders, Placed(w, r, pd, h),
         NEW q \in Requester, NEW x \in Items, From(x) = q, h[q] = x
  PROVE  Placed(w, r, [pd EXCEPT ![q] = @ \ {x}], [h EXCEPT ![q] = NoItem]) /\ x \in pd[q]
<1> DEFINE hh == [h EXCEPT ![q] = NoItem]
           pp == [pd EXCEPT ![q] = @ \ {x}]
<1>1. (\A t \in Thread : hh[t] = IF t = q THEN NoItem ELSE h[t]) /\ q \in Thread
  BY DEF Holders, Thread
<1>2. \A s \in Requester : (s # q => pp[s] = pd[s]) /\ pp[q] = pd[q] \ {x}
  BY DEF Pending
<1>3. ~In(w, x) /\ ~In(r[q], x) /\ (\A t \in Thread : h[t] = x => t = q) /\ x \in pd[q]
  BY <1>1 DEF Placed, Apart, Accepted
<1> HIDE DEF hh, pp
<1>4. Apart(w, r, hh)
  BY <1>1, NoItemIs DEF Placed, Apart
<1>5. Accepted(w, r, pp, hh)
  <2> SUFFICES ASSUME NEW s \in Requester, NEW y \in Items
               PROVE  y \in pp[s] <=> From(y) = s /\ (In(w, y) \/ In(r[s], y) \/ \E u \in Thread : hh[u] = y)
    BY DEF Accepted
  <2>1. y \in pd[s] <=> From(y) = s /\ (In(w, y) \/ In(r[s], y) \/ \E u \in Thread : h[u] = y)
    BY DEF Placed, Accepted
  <2>2. CASE y = x
    BY <1>1, <1>2, <1>3, <2>1, <2>2, NoItemIs
  <2>3. CASE y # x
    BY <1>1, <1>2, <2>1, <2>3, NoItemIs
  <2> QED BY <2>2, <2>3
<1> QED BY <1>3, <1>4, <1>5 DEF Placed, hh, pp

(* ----------------------------- steps of a thread ------------------------ *)

\* Thread t goes to b and works on x.
Stepped(p, j, t, b, x, p2, j2) ==
  /\ p \in [Thread -> Place] /\ j \in Holders /\ t \in Thread /\ b \in Place /\ x \in Items \cup {NoItem}
  /\ p2 = [p EXCEPT ![t] = b] /\ j2 = [j EXCEPT ![t] = x]

LEMMA SteppedIs ==
  ASSUME NEW p, NEW j, NEW t, NEW b, NEW x, NEW p2, NEW j2, Stepped(p, j, t, b, x, p2, j2)
  PROVE  /\ t \in Thread /\ p2 \in [Thread -> Place] /\ j2 \in Holders /\ p2[t] = b /\ j2[t] = x
         /\ \A u \in Thread : u # t => p2[u] = p[u] /\ j2[u] = j[u]
BY DEF Stepped, Holders

LEMMA HeldIs ==
  ASSUME NEW p, NEW j \in Holders
  PROVE  Held(p, j) \in Holders /\ \A t \in Thread : /\ p[t] \in HoldPc => Held(p, j)[t] = j[t]
                                                     /\ p[t] \notin HoldPc => Held(p, j)[t] = NoItem
BY DEF Held, Holders

LEMMA HeldStep ==
  ASSUME NEW p, NEW j, NEW t, NEW b, NEW x, NEW p2, NEW j2, Stepped(p, j, t, b, x, p2, j2)
  PROVE  /\ b \in HoldPc => Held(p2, j2) = [Held(p, j) EXCEPT ![t] = x]
         /\ b \notin HoldPc => Held(p2, j2) = [Held(p, j) EXCEPT ![t] = NoItem]
<1>1. /\ t \in Thread /\ p2[t] = b /\ j2[t] = x /\ \A u \in Thread : u # t => p2[u] = p[u] /\ j2[u] = j[u]
  BY SteppedIs
<1>2. CASE b \in HoldPc
  BY <1>1, <1>2 DEF Held
<1>3. CASE b \notin HoldPc
  BY <1>1, <1>3 DEF Held
<1> QED BY <1>2, <1>3

\* Steps that do not concern the items held, the slots or the runners inside.
LEMMA HeldQuiet ==
  ASSUME NEW p, NEW j, NEW t, NEW b, NEW x, NEW p2, NEW j2, Stepped(p, j, t, b, x, p2, j2),
         p[t] \in HoldPc <=> b \in HoldPc, b \in HoldPc => x = j[t]
  PROVE  Held(p2, j2) = Held(p, j)
<1>1. /\ t \in Thread /\ p2[t] = b /\ j2[t] = x /\ \A u \in Thread : u # t => p2[u] = p[u] /\ j2[u] = j[u]
  BY SteppedIs
<1> QED BY <1>1 DEF Held

LEMMA WorkQuiet ==
  ASSUME NEW p, NEW j, NEW t, NEW b, NEW x, NEW p2, NEW j2, Stepped(p, j, t, b, x, p2, j2), NEW w,
         p[t] \notin {"publish", "r_recycle"}, b \notin {"publish", "r_recycle"}
  PROVE  WorkSlots(w, p2, j2) = WorkSlots(w, p, j)
<1>1. /\ t \in Thread /\ p2[t] = b /\ j2[t] = x /\ \A u \in Thread : u # t => p2[u] = p[u] /\ j2[u] = j[u]
  BY SteppedIs
<1>2. /\ \A q \in Requester : p2[q] = "publish" <=> p[q] = "publish"
      /\ \A q \in Requester : p[q] = "publish" => j2[q] = j[q]
      /\ \A q \in Runner : p2[q] = "r_recycle" <=> p[q] = "r_recycle"
      /\ \A q \in Runner : p[q] = "r_recycle" => j2[q] = j[q]
  BY <1>1 DEF Thread
<1>3. \A y \in Items : y \in WorkSlots(w, p2, j2) <=> y \in WorkSlots(w, p, j)
  BY <1>2 DEF WorkSlots
<1>4. WorkSlots(w, p2, j2) \subseteq Items /\ WorkSlots(w, p, j) \subseteq Items
  BY DEF WorkSlots
<1> QED BY <1>3, <1>4

LEMMA ReturnQuiet ==
  ASSUME NEW p, NEW j, NEW t, NEW b, NEW x, NEW p2, NEW j2, Stepped(p, j, t, b, x, p2, j2),
         NEW s, NEW q \in Requester,
         p[t] \notin {"recycle", "r_publish"}, b \notin {"recycle", "r_publish"}
  PROVE  ReturnSlots(s, p2, j2, q) = ReturnSlots(s, p, j, q)
<1>1. /\ t \in Thread /\ p2[t] = b /\ j2[t] = x /\ \A u \in Thread : u # t => p2[u] = p[u] /\ j2[u] = j[u]
  BY SteppedIs
<1>2. /\ p2[q] = "recycle" <=> p[q] = "recycle"
      /\ p[q] = "recycle" => j2[q] = j[q]
      /\ \A u \in Runner : p2[u] = "r_publish" <=> p[u] = "r_publish"
      /\ \A u \in Runner : p[u] = "r_publish" => j2[u] = j[u]
  BY <1>1 DEF Thread
<1>3. \A y \in Items : y \in ReturnSlots(s, p2, j2, q) <=> y \in ReturnSlots(s, p, j, q)
  BY <1>2 DEF ReturnSlots
<1>4. ReturnSlots(s, p2, j2, q) \subseteq Items /\ ReturnSlots(s, p, j, q) \subseteq Items
  BY DEF ReturnSlots
<1> QED BY <1>3, <1>4

LEMMA InsideQuiet ==
  ASSUME NEW p, NEW j, NEW t, NEW b, NEW x, NEW p2, NEW j2, Stepped(p, j, t, b, x, p2, j2), NEW q,
         t \in Runner => (p[t] \in InsidePc <=> b \in InsidePc) /\ (b \in InsidePc => x = j[t])
  PROVE  Inside(p2, j2, q) = Inside(p, j, q)
<1>1. /\ t \in Thread /\ p2[t] = b /\ j2[t] = x /\ \A u \in Thread : u # t => p2[u] = p[u] /\ j2[u] = j[u]
  BY SteppedIs
<1>2. \A u \in Runner : (p2[u] \in InsidePc <=> p[u] \in InsidePc) /\ (p[u] \in InsidePc => j2[u] = j[u])
  BY <1>1 DEF Thread
<1> HIDE DEF InsidePc
<1>3. \A u \in Runner : u \in Inside(p2, j2, q) <=> u \in Inside(p, j, q)
  BY <1>2 DEF Inside
<1>4. Inside(p2, j2, q) \subseteq Runner /\ Inside(p, j, q) \subseteq Runner
  BY DEF Inside
<1> QED BY <1>3, <1>4

LEMMA JobsStep ==
  ASSUME NEW p, NEW j, NEW t, NEW b, NEW x, NEW p2, NEW j2, Stepped(p, j, t, b, x, p2, j2), Jobs(p, j),
         t \in Requester => /\ b \in RequesterPc
                            /\ b \in RequesterJobPc => x \in Items /\ From(x) = t
                            /\ b \notin RequesterJobPc => x = NoItem,
         t \in Runner => /\ b \in RunnerPc
                         /\ b \in RunnerJobPc => x \in Items
                         /\ b \notin RunnerJobPc => x = NoItem
  PROVE  Jobs(p2, j2)
<1>1. /\ t \in Thread /\ p2[t] = b /\ j2[t] = x /\ \A u \in Thread : u # t => p2[u] = p[u] /\ j2[u] = j[u]
  BY SteppedIs
<1> QED BY <1>1 DEF Jobs, Thread

\* A step that keeps the items where they are.
LEMMA QuietStep ==
  ASSUME IInv, NEW t \in Thread, NEW b, NEW x, Stepped(pc, job, t, b, x, pc', job'), Typed', Jobs(pc', job'),
         UNCHANGED <<channelVars, creditVars, released>>,
         pc[t] \notin HoldPc, b \notin HoldPc, pc[t] # "exited",
         t \in Runner => (pc[t] \in InsidePc <=> b \in InsidePc) /\ (b \in InsidePc => x = job[t]),
         t \in Requester /\ b = "exited" => pending[t] = {}
  PROVE  IInv'
<1>1. /\ work' = work /\ work_free' = work_free /\ returns' = returns /\ returns_free' = returns_free
      /\ pending' = pending /\ outstanding' = outstanding /\ return_publishers' = return_publishers
      /\ released' = released
  BY DEF channelVars, creditVars
<1>2. Held(pc', job') = Held(pc, job)
  BY HeldQuiet
<1>3. /\ pc[t] \notin {"publish", "r_recycle"} /\ b \notin {"publish", "r_recycle"}
      /\ pc[t] \notin {"recycle", "r_publish"} /\ b \notin {"recycle", "r_publish"}
  BY DEF HoldPc
<1>4. Apart(work', returns', Held(pc', job')) /\ Accepted(work', returns', pending', Held(pc', job'))
  BY <1>1, <1>2 DEF IInv
<1>5. WorkCounted(work', work_free', pc', job')
  BY <1>1, <1>3, WorkQuiet DEF IInv, WorkCounted
<1>6. ReturnsCounted(returns', returns_free', pc', job')
  BY <1>1, <1>3, ReturnQuiet DEF IInv, ReturnsCounted
<1>7. \A q : Inside(pc', job', q) = Inside(pc, job, q)
  BY InsideQuiet
<1>8. Insiders(return_publishers', pc', job')
  BY <1>1, <1>7 DEF IInv, Insiders
<1>9. Gone(released', pending', pc', job')
  <2>1. \A u \in Thread : u # t => pc'[u] = pc[u]
    BY SteppedIs
  <2>2. pc'[t] = b
    BY SteppedIs
  <2> QED BY <1>1, <1>7, <2>1, <2>2 DEF IInv, Gone, Thread
<1>10. Credited(pending', outstanding')
  BY <1>1 DEF IInv
<1> QED BY <1>4, <1>5, <1>6, <1>8, <1>9, <1>10 DEF IInv

LEMMA StandsOrGoes ==
  ASSUME Typed, NEW t \in Thread, NEW b \in Place, pc' = [pc EXCEPT ![t] = b]
  PROVE  /\ UNCHANGED job => Stepped(pc, job, t, b, job[t], pc', job')
         /\ \A x \in Items \cup {NoItem} :
              job' = [job EXCEPT ![t] = x] => Stepped(pc, job, t, b, x, pc', job')
<1>1. pc \in [Thread -> Place] /\ job \in Holders /\ job[t] \in Items \cup {NoItem}
  BY DEF Typed, Holders
<1>2. job = [job EXCEPT ![t] = job[t]]
  BY <1>1 DEF Holders
<1> QED BY <1>1, <1>2 DEF Stepped

\* The variables that only a wait or the host depends on.
Waits == /\ unchanged \subseteq Thread /\ parked \subseteq Thread /\ exit_requested \subseteq Thread
         /\ pool_released \in BOOLEAN
         /\ progressed \in [Thread -> BOOLEAN] /\ host \in [Requester -> HostPlace]

LEMMA TypedStep ==
  ASSUME Typed, NEW t, NEW b, NEW x, Stepped(pc, job, t, b, x, pc', job'), Waits',
         UNCHANGED <<channelVars, creditVars, released>>
  PROVE  Typed'
BY SteppedIs DEF Typed, Waits, Holders, channelVars, creditVars

LEMMA WakeKeeps == ASSUME Typed, NEW s, WakeOne(s) PROVE parked' \subseteq Thread
BY DEF Typed, WakeOne

LEMMA RequesterQuiet ==
  ASSUME IInv, NEW q \in Requester,
         BeginPass(q) \/ ReceiveNone(q) \/ SubmitNothing(q) \/ ReleaseWork(q) \/ PokeRunners(q)
         \/ WakeRunner(q) \/ Decide(q) \/ Park(q)
  PROVE  IInv'
<1>1. Typed /\ Jobs(pc, job) /\ q \in Thread /\ q \notin Runner
  BY BatchAssumption DEF IInv, Thread
<1>2. pc \in [Thread -> Place] /\ job \in [Thread -> Items \cup {NoItem}] /\ progressed \in [Thread -> BOOLEAN]
  BY <1>1 DEF Typed
<1>3. ASSUME NEW b \in {"receive", "submit", "decide", "poke", "wake", "top", "wait", "exited"},
             pc' = [pc EXCEPT ![q] = b], UNCHANGED <<channelVars, creditVars, released>>, Waits',
             pc[q] \in {"top", "receive", "submit", "releasing", "poke", "wake", "decide", "wait"},
             b = "exited" => pending[q] = {},
             \/ UNCHANGED job /\ pc[q] # "releasing"
             \/ job' = [job EXCEPT ![q] = NoItem]
      PROVE  IInv'
  <2>1. Stepped(pc, job, q, b, NoItem, pc', job')
    <3>1. pc[q] # "releasing" => job[q] = NoItem
      BY <1>1, <1>3 DEF Jobs, RequesterJobPc
    <3>2. b \in Place
      BY DEF Place, RequesterPc
    <3> QED BY <1>1, <1>3, <3>1, <3>2, StandsOrGoes
  <2>2. Typed'
    BY <1>1, <1>3, <2>1, TypedStep
  <2>3. Jobs(pc', job')
    <3>1. b \in RequesterPc /\ b \notin RequesterJobPc
      BY DEF RequesterPc, RequesterJobPc
    <3> QED BY <1>1, <2>1, <3>1, JobsStep
  <2>4. pc[q] \notin HoldPc /\ b \notin HoldPc /\ pc[q] # "exited"
    BY <1>3 DEF HoldPc
  <2> QED BY <1>1, <1>3, <2>1, <2>2, <2>3, <2>4, QuietStep
<1>4. CASE BeginPass(q)
  <2>1. Waits' /\ UNCHANGED <<channelVars, creditVars, released>>
    BY <1>1, <1>4 DEF BeginPass, Typed, Waits
  <2> QED BY <1>3, <1>4, <2>1 DEF BeginPass, Go
<1>5. CASE ReceiveNone(q) \/ SubmitNothing(q)
  <2>1. Waits' /\ UNCHANGED <<channelVars, creditVars, released>>
    BY <1>1, <1>5 DEF ReceiveNone, SubmitNothing, Typed, Waits, wordVars
  <2> QED BY <1>3, <1>5, <2>1 DEF ReceiveNone, SubmitNothing, Go
<1>6. CASE ReleaseWork(q)
  <2>1. Waits' /\ UNCHANGED <<channelVars, creditVars, released>>
    BY <1>1, <1>6 DEF ReleaseWork, Typed, Waits, wordVars
  <2> QED BY <1>3, <1>6, <2>1 DEF ReleaseWork, Go
<1>7. CASE PokeRunners(q)
  <2>1. Waits' /\ UNCHANGED <<channelVars, creditVars, released>>
    BY <1>1, <1>7 DEF PokeRunners, Typed, Waits
  <2> QED BY <1>3, <1>7, <2>1 DEF PokeRunners, Go
<1>8. CASE WakeRunner(q)
  <2>1. Waits' /\ UNCHANGED <<channelVars, creditVars, released>>
    BY <1>1, <1>8, WakeKeeps DEF WakeRunner, Typed, Waits
  <2> QED BY <1>3, <1>8, <2>1 DEF WakeRunner, Go
<1>9. CASE Decide(q)
  <2>1. Waits' /\ UNCHANGED <<channelVars, creditVars, released>>
    BY <1>1, <1>9 DEF Decide, Typed, Waits, wordVars
  <2>2. CASE q \in exit_requested /\ pending[q] = {}
    BY <1>3, <1>9, <2>1, <2>2 DEF Decide
  <2>3. CASE ~(q \in exit_requested /\ pending[q] = {}) /\ progressed[q]
    BY <1>3, <1>9, <2>1, <2>3 DEF Decide
  <2>4. CASE ~(q \in exit_requested /\ pending[q] = {}) /\ ~progressed[q]
    BY <1>3, <1>9, <2>1, <2>4 DEF Decide
  <2> QED BY <2>2, <2>3, <2>4
<1>10. CASE Park(q)
  <2>1. Waits' /\ UNCHANGED <<channelVars, creditVars, released>>
    BY <1>1, <1>10 DEF Park, Typed, Waits
  <2>2. pc = [pc EXCEPT ![q] = pc[q]]
    BY <1>2
  <2>3. pc[q] = "wait" /\ UNCHANGED job /\ (pc' = pc \/ pc' = [pc EXCEPT ![q] = "top"])
    BY <1>10 DEF Park
  <2>4. CASE pc' = pc
    BY <1>3, <2>1, <2>2, <2>3, <2>4
  <2>5. CASE pc' = [pc EXCEPT ![q] = "top"]
    BY <1>3, <2>1, <2>3, <2>5
  <2> QED BY <2>3, <2>4, <2>5
<1> QED BY <1>4, <1>5, <1>6, <1>7, <1>8, <1>9, <1>10

(* -------------------------- a requester's own items --------------------- *)

\* What a thread holds is accepted, and who holds it is alone in doing so.
LEMMA HeldIsAccepted ==
  ASSUME IInv, NEW t \in Thread, pc[t] \in HoldPc, job[t] \in Items
  PROVE  /\ From(job[t]) \in Requester /\ job[t] \in pending[From(job[t])]
         /\ ~In(work, job[t]) /\ ~In(returns[From(job[t])], job[t])
         /\ \A u \in Thread : pc[u] \in HoldPc /\ job[u] = job[t] => u = t
<1>1. job \in Holders
  BY DEF IInv, Typed, Holders
<1>2. /\ Held(pc, job)[t] = job[t]
      /\ \A u \in Thread : pc[u] \in HoldPc => Held(pc, job)[u] = job[u]
  BY <1>1, HeldIs
<1>3. From(job[t]) \in Requester
  BY ItemIs
<1> QED BY <1>2, <1>3 DEF IInv, Apart, Accepted

LEMMA HeldNow ==
  ASSUME IInv, NEW t \in Thread
  PROVE  /\ pc[t] \in HoldPc => Held(pc, job)[t] = job[t]
         /\ pc[t] \notin HoldPc => Held(pc, job)[t] = NoItem
BY HeldIs DEF IInv, Typed, Holders

LEMMA PlacedNow ==
  ASSUME IInv
  PROVE  /\ Placed(work, returns, pending, Held(pc, job)) /\ Held(pc, job) \in Holders
         /\ work \in Seq(Items) /\ returns \in Returns /\ pending \in Pending
BY HeldIs DEF IInv, Typed, Holders, Returns, Pending, Placed

LEMMA GoneStep ==
  ASSUME IInv, NEW t, NEW b, NEW x, Stepped(pc, job, t, b, x, pc', job'), UNCHANGED released,
         pc[t] # "exited", t \in Requester => b # "exited",
         \A q \in Requester : q # t => pending'[q] = pending[q],
         \A q \in Requester : q \in released => Inside(pc', job', q) = {}
  PROVE  Gone(released', pending', pc', job')
<1>1. /\ t \in Thread /\ pc'[t] = b /\ \A u \in Thread : u # t => pc'[u] = pc[u]
  BY SteppedIs
<1>2. released' = released
  OBVIOUS
<1>3. ASSUME NEW q \in Requester
      PROVE  /\ pc'[q] = "exited" => pending'[q] = {}
             /\ q \in released' => pc'[q] = "exited" /\ Inside(pc', job', q) = {}
  <2>1. q \in Thread
    BY DEF Thread
  <2>2. CASE q = t
    BY <1>1, <1>2, <2>2 DEF IInv, Gone
  <2>3. CASE q # t
    BY <1>1, <1>2, <2>1, <2>3 DEF IInv, Gone
  <2> QED BY <2>2, <2>3
<1> QED BY <1>3 DEF Gone

LEMMA RecycleReturnKeeps == ASSUME IInv, NEW q \in Requester, RecycleReturn(q) PROVE IInv'
<1>1. /\ Typed /\ Jobs(pc, job) /\ q \in Thread /\ q \notin Runner /\ pc[q] = "recycle"
      /\ pc' = [pc EXCEPT ![q] = "credit"] /\ UNCHANGED job
      /\ UNCHANGED <<work, work_free, returns, pending, outstanding, return_publishers, released>>
      /\ returns_free' = [returns_free EXCEPT ![q] = @ + 1]
  BY BatchAssumption DEF IInv, Thread, RecycleReturn, Go, creditVars, wordVars
<1> DEFINE x == job[q]
<1>2. x \in Items /\ From(x) = q
  BY <1>1 DEF Jobs, RequesterJobPc
<1>3. Stepped(pc, job, q, "credit", x, pc', job')
  <2>1. "credit" \in Place
    BY DEF Place, RequesterPc
  <2> QED BY <1>1, <2>1, StandsOrGoes
<1>4. Jobs(pc', job')
  <2>1. "credit" \in RequesterPc /\ "credit" \in RequesterJobPc
    BY DEF RequesterPc, RequesterJobPc
  <2> QED BY <1>1, <1>2, <1>3, <2>1, JobsStep
<1>5. Typed'
  <2>1. pc' \in [Thread -> Place] /\ returns_free' \in [Requester -> Nat]
    BY <1>1, <1>3, SteppedIs DEF Typed
  <2> QED BY <1>1, <2>1 DEF Typed, RecycleReturn, wordVars
<1>6. Held(pc', job') = Held(pc, job)
  BY <1>1, <1>3, HeldQuiet DEF HoldPc
<1>7. WorkCounted(work', work_free', pc', job')
  <2>1. WorkSlots(work, pc', job') = WorkSlots(work, pc, job)
    BY <1>1, <1>3, WorkQuiet
  <2> QED BY <1>1, <2>1 DEF IInv, WorkCounted
<1>8. \A s : Inside(pc', job', s) = Inside(pc, job, s)
  BY <1>1, <1>3, InsideQuiet
<1>9. ReturnsCounted(returns', returns_free', pc', job')
  <2> SUFFICES ASSUME NEW s \in Requester
               PROVE  /\ IsFiniteSet(ReturnSlots(returns[s], pc', job', s))
                      /\ returns_free'[s] = Capacity - Cardinality(ReturnSlots(returns[s], pc', job', s))
    BY <1>1 DEF ReturnsCounted
  <2> DEFINE old == ReturnSlots(returns[s], pc, job, s)
             new == ReturnSlots(returns[s], pc', job', s)
  <2>1. IsFiniteSet(old) /\ returns_free[s] = Capacity - Cardinality(old) /\ returns_free \in [Requester -> Nat]
    BY DEF IInv, ReturnsCounted, Typed
  <2>2. pc'[q] = "credit" /\ \A u \in Thread : u # q => pc'[u] = pc[u]
    BY <1>3, SteppedIs
  <2>3. CASE s = q
    <3>1. \A u \in Runner : pc[u] = "r_publish" => job[u] # x
      BY <1>1, <1>2, HeldIsAccepted DEF HoldPc, Thread
    <3>2. ~In(returns[q], x)
      BY <1>1, <1>2, HeldIsAccepted DEF HoldPc
    <3>3. new = old \ {x} /\ x \in old
      BY <1>1, <1>2, <2>2, <2>3, <3>1, <3>2 DEF ReturnSlots, Thread
    <3>4. IsFiniteSet(new) /\ Cardinality(new) = Cardinality(old) - 1
      BY <2>1, <3>3, FS_RemoveElement
    <3>5. Cardinality(old) \in Nat /\ Capacity \in Nat
      BY <2>1, FS_CardinalityType, BatchAssumption
    <3> QED BY <1>1, <2>1, <2>3, <3>4, <3>5
  <2>4. CASE s # q
    <3>1. new = old
      BY <1>1, <2>2, <2>4 DEF ReturnSlots, Thread
    <3> QED BY <1>1, <2>1, <2>4, <3>1
  <2> QED BY <2>3, <2>4
<1>10. Gone(released', pending', pc', job')
  BY <1>1, <1>3, <1>8, GoneStep DEF IInv, Gone
<1> QED BY <1>1, <1>4, <1>5, <1>6, <1>7, <1>8, <1>9, <1>10 DEF IInv, Insiders

LEMMA ReceiveKeeps == ASSUME IInv, NEW q \in Requester, receive(q) PROVE IInv'
<1> DEFINE x == Head(returns[q])
           a == Tail(returns[q])
<1>1. /\ Typed /\ Jobs(pc, job) /\ q \in Thread /\ q \notin Runner /\ pc[q] = "receive"
      /\ pc' = [pc EXCEPT ![q] = "recycle"] /\ job' = [job EXCEPT ![q] = x] /\ returns[q] # << >>
      /\ UNCHANGED <<work, work_free, returns_free, pending, outstanding, return_publishers, released>>
      /\ returns' = [returns EXCEPT ![q] = a]
  BY BatchAssumption DEF IInv, Thread, receive, Go, Readable, creditVars, wordVars
<1>2. /\ a \in Seq(Items) /\ x \in Items /\ ~In(a, x) /\ In(returns[q], x)
      /\ \A y : In(returns[q], y) <=> In(a, y) \/ y = x
  <2>1. returns[q] \in Seq(Items) /\ Distinct(returns[q])
    BY <1>1 DEF Typed, IInv, Apart
  <2> QED BY <1>1, <2>1, TailIs
<1>3. From(x) = q
  BY <1>2 DEF IInv, Apart
<1>4. Stepped(pc, job, q, "recycle", x, pc', job')
  <2>1. "recycle" \in Place
    BY DEF Place, RequesterPc
  <2> QED BY <1>1, <1>2, <2>1, StandsOrGoes
<1>5. Jobs(pc', job')
  <2>1. "recycle" \in RequesterPc /\ "recycle" \in RequesterJobPc
    BY DEF RequesterPc, RequesterJobPc
  <2> QED BY <1>1, <1>2, <1>3, <1>4, <2>1, JobsStep
<1>6. Typed'
  <2>1. pc' \in [Thread -> Place] /\ returns' \in [Requester -> Seq(Items)] /\ job' \in Holders
    BY <1>1, <1>2, <1>4, SteppedIs DEF Typed
  <2>2. Waits'
    BY <1>1 DEF Typed, Waits, receive, wordVars
  <2> QED BY <1>1, <2>1, <2>2 DEF Typed, Waits, Holders
<1>7. Placed(work', returns', pending', Held(pc', job'))
  <2>1. Held(pc', job') = [Held(pc, job) EXCEPT ![q] = x]
    BY <1>4, HeldStep DEF HoldPc
  <2>2. Held(pc, job)[q] = NoItem
    BY <1>1, HeldNow DEF HoldPc
  <2>3. Placed(work, [returns EXCEPT ![q] = Tail(@)], pending, [Held(pc, job) EXCEPT ![q] = Head(returns[q])])
    BY <1>1, <2>2, PlacedNow, ReceiveMove
  <2> QED BY <1>1, <2>1, <2>3
<1>8. WorkCounted(work', work_free', pc', job')
  <2>1. WorkSlots(work, pc', job') = WorkSlots(work, pc, job)
    BY <1>1, <1>4, WorkQuiet
  <2> QED BY <1>1, <2>1 DEF IInv, WorkCounted
<1>9. \A s : Inside(pc', job', s) = Inside(pc, job, s)
  BY <1>1, <1>4, InsideQuiet
<1>10. ReturnsCounted(returns', returns_free', pc', job')
  <2>1. /\ pc'[q] = "recycle" /\ job'[q] = x
        /\ \A u \in Thread : u # q => pc'[u] = pc[u] /\ job'[u] = job[u]
    BY <1>4, SteppedIs
  <2>2. returns'[q] = a /\ \A s \in Requester : s # q => returns'[s] = returns[s]
    BY <1>1 DEF Typed
  <2> HIDE DEF x, a
  <2>3. ASSUME NEW s \in Requester
        PROVE  ReturnSlots(returns'[s], pc', job', s) = ReturnSlots(returns[s], pc, job, s)
    <3>1. CASE s = q
      BY <1>1, <1>2, <1>3, <2>1, <2>2, <3>1 DEF ReturnSlots, Thread
    <3>2. CASE s # q
      BY <1>1, <2>1, <2>2, <3>2 DEF ReturnSlots, Thread
    <3> QED BY <3>1, <3>2
  <2> QED BY <1>1, <2>3 DEF IInv, ReturnsCounted
<1>11. Gone(released', pending', pc', job')
  BY <1>1, <1>4, <1>9, GoneStep DEF IInv, Gone
<1> QED BY <1>1, <1>5, <1>6, <1>7, <1>8, <1>9, <1>10, <1>11 DEF IInv, Insiders, Placed

LEMMA RestoreCreditKeeps == ASSUME IInv, NEW q \in Requester, RestoreCredit(q) PROVE IInv'
<1> DEFINE x == job[q]
<1>1. /\ Typed /\ Jobs(pc, job) /\ q \in Thread /\ q \notin Runner /\ pc[q] = "credit"
      /\ pc' = [pc EXCEPT ![q] = "receive"] /\ job' = [job EXCEPT ![q] = NoItem]
      /\ UNCHANGED <<work, work_free, returns, returns_free, return_publishers, released>>
      /\ pending' = [pending EXCEPT ![q] = @ \ {x}]
      /\ outstanding' = [outstanding EXCEPT ![q] = @ - 1]
  BY BatchAssumption DEF IInv, Thread, RestoreCredit, Go, channelVars, wordVars
<1>2. x \in Items /\ From(x) = q
  BY <1>1 DEF Jobs, RequesterJobPc
<1>3. Stepped(pc, job, q, "receive", NoItem, pc', job')
  <2>1. "receive" \in Place
    BY DEF Place, RequesterPc
  <2> QED BY <1>1, <2>1, StandsOrGoes
<1>4. Jobs(pc', job')
  <2>1. "receive" \in RequesterPc /\ "receive" \notin RequesterJobPc
    BY DEF RequesterPc, RequesterJobPc
  <2> QED BY <1>1, <1>3, <2>1, JobsStep
<1>5. Placed(work', returns', pending', Held(pc', job')) /\ x \in pending[q]
  <2>1. Held(pc', job') = [Held(pc, job) EXCEPT ![q] = NoItem]
    BY <1>3, HeldStep DEF HoldPc
  <2>2. Held(pc, job)[q] = x
    BY <1>1, HeldNow DEF HoldPc
  <2> HIDE DEF x
  <2>3. /\ Placed(work, returns, [pending EXCEPT ![q] = @ \ {x}], [Held(pc, job) EXCEPT ![q] = NoItem])
        /\ x \in pending[q]
    BY <1>2, <2>2, PlacedNow, CreditMove
  <2> QED BY <1>1, <2>1, <2>3
<1>6. Credited(pending', outstanding')
  <2> SUFFICES ASSUME NEW s \in Requester
               PROVE  IsFiniteSet(pending'[s]) /\ outstanding'[s] = Cardinality(pending'[s]) /\ outstanding'[s] <= Capacity
    BY DEF Credited
  <2>1. /\ IsFiniteSet(pending[s]) /\ outstanding[s] = Cardinality(pending[s]) /\ outstanding[s] <= Capacity
        /\ outstanding[s] \in Nat /\ Capacity \in Nat
    BY <1>1, BatchAssumption DEF IInv, Credited, Typed
  <2>2. CASE s = q
    <3>1. pending'[s] = pending[s] \ {x} /\ outstanding'[s] = outstanding[s] - 1
      BY <1>1, <2>2 DEF Typed
    <3>2. IsFiniteSet(pending[s] \ {x}) /\ Cardinality(pending[s] \ {x}) = Cardinality(pending[s]) - 1
      BY <1>5, <2>1, <2>2, FS_RemoveElement
    <3> QED BY <2>1, <3>1, <3>2
  <2>3. CASE s # q
    BY <1>1, <2>1, <2>3 DEF Typed
  <2> QED BY <2>2, <2>3
<1>7. Typed'
  <2>1. pc' \in [Thread -> Place] /\ job' \in Holders
    BY <1>3, SteppedIs
  <2>2. Waits'
    BY <1>1 DEF Typed, Waits, RestoreCredit, wordVars
  <2>3. outstanding[q] - 1 \in Nat
    <3>1. IsFiniteSet(pending[q]) /\ outstanding[q] = Cardinality(pending[q]) /\ pending[q] # {}
      BY <1>5 DEF IInv, Credited
    <3>2. outstanding[q] # 0 /\ outstanding[q] \in Nat
      BY <1>1, <3>1, FS_EmptySet DEF Typed
    <3> QED BY <3>2
  <2>4. outstanding' \in [Requester -> Nat] /\ pending' \in [Requester -> SUBSET Items]
    BY <1>1, <2>3 DEF Typed
  <2> QED BY <1>1, <2>1, <2>2, <2>4 DEF Typed, Waits, Holders
<1>8. WorkCounted(work', work_free', pc', job')
  <2>1. WorkSlots(work, pc', job') = WorkSlots(work, pc, job)
    BY <1>1, <1>3, WorkQuiet
  <2> QED BY <1>1, <2>1 DEF IInv, WorkCounted
<1>9. \A s : Inside(pc', job', s) = Inside(pc, job, s)
  BY <1>1, <1>3, InsideQuiet
<1>10. ReturnsCounted(returns', returns_free', pc', job')
  <2>1. \A s \in Requester : ReturnSlots(returns[s], pc', job', s) = ReturnSlots(returns[s], pc, job, s)
    BY <1>1, <1>3, ReturnQuiet
  <2> QED BY <1>1, <2>1 DEF IInv, ReturnsCounted
<1>11. Gone(released', pending', pc', job')
  <2>1. \A s \in Requester : s # q => pending'[s] = pending[s]
    BY <1>1 DEF Typed
  <2> QED BY <1>1, <1>3, <1>9, <2>1, GoneStep DEF IInv, Gone
<1> QED BY <1>1, <1>4, <1>5, <1>6, <1>7, <1>8, <1>9, <1>10, <1>11 DEF IInv, Insiders, Placed

LEMMA SubmitKeeps ==
  ASSUME IInv, NEW q \in Requester, NEW c \in Correlation, submit(q, <<q, c>>)
  PROVE  IInv'
<1> DEFINE x == <<q, c>>
<1>0. x \in Items /\ From(x) = q
  BY ItemIs
<1>1. /\ Typed /\ Jobs(pc, job) /\ q \in Thread /\ q \notin Runner /\ pc[q] = "submit"
      /\ pc' = [pc EXCEPT ![q] = "publish"] /\ job' = [job EXCEPT ![q] = x]
      /\ UNCHANGED <<work, returns, returns_free, return_publishers, released>>
      /\ pending' = [pending EXCEPT ![q] = @ \cup {x}]
      /\ outstanding' = [outstanding EXCEPT ![q] = @ + 1]
      /\ x \notin pending[q] /\ outstanding[q] < Capacity /\ work_free > 0 /\ work_free' = work_free - 1
  BY BatchAssumption DEF IInv, Thread, submit, Submittable, Go, wordVars
<1>2. Waits'
  BY <1>1 DEF Typed, Waits, submit, wordVars
<1> HIDE DEF x
<1>3. Stepped(pc, job, q, "publish", x, pc', job')
  <2>1. "publish" \in Place
    BY DEF Place, RequesterPc
  <2> QED BY <1>0, <1>1, <2>1, StandsOrGoes
<1>4. Jobs(pc', job')
  <2>1. "publish" \in RequesterPc /\ "publish" \in RequesterJobPc
    BY DEF RequesterPc, RequesterJobPc
  <2> QED BY <1>0, <1>1, <1>3, <2>1, JobsStep
<1>5. Placed(work', returns', pending', Held(pc', job'))
  <2>1. Held(pc', job') = [Held(pc, job) EXCEPT ![q] = x]
    BY <1>3, HeldStep DEF HoldPc
  <2>2. Held(pc, job)[q] = NoItem
    BY <1>1, HeldNow DEF HoldPc
  <2>3. x \notin pending[q]
    BY <1>1
  <2>4. Placed(work, returns, [pending EXCEPT ![q] = @ \cup {x}], [Held(pc, job) EXCEPT ![q] = x])
    BY <1>0, <2>2, <2>3, PlacedNow, AcceptMove
  <2> QED BY <1>1, <2>1, <2>4
<1>6. Credited(pending', outstanding')
  <2> SUFFICES ASSUME NEW s \in Requester
               PROVE  IsFiniteSet(pending'[s]) /\ outstanding'[s] = Cardinality(pending'[s]) /\ outstanding'[s] <= Capacity
    BY DEF Credited
  <2>1. /\ IsFiniteSet(pending[s]) /\ outstanding[s] = Cardinality(pending[s]) /\ outstanding[s] <= Capacity
        /\ outstanding[s] \in Nat /\ Capacity \in Nat
    BY <1>1, BatchAssumption DEF IInv, Credited, Typed
  <2>2. CASE s = q
    <3>1. pending'[s] = pending[s] \cup {x} /\ outstanding'[s] = outstanding[s] + 1
      BY <1>1, <2>2 DEF Typed
    <3>2. IsFiniteSet(pending[s] \cup {x}) /\ Cardinality(pending[s] \cup {x}) = Cardinality(pending[s]) + 1
      BY <1>1, <2>1, <2>2, FS_AddElement
    <3>3. outstanding[s] < Capacity
      BY <1>1, <2>2
    <3> QED BY <2>1, <3>1, <3>2, <3>3
  <2>3. CASE s # q
    BY <1>1, <2>1, <2>3 DEF Typed
  <2> QED BY <2>2, <2>3
<1>7. Typed'
  <2>1. pc' \in [Thread -> Place] /\ job' \in Holders
    BY <1>3, SteppedIs
  <2>2. work_free' \in Nat /\ outstanding' \in [Requester -> Nat] /\ pending' \in [Requester -> SUBSET Items]
    BY <1>0, <1>1 DEF Typed
  <2> QED BY <1>1, <1>2, <2>1, <2>2 DEF Typed, Waits, Holders
<1>8. WorkCounted(work', work_free', pc', job')
  <2> DEFINE old == WorkSlots(work, pc, job)
             new == WorkSlots(work, pc', job')
  <2>1. /\ pc'[q] = "publish" /\ job'[q] = x
        /\ \A u \in Thread : u # q => pc'[u] = pc[u] /\ job'[u] = job[u]
    BY <1>3, SteppedIs
  <2>2. ~In(work, x) /\ \A u \in Thread : pc[u] \in HoldPc => job[u] # x
    <3>1. ~In(work, x) /\ \A u \in Thread : Held(pc, job)[u] # x
      BY <1>0, <1>1 DEF IInv, Accepted
    <3> QED BY <1>1, <3>1, HeldIs DEF Typed, Holders
  <2>3. new = old \cup {x} /\ x \notin old
    BY <1>0, <1>1, <2>1, <2>2 DEF WorkSlots, Thread, HoldPc
  <2>4. IsFiniteSet(old) /\ work_free = Capacity - Cardinality(old) /\ Capacity \in Nat
    BY BatchAssumption DEF IInv, WorkCounted
  <2>5. IsFiniteSet(new) /\ Cardinality(new) = Cardinality(old) + 1 /\ Cardinality(old) \in Nat
    BY <2>3, <2>4, FS_AddElement, FS_CardinalityType
  <2> QED BY <1>1, <2>4, <2>5 DEF WorkCounted
<1>9. \A s : Inside(pc', job', s) = Inside(pc, job, s)
  BY <1>1, <1>3, InsideQuiet
<1>10. ReturnsCounted(returns', returns_free', pc', job')
  <2>1. \A s \in Requester : ReturnSlots(returns[s], pc', job', s) = ReturnSlots(returns[s], pc, job, s)
    BY <1>1, <1>3, ReturnQuiet
  <2> QED BY <1>1, <2>1 DEF IInv, ReturnsCounted
<1>11. Gone(released', pending', pc', job')
  <2>1. \A s \in Requester : s # q => pending'[s] = pending[s]
    BY <1>1 DEF Typed
  <2> QED BY <1>1, <1>3, <1>9, <2>1, GoneStep DEF IInv, Gone
<1> QED BY <1>1, <1>4, <1>5, <1>6, <1>7, <1>8, <1>9, <1>10, <1>11 DEF IInv, Insiders, Placed

LEMMA PublishWorkKeeps == ASSUME IInv, NEW q \in Requester, PublishWork(q) PROVE IInv'
<1> DEFINE x == job[q]
           ww == Append(work, x)
<1>1. /\ Typed /\ Jobs(pc, job) /\ q \in Thread /\ q \notin Runner /\ pc[q] = "publish"
      /\ pc' = [pc EXCEPT ![q] = "releasing"] /\ UNCHANGED job /\ work' = ww
      /\ UNCHANGED <<work_free, returns, returns_free, pending, outstanding, return_publishers, released>>
  BY BatchAssumption DEF IInv, Thread, PublishWork, Go, creditVars, wordVars
<1>2. x \in Items /\ From(x) = q
  BY <1>1 DEF Jobs, RequesterJobPc
<1>3. Stepped(pc, job, q, "releasing", x, pc', job')
  <2>1. "releasing" \in Place
    BY DEF Place, RequesterPc
  <2> QED BY <1>1, <2>1, StandsOrGoes
<1>4. Jobs(pc', job')
  <2>1. "releasing" \in RequesterPc /\ "releasing" \in RequesterJobPc
    BY DEF RequesterPc, RequesterJobPc
  <2> QED BY <1>1, <1>2, <1>3, <2>1, JobsStep
<1>5. ~In(work, x) /\ Distinct(work) /\ work \in Seq(Items)
  BY <1>1, <1>2, HeldIsAccepted DEF HoldPc, IInv, Apart, Typed
<1>6. ww \in Seq(Items) /\ \A y : In(ww, y) <=> In(work, y) \/ y = x
  <2> HIDE DEF x
  <2> QED BY <1>2, <1>5, AppendIs
<1>7. Placed(work', returns', pending', Held(pc', job'))
  <2>1. Held(pc', job') = [Held(pc, job) EXCEPT ![q] = NoItem]
    BY <1>3, HeldStep DEF HoldPc
  <2>2. Held(pc, job)[q] = x
    BY <1>1, HeldNow DEF HoldPc
  <2> HIDE DEF x
  <2>3. Placed(Append(work, x), returns, pending, [Held(pc, job) EXCEPT ![q] = NoItem])
    BY <1>1, <1>2, <2>2, PlacedNow, WorkMove
  <2> QED BY <1>1, <2>1, <2>3
<1>8. Typed'
  <2>1. pc' \in [Thread -> Place] /\ job' \in Holders
    BY <1>3, SteppedIs
  <2>2. Waits'
    BY <1>1 DEF Typed, Waits, PublishWork, wordVars
  <2> QED BY <1>1, <1>6, <2>1, <2>2 DEF Typed, Waits, Holders
<1>9. WorkCounted(work', work_free', pc', job')
  <2>1. pc'[q] = "releasing" /\ \A u \in Thread : u # q => pc'[u] = pc[u]
    BY <1>3, SteppedIs
  <2>2. \A y \in Items : y \in WorkSlots(ww, pc', job') <=> y \in WorkSlots(work, pc, job)
    <3> HIDE DEF ww
    <3> QED BY <1>1, <1>6, <2>1 DEF WorkSlots, Thread
  <2>3. WorkSlots(ww, pc', job') = WorkSlots(work, pc, job)
    <3>1. WorkSlots(ww, pc', job') \subseteq Items /\ WorkSlots(work, pc, job) \subseteq Items
      BY DEF WorkSlots
    <3> HIDE DEF ww
    <3> QED BY <2>2, <3>1
  <2> QED BY <1>1, <2>3 DEF IInv, WorkCounted
<1>10. \A s : Inside(pc', job', s) = Inside(pc, job, s)
  BY <1>1, <1>3, InsideQuiet
<1>11. ReturnsCounted(returns', returns_free', pc', job')
  <2>1. \A s \in Requester : ReturnSlots(returns[s], pc', job', s) = ReturnSlots(returns[s], pc, job, s)
    BY <1>1, <1>3, ReturnQuiet
  <2> QED BY <1>1, <2>1 DEF IInv, ReturnsCounted
<1>12. Gone(released', pending', pc', job')
  BY <1>1, <1>3, <1>10, GoneStep DEF IInv, Gone
<1> QED BY <1>1, <1>4, <1>7, <1>8, <1>9, <1>10, <1>11, <1>12 DEF IInv, Insiders, Placed

(* -------------------------------- the runners --------------------------- *)

LEMMA RunnerQuiet ==
  ASSUME IInv, NEW r \in Runner,
         BeginDrain(r) \/ AcquireNone(r) \/ ReleaseReturn(r) \/ PokeRequester(r) \/ WakeRequester(r) \/ Park(r)
  PROVE  IInv'
<1>1. Typed /\ Jobs(pc, job) /\ r \in Thread /\ r \notin Requester
  BY BatchAssumption DEF IInv, Thread
<1>2. pc \in [Thread -> Place] /\ job \in [Thread -> Items \cup {NoItem}] /\ progressed \in [Thread -> BOOLEAN]
  BY <1>1 DEF Typed
<1>3. ASSUME NEW b \in {"acquire", "top", "wait", "exited", "r_poke", "r_wake", "leave"},
             pc' = [pc EXCEPT ![r] = b], UNCHANGED <<channelVars, creditVars, released, job>>, Waits',
             pc[r] \in {"top", "acquire", "wait", "r_releasing", "r_poke", "r_wake"},
             pc[r] \in InsidePc <=> b \in InsidePc
      PROVE  IInv'
  <2>1. Stepped(pc, job, r, b, job[r], pc', job')
    <3>1. b \in Place
      BY DEF Place, RequesterPc, RunnerPc, RunnerJobPc, InsidePc
    <3> QED BY <1>1, <1>3, <3>1, StandsOrGoes
  <2>2. Typed'
    BY <1>1, <1>3, <2>1, TypedStep
  <2>3. Jobs(pc', job')
    <3>1. b \in RunnerPc
      BY DEF RunnerPc, RunnerJobPc, InsidePc
    <3>2. pc[r] \in RunnerJobPc <=> b \in RunnerJobPc
      BY <1>3 DEF RunnerJobPc, InsidePc
    <3>3. (pc[r] \in RunnerJobPc => job[r] \in Items) /\ (pc[r] \notin RunnerJobPc => job[r] = NoItem)
      BY <1>1 DEF Jobs
    <3> QED BY <1>1, <2>1, <3>1, <3>2, <3>3, JobsStep
  <2>4. pc[r] \notin HoldPc /\ b \notin HoldPc /\ pc[r] # "exited"
    BY <1>3 DEF HoldPc
  <2> QED BY <1>1, <1>3, <2>1, <2>2, <2>3, <2>4, QuietStep
<1>4. CASE BeginDrain(r)
  <2>1. Waits' /\ UNCHANGED <<channelVars, creditVars, released, job>> /\ pc[r] = "top"
    BY <1>1, <1>4 DEF BeginDrain, Typed, Waits
  <2>2. pc' = [pc EXCEPT ![r] = "exited"] \/ pc' = [pc EXCEPT ![r] = "acquire"]
    BY <1>4 DEF BeginDrain
  <2> QED BY <1>3, <2>1, <2>2 DEF InsidePc
<1>5. CASE AcquireNone(r)
  <2>1. Waits' /\ UNCHANGED <<channelVars, creditVars, released, job>> /\ pc[r] = "acquire"
    BY <1>1, <1>5 DEF AcquireNone, Typed, Waits, wordVars
  <2>2. pc' = [pc EXCEPT ![r] = "top"] \/ pc' = [pc EXCEPT ![r] = "wait"]
    BY <1>5 DEF AcquireNone
  <2> QED BY <1>3, <2>1, <2>2 DEF InsidePc
<1>6. CASE ReleaseReturn(r)
  <2>1. Waits' /\ UNCHANGED <<channelVars, creditVars, released, job>> /\ pc[r] = "r_releasing"
    BY <1>1, <1>6 DEF ReleaseReturn, Go, Typed, Waits, wordVars
  <2>2. pc' = [pc EXCEPT ![r] = "r_poke"]
    BY <1>6 DEF ReleaseReturn, Go
  <2> QED BY <1>3, <2>1, <2>2 DEF InsidePc
<1>7. CASE PokeRequester(r)
  <2>1. Waits' /\ UNCHANGED <<channelVars, creditVars, released, job>> /\ pc[r] = "r_poke"
    BY <1>1, <1>7 DEF PokeRequester, Typed, Waits
  <2>2. From(job[r]) \in Requester /\ r \in Inside(pc, job, From(job[r]))
    BY <1>1, <2>1, ItemIs DEF Jobs, RunnerJobPc, InsidePc, Inside
  <2>3. From(job[r]) \notin released
    BY <2>2 DEF IInv, Gone
  <2>4. pc' = [pc EXCEPT ![r] = "r_wake"]
    BY <1>7, <2>3 DEF PokeRequester
  <2> QED BY <1>3, <2>1, <2>4 DEF InsidePc
<1>8. CASE WakeRequester(r)
  <2>1. Waits' /\ UNCHANGED <<channelVars, creditVars, released, job>> /\ pc[r] = "r_wake"
    BY <1>1, <1>8, WakeKeeps DEF WakeRequester, Go, Typed, Waits
  <2>2. pc' = [pc EXCEPT ![r] = "leave"]
    BY <1>8 DEF WakeRequester, Go
  <2> QED BY <1>3, <2>1, <2>2 DEF InsidePc
<1>9. CASE Park(r)
  <2>1. Waits' /\ UNCHANGED <<channelVars, creditVars, released, job>> /\ pc[r] = "wait"
    BY <1>1, <1>9 DEF Park, Typed, Waits
  <2>2. pc = [pc EXCEPT ![r] = "wait"]
    BY <1>2, <2>1
  <2>3. pc' = pc \/ pc' = [pc EXCEPT ![r] = "top"]
    BY <1>9 DEF Park
  <2> QED BY <1>3, <2>1, <2>2, <2>3 DEF InsidePc
<1> QED BY <1>4, <1>5, <1>6, <1>7, <1>8, <1>9

LEMMA AcquireKeeps == ASSUME IInv, NEW r \in Runner, Acquire(r) PROVE IInv'
<1> DEFINE x == Head(work)
           a == Tail(work)
<1>1. /\ Typed /\ Jobs(pc, job) /\ r \in Thread /\ r \notin Requester /\ pc[r] = "acquire"
      /\ pc' = [pc EXCEPT ![r] = "r_recycle"] /\ job' = [job EXCEPT ![r] = x] /\ work # << >>
      /\ UNCHANGED <<work_free, returns, returns_free, pending, outstanding, return_publishers, released>>
      /\ work' = a
  BY BatchAssumption DEF IInv, Thread, Acquire, Go, Readable, creditVars, wordVars
<1>2. /\ a \in Seq(Items) /\ x \in Items /\ \A y : In(work, y) <=> In(a, y) \/ y = x
  <2>1. work \in Seq(Items) /\ Distinct(work)
    BY <1>1 DEF Typed, IInv, Apart
  <2> QED BY <1>1, <2>1, TailIs
<1>3. Stepped(pc, job, r, "r_recycle", x, pc', job')
  <2>1. "r_recycle" \in Place
    BY DEF Place, RunnerPc, RunnerJobPc
  <2> QED BY <1>1, <1>2, <2>1, StandsOrGoes
<1>4. Jobs(pc', job')
  <2>1. "r_recycle" \in RunnerPc /\ "r_recycle" \in RunnerJobPc
    BY DEF RunnerPc, RunnerJobPc
  <2> QED BY <1>1, <1>2, <1>3, <2>1, JobsStep
<1>5. Typed'
  <2>1. pc' \in [Thread -> Place] /\ job' \in Holders
    BY <1>3, SteppedIs
  <2>2. Waits'
    BY <1>1 DEF Typed, Waits, Acquire, wordVars
  <2> QED BY <1>1, <1>2, <2>1, <2>2 DEF Typed, Waits, Holders
<1>6. Placed(work', returns', pending', Held(pc', job'))
  <2>1. Held(pc', job') = [Held(pc, job) EXCEPT ![r] = x]
    BY <1>3, HeldStep DEF HoldPc
  <2>2. Held(pc, job)[r] = NoItem
    BY <1>1, HeldNow DEF HoldPc
  <2>3. Placed(Tail(work), returns, pending, [Held(pc, job) EXCEPT ![r] = Head(work)])
    BY <1>1, <2>2, PlacedNow, AcquireMove
  <2> QED BY <1>1, <2>1, <2>3
<1>7. WorkCounted(work', work_free', pc', job')
  <2>1. /\ pc'[r] = "r_recycle" /\ job'[r] = x
        /\ \A u \in Thread : u # r => pc'[u] = pc[u] /\ job'[u] = job[u]
    BY <1>3, SteppedIs
  <2>2. \A y \in Items : y \in WorkSlots(a, pc', job') <=> y \in WorkSlots(work, pc, job)
    <3> HIDE DEF a, x
    <3> QED BY <1>1, <1>2, <2>1 DEF WorkSlots, Thread
  <2>3. WorkSlots(a, pc', job') = WorkSlots(work, pc, job)
    <3>1. WorkSlots(a, pc', job') \subseteq Items /\ WorkSlots(work, pc, job) \subseteq Items
      BY DEF WorkSlots
    <3> HIDE DEF a
    <3> QED BY <2>2, <3>1
  <2> QED BY <1>1, <2>3 DEF IInv, WorkCounted
<1>8. \A s : Inside(pc', job', s) = Inside(pc, job, s)
  BY <1>1, <1>3, InsideQuiet DEF InsidePc
<1>9. ReturnsCounted(returns', returns_free', pc', job')
  <2>1. \A s \in Requester : ReturnSlots(returns[s], pc', job', s) = ReturnSlots(returns[s], pc, job, s)
    BY <1>1, <1>3, ReturnQuiet
  <2> QED BY <1>1, <2>1 DEF IInv, ReturnsCounted
<1>10. Gone(released', pending', pc', job')
  BY <1>1, <1>3, <1>8, GoneStep DEF IInv, Gone
<1> QED BY <1>1, <1>4, <1>5, <1>6, <1>7, <1>8, <1>9, <1>10 DEF IInv, Insiders, Placed

LEMMA RecycleWorkKeeps == ASSUME IInv, NEW r \in Runner, RecycleWork(r) PROVE IInv'
<1> DEFINE x == job[r]
<1>1. /\ Typed /\ Jobs(pc, job) /\ r \in Thread /\ r \notin Requester /\ pc[r] = "r_recycle"
      /\ pc' = [pc EXCEPT ![r] = "execute"] /\ UNCHANGED job /\ work_free' = work_free + 1
      /\ UNCHANGED <<work, returns, returns_free, pending, outstanding, return_publishers, released>>
  BY BatchAssumption DEF IInv, Thread, RecycleWork, Go, creditVars, wordVars
<1>2. x \in Items
  BY <1>1 DEF Jobs, RunnerJobPc
<1>3. Stepped(pc, job, r, "execute", x, pc', job')
  <2>1. "execute" \in Place
    BY DEF Place, RunnerPc, RunnerJobPc
  <2> QED BY <1>1, <2>1, StandsOrGoes
<1>4. Jobs(pc', job')
  <2>1. "execute" \in RunnerPc /\ "execute" \in RunnerJobPc
    BY DEF RunnerPc, RunnerJobPc
  <2> QED BY <1>1, <1>2, <1>3, <2>1, JobsStep
<1>5. Typed'
  <2>1. pc' \in [Thread -> Place] /\ job' \in Holders
    BY <1>3, SteppedIs
  <2>2. Waits'
    BY <1>1 DEF Typed, Waits, RecycleWork, wordVars
  <2> QED BY <1>1, <2>1, <2>2 DEF Typed, Waits, Holders
<1>6. Held(pc', job') = Held(pc, job)
  BY <1>1, <1>3, HeldQuiet DEF HoldPc
<1>7. WorkCounted(work', work_free', pc', job')
  <2> DEFINE old == WorkSlots(work, pc, job)
             new == WorkSlots(work, pc', job')
  <2>1. pc'[r] = "execute" /\ \A u \in Thread : u # r => pc'[u] = pc[u]
    BY <1>3, SteppedIs
  <2>2. ~In(work, x) /\ \A u \in Thread : pc[u] \in HoldPc /\ job[u] = x => u = r
    BY <1>1, <1>2, HeldIsAccepted DEF HoldPc
  <2>3. new = old \ {x} /\ x \in old
    BY <1>1, <1>2, <2>1, <2>2 DEF WorkSlots, Thread, HoldPc
  <2>4. IsFiniteSet(old) /\ work_free = Capacity - Cardinality(old) /\ Capacity \in Nat
    BY BatchAssumption DEF IInv, WorkCounted
  <2>5. IsFiniteSet(new) /\ Cardinality(new) = Cardinality(old) - 1 /\ Cardinality(old) \in Nat
    BY <2>3, <2>4, FS_RemoveElement, FS_CardinalityType
  <2> QED BY <1>1, <2>4, <2>5 DEF WorkCounted
<1>8. \A s : Inside(pc', job', s) = Inside(pc, job, s)
  BY <1>1, <1>3, InsideQuiet DEF InsidePc
<1>9. ReturnsCounted(returns', returns_free', pc', job')
  <2>1. \A s \in Requester : ReturnSlots(returns[s], pc', job', s) = ReturnSlots(returns[s], pc, job, s)
    BY <1>1, <1>3, ReturnQuiet
  <2> QED BY <1>1, <2>1 DEF IInv, ReturnsCounted
<1>10. Gone(released', pending', pc', job')
  BY <1>1, <1>3, <1>8, GoneStep DEF IInv, Gone
<1> QED BY <1>1, <1>4, <1>5, <1>6, <1>7, <1>8, <1>9, <1>10 DEF IInv, Insiders

LEMMA InsideFinite == ASSUME NEW p, NEW j, NEW q PROVE IsFiniteSet(Inside(p, j, q)) /\ Cardinality(Inside(p, j, q)) \in Nat
<1>1. Inside(p, j, q) \subseteq Runner
  BY DEF Inside
<1> QED BY <1>1, BatchAssumption, FS_Subset, FS_CardinalityType

LEMMA ExecuteKeeps == ASSUME IInv, NEW r \in Runner, Execute(r) PROVE IInv'
<1> DEFINE x == job[r]
           q == From(x)
<1>1. /\ Typed /\ Jobs(pc, job) /\ r \in Thread /\ r \notin Requester /\ pc[r] = "execute"
      /\ pc' = [pc EXCEPT ![r] = "reserve"] /\ UNCHANGED job
      /\ return_publishers' = [return_publishers EXCEPT ![q] = @ + 1]
      /\ UNCHANGED <<work, work_free, returns, returns_free, pending, outstanding, released>>
  BY BatchAssumption DEF IInv, Thread, Execute, Go, channelVars, wordVars
<1>2. x \in Items /\ q \in Requester
  BY <1>1, ItemIs DEF Jobs, RunnerJobPc
<1>3. Stepped(pc, job, r, "reserve", x, pc', job')
  <2>1. "reserve" \in Place
    BY DEF Place, RunnerPc, RunnerJobPc, InsidePc
  <2> QED BY <1>1, <2>1, StandsOrGoes
<1>4. Jobs(pc', job')
  <2>1. "reserve" \in RunnerPc /\ "reserve" \in RunnerJobPc
    BY DEF RunnerPc, RunnerJobPc, InsidePc
  <2> QED BY <1>1, <1>2, <1>3, <2>1, JobsStep
<1>5. Typed'
  <2>1. pc' \in [Thread -> Place] /\ job' \in Holders
    BY <1>3, SteppedIs
  <2>2. Waits'
    BY <1>1 DEF Typed, Waits, Execute, wordVars
  <2>3. return_publishers' \in [Requester -> Nat]
    BY <1>1, <1>2 DEF Typed
  <2> QED BY <1>1, <2>1, <2>2, <2>3 DEF Typed, Waits, Holders
<1>6. Held(pc', job') = Held(pc, job)
  BY <1>1, <1>3, HeldQuiet DEF HoldPc
<1>7. WorkCounted(work', work_free', pc', job')
  <2>1. WorkSlots(work, pc', job') = WorkSlots(work, pc, job)
    BY <1>1, <1>3, WorkQuiet
  <2> QED BY <1>1, <2>1 DEF IInv, WorkCounted
<1>8. ReturnsCounted(returns', returns_free', pc', job')
  <2>1. \A s \in Requester : ReturnSlots(returns[s], pc', job', s) = ReturnSlots(returns[s], pc, job, s)
    BY <1>1, <1>3, ReturnQuiet
  <2> QED BY <1>1, <2>1 DEF IInv, ReturnsCounted
<1>9. /\ Inside(pc', job', q) = Inside(pc, job, q) \cup {r} /\ r \notin Inside(pc, job, q)
      /\ \A s : s # q => Inside(pc', job', s) = Inside(pc, job, s)
  <2>1. pc'[r] = "reserve" /\ \A u \in Thread : u # r => pc'[u] = pc[u]
    BY <1>3, SteppedIs
  <2> HIDE DEF x
  <2> QED BY <1>1, <2>1 DEF Inside, InsidePc, Thread, x
<1> HIDE DEF q
<1>10. Insiders(return_publishers', pc', job')
  <2>1. Cardinality(Inside(pc, job, q) \cup {r}) = Cardinality(Inside(pc, job, q)) + 1
    BY <1>9, InsideFinite, FS_AddElement
  <2>2. /\ return_publishers'[q] = return_publishers[q] + 1
        /\ \A s \in Requester : s # q => return_publishers'[s] = return_publishers[s]
    BY <1>1, <1>2 DEF Typed
  <2> QED BY <1>2, <1>9, <2>1, <2>2 DEF IInv, Insiders
<1>11. Gone(released', pending', pc', job')
  <2>1. pending[q] # {}
    BY <1>1, <1>2, HeldIsAccepted DEF HoldPc, q
  <2>2. q \notin released
    BY <1>2, <2>1 DEF IInv, Gone
  <2>3. \A s \in Requester : s \in released => Inside(pc', job', s) = {}
    BY <1>9, <2>2 DEF IInv, Gone
  <2> QED BY <1>1, <1>3, <2>3, GoneStep
<1> QED BY <1>1, <1>4, <1>5, <1>6, <1>7, <1>8, <1>10, <1>11 DEF IInv

\* A response finds a slot: the items in q's return slots are a proper subset
\* of the accepted ones, which the credits bound.
LEMMA SlotIsFree ==
  ASSUME IInv, NEW r \in Runner, pc[r] = "reserve"
  PROVE  /\ job[r] \in Items /\ From(job[r]) \in Requester
         /\ job[r] \notin ReturnSlots(returns[From(job[r])], pc, job, From(job[r]))
         /\ returns_free[From(job[r])] > 0
<1> DEFINE x == job[r]
           q == From(x)
           slots == ReturnSlots(returns[q], pc, job, q)
<1>1. Jobs(pc, job) /\ r \in Thread /\ r \notin Requester
  BY BatchAssumption DEF IInv, Thread
<1>2. x \in Items /\ q \in Requester
  BY <1>1, ItemIs DEF Jobs, RunnerJobPc, InsidePc
<1>3. /\ x \in pending[q] /\ ~In(returns[q], x)
      /\ \A u \in Thread : pc[u] \in HoldPc /\ job[u] = x => u = r
  BY <1>1, <1>2, HeldIsAccepted DEF HoldPc
<1>4. x \notin slots
  BY <1>1, <1>2, <1>3 DEF ReturnSlots, HoldPc, Thread
<1>5. slots \subseteq pending[q]
  <2> SUFFICES ASSUME NEW y \in slots PROVE y \in pending[q]
    OBVIOUS
  <2>1. y \in Items
    BY DEF ReturnSlots
  <2>2. CASE In(returns[q], y)
    BY <1>2, <2>1, <2>2 DEF IInv, Apart, Accepted
  <2>3. CASE pc[q] = "recycle" /\ job[q] = y
    BY <1>1, <1>2, <2>1, <2>3, HeldIsAccepted DEF Jobs, RequesterJobPc, HoldPc, Thread
  <2>4. CASE \E u \in Runner : pc[u] = "r_publish" /\ job[u] = y /\ From(y) = q
    BY <2>1, <2>4, HeldIsAccepted DEF HoldPc, Thread
  <2> QED BY <2>2, <2>3, <2>4 DEF ReturnSlots
<1>6. /\ IsFiniteSet(pending[q]) /\ outstanding[q] = Cardinality(pending[q]) /\ outstanding[q] <= Capacity
      /\ outstanding[q] \in Nat
  BY <1>2 DEF IInv, Credited, Typed
<1>7. IsFiniteSet(slots) /\ returns_free[q] = Capacity - Cardinality(slots) /\ Capacity \in Nat
  BY <1>2, BatchAssumption DEF IInv, ReturnsCounted
<1> HIDE DEF slots, q, x
<1>8. Cardinality(slots) <= Cardinality(pending[q]) /\ Cardinality(slots) # Cardinality(pending[q])
  BY <1>3, <1>4, <1>5, <1>6, FS_Subset
<1>9. Cardinality(slots) \in Nat
  BY <1>7, FS_CardinalityType
<1>10. returns_free[q] > 0
  BY <1>6, <1>7, <1>8, <1>9
<1> QED BY <1>2, <1>4, <1>10 DEF slots, q, x

LEMMA ReserveReturnKeeps == ASSUME IInv, NEW r \in Runner, ReserveReturn(r) PROVE IInv'
<1> DEFINE x == job[r]
           q == From(x)
<1>1. pc[r] = "reserve"
  BY DEF ReserveReturn
<1>2. x \in Items /\ q \in Requester /\ returns_free[q] > 0 /\ x \notin ReturnSlots(returns[q], pc, job, q)
  BY <1>1, SlotIsFree
<1>3. /\ Typed /\ Jobs(pc, job) /\ r \in Thread /\ r \notin Requester
      /\ pc' = [pc EXCEPT ![r] = "r_publish"] /\ UNCHANGED job
      /\ returns_free' = [returns_free EXCEPT ![q] = @ - 1]
      /\ UNCHANGED <<work, work_free, returns, pending, outstanding, return_publishers, released>>
  BY <1>2, BatchAssumption DEF IInv, Thread, ReserveReturn, creditVars, wordVars
<1>4. Stepped(pc, job, r, "r_publish", x, pc', job')
  <2>1. "r_publish" \in Place
    BY DEF Place, RunnerPc, RunnerJobPc, InsidePc
  <2> QED BY <1>3, <2>1, StandsOrGoes
<1>5. Jobs(pc', job')
  <2>1. "r_publish" \in RunnerPc /\ "r_publish" \in RunnerJobPc
    BY DEF RunnerPc, RunnerJobPc, InsidePc
  <2> QED BY <1>2, <1>3, <1>4, <2>1, JobsStep
<1>6. Typed'
  <2>1. pc' \in [Thread -> Place] /\ job' \in Holders
    BY <1>4, SteppedIs
  <2>2. Waits'
    BY <1>3 DEF Typed, Waits, ReserveReturn, wordVars
  <2>3. returns_free' \in [Requester -> Nat]
    BY <1>2, <1>3 DEF Typed
  <2> QED BY <1>3, <2>1, <2>2, <2>3 DEF Typed, Waits, Holders
<1>7. Held(pc', job') = Held(pc, job)
  BY <1>1, <1>3, <1>4, HeldQuiet DEF HoldPc
<1>8. WorkCounted(work', work_free', pc', job')
  <2>1. WorkSlots(work, pc', job') = WorkSlots(work, pc, job)
    BY <1>1, <1>3, <1>4, WorkQuiet
  <2> QED BY <1>3, <2>1 DEF IInv, WorkCounted
<1>9. \A s : Inside(pc', job', s) = Inside(pc, job, s)
  BY <1>1, <1>3, <1>4, InsideQuiet DEF InsidePc
<1>10. ReturnsCounted(returns', returns_free', pc', job')
  <2> SUFFICES ASSUME NEW s \in Requester
               PROVE  /\ IsFiniteSet(ReturnSlots(returns[s], pc', job', s))
                      /\ returns_free'[s] = Capacity - Cardinality(ReturnSlots(returns[s], pc', job', s))
    BY <1>3 DEF ReturnsCounted
  <2> DEFINE old == ReturnSlots(returns[s], pc, job, s)
             new == ReturnSlots(returns[s], pc', job', s)
  <2>1. IsFiniteSet(old) /\ returns_free[s] = Capacity - Cardinality(old) /\ returns_free \in [Requester -> Nat]
    BY DEF IInv, ReturnsCounted, Typed
  <2>2. pc'[r] = "r_publish" /\ \A u \in Thread : u # r => pc'[u] = pc[u]
    BY <1>4, SteppedIs
  <2>3. CASE s = q
    <3>1. new = old \cup {x} /\ x \notin old
      BY <1>1, <1>2, <1>3, <2>2, <2>3 DEF ReturnSlots, Thread
    <3>2. IsFiniteSet(new) /\ Cardinality(new) = Cardinality(old) + 1
      <4> HIDE DEF old, new, x
      <4> QED BY <2>1, <3>1, FS_AddElement
    <3>3. Cardinality(old) \in Nat /\ Capacity \in Nat
      BY <2>1, FS_CardinalityType, BatchAssumption
    <3>4. returns_free'[s] = returns_free[s] - 1
      BY <1>3, <2>1, <2>3
    <3> QED BY <2>1, <3>2, <3>3, <3>4
  <2>4. CASE s # q
    <3>1. new = old
      BY <1>1, <1>3, <2>2, <2>4 DEF ReturnSlots, Thread
    <3> QED BY <1>3, <2>1, <2>4, <3>1
  <2> QED BY <2>3, <2>4
<1>11. Gone(released', pending', pc', job')
  BY <1>1, <1>3, <1>4, <1>9, GoneStep DEF IInv, Gone
<1> QED BY <1>3, <1>5, <1>6, <1>7, <1>8, <1>9, <1>10, <1>11 DEF IInv, Insiders

LEMMA PublishReturnKeeps == ASSUME IInv, NEW r \in Runner, PublishReturn(r) PROVE IInv'
<1> DEFINE x == job[r]
           q == From(x)
           a == Append(returns[q], x)
<1>1. /\ Typed /\ Jobs(pc, job) /\ r \in Thread /\ r \notin Requester /\ pc[r] = "r_publish"
      /\ pc' = [pc EXCEPT ![r] = "r_releasing"] /\ UNCHANGED job
      /\ returns' = [returns EXCEPT ![q] = a]
      /\ UNCHANGED <<work, work_free, returns_free, pending, outstanding, return_publishers, released>>
  BY BatchAssumption DEF IInv, Thread, PublishReturn, Go, creditVars, wordVars
<1>2. x \in Items /\ q \in Requester
  BY <1>1, ItemIs DEF Jobs, RunnerJobPc, InsidePc
<1>3. Stepped(pc, job, r, "r_releasing", x, pc', job')
  <2>1. "r_releasing" \in Place
    BY DEF Place, RunnerPc, RunnerJobPc, InsidePc
  <2> QED BY <1>1, <2>1, StandsOrGoes
<1>4. Jobs(pc', job')
  <2>1. "r_releasing" \in RunnerPc /\ "r_releasing" \in RunnerJobPc
    BY DEF RunnerPc, RunnerJobPc, InsidePc
  <2> QED BY <1>1, <1>2, <1>3, <2>1, JobsStep
<1>5. /\ ~In(returns[q], x) /\ Distinct(returns[q]) /\ returns[q] \in Seq(Items)
      /\ \A u \in Thread : pc[u] \in HoldPc /\ job[u] = x => u = r
  BY <1>1, <1>2, HeldIsAccepted DEF HoldPc, IInv, Apart, Typed
<1>6. a \in Seq(Items) /\ \A y : In(a, y) <=> In(returns[q], y) \/ y = x
  <2> HIDE DEF x, q
  <2> QED BY <1>2, <1>5, AppendIs
<1>7. Placed(work', returns', pending', Held(pc', job'))
  <2>1. Held(pc', job') = [Held(pc, job) EXCEPT ![r] = NoItem]
    BY <1>3, HeldStep DEF HoldPc
  <2>2. Held(pc, job)[r] = x
    BY <1>1, HeldNow DEF HoldPc
  <2>3. q = From(x)
    OBVIOUS
  <2> HIDE DEF x, q
  <2>4. Placed(work, [returns EXCEPT ![q] = Append(@, x)], pending, [Held(pc, job) EXCEPT ![r] = NoItem])
    BY <1>1, <1>2, <2>2, <2>3, PlacedNow, ReturnMove
  <2> QED BY <1>1, <2>1, <2>4
<1>8. Typed'
  <2>1. pc' \in [Thread -> Place] /\ job' \in Holders
    BY <1>3, SteppedIs
  <2>2. Waits'
    BY <1>1 DEF Typed, Waits, PublishReturn, wordVars
  <2>3. returns' \in [Requester -> Seq(Items)]
    BY <1>1, <1>2, <1>6 DEF Typed
  <2> QED BY <1>1, <2>1, <2>2, <2>3 DEF Typed, Waits, Holders
<1>9. WorkCounted(work', work_free', pc', job')
  <2>1. WorkSlots(work, pc', job') = WorkSlots(work, pc, job)
    BY <1>1, <1>3, WorkQuiet
  <2> QED BY <1>1, <2>1 DEF IInv, WorkCounted
<1>10. \A s : Inside(pc', job', s) = Inside(pc, job, s)
  BY <1>1, <1>3, InsideQuiet DEF InsidePc
<1>11. ReturnsCounted(returns', returns_free', pc', job')
  <2>1. pc'[r] = "r_releasing" /\ \A u \in Thread : u # r => pc'[u] = pc[u]
    BY <1>3, SteppedIs
  <2>2. returns'[q] = a /\ \A s \in Requester : s # q => returns'[s] = returns[s]
    BY <1>1, <1>2 DEF Typed
  <2> HIDE DEF a
  <2>3. ASSUME NEW s \in Requester
        PROVE  ReturnSlots(returns'[s], pc', job', s) = ReturnSlots(returns[s], pc, job, s)
    <3>1. CASE s = q
      <4>1. \A y \in Items : y \in ReturnSlots(a, pc', job', q) <=> y \in ReturnSlots(returns[q], pc, job, q)
        BY <1>1, <1>2, <1>5, <1>6, <2>1 DEF ReturnSlots, Thread, HoldPc
      <4>2. ReturnSlots(a, pc', job', q) \subseteq Items /\ ReturnSlots(returns[q], pc, job, q) \subseteq Items
        BY DEF ReturnSlots
      <4> HIDE DEF q
      <4> QED BY <2>2, <3>1, <4>1, <4>2
    <3>2. CASE s # q
      BY <1>1, <2>1, <2>2, <3>2 DEF ReturnSlots, Thread
    <3> QED BY <3>1, <3>2
  <2> QED BY <1>1, <2>3 DEF IInv, ReturnsCounted
<1>12. Gone(released', pending', pc', job')
  BY <1>1, <1>3, <1>10, GoneStep DEF IInv, Gone
<1> QED BY <1>1, <1>4, <1>7, <1>8, <1>9, <1>10, <1>11, <1>12 DEF IInv, Insiders, Placed

LEMMA LeaveCompleteKeeps == ASSUME IInv, NEW r \in Runner, LeaveComplete(r) PROVE IInv'
<1> DEFINE q == From(job[r])
<1>0. Typed /\ Jobs(pc, job) /\ r \in Thread /\ r \notin Requester
  BY BatchAssumption DEF IInv, Thread
<1>1. /\ pc[r] = "leave" /\ pc' = [pc EXCEPT ![r] = "acquire"] /\ job' = [job EXCEPT ![r] = NoItem]
      /\ return_publishers' = [return_publishers EXCEPT ![q] = @ - 1]
      /\ UNCHANGED <<work, work_free, returns, returns_free, pending, outstanding, released>>
  <2>1. pc[r] # "undelivered"
    BY <1>0 DEF Jobs, RunnerPc, RunnerJobPc, InsidePc
  <2>2. pc[r] = "leave"
    BY <2>1 DEF LeaveComplete
  <2> QED BY <2>2 DEF LeaveComplete, channelVars, wordVars
<1>2. q \in Requester
  BY <1>0, <1>1, ItemIs DEF Jobs, RunnerJobPc, InsidePc
<1>3. Stepped(pc, job, r, "acquire", NoItem, pc', job')
  <2>1. "acquire" \in Place
    BY DEF Place, RunnerPc
  <2> QED BY <1>0, <1>1, <2>1, StandsOrGoes
<1>4. Jobs(pc', job')
  <2>1. "acquire" \in RunnerPc /\ "acquire" \notin RunnerJobPc
    BY DEF RunnerPc, RunnerJobPc, InsidePc
  <2> QED BY <1>0, <1>3, <2>1, JobsStep
<1>5. Held(pc', job') = Held(pc, job)
  BY <1>1, <1>3, HeldQuiet DEF HoldPc
<1>6. WorkCounted(work', work_free', pc', job')
  <2>1. WorkSlots(work, pc', job') = WorkSlots(work, pc, job)
    BY <1>1, <1>3, WorkQuiet
  <2> QED BY <1>1, <2>1 DEF IInv, WorkCounted
<1>7. ReturnsCounted(returns', returns_free', pc', job')
  <2>1. \A s \in Requester : ReturnSlots(returns[s], pc', job', s) = ReturnSlots(returns[s], pc, job, s)
    BY <1>1, <1>3, ReturnQuiet
  <2> QED BY <1>1, <2>1 DEF IInv, ReturnsCounted
<1>8. /\ Inside(pc', job', q) = Inside(pc, job, q) \ {r} /\ r \in Inside(pc, job, q)
      /\ \A s : s # q => Inside(pc', job', s) = Inside(pc, job, s)
  <2>1. /\ pc'[r] = "acquire"
        /\ \A u \in Thread : u # r => pc'[u] = pc[u] /\ job'[u] = job[u]
    BY <1>3, SteppedIs
  <2> QED BY <1>0, <1>1, <2>1 DEF Inside, InsidePc, Thread
<1> HIDE DEF q
<1>9. Insiders(return_publishers', pc', job') /\ return_publishers[q] - 1 \in Nat
  <2>1. /\ Cardinality(Inside(pc, job, q) \ {r}) = Cardinality(Inside(pc, job, q)) - 1
        /\ Cardinality(Inside(pc, job, q) \ {r}) \in Nat
    BY <1>8, InsideFinite, FS_RemoveElement, FS_CardinalityType
  <2>2. /\ return_publishers'[q] = return_publishers[q] - 1
        /\ \A s \in Requester : s # q => return_publishers'[s] = return_publishers[s]
    BY <1>0, <1>1, <1>2 DEF Typed
  <2>3. return_publishers[q] = Cardinality(Inside(pc, job, q))
    BY <1>2 DEF IInv, Insiders
  <2> QED BY <1>2, <1>8, <2>1, <2>2, <2>3 DEF IInv, Insiders
<1>10. Typed'
  <2>1. pc' \in [Thread -> Place] /\ job' \in Holders
    BY <1>3, SteppedIs
  <2>2. Waits'
    BY <1>0 DEF Typed, Waits, LeaveComplete, wordVars
  <2>3. return_publishers' \in [Requester -> Nat]
    BY <1>0, <1>1, <1>2, <1>9 DEF Typed
  <2> QED BY <1>0, <1>1, <2>1, <2>2, <2>3 DEF Typed, Waits, Holders
<1>11. Gone(released', pending', pc', job')
  <2>1. \A s \in Requester : s \in released => Inside(pc', job', s) = {}
    BY <1>8 DEF IInv, Gone
  <2> QED BY <1>0, <1>1, <1>3, <2>1, GoneStep
<1> QED BY <1>1, <1>4, <1>5, <1>6, <1>7, <1>9, <1>10, <1>11 DEF IInv

(* --------------------------------- the host ----------------------------- *)

LEMMA HostKeeps ==
  ASSUME IInv,
         \/ \E q \in Requester : RequestExit(q) \/ PokeExit(q) \/ WakeExit(q)
         \/ StopStep
  PROVE  IInv'
<1>1. Typed
  BY DEF IInv
<1>2. /\ UNCHANGED <<work, work_free, returns, returns_free, pending, outstanding, return_publishers>>
      /\ UNCHANGED <<pc, job, released>>
  BY DEF RequestExit, PokeExit, WakeExit, StopStep, StopRunner, ReleasePool, WakePool, channelVars, creditVars, wordVars
<1>3. Waits'
  <2> USE <1>1 DEF Waits, Typed, HostPlace
  <2>1. CASE \E q \in Requester : RequestExit(q) \/ PokeExit(q)
    BY <2>1 DEF RequestExit, PokeExit, Thread, wordVars
  <2>2. CASE \E q \in Requester : WakeExit(q)
    BY <2>2, WakeKeeps DEF WakeExit
  <2>3. CASE StopStep
    BY <2>3 DEF StopStep, StopRunner, ReleasePool, WakePool, Thread, wordVars
  <2> QED BY <2>1, <2>2, <2>3
<1>4. Typed'
  BY <1>1, <1>2, <1>3 DEF Typed, Waits
<1> QED BY <1>2, <1>4 DEF IInv

LEMMA ReleaseKeeps == ASSUME IInv, NEW q \in Requester, release_wait_control(q) PROVE IInv'
<1>1. /\ UNCHANGED <<work, work_free, returns, returns_free, pending, outstanding, return_publishers>>
      /\ UNCHANGED <<pc, job>> /\ released' = released \cup {q} /\ pc[q] = "exited" /\ return_publishers[q] = 0
  BY DEF release_wait_control, Joinable, channelVars, creditVars
<1>2. Typed'
  BY <1>1 DEF IInv, Typed, release_wait_control, HostPlace
<1>3. Inside(pc, job, q) = {}
  <2>1. Cardinality(Inside(pc, job, q)) = 0
    BY <1>1 DEF IInv, Insiders
  <2> QED BY <2>1, InsideFinite, FS_EmptySet
<1>4. Gone(released', pending', pc', job')
  BY <1>1, <1>3 DEF IInv, Gone
<1> QED BY <1>1, <1>2, <1>4 DEF IInv

(* ------------------------------- the theorems --------------------------- *)

LEMMA InvInit == Init => IInv
<1> SUFFICES ASSUME Init PROVE IInv
  OBVIOUS
<1>1. pc = [t \in Thread |-> "top"] /\ job = [t \in Thread |-> NoItem]
  BY DEF Init
<1>2. \A t \in Thread : pc[t] = "top" /\ job[t] = NoItem
  BY <1>1
<1>3. /\ work = << >> /\ work_free = Capacity /\ released = {}
      /\ \A q \in Requester : /\ returns[q] = << >> /\ returns_free[q] = Capacity /\ pending[q] = {}
                              /\ outstanding[q] = 0 /\ return_publishers[q] = 0
  BY DEF Init
<1>4. Typed
  <2>1. "top" \in Place /\ "serving" \in HostPlace /\ Capacity \in Nat /\ << >> \in Seq(Items)
    BY BatchAssumption DEF Place, RequesterPc, HostPlace
  <2>2. pc \in [Thread -> Place] /\ job \in [Thread -> Items \cup {NoItem}] /\ progressed \in [Thread -> BOOLEAN]
    BY <1>1, <2>1 DEF Init
  <2>3. /\ work \in Seq(Items) /\ returns \in [Requester -> Seq(Items)]
        /\ work_free \in Nat /\ returns_free \in [Requester -> Nat]
    BY <2>1 DEF Init
  <2>4. /\ pending \in [Requester -> SUBSET Items]
        /\ outstanding \in [Requester -> Nat] /\ return_publishers \in [Requester -> Nat]
        /\ host \in [Requester -> HostPlace]
    BY <2>1 DEF Init
  <2> QED BY <2>2, <2>3, <2>4 DEF Init, Typed
<1>5. \A x : ~In(<< >>, x)
  <2>1. Len(<< >>) = 0 /\ 1..0 = {}
    OBVIOUS
  <2> QED BY <2>1 DEF In
<1>6. \A t \in Thread : Held(pc, job)[t] = NoItem
  BY <1>2 DEF Held, HoldPc
<1>7. Jobs(pc, job)
  BY <1>2 DEF Jobs, Thread, RequesterPc, RequesterJobPc, RunnerPc, RunnerJobPc, InsidePc
<1>8. Apart(work, returns, Held(pc, job)) /\ Accepted(work, returns, pending, Held(pc, job))
  <2>1. Distinct(<< >>)
    BY DEF Distinct
  <2> QED BY <1>3, <1>5, <1>6, <2>1, NoItemIs, ItemIs DEF Apart, Accepted
<1>9. WorkCounted(work, work_free, pc, job) /\ ReturnsCounted(returns, returns_free, pc, job)
  <2>1. WorkSlots(work, pc, job) = {}
    BY <1>2, <1>3, <1>5 DEF WorkSlots, Thread
  <2>2. \A q \in Requester : ReturnSlots(returns[q], pc, job, q) = {}
    BY <1>2, <1>3, <1>5 DEF ReturnSlots, Thread
  <2>3. IsFiniteSet({}) /\ Cardinality({}) = 0
    BY FS_EmptySet
  <2>4. Capacity = Capacity - 0
    BY BatchAssumption
  <2>5. WorkCounted(work, work_free, pc, job)
    BY <1>3, <2>1, <2>3, <2>4 DEF WorkCounted
  <2>6. ReturnsCounted(returns, returns_free, pc, job)
    BY <1>3, <2>2, <2>3, <2>4 DEF ReturnsCounted
  <2> QED BY <2>5, <2>6
<1>10. Credited(pending, outstanding)
  <2>1. IsFiniteSet({}) /\ Cardinality({}) = 0
    BY FS_EmptySet
  <2>2. 0 <= Capacity
    BY BatchAssumption
  <2> QED BY <1>3, <2>1, <2>2 DEF Credited
<1>11. \A q \in Requester : Inside(pc, job, q) = {}
  BY <1>2 DEF Inside, InsidePc, Thread
<1>12. Insiders(return_publishers, pc, job) /\ Gone(released, pending, pc, job)
  BY <1>3, <1>11, FS_EmptySet DEF Insiders, Gone
<1> QED BY <1>4, <1>7, <1>8, <1>9, <1>10, <1>12 DEF IInv

LEMMA InvNext == IInv /\ [Next]_vars => IInv'
<1> SUFFICES ASSUME IInv, [Next]_vars PROVE IInv'
  OBVIOUS
<1>1. ASSUME NEW q \in Requester, RequesterStep(q) PROVE IInv'
  BY <1>1, RequesterQuiet, ReceiveKeeps, RecycleReturnKeeps, RestoreCreditKeeps, PublishWorkKeeps DEF RequesterStep
<1>2. ASSUME NEW r \in Runner, RunnerStep(r) PROVE IInv'
  BY <1>2, RunnerQuiet, AcquireKeeps, RecycleWorkKeeps, ExecuteKeeps, ReserveReturnKeeps, PublishReturnKeeps,
     LeaveCompleteKeeps DEF RunnerStep
<1>3. ASSUME NEW q \in Requester, ShutdownStep(q) \/ RequestExit(q) PROVE IInv'
  BY <1>3, HostKeeps, ReleaseKeeps DEF ShutdownStep
<1>4. CASE StopStep
  BY <1>4, HostKeeps
<1>5. CASE UNCHANGED vars
  <2>1. /\ UNCHANGED <<work, work_free, returns, returns_free, pending, outstanding, return_publishers>>
        /\ UNCHANGED <<unchanged, parked, released, pool_released, exit_requested, pc, job, progressed, host>>
    BY <1>5 DEF vars, channelVars, creditVars, wordVars
  <2> QED BY <2>1 DEF IInv, Typed
<1> QED BY <1>1, <1>2, <1>3, <1>4, <1>5, SubmitKeeps DEF Next

LEMMA Invariance == Spec => []IInv
BY InvInit, InvNext, PTL DEF Spec

\* "every accepted asynchronous work item has guaranteed return space"
\* (CBatchWork.hpp): complete() always finds a slot of the return channel and
\* a word that is not released, so no runner of the pool ever fails.
THEOREM Delivered == Spec => []EveryResponseIsDelivered
<1>1. IInv => EveryResponseIsDelivered
  BY DEF IInv, Jobs, RunnerPc, RunnerJobPc, InsidePc, EveryResponseIsDelivered
<1> QED BY <1>1, Invariance, PTL

\* CThreadPackage::shutdown() releases a requester's word only when no runner
\* has work of that requester in hand, inside complete() or on its way there.
THEOREM ClientKept == Spec => []ClientOutlivesRunners
<1>1. ASSUME IInv PROVE ClientOutlivesRunners
  <2> SUFFICES ASSUME NEW q \in released, NEW r \in Runner, job[r] # NoItem, From(job[r]) = q
               PROVE  FALSE
    BY DEF ClientOutlivesRunners
  <2>1. q \in Requester /\ pending[q] = {} /\ Inside(pc, job, q) = {}
    BY <1>1 DEF IInv, Typed, Gone
  <2>2. pc[r] \in RunnerJobPc /\ job[r] \in Items /\ r \in Thread
    BY <1>1 DEF IInv, Jobs, Thread
  <2>3. CASE pc[r] \in InsidePc
    BY <2>1, <2>3 DEF Inside
  <2>4. CASE pc[r] \notin InsidePc
    <3>1. pc[r] \in HoldPc
      BY <2>2, <2>4 DEF RunnerJobPc, HoldPc
    <3> QED BY <1>1, <2>1, <2>2, <3>1, HeldIsAccepted
  <2> QED BY <2>3, <2>4
<1> QED BY <1>1, Invariance, PTL

\* Work that submit() accepted is in one queue or with one thread, once, until
\* its response has been received; nothing else is queued or held anywhere.
THEOREM OnePlace == Spec => []WorkIsInOnePlace
<1>1. ASSUME IInv PROVE WorkIsInOnePlace
  <2> SUFFICES ASSUME NEW q \in Requester, NEW c \in Correlation
               PROVE  /\ <<q, c>> \in pending[q] => Cardinality(Places(<<q, c>>)) = 1
                      /\ <<q, c>> \notin pending[q] => Cardinality(Places(<<q, c>>)) = 0
    BY DEF WorkIsInOnePlace
  <2> DEFINE x == <<q, c>>
             W == Occurrences(work, x)
             R == Occurrences(returns[q], x)
             T == {t \in Thread : Held(pc, job)[t] = x}
  <2>0. x \in Items /\ From(x) = q
    BY ItemIs
  <2> HIDE DEF x
  <2>1. work \in Seq(Items) /\ returns[q] \in Seq(Items)
    BY <1>1 DEF IInv, Typed
  <2>2. DOMAIN work = 1..Len(work) /\ DOMAIN returns[q] = 1..Len(returns[q])
    BY <2>1
  <2>3. /\ W # {} <=> In(work, x)
        /\ R # {} <=> In(returns[q], x)
    BY <2>2 DEF Occurrences, In
  <2>4. (\A m, n \in W : m = n) /\ (\A m, n \in R : m = n)
    BY <1>1, <2>2 DEF Occurrences, IInv, Apart, Distinct
  <2>5. \A t, u \in T : t = u
    BY <1>1, <2>0 DEF IInv, Apart
  <2>6. (W = {} \/ R = {}) /\ (W = {} \/ T = {}) /\ (R = {} \/ T = {})
    BY <1>1, <2>0, <2>3 DEF IInv, Apart
  <2>7. x \in pending[q] <=> W # {} \/ R # {} \/ T # {}
    BY <1>1, <2>0, <2>3 DEF IInv, Accepted
  <2>8. T = {t \in Thread : /\ job[t] = x
                            /\ pc[t] \notin {"releasing", "r_releasing", "r_poke", "r_wake", "leave", "undelivered"}}
    <3>1. ASSUME NEW t \in Thread
          PROVE  Held(pc, job)[t] = x <=>
                   /\ job[t] = x
                   /\ pc[t] \notin {"releasing", "r_releasing", "r_poke", "r_wake", "leave", "undelivered"}
      <4>1. Jobs(pc, job) /\ x # NoItem
        BY <1>1, <2>0, NoItemIs DEF IInv
      <4>2. CASE t \in Requester
        BY <1>1, <4>1, <4>2, HeldNow DEF Jobs, RequesterPc, RequesterJobPc, HoldPc
      <4>3. CASE t \in Runner
        BY <1>1, <4>1, <4>3, HeldNow DEF Jobs, RunnerPc, RunnerJobPc, InsidePc, HoldPc
      <4> QED BY <4>2, <4>3 DEF Thread
    <3> QED BY <3>1
  <2>9. Places(x) = ({"work"} \X W) \cup ({"returns"} \X R) \cup ({"with"} \X T)
    BY <2>0, <2>8 DEF Places
  <2> HIDE DEF W, R, T
  <2>10. {"work"} \X {} = {}
    OBVIOUS
  <2>11. {"returns"} \X {} = {}
    OBVIOUS
  <2>12. {"with"} \X {} = {}
    OBVIOUS
  <2>13. CASE x \notin pending[q]
    BY <2>7, <2>9, <2>10, <2>11, <2>12, <2>13, FS_EmptySet DEF x
  <2>14. CASE x \in pending[q]
    <3>1. \E z : Places(x) = {z}
      <4>1. CASE W # {}
        <5> PICK n : W = {n}
          BY <2>4, <4>1
        <5>1. {"work"} \X {n} = {<<"work", n>>}
          OBVIOUS
        <5> QED BY <2>6, <2>9, <2>11, <2>12, <4>1, <5>1
      <4>2. CASE R # {}
        <5> PICK n : R = {n}
          BY <2>4, <4>2
        <5>1. {"returns"} \X {n} = {<<"returns", n>>}
          OBVIOUS
        <5> QED BY <2>6, <2>9, <2>10, <2>12, <4>2, <5>1
      <4>3. CASE T # {}
        <5> PICK n : T = {n}
          BY <2>5, <4>3
        <5>1. {"with"} \X {n} = {<<"with", n>>}
          OBVIOUS
        <5> QED BY <2>6, <2>9, <2>10, <2>11, <4>3, <5>1
      <4> QED BY <2>7, <2>14, <4>1, <4>2, <4>3
    <3> QED BY <2>14, <3>1, FS_Singleton DEF x
  <2> QED BY <2>13, <2>14 DEF x
<1> QED BY <1>1, Invariance, PTL

\* Credits, slots and counts stay in their ranges for every number of threads:
\* the unsigned counters never wrap and no channel gains a slot.
THEOREM TypeCorrect == Spec => []TypeOK
<1>1. ASSUME IInv PROVE TypeOK
  <2>1. Typed /\ Capacity \in Nat
    BY <1>1, BatchAssumption DEF IInv
  <2>2. work_free \in 0..Capacity
    <3>1. Cardinality(WorkSlots(work, pc, job)) \in Nat /\ work_free = Capacity - Cardinality(WorkSlots(work, pc, job))
      BY <1>1, FS_CardinalityType DEF IInv, WorkCounted
    <3> QED BY <2>1, <3>1 DEF Typed
  <2>3. ASSUME NEW q \in Requester PROVE returns_free[q] \in 0..Capacity
    <3>1. /\ Cardinality(ReturnSlots(returns[q], pc, job, q)) \in Nat
          /\ returns_free[q] = Capacity - Cardinality(ReturnSlots(returns[q], pc, job, q))
      BY <1>1, FS_CardinalityType DEF IInv, ReturnsCounted
    <3> QED BY <2>1, <3>1 DEF Typed
  <2>4. ASSUME NEW q \in Requester PROVE outstanding[q] \in 0..Capacity
    BY <1>1, <2>1 DEF IInv, Credited, Typed
  <2>5. ASSUME NEW q \in Requester PROVE return_publishers[q] \in 0..Cardinality(Runner)
    <3>1. return_publishers[q] = Cardinality(Inside(pc, job, q)) /\ Inside(pc, job, q) \subseteq Runner
      BY <1>1 DEF IInv, Insiders, Inside
    <3>2. Cardinality(Inside(pc, job, q)) <= Cardinality(Runner) /\ Cardinality(Runner) \in Nat
      BY <3>1, BatchAssumption, FS_Subset, FS_CardinalityType
    <3> QED BY <3>1, <3>2, InsideFinite
  <2> QED BY <2>1, <2>2, <2>3, <2>4, <2>5 DEF TypeOK, Typed
<1> QED BY <1>1, Invariance, PTL
==============================================================================
