---------------------- MODULE DirectConnections_proofs ----------------------
(***************************************************************************)
(* Proofs about DirectConnections, for every number of connections, every  *)
(* capacity of the clients' queues and every fault: a descriptor is not    *)
(* erased while a thread can reach it, nobody is active alone, and every   *)
(* request has one answer.                                                 *)
(*                                                                         *)
(* What a client may still do with a token depends on its record of the    *)
(* token, on the two queues between it and the Host, and on a few facts    *)
(* that the Host knows.  View says how these fit together, as a predicate  *)
(* of values: a step of the client changes the record and the queues, a    *)
(* step of the Host changes the facts, and one lemma for each change shows *)
(* that the view survives it.                                              *)
(***************************************************************************)
EXTENDS DirectConnections, FiniteSetTheorems, SequenceTheorems, WellFoundedInduction, TLAPS

ToHost   == [kind : ToHostKinds, token : Token \cup {NoToken}, ok : BOOLEAN]
ToClient == {m \in [kind : ToClientKinds, token : Token \cup {NoToken}, ok : BOOLEAN] :
                m.kind # "Result" => m.token \in Token}

Side == [slot : BOOLEAN, initiated : BOOLEAN, exposed : BOOLEAN, ready : BOOLEAN,
         activated : BOOLEAN, closing_sent : BOOLEAN, quiescent : BOOLEAN, retired_sent : BOOLEAN]

Record == [phase : {"offered", "installing", "active", "closing"}, token : Token, second : Client,
           offered : BOOLEAN, side : [Client -> Side]]

Owable == {"Decision", "Ready", "Close", "Quiescent"}

Local == [phase : {"empty", "offered", "installed", "active", "closing"}, endpoint : BOOLEAN,
          owes : SUBSET Owable, closing_seen : BOOLEAN, quiescent : BOOLEAN]

Requests == {"none", "pending", "cancelled", "completed"}

Typed ==
    /\ to_host \in [Client -> Seq(ToHost)] /\ to_client \in [Client -> Seq(ToClient)]
    /\ record = NoRecord \/ record \in Record
    /\ issued \in Nat /\ closed \in BOOLEAN /\ failed \in BOOLEAN
    /\ stop_requested \subseteq Client /\ terminal \subseteq Client
    /\ local \in [Client -> [Token -> Local]]
    /\ request \in [Client -> Requests] /\ opened \in [Client -> Nat]

(* ------------------------------ the view of a token --------------------- *)

On(q, kind, t) == \E i \in 1..Len(q) : q[i].kind = kind /\ q[i].token = t

Absent(q, t) == \A i \in 1..Len(q) : q[i].token # t

Installed(q, r, t) == r.endpoint \/ On(q, "Install", t)

\* What the Host knows of a token and of one of the two clients: the connection
\* is not closing yet; the client may have its descriptor; it has said that it
\* is ready; nobody has a descriptor any more; the client has ended; its peer
\* has installed its endpoint; nothing has been said about the token yet.
Facts == [opening : BOOLEAN, exposed : BOOLEAN, ready : BOOLEAN, over : BOOLEAN, gone : BOOLEAN,
          peer : BOOLEAN, unknown : BOOLEAN]

Untouched(q, out, r, t) == r = NoLocal /\ Absent(q, t) /\ Absent(out, t)

\* The closing message comes behind every installation.
ClosingLast(q, t) ==
    \A i, j \in 1..Len(q) :
        q[i].kind = "Closing" /\ q[i].token = t /\ q[j].kind = "Install" /\ q[j].token = t => j < i

\* The offer is the first the client hears of the token.
OfferFirst(q, t) ==
    \A i, j \in 1..Len(q) : q[i].kind = "Offer" /\ q[i].token = t /\ j < i => q[j].token # t

Steady(g, r) == r.endpoint \/ r.phase = "closing" \/ g.gone \/ g.over

View(g, q, out, r, t) ==
    /\ Installed(q, r, t) => g.exposed
    /\ On(out, "Quiescent", t) \/ "Quiescent" \in r.owes => ~Installed(q, r, t) /\ ~g.opening
    /\ r.closing_seen => ~On(q, "Install", t) /\ ~g.opening
    /\ On(q, "Closing", t) => ~g.opening
    /\ ClosingLast(q, t)
    /\ On(q, "Retired", t) => g.over
    /\ On(q, "Offer", t) => r = NoLocal /\ ~g.ready /\ ~On(out, "Ready", t)
    /\ OfferFirst(q, t)
    /\ g.ready \/ On(out, "Ready", t) \/ "Ready" \in r.owes => Steady(g, r)
    /\ r.phase = "active" \/ On(q, "Activate", t) => g.peer
    /\ r.phase \in {"installed", "active"} => r.endpoint
    /\ r.phase = "empty" => r = NoLocal
    /\ g.unknown => Untouched(q, out, r, t)

(* ------------------------------- messages ------------------------------- *)

\* What a queue carries when a message has been taken, and when some have come.
LEMMA OnTail ==
  ASSUME NEW M, NEW q \in Seq(M), q # << >>
  PROVE  /\ Tail(q) \in Seq(M) /\ Head(q) \in M
         /\ \A k, t : On(Tail(q), k, t) => On(q, k, t)
         /\ \A k, t : On(q, k, t) => On(Tail(q), k, t) \/ (Head(q).kind = k /\ Head(q).token = t)
         /\ On(q, Head(q).kind, Head(q).token)
         /\ \A t : Absent(q, t) => Absent(Tail(q), t) /\ Head(q).token # t
         /\ \A t : ClosingLast(q, t) => /\ ClosingLast(Tail(q), t)
                                        /\ Head(q).kind = "Closing" /\ Head(q).token = t => ~On(Tail(q), "Install", t)
         /\ \A t : OfferFirst(q, t) => /\ OfferFirst(Tail(q), t)
                                       /\ Head(q).token = t => ~On(Tail(q), "Offer", t)
<1> DEFINE n == Len(q)
           s == Tail(q)
<1>1. /\ n \in Nat /\ n >= 1 /\ s \in Seq(M) /\ Len(s) = n - 1 /\ Head(q) = q[1] /\ q[1] \in M
      /\ \A i \in 1..(n - 1) : s[i] = q[i + 1]
  OBVIOUS
<1> HIDE DEF s
<1> DEFINE N == n
<1>2. \A i \in 1..Len(s) : i + 1 \in 1..Len(q) /\ s[i] = q[i + 1]
  BY <1>1
<1>3. \A i \in 1..Len(q) : i = 1 \/ (i - 1 \in 1..Len(s) /\ s[i - 1] = q[i])
  BY <1>1
<1>4. 1 \in 1..Len(q)
  BY <1>1
<1>5. \A k, t : On(s, k, t) => On(q, k, t)
  BY <1>2 DEF On
<1>6. \A k, t : On(q, k, t) => On(s, k, t) \/ (q[1].kind = k /\ q[1].token = t)
  BY <1>3 DEF On
<1>7. On(q, q[1].kind, q[1].token)
  BY <1>4 DEF On
<1>8. \A t : Absent(q, t) => Absent(s, t) /\ q[1].token # t
  BY <1>2, <1>4 DEF Absent
<1>9. ASSUME NEW t, ClosingLast(q, t)
      PROVE  ClosingLast(s, t) /\ (q[1].kind = "Closing" /\ q[1].token = t => ~On(s, "Install", t))
  <2>1. ClosingLast(s, t)
    <3> SUFFICES ASSUME NEW i \in 1..Len(s), NEW j \in 1..Len(s),
                        s[i].kind = "Closing", s[i].token = t, s[j].kind = "Install", s[j].token = t
                 PROVE  j < i
      BY DEF ClosingLast
    <3>1. j + 1 < i + 1
      BY <1>2, <1>9 DEF ClosingLast
    <3> QED BY <3>1
  <2>2. ASSUME q[1].kind = "Closing", q[1].token = t, NEW i \in 1..Len(s), s[i].kind = "Install", s[i].token = t
        PROVE  FALSE
    <3>1. i + 1 < 1
      BY <1>2, <1>4, <1>9, <2>2 DEF ClosingLast
    <3> QED BY <3>1
  <2> QED BY <2>1, <2>2 DEF On
<1>10. ASSUME NEW t, OfferFirst(q, t)
       PROVE  OfferFirst(s, t) /\ (q[1].token = t => ~On(s, "Offer", t))
  <2>1. OfferFirst(s, t)
    <3> SUFFICES ASSUME NEW i \in 1..Len(s), NEW j \in 1..Len(s), s[i].kind = "Offer", s[i].token = t, j < i
                 PROVE  s[j].token # t
      BY DEF OfferFirst
    <3>1. j + 1 < i + 1
      OBVIOUS
    <3> QED BY <3>1, <1>2, <1>10 DEF OfferFirst
  <2>2. ASSUME q[1].token = t, NEW i \in 1..Len(s), s[i].kind = "Offer", s[i].token = t
        PROVE  FALSE
    <3>1. 1 < i + 1
      OBVIOUS
    <3> QED BY <1>2, <1>4, <1>10, <2>2, <3>1 DEF OfferFirst
  <2> QED BY <2>1, <2>2 DEF On
<1> QED
  BY <1>1, <1>5, <1>6, <1>7, <1>8, <1>9, <1>10 DEF s

LEMMA OnConcat ==
  ASSUME NEW M, NEW q \in Seq(M), NEW s \in Seq(M)
  PROVE  /\ q \o s \in Seq(M)
         /\ \A k, t : On(q \o s, k, t) <=> On(q, k, t) \/ On(s, k, t)
         /\ \A t : Absent(q \o s, t) <=> Absent(q, t) /\ Absent(s, t)
         /\ \A t : ClosingLast(q, t) /\ ~On(s, "Install", t) => ClosingLast(q \o s, t)
         /\ \A t : ClosingLast(q, t) /\ ~On(q, "Closing", t) /\ ~On(s, "Closing", t) => ClosingLast(q \o s, t)
         /\ \A t : OfferFirst(q, t) /\ ~On(s, "Offer", t) => OfferFirst(q \o s, t)
         /\ \A t : Absent(q, t) /\ Len(s) <= 1 => OfferFirst(q \o s, t)
<1> DEFINE n == Len(q)
           m == Len(s)
           u == q \o s
<1>1. /\ n \in Nat /\ m \in Nat /\ u \in Seq(M) /\ Len(u) = n + m
      /\ \A i \in 1..n : u[i] = q[i]
      /\ \A i \in 1..(n + m) : i > n => u[i] = s[i - n]
  OBVIOUS
<1> HIDE DEF u
<1>2. \A i \in 1..Len(q) : i \in 1..Len(u) /\ u[i] = q[i]
  BY <1>1
<1>3. \A i \in 1..Len(s) : i + n \in 1..Len(u) /\ u[i + n] = s[i]
  <2> SUFFICES ASSUME NEW i \in 1..Len(s) PROVE i + n \in 1..Len(u) /\ u[i + n] = s[i]
    OBVIOUS
  <2>1. i + n \in 1..(n + m) /\ i + n > n /\ (i + n) - n = i
    BY <1>1
  <2> QED BY <1>1, <2>1
<1>4. \A i \in 1..Len(u) : \/ i \in 1..Len(q) /\ u[i] = q[i]
                           \/ i > n /\ i - n \in 1..Len(s) /\ u[i] = s[i - n]
  BY <1>1
<1>5. ASSUME NEW k, NEW t
      PROVE  On(u, k, t) <=> On(q, k, t) \/ On(s, k, t)
  <2>1. On(u, k, t) => On(q, k, t) \/ On(s, k, t)
    BY <1>4 DEF On
  <2>2. On(q, k, t) => On(u, k, t)
    BY <1>2 DEF On
  <2>3. On(s, k, t) => On(u, k, t)
    BY <1>3 DEF On
  <2> QED BY <2>1, <2>2, <2>3
<1>6. ASSUME NEW t
      PROVE  Absent(u, t) <=> Absent(q, t) /\ Absent(s, t)
  <2>1. Absent(u, t) => Absent(q, t)
    BY ONLY <1>2 DEF Absent
  <2>2. Absent(u, t) => Absent(s, t)
    BY ONLY <1>3 DEF Absent
  <2>3. Absent(q, t) /\ Absent(s, t) => Absent(u, t)
    BY ONLY <1>4 DEF Absent
  <2> QED BY <2>1, <2>2, <2>3
<1>7. ASSUME NEW t, ClosingLast(q, t),
             ~On(s, "Install", t) \/ (~On(q, "Closing", t) /\ ~On(s, "Closing", t))
      PROVE  ClosingLast(u, t)
  <2> SUFFICES ASSUME NEW i \in 1..Len(u), NEW j \in 1..Len(u),
                      u[i].kind = "Closing", u[i].token = t, u[j].kind = "Install", u[j].token = t
               PROVE  j < i
    BY DEF ClosingLast
  <2>1. On(q, "Closing", t) \/ On(s, "Closing", t)
    BY <1>4 DEF On
  <2>2. ~On(s, "Install", t)
    BY <1>7, <2>1
  <2>3. j \in 1..Len(q) /\ u[j] = q[j]
    BY <1>4, <2>2 DEF On
  <2>4. CASE i \in 1..Len(q) /\ u[i] = q[i]
    BY <2>3, <2>4, <1>7 DEF ClosingLast
  <2>5. CASE i > n
    BY <2>3, <2>5, <1>1
  <2> QED BY <1>4, <2>4, <2>5
<1>8. ASSUME NEW t, OfferFirst(q, t), ~On(s, "Offer", t)
      PROVE  OfferFirst(u, t)
  <2> SUFFICES ASSUME NEW i \in 1..Len(u), NEW j \in 1..Len(u), u[i].kind = "Offer", u[i].token = t, j < i
               PROVE  u[j].token # t
    BY DEF OfferFirst
  <2>1. i \in 1..Len(q) /\ u[i] = q[i]
    BY <1>4, <1>8 DEF On
  <2>2. j \in 1..Len(q) /\ u[j] = q[j]
    BY <1>1, <1>2, <2>1
  <2> QED BY <1>8, <2>1, <2>2 DEF OfferFirst
<1>9. ASSUME NEW t, Absent(q, t), Len(s) <= 1
      PROVE  OfferFirst(u, t)
  <2> SUFFICES ASSUME NEW i \in 1..Len(u), NEW j \in 1..Len(u), u[i].kind = "Offer", u[i].token = t, j < i
               PROVE  u[j].token # t
    BY DEF OfferFirst
  <2>1. ~(i \in 1..Len(q) /\ u[i] = q[i])
    BY <1>9 DEF Absent
  <2>2. i = n + 1
    BY <1>1, <1>4, <1>9, <2>1
  <2>3. j \in 1..Len(q) /\ u[j] = q[j]
    BY <1>1, <1>2, <2>2
  <2> QED BY <1>9, <2>3 DEF Absent
<1> QED
  BY <1>1, <1>5, <1>6, <1>7, <1>8, <1>9 DEF u

(* ------------------------------ changes of a view ----------------------- *)

\* The Host changes what it knows, and may have read a message of the client.
Milder(g, g1, q, out, r, t) ==
    /\ g1.opening => g.opening
    /\ Installed(q, r, t) => g1.exposed
    /\ g1.ready => g.ready \/ On(out, "Ready", t)
    /\ g.over => g1.over
    /\ g.gone => g1.gone
    /\ g.peer => g1.peer
    /\ g1.unknown => g.unknown

LEMMA ViewMilder ==
  ASSUME NEW g \in Facts, NEW g1 \in Facts, NEW q, NEW out, NEW out1, NEW r \in Local, NEW t,
         View(g, q, out, r, t), Milder(g, g1, q, out, r, t),
         \A k : On(out1, k, t) => On(out, k, t), Absent(out, t) => Absent(out1, t)
  PROVE  View(g1, q, out1, r, t)
<1>1. (Installed(q, r, t) => g1.exposed) /\ (On(q, "Retired", t) => g1.over)
  BY DEF View, Milder
<1>2. On(out1, "Quiescent", t) \/ "Quiescent" \in r.owes => ~Installed(q, r, t) /\ ~g1.opening
  BY DEF View, Milder
<1>3. /\ r.closing_seen => ~On(q, "Install", t) /\ ~g1.opening
      /\ On(q, "Closing", t) => ~g1.opening
  BY DEF View, Milder
<1>4. On(q, "Offer", t) => r = NoLocal /\ ~g1.ready /\ ~On(out1, "Ready", t)
  BY DEF View, Milder
<1>5. g1.ready \/ On(out1, "Ready", t) \/ "Ready" \in r.owes => Steady(g1, r)
  BY DEF View, Milder, Steady
<1>6. r.phase = "active" \/ On(q, "Activate", t) => g1.peer
  BY DEF View, Milder
<1>7. g1.unknown => Untouched(q, out1, r, t)
  BY DEF View, Milder, Untouched
<1>8. /\ ClosingLast(q, t) /\ OfferFirst(q, t) /\ (r.phase \in {"installed", "active"} => r.endpoint)
      /\ r.phase = "empty" => r = NoLocal
  BY DEF View
<1> QED
  BY <1>1, <1>2, <1>3, <1>4, <1>5, <1>6, <1>7, <1>8 DEF View

\* The client sends messages to the Host.
Sayable(g, q, r, s, t) ==
    /\ On(s, "Quiescent", t) => "Quiescent" \in r.owes \/ (~Installed(q, r, t) /\ ~g.opening)
    /\ On(s, "Ready", t) => "Ready" \in r.owes
    /\ g.unknown => Absent(s, t)

Lighter(r, r1) ==
    /\ r1.phase = r.phase /\ r1.endpoint = r.endpoint /\ r1.closing_seen = r.closing_seen
    /\ r1.owes \subseteq r.owes /\ (r = NoLocal => r1 = NoLocal)

LEMMA ViewSent ==
  ASSUME NEW g \in Facts, NEW q, NEW out \in Seq(ToHost), NEW s \in Seq(ToHost),
         NEW r \in Local, NEW r1 \in Local, NEW t,
         View(g, q, out, r, t), Sayable(g, q, r, s, t), Lighter(r, r1)
  PROVE  /\ View(g, q, out \o s, r1, t)
         /\ Installed(q, r1, t) => Installed(q, r, t)
         /\ Steady(g, r) => Steady(g, r1)
<1>0. /\ \A k : On(out \o s, k, t) <=> On(out, k, t) \/ On(s, k, t)
      /\ Absent(out \o s, t) <=> Absent(out, t) /\ Absent(s, t)
  BY OnConcat
<1>1. Installed(q, r1, t) <=> Installed(q, r, t)
  BY DEF Lighter, Installed
<1>2. On(out \o s, "Quiescent", t) \/ "Quiescent" \in r1.owes => ~Installed(q, r1, t) /\ ~g.opening
  BY <1>0, <1>1 DEF View, Sayable, Lighter
<1>3. (r1.closing_seen => ~On(q, "Install", t) /\ ~g.opening) /\ (Installed(q, r1, t) => g.exposed)
  BY <1>1 DEF View, Lighter
<1>4. On(q, "Offer", t) => r1 = NoLocal /\ ~g.ready /\ ~On(out \o s, "Ready", t)
  BY <1>0 DEF View, Sayable, Lighter, NoLocal
<1>5. Steady(g, r) => Steady(g, r1)
  BY DEF Steady, Lighter
<1>6. g.ready \/ On(out \o s, "Ready", t) \/ "Ready" \in r1.owes => Steady(g, r1)
  BY <1>0, <1>5 DEF View, Sayable, Lighter
<1>7. /\ r1.phase = "active" \/ On(q, "Activate", t) => g.peer
      /\ r1.phase \in {"installed", "active"} => r1.endpoint
      /\ r1.phase = "empty" => r1 = NoLocal
  BY DEF View, Lighter
<1>8. g.unknown => Untouched(q, out \o s, r1, t)
  BY <1>0 DEF View, Sayable, Lighter, Untouched
<1>9. /\ On(q, "Closing", t) => ~g.opening
      /\ ClosingLast(q, t) /\ OfferFirst(q, t) /\ (On(q, "Retired", t) => g.over)
  BY DEF View
<1> QED
  BY <1>1, <1>2, <1>3, <1>4, <1>5, <1>6, <1>7, <1>8, <1>9 DEF View

\* The Host sends messages to the client.
Tellable(g, q, out, r, s, t) ==
    /\ On(s, "Install", t) => g.exposed /\ g.opening /\ ~On(s, "Closing", t)
    /\ On(s, "Offer", t) => Untouched(q, out, r, t) /\ ~g.ready /\ Len(s) <= 1
    /\ On(s, "Closing", t) => ~g.opening
    /\ On(s, "Retired", t) => g.over
    /\ On(s, "Activate", t) => g.peer
    /\ g.unknown => Absent(s, t)

LEMMA ViewTold ==
  ASSUME NEW g \in Facts, NEW q \in Seq(ToClient), NEW s \in Seq(ToClient), NEW out,
         NEW r \in Local, NEW t,
         View(g, q, out, r, t), Tellable(g, q, out, r, s, t)
  PROVE  View(g, q \o s, out, r, t)
<1> DEFINE u == q \o s
<1>0. /\ \A k : On(u, k, t) <=> On(q, k, t) \/ On(s, k, t)
      /\ Absent(u, t) <=> Absent(q, t) /\ Absent(s, t)
      /\ ClosingLast(q, t) /\ ~On(s, "Install", t) => ClosingLast(u, t)
      /\ ClosingLast(q, t) /\ ~On(q, "Closing", t) /\ ~On(s, "Closing", t) => ClosingLast(u, t)
      /\ OfferFirst(q, t) /\ ~On(s, "Offer", t) => OfferFirst(u, t)
      /\ Absent(q, t) /\ Len(s) <= 1 => OfferFirst(u, t)
  BY OnConcat
<1> HIDE DEF u
<1>1. Installed(u, r, t) => g.exposed
  BY <1>0 DEF View, Tellable, Installed
<1>2. On(out, "Quiescent", t) \/ "Quiescent" \in r.owes => ~Installed(u, r, t) /\ ~g.opening
  BY <1>0 DEF View, Tellable, Installed
<1>3. r.closing_seen => ~On(u, "Install", t) /\ ~g.opening
  BY <1>0 DEF View, Tellable
<1>4. On(u, "Closing", t) => ~g.opening
  BY <1>0 DEF View, Tellable
<1>5. ClosingLast(u, t)
  BY <1>0 DEF View, Tellable
<1>6. On(u, "Retired", t) => g.over
  BY <1>0 DEF View, Tellable
<1>7. On(u, "Offer", t) => r = NoLocal /\ ~g.ready /\ ~On(out, "Ready", t)
  <2>1. Absent(out, t) => ~On(out, "Ready", t)
    BY DEF Absent, On
  <2> QED BY <1>0, <2>1 DEF View, Tellable, Untouched
<1>8. OfferFirst(u, t)
  BY <1>0 DEF View, Tellable, Untouched
<1>9. r.phase = "active" \/ On(u, "Activate", t) => g.peer
  BY <1>0 DEF View, Tellable
<1>10. g.unknown => Untouched(u, out, r, t)
  BY <1>0 DEF View, Tellable, Untouched
<1> QED
  BY <1>1, <1>2, <1>3, <1>4, <1>5, <1>6, <1>7, <1>8, <1>9, <1>10 DEF View, u

\* The client takes a message, and its record of the token changes.
Moved(g, q, q1, out, r, r1, t) ==
    /\ View(g, q1, out, r1, t)
    /\ Installed(q1, r1, t) => Installed(q, r, t)
    /\ Steady(g, r) => Steady(g, r1)

LEMMA ViewTaken ==
  ASSUME NEW g \in Facts, NEW q \in Seq(ToClient), q # << >>, NEW out, NEW r \in Local, NEW t,
         View(g, q, out, r, t)
  PROVE  Moved(g, q, Tail(q), out, r, r, t)
<1> DEFINE s == Tail(q)
<1>0. /\ \A k : On(s, k, t) => On(q, k, t)
      /\ Absent(q, t) => Absent(s, t)
      /\ ClosingLast(q, t) => ClosingLast(s, t)
      /\ OfferFirst(q, t) => OfferFirst(s, t)
  BY OnTail
<1> HIDE DEF s
<1>1. /\ Installed(s, r, t) => g.exposed
      /\ Installed(s, r, t) => Installed(q, r, t)
  BY <1>0 DEF View, Installed
<1>2. On(out, "Quiescent", t) \/ "Quiescent" \in r.owes => ~Installed(s, r, t) /\ ~g.opening
  BY <1>1 DEF View
<1>3. /\ r.closing_seen => ~On(s, "Install", t) /\ ~g.opening
      /\ On(s, "Closing", t) => ~g.opening
      /\ On(s, "Retired", t) => g.over
      /\ On(s, "Offer", t) => r = NoLocal /\ ~g.ready /\ ~On(out, "Ready", t)
      /\ r.phase = "active" \/ On(s, "Activate", t) => g.peer
  BY <1>0 DEF View
<1>4. /\ ClosingLast(s, t) /\ OfferFirst(s, t)
      /\ g.unknown => Untouched(s, out, r, t)
  BY <1>0 DEF View, Untouched
<1>5. /\ g.ready \/ On(out, "Ready", t) \/ "Ready" \in r.owes => Steady(g, r)
      /\ r.phase \in {"installed", "active"} => r.endpoint
      /\ r.phase = "empty" => r = NoLocal
  BY DEF View
<1>6. View(g, s, out, r, t)
  BY <1>1, <1>2, <1>3, <1>4, <1>5 DEF View
<1> QED
  BY <1>1, <1>6 DEF Moved, s

\* What the message at the head says of the rest.
LEMMA HeadKnown ==
  ASSUME NEW g \in Facts, NEW q \in Seq(ToClient), q # << >>, NEW out, NEW r \in Local, NEW t,
         View(g, q, out, r, t), Head(q).token = t
  PROVE  /\ ~g.unknown /\ ~On(Tail(q), "Offer", t)
         /\ On(q, Head(q).kind, t)
         /\ Head(q).kind = "Closing" => ~On(Tail(q), "Install", t) /\ ~g.opening
<1>1. ~Absent(q, t) /\ On(q, Head(q).kind, t)
  BY OnTail
<1>2. ~On(Tail(q), "Offer", t) /\ (Head(q).kind = "Closing" => ~On(Tail(q), "Install", t))
  BY OnTail DEF View
<1> QED
  BY <1>1, <1>2 DEF View, Untouched

\* A record that is closing, whatever made it so.
Withdrawn(g, q, r, r1, t) ==
    /\ r1.phase = "closing"
    /\ r1.endpoint => r.endpoint
    /\ r1.closing_seen => r.closing_seen \/ (~On(q, "Install", t) /\ ~g.opening)
    /\ "Quiescent" \in r1.owes => "Quiescent" \in r.owes \/ (~Installed(q, r1, t) /\ ~g.opening)

LEMMA ViewWithdrawn ==
  ASSUME NEW g \in Facts, NEW q, NEW out, NEW r \in Local, NEW r1 \in Local, NEW t,
         View(g, q, out, r, t), ~g.unknown, ~On(q, "Offer", t), Withdrawn(g, q, r, r1, t)
  PROVE  Moved(g, q, q, out, r, r1, t)
<1>1. Installed(q, r1, t) => Installed(q, r, t)
  BY DEF Installed, Withdrawn
<1>2. On(out, "Quiescent", t) \/ "Quiescent" \in r1.owes => ~Installed(q, r1, t) /\ ~g.opening
  BY <1>1 DEF View, Withdrawn
<1>3. r1.closing_seen => ~On(q, "Install", t) /\ ~g.opening
  BY DEF View, Withdrawn
<1>4. Steady(g, r1) /\ r1.phase = "closing"
  BY DEF Steady, Withdrawn
<1> QED
  BY <1>1, <1>2, <1>3, <1>4 DEF View, Moved

LEMMA ViewOffered ==
  ASSUME NEW g \in Facts, NEW q \in Seq(ToClient), q # << >>, NEW out, NEW r \in Local,
         NEW r1 \in Local, NEW t,
         View(g, q, out, r, t), Head(q).token = t, Head(q).kind = "Offer",
         r1.phase \in {"offered", "closing"}, ~r1.endpoint, ~r1.closing_seen,
         r1.owes \subseteq {"Decision", "Close"}
  PROVE  Moved(g, q, Tail(q), out, r, r1, t)
<1> DEFINE s == Tail(q)
<1>1. ~g.unknown /\ ~On(s, "Offer", t) /\ On(q, "Offer", t)
  BY HeadKnown
<1>2. View(g, s, out, r, t) /\ (Installed(s, r, t) => Installed(q, r, t))
  BY ViewTaken DEF Moved
<1> HIDE DEF s
<1>3. r = NoLocal /\ ~g.ready /\ ~On(out, "Ready", t)
  BY <1>1 DEF View
<1>4. Installed(s, r1, t) <=> Installed(s, r, t)
  BY <1>3 DEF Installed, NoLocal
<1>5. "Ready" \notin r1.owes /\ "Quiescent" \notin r1.owes /\ r1.phase \notin {"installed", "active", "empty"}
  OBVIOUS
<1>6. Steady(g, r) => Steady(g, r1)
  BY <1>3 DEF Steady, NoLocal
<1>7. View(g, s, out, r1, t)
  BY <1>1, <1>2, <1>3, <1>4, <1>5 DEF View
<1> QED
  BY <1>2, <1>4, <1>6, <1>7 DEF Moved, s

LEMMA ViewInstalled ==
  ASSUME NEW g \in Facts, NEW q \in Seq(ToClient), q # << >>, NEW out, NEW r \in Local,
         NEW r1 \in Local, NEW t,
         View(g, q, out, r, t), Head(q).token = t, Head(q).kind = "Install",
         r1.phase = "installed", r1.endpoint, r1.closing_seen = r.closing_seen,
         r1.owes = r.owes \cup {"Ready"}
  PROVE  Moved(g, q, Tail(q), out, r, r1, t)
<1> DEFINE s == Tail(q)
<1>1. ~g.unknown /\ ~On(s, "Offer", t) /\ On(q, "Install", t)
  <2>1. ~g.unknown /\ ~On(Tail(q), "Offer", t) /\ On(q, Head(q).kind, t)
    BY ONLY HeadKnown, g \in Facts, q \in Seq(ToClient), q # << >>, r \in Local, View(g, q, out, r, t), Head(q).token = t
  <2> QED BY <2>1
<1>2. View(g, s, out, r, t)
  BY ViewTaken DEF Moved
<1> HIDE DEF s
<1>3. Installed(q, r, t)
  BY <1>1 DEF Installed
<1>4. ~On(out, "Quiescent", t) /\ "Quiescent" \notin r1.owes /\ ~r1.closing_seen /\ g.exposed
  BY <1>1, <1>3 DEF View
<1>5. Steady(g, r1)
  BY DEF Steady
<1>6. View(g, s, out, r1, t)
  BY <1>1, <1>2, <1>4, <1>5 DEF View
<1> QED
  BY <1>3, <1>5, <1>6 DEF Moved, s

LEMMA ViewActivated ==
  ASSUME NEW g \in Facts, NEW q \in Seq(ToClient), q # << >>, NEW out, NEW r \in Local,
         NEW r1 \in Local, NEW t,
         View(g, q, out, r, t), Head(q).token = t, Head(q).kind = "Activate",
         r.phase = "installed", r1 = [r EXCEPT !.phase = "active"]
  PROVE  Moved(g, q, Tail(q), out, r, r1, t)
<1> DEFINE s == Tail(q)
<1>1. ~g.unknown /\ ~On(s, "Offer", t) /\ On(q, "Activate", t)
  BY HeadKnown
<1>2. View(g, s, out, r, t) /\ (Installed(s, r, t) => Installed(q, r, t))
  BY ViewTaken DEF Moved
<1> HIDE DEF s
<1>0. /\ r1.phase = "active" /\ r1.endpoint = r.endpoint /\ r1.owes = r.owes
      /\ r1.closing_seen = r.closing_seen
  BY DEF Local
<1>3. g.peer /\ r.endpoint
  BY <1>1 DEF View
<1>4. Installed(s, r1, t) <=> Installed(s, r, t)
  BY <1>0 DEF Installed
<1>5. Steady(g, r1)
  BY <1>0, <1>3 DEF Steady
<1>6. View(g, s, out, r1, t)
  BY <1>0, <1>1, <1>2, <1>3, <1>4, <1>5 DEF View
<1> QED
  BY <1>2, <1>4, <1>5, <1>6 DEF Moved, s

LEMMA ViewRetired ==
  ASSUME NEW g \in Facts, NEW q \in Seq(ToClient), q # << >>, NEW out, NEW r \in Local, NEW t,
         View(g, q, out, r, t), Head(q).token = t, Head(q).kind = "Retired"
  PROVE  Moved(g, q, Tail(q), out, r, NoLocal, t)
<1> DEFINE s == Tail(q)
<1>1. ~g.unknown /\ ~On(s, "Offer", t) /\ On(q, "Retired", t)
  BY HeadKnown
<1>2. View(g, s, out, r, t) /\ (Installed(s, r, t) => Installed(q, r, t))
  BY ViewTaken DEF Moved
<1> HIDE DEF s
<1>0. /\ NoLocal.phase = "empty" /\ ~NoLocal.endpoint /\ NoLocal.owes = {} /\ ~NoLocal.closing_seen
  BY DEF NoLocal
<1>3. g.over
  BY <1>1 DEF View
<1>4. Installed(s, NoLocal, t) => Installed(s, r, t)
  BY <1>0 DEF Installed
<1>5. Steady(g, NoLocal)
  BY <1>3 DEF Steady
<1>6. View(g, s, out, NoLocal, t)
  BY <1>0, <1>1, <1>2, <1>3, <1>4, <1>5 DEF View
<1> QED
  BY <1>2, <1>4, <1>5, <1>6 DEF Moved, s

(* ------------------------------- what is sent --------------------------- *)

\* Induction, for a set of numbers.
LEMMA Inductive ==
  ASSUME NEW T, 0 \in T, \A n \in Nat : n \in T => n + 1 \in T
  PROVE  Nat \subseteq T
<1> DEFINE U == Nat \ T
<1> SUFFICES ASSUME U # {} PROVE FALSE
  OBVIOUS
<1>1. IsWellFoundedOn(OpToRel(<, Nat), Nat)
  BY NatLessThanWellFounded
<1>2. PICK n \in U : \A m \in U : ~(<<m, n>> \in OpToRel(<, Nat))
  <2>1. U \subseteq Nat
    OBVIOUS
  <2> HIDE DEF U
  <2> QED BY <1>1, <2>1, WFMin
<1>3. \A m \in U : ~(m < n)
  BY <1>2 DEF OpToRel
<1>4. n # 0 /\ n - 1 \in Nat
  OBVIOUS
<1>5. n - 1 \in T
  BY <1>3, <1>4
<1> QED
  BY <1>4, <1>5

LEMMA Peers ==
  ASSUME NEW c \in Client
  PROVE  /\ Peer(c) \in Client /\ Peer(c) # c /\ Client = {c, Peer(c)} /\ Peer(Peer(c)) = c
<1>1. IsFiniteSet(Client) /\ Cardinality(Client) = 2
  BY ConnectionAssumption
<1>2. PICK d \in Client : d # c
  <2>1. Client # {c}
    BY <1>1, FS_Singleton
  <2> QED BY <2>1
<1>3. Peer(c) \in Client /\ Peer(c) # c
  BY <1>2 DEF Peer
<1>4. ASSUME NEW e \in Client, e # c, e # Peer(c)
      PROVE  FALSE
  <2>1. IsFiniteSet(Client \ {e}) /\ Cardinality(Client \ {e}) = 1
    BY <1>1, FS_RemoveElement
  <2>2. IsFiniteSet((Client \ {e}) \ {c}) /\ Cardinality((Client \ {e}) \ {c}) = 0
    BY <1>4, <2>1, FS_RemoveElement
  <2>3. (Client \ {e}) \ {c} = {}
    BY <2>2, FS_EmptySet
  <2> QED BY <1>3, <1>4, <2>3
<1>5. Client = {c, Peer(c)}
  BY <1>3, <1>4
<1>6. Peer(Peer(c)) \in Client /\ Peer(Peer(c)) # Peer(c)
  BY <1>3 DEF Peer
<1> QED
  BY <1>3, <1>5, <1>6

LEMMA TokensNat == Tokens \in Nat /\ Token = 1..Tokens /\ \A t \in Token : t \in Nat /\ t > 0
<1>1. IsFiniteSet(Opener)
  BY ConnectionAssumption, FS_Subset
<1>2. Cardinality(Opener) \in Nat /\ Opens \in Nat
  BY <1>1, FS_CardinalityType, ConnectionAssumption
<1>3. Tokens \in Nat
  BY <1>2 DEF Tokens
<1> QED
  BY <1>3 DEF Token

DueOf(records) == {m \in ToHost : m.token \in Token /\ m.kind \in Owable /\ m.kind \in records[m.token].owes}

LEMMA OwedOne ==
  ASSUME NEW records \in [Token -> Local], NEW t \in Token, NEW refused
  PROVE  OwedOf(records[t], t, refused) \in Seq(DueOf(records))
<1> DEFINE r == records[t]
           S == DueOf(records)
<1>1. /\ Decision(t, r.phase # "closing") \in ToHost /\ Msg("Ready", t) \in ToHost
      /\ Msg("Close", t) \in ToHost /\ Msg("Quiescent", t) \in ToHost
  BY DEF Decision, Msg, ToHost, ToHostKinds
<1>2. ASSUME NEW m \in ToHost, m.token = t, m.kind \in Owable
      PROVE  Due(r, m, refused) \in Seq(S)
  <2>1. m.kind \in r.owes => m \in S
    BY <1>2 DEF DueOf
  <2> HIDE DEF S
  <2>2. << >> \in Seq(S) /\ (m \in S => << m >> \in Seq(S))
    OBVIOUS
  <2> QED BY <2>1, <2>2 DEF Due
<1>3. /\ Decision(t, r.phase # "closing").token = t /\ Decision(t, r.phase # "closing").kind \in Owable
      /\ Msg("Ready", t).token = t /\ Msg("Ready", t).kind \in Owable
      /\ Msg("Close", t).token = t /\ Msg("Close", t).kind \in Owable
      /\ Msg("Quiescent", t).token = t /\ Msg("Quiescent", t).kind \in Owable
  BY DEF Decision, Msg, Owable
<1> HIDE DEF S
<1>4. \A a, b \in Seq(S) : a \o b \in Seq(S)
  OBVIOUS
<1>5. /\ Due(r, Decision(t, r.phase # "closing"), refused) \in Seq(S)
      /\ Due(r, Msg("Ready", t), refused) \in Seq(S)
      /\ Due(r, Msg("Close", t), refused) \in Seq(S)
      /\ Due(r, Msg("Quiescent", t), refused) \in Seq(S)
  BY <1>1, <1>2, <1>3
<1> QED
  BY <1>4, <1>5 DEF OwedOf, S

\* Whatever progress() sends is owed by the record it names.
LEMMA SendableDue ==
  ASSUME NEW records \in [Token -> Local], NEW refused
  PROVE  Sendable(records, refused) \in Seq(DueOf(records))
<1> DEFINE S == DueOf(records)
           Next1(f, t) == IF t = 0 THEN << >> ELSE f[t - 1] \o OwedOf(records[t], t, refused)
           Upto(n, f) == f = [t \in 0..n |-> Next1(f, t)]
<1>1. Tokens \in Nat /\ Token = 1..Tokens
  BY TokensNat
<1>2. \E f : Upto(Tokens, f)
  <2> DEFINE Some(n) == \E f : Upto(n, f)
             T == {n \in Nat : Some(n)}
  <2>1. 0 \in T
    <3> DEFINE f == [t \in 0..0 |-> << >>]
    <3>1. Upto(0, f)
      OBVIOUS
    <3>2. Some(0)
      BY <3>1
    <3> HIDE DEF Some
    <3> QED BY <3>2
  <2>2. ASSUME NEW n \in Nat, n \in T PROVE n + 1 \in T
    <3>1. PICK f : Upto(n, f)
      BY <2>2
    <3> DEFINE g == [t \in 0..(n + 1) |-> IF t <= n THEN f[t] ELSE f[n] \o OwedOf(records[n + 1], n + 1, refused)]
    <3>2. \A t \in 0..(n + 1) : g[t] = Next1(g, t)
      <4> SUFFICES ASSUME NEW t \in 0..(n + 1) PROVE g[t] = Next1(g, t)
        OBVIOUS
      <4>1. CASE t = 0
        BY <3>1, <4>1
      <4>2. CASE t # 0 /\ t <= n
        <5>1. t \in 0..n /\ t - 1 \in 0..n /\ t - 1 \in 0..(n + 1) /\ t - 1 <= n
          BY <4>2
        <5>2. g[t] = f[t] /\ g[t - 1] = f[t - 1] /\ f[t] = Next1(f, t)
          BY <3>1, <4>2, <5>1
        <5> QED BY <4>2, <5>2
      <4>3. CASE t = n + 1
        <5>1. t # 0 /\ t - 1 = n /\ n \in 0..(n + 1) /\ ~(t <= n)
          BY <4>3
        <5>2. g[t] = f[n] \o OwedOf(records[n + 1], n + 1, refused)
          BY <5>1
        <5>3. g[n] = f[n]
          BY <5>1
        <5>4. Next1(g, t) = g[n] \o OwedOf(records[n + 1], n + 1, refused)
          <6> HIDE DEF g
          <6> QED BY <4>3, <5>1
        <5> QED BY <5>2, <5>3, <5>4
      <4> QED BY <4>1, <4>2, <4>3
    <3>3. Upto(n + 1, g)
      BY <3>2
    <3>4. Some(n + 1)
      <4> HIDE DEF Upto, g
      <4> QED BY <3>3
    <3> HIDE DEF Some
    <3> QED BY <3>4
  <2> HIDE DEF T
  <2>3. Nat \subseteq T
    BY <2>1, <2>2, Inductive
  <2> QED BY <1>1, <2>3 DEF T
<1>3. PICK f : Upto(Tokens, f) /\ Sendable(records, refused) = f[Tokens]
  <2> DEFINE f == CHOOSE f : Upto(Tokens, f)
  <2>1. Upto(Tokens, f)
    <3> HIDE DEF Upto
    <3> QED BY <1>2
  <2>2. Sendable(records, refused) = f[Tokens]
    BY DEF Sendable
  <2> QED BY <2>1, <2>2
<1>4. f[Tokens] \in Seq(S)
  <2> DEFINE T == {n \in Nat : n <= Tokens => f[n] \in Seq(S)}
  <2>1. 0 \in T
    <3>1. 0 \in 0..Tokens
      BY <1>1
    <3>2. f[0] = Next1(f, 0)
      <4> HIDE DEF Next1
      <4> QED BY <1>3, <3>1
    <3>3. f[0] = << >>
      BY <3>2
    <3>4. f[0] \in Seq(S)
      <4> HIDE DEF S
      <4>1. << >> \in Seq(S)
        OBVIOUS
      <4> QED BY <3>3, <4>1
    <3> HIDE DEF S
    <3> QED BY <3>4
  <2>2. ASSUME NEW n \in Nat, n \in T PROVE n + 1 \in T
    <3> SUFFICES ASSUME n + 1 <= Tokens PROVE f[n + 1] \in Seq(S)
      OBVIOUS
    <3>1. n + 1 \in 0..Tokens /\ n + 1 \in Token /\ n + 1 # 0 /\ (n + 1) - 1 = n
      BY <1>1
    <3>2. f[n + 1] = f[n] \o OwedOf(records[n + 1], n + 1, refused)
      BY <1>3, <3>1
    <3>3. f[n] \in Seq(S)
      BY <1>1, <2>2
    <3>4. OwedOf(records[n + 1], n + 1, refused) \in Seq(S)
      BY <3>1, OwedOne
    <3> HIDE DEF S
    <3> QED BY <3>2, <3>3, <3>4
  <2> HIDE DEF T
  <2>3. Nat \subseteq T
    BY <2>1, <2>2, Inductive
  <2> QED BY <1>1, <2>3 DEF T
<1> QED
  BY <1>3, <1>4

(* ------------------------------ the invariant --------------------------- *)

Opening(t) == Holds(t) /\ record.phase # "closing"

Over(t) == t <= issued /\ ~Opening(t) /\ \A c \in Client : ~Installed(to_client[c], local[c][t], t)

SteadyAt(c, t) == local[c][t].endpoint \/ local[c][t].phase = "closing" \/ c \in terminal \/ Over(t)

Unoffered(c, t) == Holds(t) /\ record.phase = "offered" /\ ~record.offered /\ record.second = c

Known(c, t) ==
    [opening |-> Opening(t),
     exposed |-> Holds(t) /\ record.side[c].exposed /\ ~record.side[c].quiescent,
     ready   |-> Holds(t) /\ record.side[c].ready,
     over    |-> Over(t),
     gone    |-> c \in terminal,
     peer    |-> SteadyAt(Peer(c), t),
     unknown |-> t > issued \/ Unoffered(c, t)]

Views ==
    \A c \in Client : \A t \in Token :
        View(Known(c, t), to_client[c], to_host[c], local[c][t], t)

\* Nothing reaches a thread that has ended, and it holds nothing.
Gone == \A c \in terminal : to_client[c] = << >> /\ \A t \in Token : local[c][t] = NoLocal

\* A side is exposed, ready, closed and retired in the order of the phases, and
\* no side is retired before every side is quiescent.
SideInOrder(r, c) ==
    /\ r.phase = "offered" => ~r.side[c].exposed
    /\ r.phase # "closing" => /\ ~r.side[c].quiescent /\ ~r.side[c].closing_sent
                              /\ ~r.side[c].retired_sent
    /\ r.phase = "active" => r.side[c].ready
    /\ r.side[c].retired_sent => ~r.side[c].slot /\ \A d \in Client : r.side[d].quiescent

InOrder(r) == r # NoRecord => \A c \in Client : SideInOrder(r, c)

\* A token is issued for a request that was made.
Counted ==
    /\ \A c \in Client : opened[c] <= (IF c \in Opener THEN Opens ELSE 0)
    /\ \A c \in Client : issued + Count(to_host[c], "Request") + Count(to_host[Peer(c)], "Request")
                           <= opened[c] + opened[Peer(c)]
    /\ record # NoRecord => record.token <= issued

IInv == Typed /\ Gone /\ InOrder(record) /\ Counted /\ OneAnswer /\ Views

LEMMA KnownFacts ==
  ASSUME Typed, NEW c \in Client, NEW t \in Token
  PROVE  /\ Known(c, t) \in Facts
         /\ Known(c, t).opening = Opening(t)
         /\ Known(c, t).exposed = (Holds(t) /\ record.side[c].exposed /\ ~record.side[c].quiescent)
         /\ Known(c, t).ready = (Holds(t) /\ record.side[c].ready)
         /\ Known(c, t).over = Over(t)
         /\ Known(c, t).gone = (c \in terminal)
         /\ Known(c, t).peer = SteadyAt(Peer(c), t)
         /\ Known(c, t).unknown = (t > issued \/ Unoffered(c, t))
<1>1. Opening(t) \in BOOLEAN /\ Over(t) \in BOOLEAN /\ SteadyAt(Peer(c), t) \in BOOLEAN
      /\ (t > issued \/ Unoffered(c, t)) \in BOOLEAN
  BY DEF Opening, Over, SteadyAt, Unoffered
<1>2. /\ (Holds(t) /\ record.side[c].exposed /\ ~record.side[c].quiescent) \in BOOLEAN
      /\ (Holds(t) /\ record.side[c].ready) \in BOOLEAN
      /\ (c \in terminal) \in BOOLEAN
  BY DEF Holds
<1> QED
  BY <1>1, <1>2 DEF Known, Facts

LEMMA KnownFactsPrimed ==
  ASSUME Typed', NEW c \in Client, NEW t \in Token
  PROVE  /\ Known(c, t)' \in Facts
         /\ Known(c, t)'.opening = Opening(t)'
         /\ Known(c, t)'.exposed = (Holds(t)' /\ record'.side[c].exposed /\ ~record'.side[c].quiescent)
         /\ Known(c, t)'.ready = (Holds(t)' /\ record'.side[c].ready)
         /\ Known(c, t)'.over = Over(t)'
         /\ Known(c, t)'.gone = (c \in terminal')
         /\ Known(c, t)'.peer = SteadyAt(Peer(c), t)'
         /\ Known(c, t)'.unknown = (t > issued' \/ Unoffered(c, t)')
<1>1. Opening(t)' \in BOOLEAN /\ Over(t)' \in BOOLEAN /\ SteadyAt(Peer(c), t)' \in BOOLEAN
      /\ (t > issued' \/ Unoffered(c, t)') \in BOOLEAN
  BY DEF Opening, Over, SteadyAt, Unoffered
<1>2. /\ (Holds(t)' /\ record'.side[c].exposed /\ ~record'.side[c].quiescent) \in BOOLEAN
      /\ (Holds(t)' /\ record'.side[c].ready) \in BOOLEAN
      /\ (c \in terminal') \in BOOLEAN
  BY DEF Holds
<1> QED
  BY <1>1, <1>2 DEF Known, Facts

LEMMA LocalTyped ==
  ASSUME Typed, NEW c \in Client
  PROVE  /\ to_client[c] \in Seq(ToClient) /\ to_host[c] \in Seq(ToHost)
         /\ local[c] \in [Token -> Local] /\ \A t \in Token : local[c][t] \in Local
BY DEF Typed

LEMMA NoLocalTyped == NoLocal \in Local
BY DEF NoLocal, Local, Owable

\* A step of a client: what it may hold and send of each token is a move.
ClientChange(c, q1, out1, records) ==
    /\ q1 \in Seq(ToClient) /\ out1 \in Seq(ToHost) /\ records \in [Token -> Local]
    /\ to_client' = [to_client EXCEPT ![c] = q1]
    /\ to_host' = [to_host EXCEPT ![c] = out1]
    /\ local' = [local EXCEPT ![c] = records]
    /\ UNCHANGED <<hostVars, terminal>>
    /\ \A t \in Token : Moved(Known(c, t), to_client[c], q1, out1, local[c][t], records[t], t)

LEMMA ClientKeepsViews ==
  ASSUME IInv, Typed', NEW c \in Client, NEW q1, NEW out1, NEW records,
         ClientChange(c, q1, out1, records)
  PROVE  Views'
<1>0. Typed /\ Views /\ terminal' = terminal /\ record' = record /\ issued' = issued
  BY DEF IInv, ClientChange, hostVars
<1>1. /\ to_client'[c] = q1 /\ to_host'[c] = out1 /\ local'[c] = records
      /\ \A d \in Client : d # c => /\ to_client'[d] = to_client[d] /\ to_host'[d] = to_host[d]
                                    /\ local'[d] = local[d]
  BY <1>0 DEF ClientChange, Typed
<1>2. ASSUME NEW t \in Token
      PROVE  \A d \in Client : View(Known(d, t)', to_client'[d], to_host'[d], local'[d][t], t)
  <2> DEFINE g == Known(c, t)
             r == local[c][t]
             r1 == records[t]
  <2>0. Moved(g, to_client[c], q1, out1, r, r1, t)
    BY DEF ClientChange
  <2>1. /\ g \in Facts /\ g.gone = (c \in terminal) /\ g.over = Over(t)
    BY <1>0, KnownFacts
  <2>2. /\ View(g, q1, out1, r1, t)
        /\ Installed(q1, r1, t) => Installed(to_client[c], r, t)
        /\ Steady(g, r) => Steady(g, r1)
    BY <2>0 DEF Moved
  <2>3. Opening(t)' = Opening(t) /\ Holds(t)' = Holds(t) /\ \A d : Unoffered(d, t)' = Unoffered(d, t)
    BY <1>0 DEF Opening, Holds, Unoffered
  <2>4. \A d \in Client : Installed(to_client'[d], local'[d][t], t) => Installed(to_client[d], local[d][t], t)
    <3> SUFFICES ASSUME NEW d \in Client
                 PROVE  Installed(to_client'[d], local'[d][t], t) => Installed(to_client[d], local[d][t], t)
      OBVIOUS
    <3>1. CASE d = c
      BY <1>1, <2>2, <3>1
    <3>2. CASE d # c
      BY <1>1, <3>2
    <3> QED BY <3>1, <3>2
  <2>5. Over(t) => Over(t)'
    BY <1>0, <2>3, <2>4 DEF Over
  <2>6. SteadyAt(c, t) => SteadyAt(c, t)'
    BY <1>0, <1>1, <2>1, <2>2, <2>5 DEF SteadyAt, Steady
  <2>7. \A d \in Client : SteadyAt(d, t) => SteadyAt(d, t)'
    <3> SUFFICES ASSUME NEW d \in Client PROVE SteadyAt(d, t) => SteadyAt(d, t)'
      OBVIOUS
    <3>1. CASE d = c
      BY <2>6, <3>1
    <3>2. CASE d # c
      BY <1>0, <1>1, <2>5, <3>2 DEF SteadyAt
    <3> QED BY <3>1, <3>2
  <2> HIDE DEF g, r, r1
  <2> SUFFICES ASSUME NEW d \in Client
               PROVE  View(Known(d, t)', to_client'[d], to_host'[d], local'[d][t], t)
    OBVIOUS
  <2>8. View(Known(d, t), to_client'[d], to_host'[d], local'[d][t], t)
    <3>1. CASE d = c
      BY <1>1, <2>2, <3>1 DEF g, r1
    <3>2. CASE d # c
      BY <1>0, <1>1, <3>2 DEF Views
    <3> QED BY <3>1, <3>2
  <2>9. local'[d][t] \in Local
    BY DEF Typed
  <2>10. Milder(Known(d, t), Known(d, t)', to_client'[d], to_host'[d], local'[d][t], t)
    <3>1. Installed(to_client'[d], local'[d][t], t) => Known(d, t).exposed
      BY <2>8 DEF View
    <3>2. Peer(d) \in Client
      BY Peers
    <3> QED BY <1>0, <2>3, <2>5, <2>7, <3>1, <3>2, KnownFacts, KnownFactsPrimed DEF Milder
  <2>11. Known(d, t) \in Facts /\ Known(d, t)' \in Facts
    BY <1>0, KnownFacts, KnownFactsPrimed
  <2> DEFINE G1 == Known(d, t)
             G2 == Known(d, t)'
             Q == to_client'[d]
             O == to_host'[d]
             R == local'[d][t]
  <2> HIDE DEF G1, G2, Q, O, R
  <2>12. View(G1, Q, O, R, t) /\ Milder(G1, G2, Q, O, R, t) /\ G1 \in Facts /\ G2 \in Facts /\ R \in Local
    BY <2>8, <2>9, <2>10, <2>11 DEF G1, G2, Q, O, R
  <2>13. View(G2, Q, O, R, t)
    BY <2>12, ViewMilder
  <2> QED BY <2>13 DEF G2, Q, O, R
<1> QED
  BY <1>2 DEF Views

\* A step of the Host: it may read a message of c, and sends some.
Read1(c, out1) == out1 = to_host[c] \/ (to_host[c] # << >> /\ out1 = Tail(to_host[c]))

ExposedAt(r, d, t) == r # NoRecord /\ r.token = t /\ r.side[d].exposed /\ ~r.side[d].quiescent

ReadyAt(r, d, t) == r # NoRecord /\ r.token = t /\ r.side[d].ready

Told(d, s, t) ==
    /\ On(s, "Install", t) => ExposedAt(record', d, t) /\ Opening(t)' /\ ~On(s, "Closing", t)
    /\ On(s, "Offer", t) => /\ Untouched(to_client[d], to_host[d], local[d][t], t)
                            /\ ~ReadyAt(record', d, t) /\ Len(s) <= 1
    /\ On(s, "Closing", t) => ~Opening(t)'
    /\ On(s, "Retired", t) => ~Opening(t)' /\ \A e \in Client : ~Installed(to_client[e], local[e][t], t)
    /\ On(s, "Activate", t) => SteadyAt(Peer(d), t)
    /\ t > issued \/ Unoffered(d, t)' => Absent(s, t)

HostChange(c, out1, sent) ==
    /\ Read1(c, out1) /\ sent \in [Client -> Seq(ToClient)]
    /\ to_host' = [to_host EXCEPT ![c] = out1]
    /\ to_client' = [d \in Client |-> to_client[d] \o sent[d]]
    /\ UNCHANGED <<local, terminal, issued>>
    /\ \A t \in Token : Opening(t)' => Opening(t)
    /\ \A d \in Client : \A t \in Token :
         /\ Unoffered(d, t)' => Unoffered(d, t)
         /\ ReadyAt(record', d, t) => ReadyAt(record, d, t) \/ On(to_host[d], "Ready", t)
         /\ ExposedAt(record, d, t) /\ Installed(to_client[d], local[d][t], t) => ExposedAt(record', d, t)
         /\ Told(d, sent[d], t)

LEMMA HostKeepsViews ==
  ASSUME IInv, Typed', NEW c \in Client, NEW out1, NEW sent, HostChange(c, out1, sent)
  PROVE  Views'
<1>0. /\ Typed /\ Views /\ terminal' = terminal /\ local' = local /\ issued' = issued
      /\ sent \in [Client -> Seq(ToClient)]
      /\ \A d \in Client : to_client'[d] = to_client[d] \o sent[d]
  BY DEF IInv, HostChange
<1>1. \A d \in Client : \A t : /\ \A k : On(to_host'[d], k, t) => On(to_host[d], k, t)
                               /\ Absent(to_host[d], t) => Absent(to_host'[d], t)
  <2> SUFFICES ASSUME NEW d \in Client, NEW t
               PROVE  /\ \A k : On(to_host'[d], k, t) => On(to_host[d], k, t)
                      /\ Absent(to_host[d], t) => Absent(to_host'[d], t)
    OBVIOUS
  <2>1. to_host[d] \in Seq(ToHost) /\ to_host[c] \in Seq(ToHost)
    BY <1>0, LocalTyped
  <2>2. to_host'[d] = to_host[d] \/ (to_host[d] # << >> /\ to_host'[d] = Tail(to_host[d]))
    BY <1>0 DEF HostChange, Read1, Typed
  <2> QED BY <2>1, <2>2, OnTail
<1>2. ASSUME NEW t \in Token
      PROVE  \A d \in Client : View(Known(d, t)', to_client'[d], to_host'[d], local'[d][t], t)
  <2>1. \A d \in Client : Told(d, sent[d], t)
    BY DEF HostChange
  <2>2. \A d \in Client : \A k : On(to_client'[d], k, t) <=> On(to_client[d], k, t) \/ On(sent[d], k, t)
    <3> SUFFICES ASSUME NEW d \in Client
                 PROVE  \A k : On(to_client'[d], k, t) <=> On(to_client[d], k, t) \/ On(sent[d], k, t)
      OBVIOUS
    <3>1. to_client[d] \in Seq(ToClient) /\ sent[d] \in Seq(ToClient)
      BY <1>0, LocalTyped
    <3>2. \A k : On(to_client[d] \o sent[d], k, t) <=> On(to_client[d], k, t) \/ On(sent[d], k, t)
      BY <3>1, OnConcat
    <3> QED BY <1>0, <3>2
  <2>3. Opening(t)' => Opening(t)
    BY DEF HostChange
  <2>4. ~Opening(t)' /\ (\A d \in Client : ~Installed(to_client[d], local[d][t], t)) /\ t <= issued => Over(t)'
    BY <1>0, <2>1, <2>2 DEF Over, Told, Installed
  <2>5. Over(t) => Over(t)'
    BY <2>3, <2>4 DEF Over
  <2>6. \A d \in Client : SteadyAt(d, t) => SteadyAt(d, t)'
    BY <1>0, <2>5 DEF SteadyAt
  <2> SUFFICES ASSUME NEW d \in Client
               PROVE  View(Known(d, t)', to_client'[d], to_host'[d], local'[d][t], t)
    OBVIOUS
  <2> DEFINE G1 == Known(d, t)
             G2 == Known(d, t)'
             Q == to_client[d]
             O1 == to_host[d]
             O2 == to_host'[d]
             R == local[d][t]
             S == sent[d]
  <2>7. /\ G1 \in Facts /\ G2 \in Facts /\ R \in Local /\ Q \in Seq(ToClient) /\ S \in Seq(ToClient)
        /\ View(G1, Q, O1, R, t)
    BY <1>0, KnownFacts, KnownFactsPrimed, LocalTyped DEF Views
  <2>8. Peer(d) \in Client
    BY Peers
  <2>9. /\ Unoffered(d, t)' => Unoffered(d, t)
        /\ ReadyAt(record', d, t) => ReadyAt(record, d, t) \/ On(to_host[d], "Ready", t)
        /\ ExposedAt(record, d, t) /\ Installed(to_client[d], local[d][t], t) => ExposedAt(record', d, t)
    BY DEF HostChange
  <2>10. /\ G1.exposed = ExposedAt(record, d, t) /\ G2.exposed = ExposedAt(record', d, t)
         /\ G1.ready = ReadyAt(record, d, t) /\ G2.ready = ReadyAt(record', d, t)
         /\ G1.opening = Opening(t) /\ G2.opening = Opening(t)'
         /\ G1.over = Over(t) /\ G2.over = Over(t)'
         /\ G1.gone = (d \in terminal) /\ G2.gone = (d \in terminal)
         /\ G1.peer = SteadyAt(Peer(d), t) /\ G2.peer = SteadyAt(Peer(d), t)'
         /\ G1.unknown = (t > issued \/ Unoffered(d, t)) /\ G2.unknown = (t > issued \/ Unoffered(d, t)')
    BY <1>0, KnownFacts, KnownFactsPrimed DEF ExposedAt, ReadyAt, Holds
  <2>11. Milder(G1, G2, Q, O1, R, t)
    <3>1. Installed(Q, R, t) => G1.exposed
      BY <2>7 DEF View
    <3> HIDE DEF G1, G2
    <3> QED BY <2>3, <2>5, <2>6, <2>8, <2>9, <2>10, <3>1 DEF Milder
  <2>12. View(G2, Q, O2, R, t)
    <3>1. (\A k : On(O2, k, t) => On(O1, k, t)) /\ (Absent(O1, t) => Absent(O2, t))
      BY <1>1
    <3> HIDE DEF G1, G2, Q, O1, O2, R
    <3> QED BY <2>7, <2>11, <3>1, ViewMilder
  <2>13. Tellable(G2, Q, O2, R, S, t)
    <3>1. Untouched(Q, O1, R, t) => Untouched(Q, O2, R, t)
      BY <1>1 DEF Untouched
    <3>2. Told(d, S, t)
      BY <2>1
    <3>3. ASSUME On(S, "Retired", t)
          PROVE  Over(t)'
      <4>1. t <= issued
        <5>1. ~Absent(S, t)
          BY <3>3 DEF On, Absent
        <5>2. issued \in Nat /\ t \in Nat
          BY <1>0, TokensNat DEF Typed
        <5> QED BY <3>2, <5>1, <5>2 DEF Told
      <4> QED BY <2>4, <3>2, <3>3, <4>1 DEF Told
    <3> HIDE DEF G1, G2, S
    <3> QED BY <2>6, <2>8, <2>10, <3>1, <3>2, <3>3 DEF Tellable, Told
  <2>14. View(G2, Q \o S, O2, R, t)
    <3> HIDE DEF G1, G2, Q, O1, O2, R, S
    <3> QED BY <2>7, <2>12, <2>13, ViewTold
  <2>15. local'[d][t] = R /\ to_client'[d] = Q \o S
    BY <1>0
  <2> QED BY <2>14, <2>15
<1> QED
  BY <1>2 DEF Views

(* ------------------------------- counting ------------------------------- *)

Places(q, k) == {i \in 1..Len(q) : q[i].kind = k}

LEMMA CountPlaces ==
  ASSUME NEW M, NEW q \in Seq(M), NEW k
  PROVE  /\ Count(q, k) = Cardinality(Places(q, k))
         /\ IsFiniteSet(Places(q, k)) /\ Count(q, k) \in Nat
<1>1. DOMAIN q = 1..Len(q) /\ Len(q) \in Nat
  OBVIOUS
<1>2. Count(q, k) = Cardinality(Places(q, k))
  BY <1>1 DEF Count, Places
<1>3. IsFiniteSet(1..Len(q)) /\ Places(q, k) \subseteq 1..Len(q)
  BY <1>1, FS_Interval DEF Places
<1> QED
  BY <1>2, <1>3, FS_Subset, FS_CardinalityType

LEMMA CountEmpty == \A k : Count(<< >>, k) = 0
<1> SUFFICES ASSUME NEW k PROVE Count(<< >>, k) = 0
  OBVIOUS
<1>1. << >> \in Seq({}) /\ Len(<< >>) = 0
  OBVIOUS
<1>2. Places(<< >>, k) = {}
  BY <1>1 DEF Places
<1>3. Count(<< >>, k) = Cardinality(Places(<< >>, k))
  BY <1>1, CountPlaces
<1> QED
  BY <1>2, <1>3, FS_EmptySet

LEMMA CountTail ==
  ASSUME NEW M, NEW q \in Seq(M), q # << >>, NEW k
  PROVE  /\ Count(q, k) \in Nat /\ Count(Tail(q), k) \in Nat
         /\ Head(q).kind = k => Count(q, k) = Count(Tail(q), k) + 1
         /\ Head(q).kind # k => Count(q, k) = Count(Tail(q), k)
<1> DEFINE n == Len(q)
           s == Tail(q)
           T == Places(q, k)
           U == Places(s, k)
           R == T \ {1}
           f == [j \in U |-> j + 1]
<1>1. /\ n \in Nat /\ n >= 1 /\ s \in Seq(M) /\ Len(s) = n - 1 /\ Head(q) = q[1]
      /\ \A i \in 1..(n - 1) : s[i] = q[i + 1]
  OBVIOUS
<1>2. /\ IsFiniteSet(T) /\ Count(q, k) = Cardinality(T) /\ Cardinality(T) \in Nat
      /\ IsFiniteSet(U) /\ Count(s, k) = Cardinality(U) /\ Cardinality(U) \in Nat
  BY <1>1, CountPlaces, FS_CardinalityType
<1> HIDE DEF s
<1>3. \A j \in U : j \in 1..(n - 1) /\ j + 1 \in R
  BY <1>1 DEF Places
<1>4. \A i \in R : i - 1 \in U /\ (i - 1) + 1 = i
  BY <1>1 DEF Places
<1>5. 1 \in T <=> Head(q).kind = k
  BY <1>1 DEF Places
<1> HIDE DEF T, U
<1>6. f \in [U -> R]
  BY <1>3
<1>7. \A i, j \in U : f[i] = f[j] => i = j
  BY <1>3
<1>8. \A y \in R : \E j \in U : f[j] = y
  BY <1>4
<1>9. f \in Bijection(U, R)
  BY <1>6, <1>7, <1>8 DEF Bijection, Injection, Surjection, IsInjective
<1>10. IsFiniteSet(R) /\ Cardinality(R) = Cardinality(U)
  <2>1. ExistsBijection(U, R)
    BY <1>9 DEF ExistsBijection
  <2> QED BY <1>2, <2>1, FS_Bijection
<1>11. Cardinality(R) = IF 1 \in T THEN Cardinality(T) - 1 ELSE Cardinality(T)
  BY <1>2, FS_RemoveElement
<1> QED
  BY <1>2, <1>5, <1>10, <1>11 DEF s

LEMMA CountConcat ==
  ASSUME NEW M, NEW q \in Seq(M), NEW s \in Seq(M), NEW k
  PROVE  /\ Count(q \o s, k) \in Nat /\ Count(q, k) \in Nat
         /\ (\A i \in 1..Len(s) : s[i].kind # k) => Count(q \o s, k) = Count(q, k)
         /\ \A i \in 1..Len(s) : s[i].kind = k /\ (\A j \in 1..Len(s) : s[j].kind = k => j = i)
                => Count(q \o s, k) = Count(q, k) + 1
<1> DEFINE n == Len(q)
           m == Len(s)
           u == q \o s
           T == Places(q, k)
           U == Places(u, k)
<1>1. /\ n \in Nat /\ m \in Nat /\ u \in Seq(M) /\ Len(u) = n + m
      /\ \A i \in 1..n : u[i] = q[i]
      /\ \A i \in 1..m : u[i + n] = s[i]
  OBVIOUS
<1>2. /\ IsFiniteSet(T) /\ Count(q, k) = Cardinality(T) /\ Cardinality(T) \in Nat
      /\ Count(u, k) = Cardinality(U) /\ Cardinality(U) \in Nat
  BY <1>1, CountPlaces, FS_CardinalityType
<1> HIDE DEF u
<1>3. \A i \in 1..(n + m) : i \in 1..n \/ (i > n /\ i - n \in 1..m /\ u[i] = s[i - n])
  <2> SUFFICES ASSUME NEW i \in 1..(n + m), ~(i \in 1..n)
               PROVE  i > n /\ i - n \in 1..m /\ u[i] = s[i - n]
    OBVIOUS
  <2>1. i > n /\ i - n \in 1..m /\ (i - n) + n = i
    BY <1>1
  <2> QED BY <1>1, <2>1
<1>4. \A i \in 1..n : i \in 1..(n + m) /\ (i \in T <=> i \in U)
  BY <1>1 DEF Places
<1>5. ASSUME \A i \in 1..m : s[i].kind # k
      PROVE  T = U
  <2>1. \A i \in U : i \in 1..n
    BY <1>1, <1>3, <1>5 DEF Places
  <2>2. \A i \in T : i \in 1..n
    BY DEF Places
  <2> QED BY <1>4, <2>1, <2>2
<1>6. ASSUME NEW i \in 1..m, s[i].kind = k, \A j \in 1..m : s[j].kind = k => j = i
      PROVE  U = T \cup {i + n} /\ i + n \notin T
  <2>1. i + n \in 1..(n + m) /\ i + n > n /\ i + n \in U
    BY <1>1, <1>6 DEF Places
  <2>2. i + n \notin T
    BY <1>1, <2>1 DEF Places
  <2>3. ASSUME NEW j \in U, ~(j \in 1..n)
        PROVE  j = i + n
    <3>1. j \in 1..(n + m) /\ u[j].kind = k
      BY <1>1 DEF Places
    <3>2. j - n \in 1..m /\ s[j - n].kind = k
      BY <1>3, <2>3, <3>1
    <3>3. j - n = i
      BY <1>6, <3>2
    <3> QED BY <1>1, <3>1, <3>3
  <2>4. \A j \in T : j \in 1..n
    BY DEF Places
  <2> QED BY <1>4, <2>1, <2>2, <2>3, <2>4
<1> HIDE DEF T, U
<1>7. ASSUME NEW i \in 1..m, s[i].kind = k, \A j \in 1..m : s[j].kind = k => j = i
      PROVE  Cardinality(U) = Cardinality(T) + 1
  BY <1>2, <1>6, <1>7, FS_AddElement
<1> QED
  BY <1>2, <1>5, <1>7 DEF u

(* ------------------------------ steps of a client ----------------------- *)

Waits(status) == IF status \in {"pending", "cancelled"} THEN 1 ELSE 0

\* Requests that are made are counted, and the client waits for one more answer
\* exactly when one more is on its way.
Tally(c, q1, out1) ==
    /\ request' \in [Client -> Requests] /\ opened' \in [Client -> Nat]
    /\ \A d \in Client : d # c => request'[d] = request[d] /\ opened'[d] = opened[d]
    /\ opened'[c] <= (IF c \in Opener THEN Opens ELSE 0)
    /\ Count(out1, "Request") + opened[c] <= Count(to_host[c], "Request") + opened'[c]
    /\ ~failed => Count(out1, "Request") + Count(q1, "Result") + Waits(request[c])
                    = Count(to_host[c], "Request") + Count(to_client[c], "Result") + Waits(request'[c])

LEMMA ClientStepKeeps ==
  ASSUME IInv, NEW c \in Client, c \notin terminal, NEW q1, NEW out1, NEW records,
         ClientChange(c, q1, out1, records), Tally(c, q1, out1)
  PROVE  IInv'
<1>0. /\ Typed /\ Gone /\ InOrder(record) /\ Counted /\ OneAnswer /\ Views
  BY DEF IInv
<1>1. UNCHANGED <<record, issued, closed, failed, stop_requested, terminal>>
  BY DEF ClientChange, hostVars
<1>2. /\ to_client'[c] = q1 /\ to_host'[c] = out1 /\ local'[c] = records
      /\ \A d \in Client : d # c => /\ to_client'[d] = to_client[d] /\ to_host'[d] = to_host[d]
                                    /\ local'[d] = local[d]
  BY <1>0 DEF ClientChange, Typed
<1>3. Typed'
  <2>1. /\ to_host' \in [Client -> Seq(ToHost)] /\ to_client' \in [Client -> Seq(ToClient)]
        /\ local' \in [Client -> [Token -> Local]]
    BY <1>0 DEF ClientChange, Typed
  <2> QED BY <1>0, <1>1, <2>1 DEF Tally, Typed
<1>4. Gone'
  BY <1>0, <1>1, <1>2 DEF Gone, Typed
<1>5. InOrder(record)'
  BY <1>0, <1>1 DEF InOrder, SideInOrder
<1>6. \A d \in Client : /\ Count(to_host[d], "Request") \in Nat /\ Count(to_host'[d], "Request") \in Nat
                        /\ Count(to_client[d], "Result") \in Nat /\ Count(to_client'[d], "Result") \in Nat
  <2>1. \A d \in Client : to_host'[d] \in Seq(ToHost) /\ to_client'[d] \in Seq(ToClient)
    BY <1>3 DEF Typed
  <2> QED BY <1>0, <2>1, LocalTyped, CountPlaces
<1>7. Counted'
  <2>1. \A d \in Client : opened'[d] <= (IF d \in Opener THEN Opens ELSE 0)
    BY <1>0 DEF Tally, Counted
  <2>2. \A d \in Client : Count(to_host'[d], "Request") + opened[d] <= Count(to_host[d], "Request") + opened'[d]
    <3> SUFFICES ASSUME NEW d \in Client
                 PROVE  Count(to_host'[d], "Request") + opened[d] <= Count(to_host[d], "Request") + opened'[d]
      OBVIOUS
    <3>1. CASE d = c
      BY <1>2, <3>1 DEF Tally
    <3>2. CASE d # c
      <4>1. to_host'[d] = to_host[d] /\ opened'[d] = opened[d]
        BY <1>2, <3>2 DEF Tally
      <4> QED BY <1>0, <1>6, <4>1 DEF Typed
    <3> QED BY <3>1, <3>2
  <2>3. ASSUME NEW d \in Client
        PROVE  issued' + Count(to_host'[d], "Request") + Count(to_host'[Peer(d)], "Request")
                 <= opened'[d] + opened'[Peer(d)]
    <3> DEFINE e == Peer(d)
               a == Count(to_host[d], "Request")
               b == Count(to_host[e], "Request")
               a1 == Count(to_host'[d], "Request")
               b1 == Count(to_host'[e], "Request")
    <3>1. e \in Client
      BY Peers
    <3> HIDE DEF e
    <3>2. /\ a \in Nat /\ b \in Nat /\ a1 \in Nat /\ b1 \in Nat /\ issued \in Nat
          /\ opened[d] \in Nat /\ opened[e] \in Nat /\ opened'[d] \in Nat /\ opened'[e] \in Nat
          /\ issued + a + b <= opened[d] + opened[e]
          /\ a1 + opened[d] <= a + opened'[d] /\ b1 + opened[e] <= b + opened'[e]
      BY <1>0, <1>3, <1>6, <2>2, <3>1 DEF Typed, Counted, e
    <3> HIDE DEF a, b, a1, b1
    <3>3. issued + a1 + b1 <= opened'[d] + opened'[e]
      BY <3>2
    <3> QED BY <1>1, <3>3 DEF a1, b1, e
  <2> QED BY <1>0, <1>1, <2>1, <2>3 DEF Counted
<1>8. OneAnswer'
  <2> SUFFICES ASSUME ~failed, NEW d \in Client \ terminal
               PROVE  Count(to_host'[d], "Request") + Count(to_client'[d], "Result")
                        + (IF Answers(d) THEN 1 ELSE 0)
                        = IF request'[d] \in {"pending", "cancelled"} THEN 1 ELSE 0
    BY <1>1 DEF OneAnswer, Answers
  <2>1. Count(to_host[d], "Request") + Count(to_client[d], "Result") + (IF Answers(d) THEN 1 ELSE 0)
          = Waits(request[d])
    BY <1>0 DEF OneAnswer, Waits
  <2>2. CASE d # c
    BY <1>2, <2>1, <2>2 DEF Tally, Waits
  <2>3. CASE d = c
    <3> DEFINE a == Count(to_host[c], "Request")
               b == Count(to_client[c], "Result")
               a1 == Count(out1, "Request")
               b1 == Count(q1, "Result")
               z == IF Answers(c) THEN 1 ELSE 0
    <3>1. /\ a \in Nat /\ b \in Nat /\ a1 \in Nat /\ b1 \in Nat /\ z \in Nat
          /\ a + b + z = Waits(request[c])
          /\ a1 + b1 + Waits(request[c]) = a + b + Waits(request'[c])
          /\ Waits(request[c]) \in Nat /\ Waits(request'[c]) \in Nat
      BY <1>2, <1>6, <2>1, <2>3 DEF Tally, Waits
    <3> HIDE DEF a, b, a1, b1, z
    <3>2. a1 + b1 + z = Waits(request'[c])
      BY <3>1
    <3> QED BY <1>2, <2>3, <3>2 DEF a1, b1, z, Waits
  <2> QED BY <2>2, <2>3
<1>9. Views'
  BY <1>3, ClientKeepsViews
<1> QED
  BY <1>3, <1>4, <1>5, <1>7, <1>8, <1>9 DEF IInv

\* A client sends what its records owe, after some messages that nobody owes.
LEMMA OwedMoved ==
  ASSUME Typed, NEW c \in Client, NEW q1 \in Seq(ToClient), NEW records \in [Token -> Local],
         NEW extra \in Seq(ToHost), NEW refused,
         \A t \in Token : /\ Moved(Known(c, t), to_client[c], q1, to_host[c], local[c][t], records[t], t)
                          /\ Sayable(Known(c, t), q1, records[t], extra, t)
  PROVE  LET sent == Sendable(records, refused)
             paid == Paid(records, ToSet(sent))
         IN  /\ to_host[c] \o extra \o sent \in Seq(ToHost) /\ paid \in [Token -> Local]
             /\ \A i \in 1..Len(sent) : sent[i].kind # "Request"
             /\ sent \in Seq(ToHost)
             /\ \A t \in Token :
                  Moved(Known(c, t), to_client[c], q1, to_host[c] \o extra \o sent, local[c][t], paid[t], t)
<1> DEFINE sent == Sendable(records, refused)
           paid == Paid(records, ToSet(sent))
           out == to_host[c]
<1>1. sent \in Seq(DueOf(records))
  BY SendableDue
<1>2. /\ sent \in Seq(ToHost) /\ ToSet(sent) = {sent[i] : i \in 1..Len(sent)}
      /\ \A i \in 1..Len(sent) : sent[i] \in DueOf(records)
  <2> HIDE DEF sent
  <2>1. DueOf(records) \subseteq ToHost
    BY DEF DueOf
  <2> QED BY <1>1, <2>1 DEF ToSet
<1>3. \A i \in 1..Len(sent) : /\ sent[i].kind \in Owable /\ sent[i].token \in Token
                              /\ sent[i].kind \in records[sent[i].token].owes
  BY <1>2 DEF DueOf
<1> HIDE DEF sent
<1>4. out \in Seq(ToHost)
  BY LocalTyped
<1> HIDE DEF out
<1>5. out \o extra \in Seq(ToHost) /\ out \o extra \o sent \in Seq(ToHost)
  BY <1>2, <1>4
<1>6. ASSUME NEW t \in Token
      PROVE  paid[t] \in Local /\ Lighter(records[t], paid[t])
  <2> DEFINE kinds == {m.kind : m \in {n \in ToSet(sent) : n.token = t}}
  <2>1. paid[t] = [records[t] EXCEPT !.owes = @ \ kinds, !.quiescent = @ \/ "Quiescent" \in kinds]
    BY DEF Paid
  <2>2. records[t] \in Local
    OBVIOUS
  <2>3. records[t] = NoLocal => kinds = {}
    BY <1>2, <1>3 DEF NoLocal
  <2> HIDE DEF kinds
  <2>4. /\ paid[t].phase = records[t].phase /\ paid[t].endpoint = records[t].endpoint
        /\ paid[t].closing_seen = records[t].closing_seen /\ paid[t].owes = records[t].owes \ kinds
        /\ paid[t] \in Local
    BY <2>1, <2>2 DEF Local
  <2>5. ASSUME records[t] = NoLocal
        PROVE  paid[t] = NoLocal
    <3>1. paid[t] = [NoLocal EXCEPT !.owes = @ \ {}, !.quiescent = @ \/ "Quiescent" \in {}]
      BY <2>1, <2>3, <2>5
    <3>2. /\ NoLocal.owes \ {} = {}
          /\ (NoLocal.quiescent \/ "Quiescent" \in {}) = FALSE
      BY DEF NoLocal
    <3>3. paid[t] = [NoLocal EXCEPT !.owes = {}, !.quiescent = FALSE]
      BY <3>1, <3>2
    <3> QED BY <3>3 DEF NoLocal
  <2> QED BY <2>4, <2>5 DEF Lighter
<1>7. paid \in [Token -> Local]
  BY <1>6 DEF Paid
<1> HIDE DEF paid
<1>8. ASSUME NEW t \in Token
      PROVE  Moved(Known(c, t), to_client[c], q1, out \o extra \o sent, local[c][t], paid[t], t)
  <2> DEFINE g == Known(c, t)
             r == local[c][t]
             r0 == records[t]
             r1 == paid[t]
             q == to_client[c]
  <2>1. g \in Facts /\ r0 \in Local /\ r1 \in Local /\ Lighter(r0, r1)
    BY <1>6, KnownFacts
  <2>2. Moved(g, q, q1, out, r, r0, t) /\ Sayable(g, q1, r0, extra, t)
    BY DEF out
  <2>3. Sayable(g, q1, r0, sent, t)
    <3>1. \A k : On(sent, k, t) => k \in r0.owes
      BY <1>3 DEF On
    <3>2. g.unknown => r0 = NoLocal
      BY <2>2 DEF Moved, View, Untouched
    <3>3. r0 = NoLocal => Absent(sent, t)
      BY <1>3 DEF NoLocal, Absent
    <3> HIDE DEF g, r0
    <3> QED BY <3>1, <3>2, <3>3 DEF Sayable
  <2>4. Lighter(r0, r0)
    BY DEF Lighter
  <2> HIDE DEF g, r, r0, r1, q
  <2>5. /\ View(g, q1, out \o extra, r0, t)
        /\ Installed(q1, r0, t) => Installed(q, r, t)
        /\ Steady(g, r) => Steady(g, r0)
    BY <1>4, <2>1, <2>2, <2>4, ViewSent DEF Moved
  <2>6. /\ View(g, q1, out \o extra \o sent, r1, t)
        /\ Installed(q1, r1, t) => Installed(q1, r0, t)
        /\ Steady(g, r0) => Steady(g, r1)
    BY <1>2, <1>5, <2>1, <2>3, <2>5, ViewSent
  <2>7. Moved(g, q, q1, out \o extra \o sent, r, r1, t)
    BY <2>5, <2>6 DEF Moved
  <2> QED BY <2>7 DEF g, r, r1, q
<1>9. \A i \in 1..Len(sent) : sent[i].kind # "Request"
  BY <1>3 DEF Owable
<1> QED
  BY <1>2, <1>5, <1>7, <1>8, <1>9 DEF sent, paid, out

LEMMA SayNothing ==
  ASSUME NEW g, NEW q, NEW r, NEW t
  PROVE  Sayable(g, q, r, << >>, t)
BY DEF Sayable, On, Absent

LEMMA MovedSame ==
  ASSUME IInv, NEW c \in Client, NEW t \in Token
  PROVE  Moved(Known(c, t), to_client[c], to_client[c], to_host[c], local[c][t], local[c][t], t)
BY DEF IInv, Views, Moved

LEMMA MovedTaken ==
  ASSUME IInv, NEW c \in Client, NEW t \in Token, to_client[c] # << >>
  PROVE  Moved(Known(c, t), to_client[c], Tail(to_client[c]), to_host[c], local[c][t], local[c][t], t)
<1>1. /\ Known(c, t) \in Facts /\ to_client[c] \in Seq(ToClient) /\ local[c][t] \in Local
      /\ View(Known(c, t), to_client[c], to_host[c], local[c][t], t)
  BY KnownFacts, LocalTyped DEF IInv, Views
<1> QED
  BY <1>1, ViewTaken

\* The trailing progress() of a call, whatever came before it.
LEMMA SendKeeps ==
  ASSUME IInv, NEW c \in Client, c \notin terminal, NEW q1 \in Seq(ToClient),
         NEW records \in [Token -> Local], NEW extra \in Seq(ToHost),
         SendOwed(c, records, extra), to_client' = [to_client EXCEPT ![c] = q1],
         UNCHANGED <<hostVars, opened, terminal>>,
         request' \in [Client -> Requests], \A d \in Client : d # c => request'[d] = request[d],
         \A i \in 1..Len(extra) : extra[i].kind # "Request",
         failed \/ Count(q1, "Result") + Waits(request[c]) = Count(to_client[c], "Result") + Waits(request'[c]),
         \A t \in Token : /\ Moved(Known(c, t), to_client[c], q1, to_host[c], local[c][t], records[t], t)
                          /\ Sayable(Known(c, t), q1, records[t], extra, t)
  PROVE  IInv'
<1>0. Typed /\ Counted
  BY DEF IInv
<1>1. PICK refused : Send(c, records, extra, refused)
  BY DEF SendOwed
<1> DEFINE sent == Sendable(records, refused)
           paid == Paid(records, ToSet(sent))
           out1 == to_host[c] \o extra \o sent
<1>2. /\ out1 \in Seq(ToHost) /\ paid \in [Token -> Local] /\ sent \in Seq(ToHost)
      /\ \A i \in 1..Len(sent) : sent[i].kind # "Request"
      /\ \A t \in Token : Moved(Known(c, t), to_client[c], q1, out1, local[c][t], paid[t], t)
  BY <1>0, OwedMoved
<1>3. to_host' = [to_host EXCEPT ![c] = out1] /\ local' = [local EXCEPT ![c] = paid]
  BY <1>0, <1>1 DEF Send, Typed
<1>4. Count(out1, "Request") = Count(to_host[c], "Request") /\ Count(out1, "Request") \in Nat
  <2> DEFINE out == to_host[c]
             mid == out \o extra
  <2>1. out \in Seq(ToHost)
    BY <1>0, LocalTyped
  <2> HIDE DEF out, sent
  <2>2. mid \in Seq(ToHost) /\ Count(mid, "Request") = Count(out, "Request")
    BY <2>1, CountConcat
  <2> HIDE DEF mid
  <2>3. Count(mid \o sent, "Request") = Count(mid, "Request") /\ Count(mid \o sent, "Request") \in Nat
    BY <1>2, <2>2, CountConcat
  <2> QED BY <2>2, <2>3 DEF mid, out
<1> HIDE DEF sent, paid, out1
<1>5. ClientChange(c, q1, out1, paid)
  BY <1>2, <1>3 DEF ClientChange
<1>6. Tally(c, q1, out1)
  <2> DEFINE a == Count(q1, "Result")
             b == Count(to_client[c], "Result")
             x == Count(to_host[c], "Request")
             w == Waits(request[c])
             w1 == Waits(request'[c])
  <2>1. a \in Nat /\ b \in Nat /\ x \in Nat /\ w \in Nat /\ w1 \in Nat
    BY <1>0, LocalTyped, CountPlaces DEF Waits
  <2>2. failed \/ a + w = b + w1
    OBVIOUS
  <2> HIDE DEF a, b, x, w, w1
  <2>3. failed \/ x + a + w = x + b + w1
    BY <2>1, <2>2
  <2>4. opened' = opened /\ opened[c] \in Nat /\ opened' \in [Client -> Nat]
    BY <1>0 DEF Typed
  <2>5. opened[c] <= (IF c \in Opener THEN Opens ELSE 0)
    BY <1>0 DEF Counted
  <2> QED BY <1>4, <2>1, <2>3, <2>4, <2>5 DEF Tally, a, b, x, w, w1
<1> QED
  BY <1>5, <1>6, ClientStepKeeps

\* A message is taken, and the record it names is updated.
LEMMA UpdateKeeps ==
  ASSUME IInv, NEW c \in Client, NEW kind, Received(c, kind), NEW t \in Token, NEW r1 \in Local,
         Update(c, t, r1), UNCHANGED <<hostVars, opened, terminal>>,
         request' \in [Client -> Requests], \A d \in Client : d # c => request'[d] = request[d],
         failed \/ Waits(request'[c]) = Waits(request[c]) - (IF kind = "Result" THEN 1 ELSE 0),
         Moved(Known(c, t), to_client[c], Tail(to_client[c]), to_host[c], local[c][t], r1, t)
  PROVE  IInv'
<1> DEFINE q1 == Tail(to_client[c])
           records == [local[c] EXCEPT ![t] = r1]
<1>0. Typed
  BY DEF IInv
<1>1. /\ c \notin terminal /\ to_client[c] # << >> /\ Head(to_client[c]).kind = kind
      /\ to_client' = [to_client EXCEPT ![c] = q1]
  BY DEF Received, Alive
<1>2. to_client[c] \in Seq(ToClient) /\ q1 \in Seq(ToClient)
  <2>1. to_client[c] \in Seq(ToClient)
    BY <1>0, LocalTyped
  <2> QED BY <1>1, <2>1
<1>3. local[c] \in [Token -> Local] /\ records \in [Token -> Local]
  BY <1>0, LocalTyped
<1>4. SendOwed(c, records, << >>) /\ << >> \in Seq(ToHost)
  BY DEF Update
<1>5. ASSUME NEW u \in Token
      PROVE  /\ Moved(Known(c, u), to_client[c], q1, to_host[c], local[c][u], records[u], u)
             /\ Sayable(Known(c, u), q1, records[u], << >>, u)
  <2>1. CASE u = t
    BY <1>3, <2>1, SayNothing
  <2>2. CASE u # t
    BY <1>1, <1>3, <2>2, MovedTaken, SayNothing
  <2> QED BY <2>1, <2>2
<1>6. failed \/ Count(q1, "Result") + Waits(request[c]) = Count(to_client[c], "Result") + Waits(request'[c])
  <2> DEFINE a == Count(q1, "Result")
             b == Count(to_client[c], "Result")
  <2>1. /\ a \in Nat /\ b \in Nat /\ b = a + (IF kind = "Result" THEN 1 ELSE 0)
        /\ Waits(request[c]) \in Nat
    BY <1>1, <1>2, CountTail DEF Waits
  <2> HIDE DEF a, b
  <2> QED BY <2>1 DEF a, b
<1>7. \A i \in 1..Len(<< >>) : << >>[i].kind # "Request"
  OBVIOUS
<1> HIDE DEF q1, records
<1> QED
  BY <1>1, <1>2, <1>3, <1>4, <1>5, <1>6, <1>7, SendKeeps

\* A call that sends nothing.
LEMMA QuietKeeps ==
  ASSUME IInv, NEW c \in Client, c \notin terminal, NEW q1 \in Seq(ToClient), NEW records \in [Token -> Local],
         NEW s \in Seq(ToHost), \A i \in 1..Len(s) : s[i].kind # "Request",
         to_client' = [to_client EXCEPT ![c] = q1], to_host' = [to_host EXCEPT ![c] = @ \o s],
         local' = [local EXCEPT ![c] = records],
         UNCHANGED <<hostVars, opened, terminal>>,
         request' \in [Client -> Requests], \A d \in Client : d # c => request'[d] = request[d],
         failed \/ Count(q1, "Result") + Waits(request[c]) = Count(to_client[c], "Result") + Waits(request'[c]),
         \A t \in Token : Moved(Known(c, t), to_client[c], q1, to_host[c] \o s, local[c][t], records[t], t)
  PROVE  IInv'
<1>0. Typed /\ Counted
  BY DEF IInv
<1> DEFINE out1 == to_host[c] \o s
<1>1. out1 \in Seq(ToHost) /\ Count(out1, "Request") = Count(to_host[c], "Request")
      /\ Count(out1, "Request") \in Nat
  BY <1>0, LocalTyped, CountConcat
<1>2. to_host' = [to_host EXCEPT ![c] = out1]
  BY <1>0 DEF Typed
<1> HIDE DEF out1
<1>3. ClientChange(c, q1, out1, records)
  BY <1>1, <1>2 DEF ClientChange, out1
<1>4. Tally(c, q1, out1)
  <2> DEFINE a == Count(q1, "Result")
             b == Count(to_client[c], "Result")
             x == Count(to_host[c], "Request")
             w == Waits(request[c])
             w1 == Waits(request'[c])
  <2>1. a \in Nat /\ b \in Nat /\ x \in Nat /\ w \in Nat /\ w1 \in Nat
    BY <1>0, LocalTyped, CountPlaces DEF Waits
  <2>2. failed \/ a + w = b + w1
    OBVIOUS
  <2> HIDE DEF a, b, x, w, w1
  <2>3. failed \/ x + a + w = x + b + w1
    BY <2>1, <2>2
  <2>4. opened' = opened /\ opened[c] \in Nat /\ opened' \in [Client -> Nat]
    BY <1>0 DEF Typed
  <2>5. opened[c] <= (IF c \in Opener THEN Opens ELSE 0)
    BY <1>0 DEF Counted
  <2> QED BY <1>1, <2>1, <2>3, <2>4, <2>5 DEF Tally, a, b, x, w, w1
<1> QED
  BY <1>3, <1>4, ClientStepKeeps

\* A call of the application that changes its records.
LEMMA CallKeeps ==
  ASSUME IInv, NEW c \in Client, c \notin terminal, NEW records \in [Token -> Local],
         local' = [local EXCEPT ![c] = records],
         UNCHANGED <<to_host, to_client, hostVars, opened, terminal>>,
         request' \in [Client -> Requests], \A d \in Client : d # c => request'[d] = request[d],
         Waits(request[c]) = Waits(request'[c]),
         \A t \in Token : Moved(Known(c, t), to_client[c], to_client[c], to_host[c], local[c][t], records[t], t)
  PROVE  IInv'
<1>0. Typed
  BY DEF IInv
<1>1. to_client[c] \in Seq(ToClient) /\ to_host[c] \in Seq(ToHost)
  BY <1>0, LocalTyped
<1>2. << >> \in Seq(ToHost) /\ Len(<< >>) = 0 /\ to_host[c] \o << >> = to_host[c]
  BY <1>1
<1>3. to_client' = [to_client EXCEPT ![c] = to_client[c]] /\ to_host' = [to_host EXCEPT ![c] = @ \o << >>]
  BY <1>0, <1>2 DEF Typed
<1>4. failed \/ Count(to_client[c], "Result") + Waits(request[c]) = Count(to_client[c], "Result") + Waits(request'[c])
  OBVIOUS
<1>5. \A i \in 1..Len(<< >>) : << >>[i].kind # "Request"
  BY <1>2
<1>6. \A t \in Token : Moved(Known(c, t), to_client[c], to_client[c], to_host[c] \o << >>, local[c][t], records[t], t)
  BY <1>2
<1> QED
  BY <1>1, <1>2, <1>3, <1>4, <1>5, <1>6, QuietKeeps

LEMMA TakeResultKeeps ==
  ASSUME IInv, NEW c \in Client, take_result(c)
  PROVE  IInv'
<1>0. Typed
  BY DEF IInv
<1>1. /\ c \notin terminal /\ request[c] = "completed" /\ request' = [request EXCEPT ![c] = "none"]
      /\ UNCHANGED <<to_host, to_client, hostVars, local, opened, terminal>>
  BY DEF take_result, Alive
<1>2. /\ request' \in [Client -> Requests] /\ request'[c] = "none"
      /\ \A d \in Client : d # c => request'[d] = request[d]
  BY <1>0, <1>1 DEF Typed, Requests
<1>3. Waits(request[c]) = Waits(request'[c])
  BY <1>1, <1>2 DEF Waits
<1>4. local[c] \in [Token -> Local] /\ local' = [local EXCEPT ![c] = local[c]]
  BY <1>0, <1>1 DEF Typed
<1> QED
  BY <1>1, <1>2, <1>3, <1>4, MovedSame, CallKeeps

\* close() leaves a record that is closing, or the record as it is.
LEMMA ClosedMoved ==
  ASSUME IInv, NEW c \in Client, NEW t \in Token
  PROVE  /\ Closed(local[c][t]) \in Local
         /\ Moved(Known(c, t), to_client[c], to_client[c], to_host[c], local[c][t], Closed(local[c][t]), t)
<1> DEFINE g == Known(c, t)
           q == to_client[c]
           r == local[c][t]
           r1 == Closed(r)
<1>0. Typed
  BY DEF IInv
<1>1. g \in Facts /\ r \in Local /\ View(g, q, to_host[c], r, t)
  BY <1>0, KnownFacts, LocalTyped DEF IInv, Views
<1>2. CASE r.phase \in {"empty", "closing"}
  BY <1>1, <1>2, MovedSame DEF Closed
<1>3. CASE r.phase \notin {"empty", "closing"}
  <2>1. r1 = [r EXCEPT !.phase = "closing", !.owes = (@ \ {"Ready"}) \cup {"Close"}]
    BY <1>3 DEF Closed
  <2>2. /\ r1 \in Local /\ r1.phase = "closing" /\ r1.endpoint = r.endpoint
        /\ r1.closing_seen = r.closing_seen /\ ("Quiescent" \in r1.owes => "Quiescent" \in r.owes)
    <3> DEFINE owes == (r.owes \ {"Ready"}) \cup {"Close"}
    <3>1. r.owes \subseteq Owable
      BY <1>1 DEF Local
    <3>2. owes \in SUBSET Owable /\ ("Quiescent" \in owes => "Quiescent" \in r.owes)
      BY <3>1 DEF Owable
    <3>3. r1 = [r EXCEPT !.phase = "closing", !.owes = owes]
      BY <2>1
    <3> HIDE DEF owes, r1, r
    <3>4. r1 \in Local /\ r1.phase = "closing" /\ r1.endpoint = r.endpoint /\ r1.owes = owes
          /\ r1.closing_seen = r.closing_seen
      BY <1>1, <3>2, <3>3 DEF Local
    <3> QED BY <3>2, <3>4
  <2>3. r # NoLocal
    BY <1>3 DEF NoLocal
  <2>4. ~g.unknown /\ ~On(q, "Offer", t)
    BY <1>1, <2>3 DEF View, Untouched
  <2>5. Withdrawn(g, q, r, r1, t)
    BY <2>2 DEF Withdrawn
  <2> HIDE DEF g, q, r, r1
  <2>6. Moved(g, q, q, to_host[c], r, r1, t)
    BY <1>1, <2>2, <2>4, <2>5, ViewWithdrawn
  <2> QED BY <2>2, <2>6 DEF g, q, r, r1
<1> QED
  BY <1>2, <1>3

LEMMA CloseKeeps ==
  ASSUME IInv, NEW c \in Client, NEW t \in Token, close(c, t)
  PROVE  IInv'
<1>0. Typed
  BY DEF IInv
<1> DEFINE records == [local[c] EXCEPT ![t] = Closed(@)]
<1>1. c \notin terminal /\ UNCHANGED <<to_host, to_client, hostVars, opened, terminal, request>>
  BY DEF close, Alive
<1>2. local[c] \in [Token -> Local] /\ Closed(local[c][t]) \in Local
  BY <1>0, LocalTyped, ClosedMoved
<1>3. records \in [Token -> Local] /\ local' = [local EXCEPT ![c] = records]
  BY <1>0, <1>2 DEF close, Typed
<1>4. \A u \in Token : Moved(Known(c, u), to_client[c], to_client[c], to_host[c], local[c][u], records[u], u)
  BY <1>2, ClosedMoved, MovedSame
<1> HIDE DEF records
<1>5. request' \in [Client -> Requests] /\ request' = request
  BY <1>0, <1>1 DEF Typed
<1> QED
  BY <1>1, <1>3, <1>4, <1>5, CallKeeps

LEMMA CloseAllKeeps ==
  ASSUME IInv, NEW c \in Client, close_all(c)
  PROVE  IInv'
<1>0. Typed
  BY DEF IInv
<1> DEFINE records == [t \in Token |-> Closed(local[c][t])]
<1>1. /\ c \notin terminal /\ UNCHANGED <<to_host, to_client, hostVars, opened, terminal>>
      /\ request' = [request EXCEPT ![c] = IF @ = "pending" THEN "cancelled" ELSE @]
  BY DEF close_all, Alive
<1>2. records \in [Token -> Local]
  BY ClosedMoved
<1>3. local' = [local EXCEPT ![c] = records]
  BY <1>0 DEF close_all, Typed
<1>4. \A t \in Token : Moved(Known(c, t), to_client[c], to_client[c], to_host[c], local[c][t], records[t], t)
  BY ClosedMoved
<1>5. /\ request' \in [Client -> Requests] /\ \A d \in Client : d # c => request'[d] = request[d]
      /\ request'[c] = IF request[c] = "pending" THEN "cancelled" ELSE request[c]
  BY <1>0, <1>1 DEF Typed, Requests
<1>6. Waits(request[c]) = Waits(request'[c])
  BY <1>5 DEF Waits
<1> HIDE DEF records
<1> QED
  BY <1>1, <1>2, <1>3, <1>4, <1>5, <1>6, CallKeeps

LEMMA ProgressKeeps ==
  ASSUME IInv, NEW c \in Client, progress(c)
  PROVE  IInv'
<1>0. Typed
  BY DEF IInv
<1>1. /\ c \notin terminal /\ SendOwed(c, local[c], << >>)
      /\ UNCHANGED <<to_client, hostVars, request, opened, terminal>>
  BY DEF progress, Alive
<1>2. /\ to_client[c] \in Seq(ToClient) /\ local[c] \in [Token -> Local] /\ << >> \in Seq(ToHost)
      /\ \A i \in 1..Len(<< >>) : << >>[i].kind # "Request"
  BY <1>0, LocalTyped
<1>3. to_client' = [to_client EXCEPT ![c] = to_client[c]] /\ request' \in [Client -> Requests]
  BY <1>0, <1>1 DEF Typed
<1> QED
  BY <1>1, <1>2, <1>3, MovedSame, SayNothing, SendKeeps

LEMMA QuiesceKeeps ==
  ASSUME IInv, NEW c \in Client, NEW t \in Token, quiesce(c, t)
  PROVE  IInv'
<1>0. Typed
  BY DEF IInv
<1> DEFINE records == [local[c] EXCEPT ![t] = Quiesced(@)]
           g == Known(c, t)
           q == to_client[c]
           r == local[c][t]
           r1 == Quiesced(r)
<1>1. /\ c \notin terminal /\ SendOwed(c, records, << >>) /\ r.phase = "closing" /\ r.closing_seen
      /\ UNCHANGED <<to_client, hostVars, request, opened, terminal>>
  BY DEF quiesce, Alive
<1>2. /\ to_client[c] \in Seq(ToClient) /\ local[c] \in [Token -> Local] /\ << >> \in Seq(ToHost)
      /\ \A i \in 1..Len(<< >>) : << >>[i].kind # "Request"
  BY <1>0, LocalTyped
<1>3. to_client' = [to_client EXCEPT ![c] = to_client[c]] /\ request' \in [Client -> Requests]
  BY <1>0, <1>1 DEF Typed
<1>4. /\ g \in Facts /\ r \in Local /\ View(g, q, to_host[c], r, t)
  BY <1>0, <1>2, KnownFacts DEF IInv, Views
<1>5. /\ r1 \in Local /\ r1.phase = "closing" /\ ~r1.endpoint /\ r1.closing_seen
  BY <1>1, <1>4 DEF Quiesced, Local, Owable
<1>6. ~On(q, "Install", t) /\ ~g.opening /\ ~Installed(q, r1, t)
  BY <1>1, <1>4, <1>5 DEF View, Installed
<1>7. ~g.unknown /\ ~On(q, "Offer", t)
  <2>1. r # NoLocal
    BY <1>1 DEF NoLocal
  <2> QED BY <1>4, <2>1 DEF View, Untouched
<1>8. Withdrawn(g, q, r, r1, t)
  BY <1>5, <1>6 DEF Withdrawn
<1>9. Moved(g, q, q, to_host[c], r, r1, t)
  <2> HIDE DEF g, q, r, r1
  <2> QED BY <1>4, <1>5, <1>7, <1>8, ViewWithdrawn
<1>10. records \in [Token -> Local]
  BY <1>2, <1>5
<1>11. \A u \in Token : /\ Moved(Known(c, u), to_client[c], to_client[c], to_host[c], local[c][u], records[u], u)
                        /\ Sayable(Known(c, u), to_client[c], records[u], << >>, u)
  BY <1>2, <1>9, MovedSame, SayNothing
<1> HIDE DEF records
<1> QED
  BY <1>1, <1>2, <1>3, <1>10, <1>11, SendKeeps


\* A message that names no token says nothing of any.
LEMMA SayAside ==
  ASSUME IInv, NEW c \in Client, NEW t \in Token, NEW s \in Seq(ToHost), Absent(s, t),
         NEW q1, NEW r1 \in Local,
         Moved(Known(c, t), to_client[c], q1, to_host[c], local[c][t], r1, t)
  PROVE  Moved(Known(c, t), to_client[c], q1, to_host[c] \o s, local[c][t], r1, t)
<1> DEFINE g == Known(c, t)
           q == to_client[c]
           out == to_host[c]
           r == local[c][t]
<1>1. g \in Facts /\ r \in Local /\ out \in Seq(ToHost)
  BY KnownFacts, LocalTyped DEF IInv
<1>2. Sayable(g, q1, r1, s, t) /\ Lighter(r1, r1)
  BY DEF Sayable, Absent, On, Lighter
<1> HIDE DEF g, q, r, out
<1>3. Moved(g, q, q1, out, r, r1, t)
  BY DEF g, q, r, out
<1>4. View(g, q1, out \o s, r1, t)
  BY <1>1, <1>2, <1>3, ViewSent DEF Moved
<1>5. Moved(g, q, q1, out \o s, r, r1, t)
  BY <1>3, <1>4 DEF Moved
<1> QED
  BY <1>5 DEF g, q, r, out

LEMMA OpenKeeps ==
  ASSUME IInv, NEW c \in Client, open(c)
  PROVE  IInv'
<1> DEFINE m == Msg("Request", NoToken)
           s == << m >>
           out1 == to_host[c] \o s
<1>0. Typed /\ Counted
  BY DEF IInv
<1>1. /\ c \notin terminal /\ request[c] = "none" /\ c \in Opener /\ opened[c] < Opens
      /\ to_host' = [to_host EXCEPT ![c] = Append(@, m)]
      /\ request' = [request EXCEPT ![c] = "pending"]
      /\ opened' = [opened EXCEPT ![c] = @ + 1]
      /\ UNCHANGED <<to_client, hostVars, local, terminal>>
  BY DEF open, Alive
<1>2. /\ to_client[c] \in Seq(ToClient) /\ to_host[c] \in Seq(ToHost) /\ local[c] \in [Token -> Local]
  BY <1>0, LocalTyped
<1>3. m \in ToHost /\ m.kind = "Request" /\ m.token = NoToken
  BY DEF Msg, ToHost, ToHostKinds
<1> HIDE DEF m
<1>4. /\ s \in Seq(ToHost) /\ Len(s) = 1 /\ s[1] = m /\ Append(to_host[c], m) = out1
      /\ out1 \in Seq(ToHost)
  BY <1>2, <1>3
<1>5. \A t \in Token : Absent(s, t)
  BY <1>3, <1>4, TokensNat DEF Absent, NoToken
<1>6. Count(out1, "Request") = Count(to_host[c], "Request") + 1 /\ Count(to_host[c], "Request") \in Nat
  <2> HIDE DEF s
  <2>1. 1 \in 1..Len(s) /\ s[1].kind = "Request" /\ \A j \in 1..Len(s) : j = 1
    BY <1>3, <1>4
  <2> QED BY <1>2, <1>4, <2>1, CountConcat
<1> HIDE DEF s
<1>7. \A t \in Token : Moved(Known(c, t), to_client[c], to_client[c], out1, local[c][t], local[c][t], t)
  BY <1>2, <1>4, <1>5, MovedSame, SayAside
<1> HIDE DEF out1
<1>8. ClientChange(c, to_client[c], out1, local[c])
  <2>1. /\ to_client' = [to_client EXCEPT ![c] = to_client[c]]
        /\ to_host' = [to_host EXCEPT ![c] = out1]
        /\ local' = [local EXCEPT ![c] = local[c]]
    BY <1>0, <1>1, <1>4 DEF Typed
  <2> QED BY <1>1, <1>2, <1>4, <1>7, <2>1 DEF ClientChange
<1>9. /\ request' \in [Client -> Requests] /\ opened' \in [Client -> Nat]
      /\ \A d \in Client : d # c => request'[d] = request[d] /\ opened'[d] = opened[d]
      /\ request'[c] = "pending" /\ opened'[c] = opened[c] + 1 /\ opened[c] \in Nat
  BY <1>0, <1>1 DEF Typed, Requests
<1>10. Opens \in Nat
  BY ConnectionAssumption
<1>11. Tally(c, to_client[c], out1)
  <2> DEFINE a == Count(to_client[c], "Result")
             x == Count(to_host[c], "Request")
             y == Count(out1, "Request")
  <2>1. a \in Nat /\ x \in Nat /\ y = x + 1 /\ Waits(request[c]) = 0 /\ Waits(request'[c]) = 1
    BY <1>1, <1>2, <1>6, <1>9, CountPlaces DEF Waits
  <2> HIDE DEF a, x, y
  <2>2. y + a + Waits(request[c]) = x + a + Waits(request'[c]) /\ y + opened[c] <= x + opened'[c]
    BY <1>9, <2>1
  <2> QED BY <1>1, <1>9, <1>10, <2>2 DEF Tally, a, x, y
<1> QED
  BY <1>1, <1>8, <1>11, ClientStepKeeps

(* ------------------------------ what a client receives ------------------ *)

LEMMA AtHead ==
  ASSUME IInv, NEW c \in Client, NEW kind, Received(c, kind)
  PROVE  /\ c \notin terminal /\ to_client[c] \in Seq(ToClient) /\ to_client[c] # << >>
         /\ Tail(to_client[c]) \in Seq(ToClient)
         /\ Head(to_client[c]).kind = kind
         /\ kind # "Result" => Head(to_client[c]).token \in Token
         /\ to_client' = [to_client EXCEPT ![c] = Tail(to_client[c])]
         /\ local[c] \in [Token -> Local] /\ to_host[c] \in Seq(ToHost)
         /\ \A t \in Token : /\ Known(c, t) \in Facts /\ local[c][t] \in Local
                             /\ View(Known(c, t), to_client[c], to_host[c], local[c][t], t)
<1>1. Typed /\ Views
  BY DEF IInv
<1>2. /\ c \notin terminal /\ to_client[c] # << >> /\ Head(to_client[c]).kind = kind
      /\ to_client' = [to_client EXCEPT ![c] = Tail(to_client[c])]
  BY <1>1 DEF Received, Alive, Typed
<1>3. /\ to_client[c] \in Seq(ToClient) /\ to_host[c] \in Seq(ToHost) /\ local[c] \in [Token -> Local]
  BY <1>1, LocalTyped
<1>4. Head(to_client[c]) \in ToClient /\ Tail(to_client[c]) \in Seq(ToClient)
  BY <1>2, <1>3
<1>5. kind # "Result" => Head(to_client[c]).token \in Token
  BY <1>2, <1>4 DEF ToClient
<1>6. \A t \in Token : /\ Known(c, t) \in Facts /\ local[c][t] \in Local
                       /\ View(Known(c, t), to_client[c], to_host[c], local[c][t], t)
  BY <1>1, <1>3, KnownFacts DEF Views
<1> QED
  BY <1>2, <1>3, <1>4, <1>5, <1>6

\* An early return: the message is dropped, and at most one is sent about it.
LEMMA AnswerKeeps ==
  ASSUME IInv, NEW c \in Client, NEW kind, kind # "Result", Received(c, kind),
         NEW m \in ToHost, m.token = Head(to_client[c]).token, m.kind \in {"Decision", "Close"},
         Answer(c, << m >>), UNCHANGED <<hostVars, opened, terminal>>
  PROVE  IInv'
<1> DEFINE q == to_client[c]
           t == Head(q).token
<1>0. Typed
  BY DEF IInv
<1>1. /\ c \notin terminal /\ q \in Seq(ToClient) /\ q # << >> /\ Tail(q) \in Seq(ToClient)
      /\ Head(q).kind = kind /\ t \in Token /\ local[c] \in [Token -> Local]
      /\ to_client' = [to_client EXCEPT ![c] = Tail(q)]
      /\ \A u \in Token : /\ Known(c, u) \in Facts /\ local[c][u] \in Local
                          /\ View(Known(c, u), q, to_host[c], local[c][u], u)
  BY AtHead
<1>2. PICK s \in {<< m >>, << >>} : to_host' = [to_host EXCEPT ![c] = @ \o s]
  BY DEF Answer
<1>3. UNCHANGED <<local, request>>
  BY DEF Answer
<1>4. /\ s \in Seq(ToHost) /\ \A i \in 1..Len(s) : s[i] = m
  <2>1. CASE s = << m >>
    BY <2>1
  <2>2. CASE s = << >>
    BY <2>2
  <2> QED BY <1>2, <2>1, <2>2
<1>5. \A i \in 1..Len(s) : s[i].kind # "Request"
  BY <1>4
<1>6. ASSUME NEW u \in Token
      PROVE  Moved(Known(c, u), q, Tail(q), to_host[c] \o s, local[c][u], local[c][u], u)
  <2>1. Moved(Known(c, u), q, Tail(q), to_host[c], local[c][u], local[c][u], u)
    BY <1>1, MovedTaken
  <2>2. CASE u # t
    <3>1. Absent(s, u)
      BY <1>4, <2>2 DEF Absent
    <3> QED BY <1>1, <1>4, <2>1, <3>1, SayAside
  <2>3. CASE u = t
    <3> DEFINE g == Known(c, u)
               r == local[c][u]
    <3>1. ~g.unknown
      BY <1>1, <2>3, HeadKnown
    <3>2. Sayable(g, Tail(q), r, s, u) /\ Lighter(r, r)
      BY <1>4, <3>1 DEF Sayable, On, Lighter
    <3>3. g \in Facts /\ r \in Local /\ to_host[c] \in Seq(ToHost)
      BY <1>0, <1>1, LocalTyped
    <3> HIDE DEF g, r
    <3>4. Moved(g, q, Tail(q), to_host[c], r, r, u)
      BY <2>1 DEF g, r
    <3>5. View(g, Tail(q), to_host[c] \o s, r, u)
      BY <1>4, <3>2, <3>3, <3>4, ViewSent DEF Moved
    <3>6. Moved(g, q, Tail(q), to_host[c] \o s, r, r, u)
      BY <3>4, <3>5 DEF Moved
    <3> QED BY <3>6 DEF g, r
  <2> QED BY <2>2, <2>3
<1>7. failed \/ Count(Tail(q), "Result") + Waits(request[c]) = Count(q, "Result") + Waits(request'[c])
  <2>1. Count(Tail(q), "Result") = Count(q, "Result")
    BY <1>1, CountTail
  <2> QED BY <1>3, <2>1
<1>8. request' \in [Client -> Requests] /\ \A d \in Client : d # c => request'[d] = request[d]
  BY <1>0, <1>3 DEF Typed
<1>9. local' = [local EXCEPT ![c] = local[c]]
  BY <1>0, <1>3 DEF Typed
<1> HIDE DEF q, t
<1>10. Tail(q) \in Seq(ToClient) /\ c \notin terminal /\ local[c] \in [Token -> Local]
       /\ to_client' = [to_client EXCEPT ![c] = Tail(q)]
  BY <1>1
<1>11. \A u \in Token : Moved(Known(c, u), q, Tail(q), to_host[c] \o s, local[c][u], local[c][u], u)
  BY <1>6
<1>12. failed \/ Count(Tail(q), "Result") + Waits(request[c]) = Count(to_client[c], "Result") + Waits(request'[c])
  BY <1>7 DEF q
<1> HIDE <1>1
<1> QED
  BY <1>2, <1>4, <1>5, <1>8, <1>9, <1>10, <1>11, <1>12, QuietKeeps DEF q

LEMMA OfferKeeps ==
  ASSUME IInv, NEW c \in Client, handle_offer(c)
  PROVE  IInv'
<1> DEFINE q == to_client[c]
           t == Head(q).token
           cancelled == request[c] = "cancelled"
           r1 == [NoLocal EXCEPT !.phase = IF cancelled THEN "closing" ELSE "offered",
                                 !.owes = {"Decision"} \cup IF cancelled THEN {"Close"} ELSE {}]
<1>0. Typed
  BY DEF IInv
<1>1. Received(c, "Offer") /\ UNCHANGED <<hostVars, opened, terminal>>
  BY DEF handle_offer
<1>2. /\ q \in Seq(ToClient) /\ q # << >> /\ Head(q).kind = "Offer" /\ t \in Token
      /\ Known(c, t) \in Facts /\ local[c][t] \in Local
      /\ View(Known(c, t), q, to_host[c], local[c][t], t)
  BY <1>1, AtHead
<1>3. CASE c \in stop_requested
  <2>1. Answer(c, << Decision(t, FALSE) >>)
    BY <1>3 DEF handle_offer
  <2>2. Decision(t, FALSE) \in ToHost /\ Decision(t, FALSE).token = t /\ Decision(t, FALSE).kind = "Decision"
    BY <1>2 DEF Decision, ToHost, ToHostKinds
  <2> HIDE DEF t, q
  <2>3. Decision(t, FALSE).token = Head(to_client[c]).token
    BY <2>2 DEF t, q
  <2> QED BY <1>1, <2>1, <2>2, <2>3, AnswerKeeps
<1>4. CASE c \notin stop_requested
  <2>1. Update(c, t, r1) /\ request' = request
    BY <1>4 DEF handle_offer
  <2>2. /\ r1 \in Local /\ r1.phase \in {"offered", "closing"} /\ ~r1.endpoint /\ ~r1.closing_seen
        /\ r1.owes \subseteq {"Decision", "Close"}
    BY DEF Local, NoLocal, Owable
  <2> HIDE DEF r1
  <2>3. Moved(Known(c, t), q, Tail(q), to_host[c], local[c][t], r1, t)
    BY <1>2, <2>2, ViewOffered
  <2>5. request' \in [Client -> Requests]
    BY <1>0, <2>1 DEF Typed
  <2>6. failed \/ Waits(request'[c]) = Waits(request[c]) - (IF "Offer" = "Result" THEN 1 ELSE 0)
    BY <2>1 DEF Waits
  <2> QED BY <1>1, <1>2, <2>1, <2>2, <2>3, <2>5, <2>6, UpdateKeeps
<1> QED
  BY <1>3, <1>4

LEMMA ActivateKeeps ==
  ASSUME IInv, NEW c \in Client, handle_activate(c)
  PROVE  IInv'
<1> DEFINE q == to_client[c]
           t == Head(q).token
           r == local[c][t]
           r1 == IF r.phase = "installed" THEN [r EXCEPT !.phase = "active"] ELSE r
<1>0. Typed
  BY DEF IInv
<1>1. Received(c, "Activate") /\ UNCHANGED <<hostVars, request, opened, terminal>> /\ Update(c, t, r1)
  BY DEF handle_activate
<1>2. /\ q \in Seq(ToClient) /\ q # << >> /\ Head(q).kind = "Activate" /\ t \in Token
      /\ Known(c, t) \in Facts /\ r \in Local
      /\ View(Known(c, t), q, to_host[c], r, t)
  BY <1>1, AtHead
<1>3. r1 \in Local /\ Moved(Known(c, t), q, Tail(q), to_host[c], r, r1, t)
  <2>1. CASE r.phase = "installed"
    <3>1. r1 = [r EXCEPT !.phase = "active"]
      BY <2>1
    <3> HIDE DEF r, r1, t, q
    <3>2. r1 \in Local
      BY <1>2, <3>1 DEF Local
    <3> USE DEF t
    <3> QED BY <1>2, <2>1, <3>1, <3>2, ViewActivated
  <2>2. CASE r.phase # "installed"
    <3>1. r1 = r
      BY <2>2
    <3> HIDE DEF r, r1
    <3> QED BY <1>2, <3>1, ViewTaken
  <2> QED BY <2>1, <2>2
<1> HIDE DEF r1
<1>5. request' \in [Client -> Requests]
  BY <1>0, <1>1 DEF Typed
<1>6. failed \/ Waits(request'[c]) = Waits(request[c]) - (IF "Activate" = "Result" THEN 1 ELSE 0)
  BY <1>1 DEF Waits
<1> QED
  BY <1>1, <1>2, <1>3, <1>5, <1>6, UpdateKeeps

LEMMA RetiredKeeps ==
  ASSUME IInv, NEW c \in Client, handle_retired(c)
  PROVE  IInv'
<1> DEFINE q == to_client[c]
           t == Head(q).token
<1>0. Typed
  BY DEF IInv
<1>1. Received(c, "Retired") /\ UNCHANGED <<hostVars, request, opened, terminal>> /\ Update(c, t, NoLocal)
  BY DEF handle_retired
<1>2. /\ q \in Seq(ToClient) /\ q # << >> /\ Head(q).kind = "Retired" /\ t \in Token
      /\ Known(c, t) \in Facts /\ local[c][t] \in Local
      /\ View(Known(c, t), q, to_host[c], local[c][t], t)
  BY <1>1, AtHead
<1>3. NoLocal \in Local /\ Moved(Known(c, t), q, Tail(q), to_host[c], local[c][t], NoLocal, t)
  BY <1>2, ViewRetired, NoLocalTyped
<1>5. request' \in [Client -> Requests]
  BY <1>0, <1>1 DEF Typed
<1>6. failed \/ Waits(request'[c]) = Waits(request[c]) - (IF "Retired" = "Result" THEN 1 ELSE 0)
  BY <1>1 DEF Waits
<1> QED
  BY <1>1, <1>2, <1>3, <1>5, <1>6, UpdateKeeps

\* The message at the head is taken, and its record withdrawn.
LEMMA WithdrawnTaken ==
  ASSUME NEW g \in Facts, NEW q \in Seq(ToClient), q # << >>, NEW out, NEW r \in Local, NEW r1 \in Local,
         NEW t, View(g, q, out, r, t), Head(q).token = t \/ (~g.unknown /\ ~On(q, "Offer", t)),
         Withdrawn(g, Tail(q), r, r1, t)
  PROVE  Moved(g, q, Tail(q), out, r, r1, t)
<1> DEFINE s == Tail(q)
<1>1. Moved(g, q, s, out, r, r, t)
  BY ViewTaken
<1>2. ~g.unknown /\ ~On(s, "Offer", t)
  <2>1. CASE Head(q).token = t
    BY <2>1, HeadKnown
  <2>2. CASE ~g.unknown /\ ~On(q, "Offer", t)
    BY <2>2, OnTail
  <2> QED BY <2>1, <2>2
<1>3. Withdrawn(g, s, r, r1, t)
  OBVIOUS
<1> HIDE DEF s
<1>4. Moved(g, s, s, out, r, r1, t)
  BY <1>1, <1>2, <1>3, ViewWithdrawn DEF Moved
<1> QED
  BY <1>1, <1>4 DEF Moved, s

LEMMA InstallKeeps ==
  ASSUME IInv, NEW c \in Client, handle_install(c)
  PROVE  IInv'
<1> DEFINE q == to_client[c]
           t == Head(q).token
           r0 == local[c][t]
           known == r0.phase # "empty"
           r == IF known THEN r0
                ELSE [NoLocal EXCEPT !.phase = IF request[c] = "cancelled" THEN "closing"
                                               ELSE "requesting"]
           r1 == [r EXCEPT !.phase = "installed", !.endpoint = TRUE, !.owes = @ \cup {"Ready"}]
           r2 == [r EXCEPT !.owes = @ \cup {"Close"}]
           stranger == ~known /\ request[c] \notin {"pending", "cancelled"}
<1>0. Typed
  BY DEF IInv
<1>1. Received(c, "Install") /\ UNCHANGED <<hostVars, opened, terminal>>
  BY DEF handle_install
<1>2. /\ q \in Seq(ToClient) /\ q # << >> /\ Head(q).kind = "Install" /\ t \in Token
      /\ Known(c, t) \in Facts /\ r0 \in Local /\ c \notin terminal /\ Tail(q) \in Seq(ToClient)
      /\ local[c] \in [Token -> Local] /\ to_client' = [to_client EXCEPT ![c] = Tail(q)]
      /\ View(Known(c, t), q, to_host[c], r0, t)
  BY <1>1, AtHead
<1>3. \/ stranger /\ Answer(c, << Msg("Close", t) >>)
      \/ /\ r.phase = "closing" /\ UNCHANGED <<to_host, request>>
         /\ local' = [local EXCEPT ![c][t] = r2]
      \/ Update(c, t, r1) /\ UNCHANGED request
  BY DEF handle_install
<1>4. ~known => r0 = NoLocal
  BY <1>2 DEF View
<1>5. CASE stranger /\ Answer(c, << Msg("Close", t) >>)
  <2>2. Msg("Close", t) \in ToHost /\ Msg("Close", t).token = t /\ Msg("Close", t).kind = "Close"
    BY <1>2 DEF Msg, ToHost, ToHostKinds
  <2>3. Answer(c, << Msg("Close", t) >>) /\ Msg("Close", t).token = Head(to_client[c]).token
    BY <1>5, <2>2
  <2> HIDE DEF t, q
  <2> QED BY <1>1, <2>2, <2>3, AnswerKeeps
<1>6. CASE /\ r.phase = "closing" /\ UNCHANGED <<to_host, request>>
           /\ local' = [local EXCEPT ![c][t] = r2]
  <2>1. /\ r2 \in Local /\ r2.phase = "closing" /\ r2.endpoint = r0.endpoint
        /\ r2.closing_seen = r0.closing_seen /\ ("Quiescent" \in r2.owes => "Quiescent" \in r0.owes)
    <3> DEFINE owes == r0.owes \cup {"Close"}
    <3>1. owes \in SUBSET Owable /\ ("Quiescent" \in owes => "Quiescent" \in r0.owes)
      BY <1>2 DEF Local, Owable
    <3>2. r2 = [r0 EXCEPT !.phase = "closing", !.owes = owes]
      <4>1. CASE known
        <5>1. r2 = [r0 EXCEPT !.owes = owes] /\ r0.phase = "closing"
          BY <1>6, <4>1
        <5> HIDE DEF r0, r2, owes
        <5> QED BY <5>1, <1>2 DEF Local
      <4>2. CASE ~known
        <5>1. r = [NoLocal EXCEPT !.phase = "closing"] /\ r0 = NoLocal
          BY <1>4, <1>6, <4>2 DEF NoLocal
        <5> HIDE DEF r0, r
        <5> QED BY <5>1 DEF NoLocal
      <4> QED BY <4>1, <4>2
    <3> HIDE DEF owes, r2, r0
    <3> QED BY <1>2, <3>1, <3>2 DEF Local
  <2> DEFINE records == [local[c] EXCEPT ![t] = r2]
  <2>2. records \in [Token -> Local] /\ local' = [local EXCEPT ![c] = records]
    <3> HIDE DEF r2, r
    <3> QED BY <1>0, <1>2, <1>6, <2>1 DEF Typed
  <2>3. Withdrawn(Known(c, t), Tail(q), r0, r2, t)
    BY <2>1 DEF Withdrawn
  <2> HIDE DEF r2, r0
  <2>4. Moved(Known(c, t), q, Tail(q), to_host[c], r0, r2, t)
    <3> HIDE DEF q
    <3> QED BY <1>2, <2>1, <2>3, WithdrawnTaken DEF t
  <2>5. \A u \in Token : Moved(Known(c, u), q, Tail(q), to_host[c], local[c][u], records[u], u)
    BY <1>2, <2>4, MovedTaken DEF r0
  <2> HIDE DEF records
  <2>6. failed \/ Count(Tail(q), "Result") + Waits(request[c]) = Count(to_client[c], "Result") + Waits(request'[c])
    <3>1. Count(Tail(q), "Result") = Count(q, "Result")
      BY <1>2, CountTail
    <3> QED BY <1>6, <3>1
  <2>7. request' \in [Client -> Requests] /\ \A d \in Client : d # c => request'[d] = request[d]
    BY <1>0, <1>6 DEF Typed
  <2>8. /\ << >> \in Seq(ToHost) /\ (\A i \in 1..Len(<< >>) : << >>[i].kind # "Request")
        /\ to_host[c] \o << >> = to_host[c] /\ to_host' = [to_host EXCEPT ![c] = @ \o << >>]
    <3>1. to_host[c] \in Seq(ToHost)
      BY <1>0, LocalTyped
    <3>2. to_host[c] \o << >> = to_host[c]
      BY <3>1
    <3> QED BY <1>0, <1>6, <3>2 DEF Typed
  <2>9. \A u \in Token : Moved(Known(c, u), q, Tail(q), to_host[c] \o << >>, local[c][u], records[u], u)
    BY <2>5, <2>8
  <2> QED BY <1>1, <1>2, <2>2, <2>6, <2>7, <2>8, <2>9, QuietKeeps
<1>7. CASE Update(c, t, r1) /\ UNCHANGED request
  <2>1. /\ r1 \in Local /\ r1.phase = "installed" /\ r1.endpoint
        /\ r1.closing_seen = r0.closing_seen /\ r1.owes = r0.owes \cup {"Ready"}
    <3> DEFINE owes == r0.owes \cup {"Ready"}
    <3>1. owes \in SUBSET Owable
      BY <1>2 DEF Local, Owable
    <3>2. r1 = [r0 EXCEPT !.phase = "installed", !.endpoint = TRUE, !.owes = owes]
      <4>1. CASE known
        BY <4>1
      <4>2. CASE ~known
        BY <1>4, <4>2 DEF NoLocal
      <4> QED BY <4>1, <4>2
    <3> HIDE DEF owes, r1, r0
    <3>3. /\ r1 \in Local /\ r1.phase = "installed" /\ r1.endpoint
          /\ r1.closing_seen = r0.closing_seen /\ r1.owes = owes
      BY <1>2, <3>1, <3>2 DEF Local
    <3> QED BY <3>3 DEF owes
  <2> HIDE DEF r1
  <2>2. Moved(Known(c, t), q, Tail(q), to_host[c], r0, r1, t)
    BY <1>2, <2>1, ViewInstalled
  <2>5. request' \in [Client -> Requests]
    BY <1>0, <1>7 DEF Typed
  <2>6. failed \/ Waits(request'[c]) = Waits(request[c]) - (IF "Install" = "Result" THEN 1 ELSE 0)
    BY <1>7 DEF Waits
  <2> QED BY <1>1, <1>2, <1>7, <2>1, <2>2, <2>5, <2>6, UpdateKeeps
<1> QED
  BY <1>3, <1>5, <1>6, <1>7

LEMMA ClosingKeeps ==
  ASSUME IInv, NEW c \in Client, handle_closing(c)
  PROVE  IInv'
<1> DEFINE q == to_client[c]
           t == Head(q).token
           r0 == local[c][t]
           g == Known(c, t)
           r1 == [r0 EXCEPT !.phase = "closing", !.closing_seen = TRUE,
                            !.owes = @ \ {"Decision", "Ready", "Close"}]
           m == Msg("Quiescent", t)
<1>0. Typed
  BY DEF IInv
<1>1. Received(c, "Closing") /\ UNCHANGED <<hostVars, request, opened, terminal>>
  BY DEF handle_closing
<1>2. /\ q \in Seq(ToClient) /\ q # << >> /\ Head(q).kind = "Closing" /\ t \in Token
      /\ g \in Facts /\ r0 \in Local /\ c \notin terminal /\ Tail(q) \in Seq(ToClient)
      /\ local[c] \in [Token -> Local] /\ to_client' = [to_client EXCEPT ![c] = Tail(q)]
      /\ View(g, q, to_host[c], r0, t)
  BY <1>1, AtHead
<1>3. ~g.unknown /\ ~On(Tail(q), "Install", t) /\ ~g.opening
  BY <1>2, HeadKnown
<1>4. request' \in [Client -> Requests] /\ \A d \in Client : d # c => request'[d] = request[d]
  BY <1>0, <1>1 DEF Typed
<1>5. CASE r0.phase = "empty"
  <2>1. PICK extra \in {<< m >>, << >>} : SendOwed(c, local[c], extra)
    BY <1>5 DEF handle_closing
  <2>2. m \in ToHost /\ m.kind = "Quiescent" /\ m.token = t
    BY <1>2 DEF Msg, ToHost, ToHostKinds
  <2> HIDE DEF m
  <2>3. extra \in Seq(ToHost) /\ \A i \in 1..Len(extra) : extra[i] = m
    <3>1. CASE extra = << m >>
      BY <2>2, <3>1
    <3>2. CASE extra = << >>
      BY <3>2
    <3> QED BY <2>1, <3>1, <3>2
  <2>4. ~Installed(Tail(q), r0, t)
    BY <1>2, <1>3, <1>5 DEF View, Installed, NoLocal
  <2>5. ASSUME NEW u \in Token
        PROVE  /\ Moved(Known(c, u), q, Tail(q), to_host[c], local[c][u], local[c][u], u)
               /\ Sayable(Known(c, u), Tail(q), local[c][u], extra, u)
    <3>1. Moved(Known(c, u), q, Tail(q), to_host[c], local[c][u], local[c][u], u)
      BY <1>2, MovedTaken
    <3>2. CASE u = t
      BY <1>3, <2>2, <2>3, <2>4, <3>1, <3>2 DEF Sayable, On
    <3>3. CASE u # t
      BY <2>2, <2>3, <3>1, <3>3 DEF Sayable, On, Absent
    <3> QED BY <3>2, <3>3
  <2>6. failed \/ Count(Tail(q), "Result") + Waits(request[c]) = Count(to_client[c], "Result") + Waits(request'[c])
    <3>1. Count(Tail(q), "Result") = Count(q, "Result")
      BY <1>2, CountTail
    <3> QED BY <1>1, <3>1
  <2>7. \A i \in 1..Len(extra) : extra[i].kind # "Request"
    BY <2>2, <2>3
  <2> QED BY <1>1, <1>2, <1>4, <2>1, <2>3, <2>5, <2>6, <2>7, SendKeeps
<1>6. CASE r0.phase # "empty"
  <2>1. Update(c, t, r1)
    BY <1>6 DEF handle_closing
  <2>2. /\ r1 \in Local /\ r1.phase = "closing" /\ r1.endpoint = r0.endpoint
        /\ "Quiescent" \in r1.owes => "Quiescent" \in r0.owes
    <3> DEFINE owes == r0.owes \ {"Decision", "Ready", "Close"}
    <3>1. owes \in SUBSET Owable /\ ("Quiescent" \in owes => "Quiescent" \in r0.owes)
      BY <1>2 DEF Local
    <3>2. r1 = [r0 EXCEPT !.phase = "closing", !.closing_seen = TRUE, !.owes = owes]
      OBVIOUS
    <3> HIDE DEF owes, r1, r0
    <3> QED BY <1>2, <3>1, <3>2 DEF Local
  <2> HIDE DEF r1
  <2>3. Withdrawn(g, Tail(q), r0, r1, t)
    BY <1>3, <2>2 DEF Withdrawn
  <2>4. Moved(g, q, Tail(q), to_host[c], r0, r1, t)
    <3> HIDE DEF q, r0, g
    <3> QED BY <1>2, <2>2, <2>3, WithdrawnTaken DEF t
  <2>5. failed \/ Waits(request'[c]) = Waits(request[c]) - (IF "Closing" = "Result" THEN 1 ELSE 0)
    BY <1>1 DEF Waits
  <2> QED BY <1>1, <1>2, <1>4, <2>1, <2>2, <2>4, <2>5, UpdateKeeps
<1> QED
  BY <1>5, <1>6

LEMMA ResultKeeps ==
  ASSUME IInv, NEW c \in Client, handle_result(c)
  PROVE  IInv'
<1> DEFINE q == to_client[c]
           t == Head(q).token
           r0 == local[c][t]
           r1 == Closed(r0)
<1>0. Typed /\ OneAnswer
  BY DEF IInv
<1>1. /\ Received(c, "Result") /\ UNCHANGED <<hostVars, opened, terminal>>
      /\ request' = [request EXCEPT ![c] = IF @ \in {"pending", "cancelled"} THEN "completed" ELSE @]
  BY DEF handle_result
<1>2. /\ q \in Seq(ToClient) /\ q # << >> /\ Head(q).kind = "Result"
      /\ c \notin terminal /\ Tail(q) \in Seq(ToClient) /\ to_host[c] \in Seq(ToHost)
      /\ local[c] \in [Token -> Local] /\ to_client' = [to_client EXCEPT ![c] = Tail(q)]
      /\ \A u \in Token : /\ Known(c, u) \in Facts /\ local[c][u] \in Local
                          /\ View(Known(c, u), q, to_host[c], local[c][u], u)
  BY <1>1, AtHead
<1>3. t \in Token \cup {NoToken}
  <2>1. Head(q) \in ToClient
    BY <1>2
  <2> QED BY <2>1 DEF ToClient
<1>4. /\ request' \in [Client -> Requests] /\ \A d \in Client : d # c => request'[d] = request[d]
      /\ request'[c] = IF request[c] \in {"pending", "cancelled"} THEN "completed" ELSE request[c]
  BY <1>0, <1>1 DEF Typed, Requests
\* Unless the Host has failed, the result answers the request of this client.
<1>5. failed \/ (Waits(request[c]) = 1 /\ Waits(request'[c]) = 0)
  <2> SUFFICES ASSUME ~failed PROVE Waits(request[c]) = 1 /\ Waits(request'[c]) = 0
    OBVIOUS
  <2> DEFINE a == Count(to_host[c], "Request")
             b == Count(q, "Result")
             b1 == Count(Tail(q), "Result")
             z == IF Answers(c) THEN 1 ELSE 0
  <2>1. a + b + z = Waits(request[c])
    BY <1>0, <1>2 DEF OneAnswer, Waits
  <2>2. a \in Nat /\ b1 \in Nat /\ b = b1 + 1 /\ z \in Nat
    BY <1>2, CountTail, CountPlaces
  <2> HIDE DEF a, b, b1, z
  <2>3. Waits(request[c]) >= 1
    BY <2>1, <2>2
  <2>4. request[c] \in {"pending", "cancelled"}
    BY <2>3 DEF Waits
  <2> QED BY <1>4, <2>4 DEF Waits
<1>6. CASE request[c] = "cancelled" /\ t # NoToken
  <2>1. Update(c, t, r1) /\ t \in Token
    BY <1>3, <1>6 DEF handle_result
  <2>2. r1 \in Local
    BY <2>1, ClosedMoved
  <2>3. Moved(Known(c, t), q, q, to_host[c], r0, r1, t)
    BY <2>1, ClosedMoved
  <2>4. Moved(Known(c, t), q, Tail(q), to_host[c], r0, r1, t)
    <3>1. Known(c, t) \in Facts
      BY <1>2, <2>1
    <3> DEFINE g == Known(c, t)
               out == to_host[c]
    <3> HIDE DEF q, r0, r1, t, g, out
    <3>2. View(g, q, out, r1, t) /\ (Installed(q, r1, t) => Installed(q, r0, t)) /\ (Steady(g, r0) => Steady(g, r1))
      BY <2>3 DEF Moved, g, out
    <3>3. Moved(g, q, Tail(q), out, r1, r1, t)
      BY <1>2, <2>2, <3>1, <3>2, ViewTaken DEF g
    <3>4. Moved(g, q, Tail(q), out, r0, r1, t)
      BY <3>2, <3>3 DEF Moved
    <3> QED BY <3>4 DEF g, out
  <2>5. failed \/ Waits(request'[c]) = Waits(request[c]) - (IF "Result" = "Result" THEN 1 ELSE 0)
    BY <1>5
  <2> HIDE DEF r1
  <2> QED BY <1>1, <1>4, <2>1, <2>2, <2>4, <2>5, UpdateKeeps
<1>7. CASE ~(request[c] = "cancelled" /\ t # NoToken)
  <2>1. SendOwed(c, local[c], << >>)
    BY <1>7 DEF handle_result
  <2>2. failed \/ Count(Tail(q), "Result") + Waits(request[c]) = Count(to_client[c], "Result") + Waits(request'[c])
    <3> DEFINE b == Count(q, "Result")
               b1 == Count(Tail(q), "Result")
    <3>1. b1 \in Nat /\ b = b1 + 1
      BY <1>2, CountTail
    <3> HIDE DEF b, b1
    <3>2. failed \/ b1 + Waits(request[c]) = b + Waits(request'[c])
      BY <1>5, <3>1
    <3> QED BY <3>2 DEF b, b1
  <2>3. << >> \in Seq(ToHost) /\ \A i \in 1..Len(<< >>) : << >>[i].kind # "Request"
    OBVIOUS
  <2>4. \A u \in Token : /\ Moved(Known(c, u), q, Tail(q), to_host[c], local[c][u], local[c][u], u)
                         /\ Sayable(Known(c, u), Tail(q), local[c][u], << >>, u)
    BY <1>2, MovedTaken, SayNothing
  <2> QED BY <1>1, <1>2, <1>4, <2>1, <2>2, <2>3, <2>4, SendKeeps
<1> QED
  BY <1>6, <1>7

LEMMA HandleKeeps ==
  ASSUME IInv, NEW c \in Client, handle(c)
  PROVE  IInv'
BY OfferKeeps, InstallKeeps, ActivateKeeps, ClosingKeeps, RetiredKeeps, ResultKeeps DEF handle

(* ------------------------------ the end of a thread --------------------- *)

LEMMA ViewGone ==
  ASSUME NEW g \in Facts, NEW g1 \in Facts, NEW q, NEW out, NEW r \in Local, NEW t,
         View(g, q, out, r, t), g1.gone, g1.opening => g.opening, g1.unknown => g.unknown
  PROVE  View(g1, << >>, out, NoLocal, t)
<1>1. /\ \A k : ~On(<< >>, k, t)
      /\ Absent(<< >>, t) /\ ClosingLast(<< >>, t) /\ OfferFirst(<< >>, t)
  BY DEF On, Absent, ClosingLast, OfferFirst
<1>2. /\ NoLocal.phase = "empty" /\ ~NoLocal.endpoint /\ NoLocal.owes = {} /\ ~NoLocal.closing_seen
  BY DEF NoLocal
<1>3. ~Installed(<< >>, NoLocal, t)
  BY <1>1, <1>2 DEF Installed
<1>4. On(out, "Quiescent", t) => ~g1.opening
  BY DEF View
<1>5. g1.unknown => Untouched(<< >>, out, NoLocal, t)
  BY <1>1 DEF View, Untouched
<1>6. Steady(g1, NoLocal)
  BY DEF Steady
<1> QED
  BY <1>1, <1>2, <1>3, <1>4, <1>5, <1>6 DEF View

LEMMA ExitKeeps ==
  ASSUME IInv, NEW c \in Client, Exit(c)
  PROVE  IInv'
<1>0. Typed /\ Gone /\ InOrder(record) /\ Counted /\ OneAnswer /\ Views
  BY DEF IInv
<1>1. /\ terminal' = terminal \cup {c} /\ UNCHANGED <<to_host, record, issued, closed, failed, stop_requested, opened>>
      /\ local' = [local EXCEPT ![c] = [t \in Token |-> NoLocal]]
      /\ request' = [request EXCEPT ![c] = "none"] /\ to_client' = [to_client EXCEPT ![c] = << >>]
  BY DEF Exit, hostVars
<1>2. /\ to_client'[c] = << >> /\ request'[c] = "none" /\ \A t \in Token : local'[c][t] = NoLocal
      /\ \A d \in Client : d # c => /\ to_client'[d] = to_client[d] /\ local'[d] = local[d]
                                    /\ request'[d] = request[d]
  BY <1>0, <1>1 DEF Typed
<1>3. Typed'
  <2>1. << >> \in Seq(ToClient) /\ [t \in Token |-> NoLocal] \in [Token -> Local] /\ "none" \in Requests
    BY NoLocalTyped DEF Requests
  <2>2. /\ to_client' \in [Client -> Seq(ToClient)] /\ local' \in [Client -> [Token -> Local]]
        /\ request' \in [Client -> Requests]
    BY <1>0, <1>1, <2>1 DEF Typed
  <2> QED BY <1>0, <1>1, <2>2 DEF Typed
<1>4. Gone'
  BY <1>0, <1>1, <1>2 DEF Gone, Typed
<1>5. InOrder(record)' /\ Counted'
  BY <1>0, <1>1 DEF InOrder, SideInOrder, Counted
<1>6. OneAnswer'
  BY <1>0, <1>1, <1>2 DEF OneAnswer, Answers
<1>7. ASSUME NEW t \in Token, NEW d \in Client
      PROVE  View(Known(d, t)', to_client'[d], to_host'[d], local'[d][t], t)
  <2>1. Opening(t)' = Opening(t) /\ Holds(t)' = Holds(t) /\ Unoffered(d, t)' = Unoffered(d, t)
    BY <1>1 DEF Opening, Holds, Unoffered
  <2>2. \A e \in Client : Installed(to_client'[e], local'[e][t], t) => Installed(to_client[e], local[e][t], t)
    BY <1>2 DEF Installed, On, NoLocal
  <2>3. Over(t) => Over(t)'
    BY <1>1, <2>1, <2>2 DEF Over
  <2>4. \A e \in Client : SteadyAt(e, t) => SteadyAt(e, t)'
    BY <1>1, <1>2, <2>3 DEF SteadyAt
  <2> DEFINE G1 == Known(d, t)
             G2 == Known(d, t)'
             Q == to_client[d]
             O == to_host[d]
             R == local[d][t]
  <2>5. /\ G1 \in Facts /\ G2 \in Facts /\ R \in Local /\ Peer(d) \in Client
        /\ View(G1, Q, O, R, t)
    BY <1>0, <1>3, KnownFacts, KnownFactsPrimed, LocalTyped, Peers DEF Views
  <2>6. /\ G1.exposed = ExposedAt(record, d, t) /\ G2.exposed = ExposedAt(record, d, t)
        /\ G1.ready = ReadyAt(record, d, t) /\ G2.ready = ReadyAt(record, d, t)
        /\ G1.opening = Opening(t) /\ G2.opening = Opening(t)
        /\ G1.over = Over(t) /\ G2.over = Over(t)'
        /\ G1.gone = (d \in terminal) /\ G2.gone = (d \in terminal')
        /\ G1.peer = SteadyAt(Peer(d), t) /\ G2.peer = SteadyAt(Peer(d), t)'
        /\ G1.unknown = (t > issued \/ Unoffered(d, t)) /\ G2.unknown = (t > issued \/ Unoffered(d, t))
    BY <1>0, <1>1, <1>3, <2>1, KnownFacts, KnownFactsPrimed DEF ExposedAt, ReadyAt, Holds
  <2>7. CASE d = c
    <3>1. G2.gone /\ (G2.opening => G1.opening) /\ (G2.unknown => G1.unknown)
      BY <1>1, <2>6, <2>7
    <3> HIDE DEF G1, G2, Q, O, R
    <3>2. View(G2, << >>, O, NoLocal, t)
      BY <2>5, <3>1, ViewGone
    <3> QED BY <1>1, <1>2, <2>7, <3>2 DEF G2, O
  <2>8. CASE d # c
    <3>1. Installed(Q, R, t) => G1.exposed
      BY <2>5 DEF View
    <3>2. d \in terminal => d \in terminal'
      BY <1>1
    <3> HIDE DEF G1, G2, Q, O, R
    <3>3. Milder(G1, G2, Q, O, R, t)
      BY <2>3, <2>4, <2>5, <2>6, <3>1, <3>2 DEF Milder
    <3>4. View(G2, Q, O, R, t)
      BY <2>5, <3>3, ViewMilder
    <3> QED BY <1>1, <1>2, <2>8, <3>4 DEF G2, O, Q, R
  <2> QED BY <2>7, <2>8
<1>8. Views'
  BY <1>7 DEF Views
<1> QED
  BY <1>3, <1>4, <1>5, <1>6, <1>8 DEF IInv

(* ------------------------------ steps of the Host ----------------------- *)

LEMMA ToldNothing ==
  ASSUME NEW d, NEW t
  PROVE  Told(d, << >>, t)
BY DEF Told, On, Absent

LEMMA RecordKinds ==
  ASSUME NEW r \in Record
  PROVE  /\ r # NoRecord /\ r.token \in Token /\ r.second \in Client /\ r.offered \in BOOLEAN
         /\ r.phase \in {"offered", "installing", "active", "closing"}
         /\ r.side \in [Client -> Side] /\ \A c \in Client : r.side[c] \in Side
<1>1. r.phase \in {"offered", "installing", "active", "closing"}
  BY DEF Record
<1>2. NoRecord.phase = "none"
  BY DEF NoRecord
<1> QED
  BY <1>1, <1>2 DEF Record

\* A request is answered once: what is sent takes the place of what was owed.
Balanced(d) ==
    Count(to_host'[d], "Request") + Count(to_client'[d], "Result") + (IF Answers(d)' THEN 1 ELSE 0)
      = Count(to_host[d], "Request") + Count(to_client[d], "Result") + (IF Answers(d) THEN 1 ELSE 0)

LEMMA HostStepKeeps ==
  ASSUME IInv, Typed', NEW c \in Client, NEW out1, NEW sent, HostChange(c, out1, sent),
         UNCHANGED <<request, opened>>, InOrder(record)', record' # NoRecord => record'.token <= issued,
         \A d \in terminal : sent[d] = << >>, failed => failed',
         failed' \/ \A d \in Client \ terminal : Balanced(d)
  PROVE  IInv'
<1>0. Typed /\ Gone /\ Counted /\ OneAnswer
  BY DEF IInv
<1>1. /\ UNCHANGED <<local, terminal, issued>> /\ sent \in [Client -> Seq(ToClient)]
      /\ to_client' = [d \in Client |-> to_client[d] \o sent[d]]
      /\ Read1(c, out1) /\ to_host' = [to_host EXCEPT ![c] = out1]
  BY DEF HostChange
<1>2. Views'
  BY HostKeepsViews
<1>3. Gone'
  <2>1. << >> \o << >> = << >>
    OBVIOUS
  <2> QED BY <1>0, <1>1, <2>1 DEF Gone, Typed
<1>4. \A d \in Client : /\ Count(to_host[d], "Request") \in Nat /\ Count(to_host'[d], "Request") \in Nat
                        /\ Count(to_host'[d], "Request") <= Count(to_host[d], "Request")
  <2> SUFFICES ASSUME NEW d \in Client
               PROVE  /\ Count(to_host[d], "Request") \in Nat /\ Count(to_host'[d], "Request") \in Nat
                      /\ Count(to_host'[d], "Request") <= Count(to_host[d], "Request")
    OBVIOUS
  <2>1. to_host[d] \in Seq(ToHost)
    BY <1>0, LocalTyped
  <2>2. CASE to_host'[d] = to_host[d]
    <3>1. Count(to_host[d], "Request") \in Nat
      BY <2>1, CountPlaces
    <3> QED BY <2>2, <3>1
  <2>3. CASE to_host[d] # << >> /\ to_host'[d] = Tail(to_host[d])
    <3> DEFINE a == Count(to_host[d], "Request")
               a1 == Count(Tail(to_host[d]), "Request")
    <3>1. a \in Nat /\ a1 \in Nat /\ (a = a1 \/ a = a1 + 1)
      BY <2>1, <2>3, CountTail
    <3> HIDE DEF a, a1
    <3>2. a1 <= a
      BY <3>1
    <3> QED BY <2>3, <3>1, <3>2 DEF a, a1
  <2> QED BY <1>0, <1>1, <2>2, <2>3 DEF Read1, Typed
<1>5. Counted'
  <2>1. ASSUME NEW d \in Client
        PROVE  issued' + Count(to_host'[d], "Request") + Count(to_host'[Peer(d)], "Request")
                 <= opened'[d] + opened'[Peer(d)]
    <3> DEFINE e == Peer(d)
               a == Count(to_host[d], "Request")
               b == Count(to_host[e], "Request")
               a1 == Count(to_host'[d], "Request")
               b1 == Count(to_host'[e], "Request")
    <3>1. e \in Client
      BY Peers
    <3>2. /\ a \in Nat /\ b \in Nat /\ a1 \in Nat /\ b1 \in Nat /\ issued \in Nat
          /\ opened[d] \in Nat /\ opened[e] \in Nat /\ a1 <= a /\ b1 <= b
          /\ issued + a + b <= opened[d] + opened[e]
      <4> HIDE DEF a1, b1
      <4> QED BY <1>0, <1>4, <3>1 DEF Typed, Counted, a1, b1
    <3> HIDE DEF a, b, a1, b1
    <3>3. issued + a1 + b1 <= opened[d] + opened[e]
      BY <3>2
    <3> QED BY <1>1, <3>3 DEF a1, b1
  <2> QED BY <1>0, <1>1, <2>1 DEF Counted
<1>6. OneAnswer'
  BY <1>0, <1>1 DEF OneAnswer, Balanced
<1> QED
  BY <1>2, <1>3, <1>5, <1>6 DEF IInv

\* A record changes its phase and what is known of its sides; nothing is sent.
Evolves(r, r1) ==
    \/ r = NoRecord /\ r1 = NoRecord
    \/ /\ r \in Record /\ r1 \in Record /\ r1.token = r.token /\ r1.second = r.second
       /\ r1.offered = r.offered
       /\ r1.phase = "offered" => r.phase = "offered"
       /\ r.phase = "closing" => r1.phase = "closing"
       /\ \A d \in Client : r1.side[d].slot = r.side[d].slot

LEMMA HostQuietKeeps ==
  ASSUME IInv, NEW c \in Client, NEW out1 \in Seq(ToHost), Read1(c, out1),
         Count(out1, "Request") = Count(to_host[c], "Request"),
         to_host' = [to_host EXCEPT ![c] = out1],
         UNCHANGED <<to_client, issued, failed, clientVars>>,
         closed' \in BOOLEAN, stop_requested' \subseteq Client,
         Evolves(record, record'), InOrder(record'),
         \A d \in Client : \A t \in Token :
           /\ ReadyAt(record', d, t) => ReadyAt(record, d, t) \/ On(to_host[d], "Ready", t)
           /\ ExposedAt(record, d, t) /\ Installed(to_client[d], local[d][t], t) => ExposedAt(record', d, t)
  PROVE  IInv'
<1> DEFINE sent == [d \in Client |-> << >>]
<1>0. Typed /\ Gone /\ Counted /\ OneAnswer
  BY DEF IInv
<1>1. UNCHANGED <<local, request, opened, terminal>>
  BY DEF clientVars
<1>2. Typed'
  <2>1. record' = NoRecord \/ record' \in Record
    BY DEF Evolves
  <2>2. to_host' \in [Client -> Seq(ToHost)]
    BY <1>0 DEF Typed
  <2> QED BY <1>0, <1>1, <2>1, <2>2 DEF Typed
<1>3. /\ record' # NoRecord <=> record # NoRecord
      /\ record' # NoRecord => /\ record'.token = record.token /\ record'.second = record.second
                               /\ record'.offered = record.offered
                               /\ record'.phase = "offered" => record.phase = "offered"
                               /\ record'.phase # "closing" => record.phase # "closing"
                               /\ \A d \in Client : record'.side[d].slot = record.side[d].slot
  BY RecordKinds DEF Evolves
<1>4. \A t : (Holds(t)' <=> Holds(t)) /\ (Opening(t)' => Opening(t))
  BY <1>3 DEF Holds, Opening
<1>5. \A d \in Client : \A t : Unoffered(d, t)' => Unoffered(d, t)
  BY <1>3, <1>4 DEF Unoffered, Holds
<1>6. \A d \in Client : Answers(d)' = Answers(d)
  BY <1>3 DEF Answers
<1>7. sent \in [Client -> Seq(ToClient)] /\ to_client' = [d \in Client |-> to_client[d] \o sent[d]]
  <2>1. \A d \in Client : to_client[d] \o << >> = to_client[d]
    <3>1. \A d \in Client : to_client[d] \in Seq(ToClient)
      BY <1>0, LocalTyped
    <3> QED BY <3>1
  <2>2. << >> \in Seq(ToClient)
    OBVIOUS
  <2> QED BY <1>0, <2>1, <2>2 DEF Typed
<1>8. HostChange(c, out1, sent)
  <2>1. \A d \in Client : \A t \in Token : Told(d, sent[d], t)
    BY ToldNothing
  <2> HIDE DEF sent
  <2> QED BY <1>1, <1>4, <1>5, <1>7, <2>1 DEF HostChange
<1>9. \A d \in Client : Balanced(d)
  <2>1. \A d \in Client : Count(to_host'[d], "Request") = Count(to_host[d], "Request")
    BY <1>0 DEF Typed
  <2> QED BY <1>6, <2>1 DEF Balanced
<1>10. record' # NoRecord => record'.token <= issued
  BY <1>0, <1>3 DEF Counted
<1>11. \A d \in terminal : sent[d] = << >>
  BY <1>0 DEF Typed
<1>12. InOrder(record)'
  OBVIOUS
<1> HIDE DEF sent
<1> QED
  BY <1>1, <1>2, <1>8, <1>9, <1>10, <1>11, <1>12, HostStepKeeps

\* A connection begins to close.
LEMMA BeginCloseEvolves ==
  ASSUME NEW r, r = NoRecord \/ r \in Record, InOrder(r)
  PROVE  /\ Evolves(r, BeginClose(r)) /\ InOrder(BeginClose(r))
         /\ \A d, t : /\ ReadyAt(BeginClose(r), d, t) <=> ReadyAt(r, d, t)
                      /\ ExposedAt(BeginClose(r), d, t) <=> ExposedAt(r, d, t)
<1>1. CASE r = NoRecord
  BY <1>1 DEF BeginClose, Evolves, NoRecord
<1>2. CASE r \in Record
  <2> DEFINE r1 == [r EXCEPT !.phase = "closing"]
  <2>1. r.phase # "none" /\ r # NoRecord
    BY <1>2, RecordKinds
  <2>2. BeginClose(r) = r1
    BY <2>1 DEF BeginClose
  <2>3. /\ r1 \in Record /\ r1.phase = "closing" /\ r1.token = r.token /\ r1.second = r.second
        /\ r1.offered = r.offered /\ r1.side = r.side
    BY <1>2 DEF Record
  <2> HIDE DEF r1
  <2>4. r1 # NoRecord
    BY <2>3, RecordKinds
  <2>5. Evolves(r, r1)
    BY <1>2, <2>3 DEF Evolves
  <2>6. InOrder(r1)
    BY <2>1, <2>3 DEF InOrder, SideInOrder
  <2>7. \A d, t : (ReadyAt(r1, d, t) <=> ReadyAt(r, d, t)) /\ (ExposedAt(r1, d, t) <=> ExposedAt(r, d, t))
    BY <2>1, <2>3, <2>4 DEF ReadyAt, ExposedAt
  <2> QED BY <2>2, <2>5, <2>6, <2>7
<1> QED
  BY <1>1, <1>2

LEMMA AtHostHead ==
  ASSUME IInv, NEW c \in Client, NEW kind, Read(c, kind)
  PROVE  /\ to_host[c] \in Seq(ToHost) /\ to_host[c] # << >> /\ Tail(to_host[c]) \in Seq(ToHost)
         /\ Read1(c, Tail(to_host[c])) /\ Head(to_host[c]).kind = kind
         /\ to_host' = [to_host EXCEPT ![c] = Tail(to_host[c])]
         /\ On(to_host[c], kind, Head(to_host[c]).token)
         /\ kind # "Request" => Count(Tail(to_host[c]), "Request") = Count(to_host[c], "Request")
<1>1. Typed
  BY DEF IInv
<1>2. to_host[c] \in Seq(ToHost) /\ to_host[c] # << >> /\ Head(to_host[c]).kind = kind
  BY <1>1, LocalTyped DEF Read
<1>3. to_host' = [to_host EXCEPT ![c] = Tail(to_host[c])]
  BY <1>1 DEF Read, Typed
<1>4. Tail(to_host[c]) \in Seq(ToHost) /\ Read1(c, Tail(to_host[c]))
  BY <1>2 DEF Read1
<1>5. On(to_host[c], kind, Head(to_host[c]).token)
  BY <1>2, OnTail
<1>6. kind # "Request" => Count(Tail(to_host[c]), "Request") = Count(to_host[c], "Request")
  BY <1>2, CountTail
<1> QED
  BY <1>2, <1>3, <1>4, <1>5, <1>6

\* The Host reads a message and changes its record.
LEMMA ReadKeeps ==
  ASSUME IInv, NEW c \in Client, NEW kind, kind # "Request", Read(c, kind), HostKeeps,
         Evolves(record, record'), InOrder(record'),
         \A d \in Client : \A t \in Token :
           /\ ReadyAt(record', d, t) => ReadyAt(record, d, t) \/ On(to_host[d], "Ready", t)
           /\ ExposedAt(record, d, t) /\ Installed(to_client[d], local[d][t], t) => ExposedAt(record', d, t)
  PROVE  IInv'
<1>1. Typed
  BY DEF IInv
<1>2. /\ UNCHANGED <<to_client, issued, failed, clientVars>>
      /\ closed' \in BOOLEAN /\ stop_requested' \subseteq Client
  BY <1>1 DEF HostKeeps, Typed
<1>3. /\ Tail(to_host[c]) \in Seq(ToHost) /\ Read1(c, Tail(to_host[c]))
      /\ to_host' = [to_host EXCEPT ![c] = Tail(to_host[c])]
      /\ Count(Tail(to_host[c]), "Request") = Count(to_host[c], "Request")
  BY AtHostHead
<1> QED
  BY <1>2, <1>3, HostQuietKeeps

LEMMA RecordSame ==
  ASSUME NEW r, r = NoRecord \/ r \in Record, InOrder(r)
  PROVE  Evolves(r, r)
BY DEF Evolves

LEMMA RecordTyped ==
  ASSUME IInv
  PROVE  /\ record = NoRecord \/ record \in Record
         /\ InOrder(record)
BY DEF IInv, Typed

LEMMA HostCloseKeeps ==
  ASSUME IInv, NEW c \in Client, HostClose(c)
  PROVE  IInv'
<1>1. Read(c, "Close") /\ HostKeeps /\ (record' = record \/ record' = BeginClose(record))
  BY DEF HostClose
<1>2. Evolves(record, record') /\ InOrder(record')
  BY <1>1, RecordTyped, RecordSame, BeginCloseEvolves
<1>3. \A d, t : /\ ReadyAt(record', d, t) <=> ReadyAt(record, d, t)
                /\ ExposedAt(record', d, t) <=> ExposedAt(record, d, t)
  BY <1>1, RecordTyped, BeginCloseEvolves
<1> QED
  BY <1>1, <1>2, <1>3, ReadKeeps

LEMMA DecisionKeeps ==
  ASSUME IInv, NEW c \in Client, decision(c)
  PROVE  IInv'
<1> DEFINE r1 == [record EXCEPT !.phase = "installing"]
<1>1. /\ Read(c, "Decision") /\ HostKeeps
      /\ record' = record \/ record' = BeginClose(record) \/ (record.phase = "offered" /\ record' = r1)
  BY DEF decision, Concerns
<1>2. CASE record' = record \/ record' = BeginClose(record)
  <2>1. Evolves(record, record') /\ InOrder(record')
    BY <1>2, RecordTyped, RecordSame, BeginCloseEvolves
  <2>2. \A d, t : /\ ReadyAt(record', d, t) <=> ReadyAt(record, d, t)
                  /\ ExposedAt(record', d, t) <=> ExposedAt(record, d, t)
    BY <1>2, RecordTyped, BeginCloseEvolves
  <2> QED BY <1>1, <2>1, <2>2, ReadKeeps
<1>3. CASE record.phase = "offered" /\ record' = r1
  <2>1. record \in Record /\ record # NoRecord /\ InOrder(record)
    BY <1>3, RecordTyped DEF NoRecord
  <2>2. /\ r1 \in Record /\ r1.phase = "installing" /\ r1.token = record.token
        /\ r1.second = record.second /\ r1.offered = record.offered /\ r1.side = record.side
    BY <2>1 DEF Record
  <2> HIDE DEF r1
  <2>3. r1 # NoRecord
    BY <2>2, RecordKinds
  <2>4. Evolves(record, r1)
    BY <1>3, <2>1, <2>2 DEF Evolves
  <2>5. InOrder(r1)
    BY <1>3, <2>1, <2>2 DEF InOrder, SideInOrder
  <2>6. \A d, t : (ReadyAt(r1, d, t) <=> ReadyAt(record, d, t)) /\ (ExposedAt(r1, d, t) <=> ExposedAt(record, d, t))
    BY <2>1, <2>2, <2>3 DEF ReadyAt, ExposedAt
  <2>7. record' = r1
    BY <1>3
  <2> QED BY <1>1, <2>4, <2>5, <2>6, <2>7, ReadKeeps
<1> QED
  BY <1>1, <1>2, <1>3

LEMMA ReadyKeeps ==
  ASSUME IInv, NEW c \in Client, ready(c)
  PROVE  IInv'
<1> DEFINE t == Head(to_host[c]).token
           s1 == [record.side[c] EXCEPT !.ready = TRUE]
           r1 == [record EXCEPT !.side = [@ EXCEPT ![c] = s1]]
<1>1. /\ Read(c, "Ready") /\ HostKeeps
      /\ \/ record' = record
         \/ /\ record.phase = "installing" /\ record.token = t
            /\ record' = [record EXCEPT !.side[c].ready = TRUE]
  BY DEF ready, Concerns
<1>2. CASE record' = record
  BY <1>1, <1>2, RecordTyped, RecordSame, ReadKeeps
<1>3. CASE /\ record.phase = "installing" /\ record.token = t
           /\ record' = [record EXCEPT !.side[c].ready = TRUE]
  <2>1. record \in Record /\ record # NoRecord /\ InOrder(record)
    BY <1>3, RecordTyped DEF NoRecord
  <2>2. record.side \in [Client -> Side] /\ record.side[c] \in Side
    BY <2>1, RecordKinds
  <2>3. record' = r1
    BY <1>3
  <2>4. /\ s1 \in Side
        /\ s1.slot = record.side[c].slot /\ s1.exposed = record.side[c].exposed
        /\ s1.quiescent = record.side[c].quiescent /\ s1.closing_sent = record.side[c].closing_sent
        /\ s1.retired_sent = record.side[c].retired_sent
    BY <2>2 DEF Side
  <2> HIDE DEF s1
  <2>5. /\ r1 \in Record /\ r1.phase = "installing" /\ r1.token = record.token
        /\ r1.second = record.second /\ r1.offered = record.offered
        /\ r1.side = [record.side EXCEPT ![c] = s1]
    BY <1>3, <2>1, <2>2, <2>4 DEF Record
  <2> HIDE DEF r1
  <2>6. r1 # NoRecord /\ r1.side[c] = s1 /\ \A d \in Client : d # c => r1.side[d] = record.side[d]
    BY <2>2, <2>5, RecordKinds
  <2>7. Evolves(record, r1)
    BY <1>3, <2>1, <2>4, <2>5, <2>6 DEF Evolves
  <2>8. InOrder(r1)
    BY <1>3, <2>1, <2>4, <2>5, <2>6 DEF InOrder, SideInOrder
  <2>9. On(to_host[c], "Ready", t)
    BY <1>1, AtHostHead
  <2>10. ASSUME NEW d \in Client, NEW u \in Token
         PROVE  /\ ReadyAt(r1, d, u) => ReadyAt(record, d, u) \/ On(to_host[d], "Ready", u)
                /\ ExposedAt(record, d, u) => ExposedAt(r1, d, u)
    <3> HIDE DEF t
    <3>1. CASE d = c
      BY <1>3, <2>1, <2>4, <2>5, <2>6, <2>9, <3>1 DEF ReadyAt, ExposedAt
    <3>2. CASE d # c
      BY <2>1, <2>5, <2>6, <3>2 DEF ReadyAt, ExposedAt
    <3> QED BY <3>1, <3>2
  <2> QED BY <1>1, <2>3, <2>7, <2>8, <2>10, ReadKeeps
<1> QED
  BY <1>1, <1>2, <1>3

\* The client says so only when it has unwound its endpoint.
LEMMA QuiescentKeeps ==
  ASSUME IInv, NEW c \in Client, quiescent(c)
  PROVE  IInv'
<1> DEFINE t == Head(to_host[c]).token
           s1 == [record.side[c] EXCEPT !.quiescent = TRUE]
           r1 == [record EXCEPT !.side = [@ EXCEPT ![c] = s1]]
<1>1. /\ Read(c, "Quiescent") /\ HostKeeps
      /\ \/ record' = record
         \/ /\ record.phase = "closing" /\ record.token = t /\ record.side[c].closing_sent
            /\ record' = [record EXCEPT !.side[c].quiescent = TRUE]
  BY DEF quiescent, Concerns
<1>2. CASE record' = record
  BY <1>1, <1>2, RecordTyped, RecordSame, ReadKeeps
<1>3. CASE /\ record.phase = "closing" /\ record.token = t /\ record.side[c].closing_sent
           /\ record' = [record EXCEPT !.side[c].quiescent = TRUE]
  <2>1. record \in Record /\ record # NoRecord /\ InOrder(record)
    BY <1>3, RecordTyped DEF NoRecord
  <2>2. record.side \in [Client -> Side] /\ record.side[c] \in Side
    BY <2>1, RecordKinds
  <2>3. record' = r1
    BY <1>3
  <2>4. /\ s1 \in Side /\ s1.quiescent
        /\ s1.slot = record.side[c].slot /\ s1.exposed = record.side[c].exposed
        /\ s1.ready = record.side[c].ready /\ s1.retired_sent = record.side[c].retired_sent
    BY <2>2 DEF Side
  <2> HIDE DEF s1
  <2>5. /\ r1 \in Record /\ r1.phase = "closing" /\ r1.token = record.token
        /\ r1.second = record.second /\ r1.offered = record.offered
        /\ r1.side = [record.side EXCEPT ![c] = s1]
    BY <1>3, <2>1, <2>2, <2>4 DEF Record
  <2> HIDE DEF r1
  <2>6. r1 # NoRecord /\ r1.side[c] = s1 /\ \A d \in Client : d # c => r1.side[d] = record.side[d]
    BY <2>2, <2>5, RecordKinds
  <2>7. Evolves(record, r1)
    BY <1>3, <2>1, <2>4, <2>5, <2>6 DEF Evolves
  <2>8. InOrder(r1)
    BY <1>3, <2>1, <2>4, <2>5, <2>6 DEF InOrder, SideInOrder
  <2>9. On(to_host[c], "Quiescent", t) /\ record.token \in Token
    BY <1>1, <2>1, AtHostHead, RecordKinds
  <2>10. ~Installed(to_client[c], local[c][t], t)
    BY <1>3, <2>9 DEF IInv, Views, View
  <2>11. ASSUME NEW d \in Client, NEW u \in Token
         PROVE  /\ ReadyAt(r1, d, u) => ReadyAt(record, d, u)
                /\ ExposedAt(record, d, u) /\ Installed(to_client[d], local[d][u], u) => ExposedAt(r1, d, u)
    <3> HIDE DEF t
    <3>1. CASE d = c
      BY <1>3, <2>1, <2>4, <2>5, <2>6, <2>10, <3>1 DEF ReadyAt, ExposedAt
    <3>2. CASE d # c
      BY <2>1, <2>5, <2>6, <3>2 DEF ReadyAt, ExposedAt
    <3> QED BY <3>1, <3>2
  <2> QED BY <1>1, <2>3, <2>7, <2>8, <2>11, ReadKeeps
<1> QED
  BY <1>1, <1>2, <1>3

LEMMA CloseClientKeeps ==
  ASSUME IInv, NEW c \in Client, close_client(c) \/ HostCloseAll
  PROVE  IInv'
<1>1. /\ UNCHANGED <<to_host, to_client, issued, failed, clientVars>> /\ record' = BeginClose(record)
      /\ closed' \in BOOLEAN /\ stop_requested' \subseteq Client
  BY DEF IInv, Typed, close_client, HostCloseAll
<1>2. to_host[c] \in Seq(ToHost) /\ to_host' = [to_host EXCEPT ![c] = to_host[c]]
  BY <1>1, LocalTyped DEF IInv, Typed
<1>3. /\ Evolves(record, record') /\ InOrder(record')
      /\ \A d, t : /\ ReadyAt(record', d, t) <=> ReadyAt(record, d, t)
                   /\ ExposedAt(record', d, t) <=> ExposedAt(record, d, t)
  BY <1>1, RecordTyped, BeginCloseEvolves
<1>4. Read1(c, to_host[c])
  BY DEF Read1
<1> QED
  BY <1>1, <1>2, <1>3, <1>4, HostQuietKeeps

(* ------------------------------ a request ------------------------------- *)

\* A request is refused: the answer goes out, or nobody waits for it, or the
\* Host fails.
LEMMA RefuseKeeps ==
  ASSUME IInv, NEW c \in Client, Read(c, "Request"), NEW token, refuse(c, token),
         token = NoToken \/ (record.phase = "active" /\ token = record.token),
         UNCHANGED <<record, issued, closed, stop_requested, clientVars>>
  PROVE  IInv'
<1> DEFINE m == Msg("Result", token)
           out == to_host[c]
           Sends(x) == [d \in Client |-> IF d = c THEN x ELSE << >>]
<1>0. Typed /\ Counted /\ InOrder(record)
  BY DEF IInv
<1>1. /\ out \in Seq(ToHost) /\ out # << >> /\ Tail(out) \in Seq(ToHost) /\ Read1(c, Tail(out))
      /\ Head(out).kind = "Request" /\ to_host' = [to_host EXCEPT ![c] = Tail(out)]
  BY AtHostHead
<1>2. UNCHANGED <<local, request, opened, terminal>>
  BY DEF clientVars
<1>3. m \in ToClient /\ m.kind = "Result" /\ m.token = token
  <2>1. token \in Token \cup {NoToken}
    <3>1. record.phase = "active" => record.token \in Token
      BY <1>0, RecordKinds DEF Typed, NoRecord
    <3> QED BY <3>1
  <2> QED BY <2>1 DEF Msg, ToClient, ToClientKinds
<1>4. \/ /\ to_client' = (IF c \in terminal THEN to_client ELSE [to_client EXCEPT ![c] = Append(@, m)])
         /\ failed' = failed
      \/ c \notin terminal /\ failed' = TRUE /\ to_client' = to_client
  BY DEF refuse
<1> HIDE DEF m
<1>5. << m >> \in Seq(ToClient) /\ << >> \in Seq(ToClient) /\ Len(<< m >>) = 1 /\ << m >>[1] = m
  BY <1>3
<1>6. \A d \in Client : /\ to_client[d] \in Seq(ToClient) /\ to_client[d] \o << >> = to_client[d]
                        /\ Append(to_client[d], m) = to_client[d] \o << m >>
  <2>1. \A d \in Client : to_client[d] \in Seq(ToClient)
    BY <1>0, LocalTyped
  <2> QED BY <2>1
<1>7. PICK x \in {<< m >>, << >>} : /\ to_client' = [d \in Client |-> to_client[d] \o Sends(x)[d]]
                                    /\ c \in terminal => x = << >>
                                    /\ failed' \/ c \in terminal \/ x = << m >>
  <2>1. to_client \in [Client -> Seq(ToClient)]
    BY <1>0 DEF Typed
  <2>2. CASE to_client' = to_client /\ (c \in terminal \/ failed')
    BY <1>6, <2>1, <2>2
  <2>3. CASE c \notin terminal /\ to_client' = [to_client EXCEPT ![c] = Append(@, m)]
    BY <1>6, <2>1, <2>3
  <2> QED BY <1>4, <2>2, <2>3
<1> DEFINE sent == Sends(x)
<1>8. /\ sent \in [Client -> Seq(ToClient)] /\ to_client' = [d \in Client |-> to_client[d] \o sent[d]]
      /\ sent[c] = x /\ \A d \in Client : d # c => sent[d] = << >>
  <2>1. x \in Seq(ToClient)
    BY <1>5, <1>7
  <2>2. /\ \A d \in Client : sent[d] \in Seq(ToClient)
        /\ sent[c] = x /\ \A d \in Client : d # c => sent[d] = << >>
    BY <1>5, <2>1
  <2>3. sent \in [Client -> Seq(ToClient)]
    BY <1>5, <2>1
  <2>4. to_client' = [d \in Client |-> to_client[d] \o sent[d]]
    BY <1>7
  <2> QED BY <2>2, <2>3, <2>4
<1> HIDE DEF sent, Sends
<1>9. \A i \in 1..Len(x) : x[i] = m
  <2>1. CASE x = << m >>
    BY <2>1
  <2>2. CASE x = << >>
    BY <2>2
  <2> QED BY <1>7, <2>1, <2>2
<1>10. \A d \in Client : \A t \in Token : Told(d, sent[d], t)
  <2> SUFFICES ASSUME NEW d \in Client, NEW t \in Token PROVE Told(d, sent[d], t)
    OBVIOUS
  <2>1. CASE d # c
    BY <1>8, <2>1, ToldNothing
  <2>2. CASE d = c
    <3>1. \A k : On(x, k, t) => k = "Result"
      BY <1>3, <1>9 DEF On
    <3>2. t > issued \/ Unoffered(c, t)' => Absent(x, t)
      <4>1. CASE token = NoToken
        BY <1>3, <1>9, <4>1, TokensNat DEF Absent, NoToken
      <4>2. CASE record.phase = "active" /\ token = record.token
        <5>1. ~Unoffered(c, t)'
          BY <4>2 DEF Unoffered
        <5>2. record # NoRecord /\ record.token <= issued
          BY <1>0, <4>2 DEF NoRecord, Counted
        <5>3. ~(issued >= t /\ t > issued)
          BY <1>0, TokensNat DEF Typed
        <5>4. t > issued => t # token
          BY <1>0, <4>2, <5>2, TokensNat DEF Typed
        <5> QED BY <1>3, <1>9, <5>1, <5>4 DEF Absent
      <4> QED BY <4>1, <4>2
    <3> QED BY <1>8, <2>2, <3>1, <3>2 DEF Told
  <2> QED BY <2>1, <2>2
<1>11. HostChange(c, Tail(out), sent)
  <2>1. /\ \A d \in Client : \A t \in Token : Unoffered(d, t)' => Unoffered(d, t)
        /\ \A t \in Token : Opening(t)' => Opening(t)
    BY DEF Unoffered, Holds, Opening
  <2> QED BY <1>1, <1>2, <1>8, <1>10, <2>1 DEF HostChange
<1>12. Typed'
  <2>1. to_client' \in [Client -> Seq(ToClient)]
    <3>1. \A d \in Client : to_client[d] \o sent[d] \in Seq(ToClient)
      BY <1>6, <1>8
    <3> QED BY <1>8, <3>1
  <2>2. to_host' \in [Client -> Seq(ToHost)] /\ failed' \in BOOLEAN
    BY <1>0, <1>1, <1>4 DEF Typed
  <2> QED BY <1>0, <1>2, <2>1, <2>2 DEF Typed
<1>13. InOrder(record)' /\ (record' # NoRecord => record'.token <= issued)
  BY <1>0 DEF Counted, InOrder, SideInOrder
<1>14. failed' \/ \A d \in Client \ terminal : Balanced(d)
  <2> SUFFICES ASSUME ~failed', NEW d \in Client \ terminal PROVE Balanced(d)
    OBVIOUS
  <2>1. Answers(d)' = Answers(d)
    BY DEF Answers
  <2>2. CASE d # c
    <3>1. to_host'[d] = to_host[d] /\ to_client'[d] = to_client[d]
      BY <1>0, <1>1, <1>6, <1>8, <2>2 DEF Typed
    <3> QED BY <2>1, <3>1 DEF Balanced
  <2>3. CASE d = c
    <3> DEFINE a == Count(out, "Request")
               a1 == Count(Tail(out), "Request")
               b == Count(to_client[c], "Result")
               b1 == Count(to_client[c] \o << m >>, "Result")
               z == IF Answers(c) THEN 1 ELSE 0
    <3>1. a \in Nat /\ a1 \in Nat /\ a = a1 + 1
      BY <1>1, CountTail
    <3>2. b \in Nat /\ b1 \in Nat /\ b1 = b + 1
      <4>1. to_client[c] \in Seq(ToClient) /\ << m >> \in Seq(ToClient)
        BY <1>5, <1>6
      <4>2. 1 \in 1..Len(<< m >>) /\ << m >>[1].kind = "Result" /\ \A j \in 1..Len(<< m >>) : j = 1
        BY <1>3, <1>5
      <4> DEFINE s == << m >>
      <4> HIDE DEF s
      <4>3. s \in Seq(ToClient) /\ 1 \in 1..Len(s) /\ s[1].kind = "Result" /\ \A j \in 1..Len(s) : j = 1
        BY <4>1, <4>2 DEF s
      <4>4. Count(to_client[c] \o s, "Result") = Count(to_client[c], "Result") + 1
        BY <4>1, <4>3, CountConcat
      <4>5. b \in Nat
        BY <4>1, CountPlaces
      <4> QED BY <4>4, <4>5 DEF s
    <3>3. to_host'[c] = Tail(out) /\ to_client'[c] = to_client[c] \o << m >>
      <4>1. x = << m >>
        BY <1>7, <2>3
      <4> QED BY <1>0, <1>1, <1>8, <4>1 DEF Typed
    <3>4. z \in Nat
      OBVIOUS
    <3> HIDE DEF a, a1, b, b1, z
    <3>5. a1 + b1 + z = a + b + z
      BY <3>1, <3>2, <3>4
    <3> QED BY <2>1, <2>3, <3>3, <3>5 DEF Balanced, a, a1, b, b1, z
  <2> QED BY <2>2, <2>3
<1>15. \A d \in terminal : sent[d] = << >>
  <2>1. terminal \subseteq Client /\ (c \in terminal => x = << >>)
    BY <1>0, <1>7 DEF Typed
  <2> QED BY <1>8, <2>1
<1>16. failed => failed'
  BY <1>4
<1> QED
  BY <1>2, <1>11, <1>12, <1>13, <1>14, <1>15, <1>16, HostStepKeeps


\* A request on its way is the one that the client waits with.
LEMMA RequestWaits ==
  ASSUME IInv, NEW c \in Client, Read(c, "Request"), c \notin terminal
  PROVE  failed \/ ~Answers(c)
<1> SUFFICES ASSUME ~failed PROVE ~Answers(c)
  OBVIOUS
<1> DEFINE a == Count(to_host[c], "Request")
           a1 == Count(Tail(to_host[c]), "Request")
           b == Count(to_client[c], "Result")
           z == IF Answers(c) THEN 1 ELSE 0
<1>1. a1 \in Nat /\ a = a1 + 1
  BY AtHostHead, CountTail
<1>2. b \in Nat /\ z \in Nat
  BY LocalTyped, CountPlaces DEF IInv
<1>3. a + b + z = 1 \/ a + b + z = 0
  BY DEF IInv, OneAnswer
<1> HIDE DEF a, a1, b
<1>4. z # 1
  BY <1>1, <1>2, <1>3
<1> QED
  BY <1>4

LEMMA JoinKeeps ==
  ASSUME IInv, NEW c \in Client, c \notin terminal, Read(c, "Request"),
         record.phase \in {"offered", "installing"},
         record' = [record EXCEPT !.side[c].initiated = TRUE, !.side[c].slot = TRUE],
         UNCHANGED <<to_client, issued, failed, closed, stop_requested, clientVars>>
  PROVE  IInv'
<1> DEFINE s1 == [record.side[c] EXCEPT !.initiated = TRUE, !.slot = TRUE]
           r1 == [record EXCEPT !.side = [@ EXCEPT ![c] = s1]]
           sent == [d \in Client |-> << >>]
           out == to_host[c]
<1>0. Typed /\ Counted /\ InOrder(record)
  BY DEF IInv
<1>1. /\ out \in Seq(ToHost) /\ out # << >> /\ Tail(out) \in Seq(ToHost) /\ Read1(c, Tail(out))
      /\ Head(out).kind = "Request" /\ to_host' = [to_host EXCEPT ![c] = Tail(out)]
  BY AtHostHead
<1>2. UNCHANGED <<local, request, opened, terminal>>
  BY DEF clientVars
<1>3. record \in Record /\ record # NoRecord
  BY <1>0 DEF Typed, NoRecord
<1>4. record.side \in [Client -> Side] /\ record.side[c] \in Side
  BY <1>3, RecordKinds
<1>5. record' = r1
  BY <1>4
<1>6. /\ s1 \in Side /\ s1.slot /\ s1.exposed = record.side[c].exposed /\ s1.ready = record.side[c].ready
      /\ s1.quiescent = record.side[c].quiescent /\ s1.closing_sent = record.side[c].closing_sent
      /\ s1.retired_sent = record.side[c].retired_sent
  BY <1>4 DEF Side
<1> HIDE DEF s1
<1>7. /\ r1 \in Record /\ r1.phase = record.phase /\ r1.token = record.token
      /\ r1.second = record.second /\ r1.offered = record.offered
      /\ r1.side = [record.side EXCEPT ![c] = s1]
  BY <1>3, <1>4, <1>6 DEF Record
<1> HIDE DEF r1
<1>8. r1 # NoRecord /\ r1.side[c] = s1 /\ \A d \in Client : d # c => r1.side[d] = record.side[d]
  BY <1>4, <1>7, RecordKinds
<1>9. InOrder(r1)
  BY <1>0, <1>3, <1>6, <1>7, <1>8 DEF InOrder, SideInOrder
<1>10. sent \in [Client -> Seq(ToClient)] /\ to_client' = [d \in Client |-> to_client[d] \o sent[d]]
  <2>1. \A d \in Client : to_client[d] \o << >> = to_client[d]
    <3>1. \A d \in Client : to_client[d] \in Seq(ToClient)
      BY <1>0, LocalTyped
    <3> QED BY <3>1
  <2>2. << >> \in Seq(ToClient)
    OBVIOUS
  <2> QED BY <1>0, <2>1, <2>2 DEF Typed
<1>11. HostChange(c, Tail(out), sent)
  <2>1. \A d \in Client : \A t \in Token : Told(d, sent[d], t)
    BY ToldNothing
  <2> HIDE DEF sent
  <2>2. \A t : (Holds(t)' <=> Holds(t)) /\ (Opening(t)' => Opening(t))
    BY <1>3, <1>5, <1>7, <1>8 DEF Holds, Opening
  <2>3. \A d \in Client : \A t : Unoffered(d, t)' => Unoffered(d, t)
    BY <1>5, <1>7, <2>2 DEF Unoffered
  <2>4. \A d \in Client : \A t : (ReadyAt(r1, d, t) => ReadyAt(record, d, t))
                                 /\ (ExposedAt(record, d, t) => ExposedAt(r1, d, t))
    BY <1>3, <1>6, <1>7, <1>8 DEF ReadyAt, ExposedAt
  <2>5. Read1(c, Tail(out)) /\ to_host' = [to_host EXCEPT ![c] = Tail(out)] /\ record' = r1
    BY <1>1, <1>5
  <2> QED BY <1>2, <1>10, <2>1, <2>2, <2>3, <2>4, <2>5 DEF HostChange
<1>12. Typed'
  <2>1. record' \in Record
    BY <1>5, <1>7
  <2>2. to_host' \in [Client -> Seq(ToHost)]
    BY <1>0, <1>1 DEF Typed
  <2> QED BY <1>0, <1>2, <2>1, <2>2 DEF Typed
<1>13. InOrder(record)' /\ (record' # NoRecord => record'.token <= issued)
  BY <1>0, <1>3, <1>5, <1>7, <1>9 DEF Counted
<1>14. failed' \/ \A d \in Client \ terminal : Balanced(d)
  <2> SUFFICES ASSUME ~failed, NEW d \in Client \ terminal PROVE Balanced(d)
    OBVIOUS
  <2>1. CASE d # c
    <3>1. to_host'[d] = to_host[d] /\ (Answers(d)' <=> Answers(d))
      BY <1>0, <1>1, <1>3, <1>5, <1>8, <2>1 DEF Typed, Answers
    <3> QED BY <3>1 DEF Balanced
  <2>2. CASE d = c
    <3> DEFINE a == Count(out, "Request")
               a1 == Count(Tail(out), "Request")
               b == Count(to_client[c], "Result")
    <3>1. a \in Nat /\ a1 \in Nat /\ a = a1 + 1 /\ b \in Nat
      BY <1>0, <1>1, CountTail, CountPlaces, LocalTyped
    <3>2. ~Answers(c) /\ Answers(c)'
      <4>1. ~Answers(c)
        BY RequestWaits
      <4> QED BY <1>5, <1>6, <1>8, <4>1 DEF Answers
    <3>3. to_host'[c] = Tail(out)
      BY <1>0, <1>1 DEF Typed
    <3> HIDE DEF a, a1, b
    <3>4. a1 + b + 1 = a + b + 0
      BY <3>1
    <3> QED BY <2>2, <3>2, <3>3, <3>4 DEF Balanced, a, a1, b
  <2> QED BY <2>1, <2>2
<1>15. \A d \in terminal : sent[d] = << >>
  BY <1>0 DEF Typed
<1> HIDE DEF sent
<1> QED
  BY <1>2, <1>11, <1>12, <1>13, <1>14, <1>15, HostStepKeeps

\* Nobody makes more requests than it may.
LEMMA RequestsBounded ==
  ASSUME Typed, Counted, NEW c \in Client
  PROVE  opened[c] + opened[Peer(c)] <= Tokens
<1> DEFINE d == Peer(c)
<1>1. d \in Client /\ d # c /\ Client = {c, d}
  BY Peers
<1>2. Opens \in Nat /\ Opener \subseteq {c, d} /\ Tokens = Cardinality(Opener) * Opens
  BY <1>1, ConnectionAssumption DEF Tokens
<1>3. /\ opened[c] \in Nat /\ opened[d] \in Nat
      /\ opened[c] <= (IF c \in Opener THEN Opens ELSE 0)
      /\ opened[d] <= (IF d \in Opener THEN Opens ELSE 0)
  BY <1>1 DEF Typed, Counted
<1> HIDE DEF d
<1>4. CASE Opener = {}
  <2>1. Cardinality(Opener) = 0
    BY <1>4, FS_EmptySet
  <2>2. opened[c] = 0 /\ opened[d] = 0
    BY <1>3, <1>4
  <2>3. Tokens = 0
    BY <1>2, <2>1
  <2> QED BY <2>2, <2>3 DEF d
<1>5. ASSUME NEW e \in {c, d}, Opener = {e}
      PROVE  opened[c] + opened[d] <= Tokens
  <2>1. Cardinality(Opener) = 1
    BY <1>5, FS_Singleton
  <2>2. Tokens = Opens
    BY <1>2, <2>1
  <2>3. opened[c] + opened[d] <= Opens
    BY <1>1, <1>2, <1>3, <1>5
  <2> QED BY <2>2, <2>3
<1>6. CASE Opener = {c, d}
  <2>1. IsFiniteSet({c}) /\ Cardinality({c}) = 1 /\ d \notin {c}
    BY <1>1, FS_Singleton
  <2>2. Opener = {c} \cup {d}
    BY <1>6
  <2>3. Cardinality(Opener) = 2
    BY <2>1, <2>2, FS_AddElement
  <2>4. Tokens = Opens + Opens
    BY <1>2, <2>3
  <2> QED BY <1>2, <1>3, <2>4 DEF d
<1> QED
  BY <1>2, <1>4, <1>5, <1>6 DEF d

LEMMA IssuedBounded ==
  ASSUME Typed, Counted
  PROVE  issued \in 0..Tokens
<1>1. PICK c \in Client : TRUE
  <2>1. Client # {}
    BY ConnectionAssumption, FS_EmptySet
  <2> QED BY <2>1
<1> DEFINE d == Peer(c)
           a == Count(to_host[c], "Request")
           b == Count(to_host[d], "Request")
<1>2. d \in Client
  BY Peers
<1>3. a \in Nat /\ b \in Nat
  <2>1. to_host[c] \in Seq(ToHost) /\ to_host[d] \in Seq(ToHost)
    BY <1>2, LocalTyped
  <2> QED BY <2>1, CountPlaces
<1>4. /\ issued \in Nat /\ opened[c] \in Nat /\ opened[d] \in Nat /\ Tokens \in Nat
      /\ issued + a + b <= opened[c] + opened[d] /\ opened[c] + opened[d] <= Tokens
  BY <1>2, RequestsBounded, TokensNat DEF Typed, Counted
<1> HIDE DEF a, b, d
<1> QED
  BY <1>3, <1>4

LEMMA ViewFresh ==
  ASSUME NEW g \in Facts, NEW q, NEW out, NEW r, NEW t, Untouched(q, out, r, t), ~g.ready
  PROVE  View(g, q, out, r, t)
<1>1. \A k : ~On(q, k, t) /\ ~On(out, k, t)
  BY DEF Untouched, Absent, On
<1>2. ClosingLast(q, t) /\ OfferFirst(q, t)
  BY <1>1 DEF ClosingLast, OfferFirst, On
<1>3. r = NoLocal /\ r.phase = "empty" /\ ~r.endpoint /\ r.owes = {} /\ ~r.closing_seen
  BY DEF Untouched, NoLocal
<1>4. ~Installed(q, r, t)
  BY <1>1, <1>3 DEF Installed
<1> QED
  BY <1>1, <1>2, <1>3, <1>4 DEF View

\* The token of a new connection is one that nobody has heard of.
LEMMA CreateKeeps ==
  ASSUME IInv, NEW c \in Client, c \notin terminal, Read(c, "Request"), record.phase = "none",
         issued' = issued + 1,
         record' = [phase |-> "offered", token |-> issue_token, second |-> Peer(c), offered |-> FALSE,
                    side |-> [d \in Client |-> IF d = c THEN [NewSide EXCEPT !.slot = TRUE, !.initiated = TRUE]
                                               ELSE NewSide]],
         UNCHANGED <<to_client, failed, closed, stop_requested, clientVars>>
  PROVE  IInv'
<1> DEFINE n == issued + 1
           out == to_host[c]
           a == Count(out, "Request")
           a1 == Count(Tail(out), "Request")
<1>0. Typed /\ Counted /\ InOrder(record) /\ Gone /\ OneAnswer /\ Views
  BY DEF IInv
<1>1. /\ out \in Seq(ToHost) /\ out # << >> /\ Tail(out) \in Seq(ToHost)
      /\ Head(out).kind = "Request" /\ to_host' = [to_host EXCEPT ![c] = Tail(out)]
  BY AtHostHead
<1>2. UNCHANGED <<local, request, opened, terminal>>
  BY DEF clientVars
<1>3. a1 \in Nat /\ a = a1 + 1
  BY <1>1, CountTail
<1>4. record = NoRecord
  BY <1>0, RecordKinds DEF Typed
<1>5. Peer(c) \in Client /\ Peer(c) # c
  BY Peers
<1>6. n \in Token
  <2> DEFINE b == Count(to_host[Peer(c)], "Request")
             x == opened[c]
             y == opened[Peer(c)]
  <2>1. b \in Nat /\ x \in Nat /\ y \in Nat /\ issued \in Nat /\ issued + a + b <= x + y /\ x + y <= Tokens
    BY <1>0, <1>5, RequestsBounded, LocalTyped, CountPlaces DEF Typed, Counted
  <2> HIDE DEF a, a1, b, x, y
  <2>2. n >= 1 /\ n <= Tokens /\ n \in Nat
    BY <1>3, <2>1, TokensNat
  <2> QED BY <2>2, TokensNat
<1>7. /\ record'.phase = "offered" /\ record'.token = n /\ record'.second = Peer(c) /\ ~record'.offered
      /\ record' \in Record
      /\ \A d \in Client : /\ ~record'.side[d].exposed /\ ~record'.side[d].ready /\ ~record'.side[d].quiescent
                           /\ ~record'.side[d].closing_sent /\ ~record'.side[d].retired_sent
                           /\ record'.side[d].slot = (d = c)
  <2> DEFINE first == [NewSide EXCEPT !.slot = TRUE, !.initiated = TRUE]
             sides == [d \in Client |-> IF d = c THEN first ELSE NewSide]
  <2>1. /\ first \in Side /\ NewSide \in Side /\ first.slot /\ ~NewSide.slot
        /\ \A s \in {first, NewSide} : ~s.exposed /\ ~s.ready /\ ~s.quiescent /\ ~s.closing_sent /\ ~s.retired_sent
    <3>1. /\ NewSide \in Side /\ ~NewSide.slot /\ ~NewSide.exposed /\ ~NewSide.ready /\ ~NewSide.quiescent
          /\ ~NewSide.closing_sent /\ ~NewSide.retired_sent
      BY DEF NewSide, Side
    <3>2. /\ first \in Side /\ first.slot /\ ~first.exposed /\ ~first.ready /\ ~first.quiescent
          /\ ~first.closing_sent /\ ~first.retired_sent
      BY <3>1 DEF Side
    <3> QED BY <3>1, <3>2
  <2> HIDE DEF first
  <2>2. sides \in [Client -> Side] /\ \A d \in Client : sides[d] \in {first, NewSide} /\ sides[d].slot = (d = c)
    <3>1. sides \in [Client -> Side] /\ \A d \in Client : sides[d] \in {first, NewSide}
      BY <2>1
    <3>2. first.slot = TRUE /\ NewSide.slot = FALSE
      BY <2>1 DEF Side
    <3>3. \A d \in Client : sides[d].slot = (d = c)
      BY <3>2
    <3> QED BY <3>1, <3>3
  <2>3. record' = [phase |-> "offered", token |-> n, second |-> Peer(c), offered |-> FALSE, side |-> sides]
    BY DEF first, issue_token
  <2> HIDE DEF sides, n
  <2>4. /\ record'.phase = "offered" /\ record'.token = n /\ record'.second = Peer(c) /\ ~record'.offered
        /\ record'.side = sides
    BY <2>3
  <2>5. record' \in Record
    BY <1>5, <1>6, <2>2, <2>3 DEF Record
  <2>6. ASSUME NEW d \in Client
        PROVE  /\ ~sides[d].exposed /\ ~sides[d].ready /\ ~sides[d].quiescent /\ ~sides[d].closing_sent
               /\ ~sides[d].retired_sent /\ sides[d].slot = (d = c)
    <3> DEFINE s == sides[d]
    <3>1. s \in {first, NewSide} /\ s.slot = (d = c)
      BY <2>2
    <3> HIDE DEF s
    <3> QED BY ONLY <2>1, <3>1 DEF s
  <2> QED BY ONLY <2>4, <2>5, <2>6
<1>8. record' # NoRecord
  BY <1>7, RecordKinds
<1>9. Typed'
  <2>1. to_host' \in [Client -> Seq(ToHost)] /\ issued' \in Nat
    BY <1>0, <1>1 DEF Typed
  <2> QED BY <1>0, <1>2, <1>7, <2>1 DEF Typed
<1>10. Gone' /\ InOrder(record)'
  BY <1>0, <1>2, <1>7 DEF Gone, InOrder, SideInOrder
<1>11. Counted'
  <2>1. ASSUME NEW d \in Client
        PROVE  issued' + Count(to_host'[d], "Request") + Count(to_host'[Peer(d)], "Request")
                 <= opened'[d] + opened'[Peer(d)]
    <3> DEFINE b == Count(to_host[Peer(c)], "Request")
    <3>1. b \in Nat /\ opened[c] \in Nat /\ opened[Peer(c)] \in Nat /\ issued \in Nat
          /\ issued + a + b <= opened[c] + opened[Peer(c)]
      BY <1>0, <1>5, LocalTyped, CountPlaces DEF Typed, Counted
    <3>2. to_host'[c] = Tail(out) /\ to_host'[Peer(c)] = to_host[Peer(c)]
      BY <1>0, <1>1, <1>5 DEF Typed
    <3> HIDE DEF a, a1, b
    <3>3. /\ issued' + a1 + b <= opened[c] + opened[Peer(c)]
          /\ issued' + b + a1 <= opened[Peer(c)] + opened[c]
      BY <1>3, <3>1
    <3>4. CASE d = c
      BY <1>2, <3>2, <3>3, <3>4 DEF a1, b
    <3>5. CASE d = Peer(c)
      <4>1. Peer(d) = c
        BY <3>5, Peers
      <4> QED BY <1>2, <3>2, <3>3, <3>5, <4>1 DEF a1, b
    <3> QED BY <3>4, <3>5, Peers
  <2>2. record'.token <= issued'
    <3>1. n <= issued'
      BY <1>0 DEF Typed
    <3> QED BY <1>7, <3>1
  <2> QED BY <1>0, <1>2, <2>1, <2>2 DEF Counted
<1>12. OneAnswer'
  <2> SUFFICES ASSUME ~failed, NEW d \in Client \ terminal
               PROVE Count(to_host'[d], "Request") + Count(to_client'[d], "Result")
                        + (IF Answers(d)' THEN 1 ELSE 0)
                        = IF request'[d] \in {"pending", "cancelled"} THEN 1 ELSE 0
    BY <1>2 DEF OneAnswer
  <2>1. /\ ~Answers(d) /\ (Answers(d)' <=> d = c)
    BY <1>4, <1>7, <1>8 DEF Answers
  <2>2. Count(to_host[d], "Request") + Count(to_client[d], "Result") + 0
          = IF request[d] \in {"pending", "cancelled"} THEN 1 ELSE 0
    BY <1>0, <2>1 DEF OneAnswer
  <2>3. CASE d # c
    <3>1. to_host'[d] = to_host[d]
      BY <1>0, <1>1, <2>3 DEF Typed
    <3> QED BY <1>2, <2>1, <2>2, <2>3, <3>1
  <2>4. CASE d = c
    <3> DEFINE b == Count(to_client[c], "Result")
               w == IF request[c] \in {"pending", "cancelled"} THEN 1 ELSE 0
    <3>1. b \in Nat /\ a + b + 0 = w
      BY <1>0, <2>2, <2>4, LocalTyped, CountPlaces
    <3>2. to_host'[c] = Tail(out)
      BY <1>0, <1>1 DEF Typed
    <3> HIDE DEF a, a1, b, w
    <3>3. a1 + b + 1 = w
      BY <1>3, <3>1
    <3> QED BY <1>2, <2>1, <2>4, <3>2, <3>3 DEF a1, b, w
  <2> QED BY <2>3, <2>4
<1>13. ASSUME NEW d \in Client, NEW t \in Token
       PROVE  View(Known(d, t)', to_client'[d], to_host'[d], local'[d][t], t)
  <2> DEFINE G1 == Known(d, t)
             G2 == Known(d, t)'
             Q == to_client[d]
             O1 == to_host[d]
             O2 == to_host'[d]
             R == local[d][t]
  <2>1. /\ G1 \in Facts /\ G2 \in Facts /\ R \in Local /\ O1 \in Seq(ToHost) /\ Peer(d) \in Client
        /\ View(G1, Q, O1, R, t)
    BY <1>0, <1>9, KnownFacts, KnownFactsPrimed, LocalTyped, Peers DEF Views
  <2>2. (\A k : On(O2, k, t) => On(O1, k, t)) /\ (Absent(O1, t) => Absent(O2, t))
    <3>1. O2 = O1 \/ (O1 # << >> /\ O2 = Tail(O1))
      BY <1>0, <1>1 DEF Typed
    <3> HIDE DEF O1, O2
    <3>2. O1 \in Seq(ToHost)
      BY <2>1
    <3>3. CASE O1 # << >> /\ O2 = Tail(O1)
      BY <3>2, <3>3, OnTail
    <3> QED BY <3>1, <3>3
  <2>3. /\ ~G1.exposed /\ ~G1.ready /\ ~G1.opening /\ ~G2.ready
        /\ G1.over = Over(t) /\ G2.over = Over(t)'
        /\ G1.gone = (d \in terminal) /\ G2.gone = (d \in terminal)
        /\ G1.peer = SteadyAt(Peer(d), t) /\ G2.peer = SteadyAt(Peer(d), t)'
        /\ t > issued => G1.unknown
        /\ G2.opening = Opening(t)' /\ G2.unknown = (t > issued' \/ Unoffered(d, t)')
    <3>1. ~Holds(t) /\ ~Opening(t) /\ ~Unoffered(d, t)
      BY <1>4 DEF Holds, Opening, Unoffered
    <3>2. /\ G1.exposed = (Holds(t) /\ record.side[d].exposed /\ ~record.side[d].quiescent)
          /\ G1.ready = (Holds(t) /\ record.side[d].ready) /\ G1.opening = Opening(t)
          /\ G1.over = Over(t) /\ G1.gone = (d \in terminal) /\ G1.peer = SteadyAt(Peer(d), t)
          /\ G1.unknown = (t > issued \/ Unoffered(d, t))
      BY <1>0, KnownFacts
    <3>3. /\ G2.ready = (Holds(t)' /\ record'.side[d].ready) /\ G2.opening = Opening(t)'
          /\ G2.over = Over(t)' /\ G2.gone = (d \in terminal') /\ G2.peer = SteadyAt(Peer(d), t)'
          /\ G2.unknown = (t > issued' \/ Unoffered(d, t)')
      BY <1>9, KnownFactsPrimed
    <3>4. ~record'.side[d].ready /\ terminal' = terminal
      BY <1>2, <1>7
    <3> HIDE DEF G1, G2
    <3>5. /\ ~G1.exposed /\ ~G1.ready /\ ~G1.opening /\ ~G2.ready
          /\ t > issued => G1.unknown
      BY <3>1, <3>2, <3>3, <3>4
    <3> QED BY <3>2, <3>3, <3>4, <3>5
  <2>4. /\ t \in Nat /\ issued \in Nat /\ (t > issued \/ t <= issued)
    BY <1>0, TokensNat DEF Typed
  <2>5. CASE t > issued
    <3>1. Untouched(Q, O1, R, t)
      BY <2>1, <2>3, <2>5 DEF View
    <3>2. Untouched(Q, O2, R, t)
      BY <2>2, <3>1 DEF Untouched
    <3> HIDE DEF G2, Q, O2, R
    <3>3. View(G2, Q, O2, R, t)
      BY <2>1, <2>3, <3>2, ViewFresh
    <3> QED BY <1>2, <3>3 DEF G2, Q, O2, R
  <2>6. CASE t <= issued
    <3>1. t # n /\ ~(t > issued') /\ ~(t > issued) /\ t <= issued'
      BY <2>4, <2>6
    <3>2. ~Opening(t)' /\ ~Opening(t) /\ ~Unoffered(d, t)'
      BY <1>4, <1>7, <3>1 DEF Opening, Unoffered, Holds
    <3>3. Over(t) => Over(t)'
      BY <1>2, <3>1, <3>2 DEF Over
    <3>4. SteadyAt(Peer(d), t) => SteadyAt(Peer(d), t)'
      BY <1>2, <3>3 DEF SteadyAt
    <3>5. ~Installed(Q, R, t)
      BY <2>1, <2>3 DEF View
    <3> HIDE DEF G1, G2, Q, O1, O2, R
    <3>6. Milder(G1, G2, Q, O1, R, t)
      BY <2>3, <3>1, <3>2, <3>3, <3>4, <3>5 DEF Milder
    <3>7. View(G2, Q, O2, R, t)
      BY <2>1, <2>2, <3>6, ViewMilder
    <3> QED BY <1>2, <3>7 DEF G2, Q, O2, R
  <2> QED BY <2>4, <2>5, <2>6
<1>14. Views'
  BY <1>13 DEF Views
<1> QED
  BY <1>9, <1>10, <1>11, <1>12, <1>14 DEF IInv

LEMMA RequestKeeps ==
  ASSUME IInv, NEW c \in Client, Request(c)
  PROVE  IInv'
<1>1. Read(c, "Request") /\ UNCHANGED <<closed, stop_requested, clientVars>>
  BY DEF Request
<1>2. \/ refuse(c, NoToken) /\ UNCHANGED <<record, issued>>
      \/ refuse(c, IF record.phase = "active" THEN record.token ELSE NoToken) /\ UNCHANGED <<record, issued>>
      \/ /\ Live(c) /\ record.phase \notin {"none", "closing", "active"}
         /\ record' = [record EXCEPT !.side[c].initiated = TRUE, !.side[c].slot = TRUE]
         /\ UNCHANGED <<to_client, issued, failed>>
      \/ /\ Live(c) /\ record.phase = "none" /\ issued' = issued + 1
         /\ record' = [phase |-> "offered", token |-> issue_token, second |-> Peer(c), offered |-> FALSE,
                       side |-> [d \in Client |-> IF d = c THEN [NewSide EXCEPT !.slot = TRUE, !.initiated = TRUE]
                                                  ELSE NewSide]]
         /\ UNCHANGED <<to_client, failed>>
  BY DEF Request
<1>3. CASE refuse(c, NoToken) /\ UNCHANGED <<record, issued>>
  BY <1>1, <1>3, RefuseKeeps
<1>4. CASE refuse(c, IF record.phase = "active" THEN record.token ELSE NoToken) /\ UNCHANGED <<record, issued>>
  <2> DEFINE token == IF record.phase = "active" THEN record.token ELSE NoToken
  <2>1. refuse(c, token) /\ (token = NoToken \/ (record.phase = "active" /\ token = record.token))
    BY <1>4
  <2> HIDE DEF token
  <2> QED BY <1>1, <1>4, <2>1, RefuseKeeps
<1>5. CASE /\ Live(c) /\ record.phase \notin {"none", "closing", "active"}
           /\ record' = [record EXCEPT !.side[c].initiated = TRUE, !.side[c].slot = TRUE]
           /\ UNCHANGED <<to_client, issued, failed>>
  <2>1. record.phase \in {"offered", "installing"}
    BY <1>5, RecordKinds, RecordTyped DEF NoRecord
  <2> QED BY <1>1, <1>5, <2>1, JoinKeeps DEF Live
<1>6. CASE /\ Live(c) /\ record.phase = "none" /\ issued' = issued + 1
           /\ record' = [phase |-> "offered", token |-> issue_token, second |-> Peer(c), offered |-> FALSE,
                       side |-> [d \in Client |-> IF d = c THEN [NewSide EXCEPT !.slot = TRUE, !.initiated = TRUE]
                                                  ELSE NewSide]]
           /\ UNCHANGED <<to_client, failed>>
  BY <1>1, <1>6, CreateKeeps DEF Live
<1> QED
  BY <1>2, <1>3, <1>4, <1>5, <1>6

(* ------------------------------ the Host's progress() ------------------- *)

LEMMA CountAdd ==
  ASSUME NEW M, NEW q \in Seq(M), NEW s \in Seq(M), NEW k
  PROVE  /\ Count(q, k) \in Nat /\ Count(s, k) \in Nat
         /\ Count(q \o s, k) = Count(q, k) + Count(s, k)
<1> DEFINE n == Len(q)
           m == Len(s)
           u == q \o s
           A == Places(q, k)
           T == Places(s, k)
           B == {i + n : i \in T}
           U == Places(u, k)
           f == [i \in T |-> i + n]
<1>1. /\ n \in Nat /\ m \in Nat /\ u \in Seq(M) /\ Len(u) = n + m
      /\ \A i \in 1..n : u[i] = q[i]
      /\ \A i \in 1..m : u[i + n] = s[i]
  OBVIOUS
<1>2. /\ IsFiniteSet(A) /\ Count(q, k) = Cardinality(A) /\ Cardinality(A) \in Nat
      /\ IsFiniteSet(T) /\ Count(s, k) = Cardinality(T) /\ Cardinality(T) \in Nat
      /\ Count(u, k) = Cardinality(U)
  BY <1>1, CountPlaces, FS_CardinalityType
<1> HIDE DEF u
<1>3. \A i \in 1..(n + m) : i \in 1..n \/ (i > n /\ i - n \in 1..m /\ u[i] = s[i - n])
  <2> SUFFICES ASSUME NEW i \in 1..(n + m), ~(i \in 1..n)
               PROVE  i > n /\ i - n \in 1..m /\ u[i] = s[i - n]
    OBVIOUS
  <2>1. i > n /\ i - n \in 1..m /\ (i - n) + n = i
    BY <1>1
  <2> QED BY <1>1, <2>1
<1>4. \A i \in T : i \in 1..m /\ s[i].kind = k /\ i + n \in 1..(n + m) /\ i + n > n
  BY <1>1 DEF Places
<1>5. U \subseteq A \cup B
  <2> SUFFICES ASSUME NEW i \in U PROVE i \in A \cup B
    OBVIOUS
  <2>1. i \in 1..(n + m) /\ u[i].kind = k
    BY <1>1 DEF Places
  <2>2. CASE i \in 1..n
    BY <1>1, <2>1, <2>2 DEF Places
  <2>3. CASE i > n /\ i - n \in 1..m /\ u[i] = s[i - n]
    <3>1. i - n \in T /\ (i - n) + n = i
      BY <1>1, <2>1, <2>3 DEF Places
    <3> QED BY <3>1
  <2> QED BY <1>3, <2>1, <2>2, <2>3
<1>6. A \subseteq U /\ B \subseteq U
  <2>1. A \subseteq U
    BY <1>1 DEF Places
  <2>2. \A i \in T : i + n \in U
    BY <1>1, <1>4 DEF Places
  <2> QED BY <2>1, <2>2
<1>7. A \cap B = {}
  <2>1. \A i \in A : ~(i > n)
    BY <1>1 DEF Places
  <2>2. \A i \in B : i > n
    BY <1>4
  <2> QED BY <2>1, <2>2
<1> HIDE DEF A, T, U
<1>8. f \in Bijection(T, B)
  <2>1. f \in [T -> B] /\ (\A y \in B : \E i \in T : f[i] = y)
    OBVIOUS
  <2>2. \A i, j \in T : f[i] = f[j] => i = j
    BY <1>1, <1>4
  <2> QED BY <2>1, <2>2 DEF Bijection, Injection, Surjection, IsInjective
<1>9. IsFiniteSet(B) /\ Cardinality(B) = Cardinality(T)
  <2>1. ExistsBijection(T, B)
    BY <1>8 DEF ExistsBijection
  <2> HIDE DEF B
  <2> QED BY <1>2, <2>1, FS_Bijection
<1>10. U = A \cup B
  BY <1>5, <1>6
<1> HIDE DEF B
<1>11. Cardinality(A \cup B) = Cardinality(A) + Cardinality(B) - Cardinality(A \cap B)
  BY <1>2, <1>9, FS_Union
<1>12. Cardinality(A \cap B) = 0
  BY <1>7, FS_EmptySet
<1> QED
  BY <1>2, <1>9, <1>10, <1>11, <1>12 DEF u

LEMMA CountOne ==
  ASSUME NEW M, NEW m \in M, NEW k
  PROVE  /\ << m >> \in Seq(M)
         /\ m.kind = k => Count(<< m >>, k) = 1
         /\ m.kind # k => Count(<< m >>, k) = 0
<1> DEFINE s == << m >>
<1>1. s \in Seq(M) /\ s # << >> /\ Head(s) = m /\ Tail(s) = << >>
  OBVIOUS
<1> HIDE DEF s
<1>2. Count(Tail(s), k) = 0
  BY <1>1, CountEmpty
<1>3. /\ Head(s).kind = k => Count(s, k) = Count(Tail(s), k) + 1
      /\ Head(s).kind # k => Count(s, k) = Count(Tail(s), k)
  BY <1>1, CountTail
<1> QED
  BY <1>1, <1>2, <1>3 DEF s

\* A message that may follow others.
Followed(q, b, m) == q \o (IF b THEN << m >> ELSE << >>)

LEMMA SaidNext ==
  ASSUME NEW q \in Seq(ToClient), NEW b \in BOOLEAN, NEW m \in ToClient
  PROVE  /\ Followed(q, b, m) \in Seq(ToClient)
         /\ Len(q) \in Nat /\ Len(Followed(q, b, m)) = Len(q) + (IF b THEN 1 ELSE 0)
         /\ \A k, t : On(Followed(q, b, m), k, t) <=> On(q, k, t) \/ (b /\ m.kind = k /\ m.token = t)
         /\ Count(q, "Result") \in Nat
         /\ b /\ m.kind = "Result" => Count(Followed(q, b, m), "Result") = Count(q, "Result") + 1
         /\ ~(b /\ m.kind = "Result") => Count(Followed(q, b, m), "Result") = Count(q, "Result")
<1> DEFINE s == << m >>
<1>1. s \in Seq(ToClient) /\ Len(s) = 1 /\ s[1] = m
  OBVIOUS
<1>2. \A k : (m.kind = k => Count(s, k) = 1) /\ (m.kind # k => Count(s, k) = 0)
  BY CountOne
<1> HIDE DEF s
<1>3. \A k, t : On(s, k, t) <=> m.kind = k /\ m.token = t
  BY <1>1 DEF On
<1>4. CASE ~b
  <2>1. Followed(q, b, m) = q
    BY <1>4 DEF Followed
  <2>2. Len(q) \in Nat /\ Count(q, "Result") \in Nat
    BY CountPlaces
  <2> QED BY <1>4, <2>1, <2>2
<1>5. CASE b
  <2>1. Followed(q, b, m) = q \o s
    BY <1>5 DEF Followed, s
  <2>2. q \o s \in Seq(ToClient) /\ Len(q \o s) = Len(q) + 1 /\ Len(q) \in Nat
    <3>1. s \in Seq(ToClient) /\ Len(s) = 1
      BY <1>1
    <3>2. q \o s \in Seq(ToClient) /\ Len(q \o s) = Len(q) + Len(s) /\ Len(q) \in Nat
      BY <3>1, ConcatProperties, LenProperties
    <3> QED BY <3>1, <3>2
  <2>3. \A k, t : On(q \o s, k, t) <=> On(q, k, t) \/ On(s, k, t)
    BY <1>1, OnConcat
  <2>4. Count(q \o s, "Result") = Count(q, "Result") + Count(s, "Result") /\ Count(q, "Result") \in Nat
    BY <1>1, CountAdd
  <2> DEFINE u == q \o s
             x == Count(q, "Result")
             y == Count(s, "Result")
             z == Count(u, "Result")
  <2>5. /\ z = x + y /\ x \in Nat /\ (m.kind = "Result" => y = 1) /\ (m.kind # "Result" => y = 0)
    BY <1>2, <2>4
  <2>6. \A k, t : On(u, k, t) <=> On(q, k, t) \/ (m.kind = k /\ m.token = t)
    BY <1>3, <2>3
  <2> HIDE DEF u, x, y, z
  <2>7. (m.kind = "Result" => z = x + 1) /\ (m.kind # "Result" => z = x)
    BY <2>5
  <2>8. Followed(q, b, m) = u /\ u \in Seq(ToClient) /\ Len(u) = Len(q) + 1 /\ Len(q) \in Nat
    BY <2>1, <2>2 DEF u
  <2> QED BY <1>5, <2>5, <2>6, <2>7, <2>8 DEF x, z
<1> QED
  BY <1>4, <1>5

\* What a pass over the record may do to a side, and send to it.
Passes(r, d, side, s) ==
    /\ side \in Side /\ s \in Seq(ToClient) /\ \A k, t : On(s, k, t) => t = record.token
    /\ side.ready => record.side[d].ready
    /\ record.side[d].exposed => side.exposed
    /\ side.quiescent => ~Installed(to_client[d], local[d][record.token], record.token)
    /\ d \in terminal => s = << >>
    /\ d \notin terminal => Count(s, "Result") + (IF side.slot THEN 1 ELSE 0)
                              = (IF record.side[d].slot THEN 1 ELSE 0)
    /\ On(s, "Install", record.token) => r.phase = "installing" /\ side.exposed
    /\ On(s, "Offer", record.token) => /\ r.phase = "offered" /\ d = record.second
                                       /\ ~record.offered /\ Len(s) = 1
    /\ On(s, "Closing", record.token) => r.phase = "closing"
    /\ On(s, "Retired", record.token) => r.phase = "closing" /\ side.retired_sent
    /\ On(s, "Activate", record.token) => r.phase = "active"
    /\ r.phase = "offered" /\ ~r.offered /\ d = record.second => s = << >>

LEMMA PublishKeeps ==
  ASSUME IInv, record \in Record, NEW r \in Record, r.token = record.token, r.second = record.second,
         r.phase = "offered" => record.phase = "offered",
         record.phase = "closing" => r.phase = "closing", ~r.offered => ~record.offered,
         NEW sides, \A d \in Client : Passes(r, d, sides[d].side, sides[d].sent),
         NEW r1, r1 = [r EXCEPT !.side = [c \in Client |-> sides[c].side]], InOrder(r1),
         Publish(r, sides), UNCHANGED <<to_host, issued, closed, failed, stop_requested, clientVars>>
  PROVE  IInv'
<1> DEFINE tok == record.token
           sent == [d \in Client |-> sides[d].sent]
           Inst(d) == Installed(to_client[d], local[d][tok], tok)
<1>0. Typed /\ Counted /\ InOrder(record) /\ Gone /\ OneAnswer /\ Views
  BY DEF IInv
<1>1. UNCHANGED <<local, request, opened, terminal, to_host, issued, failed>>
  BY DEF clientVars
<1>2. tok \in Token /\ record # NoRecord /\ r # NoRecord /\ record.side \in [Client -> Side]
  BY RecordKinds
<1>3. \A d \in Client : Passes(r, d, sides[d].side, sides[d].sent) /\ sides[d].side \in Side
  BY DEF Passes
<1>4. /\ r1 \in Record /\ r1.phase = r.phase /\ r1.token = tok /\ r1.second = r.second /\ r1.offered = r.offered
      /\ \A d \in Client : r1.side[d] = sides[d].side
  <2> DEFINE new == [c \in Client |-> sides[c].side]
  <2>1. new \in [Client -> Side] /\ \A d \in Client : new[d] = sides[d].side
    BY <1>3
  <2>2. r1 = [r EXCEPT !.side = new]
    OBVIOUS
  <2> HIDE DEF new
  <2>3. r1 \in Record /\ r1.phase = r.phase /\ r1.token = r.token /\ r1.second = r.second
        /\ r1.offered = r.offered /\ r1.side = new
    BY <2>1, <2>2 DEF Record
  <2> QED BY <2>1, <2>3
<1>5. r1 # NoRecord
  BY <1>4, RecordKinds
<1>6. \/ record' = r1
      \/ record' = NoRecord /\ r.phase = "closing" /\ \A d \in Client : sides[d].side.retired_sent
  BY DEF Publish
<1>7. \A d \in Client : SideInOrder(r1, d)
  BY <1>5 DEF InOrder
\* Once a side is retired, nobody has its descriptor any more.
<1>8. ASSUME NEW d \in Client, sides[d].side.retired_sent
      PROVE  ~sides[d].side.slot /\ \A e \in Client : sides[e].side.quiescent /\ ~Inst(e)
  <2>1. ~sides[d].side.slot /\ \A e \in Client : sides[e].side.quiescent
    BY <1>4, <1>7, <1>8 DEF SideInOrder
  <2>2. \A e \in Client : sides[e].side.quiescent => ~Inst(e)
    BY <1>3 DEF Passes
  <2> QED BY <2>1, <2>2
<1>9. \A t : Opening(t)' => Opening(t) /\ t = tok /\ r.phase # "closing"
  BY <1>2, <1>4, <1>6 DEF Opening, Holds
<1>10. r.phase # "closing" => record' = r1
  BY <1>6
<1>11. to_client' = [d \in Client |-> to_client[d] \o sent[d]] /\ sent \in [Client -> Seq(ToClient)]
       /\ \A d \in Client : sent[d] = sides[d].sent
  <2>1. \A d \in Client : sides[d].sent \in Seq(ToClient)
    BY <1>3 DEF Passes
  <2> QED BY <2>1 DEF Publish
<1> HIDE DEF sent
<1>12. \A d \in Client : \A t \in Token :
         /\ Unoffered(d, t)' => Unoffered(d, t) /\ t = tok /\ d = record.second /\ r.phase = "offered" /\ ~r.offered
         /\ ReadyAt(record', d, t) => ReadyAt(record, d, t)
         /\ ExposedAt(record, d, t) /\ Installed(to_client[d], local[d][t], t) => ExposedAt(record', d, t)
  <2> SUFFICES ASSUME NEW d \in Client, NEW t \in Token
               PROVE  /\ Unoffered(d, t)' => Unoffered(d, t) /\ t = tok /\ d = record.second /\ r.phase = "offered" /\ ~r.offered
                      /\ ReadyAt(record', d, t) => ReadyAt(record, d, t)
                      /\ ExposedAt(record, d, t) /\ Installed(to_client[d], local[d][t], t) => ExposedAt(record', d, t)
    OBVIOUS
  <2>1. Unoffered(d, t)' => Unoffered(d, t) /\ t = tok /\ d = record.second /\ r.phase = "offered" /\ ~r.offered
    BY <1>2, <1>4, <1>6 DEF Unoffered, Holds
  <2>2. ReadyAt(record', d, t) => ReadyAt(record, d, t)
    BY <1>2, <1>3, <1>4, <1>6 DEF ReadyAt, Passes
  <2>3. ASSUME ExposedAt(record, d, t), Installed(to_client[d], local[d][t], t)
        PROVE  ExposedAt(record', d, t)
    <3>1. t = tok /\ Inst(d) /\ record.side[d].exposed
      BY <2>3 DEF ExposedAt
    <3>2. sides[d].side.exposed /\ ~sides[d].side.quiescent
      BY <1>3, <3>1 DEF Passes
    <3>3. record' = r1
      BY <1>6, <1>8, <3>1
    <3> QED BY <1>4, <1>5, <3>1, <3>2, <3>3 DEF ExposedAt
  <2> QED BY <2>1, <2>2, <2>3
<1>13. \A d \in Client : \A t \in Token : Told(d, sent[d], t)
  <2> SUFFICES ASSUME NEW d \in Client, NEW t \in Token PROVE Told(d, sent[d], t)
    OBVIOUS
  <2> DEFINE s == sent[d]
  <2>1. Passes(r, d, sides[d].side, s)
    BY <1>3, <1>11
  <2>2. s \in Seq(ToClient) /\ \A k, u : On(s, k, u) => u = tok
    BY <2>1 DEF Passes
  <2> HIDE DEF s
  <2>3. t > issued \/ Unoffered(d, t)' => Absent(s, t)
    <3>1. (\A k : ~On(s, k, t)) => Absent(s, t)
      BY DEF On, Absent
    <3>2. CASE t > issued
      <4>1. tok <= issued /\ issued \in Nat /\ tok \in Nat /\ t \in Nat
        BY <1>0, <1>2, TokensNat DEF Counted, Typed
      <4>2. t # tok
        BY <3>2, <4>1
      <4> QED BY <2>2, <3>1, <4>2
    <3>3. CASE Unoffered(d, t)'
      <4>1. s = << >>
        BY <1>12, <2>1, <3>3 DEF Passes
      <4> QED BY <4>1 DEF Absent
    <3> QED BY <3>2, <3>3
  <2>4. CASE t # tok
    <3>1. \A k : ~On(s, k, t)
      BY <2>2, <2>4
    <3> QED BY <2>3, <3>1 DEF Told, s
  <2>5. CASE t = tok
    <3> DEFINE g == Known(d, t)
    <3>1. /\ g \in Facts /\ View(g, to_client[d], to_host[d], local[d][t], t)
          /\ g.ready = ReadyAt(record, d, t) /\ g.over = Over(t) /\ g.gone = (d \in terminal)
          /\ g.unknown = (t > issued \/ Unoffered(d, t))
      BY <1>0, KnownFacts DEF Views, ReadyAt, Holds
    <3> HIDE DEF g
    <3>2. On(s, "Install", t) => ExposedAt(record', d, t) /\ Opening(t)' /\ ~On(s, "Closing", t)
      <4> SUFFICES ASSUME On(s, "Install", t)
                   PROVE  ExposedAt(record', d, t) /\ Opening(t)' /\ ~On(s, "Closing", t)
        OBVIOUS
      <4>1. r.phase = "installing" /\ sides[d].side.exposed /\ ~On(s, "Closing", t)
        BY <2>1, <2>5 DEF Passes
      <4>2. record' = r1 /\ ~sides[d].side.quiescent
        BY <1>4, <1>7, <1>10, <4>1 DEF SideInOrder
      <4> QED BY <1>4, <1>5, <2>5, <4>1, <4>2 DEF ExposedAt, Opening, Holds
    <3>3. On(s, "Offer", t) => /\ Untouched(to_client[d], to_host[d], local[d][t], t)
                               /\ ~ReadyAt(record', d, t) /\ Len(s) <= 1
      <4> SUFFICES ASSUME On(s, "Offer", t)
                   PROVE  /\ Untouched(to_client[d], to_host[d], local[d][t], t)
                          /\ ~ReadyAt(record', d, t) /\ Len(s) <= 1
        OBVIOUS
      <4>1. r.phase = "offered" /\ d = record.second /\ ~record.offered /\ Len(s) = 1 /\ d \notin terminal
        <5>1. s # << >>
          BY DEF On
        <5> QED BY <2>1, <2>5, <5>1 DEF Passes
      <4>2. Unoffered(d, t) /\ Opening(t)
        BY <1>2, <2>5, <4>1 DEF Unoffered, Holds, Opening
      <4>3. Untouched(to_client[d], to_host[d], local[d][t], t)
        BY <3>1, <4>2 DEF View
      <4>4. ~Over(t)
        BY <4>2 DEF Over
      <4>5. ~Steady(g, local[d][t])
        <5>1. local[d][t] = NoLocal
          BY <4>3 DEF Untouched
        <5>2. ~NoLocal.endpoint /\ NoLocal.phase # "closing"
          BY DEF NoLocal
        <5>3. ~g.gone /\ ~g.over
          BY <3>1, <4>1, <4>4
        <5> QED BY <5>1, <5>2, <5>3 DEF Steady
      <4>6. ~ReadyAt(record, d, t)
        BY <3>1, <4>5 DEF View
      <4>7. ~ReadyAt(record', d, t)
        BY <1>12, <4>6
      <4> QED BY <4>1, <4>3, <4>7
    <3>4. On(s, "Closing", t) => ~Opening(t)'
      BY <1>9, <2>1, <2>5 DEF Passes
    <3>5. On(s, "Retired", t) => ~Opening(t)' /\ \A e \in Client : ~Installed(to_client[e], local[e][t], t)
      <4>1. On(s, "Retired", t) => r.phase = "closing" /\ sides[d].side.retired_sent
        BY <2>1, <2>5 DEF Passes
      <4> QED BY <1>8, <1>9, <2>5, <4>1
    <3>6. On(s, "Activate", t) => SteadyAt(Peer(d), t)
      <4> SUFFICES ASSUME On(s, "Activate", t) PROVE SteadyAt(Peer(d), t)
        OBVIOUS
      <4> DEFINE e == Peer(d)
      <4>0. e \in Client
        BY Peers
      <4> HIDE DEF e
      <4>1. r.phase = "active"
        BY <2>1, <2>5 DEF Passes
      <4>2. record.side[e].ready
        <5>1. sides[e].side.ready
          BY <1>4, <1>7, <4>0, <4>1 DEF SideInOrder
        <5> QED BY <1>3, <4>0, <5>1 DEF Passes
      <4>3. Steady(Known(e, t), local[e][t])
        <5>1. Known(e, t).ready
          BY <1>0, <1>2, <2>5, <4>0, <4>2, KnownFacts DEF Holds
        <5> QED BY <1>0, <4>0, <5>1 DEF Views, View
      <4>4. Known(e, t).gone = (e \in terminal) /\ Known(e, t).over = Over(t)
        BY <1>0, <4>0, KnownFacts
      <4>5. SteadyAt(e, t)
        <5> DEFINE k == Known(e, t)
        <5> HIDE DEF k
        <5>1. Steady(k, local[e][t]) /\ k.gone = (e \in terminal) /\ k.over = Over(t)
          BY <4>3, <4>4 DEF k
        <5> QED BY <5>1 DEF Steady, SteadyAt
      <4> QED BY <4>5 DEF e
    <3> QED BY <2>3, <3>2, <3>3, <3>4, <3>5, <3>6 DEF Told, s
  <2> QED BY <2>4, <2>5
<1>14. PICK c \in Client : TRUE
  <2>1. Client # {}
    BY ConnectionAssumption, FS_EmptySet
  <2> QED BY <2>1
<1>15. HostChange(c, to_host[c], sent)
  <2>1. to_host' = [to_host EXCEPT ![c] = to_host[c]] /\ Read1(c, to_host[c])
    BY <1>0, <1>1 DEF Typed, Read1
  <2> QED BY <1>1, <1>9, <1>11, <1>12, <1>13, <2>1 DEF HostChange
<1>16. Typed'
  <2>1. to_client' \in [Client -> Seq(ToClient)]
    <3>1. \A d \in Client : to_client[d] \o sent[d] \in Seq(ToClient)
      <4>1. \A d \in Client : to_client[d] \in Seq(ToClient) /\ sent[d] \in Seq(ToClient)
        BY <1>0, <1>11, LocalTyped
      <4> QED BY <4>1
    <3> QED BY <1>11, <3>1
  <2>2. record' = NoRecord \/ record' \in Record
    BY <1>4, <1>6
  <2> QED BY <1>0, <1>1, <2>1, <2>2 DEF Typed
<1>17. InOrder(record)' /\ (record' # NoRecord => record'.token <= issued)
  <2>1. tok <= issued
    BY <1>0, <1>2 DEF Counted
  <2>2. InOrder(record')
    BY <1>6 DEF InOrder
  <2> QED BY <1>4, <1>6, <2>1, <2>2
<1>18. \A d \in Client \ terminal : Balanced(d)
  <2> SUFFICES ASSUME NEW d \in Client \ terminal PROVE Balanced(d)
    OBVIOUS
  <2> DEFINE a == Count(to_host[d], "Request")
             b == Count(to_client[d], "Result")
             x == Count(sent[d], "Result")
             b1 == Count(to_client[d] \o sent[d], "Result")
             z == IF record.side[d].slot THEN 1 ELSE 0
             z1 == IF sides[d].side.slot THEN 1 ELSE 0
  <2>1. a \in Nat /\ b \in Nat /\ x \in Nat /\ b1 = b + x
    <3>1. to_host[d] \in Seq(ToHost) /\ to_client[d] \in Seq(ToClient) /\ sent[d] \in Seq(ToClient)
      BY <1>0, <1>11, LocalTyped
    <3> QED BY <3>1, CountAdd, CountPlaces
  <2>2. x + z1 = z /\ z \in Nat /\ z1 \in Nat
    BY <1>3, <1>11 DEF Passes
  <2>3. (IF Answers(d) THEN 1 ELSE 0) = z
    BY <1>2 DEF Answers
  <2>4. (IF Answers(d)' THEN 1 ELSE 0) = z1
    <3>1. CASE record' = r1
      BY <1>4, <1>5, <3>1 DEF Answers
    <3>2. CASE record' = NoRecord /\ \A e \in Client : sides[e].side.retired_sent
      <4>1. ~sides[d].side.slot
        BY <1>8, <3>2
      <4> QED BY <3>2, <4>1 DEF Answers
    <3> QED BY <1>6, <3>1, <3>2
  <2>5. to_host'[d] = to_host[d] /\ to_client'[d] = to_client[d] \o sent[d]
    BY <1>1, <1>11
  <2> HIDE DEF a, b, x, b1, z, z1
  <2>6. a + b1 + z1 = a + b + z
    BY <2>1, <2>2
  <2> QED BY <2>3, <2>4, <2>5, <2>6 DEF Balanced, a, b, b1
<1>19. \A d \in terminal : sent[d] = << >>
  BY <1>0, <1>3, <1>11 DEF Passes, Typed
<1> QED
  BY <1>1, <1>15, <1>16, <1>17, <1>18, <1>19, HostStepKeeps

LEMMA Alone ==
  ASSUME NEW b \in BOOLEAN, NEW m \in ToClient
  PROVE  /\ Followed(<< >>, b, m) = (IF b THEN << m >> ELSE << >>)
         /\ Followed(<< >>, b, m) \in Seq(ToClient)
         /\ Len(Followed(<< >>, b, m)) = (IF b THEN 1 ELSE 0)
         /\ \A k, t : On(Followed(<< >>, b, m), k, t) <=> b /\ m.kind = k /\ m.token = t
         /\ b /\ m.kind = "Result" => Count(Followed(<< >>, b, m), "Result") = 1
         /\ ~(b /\ m.kind = "Result") => Count(Followed(<< >>, b, m), "Result") = 0
<1>1. << >> \in Seq(ToClient) /\ Len(<< >>) = 0 /\ Count(<< >>, "Result") = 0
  BY CountEmpty
<1>2. \A k, t : ~On(<< >>, k, t)
  BY DEF On
<1>3. Followed(<< >>, b, m) = (IF b THEN << m >> ELSE << >>)
  BY DEF Followed
<1> DEFINE e == << >>
<1> HIDE DEF e
<1>4. e \in Seq(ToClient) /\ Len(e) = 0 /\ Count(e, "Result") = 0 /\ \A k, t : ~On(e, k, t)
  BY <1>1, <1>2 DEF e
<1>5. /\ Followed(e, b, m) \in Seq(ToClient) /\ Len(Followed(e, b, m)) = Len(e) + (IF b THEN 1 ELSE 0)
      /\ \A k, t : On(Followed(e, b, m), k, t) <=> On(e, k, t) \/ (b /\ m.kind = k /\ m.token = t)
      /\ b /\ m.kind = "Result" => Count(Followed(e, b, m), "Result") = Count(e, "Result") + 1
      /\ ~(b /\ m.kind = "Result") => Count(Followed(e, b, m), "Result") = Count(e, "Result")
  BY <1>4, SaidNext
<1> DEFINE f == Followed(e, b, m)
<1> HIDE DEF f
<1>6. /\ f \in Seq(ToClient) /\ Len(f) = (IF b THEN 1 ELSE 0)
      /\ \A k, t : On(f, k, t) <=> (b /\ m.kind = k /\ m.token = t)
      /\ b /\ m.kind = "Result" => Count(f, "Result") = 1
      /\ ~(b /\ m.kind = "Result") => Count(f, "Result") = 0
  BY <1>4, <1>5 DEF f
<1> QED
  BY <1>3, <1>6 DEF f, e

\* The record that a pass starts from, and how much each client takes.
Started(r, room) ==
    /\ record \in Record /\ r \in Record /\ r.token = record.token /\ r.second = record.second
    /\ r.offered = record.offered /\ r.side = record.side
    /\ r.phase = "offered" => record.phase = "offered"
    /\ record.phase = "closing" => r.phase = "closing"
    /\ InOrder(r)
    /\ room \in [Client -> Nat] /\ \A c \in terminal : room[c] = 0

LEMMA MsgTyped ==
  ASSUME NEW t \in Token, NEW k \in ToClientKinds
  PROVE  Msg(k, t) \in ToClient /\ Msg(k, t).kind = k /\ Msg(k, t).token = t
BY DEF Msg, ToClient

LEMMA OfferedKeeps ==
  ASSUME IInv, NEW r, NEW room, Started(r, room), r.phase = "offered",
         NEW offer, offer = (~r.offered /\ room[r.second] > 0),
         Publish([r EXCEPT !.offered = @ \/ offer],
                 [c \in Client |-> [side |-> r.side[c],
                    sent |-> IF offer /\ c = r.second THEN << Msg("Offer", r.token) >> ELSE << >>]]),
         UNCHANGED <<to_host, issued, closed, failed, stop_requested, clientVars>>
  PROVE  IInv'
<1> DEFINE m == Msg("Offer", r.token)
           sides == [c \in Client |-> [side |-> r.side[c],
                       sent |-> IF offer /\ c = r.second THEN << m >> ELSE << >>]]
           r0 == [r EXCEPT !.offered = @ \/ offer]
           r1 == [r0 EXCEPT !.side = [c \in Client |-> sides[c].side]]
<1>0. /\ record \in Record /\ r \in Record /\ r.token = record.token /\ r.second = record.second
      /\ r.offered = record.offered /\ r.side = record.side /\ InOrder(r)
      /\ record.phase = "offered" /\ record.phase # "closing"
      /\ room \in [Client -> Nat] /\ \A c \in terminal : room[c] = 0
  BY DEF Started
<1>1. /\ r.offered \in BOOLEAN /\ r.side \in [Client -> Side] /\ r.token \in Token /\ r.second \in Client
      /\ r # NoRecord /\ offer \in BOOLEAN
  BY <1>0, RecordKinds
<1>2. m \in ToClient /\ m.kind = "Offer" /\ m.token = record.token
  BY <1>0, <1>1, MsgTyped DEF ToClientKinds
<1> HIDE DEF m
<1>3. /\ r0 \in Record /\ r0.token = r.token /\ r0.second = r.second /\ r0.phase = "offered"
      /\ r0.side = r.side /\ r0.offered = (r.offered \/ offer)
  BY <1>0, <1>1 DEF Record
<1> HIDE DEF r0
<1>4. ASSUME NEW d \in Client
      PROVE  /\ sides[d].side = r.side[d] /\ Passes(r0, d, sides[d].side, sides[d].sent)
             /\ SideInOrder(r, d)
  <2> DEFINE b == offer /\ d = r.second
             s == sides[d].sent
             old == record.side[d]
  <2>1. sides[d].side = r.side[d] /\ s = (IF b THEN << m >> ELSE << >>) /\ old = r.side[d]
    BY <1>0
  <2>2. b \in BOOLEAN
    OBVIOUS
  <2>3. b => d = record.second /\ ~record.offered /\ d \notin terminal
    <3>1. offer => ~r.offered /\ room[r.second] > 0
      OBVIOUS
    <3>2. room[r.second] > 0 => r.second \notin terminal
      BY <1>0
    <3> QED BY <1>0, <3>1, <3>2
  <2>4. r0.phase = "offered" /\ ~r0.offered /\ d = record.second => ~b
    BY <1>3
  <2> HIDE DEF b, s
  <2>5. /\ s \in Seq(ToClient) /\ Len(s) = (IF b THEN 1 ELSE 0) /\ Count(s, "Result") = 0
        /\ \A k, t : On(s, k, t) <=> b /\ k = "Offer" /\ t = record.token
        /\ ~b => s = << >>
    <3>1. s = Followed(<< >>, b, m)
      BY <1>2, <2>1, <2>2, Alone
    <3>2. /\ Followed(<< >>, b, m) \in Seq(ToClient)
          /\ Len(Followed(<< >>, b, m)) = (IF b THEN 1 ELSE 0)
          /\ \A k, t : On(Followed(<< >>, b, m), k, t) <=> b /\ m.kind = k /\ m.token = t
          /\ Count(Followed(<< >>, b, m), "Result") = 0
      BY <1>2, <2>2, Alone
    <3> QED BY <1>2, <2>1, <3>1, <3>2
  <2>6. SideInOrder(r, d)
    BY <1>0, <1>1 DEF InOrder
  <2>7. old \in Side /\ ~old.quiescent
    BY <1>0, <1>1, <2>1, <2>6 DEF SideInOrder
  <2>8. Count(s, "Result") + (IF old.slot THEN 1 ELSE 0) = (IF old.slot THEN 1 ELSE 0)
    BY <2>5
  <2> HIDE DEF old
  <2>9. Passes(r0, d, old, s)
    BY <1>3, <2>2, <2>3, <2>4, <2>5, <2>7, <2>8 DEF Passes, old
  <2> QED BY <2>1, <2>6, <2>9 DEF s
<1>5. InOrder(r1)
  <2>1. [c \in Client |-> sides[c].side] = r.side
    BY <1>1, <1>4
  <2>2. r1.phase = "offered" /\ r1.side = r.side
    BY <1>3, <2>1 DEF Record
  <2> HIDE DEF r1
  <2> QED BY <1>0, <1>4, <2>2 DEF InOrder, SideInOrder
<1>6. Publish(r0, sides)
  BY DEF r0, m
<1>7. \A d \in Client : Passes(r0, d, sides[d].side, sides[d].sent)
  BY <1>4
<1>8. /\ r0.token = record.token /\ r0.second = record.second /\ (~r0.offered => ~record.offered)
  BY <1>0, <1>3
<1>9. r1 = [r0 EXCEPT !.side = [c \in Client |-> sides[c].side]]
  OBVIOUS
<1> HIDE DEF sides, r1
<1> QED
  BY <1>0, <1>3, <1>5, <1>6, <1>7, <1>8, <1>9, PublishKeeps

LEMMA ExposedKeeps ==
  ASSUME IInv, NEW r, NEW room, Started(r, room), r.phase = "installing", Publish(r, Exposed(r, room)),
         UNCHANGED <<to_host, issued, closed, failed, stop_requested, clientVars>>
  PROVE  IInv'
<1> DEFINE m == Msg("Install", r.token)
           sides == Exposed(r, room)
           r1 == [r EXCEPT !.side = [c \in Client |-> sides[c].side]]
<1>0. /\ record \in Record /\ r \in Record /\ r.token = record.token /\ r.second = record.second
      /\ r.offered = record.offered /\ r.side = record.side /\ InOrder(r)
      /\ record.phase # "closing"
      /\ room \in [Client -> Nat] /\ \A c \in terminal : room[c] = 0
  BY DEF Started
<1>1. /\ r.side \in [Client -> Side] /\ r.token \in Token /\ r # NoRecord
  BY <1>0, RecordKinds
<1>2. m \in ToClient /\ m.kind = "Install" /\ m.token = record.token
  BY <1>0, <1>1, MsgTyped DEF ToClientKinds
<1> HIDE DEF m
<1>3. \A d \in Client : SideInOrder(r, d)
  BY <1>0, <1>1 DEF InOrder
<1>4. ASSUME NEW d \in Client
      PROVE  /\ Passes(r, d, sides[d].side, sides[d].sent)
             /\ ~sides[d].side.quiescent /\ ~sides[d].side.closing_sent /\ ~sides[d].side.retired_sent
  <2> DEFINE b == ~(r.side[d].exposed \/ room[d] = 0)
             s == sides[d].sent
             old == record.side[d]
             new == sides[d].side
  <2>1. old \in Side /\ ~old.quiescent /\ ~old.closing_sent /\ ~old.retired_sent /\ r.side[d] = old
    BY <1>0, <1>1, <1>3 DEF SideInOrder
  <2>2. s = (IF b THEN << m >> ELSE << >>) /\ new = (IF b THEN [old EXCEPT !.exposed = TRUE] ELSE old)
    BY <2>1 DEF Exposed, Plain, m
  <2>3. b \in BOOLEAN /\ (b => d \notin terminal)
    BY <1>0
  <2> HIDE DEF b, s, new, old
  <2>4. /\ new \in Side /\ new.slot = old.slot /\ new.ready = old.ready /\ (old.exposed \/ b => new.exposed)
        /\ ~new.quiescent /\ ~new.closing_sent /\ ~new.retired_sent
    BY <2>1, <2>2 DEF Side
  <2>5. /\ s \in Seq(ToClient) /\ Count(s, "Result") = 0
        /\ \A k, t : On(s, k, t) <=> b /\ k = "Install" /\ t = record.token
        /\ ~b => s = << >>
    <3>1. s = Followed(<< >>, b, m)
      BY <1>2, <2>2, <2>3, Alone
    <3>2. /\ Followed(<< >>, b, m) \in Seq(ToClient)
          /\ \A k, t : On(Followed(<< >>, b, m), k, t) <=> b /\ m.kind = k /\ m.token = t
          /\ Count(Followed(<< >>, b, m), "Result") = 0
      BY <1>2, <2>3, Alone
    <3> QED BY <1>2, <2>2, <3>1, <3>2
  <2>6. Count(s, "Result") + (IF new.slot THEN 1 ELSE 0) = (IF old.slot THEN 1 ELSE 0)
    BY <2>4, <2>5
  <2>7. Passes(r, d, new, s)
    BY <2>3, <2>4, <2>5, <2>6 DEF Passes, old
  <2> QED BY <2>4, <2>7 DEF s, new
<1>5. InOrder(r1)
  <2> DEFINE new == [c \in Client |-> sides[c].side]
  <2>1. new \in [Client -> Side] /\ \A d \in Client : /\ ~new[d].quiescent /\ ~new[d].closing_sent
                                                       /\ ~new[d].retired_sent
    BY <1>4 DEF Passes
  <2>2. r1 = [r EXCEPT !.side = new]
    OBVIOUS
  <2> HIDE DEF new
  <2>3. r1.phase = "installing" /\ r1.side = new
    BY <1>0, <2>1, <2>2 DEF Record
  <2> HIDE DEF r1
  <2> QED BY <2>1, <2>3 DEF InOrder, SideInOrder
<1>6. Publish(r, sides) /\ \A d \in Client : Passes(r, d, sides[d].side, sides[d].sent)
  BY <1>4
<1>9. r1 = [r EXCEPT !.side = [c \in Client |-> sides[c].side]]
  OBVIOUS
<1> HIDE DEF sides, r1
<1> QED
  BY <1>0, <1>5, <1>6, <1>9, PublishKeeps

LEMMA ActivatedKeeps ==
  ASSUME IInv, NEW r, NEW room, Started(r, room), r.phase = "active", Publish(r, Activated(r, room)),
         UNCHANGED <<to_host, issued, closed, failed, stop_requested, clientVars>>
  PROVE  IInv'
<1> DEFINE m1 == Msg("Activate", r.token)
           m2 == Msg("Result", r.token)
           sides == Activated(r, room)
           r1 == [r EXCEPT !.side = [c \in Client |-> sides[c].side]]
<1>0. /\ record \in Record /\ r \in Record /\ r.token = record.token /\ r.second = record.second
      /\ r.offered = record.offered /\ r.side = record.side /\ InOrder(r)
      /\ record.phase # "closing"
      /\ room \in [Client -> Nat] /\ \A c \in terminal : room[c] = 0
  BY DEF Started
<1>1. /\ r.side \in [Client -> Side] /\ r.token \in Token /\ r # NoRecord
  BY <1>0, RecordKinds
<1>2. /\ m1 \in ToClient /\ m1.kind = "Activate" /\ m1.token = record.token
      /\ m2 \in ToClient /\ m2.kind = "Result" /\ m2.token = record.token
  BY <1>0, <1>1, MsgTyped DEF ToClientKinds
<1> HIDE DEF m1, m2
<1>3. \A d \in Client : SideInOrder(r, d)
  BY <1>0, <1>1 DEF InOrder
<1>4. ASSUME NEW d \in Client
      PROVE  /\ Passes(r, d, sides[d].side, sides[d].sent)
             /\ ~sides[d].side.quiescent /\ ~sides[d].side.closing_sent /\ ~sides[d].side.retired_sent
             /\ sides[d].side.ready
  <2> DEFINE old == record.side[d]
             announce == ~r.side[d].activated /\ room[d] > 0
             answer == /\ r.side[d].slot /\ (r.side[d].activated \/ announce)
                       /\ room[d] > IF announce THEN 1 ELSE 0
             s == sides[d].sent
             new == sides[d].side
             q == Followed(<< >>, announce, m1)
  <2>1. old \in Side /\ ~old.quiescent /\ ~old.closing_sent /\ ~old.retired_sent /\ old.ready /\ r.side[d] = old
    BY <1>0, <1>1, <1>3 DEF SideInOrder
  <2>2. /\ new = [r.side[d] EXCEPT !.activated = @ \/ announce, !.slot = Unanswered(@, answer)]
        /\ s = (IF announce THEN << m1 >> ELSE << >>) \o (IF answer THEN << m2 >> ELSE << >>)
    BY DEF Activated, m1, m2
  <2>3. /\ announce \in BOOLEAN /\ answer \in BOOLEAN /\ (announce \/ answer => d \notin terminal)
        /\ (answer => old.slot)
    <3>1. announce \in BOOLEAN /\ answer \in BOOLEAN /\ (answer => old.slot)
      BY <2>1 DEF Side
    <3>2. announce => room[d] > 0
      OBVIOUS
    <3>3. answer => room[d] > 0
      BY <1>0
    <3>4. d \in terminal => ~(room[d] > 0)
      BY <1>0
    <3> HIDE DEF announce, answer
    <3> QED BY <3>1, <3>2, <3>3, <3>4
  <2> HIDE DEF announce, answer
  <2>4. q = (IF announce THEN << m1 >> ELSE << >>)
    BY <1>2, <2>3, Alone
  <2>5. /\ q \in Seq(ToClient) /\ Count(q, "Result") = 0
        /\ \A k, t : On(q, k, t) <=> announce /\ k = "Activate" /\ t = record.token
    BY <1>2, <2>3, Alone
  <2> HIDE DEF q
  <2>6. s = Followed(q, answer, m2)
    BY <2>2, <2>4 DEF Followed
  <2>7. new = [old EXCEPT !.activated = @ \/ announce, !.slot = old.slot /\ ~answer]
    BY <2>1, <2>2 DEF Unanswered
  <2> HIDE DEF s, new
  <2>8. /\ s \in Seq(ToClient)
        /\ \A k, t : On(s, k, t) <=> On(q, k, t) \/ (answer /\ k = "Result" /\ t = record.token)
        /\ answer => Count(s, "Result") = 1
        /\ ~answer => Count(s, "Result") = 0
    <3>1. /\ Followed(q, answer, m2) \in Seq(ToClient)
          /\ \A k, t : On(Followed(q, answer, m2), k, t) <=> On(q, k, t) \/ (answer /\ m2.kind = k /\ m2.token = t)
          /\ answer => Count(Followed(q, answer, m2), "Result") = Count(q, "Result") + 1
          /\ ~answer => Count(Followed(q, answer, m2), "Result") = Count(q, "Result")
      BY <1>2, <2>3, <2>5, SaidNext
    <3> QED BY <1>2, <2>5, <2>6, <3>1
  <2> HIDE DEF old
  <2>9. /\ new \in Side /\ new.ready /\ new.exposed = old.exposed /\ new.slot = (old.slot /\ ~answer)
        /\ ~new.quiescent /\ ~new.closing_sent /\ ~new.retired_sent
    <3>1. (old.slot /\ ~answer) \in BOOLEAN
      OBVIOUS
    <3> QED BY <2>1, <2>3, <2>7, <3>1 DEF Side
  <2>10. d \in terminal => s = << >>
    <3>1. ASSUME d \in terminal
          PROVE  s = << >>
      <4>1. ~announce /\ ~answer
        BY <2>3, <3>1
      <4> QED BY <2>2, <4>1, <2>4, <2>6 DEF Followed
    <3> QED BY <3>1
  <2>11. Count(s, "Result") + (IF new.slot THEN 1 ELSE 0) = (IF old.slot THEN 1 ELSE 0)
    <3>1. CASE answer
      <4>1. old.slot /\ ~new.slot /\ Count(s, "Result") = 1
        BY <2>3, <2>8, <2>9, <3>1
      <4> QED BY <4>1
    <3>2. CASE ~answer
      <4>1. Count(s, "Result") = 0
        BY <2>8, <3>2
      <4>2. new.slot <=> old.slot
        BY <2>9, <3>2
      <4> QED BY <4>1, <4>2
    <3> QED BY <2>3, <3>1, <3>2
  <2>12. Passes(r, d, new, s)
    BY <2>1, <2>5, <2>8, <2>9, <2>10, <2>11 DEF Passes, old
  <2> QED BY <2>9, <2>12 DEF s, new
<1>5. InOrder(r1)
  <2> DEFINE new == [c \in Client |-> sides[c].side]
  <2>1. new \in [Client -> Side] /\ \A d \in Client : /\ ~new[d].quiescent /\ ~new[d].closing_sent
                                                       /\ ~new[d].retired_sent /\ new[d].ready
    BY <1>4 DEF Passes
  <2>2. r1 = [r EXCEPT !.side = new]
    OBVIOUS
  <2> HIDE DEF new
  <2>3. r1.phase = "active" /\ r1.side = new
    BY <1>0, <2>1, <2>2 DEF Record
  <2> HIDE DEF r1
  <2> QED BY <2>1, <2>3 DEF InOrder, SideInOrder
<1>6. Publish(r, sides) /\ \A d \in Client : Passes(r, d, sides[d].side, sides[d].sent)
  BY <1>4
<1>9. r1 = [r EXCEPT !.side = [c \in Client |-> sides[c].side]]
  OBVIOUS
<1> HIDE DEF sides, r1
<1> QED
  BY <1>0, <1>5, <1>6, <1>9, PublishKeeps

\* A side is over when it was given nothing, has said so or has ended.
LEMMA SideOver ==
  ASSUME IInv, record \in Record, NEW d \in Client, SideQuiescent(d, record.side[d])
  PROVE  ~Installed(to_client[d], local[d][record.token], record.token)
<1> DEFINE t == record.token
           g == Known(d, t)
<1>0. Typed /\ Gone /\ Views /\ t \in Token
  BY RecordKinds DEF IInv
<1>1. CASE d \in terminal
  <2>1. to_client[d] = << >> /\ local[d][t] = NoLocal
    BY <1>0, <1>1 DEF Gone
  <2>2. ~On(<< >>, "Install", t) /\ ~NoLocal.endpoint
    BY DEF On, NoLocal
  <2> QED BY <2>1, <2>2 DEF Installed
<1>2. CASE record.side[d].quiescent \/ ~record.side[d].exposed
  <2>1. ~g.exposed
    BY <1>0, <1>2, KnownFacts
  <2>2. View(g, to_client[d], to_host[d], local[d][t], t)
    BY <1>0 DEF Views
  <2> HIDE DEF g
  <2> QED BY <2>1, <2>2 DEF View
<1> QED
  BY <1>1, <1>2 DEF SideQuiescent

\* A side of a closing connection, before it is told that it is retired.
Closes(d, side, s) ==
    /\ side \in Side /\ s \in Seq(ToClient)
    /\ \A k, t : On(s, k, t) => t = record.token /\ k \in {"Result", "Closing"}
    /\ side.ready = record.side[d].ready /\ side.exposed = record.side[d].exposed
    /\ side.retired_sent = record.side[d].retired_sent
    /\ side.quiescent = SideQuiescent(d, record.side[d])
    /\ side.slot => record.side[d].slot
    /\ d \in terminal => s = << >>
    /\ d \notin terminal => Count(s, "Result") + (IF side.slot THEN 1 ELSE 0)
                              = (IF record.side[d].slot THEN 1 ELSE 0)

LEMMA ClosingSide ==
  ASSUME IInv, NEW r, NEW room, Started(r, room), NEW d \in Client
  PROVE  Closes(d, Closing(r, room)[d].side, Closing(r, room)[d].sent)
<1> DEFINE m1 == Msg("Result", r.token)
           m2 == Msg("Closing", r.token)
           old == record.side[d]
           answer == r.side[d].slot /\ room[d] > 0
           slot == Unanswered(r.side[d].slot, answer \/ d \in terminal)
           announce == ~r.side[d].closing_sent /\ ~slot /\ room[d] > IF answer THEN 1 ELSE 0
           new == Closing(r, room)[d].side
           s == Closing(r, room)[d].sent
           over == SideQuiescent(d, r.side[d])
           q == Followed(<< >>, answer, m1)
<1>0. /\ record \in Record /\ r \in Record /\ r.token = record.token /\ r.side = record.side
      /\ room \in [Client -> Nat] /\ \A c \in terminal : room[c] = 0
  BY DEF Started
<1>1. r.token \in Token /\ old \in Side /\ r.side[d] = old
  BY <1>0, RecordKinds
<1>2. /\ m1 \in ToClient /\ m1.kind = "Result" /\ m1.token = record.token
      /\ m2 \in ToClient /\ m2.kind = "Closing" /\ m2.token = record.token
  BY <1>0, <1>1, MsgTyped DEF ToClientKinds
<1>3. /\ new = [r.side[d] EXCEPT !.slot = slot, !.closing_sent = @ \/ announce, !.quiescent = over]
      /\ s = (IF answer THEN << m1 >> ELSE << >>) \o (IF announce THEN << m2 >> ELSE << >>)
  BY DEF Closing
<1> HIDE DEF m1, m2, new, s
<1>4. /\ answer \in BOOLEAN /\ announce \in BOOLEAN /\ (answer \/ announce => d \notin terminal)
      /\ (answer => old.slot) /\ slot = (old.slot /\ ~(answer \/ d \in terminal)) /\ over = SideQuiescent(d, old)
      /\ over \in BOOLEAN /\ slot \in BOOLEAN
  <2>1. answer \in BOOLEAN /\ announce \in BOOLEAN /\ (answer => old.slot)
    BY <1>1 DEF Side
  <2>2. slot = (old.slot /\ ~(answer \/ d \in terminal)) /\ over = SideQuiescent(d, old)
    BY <1>1 DEF Unanswered
  <2>3. over \in BOOLEAN /\ slot \in BOOLEAN
    BY <1>1 DEF Side, SideQuiescent, Unanswered
  <2>4. answer => room[d] > 0
    OBVIOUS
  <2>5. announce => room[d] > 0
    BY <1>0
  <2>6. d \in terminal => ~(room[d] > 0)
    BY <1>0
  <2> HIDE DEF announce, answer, slot, over
  <2> QED BY <2>1, <2>2, <2>3, <2>4, <2>5, <2>6
<1> HIDE DEF announce, answer, slot, over
<1>5. q = (IF answer THEN << m1 >> ELSE << >>)
  BY <1>2, <1>4, Alone
<1>6. /\ q \in Seq(ToClient)
      /\ \A k, t : On(q, k, t) <=> answer /\ k = "Result" /\ t = record.token
      /\ answer => Count(q, "Result") = 1
      /\ ~answer => Count(q, "Result") = 0
  <2>1. /\ Followed(<< >>, answer, m1) \in Seq(ToClient)
        /\ \A k, t : On(Followed(<< >>, answer, m1), k, t) <=> answer /\ m1.kind = k /\ m1.token = t
        /\ answer => Count(Followed(<< >>, answer, m1), "Result") = 1
        /\ ~answer => Count(Followed(<< >>, answer, m1), "Result") = 0
    BY <1>2, <1>4, Alone
  <2> QED BY <1>2, <2>1
<1> HIDE DEF q
<1>7. s = Followed(q, announce, m2)
  BY <1>3, <1>5 DEF Followed
<1>8. /\ s \in Seq(ToClient)
      /\ \A k, t : On(s, k, t) <=> On(q, k, t) \/ (announce /\ k = "Closing" /\ t = record.token)
      /\ Count(s, "Result") = Count(q, "Result")
  <2>1. /\ Followed(q, announce, m2) \in Seq(ToClient)
        /\ \A k, t : On(Followed(q, announce, m2), k, t) <=> On(q, k, t) \/ (announce /\ m2.kind = k /\ m2.token = t)
        /\ Count(Followed(q, announce, m2), "Result") = Count(q, "Result")
    BY <1>2, <1>4, <1>6, SaidNext
  <2> QED BY <1>2, <1>7, <2>1
<1> HIDE DEF old
<1>9. /\ new \in Side /\ new.ready = old.ready /\ new.exposed = old.exposed /\ new.slot = slot
      /\ new.retired_sent = old.retired_sent /\ new.quiescent = over
  <2> DEFINE x == old.closing_sent \/ announce
  <2>1. new = [old EXCEPT !.slot = slot, !.closing_sent = x, !.quiescent = over]
    BY <1>1, <1>3
  <2>2. x \in BOOLEAN
    OBVIOUS
  <2> HIDE DEF x
  <2>3. old \in Side /\ slot \in BOOLEAN /\ over \in BOOLEAN
    BY <1>1, <1>4
  <2> QED BY <2>1, <2>2, <2>3 DEF Side
<1>10. d \in terminal => s = << >>
  <2>1. ASSUME d \in terminal
        PROVE  s = << >>
    <3>1. ~announce /\ ~answer
      BY <1>4, <2>1
    <3> QED BY <3>1, <1>5, <1>7 DEF Followed
  <2> QED BY <2>1
<1>11. d \notin terminal => Count(s, "Result") + (IF new.slot THEN 1 ELSE 0) = (IF old.slot THEN 1 ELSE 0)
  <2> SUFFICES ASSUME d \notin terminal
               PROVE  Count(s, "Result") + (IF new.slot THEN 1 ELSE 0) = (IF old.slot THEN 1 ELSE 0)
    OBVIOUS
  <2>1. CASE answer
    <3>1. old.slot /\ ~new.slot /\ Count(s, "Result") = 1
      BY <1>4, <1>6, <1>8, <1>9, <2>1
    <3> QED BY <3>1
  <2>2. CASE ~answer
    <3>1. Count(s, "Result") = 0
      BY <1>6, <1>8, <2>2
    <3>2. new.slot <=> old.slot
      BY <1>4, <1>9, <2>2
    <3> QED BY <3>1, <3>2
  <2> QED BY <2>1, <2>2
<1>12. /\ \A k, t : On(s, k, t) => t = record.token /\ k \in {"Result", "Closing"}
       /\ new.slot => old.slot
  BY <1>4, <1>6, <1>8, <1>9
<1>13. Closes(d, new, s)
  BY <1>4, <1>8, <1>9, <1>10, <1>11, <1>12 DEF Closes, old
<1> QED
  BY <1>13 DEF new, s

LEMMA ClosingPassKeeps ==
  ASSUME IInv, NEW r, NEW room, Started(r, room), r.phase = "closing",
         Publish(r, Retired(r, Closing(r, room), room)),
         UNCHANGED <<to_host, issued, closed, failed, stop_requested, clientVars>>
  PROVE  IInv'
<1> DEFINE m == Msg("Retired", r.token)
           before == Closing(r, room)
           sides == Retired(r, before, room)
           allOver == \A e \in Client : before[e].side.quiescent
           r1 == [r EXCEPT !.side = [c \in Client |-> sides[c].side]]
<1>0. /\ record \in Record /\ r \in Record /\ r.token = record.token /\ r.second = record.second
      /\ r.offered = record.offered /\ r.side = record.side /\ InOrder(r)
      /\ room \in [Client -> Nat] /\ \A c \in terminal : room[c] = 0
  BY DEF Started
<1>1. /\ r.side \in [Client -> Side] /\ r.token \in Token /\ r # NoRecord
  BY <1>0, RecordKinds
<1>2. m \in ToClient /\ m.kind = "Retired" /\ m.token = record.token
  BY <1>0, <1>1, MsgTyped DEF ToClientKinds
<1> HIDE DEF m
<1>3. \A d \in Client : SideInOrder(r, d)
  BY <1>0, <1>1 DEF InOrder
<1>4. \A d \in Client : Closes(d, before[d].side, before[d].sent)
  BY ClosingSide
\* Sides that were quiescent before the pass are so after it.
<1>5. ASSUME NEW d \in Client, record.side[d].retired_sent
      PROVE  allOver /\ ~before[d].side.slot
  <2>1. ~record.side[d].slot /\ \A e \in Client : record.side[e].quiescent
    BY <1>0, <1>3, <1>5 DEF SideInOrder
  <2>2. \A e \in Client : before[e].side.quiescent
    BY <1>4, <2>1 DEF Closes, SideQuiescent
  <2>3. ~before[d].side.slot
    BY <1>4, <2>1 DEF Closes
  <2> QED BY <2>2, <2>3
<1> DEFINE Says(d) == /\ ~before[d].side.slot /\ ~before[d].side.retired_sent
                      /\ before[d].side.closing_sent /\ room[d] > Len(before[d].sent)
           Done(d) == \/ before[d].side.retired_sent
                      \/ /\ ~before[d].side.slot /\ ~before[d].side.retired_sent
                         /\ d \in terminal \/ Says(d)
<1>6. ASSUME NEW d \in Client
      PROVE  /\ allOver => /\ sides[d].side = [before[d].side EXCEPT !.retired_sent = Done(d)]
                           /\ sides[d].sent = before[d].sent \o (IF Says(d) THEN << m >> ELSE << >>)
             /\ ~allOver => sides[d] = before[d]
  BY DEF Retired, m
<1> HIDE DEF before, sides, allOver
<1>7. ASSUME NEW d \in Client
      PROVE  /\ Passes(r, d, sides[d].side, sides[d].sent)
             /\ sides[d].side.quiescent = before[d].side.quiescent
             /\ sides[d].side.retired_sent => ~sides[d].side.slot /\ allOver
  <2> DEFINE old == before[d].side
             p == before[d].sent
             announce == Says(d)
             says == allOver /\ announce
             done == Done(d)
             new == sides[d].side
             s == sides[d].sent
  <2>1. Closes(d, old, p)
    BY <1>4
  <2>2. /\ (allOver => new = [old EXCEPT !.retired_sent = done]) /\ (~allOver => new = old)
        /\ s = Followed(p, says, m)
    <3>1. CASE allOver
      <4>1. s = p \o (IF announce THEN << m >> ELSE << >>)
        BY <1>6, <3>1
      <4>2. new = [old EXCEPT !.retired_sent = done]
        BY <1>6, <3>1
      <4>3. says <=> announce
        BY <3>1
      <4> HIDE DEF announce, says, new, done, old
      <4> QED BY <3>1, <4>1, <4>2, <4>3 DEF Followed
    <3>2. CASE ~allOver
      <4>1. p \o << >> = p
        BY <2>1 DEF Closes
      <4> QED BY <1>6, <3>2, <4>1 DEF Followed
    <3> QED BY <3>1, <3>2
  <2>3. /\ old \in Side /\ p \in Seq(ToClient) /\ done \in BOOLEAN /\ says \in BOOLEAN /\ Len(p) \in Nat
        /\ (says => allOver /\ done) /\ (done => ~old.slot)
        /\ (old.retired_sent => allOver)
    <3>1. old \in Side /\ p \in Seq(ToClient)
      BY <2>1 DEF Closes
    <3>2. done \in BOOLEAN /\ says \in BOOLEAN
      BY DEF allOver
    <3>3. old.retired_sent => allOver /\ ~old.slot
      BY <1>5, <2>1 DEF Closes
    <3> QED BY <3>1, <3>2, <3>3
  <2>4. d \in terminal => ~says
    <3>1. ASSUME d \in terminal, says
          PROVE  FALSE
      <4>1. room[d] > Len(p) /\ room[d] = 0
        BY <1>0, <3>1
      <4> HIDE DEF p
      <4> QED BY <2>3, <4>1
    <3> QED BY <3>1
  <2> HIDE DEF announce, says, done, old, p, new, s
  <2>5. /\ new \in Side /\ new.ready = old.ready /\ new.exposed = old.exposed /\ new.slot = old.slot
        /\ new.quiescent = old.quiescent
        /\ (allOver => new.retired_sent = done) /\ (~allOver => new.retired_sent = old.retired_sent)
    <3>1. CASE allOver
      BY <2>2, <2>3, <3>1 DEF Side
    <3>2. CASE ~allOver
      BY <2>2, <2>3, <3>2
    <3> QED BY <3>1, <3>2
  <2>6. new.retired_sent => ~new.slot /\ allOver
    <3>1. CASE allOver
      BY <2>3, <2>5, <3>1
    <3>2. CASE ~allOver
      BY <2>3, <2>5, <3>2
    <3> QED BY <3>1, <3>2
  <2>7. /\ s \in Seq(ToClient)
        /\ \A k, t : On(s, k, t) <=> On(p, k, t) \/ (says /\ k = "Retired" /\ t = record.token)
        /\ Count(s, "Result") = Count(p, "Result")
    <3>1. /\ Followed(p, says, m) \in Seq(ToClient)
          /\ \A k, t : On(Followed(p, says, m), k, t) <=> On(p, k, t) \/ (says /\ m.kind = k /\ m.token = t)
          /\ Count(Followed(p, says, m), "Result") = Count(p, "Result")
      BY <1>2, <2>3, SaidNext
    <3> QED BY <1>2, <2>2, <3>1
  <2>8. d \in terminal => s = << >>
    <3>1. ASSUME d \in terminal
          PROVE  s = << >>
      <4>1. p = << >> /\ ~says
        BY <2>1, <2>4, <3>1 DEF Closes
      <4> QED BY <2>2, <4>1 DEF Followed
    <3> QED BY <3>1
  <2>9. new.quiescent => ~Installed(to_client[d], local[d][record.token], record.token)
    <3>1. old.quiescent = SideQuiescent(d, record.side[d])
      BY <2>1 DEF Closes
    <3> QED BY <1>0, <2>5, <3>1, SideOver
  <2>10. d \notin terminal => Count(s, "Result") + (IF new.slot THEN 1 ELSE 0)
                               = (IF record.side[d].slot THEN 1 ELSE 0)
    BY <2>1, <2>5, <2>7 DEF Closes
  <2>11. /\ \A k, t : On(s, k, t) => t = record.token /\ k \in {"Result", "Closing", "Retired"}
         /\ On(s, "Retired", record.token) => new.retired_sent
         /\ new.ready = record.side[d].ready /\ new.exposed = record.side[d].exposed
    BY <2>1, <2>3, <2>5, <2>7 DEF Closes
  <2>12. Passes(r, d, new, s)
    BY <2>5, <2>7, <2>8, <2>9, <2>10, <2>11 DEF Passes
  <2> QED BY <2>5, <2>6, <2>12 DEF new, s, old
<1>8. InOrder(r1)
  <2> DEFINE new == [c \in Client |-> sides[c].side]
  <2>1. /\ new \in [Client -> Side] /\ \A d \in Client : new[d] = sides[d].side
    BY <1>7 DEF Passes
  <2>2. r1 = [r EXCEPT !.side = new]
    OBVIOUS
  <2>3. \A d \in Client : new[d].retired_sent => ~new[d].slot /\ \A e \in Client : new[e].quiescent
    BY <1>7, <2>1 DEF allOver
  <2> HIDE DEF new
  <2>4. r1.phase = "closing" /\ r1.side = new
    BY <1>0, <2>1, <2>2 DEF Record
  <2> HIDE DEF r1
  <2> QED BY <2>3, <2>4 DEF InOrder, SideInOrder
<1>9. /\ Publish(r, sides) /\ r1 = [r EXCEPT !.side = [c \in Client |-> sides[c].side]]
      /\ \A d \in Client : Passes(r, d, sides[d].side, sides[d].sent)
  BY <1>7 DEF sides, before
<1> HIDE DEF r1
<1> QED
  BY <1>0, <1>8, <1>9, PublishKeeps

\* The record that a pass works on: it begins to close, or both sides are ready.
LEMMA PassStarts ==
  ASSUME IInv, record.phase # "none", NEW r, NEW room \in [Client -> Nat],
         \A c \in terminal : room[c] = 0,
         \/ r = BeginClose(record)
         \/ r = record
         \/ record.phase = "installing" /\ AllReady(record) /\ r = [record EXCEPT !.phase = "active"]
  PROVE  Started(r, room) /\ r.phase \in {"offered", "installing", "active", "closing"}
<1>1. record \in Record /\ record # NoRecord /\ InOrder(record)
  BY RecordTyped DEF NoRecord
<1>2. CASE r = record
  BY <1>1, <1>2, RecordKinds DEF Started
<1>3. CASE r = BeginClose(record)
  <2>1. r = [record EXCEPT !.phase = "closing"]
    BY <1>3 DEF BeginClose
  <2>2. /\ r \in Record /\ r.phase = "closing" /\ r.token = record.token /\ r.second = record.second
        /\ r.offered = record.offered /\ r.side = record.side
    BY <1>1, <2>1 DEF Record
  <2>3. InOrder(r)
    BY <1>1, <1>3, BeginCloseEvolves
  <2> QED BY <1>1, <2>2, <2>3 DEF Started
<1>4. CASE record.phase = "installing" /\ AllReady(record) /\ r = [record EXCEPT !.phase = "active"]
  <2>1. /\ r \in Record /\ r.phase = "active" /\ r.token = record.token /\ r.second = record.second
        /\ r.offered = record.offered /\ r.side = record.side
    BY <1>1, <1>4 DEF Record
  <2>2. InOrder(r)
    BY <1>1, <1>4, <2>1 DEF InOrder, SideInOrder, AllReady
  <2> QED BY <1>1, <1>4, <2>1, <2>2 DEF Started
<1> QED
  BY <1>2, <1>3, <1>4

LEMMA HostProgressKeeps ==
  ASSUME IInv, NEW expired, NEW free \in [Client -> Room], HostProgress(expired, free)
  PROVE  IInv'
<1> DEFINE stopped == \E c \in Client : ~Live(c)
           late == expired /\ record.phase \in {"offered", "installing"}
           r == IF stopped \/ late THEN BeginClose(record)
                ELSE IF record.phase = "installing" /\ AllReady(record)
                       THEN [record EXCEPT !.phase = "active"]
                ELSE record
           room == [c \in Client |-> IF c \in terminal THEN 0 ELSE free[c]]
           offer == ~r.offered /\ room[r.second] > 0
<1>1. /\ record.phase # "none"
      /\ CASE r.phase = "offered" ->
                Publish([r EXCEPT !.offered = @ \/ offer],
                        [c \in Client |-> [side |-> r.side[c],
                           sent |-> IF offer /\ c = r.second THEN << Msg("Offer", r.token) >>
                                    ELSE << >>]])
           [] r.phase = "installing" -> Publish(r, Exposed(r, room))
           [] r.phase = "active" -> Publish(r, Activated(r, room))
           [] r.phase = "closing" -> Publish(r, Retired(r, Closing(r, room), room))
      /\ UNCHANGED <<to_host, issued, closed, failed, stop_requested, clientVars>>
  BY DEF HostProgress
<1>2. \/ r = BeginClose(record)
      \/ r = record
      \/ record.phase = "installing" /\ AllReady(record) /\ r = [record EXCEPT !.phase = "active"]
  OBVIOUS
<1>3. room \in [Client -> Nat] /\ \A c \in terminal : room[c] = 0
  <2>1. Room \subseteq Nat /\ terminal \subseteq Client
    BY ConnectionAssumption DEF IInv, Typed
  <2> QED BY <2>1
<1> HIDE DEF r, room
<1>4. Started(r, room) /\ r.phase \in {"offered", "installing", "active", "closing"}
  BY <1>1, <1>2, <1>3, PassStarts
<1>5. CASE r.phase = "offered"
  <2> HIDE DEF offer
  <2>1. Publish([r EXCEPT !.offered = @ \/ offer],
                [c \in Client |-> [side |-> r.side[c],
                   sent |-> IF offer /\ c = r.second THEN << Msg("Offer", r.token) >> ELSE << >>]])
    BY <1>1, <1>5
  <2>2. offer = (~r.offered /\ room[r.second] > 0)
    BY DEF offer
  <2> QED BY <1>1, <1>4, <1>5, <2>1, <2>2, OfferedKeeps
<1>6. CASE r.phase = "installing"
  BY <1>1, <1>4, <1>6, ExposedKeeps
<1>7. CASE r.phase = "active"
  BY <1>1, <1>4, <1>7, ActivatedKeeps
<1>8. CASE r.phase = "closing"
  BY <1>1, <1>4, <1>8, ClosingPassKeeps
<1> QED
  BY <1>4, <1>5, <1>6, <1>7, <1>8

(* ------------------------------ the theorems ---------------------------- *)

LEMMA InitKeeps == Init => IInv
<1> SUFFICES ASSUME Init PROVE IInv
  OBVIOUS
<1>1. /\ to_host = [c \in Client |-> << >>] /\ to_client = [c \in Client |-> << >>]
      /\ record = NoRecord /\ issued = 0 /\ closed = FALSE /\ failed = FALSE
      /\ stop_requested = {} /\ terminal = {}
      /\ local = [c \in Client |-> [t \in Token |-> NoLocal]]
      /\ request = [c \in Client |-> "none"] /\ opened = [c \in Client |-> 0]
  BY DEF Init
<1>2. Typed
  <2>1. << >> \in Seq(ToHost) /\ << >> \in Seq(ToClient)
    OBVIOUS
  <2>2. to_host \in [Client -> Seq(ToHost)] /\ to_client \in [Client -> Seq(ToClient)]
    BY <1>1, <2>1
  <2>3. local \in [Client -> [Token -> Local]]
    BY <1>1, NoLocalTyped
  <2>4. /\ record = NoRecord \/ record \in Record
        /\ issued \in Nat /\ closed \in BOOLEAN /\ failed \in BOOLEAN
        /\ stop_requested \subseteq Client /\ terminal \subseteq Client
        /\ request \in [Client -> Requests] /\ opened \in [Client -> Nat]
    BY <1>1 DEF Requests
  <2> QED BY <2>2, <2>3, <2>4 DEF Typed
<1>3. Gone /\ InOrder(record)
  BY <1>1 DEF Gone, InOrder
<1>4. ASSUME NEW c \in Client
      PROVE  /\ Count(to_host[c], "Request") = 0 /\ Count(to_client[c], "Result") = 0
             /\ opened[c] = 0 /\ ~Answers(c) /\ request[c] = "none"
  BY <1>1, CountEmpty DEF Answers
<1>5. OneAnswer
  BY <1>4 DEF OneAnswer
<1>6. Counted
  <2>1. \A c \in Client : Peer(c) \in Client
    BY Peers
  <2>2. Opens \in Nat
    BY ConnectionAssumption
  <2>3. \A c \in Client : opened[c] <= (IF c \in Opener THEN Opens ELSE 0)
    BY <1>4, <2>2
  <2>4. \A c \in Client : issued + Count(to_host[c], "Request") + Count(to_host[Peer(c)], "Request")
                             <= opened[c] + opened[Peer(c)]
    BY <1>1, <1>4, <2>1
  <2> QED BY <1>1, <2>3, <2>4 DEF Counted
<1>7. Views
  <2> SUFFICES ASSUME NEW c \in Client, NEW t \in Token
               PROVE  View(Known(c, t), to_client[c], to_host[c], local[c][t], t)
    BY DEF Views
  <2> DEFINE g == Known(c, t)
             q == to_client[c]
             r == local[c][t]
  <2>1. q = << >> /\ to_host[c] = << >> /\ r = NoLocal
    BY <1>1
  <2>2. Untouched(q, to_host[c], r, t)
    BY <2>1 DEF Untouched, Absent
  <2>3. ~g.ready /\ g \in Facts
    BY <1>1, <1>2, KnownFacts DEF Holds
  <2> HIDE DEF g, q, r
  <2>4. View(g, q, to_host[c], r, t)
    BY <2>2, <2>3, ViewFresh
  <2> QED BY <2>4 DEF g, q, r
<1> QED
  BY <1>2, <1>3, <1>5, <1>6, <1>7 DEF IInv

LEMMA StutterKeeps ==
  ASSUME IInv, UNCHANGED vars
  PROVE  IInv'
<1>1. /\ UNCHANGED <<to_host, to_client, record, issued, closed, failed, stop_requested>>
      /\ UNCHANGED <<local, request, opened, terminal>>
  BY DEF vars, hostVars, clientVars
<1>2. Typed' /\ Gone' /\ InOrder(record)' /\ Counted' /\ OneAnswer'
  BY <1>1 DEF IInv, Typed, Gone, InOrder, SideInOrder, Counted, OneAnswer, Answers
<1>3. \A c \in Client : \A t \in Token : Known(c, t)' = Known(c, t)
  BY <1>1 DEF Known, Opening, Holds, Over, SteadyAt, Unoffered
<1>4. Views'
  BY <1>1, <1>3 DEF IInv, Views
<1> QED
  BY <1>2, <1>4 DEF IInv

LEMMA NextKeeps ==
  ASSUME IInv, [Next]_vars
  PROVE  IInv'
<1>1. ASSUME NEW c \in Client, ClientStep(c) PROVE IInv'
  BY <1>1, HandleKeeps, TakeResultKeeps, QuiesceKeeps DEF ClientStep
<1>2. ASSUME NEW c \in Client,
             progress(c) \/ open(c) \/ close_all(c) \/ (\E t \in Token : close(c, t)) \/ Exit(c)
      PROVE  IInv'
  BY <1>2, ProgressKeeps, OpenKeeps, CloseAllKeeps, CloseKeeps, ExitKeeps
<1>3. ASSUME NEW c \in Client, HostStep(c) PROVE IInv'
  BY <1>3, RequestKeeps, DecisionKeeps, ReadyKeeps, HostCloseKeeps, QuiescentKeeps DEF HostStep
<1>4. ASSUME NEW c \in Client, close_client(c) PROVE IInv'
  BY <1>4, CloseClientKeeps
<1>5. ASSUME HostCloseAll PROVE IInv'
  <2>1. \E c \in Client : TRUE
    BY ConnectionAssumption, FS_EmptySet
  <2> QED BY <1>5, <2>1, CloseClientKeeps
<1>6. ASSUME AnyProgress PROVE IInv'
  BY <1>6, HostProgressKeeps DEF AnyProgress
<1>7. ASSUME UNCHANGED vars PROVE IInv'
  BY <1>7, StutterKeeps
<1> QED
  BY <1>1, <1>2, <1>3, <1>4, <1>5, <1>6, <1>7 DEF Next

LEMMA Invariant == Spec => []IInv
<1>1. IInv /\ [Next]_vars => IInv'
  BY NextKeeps
<1> QED
  BY InitKeeps, <1>1, PTL DEF Spec

\* The Host erases a connection's descriptors, queues and notifications only
\* when neither thread can touch them: none has an endpoint on them, and no
\* descriptor is on its way to one.
THEOREM DescriptorKept == Spec => []DescriptorOutlivesUse
<1>1. IInv => DescriptorOutlivesUse
  <2> SUFFICES ASSUME IInv, NEW c \in Client, NEW t \in Token,
                      local[c][t].endpoint \/ Msg("Install", t) \in ToSet(to_client[c])
               PROVE  Holds(t)
    BY DEF DescriptorOutlivesUse
  <2> DEFINE g == Known(c, t)
             q == to_client[c]
  <2>1. Msg("Install", t) \in ToSet(q) => On(q, "Install", t)
    <3>1. q \in Seq(ToClient)
      BY LocalTyped DEF IInv
    <3> HIDE DEF q
    <3>2. DOMAIN q = 1..Len(q)
      BY <3>1
    <3> QED BY <3>2 DEF ToSet, Msg, On
  <2>2. Installed(q, local[c][t], t)
    BY <2>1 DEF Installed
  <2>3. g.exposed => Holds(t)
    BY KnownFacts DEF IInv
  <2>4. View(g, q, to_host[c], local[c][t], t)
    BY DEF IInv, Views
  <2> HIDE DEF g, q
  <2> QED BY <2>2, <2>3, <2>4 DEF View
<1> QED
  BY Invariant, <1>1, PTL

\* A thread that may post finds its peer installed, on its way out or gone: the
\* Host activates both only when both have said that they are ready.
THEOREM NobodyActiveAlone == Spec => []ActiveTogether
<1>1. IInv => ActiveTogether
  <2> SUFFICES ASSUME IInv, NEW c \in Client, NEW t \in Token, local[c][t].phase = "active"
               PROVE  \/ local[Peer(c)][t].endpoint \/ local[Peer(c)][t].phase = "closing"
                      \/ Peer(c) \in terminal
    BY DEF ActiveTogether
  <2> DEFINE g == Known(c, t)
             r == local[c][t]
  <2>1. View(g, to_client[c], to_host[c], r, t)
    BY DEF IInv, Views
  <2>2. g.peer = SteadyAt(Peer(c), t)
    BY KnownFacts DEF IInv
  <2> HIDE DEF g, r
  <2>3. g.peer /\ r.endpoint
    BY <2>1 DEF View, r
  <2>4. ~Over(t)
    BY <2>3 DEF Over, Installed, r
  <2> QED BY <2>2, <2>3, <2>4 DEF SteadyAt
<1> QED
  BY Invariant, <1>1, PTL

\* A request that a thread waits for is in one place: on its way to the Host,
\* in the record's slot or answered; and no result is left over for a later one.
THEOREM AnsweredOnce == Spec => []OneAnswer
<1>1. IInv => OneAnswer
  BY DEF IInv
<1> QED
  BY Invariant, <1>1, PTL

\* Each queue carries the messages of its direction; the record, the tokens and
\* each client's records keep their types, and no token is issued beyond those
\* that the threads asked for.
THEOREM TypeCorrect == Spec => []TypeOK
<1>1. IInv => TypeOK
  <2> SUFFICES ASSUME IInv PROVE TypeOK
    OBVIOUS
  <2>0. Typed /\ Counted
    BY DEF IInv
  <2>1. \A m \in UNION {ToSet(to_host[c]) : c \in Client} :
          m.kind \in ToHostKinds /\ m.token \in Token \cup {NoToken}
    <3> SUFFICES ASSUME NEW c \in Client, NEW m \in ToSet(to_host[c])
                 PROVE  m.kind \in ToHostKinds /\ m.token \in Token \cup {NoToken}
      OBVIOUS
    <3>1. m \in ToHost
      BY <2>0, LocalTyped DEF ToSet
    <3> QED BY <3>1 DEF ToHost
  <2>2. \A m \in UNION {ToSet(to_client[c]) : c \in Client} :
          m.kind \in ToClientKinds /\ m.token \in Token \cup {NoToken}
    <3> SUFFICES ASSUME NEW c \in Client, NEW m \in ToSet(to_client[c])
                 PROVE  m.kind \in ToClientKinds /\ m.token \in Token \cup {NoToken}
      OBVIOUS
    <3>1. m \in ToClient
      BY <2>0, LocalTyped DEF ToSet
    <3> QED BY <3>1 DEF ToClient
  <2>3. issued \in 0..Tokens
    BY <2>0, IssuedBounded
  <2>4. record.phase \in {"none", "offered", "installing", "active", "closing"}
    <3>1. CASE record = NoRecord
      BY <3>1 DEF NoRecord
    <3>2. CASE record \in Record
      BY <3>2, RecordKinds
    <3> QED BY <2>0, <3>1, <3>2 DEF Typed
  <2>5. record # NoRecord => record.token \in 1..issued
    <3> SUFFICES ASSUME record # NoRecord PROVE record.token \in 1..issued
      OBVIOUS
    <3>1. record.token \in Token /\ record.token <= issued /\ issued \in Nat
      BY <2>0, RecordKinds DEF Typed, Counted
    <3> QED BY <3>1, TokensNat
  <2>6. \A c \in Client, t \in Token :
          /\ local[c][t].phase \in {"empty", "offered", "installed", "active", "closing"}
          /\ local[c][t].owes \subseteq ToHostKinds \ {"Request"}
    <3> SUFFICES ASSUME NEW c \in Client, NEW t \in Token
                 PROVE  /\ local[c][t].phase \in {"empty", "offered", "installed", "active", "closing"}
                        /\ local[c][t].owes \subseteq ToHostKinds \ {"Request"}
      OBVIOUS
    <3>1. local[c][t] \in Local
      BY <2>0, LocalTyped
    <3> QED BY <3>1 DEF Local, Owable, ToHostKinds
  <2>7. request \in [Client -> {"none", "pending", "cancelled", "completed"}]
    BY <2>0 DEF Typed, Requests
  <2> QED BY <2>1, <2>2, <2>3, <2>4, <2>5, <2>6, <2>7 DEF TypeOK
<1> QED
  BY Invariant, <1>1, PTL
=============================================================================
