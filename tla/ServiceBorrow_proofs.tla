------------------------ MODULE ServiceBorrow_proofs ------------------------
(***************************************************************************)
(* The service protocol for every number of requests, every capacity of    *)
(* the lanes and every bound on disturbances: a view outlives its readers, *)
(* no message is refused, and the reserved credits are exact.              *)
(*                                                                         *)
(* What is claimed of a request relates the Host's operation and record,   *)
(* the provider's use, the consumer's record and the messages on their way *)
(* (About); the methods of the Host and the provider move one request at a *)
(* time, and each is shown to keep what is claimed of it.                  *)
(***************************************************************************)
EXTENDS ServiceBorrow, FiniteSetTheorems, SequenceTheorems, WellFoundedInduction, TLAPS

(* ----------------------------- the types -------------------------------- *)

Routes == {"none", "open", "closing"}
Kind == {"none", "create", "acquire", "ready"}
Slots == {"free", "live", "ok", "failed"}
Controls == {"closing", "retired"}

Operation ==
    [live : BOOLEAN, kind : Kind, of : 0..N, offered : BOOLEAN, delivered : BOOLEAN, completed : BOOLEAN,
     ok : BOOLEAN, cancelled : BOOLEAN, cancellation_notified : BOOLEAN, terminal_sent : BOOLEAN,
     borrow : BOOLEAN]

Record ==
    [live : BOOLEAN, dispatched : BOOLEAN, settled : BOOLEAN, published : BOOLEAN, closing : BOOLEAN,
     client_notified : BOOLEAN, provider_notified : BOOLEAN, quiescence_notified : BOOLEAN,
     finished : BOOLEAN, quiescence : Quiescence, registered : BOOLEAN]

Answer ==
    [t : {"acknowledged", "prepared"}, r : Requests]
    \cup [t : {"completed", "registered"}, r : Requests, ok : BOOLEAN]
    \cup [t : {"closed"}, r : {0}, ok : BOOLEAN]
    \cup [t : Controls, r : Requests, quiescence : Quiescence]

Word == [t : {"cancel", "release", "quiescent"}, r : Requests]

Call ==
    Word \cup [t : {"request"}, r : Requests, kind : Kind, of : Requests]
    \cup [t : {"register"}, r : Requests] \cup [t : {"close"}, r : {0}]

Notice == [t : {"closing", "consumer_quiescent", "cancelled"}, r : Requests, quiescence : Quiescence]

HostState ==
    [threaded : BOOLEAN, terminal : BOOLEAN, stop : BOOLEAN, route : Routes, last : 0..N,
     failed : BOOLEAN, reserved : Nat, op : [Requests -> Operation], rec : [Requests -> Record],
     control : Seq(Answer), reply : Seq(Answer), phase : {"ready", "stopping", "stopped"},
     provider_stop : BOOLEAN, provider_inbox : Seq(Notice)]

Use ==
    [live : BOOLEAN, closing : BOOLEAN, ready : BOOLEAN, borrow : BOOLEAN, started : BOOLEAN,
     expired : BOOLEAN, quiescence : Quiescence]

ProviderState ==
    [window : 0..N, window_closing : BOOLEAN, stopping : BOOLEAN, begun : BOOLEAN, failed : BOOLEAN,
     broken : BOOLEAN, skipped : BOOLEAN, use : [Requests -> Use], completion : [Requests -> Slots]]

ClientRecord ==
    [live : BOOLEAN, kind : Kind, of : 0..N, acknowledged : BOOLEAN, seen_prepared : BOOLEAN,
     seen_terminal : BOOLEAN, never_published : BOOLEAN, closing : BOOLEAN, quiescent : BOOLEAN,
     retired : BOOLEAN, borrow : BOOLEAN, view : BOOLEAN, waiting : BOOLEAN, registered : BOOLEAN]

ClientState ==
    [rec : [Requests -> ClientRecord], next : 1..(N + 1), refused : BOOLEAN,
     using : [Requests -> BOOLEAN], route : Routes, said : [Requests -> BOOLEAN]]

Outbox == [control : Seq(Word), pod : Seq(Call)]

(* ------------------------ messages on their way ------------------------- *)

Has(s, t, r) == \E i \in 1..Len(s) : s[i].t = t /\ s[i].r = r

\* A closing or retired message that says the view was, or was not, published.
Unpublished(s, r) ==
    \E i \in 1..Len(s) : s[i].t \in Controls /\ s[i].r = r /\ s[i].quiescence = "never_published"

Published(s, t, r) == \E i \in 1..Len(s) : s[i].t = t /\ s[i].r = r /\ s[i].quiescence # "never_published"

Asked(o, r) == Has(o.pod, "request", r)
Registering(o, r) == Has(o.pod, "register", r)
Quitting(o, r) == Has(o.control, "quiescent", r) \/ Has(o.pod, "quiescent", r)
Leaving(o) == Has(o.pod, "close", 0)

Acked(g, r) == Has(g.reply, "acknowledged", r)
Lent(g, r) == Has(g.reply, "prepared", r)
Done(g, r) == Has(g.reply, "completed", r)
Enrolled(g, r) == Has(g.reply, "registered", r)
Left(g) == Has(g.reply, "closed", 0)
Closes(g, r) == Has(g.reply, "closing", r) \/ Has(g.control, "closing", r)
Retires(g, r) == Has(g.reply, "retired", r) \/ Has(g.control, "retired", r)
Never(g, r) == Unpublished(g.reply, r) \/ Unpublished(g.control, r)
Withdrawn(g, r) == Published(g.reply, "retired", r) \/ Published(g.control, "retired", r)
Withdraws(g, r) == Published(g.reply, "closing", r) \/ Published(g.control, "closing", r) \/ Withdrawn(g, r)

(* -------------------- what is claimed of a request ---------------------- *)

Owes(op) == op.live /\ ~op.terminal_sent
Unsettled(rec) == rec.live /\ ~rec.settled

\* The borrow of this request has been prepared, or never will be.
Spent(g, r) == r <= g.last /\ (g.op[r].live => g.op[r].borrow)

\* The Host's record of a borrow.
Shape(g, r) ==
    LET rec == g.rec[r] IN
    /\ ~rec.settled => ~rec.closing /\ ~rec.published /\ rec.quiescence = "none"
    /\ rec.published => rec.quiescence # "never_published"
    /\ rec.settled /\ ~rec.published => rec.quiescence = "never_published"
    /\ rec.finished => rec.closing /\ rec.quiescence # "none"
    /\ rec.quiescence_notified => rec.quiescence # "none"
    /\ rec.quiescence = "execution_ended" => g.terminal
    /\ rec.client_notified => rec.closing
    /\ ~rec.live => ~rec.settled

\* The operation, its borrow, and the provider's use and completion slot; com
\* are the requests the pump call under way has carried out.
Loan(g, q, com, r) ==
    LET op == g.op[r] rec == g.rec[r] use == q.use[r] IN
    /\ rec.live => Spent(g, r)
    /\ Unsettled(rec) => Owes(op)
    /\ rec.live /\ ~rec.finished <=> use.live /\ use.borrow
    /\ r > g.last => ~op.live
    /\ r > g.last \/ (op.live /\ ~op.delivered /\ r \notin com) =>
          ~use.live /\ q.completion[r] = "free" /\ ~rec.live /\ ~op.borrow /\ ~op.completed
    /\ q.completion[r] # "free" => op.live /\ ~op.completed /\ (op.delivered \/ (r \in com /\ op.offered))
    /\ ~op.live => ~op.borrow /\ ~op.terminal_sent
    /\ op.terminal_sent => op.completed \/ op.cancelled
    /\ op.live => op.of \in Requests
    /\ use.live => q.window # 0
    /\ g.route = "none" => ~op.live /\ ~rec.live

\* Who can read the view.
Reads(g, d, r) == d.using[r] \/ d.rec[r].view \/ Lent(g, r)

\* A view that can be read is lent, and nobody has called it off.
Watch(g, d, o, r) ==
    LET rec == g.rec[r] k == d.rec[r] IN
    /\ Reads(g, d, r) => rec.live /\ rec.published /\ rec.quiescence = "none" /\ ~Quitting(o, r)
    /\ Lent(g, r) \/ k.seen_prepared => Spent(g, r) /\ (rec.live => rec.published)
    /\ Quitting(o, r) \/ k.never_published \/ Never(g, r) \/ Closes(g, r) \/ Retires(g, r) \/ k.retired
            => Spent(g, r) /\ (rec.live => rec.settled)
    /\ k.never_published \/ Never(g, r) => ~k.seen_prepared /\ (rec.live => rec.quiescence = "never_published")
    /\ Lent(g, r) => ~k.seen_prepared

\* The answers a request is owed: one acknowledgement, then one completion.
Answers(g, d, o, r) ==
    LET op == g.op[r] k == d.rec[r] IN
    /\ (Asked(o, r) \/ Done(g, r) \/ Owes(op)) /\ ~g.terminal => k.live /\ ~k.seen_terminal
    /\ ~(Asked(o, r) /\ (Done(g, r) \/ op.live)) /\ ~(Done(g, r) /\ Owes(op))
    /\ Asked(o, r) \/ k.live \/ Done(g, r) => r < d.next
    /\ Acked(g, r) => (Done(g, r) \/ Owes(op)) /\ ~k.acknowledged
    /\ Asked(o, r) => ~k.acknowledged /\ ~Acked(g, r)
    /\ Lent(g, r) => Done(g, r) \/ Owes(op)
    /\ (Registering(o, r) \/ Enrolled(g, r)) /\ ~g.terminal => k.live /\ k.borrow /\ k.waiting
    /\ ~(Registering(o, r) /\ Enrolled(g, r))

\* How a published view is withdrawn: the consumer keeps its record until it
\* has heard of it, and has said that it is quiescent before it is retired.
Withdrawal(g, d, o, r) ==
    LET rec == g.rec[r] k == d.rec[r] IN
    /\ Withdraws(g, r) => k.live /\ ~k.retired /\ (Lent(g, r) \/ k.seen_prepared)
    /\ Withdrawn(g, r) => k.quiescent
    /\ Closes(g, r) => (rec.live => rec.client_notified)
    /\ Retires(g, r) => ~rec.live
    /\ rec.live /\ rec.published /\ ~g.terminal => k.live /\ (Lent(g, r) \/ k.seen_prepared)
    /\ rec.live /\ rec.quiescence = "relinquished" /\ ~g.terminal => k.quiescent
    /\ k.live /\ Quitting(o, r) => k.quiescent
    /\ k.seen_prepared => k.live /\ k.borrow
    /\ k.view => k.live
    /\ k.retired => ~rec.live
    /\ k.never_published => k.live

About(g, q, d, o, com, r) ==
    Shape(g, r) /\ Loan(g, q, com, r) /\ Watch(g, d, o, r) /\ Answers(g, d, o, r) /\ Withdrawal(g, d, o, r)

(* -------------------- what is claimed of the whole ---------------------- *)

\* The messages of one request keep an order in a lane, and none comes twice.
Misplaced(t1, t2) ==
    \/ t1 = t2
    \/ t1 \in {"prepared", "completed"} /\ t2 = "acknowledged"
    \/ t1 = "completed" /\ t2 = "prepared"
    \/ t1 = "retired" /\ t2 = "closing"

Ordered(s) == \A i, j \in 1..Len(s) : i < j /\ s[i].r = s[j].r => ~Misplaced(s[i].t, s[j].t)

Single(s) ==
    \A i, j \in 1..Len(s) :
        i < j /\ s[i].r = s[j].r /\ s[i].t = s[j].t => s[i].t \notin {"request", "register", "close"}

Inbox(g) ==
    /\ Ordered(g.reply) /\ Ordered(g.control)
    /\ g.threaded => g.control = <<>>
    /\ ~g.threaded => \A i \in 1..Len(g.reply) : g.reply[i].t \notin Controls
    /\ \A i \in 1..Len(g.control) : g.control[i].t \in Controls
    /\ g.terminal => g.reply = <<>> /\ g.control = <<>>

Route(g, d, o) ==
    /\ (Leaving(o) \/ Left(g)) /\ ~g.terminal => d.route = "closing"
    /\ ~(Leaving(o) /\ Left(g))
    /\ g.last < d.next

\* The provider fails only when its native side has, and stops only when that
\* or the Host has made it.
Healthy(q) ==
    /\ q.failed => q.broken
    /\ q.stopping => q.begun \/ q.failed

Calm(g, q) == ~g.failed /\ Healthy(q)

Owing(g) == {r \in Requests : Owes(g.op[r])}
Unpaid(g) == {r \in Requests : Unsettled(g.rec[r])}
Debts(g) == Cardinality(Owing(g)) + Cardinality(Unpaid(g))

\* The credits are those of the replies that are owed, and x more for the
\* message that is being answered.
Books(g, x) ==
    /\ g.reserved = Debts(g) + x
    /\ g.threaded \/ Len(g.reply) + g.reserved <= ReplyCapacity

Ended(g, d) == g.terminal => \A r \in Requests : d.rec[r] = NoClientRecord

Sound(g, q, d, o, com, x) ==
    /\ g \in HostState /\ q \in ProviderState /\ d \in ClientState /\ o \in Outbox
    /\ \A r \in Requests : About(g, q, d, o, com, r)
    /\ Inbox(g) /\ Single(o.pod) /\ Route(g, d, o) /\ Calm(g, q) /\ Books(g, x) /\ Ended(g, d)

IInv ==
    /\ Sound(h, p, c, out, {}, 0)
    /\ ~c.refused
    /\ turn \in {"drain", "pump", "service"} /\ disturbed \in 0..Disturbances

(* ----------------------- requests left as they are ---------------------- *)

\* What a step of the Host leaves alone when it sends nothing.
Still(g, x) ==
    /\ x.threaded = g.threaded /\ x.terminal = g.terminal /\ x.last = g.last /\ x.route = g.route
    /\ x.reply = g.reply /\ x.control = g.control
    /\ x.failed = g.failed /\ x.provider_stop = g.provider_stop

Same(g, x, i) == x.op[i] = g.op[i] /\ x.rec[i] = g.rec[i]

Elsewhere(g, x, r) == \A i \in Requests : i # r => Same(g, x, i)

LEMMA SameKeeps ==
  ASSUME NEW g, NEW x, NEW q, NEW d, NEW o, NEW com, NEW r, Still(g, x), Same(g, x, r),
         About(g, q, d, o, com, r)
  PROVE  About(x, q, d, o, com, r)
<1>1. Shape(x, r)
  BY DEF About, Shape, Still, Same
<1>2. Loan(x, q, com, r)
  BY DEF About, Loan, Still, Same, Spent, Unsettled, Owes
<1>3. Watch(x, d, o, r)
  BY DEF About, Watch, Still, Same, Spent, Reads, Lent, Never, Closes, Retires
<1>4. Answers(x, d, o, r)
  BY DEF About, Answers, Still, Same, Owes, Done, Acked, Lent, Enrolled
<1>5. Withdrawal(x, d, o, r)
  BY DEF About, Withdrawal, Still, Same, Withdraws, Withdrawn, Closes, Retires, Lent
<1> QED BY <1>1, <1>2, <1>3, <1>4, <1>5 DEF About

\* A step that moves one request and sends nothing.
LEMMA MoveSound ==
  ASSUME NEW g, NEW x, NEW q, NEW d, NEW o, NEW com, NEW n, NEW k, NEW r \in Requests,
         Sound(g, q, d, o, com, n), x \in HostState, Still(g, x), Elsewhere(g, x, r),
         About(x, q, d, o, com, r), Books(x, k)
  PROVE  Sound(x, q, d, o, com, k)
<1>1. ASSUME NEW i \in Requests PROVE About(x, q, d, o, com, i)
  <2>1. CASE i = r
    BY <2>1
  <2>2. CASE i # r
    <3>1. Same(g, x, i) /\ About(g, q, d, o, com, i)
      BY <2>2 DEF Elsewhere, Sound
    <3> QED BY <3>1, SameKeeps
  <2> QED BY <2>1, <2>2
<1>2. Inbox(x)
  BY DEF Sound, Inbox, Still
<1>3. Route(x, d, o)
  BY DEF Sound, Route, Still, Left
<1>4. Calm(x, q)
  BY DEF Sound, Calm, Still
<1>5. Ended(x, d)
  BY DEF Sound, Ended, Still
<1> QED BY <1>1, <1>2, <1>3, <1>4, <1>5 DEF Sound

(* ------------------------------ the books ------------------------------- *)

LEMMA FewRequests == IsFiniteSet(Requests)
BY ServiceAssumption, FS_Interval DEF Requests

Bit(b) == IF b THEN 1 ELSE 0

\* A set of requests that differs from another at most in r.
LEMMA OneMore ==
  ASSUME NEW S \in SUBSET Requests, NEW T \in SUBSET Requests, NEW r \in Requests,
         \A i \in Requests : i # r => (i \in S <=> i \in T)
  PROVE  /\ Cardinality(S) \in Nat /\ Cardinality(T) \in Nat
         /\ Cardinality(T) + Bit(r \in S) = Cardinality(S) + Bit(r \in T)
         /\ Bit(r \in S) <= Cardinality(S)
<1> DEFINE U == S \ {r}
<1>1. IsFiniteSet(S) /\ IsFiniteSet(T) /\ IsFiniteSet(U)
  BY FewRequests, FS_Subset
<1>2. Cardinality(S) \in Nat /\ Cardinality(T) \in Nat /\ Cardinality(U) \in Nat
  BY <1>1, FS_CardinalityType
<1>3. U = T \ {r}
  OBVIOUS
<1>4. Cardinality(U) = IF r \in S THEN Cardinality(S) - 1 ELSE Cardinality(S)
  BY <1>1, FS_RemoveElement
<1>5. Cardinality(U) = IF r \in T THEN Cardinality(T) - 1 ELSE Cardinality(T)
  BY <1>1, <1>3, FS_RemoveElement
<1> HIDE DEF U
<1> QED BY <1>2, <1>4, <1>5 DEF Bit

LEMMA Balance ==
  ASSUME NEW g, NEW x, NEW r \in Requests, Elsewhere(g, x, r)
  PROVE  /\ Debts(g) \in Nat /\ Debts(x) \in Nat
         /\ Debts(x) + Bit(Owes(g.op[r])) + Bit(Unsettled(g.rec[r]))
                = Debts(g) + Bit(Owes(x.op[r])) + Bit(Unsettled(x.rec[r]))
         /\ Bit(Owes(g.op[r])) + Bit(Unsettled(g.rec[r])) <= Debts(g)
<1>1. Owing(g) \in SUBSET Requests /\ Owing(x) \in SUBSET Requests
  BY DEF Owing
<1>2. Unpaid(g) \in SUBSET Requests /\ Unpaid(x) \in SUBSET Requests
  BY DEF Unpaid
<1>3. \A i \in Requests : i # r => (i \in Owing(g) <=> i \in Owing(x)) /\ (i \in Unpaid(g) <=> i \in Unpaid(x))
  BY DEF Elsewhere, Same, Owing, Unpaid
<1>4. (r \in Owing(g) <=> Owes(g.op[r])) /\ (r \in Owing(x) <=> Owes(x.op[r]))
  BY DEF Owing
<1>5. (r \in Unpaid(g) <=> Unsettled(g.rec[r])) /\ (r \in Unpaid(x) <=> Unsettled(x.rec[r]))
  BY DEF Unpaid
<1>6. Bit(r \in Owing(g)) = Bit(Owes(g.op[r])) /\ Bit(r \in Owing(x)) = Bit(Owes(x.op[r]))
  BY <1>4 DEF Bit
<1>7. Bit(r \in Unpaid(g)) = Bit(Unsettled(g.rec[r])) /\ Bit(r \in Unpaid(x)) = Bit(Unsettled(x.rec[r]))
  BY <1>5 DEF Bit
<1>8. /\ Cardinality(Owing(g)) \in Nat /\ Cardinality(Owing(x)) \in Nat
      /\ Cardinality(Owing(x)) + Bit(r \in Owing(g)) = Cardinality(Owing(g)) + Bit(r \in Owing(x))
      /\ Bit(r \in Owing(g)) <= Cardinality(Owing(g))
  BY <1>1, <1>3, OneMore
<1>9. /\ Cardinality(Unpaid(g)) \in Nat /\ Cardinality(Unpaid(x)) \in Nat
      /\ Cardinality(Unpaid(x)) + Bit(r \in Unpaid(g)) = Cardinality(Unpaid(g)) + Bit(r \in Unpaid(x))
      /\ Bit(r \in Unpaid(g)) <= Cardinality(Unpaid(g))
  BY <1>2, <1>3, OneMore
<1> DEFINE a == Bit(Owes(g.op[r]))
           b == Bit(Unsettled(g.rec[r]))
           e == Bit(Owes(x.op[r]))
           f == Bit(Unsettled(x.rec[r]))
<1>10. a \in Nat /\ b \in Nat /\ e \in Nat /\ f \in Nat
  BY DEF Bit
<1>11. Cardinality(Owing(x)) + a = Cardinality(Owing(g)) + e /\ a <= Cardinality(Owing(g))
  BY <1>6, <1>8
<1>12. Cardinality(Unpaid(x)) + b = Cardinality(Unpaid(g)) + f /\ b <= Cardinality(Unpaid(g))
  BY <1>7, <1>9
<1>13. Debts(g) = Cardinality(Owing(g)) + Cardinality(Unpaid(g)) /\ Debts(x) = Cardinality(Owing(x)) + Cardinality(Unpaid(x))
  BY DEF Debts
<1> HIDE DEF a, b, e, f
<1>14. Debts(g) \in Nat /\ Debts(x) \in Nat /\ Debts(x) + a + b = Debts(g) + e + f /\ a + b <= Debts(g)
  BY <1>8, <1>9, <1>10, <1>11, <1>12, <1>13
<1> QED
  BY <1>14 DEF a, b, e, f

\* Nothing is owed more or less.
LEMMA SameBooks ==
  ASSUME NEW g, NEW x, NEW n, NEW r \in Requests, Elsewhere(g, x, r), Books(g, n), n \in Nat,
         Owes(g.op[r]) <=> Owes(x.op[r]), Unsettled(g.rec[r]) <=> Unsettled(x.rec[r]),
         x.reserved = g.reserved, x.reply = g.reply, x.threaded = g.threaded
  PROVE  Books(x, n)
<1>1. Bit(Owes(g.op[r])) = Bit(Owes(x.op[r])) /\ Bit(Unsettled(g.rec[r])) = Bit(Unsettled(x.rec[r]))
  BY DEF Bit
<1>2. Bit(Owes(g.op[r])) \in Nat /\ Bit(Unsettled(g.rec[r])) \in Nat
  BY DEF Bit
<1>3. Debts(x) = Debts(g)
  BY <1>1, <1>2, Balance
<1> QED BY <1>3 DEF Books

(* --------------------- one record, or one operation --------------------- *)

\* What neither a new record nor a new operation changes.
Rest(g, x) ==
    Still(g, x) /\ x.phase = g.phase /\ x.stop = g.stop /\ x.provider_inbox = g.provider_inbox

WithRecord(g, r, b, k) == [g EXCEPT !.rec = [g.rec EXCEPT ![r] = b], !.reserved = k]
WithOperation(g, r, a, k) == [g EXCEPT !.op = [g.op EXCEPT ![r] = a], !.reserved = k]

LEMMA NewRecord ==
  ASSUME NEW g \in HostState, NEW r \in Requests, NEW b \in Record, NEW k \in Nat, NEW x,
         x = WithRecord(g, r, b, k)
  PROVE  /\ x \in HostState /\ Rest(g, x) /\ Elsewhere(g, x, r)
         /\ x.rec[r] = b /\ x.op = g.op /\ x.reserved = k
<1> DEFINE rec == [g.rec EXCEPT ![r] = b]
<1>1. rec \in [Requests -> Record] /\ rec[r] = b /\ \A i \in Requests : i # r => rec[i] = g.rec[i]
  BY DEF HostState
<1> HIDE DEF rec
<1> QED BY <1>1 DEF WithRecord, HostState, Rest, Still, Elsewhere, Same

LEMMA NewOperation ==
  ASSUME NEW g \in HostState, NEW r \in Requests, NEW a \in Operation, NEW k \in Nat, NEW x,
         x = WithOperation(g, r, a, k)
  PROVE  /\ x \in HostState /\ Rest(g, x) /\ Elsewhere(g, x, r)
         /\ x.op[r] = a /\ x.rec = g.rec /\ x.reserved = k
<1> DEFINE op == [g.op EXCEPT ![r] = a]
<1>1. op \in [Requests -> Operation] /\ op[r] = a /\ \A i \in Requests : i # r => op[i] = g.op[i]
  BY DEF HostState
<1> HIDE DEF op
<1> QED BY <1>1 DEF WithOperation, HostState, Rest, Still, Elsewhere, Same

LEMMA Entries ==
  ASSUME NEW g \in HostState, NEW r \in Requests
  PROVE  g.op[r] \in Operation /\ g.rec[r] \in Record /\ g.reserved \in Nat
BY DEF HostState

\* What is owed has its credit.
LEMMA Funded ==
  ASSUME NEW g \in HostState, NEW n \in Nat, Books(g, n), NEW r \in Requests
  PROVE  Owes(g.op[r]) \/ Unsettled(g.rec[r]) => g.reserved > 0
<1> DEFINE a == Bit(Owes(g.op[r]))
           b == Bit(Unsettled(g.rec[r]))
<1>1. a \in Nat /\ b \in Nat /\ (Owes(g.op[r]) \/ Unsettled(g.rec[r]) => a = 1 \/ b = 1)
  BY DEF Bit
<1>2. Debts(g) \in Nat /\ a + b <= Debts(g)
  <2>1. Elsewhere(g, g, r)
    BY DEF Elsewhere, Same
  <2> QED BY <2>1, Balance
<1>3. g.reserved = Debts(g) + n
  BY DEF Books
<1> HIDE DEF a, b
<1> QED BY <1>1, <1>2, <1>3

(* -------------------------- a borrow is closed -------------------------- *)

\* Closing begins: a view that was never published has its credit back.
Closed(b, e) ==
    /\ e.live = b.live /\ e.closing /\ e.settled
    /\ e.published = b.published /\ e.finished = b.finished /\ e.client_notified = b.client_notified
    /\ e.provider_notified = b.provider_notified /\ e.quiescence_notified = b.quiescence_notified
    /\ b.settled => e.quiescence = b.quiescence
    /\ ~b.settled => e.quiescence = "never_published"

LEMMA ClosedIs ==
  ASSUME NEW g \in HostState, NEW r \in Requests, NEW x, x = CloseBorrow(g, r),
         Unsettled(g.rec[r]) => g.reserved > 0
  PROVE  \/ ~g.rec[r].live /\ x = g
         \/ /\ g.rec[r].live /\ x \in HostState /\ Rest(g, x) /\ Elsewhere(g, x, r) /\ x.op = g.op
            /\ Closed(g.rec[r], x.rec[r])
            /\ x.reserved = IF g.rec[r].settled THEN g.reserved ELSE g.reserved - 1
<1>1. g.op[r] \in Operation /\ g.rec[r] \in Record /\ g.reserved \in Nat
  BY Entries
<1>2. CASE ~g.rec[r].live
  BY <1>2 DEF CloseBorrow
<1>3. CASE g.rec[r].live /\ g.rec[r].settled
  <2> DEFINE e == [g.rec[r] EXCEPT !.closing = TRUE]
  <2>1. e \in Record /\ Closed(g.rec[r], e)
    BY <1>1, <1>3 DEF Record, Closed
  <2>2. x = WithRecord(g, r, e, g.reserved)
    BY <1>3 DEF WithRecord, CloseBorrow, HostState
  <2> HIDE DEF e
  <2>3. /\ x \in HostState /\ Rest(g, x) /\ Elsewhere(g, x, r)
        /\ x.rec[r] = e /\ x.op = g.op /\ x.reserved = g.reserved
    BY <1>1, <2>1, <2>2, NewRecord
  <2> QED BY <1>3, <2>1, <2>3
<1>4. CASE Unsettled(g.rec[r])
  <2> DEFINE e == [g.rec[r] EXCEPT !.closing = TRUE, !.settled = TRUE, !.quiescence = "never_published"]
  <2>1. e \in Record /\ Closed(g.rec[r], e)
    BY <1>1, <1>4 DEF Record, Closed, Quiescence, Unsettled
  <2>2. x = WithRecord(g, r, e, g.reserved - 1)
    BY <1>4 DEF WithRecord, CloseBorrow, HostState, CancelReservation, Unsettled
  <2> HIDE DEF e
  <2>3. /\ x \in HostState /\ Rest(g, x) /\ Elsewhere(g, x, r)
        /\ x.rec[r] = e /\ x.op = g.op /\ x.reserved = g.reserved - 1
    <3>1. g.reserved - 1 \in Nat
      BY <1>1, <1>4
    <3> QED BY <3>1, <2>1, <2>2, NewRecord
  <2> QED BY <1>4, <2>1, <2>3 DEF Unsettled
<1> QED BY <1>2, <1>3, <1>4 DEF Unsettled

LEMMA CloseSound ==
  ASSUME NEW g, NEW q, NEW d, NEW o, NEW com, NEW n \in Nat, NEW r \in Requests,
         Sound(g, q, d, o, com, n)
  PROVE  Sound(CloseBorrow(g, r), q, d, o, com, n)
<1> DEFINE x == CloseBorrow(g, r)
<1>1. g \in HostState /\ About(g, q, d, o, com, r) /\ Books(g, n)
  BY DEF Sound
<1> SUFFICES ASSUME g.rec[r].live /\ x \in HostState /\ Rest(g, x) /\ Elsewhere(g, x, r) /\ x.op = g.op,
                    Closed(g.rec[r], x.rec[r]),
                    x.reserved = IF g.rec[r].settled THEN g.reserved ELSE g.reserved - 1
             PROVE  Sound(x, q, d, o, com, n)
  BY <1>1, ClosedIs, Funded
<1> HIDE DEF x
<1>2. Still(g, x)
  BY DEF Rest
<1>3. Shape(x, r)
  BY <1>1, <1>2 DEF About, Shape, Still, Closed
<1>4. Loan(x, q, com, r)
  BY <1>1, <1>2 DEF About, Shape, Loan, Still, Closed, Spent, Unsettled, Owes
<1>5. Watch(x, d, o, r)
  BY <1>1, <1>2 DEF About, Shape, Watch, Still, Closed, Spent, Reads, Lent, Never, Closes, Retires
<1>6. Answers(x, d, o, r)
  BY <1>1, <1>2 DEF About, Answers, Still, Owes, Done, Acked, Lent, Enrolled
<1>7. Withdrawal(x, d, o, r)
  BY <1>1, <1>2 DEF About, Shape, Withdrawal, Still, Closed, Withdraws, Withdrawn, Closes, Retires, Lent
<1>8. Books(x, n)
  <2>1. CASE g.rec[r].settled
    BY <1>1, <1>2, <2>1, SameBooks DEF Closed, Unsettled, Still
  <2>2. CASE ~g.rec[r].settled
    <3>1. Debts(g) \in Nat /\ Debts(x) = Debts(g) - 1
      <4>1. Bit(Unsettled(g.rec[r])) = 1 /\ Bit(Unsettled(x.rec[r])) = 0
        BY <2>2 DEF Bit, Unsettled, Closed
      <4>2. Bit(Owes(x.op[r])) = Bit(Owes(g.op[r])) /\ Bit(Owes(g.op[r])) \in Nat
        BY DEF Bit
      <4> QED BY <4>1, <4>2, Balance
    <3>2. g.reserved = Debts(g) + n /\ g.reserved \in Nat
      BY <1>1, Entries DEF Books
    <3>3. x.reserved = Debts(x) + n /\ x.reserved <= g.reserved
      BY <2>2, <3>1, <3>2
    <3>4. ReplyCapacity \in Nat /\ Len(g.reply) \in Nat
      BY <1>1, ServiceAssumption DEF HostState
    <3> QED BY <1>1, <1>2, <3>2, <3>3, <3>4 DEF Books, Still
  <2> QED BY <2>1, <2>2
<1> QED BY <1>1, <1>2, <1>3, <1>4, <1>5, <1>6, <1>7, <1>8, MoveSound DEF About

(* ---------------------- operations of the router ------------------------ *)

\* What is claimed of an operation does not depend on its other fields.
AsOperation(a, b) ==
    /\ b.live = a.live /\ b.of = a.of /\ b.offered = a.offered /\ b.delivered = a.delivered
    /\ b.completed = a.completed /\ b.terminal_sent = a.terminal_sent /\ b.borrow = a.borrow
    /\ a.cancelled => b.cancelled

LEMMA OperationSound ==
  ASSUME NEW g, NEW q, NEW d, NEW o, NEW com, NEW n \in Nat, NEW r \in Requests, NEW x,
         Sound(g, q, d, o, com, n), x \in HostState, Still(g, x), Elsewhere(g, x, r),
         AsOperation(g.op[r], x.op[r]), x.rec = g.rec, x.reserved = g.reserved
  PROVE  Sound(x, q, d, o, com, n)
<1>1. g \in HostState /\ About(g, q, d, o, com, r) /\ Books(g, n)
  BY DEF Sound
<1>2. Shape(x, r)
  BY <1>1 DEF About, Shape, Still
<1>3. Loan(x, q, com, r)
  BY <1>1 DEF About, Loan, Still, AsOperation, Spent, Unsettled, Owes
<1>4. Watch(x, d, o, r)
  BY <1>1 DEF About, Watch, Still, AsOperation, Spent, Reads, Lent, Never, Closes, Retires
<1>5. Answers(x, d, o, r)
  BY <1>1 DEF About, Answers, Still, AsOperation, Owes, Done, Acked, Lent, Enrolled
<1>6. Withdrawal(x, d, o, r)
  BY <1>1 DEF About, Withdrawal, Still, Withdraws, Withdrawn, Closes, Retires, Lent
<1>7. Books(x, n)
  BY <1>1, SameBooks DEF Still, AsOperation, Owes
<1> QED BY <1>1, <1>2, <1>3, <1>4, <1>5, <1>6, <1>7, MoveSound DEF About

\* An operation is completed: nothing the provider has to complete is left.
LEMMA EndOperationSound ==
  ASSUME NEW g, NEW q, NEW d, NEW o, NEW com, NEW n \in Nat, NEW r \in Requests, NEW x,
         Sound(g, q, d, o, com, n), x \in HostState, Still(g, x), Elsewhere(g, x, r),
         x.rec = g.rec, x.reserved = g.reserved,
         x.op[r].completed, x.op[r].live = g.op[r].live, x.op[r].of = g.op[r].of,
         x.op[r].terminal_sent = g.op[r].terminal_sent, x.op[r].borrow = g.op[r].borrow,
         q.completion[r] = "free", x.op[r].delivered \/ r \in com, g.op[r].live,
         g.op[r].delivered => x.op[r].delivered
  PROVE  Sound(x, q, d, o, com, n)
<1>1. g \in HostState /\ About(g, q, d, o, com, r) /\ Books(g, n)
  BY DEF Sound
<1>2. Shape(x, r)
  BY <1>1 DEF About, Shape, Still
<1>3. Loan(x, q, com, r)
  <2>1. ~(r > g.last /\ g.op[r].live)
    BY <1>1 DEF About, Loan
  <2> QED BY <1>1, <2>1 DEF About, Loan, Still, Spent, Unsettled, Owes
<1>4. Watch(x, d, o, r)
  BY <1>1 DEF About, Watch, Still, Spent, Reads, Lent, Never, Closes, Retires
<1>5. Answers(x, d, o, r)
  BY <1>1 DEF About, Answers, Still, Owes, Done, Acked, Lent, Enrolled
<1>6. Withdrawal(x, d, o, r)
  BY <1>1 DEF About, Withdrawal, Still, Withdraws, Withdrawn, Closes, Retires, Lent
<1>7. Books(x, n)
  BY <1>1, SameBooks DEF Still, Owes
<1> QED BY <1>1, <1>2, <1>3, <1>4, <1>5, <1>6, <1>7, MoveSound DEF About

LEMMA FailSound ==
  ASSUME NEW g, NEW q, NEW d, NEW o, NEW com, NEW n \in Nat, NEW r \in Requests,
         Sound(g, q, d, o, com, n), q.completion[r] = "free", g.op[r].live
  PROVE  Sound(FailOperation(g, r), q, d, o, com, n)
<1> DEFINE a == [g.op[r] EXCEPT !.ok = FALSE, !.completed = TRUE, !.delivered = TRUE]
           x == FailOperation(g, r)
<1>1. g \in HostState /\ g.op[r] \in Operation /\ g.reserved \in Nat
  BY Entries DEF Sound
<1>2. /\ a \in Operation /\ a.completed /\ a.delivered /\ a.live = g.op[r].live /\ a.of = g.op[r].of
      /\ a.terminal_sent = g.op[r].terminal_sent /\ a.borrow = g.op[r].borrow
  BY <1>1 DEF Operation
<1>3. x = WithOperation(g, r, a, g.reserved)
  BY <1>1 DEF FailOperation, WithOperation, HostState
<1> HIDE DEF a, x
<1>4. /\ x \in HostState /\ Rest(g, x) /\ Elsewhere(g, x, r)
      /\ x.op[r] = a /\ x.rec = g.rec /\ x.reserved = g.reserved
  BY <1>1, <1>2, <1>3, NewOperation
<1>5. Sound(x, q, d, o, com, n)
  BY <1>2, <1>4, EndOperationSound DEF Rest
<1> QED BY <1>5 DEF x

LEMMA CompletedSound ==
  ASSUME NEW g, NEW q, NEW d, NEW o, NEW com, NEW n \in Nat, NEW r \in Requests, NEW ok \in BOOLEAN,
         Sound(g, q, d, o, com, n), q.completion[r] = "free", g.op[r].live, g.op[r].delivered \/ r \in com
  PROVE  Sound(Complete(g, r, ok), q, d, o, com, n)
<1> DEFINE a == [g.op[r] EXCEPT !.completed = TRUE, !.ok = ok]
           x == [g EXCEPT !.op[r] = a]
<1>1. g \in HostState /\ g.op[r] \in Operation /\ g.reserved \in Nat
  BY Entries DEF Sound
<1>2. /\ a \in Operation /\ a.completed /\ a.delivered = g.op[r].delivered /\ a.live = g.op[r].live /\ a.of = g.op[r].of
      /\ a.terminal_sent = g.op[r].terminal_sent /\ a.borrow = g.op[r].borrow
  BY <1>1 DEF Operation
<1>3. x = WithOperation(g, r, a, g.reserved)
  BY <1>1 DEF WithOperation, HostState
<1>4. Complete(g, r, ok) \in {x, CloseBorrow(x, r)}
  BY DEF Complete
<1> HIDE DEF a, x
<1>5. /\ x \in HostState /\ Rest(g, x) /\ Elsewhere(g, x, r)
      /\ x.op[r] = a /\ x.rec = g.rec /\ x.reserved = g.reserved
  BY <1>1, <1>2, <1>3, NewOperation
<1>6. Sound(x, q, d, o, com, n)
  BY <1>2, <1>5, EndOperationSound DEF Rest
<1>7. Sound(CloseBorrow(x, r), q, d, o, com, n)
  BY <1>6, CloseSound
<1> QED BY <1>4, <1>6, <1>7

LEMMA CancelSound ==
  ASSUME NEW g, NEW q, NEW d, NEW o, NEW n \in Nat, NEW r \in Requests,
         Sound(g, q, d, o, {}, n)
  PROVE  Sound(Cancel(g, r), q, d, o, {}, n)
<1> DEFINE a == [g.op[r] EXCEPT !.cancelled = TRUE]
           x == [g EXCEPT !.op[r].cancelled = TRUE]
           y == IF g.op[r].borrow THEN CloseBorrow(x, r) ELSE x
<1>1. g \in HostState /\ g.op[r] \in Operation /\ g.reserved \in Nat
  BY Entries DEF Sound
<1>2. a \in Operation /\ AsOperation(g.op[r], a)
  BY <1>1 DEF Operation, AsOperation
<1>3. x = WithOperation(g, r, a, g.reserved)
  BY <1>1 DEF WithOperation, HostState
<1>4. Cancel(g, r) = IF ~g.op[r].live \/ (g.op[r].completed /\ g.op[r].delivered) THEN g
                     ELSE IF g.op[r].delivered \/ g.op[r].offered THEN y ELSE FailOperation(y, r)
  BY DEF Cancel
<1> HIDE DEF a, x
<1>5. /\ x \in HostState /\ Rest(g, x) /\ Elsewhere(g, x, r)
      /\ x.op[r] = a /\ x.rec = g.rec /\ x.reserved = g.reserved
  BY <1>1, <1>2, <1>3, NewOperation
<1>6. Sound(x, q, d, o, {}, n)
  BY <1>2, <1>5, OperationSound DEF Rest
<1>7. Sound(CloseBorrow(x, r), q, d, o, {}, n)
  BY <1>6, CloseSound
<1>8. Sound(y, q, d, o, {}, n)
  BY <1>6, <1>7
<1>9. ~g.op[r].delivered => q.completion[r] = "free"
  BY DEF Sound, About, Loan
<1>10. y.op[r].live = g.op[r].live
  <2>1. x.op[r].live = g.op[r].live
    BY <1>2, <1>5 DEF AsOperation
  <2>2. CloseBorrow(x, r).op = x.op
    <3>1. x \in HostState /\ Books(x, n)
      BY <1>6 DEF Sound
    <3>2. Unsettled(x.rec[r]) => x.reserved > 0
      BY <3>1, Funded
    <3> QED BY <3>1, <3>2, ClosedIs
  <2> QED BY <2>1, <2>2 DEF y
<1> HIDE DEF y
<1>11. ~g.op[r].delivered /\ g.op[r].live => Sound(FailOperation(y, r), q, d, o, {}, n)
  BY <1>8, <1>9, <1>10, FailSound
<1> QED BY <1>4, <1>8, <1>11

(* --------------------------- borrow records ----------------------------- *)

\* What is claimed of a record does not depend on its other fields.
AsRecord(a, b) ==
    /\ b.live = a.live /\ b.settled = a.settled /\ b.published = a.published /\ b.closing = a.closing
    /\ b.client_notified = a.client_notified /\ b.quiescence_notified = a.quiescence_notified
    /\ b.finished = a.finished /\ b.quiescence = a.quiescence

LEMMA RecordSound ==
  ASSUME NEW g, NEW q, NEW d, NEW o, NEW com, NEW n \in Nat, NEW r \in Requests, NEW x,
         Sound(g, q, d, o, com, n), x \in HostState, Still(g, x), Elsewhere(g, x, r),
         AsRecord(g.rec[r], x.rec[r]), x.op = g.op, x.reserved = g.reserved
  PROVE  Sound(x, q, d, o, com, n)
<1>1. g \in HostState /\ About(g, q, d, o, com, r) /\ Books(g, n)
  BY DEF Sound
<1>2. Shape(x, r)
  BY <1>1 DEF About, Shape, Still, AsRecord
<1>3. Loan(x, q, com, r)
  BY <1>1 DEF About, Loan, Still, AsRecord, Spent, Unsettled, Owes
<1>4. Watch(x, d, o, r)
  BY <1>1 DEF About, Watch, Still, AsRecord, Spent, Reads, Lent, Never, Closes, Retires
<1>5. Answers(x, d, o, r)
  BY <1>1 DEF About, Answers, Still, Owes, Done, Acked, Lent, Enrolled
<1>6. Withdrawal(x, d, o, r)
  BY <1>1 DEF About, Withdrawal, Still, AsRecord, Withdraws, Withdrawn, Closes, Retires, Lent
<1>7. Books(x, n)
  BY <1>1, SameBooks DEF Still, AsRecord, Unsettled
<1> QED BY <1>1, <1>2, <1>3, <1>4, <1>5, <1>6, <1>7, MoveSound DEF About

\* The reason for which nobody reads a view any more is noted.
LEMMA QuiescenceSound ==
  ASSUME NEW g, NEW q, NEW d, NEW o, NEW com, NEW n \in Nat, NEW r \in Requests,
         NEW why \in {"relinquished", "execution_ended"},
         Sound(g, q, d, o, com, n),
         g.rec[r].closing, g.rec[r].published, g.rec[r].quiescence = "none",
         ~Reads(g, d, r),
         why = "execution_ended" => g.terminal,
         why = "relinquished" /\ d.rec[r].live => d.rec[r].quiescent
  PROVE  Sound([g EXCEPT !.rec[r].quiescence = why], q, d, o, com, n)
<1> DEFINE b == [g.rec[r] EXCEPT !.quiescence = why]
           x == [g EXCEPT !.rec[r].quiescence = why]
<1>1. g \in HostState /\ About(g, q, d, o, com, r) /\ Books(g, n) /\ Ended(g, d)
  BY DEF Sound
<1>2. g.rec[r] \in Record /\ g.reserved \in Nat
  BY <1>1, Entries
<1>3. /\ b \in Record /\ b.live = g.rec[r].live /\ b.settled = g.rec[r].settled
      /\ b.published = g.rec[r].published /\ b.closing = g.rec[r].closing
      /\ b.client_notified = g.rec[r].client_notified /\ b.finished = g.rec[r].finished
      /\ b.quiescence_notified = g.rec[r].quiescence_notified /\ b.quiescence = why
  BY <1>2 DEF Record, Quiescence
<1>4. x = WithRecord(g, r, b, g.reserved)
  BY <1>1 DEF WithRecord, HostState
<1> HIDE DEF b, x
<1>5. /\ x \in HostState /\ Rest(g, x) /\ Elsewhere(g, x, r)
      /\ x.rec[r] = b /\ x.op = g.op /\ x.reserved = g.reserved
  BY <1>1, <1>2, <1>3, <1>4, NewRecord
<1>6. Shape(x, r)
  BY <1>1, <1>3, <1>5 DEF About, Shape, Rest, Still
<1>7. Loan(x, q, com, r)
  BY <1>1, <1>3, <1>5 DEF About, Loan, Rest, Still, Spent, Unsettled, Owes
<1>8. Watch(x, d, o, r)
  BY <1>1, <1>3, <1>5 DEF About, Watch, Rest, Still, Spent, Reads, Lent, Never, Closes, Retires
<1>9. Answers(x, d, o, r)
  BY <1>1, <1>5 DEF About, Answers, Rest, Still, Owes, Done, Acked, Lent, Enrolled
<1>10. Withdrawal(x, d, o, r)
  BY <1>1, <1>3, <1>5 DEF About, Withdrawal, Rest, Still, Withdraws, Withdrawn, Closes, Retires, Lent
<1>11. Books(x, n)
  BY <1>1, <1>3, <1>5, SameBooks DEF Rest, Still, Unsettled
<1>12. Sound(x, q, d, o, com, n)
  BY <1>5, <1>6, <1>7, <1>8, <1>9, <1>10, <1>11, MoveSound DEF About, Rest
<1> QED BY <1>12 DEF x

(* ----------------------- the provider's side alone ---------------------- *)

LEMMA ProviderSound ==
  ASSUME NEW g, NEW q, NEW y, NEW d, NEW o, NEW com, NEW n,
         Sound(g, q, d, o, com, n), y \in ProviderState,
         \A r \in Requests :
             /\ y.use[r].live => q.use[r].live /\ y.window # 0
             /\ y.use[r].live /\ y.use[r].borrow <=> q.use[r].live /\ q.use[r].borrow
             /\ q.completion[r] = "free" => y.completion[r] = "free",
         Healthy(y)
  PROVE  Sound(g, y, d, o, com, n)
<1>1. ASSUME NEW r \in Requests PROVE About(g, y, d, o, com, r)
  <2>1. Loan(g, q, com, r)
    BY DEF Sound, About
  <2>2. Loan(g, y, com, r)
    BY <2>1 DEF Loan
  <2> QED BY <2>2 DEF Sound, About
<1>2. Calm(g, y)
  BY DEF Sound, Calm
<1> QED BY <1>1, <1>2 DEF Sound

\* A step that moves one request on both sides of the pump call.
LEMMA BothSound ==
  ASSUME NEW g, NEW x, NEW q, NEW y, NEW d, NEW o, NEW com, NEW n, NEW k, NEW r \in Requests,
         Sound(g, q, d, o, com, n), x \in HostState, Still(g, x), Elsewhere(g, x, r), y \in ProviderState,
         \A i \in Requests : i # r =>
             y.use[i].live = q.use[i].live /\ y.use[i].borrow = q.use[i].borrow /\ y.completion[i] = q.completion[i],
         y.window = q.window, y.stopping = q.stopping, y.failed = q.failed, y.begun = q.begun, y.broken = q.broken,
         About(x, y, d, o, com, r), Books(x, k)
  PROVE  Sound(x, y, d, o, com, k)
<1>1. ASSUME NEW i \in Requests PROVE About(x, y, d, o, com, i)
  <2>1. CASE i = r
    BY <2>1
  <2>2. CASE i # r
    <3>1. Same(g, x, i) /\ About(g, q, d, o, com, i)
      BY <2>2 DEF Elsewhere, Sound
    <3>2. About(x, q, d, o, com, i)
      BY <3>1, SameKeeps
    <3>3. Loan(x, q, com, i)
      BY <3>2 DEF About
    <3>4. Loan(x, y, com, i)
      BY <2>2, <3>3 DEF Loan
    <3> QED BY <3>2, <3>4 DEF About
  <2> QED BY <2>1, <2>2
<1>2. Inbox(x)
  BY DEF Sound, Inbox, Still
<1>3. Route(x, d, o)
  BY DEF Sound, Route, Still, Left
<1>4. Calm(x, y)
  BY DEF Sound, Calm, Healthy, Still
<1>5. Ended(x, d)
  BY DEF Sound, Ended, Still
<1> QED BY <1>1, <1>2, <1>3, <1>4, <1>5 DEF Sound

(* -------------------- the provider moves one request -------------------- *)

\* No use begins to live or to borrow, no slot is taken.
Eased(q, y) ==
    \A r \in Requests :
        /\ y.use[r].live => q.use[r].live /\ y.window # 0
        /\ y.use[r].live /\ y.use[r].borrow <=> q.use[r].live /\ q.use[r].borrow
        /\ q.completion[r] = "free" => y.completion[r] = "free"

WithUse(q, r, u) == [q EXCEPT !.use = [q.use EXCEPT ![r] = u]]
WithSlot(q, r, k) == [q EXCEPT !.completion = [q.completion EXCEPT ![r] = k]]

SameFlags(q, y) ==
    /\ y.window = q.window /\ y.window_closing = q.window_closing /\ y.stopping = q.stopping
    /\ y.begun = q.begun /\ y.failed = q.failed /\ y.broken = q.broken /\ y.skipped = q.skipped

LEMMA NewUse ==
  ASSUME NEW q \in ProviderState, NEW r \in Requests, NEW u \in Use, NEW y, y = WithUse(q, r, u)
  PROVE  /\ y \in ProviderState /\ SameFlags(q, y) /\ y.completion = q.completion
         /\ y.use[r] = u /\ \A i \in Requests : i # r => y.use[i] = q.use[i]
<1> DEFINE use == [q.use EXCEPT ![r] = u]
<1>1. use \in [Requests -> Use] /\ use[r] = u /\ \A i \in Requests : i # r => use[i] = q.use[i]
  BY DEF ProviderState
<1> HIDE DEF use
<1> QED BY <1>1 DEF WithUse, ProviderState, SameFlags

LEMMA NewSlot ==
  ASSUME NEW q \in ProviderState, NEW r \in Requests, NEW k \in Slots, NEW y, y = WithSlot(q, r, k)
  PROVE  /\ y \in ProviderState /\ SameFlags(q, y) /\ y.use = q.use
         /\ y.completion[r] = k /\ \A i \in Requests : i # r => y.completion[i] = q.completion[i]
<1> DEFINE completion == [q.completion EXCEPT ![r] = k]
<1>1. completion \in [Requests -> Slots] /\ completion[r] = k /\ \A i \in Requests : i # r => completion[i] = q.completion[i]
  BY DEF ProviderState
<1> HIDE DEF completion
<1> QED BY <1>1 DEF WithSlot, ProviderState, SameFlags

(* ------------------------- the calls of a pump -------------------------- *)

Pair == [h : HostState, p : ProviderState]

\* The operations of the batch are still as they were offered.
InBatch(g, B) == B \subseteq Requests /\ \A r \in B : g.op[r].live /\ ~g.op[r].delivered /\ g.op[r].offered

Sustained(s, d, o, com, B) ==
    s \in Pair /\ Sound(s.h, s.p, d, o, com, 0) /\ InBatch(s.h, B)

LEMMA EasedSound ==
  ASSUME NEW s, NEW t \in Pair, NEW d, NEW o, NEW com, NEW B,
         Sustained(s, d, o, com, B), t.h = s.h, Eased(s.p, t.p), Healthy(t.p)
  PROVE  Sustained(t, d, o, com, B)
<1>1. Sound(s.h, s.p, d, o, com, 0) /\ t.p \in ProviderState
  BY DEF Sustained, Pair
<1>2. Sound(s.h, t.p, d, o, com, 0)
  BY <1>1, ProviderSound DEF Eased
<1> QED BY <1>2 DEF Sustained

LEMMA Windowed ==
  ASSUME NEW s, NEW d, NEW o, NEW com, NEW B, Sustained(s, d, o, com, B), NEW r \in Requests
  PROVE  /\ s.p.use[r].live => s.p.window # 0
         /\ s.p.use[r] \in Use /\ s.p.completion[r] \in Slots
BY DEF Sustained, Sound, About, Loan, Pair, ProviderState

LEMMA UnhurtFlags ==
  ASSUME NEW s, NEW d, NEW o, NEW com, NEW B, Sustained(s, d, o, com, B)
  PROVE  /\ s \in Pair /\ s.h \in HostState /\ s.p \in ProviderState
         /\ Healthy(s.p)
BY DEF Sustained, Sound, Calm, Pair

MovesUse(s, t, r, u) == t \in Pair /\ t.h = s.h /\ t.p = WithUse(s.p, r, u)
MovesSlot(s, t, r, k) == t \in Pair /\ t.h = s.h /\ t.p = WithSlot(s.p, r, k)

\* A use keeps its life and its borrow.
LEMMA UseSound ==
  ASSUME NEW s, NEW t, NEW d, NEW o, NEW com, NEW B, NEW r \in Requests, NEW u \in Use,
         Sustained(s, d, o, com, B), MovesUse(s, t, r, u),
         u.live = s.p.use[r].live, u.borrow = s.p.use[r].borrow
  PROVE  Sustained(t, d, o, com, B) /\ t.h = s.h /\ SameFlags(s.p, t.p) /\ t.p.use[r] = u
<1> DEFINE y == WithUse(s.p, r, u)
<1>1. s \in Pair /\ s.p \in ProviderState /\ Healthy(s.p)
  BY UnhurtFlags
<1>2. /\ y \in ProviderState /\ SameFlags(s.p, y) /\ y.completion = s.p.completion
      /\ y.use[r] = u /\ \A i \in Requests : i # r => y.use[i] = s.p.use[i]
  BY <1>1, NewUse
<1>3. t \in Pair /\ t.h = s.h /\ t.p = y
  BY DEF MovesUse
<1> HIDE DEF y
<1>4. Eased(s.p, y)
  <2> SUFFICES ASSUME NEW i \in Requests
               PROVE  /\ y.use[i].live => s.p.use[i].live /\ y.window # 0
                      /\ y.use[i].live /\ y.use[i].borrow <=> s.p.use[i].live /\ s.p.use[i].borrow
                      /\ s.p.completion[i] = "free" => y.completion[i] = "free"
    BY DEF Eased
  <2>1. s.p.use[i].live => s.p.window # 0
    BY Windowed
  <2>2. y.use[i].live = s.p.use[i].live /\ y.use[i].borrow = s.p.use[i].borrow
    BY <1>2
  <2> QED BY <2>1, <2>2, <1>2 DEF SameFlags
<1>5. Sustained(t, d, o, com, B)
  BY <1>1, <1>2, <1>3, <1>4, EasedSound DEF SameFlags, Healthy
<1> QED BY <1>2, <1>3, <1>5

LEMMA SlotSound ==
  ASSUME NEW s, NEW t, NEW d, NEW o, NEW com, NEW B, NEW r \in Requests, NEW k \in Slots,
         Sustained(s, d, o, com, B), MovesSlot(s, t, r, k),
         s.p.completion[r] = "free" => k = "free"
  PROVE  Sustained(t, d, o, com, B) /\ t.h = s.h /\ SameFlags(s.p, t.p) /\ t.p.use = s.p.use /\ t.p.completion[r] = k
<1> DEFINE y == WithSlot(s.p, r, k)
<1>1. s \in Pair /\ s.p \in ProviderState /\ Healthy(s.p)
  BY UnhurtFlags
<1>2. /\ y \in ProviderState /\ SameFlags(s.p, y) /\ y.use = s.p.use
      /\ y.completion[r] = k /\ \A i \in Requests : i # r => y.completion[i] = s.p.completion[i]
  BY <1>1, NewSlot
<1>3. t \in Pair /\ t.h = s.h /\ t.p = y
  BY DEF MovesSlot
<1> HIDE DEF y
<1>4. Eased(s.p, y)
  <2> SUFFICES ASSUME NEW i \in Requests
               PROVE  /\ y.use[i].live => s.p.use[i].live /\ y.window # 0
                      /\ y.use[i].live /\ y.use[i].borrow <=> s.p.use[i].live /\ s.p.use[i].borrow
                      /\ s.p.completion[i] = "free" => y.completion[i] = "free"
    BY DEF Eased
  <2>1. s.p.use[i].live => s.p.window # 0
    BY Windowed
  <2>2. s.p.completion[i] = "free" => y.completion[i] = "free"
    BY <1>2
  <2> QED BY <2>1, <2>2, <1>2 DEF SameFlags
<1>5. Sustained(t, d, o, com, B)
  BY <1>1, <1>2, <1>3, <1>4, EasedSound DEF SameFlags, Healthy
<1> QED BY <1>2, <1>3, <1>5

LEMMA CompleteSlotKeeps ==
  ASSUME NEW s \in Pair, NEW r \in Requests, NEW ok
  PROVE  LET t == CompleteSlot(s, r, ok) IN t.h = s.h /\ t.p.use = s.p.use /\ SameFlags(s.p, t.p)
BY DEF CompleteSlot, Pair, ProviderState, SameFlags

LEMMA CompleteSlotSound ==
  ASSUME NEW s, NEW d, NEW o, NEW com, NEW B, NEW r \in Requests, NEW ok,
         Sustained(s, d, o, com, B)
  PROVE  Sustained(CompleteSlot(s, r, ok), d, o, com, B)
<1> DEFINE k == IF ok THEN "ok" ELSE "failed"
           t == [s EXCEPT !.p.completion[r] = k]
<1>1. s \in Pair /\ s.p \in ProviderState
  BY UnhurtFlags
<1>2. k \in Slots
  BY DEF Slots
<1>3. CompleteSlot(s, r, ok) = IF s.p.completion[r] = "live" THEN t ELSE s
  BY DEF CompleteSlot
<1>4. t.h = s.h /\ t.p = WithSlot(s.p, r, k)
  BY <1>1 DEF WithSlot, Pair, ProviderState
<1>5. WithSlot(s.p, r, k) \in ProviderState
  BY <1>1, <1>2, NewSlot
<1>6. MovesSlot(s, t, r, k)
  BY <1>1, <1>4, <1>5 DEF Pair, MovesSlot
<1> HIDE DEF k, t
<1>7. CASE s.p.completion[r] = "live"
  <2>1. Sustained(t, d, o, com, B)
    BY <1>2, <1>6, <1>7, SlotSound
  <2> QED BY <1>3, <1>7, <2>1
<1> QED BY <1>3, <1>7

LEMMA CloseWindowSound ==
  ASSUME NEW s, NEW d, NEW o, NEW com, NEW B, Sustained(s, d, o, com, B)
  PROVE  /\ Sustained(CloseWindow(s), d, o, com, B) /\ CloseWindow(s).h = s.h
         /\ CloseWindow(s).p.use = s.p.use /\ CloseWindow(s).p.completion = s.p.completion
<1> DEFINE t == CloseWindow(s)
<1>1. s \in Pair /\ s.p \in ProviderState /\ Healthy(s.p)
  BY UnhurtFlags
<1>2. /\ t \in Pair /\ t.h = s.h /\ t.p.use = s.p.use /\ t.p.completion = s.p.completion
      /\ t.p.window = s.p.window /\ t.p.stopping = s.p.stopping /\ t.p.failed = s.p.failed
      /\ t.p.begun = s.p.begun /\ t.p.broken = s.p.broken
  BY <1>1 DEF CloseWindow, Pair, ProviderState
<1> HIDE DEF t
<1>3. \A r \in Requests : s.p.use[r].live => s.p.window # 0
  BY Windowed
<1>4. Eased(s.p, t.p)
  BY <1>2, <1>3 DEF Eased
<1>5. Sustained(t, d, o, com, B)
  BY <1>1, <1>2, <1>4, EasedSound DEF Healthy
<1> QED BY <1>2, <1>5 DEF t

LEMMA StoppingSound ==
  ASSUME NEW s, NEW t, NEW d, NEW o, NEW com, NEW B, Sustained(s, d, o, com, B), Healthy(t.p),
         t \in Pair, t.h = s.h, t.p.use = s.p.use, t.p.completion = s.p.completion, t.p.window = s.p.window
  PROVE  Sustained(t, d, o, com, B)
<1>1. \A r \in Requests : s.p.use[r].live => s.p.window # 0
  BY Windowed
<1>2. Eased(s.p, t.p)
  BY <1>1 DEF Eased
<1> QED BY <1>2, EasedSound

LEMMA NativeFailureSound ==
  ASSUME NEW s, NEW d, NEW o, NEW com, NEW B, Sustained(s, d, o, com, B), s.p.broken
  PROVE  Sustained(NativeFailure(s), d, o, com, B)
<1> DEFINE t == [s EXCEPT !.p = [@ EXCEPT !.failed = TRUE, !.stopping = TRUE]]
<1>1. s \in Pair /\ s.p \in ProviderState
  BY UnhurtFlags
<1>2. /\ t \in Pair /\ t.h = s.h /\ t.p.use = s.p.use /\ t.p.completion = s.p.completion
      /\ t.p.window = s.p.window /\ Healthy(t.p)
  BY <1>1 DEF Pair, ProviderState, Healthy
<1>3. NativeFailure(s) = CloseWindow(t)
  BY DEF NativeFailure
<1> HIDE DEF t
<1>4. Sustained(t, d, o, com, B)
  BY <1>2, StoppingSound
<1> QED BY <1>3, <1>4, CloseWindowSound

LEMMA CloseUseSound ==
  ASSUME NEW s, NEW d, NEW o, NEW com, NEW B, NEW r \in Requests, Sustained(s, d, o, com, B)
  PROVE  LET t == CloseUse(s, r) IN
         /\ Sustained(t, d, o, com, B) /\ t.h = s.h
         /\ t.p.use[r] \in Use /\ t.p.use[r].live = s.p.use[r].live /\ t.p.use[r].borrow = s.p.use[r].borrow
<1> DEFINE u == [s.p.use[r] EXCEPT !.closing = TRUE]
           marked == [s EXCEPT !.p.use[r].closing = TRUE]
           shut == IF ~s.p.use[r].closing /\ s.p.window = r THEN CloseWindow(marked) ELSE marked
<1>1. s \in Pair /\ s.p \in ProviderState /\ s.p.use[r] \in Use
  BY UnhurtFlags, Windowed
<1>2. u \in Use /\ u.live = s.p.use[r].live /\ u.borrow = s.p.use[r].borrow
  BY <1>1 DEF Use
<1>3. marked.h = s.h /\ marked.p = WithUse(s.p, r, u)
  BY <1>1 DEF WithUse, Pair, ProviderState
<1>8. WithUse(s.p, r, u) \in ProviderState
  BY <1>1, <1>2, NewUse
<1>9. MovesUse(s, marked, r, u)
  BY <1>1, <1>3, <1>8 DEF Pair, MovesUse
<1>4. CloseUse(s, r) = CompleteSlot(shut, r, FALSE)
  BY DEF CloseUse
<1> HIDE DEF u, marked
<1>5. Sustained(marked, d, o, com, B) /\ marked.h = s.h /\ marked.p.use[r] = u
  BY <1>2, <1>3, <1>9, UseSound
<1>6. Sustained(shut, d, o, com, B) /\ shut.h = s.h /\ shut.p.use[r] = u
  BY <1>5, CloseWindowSound
<1> HIDE DEF shut
<1> DEFINE t == CompleteSlot(shut, r, FALSE)
<1>7. Sustained(t, d, o, com, B)
  BY <1>6, CompleteSlotSound
<1>10. t.h = shut.h /\ t.p.use = shut.p.use
  BY <1>6, CompleteSlotKeeps DEF Sustained
<1> HIDE DEF t
<1>11. t.p.use[r] = u
  BY <1>6, <1>10
<1>12. t = CloseUse(s, r)
  BY <1>4 DEF t
<1> QED BY <1>2, <1>6, <1>7, <1>10, <1>11, <1>12

\* The operations are still as they were offered.
StillOffered(g, x) ==
    \A r \in Requests :
        /\ x.op[r].live = g.op[r].live /\ x.op[r].delivered = g.op[r].delivered
        /\ x.op[r].offered = g.op[r].offered

LEMMA HostMoves ==
  ASSUME NEW s, NEW t, NEW d, NEW o, NEW com, NEW B, Sustained(s, d, o, com, B),
         t \in Pair, Sound(t.h, t.p, d, o, com, 0), StillOffered(s.h, t.h)
  PROVE  Sustained(t, d, o, com, B)
BY DEF Sustained, InBatch, StillOffered

LEMMA CloseKeeps ==
  ASSUME NEW g, NEW q, NEW d, NEW o, NEW com, NEW n \in Nat, NEW r \in Requests,
         Sound(g, q, d, o, com, n)
  PROVE  LET x == CloseBorrow(g, r) IN
         x \in HostState /\ Rest(g, x) /\ x.op = g.op /\ x.rec[r].live = g.rec[r].live
<1>1. g \in HostState /\ Books(g, n)
  BY DEF Sound
<1>2. Unsettled(g.rec[r]) => g.reserved > 0
  BY <1>1, Funded
<1> DEFINE x == CloseBorrow(g, r)
<1>3. \/ ~g.rec[r].live /\ x = g
      \/ x \in HostState /\ Rest(g, x) /\ x.op = g.op /\ Closed(g.rec[r], x.rec[r])
  BY <1>1, <1>2, ClosedIs
<1> HIDE DEF x
<1>4. x \in HostState /\ Rest(g, x) /\ x.op = g.op /\ x.rec[r].live = g.rec[r].live
  BY <1>1, <1>3 DEF Rest, Still, Closed
<1> QED BY <1>4 DEF x

LEMMA CompleteKeeps ==
  ASSUME NEW g, NEW q, NEW d, NEW o, NEW com, NEW n \in Nat, NEW r \in Requests, NEW ok \in BOOLEAN,
         Sound(g, q, d, o, com, n), q.completion[r] = "free", g.op[r].live, g.op[r].delivered \/ r \in com
  PROVE  LET x == Complete(g, r, ok) IN x \in HostState /\ Rest(g, x) /\ StillOffered(g, x)
<1> DEFINE a == [g.op[r] EXCEPT !.completed = TRUE, !.ok = ok]
           x == [g EXCEPT !.op[r] = a]
<1>1. g \in HostState /\ g.op[r] \in Operation /\ g.reserved \in Nat
  BY Entries DEF Sound
<1>2. /\ a \in Operation /\ a.completed /\ a.delivered = g.op[r].delivered /\ a.live = g.op[r].live /\ a.of = g.op[r].of
      /\ a.terminal_sent = g.op[r].terminal_sent /\ a.borrow = g.op[r].borrow /\ a.offered = g.op[r].offered
  BY <1>1 DEF Operation
<1>3. x = WithOperation(g, r, a, g.reserved)
  BY <1>1 DEF WithOperation, HostState
<1>4. Complete(g, r, ok) \in {x, CloseBorrow(x, r)}
  BY DEF Complete
<1> HIDE DEF a, x
<1>5. /\ x \in HostState /\ Rest(g, x) /\ Elsewhere(g, x, r)
      /\ x.op[r] = a /\ x.rec = g.rec /\ x.reserved = g.reserved
  BY <1>1, <1>2, <1>3, NewOperation
<1>6. Sound(x, q, d, o, com, n)
  BY <1>2, <1>5, EndOperationSound DEF Rest
<1>7. StillOffered(g, x)
  BY <1>2, <1>5 DEF StillOffered, Elsewhere, Same
<1> DEFINE y == CloseBorrow(x, r)
<1>8. y \in HostState /\ Rest(x, y) /\ y.op = x.op
  BY <1>6, CloseKeeps
<1> HIDE DEF y
<1>9. Rest(g, y) /\ StillOffered(g, y)
  BY <1>5, <1>7, <1>8 DEF Rest, Still, StillOffered
<1> QED BY <1>4, <1>5, <1>7, <1>8, <1>9 DEF y

(* ----------------------- completions are flushed ------------------------ *)

LEMMA FlushOneSound ==
  ASSUME NEW s, NEW d, NEW o, NEW com, NEW B, NEW r \in Requests, Sustained(s, d, o, com, B)
  PROVE  Sustained(FlushOne(s, r), d, o, com, B)
<1> DEFINE ok == s.p.completion[r] = "ok"
           x == Complete(s.h, r, ok)
           y == WithSlot(s.p, r, "free")
           freed == [h |-> s.h, p |-> y]
           t == [s EXCEPT !.h = x, !.p.completion[r] = "free"]
<1>1. s \in Pair /\ s.p \in ProviderState /\ s.h \in HostState
  BY UnhurtFlags
<1>2. s.p.completion[r] # "free" => s.h.op[r].live /\ ~s.h.op[r].completed /\ s.h.route # "none"
           /\ (s.h.op[r].delivered \/ (r \in com /\ s.h.op[r].offered))
  BY DEF Sustained, Sound, About, Loan
<1>3. FlushOne(s, r) = IF s.p.completion[r] \in {"ok", "failed"}
                       THEN t ELSE s
  BY <1>2 DEF FlushOne, CompleteStatus
<1>4. t.h = x /\ t.p = y
  <2> HIDE DEF x
  <2> QED BY <1>1 DEF WithSlot, Pair, ProviderState
<1>10. "free" \in Slots
  BY DEF Slots
<1>5. y \in ProviderState /\ y.completion[r] = "free"
  BY <1>1, <1>10, NewSlot
<1>6. MovesSlot(s, freed, r, "free")
  BY <1>1, <1>5 DEF Pair, MovesSlot
<1>7. Sustained(freed, d, o, com, B)
  BY <1>6, SlotSound DEF Slots
<1>8. Sound(s.h, y, d, o, com, 0)
  BY <1>7 DEF Sustained
<1> HIDE DEF y, freed
<1>9. CASE s.p.completion[r] \in {"ok", "failed"}
  <2>1. Sound(x, y, d, o, com, 0)
    BY <1>2, <1>5, <1>8, <1>9, CompletedSound
  <2>2. x \in HostState /\ StillOffered(s.h, x)
    BY <1>2, <1>5, <1>8, <1>9, CompleteKeeps
  <2>3. t \in Pair
    <3> DEFINE z == [s EXCEPT !.h = x]
    <3>1. z \in Pair /\ t = [z EXCEPT !.p.completion[r] = "free"]
      <4> HIDE DEF x
      <4> QED BY <1>1, <2>2 DEF Pair
    <3> HIDE DEF x, z, t
    <3> QED BY <3>1, <1>10 DEF Pair, ProviderState
  <2> HIDE DEF x, t
  <2>4. Sustained(t, d, o, com, B)
    BY <1>4, <1>5, <1>7, <2>1, <2>2, <2>3, HostMoves
  <2> QED BY <1>3, <1>9, <2>4
<1> QED BY <1>3, <1>9

(* ----------------------- messages to the provider ----------------------- *)

LEMMA MessageSound ==
  ASSUME NEW s, NEW d, NEW o, NEW com, NEW B, NEW msg \in Notice, Sustained(s, d, o, com, B)
  PROVE  Sustained(Message(s, msg), d, o, com, B)
<1> DEFINE r == msg.r
           t == CloseUse(s, r)
           u == [t.p.use[r] EXCEPT !.quiescence = msg.quiescence]
           x == [t EXCEPT !.p.use[r].quiescence = msg.quiescence]
<1>1. r \in Requests /\ msg.quiescence \in Quiescence
  BY DEF Notice
<1>2. Sustained(t, d, o, com, B) /\ t.p.use[r] \in Use
  BY <1>1, CloseUseSound
<1>3. Message(s, msg) \in {s, t, x}
  BY DEF Message
<1> HIDE DEF t, r
<1>4. t \in Pair /\ t.p \in ProviderState
  BY <1>2, UnhurtFlags
<1>5. u \in Use /\ u.live = t.p.use[r].live /\ u.borrow = t.p.use[r].borrow
  BY <1>1, <1>2 DEF Use
<1>6. x.h = t.h /\ x.p = WithUse(t.p, r, u)
  BY <1>4 DEF WithUse, Pair, ProviderState
<1> HIDE DEF u
<1>7. WithUse(t.p, r, u) \in ProviderState
  BY <1>1, <1>4, <1>5, NewUse
<1>8. x \in Pair
  BY <1>4, <1>6, <1>7 DEF Pair
<1>9. MovesUse(t, x, r, u)
  BY <1>6, <1>8 DEF MovesUse
<1> HIDE DEF x
<1>10. Sustained(x, d, o, com, B)
  BY <1>1, <1>2, <1>5, <1>9, UseSound
<1> QED BY <1>2, <1>3, <1>10

(* -------------------- a borrow is lent, and erased ---------------------- *)

LEMMA PrepareBoth ==
  ASSUME NEW g, NEW q, NEW d, NEW o, NEW com, NEW r \in Requests, Sound(g, q, d, o, com, 0),
         q.use[r].live, PrepareStatus(g, r) = "success", NEW u \in Use, u.live, u.borrow
  PROVE  LET x == Prepare(g, r) y == WithUse(q, r, u) IN
         x \in HostState /\ y \in ProviderState /\ y.use[r] = u
         /\ Sound(x, y, d, o, com, 0) /\ StillOffered(g, x)
<1> DEFINE a == [g.op[r] EXCEPT !.borrow = TRUE]
           b == [NoRecord EXCEPT !.live = TRUE, !.dispatched = g.op[r].delivered]
           z == WithOperation(g, r, a, g.reserved)
           x == WithRecord(z, r, b, g.reserved + 1)
           y == WithUse(q, r, u)
<1>1. g \in HostState /\ q \in ProviderState
  BY DEF Sound
<1>2. g.op[r] \in Operation /\ g.rec[r] \in Record /\ g.reserved \in Nat
  BY <1>1, Entries
<1>3. /\ g.op[r].live /\ ~g.op[r].cancelled /\ ~g.op[r].completed /\ ~g.op[r].borrow
      /\ ~g.terminal /\ g.route # "none" /\ CanReserve(g, 1)
  BY DEF PrepareStatus
<1>4. About(g, q, d, o, com, r) /\ Books(g, 0)
  BY <1>1 DEF Sound
<1>5. /\ a \in Operation /\ a.live /\ a.live = g.op[r].live /\ a.borrow /\ a.of = g.op[r].of /\ a.delivered = g.op[r].delivered
      /\ a.offered = g.op[r].offered /\ ~a.completed /\ a.terminal_sent = g.op[r].terminal_sent
  BY <1>2, <1>3 DEF Operation
<1>13. NoRecord \in Record /\ g.op[r].delivered \in BOOLEAN
  <2>1. NoRecord \in Record
    BY DEF Record, NoRecord, Quiescence
  <2> QED BY <1>2, <2>1 DEF Operation
<1>6. /\ b \in Record /\ b.live /\ ~b.settled /\ ~b.closing /\ ~b.published /\ ~b.finished
      /\ ~b.client_notified /\ ~b.quiescence_notified /\ b.quiescence = "none"
  <2>1. b \in Record /\ b.live
    BY <1>13 DEF Record
  <2> QED BY <2>1 DEF NoRecord
<1>7. r \in Nat /\ g.last \in Nat
  BY <1>1, ServiceAssumption DEF HostState, Requests
<1>8. Prepare(g, r) = x
  BY <1>1 DEF HostState, Prepare, Reserve, WithOperation, WithRecord
<1> HIDE DEF a, b, y
<1>9. /\ z \in HostState /\ Rest(g, z) /\ Elsewhere(g, z, r)
      /\ z.op[r] = a /\ z.rec = g.rec /\ z.reserved = g.reserved
  BY <1>1, <1>2, <1>5, NewOperation
<1> HIDE DEF z
<1>10. /\ x \in HostState /\ Rest(z, x) /\ Elsewhere(z, x, r)
       /\ x.rec[r] = b /\ x.op = z.op /\ x.reserved = g.reserved + 1
  BY <1>2, <1>6, <1>9, NewRecord
<1> HIDE DEF x
<1>11. Rest(g, x) /\ Elsewhere(g, x, r) /\ x.op[r] = a
  BY <1>9, <1>10 DEF Rest, Still, Elsewhere, Same
<1>12. /\ y \in ProviderState /\ SameFlags(q, y) /\ y.completion = q.completion
       /\ y.use[r] = u /\ \A i \in Requests : i # r => y.use[i] = q.use[i]
  BY <1>1, <1>7, NewUse DEF y
<1>14. Rest(g, x) => Still(g, x)
  BY DEF Rest
<1>15. Spent(x, r)
  <2>1. ~(r > g.last) /\ x.last = g.last
    BY <1>3, <1>4, <1>11, <1>14 DEF About, Loan, Still
  <2> QED BY <1>5, <1>7, <1>11, <2>1 DEF Spent
<1>16. ~Spent(g, r) /\ ~g.rec[r].live
  BY <1>3, <1>4 DEF About, Loan, Spent
<1>17. Shape(x, r)
  BY <1>6, <1>10 DEF Shape
<1>18. Loan(x, y, com, r)
  <2>1. Owes(a) /\ ~g.op[r].terminal_sent
    BY <1>3, <1>4, <1>5 DEF About, Loan, Owes
  <2>2. ~(r > x.last) /\ ~(a.live /\ ~a.delivered /\ r \notin com)
    BY <1>3, <1>4, <1>5, <1>11, <1>14 DEF About, Loan, Still
  <2>3. y.completion[r] # "free" => ~a.completed /\ (a.delivered \/ (r \in com /\ a.offered))
    BY <1>4, <1>5, <1>12 DEF About, Loan
  <2>4. y.window # 0 /\ a.of \in Requests /\ x.route # "none"
    BY <1>3, <1>4, <1>5, <1>11, <1>12, <1>14 DEF About, Loan, SameFlags, Still
  <2> QED BY <1>5, <1>6, <1>10, <1>11, <1>12, <1>15, <2>1, <2>2, <2>3, <2>4 DEF Loan
<1>19. ~Lent(g, r) /\ ~d.rec[r].seen_prepared /\ ~Reads(g, d, r)
  BY <1>4, <1>16 DEF About, Watch
<1>20. ~Quitting(o, r) /\ ~d.rec[r].never_published /\ ~Never(g, r) /\ ~Closes(g, r) /\ ~Retires(g, r) /\ ~d.rec[r].retired
  BY <1>4, <1>16 DEF About, Watch
<1>21. ~Withdraws(g, r) /\ ~Withdrawn(g, r)
  BY <1>4, <1>19 DEF About, Withdrawal, Withdraws
<1>22. /\ ~Lent(x, r) /\ ~Never(x, r) /\ ~Closes(x, r) /\ ~Retires(x, r)
       /\ ~Withdraws(x, r) /\ ~Withdrawn(x, r) /\ ~Reads(x, d, r)
  BY <1>11, <1>14, <1>19, <1>20, <1>21 DEF Still, Lent, Never, Closes, Retires, Withdraws, Withdrawn, Reads
<1>23. Watch(x, d, o, r)
  BY <1>19, <1>20, <1>22 DEF Watch
<1>24. Answers(x, d, o, r)
  BY <1>4, <1>5, <1>11, <1>14 DEF About, Answers, Still, Owes, Done, Acked, Lent, Enrolled
<1>25. Withdrawal(x, d, o, r)
  BY <1>4, <1>6, <1>10, <1>19, <1>20, <1>21, <1>22 DEF About, Withdrawal
<1>26. Books(x, 1 - 1)
  <2>1. Bit(Owes(g.op[r])) = Bit(Owes(x.op[r])) /\ Bit(Owes(g.op[r])) \in Nat
    BY <1>5, <1>11 DEF Bit, Owes
  <2>2. Bit(Unsettled(g.rec[r])) = 0 /\ Bit(Unsettled(x.rec[r])) = 1
    BY <1>6, <1>10, <1>16 DEF Bit, Unsettled
  <2>3. Debts(g) \in Nat /\ Debts(x) = Debts(g) + 1
    BY <1>11, <2>1, <2>2, Balance
  <2>4. g.reserved = Debts(g) /\ Len(g.reply) \in Nat /\ ReplyCapacity \in Nat
    BY <1>1, <1>4, <2>3, ServiceAssumption DEF Books, HostState
  <2>5. x.reply = g.reply /\ x.threaded = g.threaded
    BY <1>11, <1>14 DEF Still
  <2> QED BY <1>2, <1>3, <1>10, <2>3, <2>4, <2>5 DEF Books, CanReserve
<1>27. Sound(x, y, d, o, com, 0)
  <2>1. About(x, y, d, o, com, r)
    BY <1>17, <1>18, <1>23, <1>24, <1>25 DEF About
  <2>2. Books(x, 0)
    BY <1>26
  <2> QED BY <1>1, <1>10, <1>11, <1>12, <1>14, <2>1, <2>2, BothSound DEF SameFlags
<1>28. StillOffered(g, x)
  BY <1>5, <1>11 DEF StillOffered, Elsewhere, Same
<1> QED BY <1>8, <1>10, <1>12, <1>27, <1>28 DEF y

LEMMA OfferUseSound ==
  ASSUME NEW s, NEW d, NEW o, NEW com, NEW B, NEW r \in Requests, Sustained(s, d, o, com, B),
         s.p.use[r].live
  PROVE  Sustained(OfferUse(s, r), d, o, com, B) /\ OfferUse(s, r).p.use[r].live
<1> DEFINE closing == s.p.stopping \/ s.p.window_closing
           shut == IF closing THEN CloseUse(s, r) ELSE s
           again == CloseUse(shut, r)
           x == Prepare(shut.h, r)
           u == [shut.p.use[r] EXCEPT !.borrow = TRUE]
           lent == [shut EXCEPT !.h = x, !.p.use[r].borrow = TRUE]
<1>1. Sustained(shut, d, o, com, B) /\ shut.p.use[r].live
  BY CloseUseSound
<1>2. OfferUse(s, r) \in {shut, again} \/ (OfferUse(s, r) = lent /\ PrepareStatus(shut.h, r) = "success")
  BY DEF OfferUse
<1> HIDE DEF shut
<1>3. Sustained(again, d, o, com, B) /\ again.p.use[r].live
  <2>1. Sustained(again, d, o, com, B)
    BY <1>1, CloseUseSound
  <2>2. again.p.use[r].live = shut.p.use[r].live
    BY <1>1, CloseUseSound
  <2> QED BY <1>1, <2>1, <2>2
<1> HIDE DEF again
<1>4. shut \in Pair /\ shut.h \in HostState /\ shut.p \in ProviderState /\ shut.p.use[r] \in Use
  BY <1>1, UnhurtFlags, Windowed
<1>5. u \in Use /\ u.live /\ u.borrow
  BY <1>1, <1>4 DEF Use
<1>6. ASSUME PrepareStatus(shut.h, r) = "success" PROVE Sustained(lent, d, o, com, B) /\ lent.p.use[r].live
  <2> DEFINE y == WithUse(shut.p, r, u)
  <2>1. lent.h = x /\ lent.p = y
    <3> HIDE DEF x
    <3> QED BY <1>4 DEF Pair, ProviderState, WithUse
  <2> HIDE DEF u
  <2>2. Sound(shut.h, shut.p, d, o, com, 0)
    BY <1>1 DEF Sustained
  <2>3. /\ x \in HostState /\ y \in ProviderState /\ y.use[r] = u
        /\ Sound(x, y, d, o, com, 0) /\ StillOffered(shut.h, x)
    BY <1>1, <1>5, <1>6, <2>2, PrepareBoth
  <2> HIDE DEF y
  <2>4. lent \in Pair
    <3> DEFINE z == [shut EXCEPT !.h = x]
    <3>1. z \in Pair /\ z.p = shut.p /\ lent = [z EXCEPT !.p.use[r].borrow = TRUE]
      <4> HIDE DEF x
      <4> QED BY <1>4, <2>3 DEF Pair
    <3> HIDE DEF x, z, lent
    <3> QED BY <3>1, <1>4 DEF Pair, ProviderState, Use
  <2> HIDE DEF lent, x
  <2>5. Sustained(lent, d, o, com, B)
    BY <1>1, <2>1, <2>3, <2>4, HostMoves
  <2> QED BY <1>5, <2>1, <2>3, <2>5
<1> HIDE DEF lent
<1> QED BY <1>1, <1>2, <1>3, <1>6

\* The use and the borrow it stands for end together.
LEMMA FinishBoth ==
  ASSUME NEW g, NEW q, NEW d, NEW o, NEW com, NEW r \in Requests, Sound(g, q, d, o, com, 0),
         FinishRetirementStatus(g, r) = "success"
  PROVE  LET x == FinishRetirement(g, r) y == WithUse(q, r, NoUse) IN
         x \in HostState /\ y \in ProviderState /\ Sound(x, y, d, o, com, 0) /\ StillOffered(g, x)
<1> DEFINE b == [g.rec[r] EXCEPT !.finished = TRUE]
           x == FinishRetirement(g, r)
           y == WithUse(q, r, NoUse)
<1>1. g \in HostState /\ q \in ProviderState /\ About(g, q, d, o, com, r) /\ Books(g, 0)
  BY DEF Sound
<1>2. g.rec[r] \in Record /\ g.reserved \in Nat
  BY <1>1, Entries
<1>3. g.rec[r].live /\ g.rec[r].closing /\ g.rec[r].quiescence_notified
  BY DEF FinishRetirementStatus
<1>4. /\ b \in Record /\ b.live = g.rec[r].live /\ b.settled = g.rec[r].settled /\ b.published = g.rec[r].published
      /\ b.closing = g.rec[r].closing /\ b.client_notified = g.rec[r].client_notified
      /\ b.quiescence_notified = g.rec[r].quiescence_notified /\ b.quiescence = g.rec[r].quiescence /\ b.finished
  BY <1>2 DEF Record
<1>5. x = WithRecord(g, r, b, g.reserved)
  BY <1>1 DEF FinishRetirement, WithRecord, HostState
<1> HIDE DEF b, x
<1>6. /\ x \in HostState /\ Rest(g, x) /\ Elsewhere(g, x, r)
      /\ x.rec[r] = b /\ x.op = g.op /\ x.reserved = g.reserved
  BY <1>1, <1>2, <1>4, <1>5, NewRecord
<1>7. NoUse \in Use /\ ~NoUse.live
  BY DEF Use, NoUse, Quiescence
<1>8. /\ y \in ProviderState /\ SameFlags(q, y) /\ y.completion = q.completion
      /\ y.use[r] = NoUse /\ \A i \in Requests : i # r => y.use[i] = q.use[i]
  BY <1>1, <1>7, NewUse
<1> HIDE DEF y
<1>9. Shape(x, r)
  BY <1>1, <1>3, <1>4, <1>6 DEF About, Shape, Rest, Still
<1>10. Loan(x, y, com, r)
  BY <1>1, <1>4, <1>6, <1>7, <1>8 DEF About, Loan, Rest, Still, Spent, Unsettled, Owes
<1>11. Watch(x, d, o, r)
  BY <1>1, <1>4, <1>6 DEF About, Watch, Rest, Still, Spent, Reads, Lent, Never, Closes, Retires
<1>12. Answers(x, d, o, r)
  BY <1>1, <1>6 DEF About, Answers, Rest, Still, Owes, Done, Acked, Lent, Enrolled
<1>13. Withdrawal(x, d, o, r)
  BY <1>1, <1>4, <1>6 DEF About, Withdrawal, Rest, Still, Withdraws, Withdrawn, Closes, Retires, Lent
<1>14. Books(x, 0)
  BY <1>1, <1>4, <1>6, SameBooks DEF Rest, Still, Unsettled
<1>15. Sound(x, y, d, o, com, 0)
  BY <1>6, <1>8, <1>9, <1>10, <1>11, <1>12, <1>13, <1>14, BothSound DEF About, Rest, SameFlags
<1>16. StillOffered(g, x)
  BY <1>6 DEF StillOffered
<1> QED BY <1>6, <1>8, <1>15, <1>16 DEF x, y

\* A use that has no borrow is dropped.
LEMMA DropUse ==
  ASSUME NEW s, NEW t, NEW d, NEW o, NEW com, NEW B, NEW r \in Requests, Sustained(s, d, o, com, B),
         ~s.p.use[r].borrow, MovesUse(s, t, r, NoUse)
  PROVE  Sustained(t, d, o, com, B)
<1> DEFINE y == WithUse(s.p, r, NoUse)
<1>1. s \in Pair /\ s.p \in ProviderState /\ Healthy(s.p)
  BY UnhurtFlags
<1>2. NoUse \in Use /\ ~NoUse.live
  BY DEF Use, NoUse, Quiescence
<1>3. /\ y \in ProviderState /\ SameFlags(s.p, y) /\ y.completion = s.p.completion
      /\ y.use[r] = NoUse /\ \A i \in Requests : i # r => y.use[i] = s.p.use[i]
  BY <1>1, <1>2, NewUse
<1>4. t \in Pair /\ t.h = s.h /\ t.p = y
  BY DEF MovesUse
<1> HIDE DEF y
<1>5. Eased(s.p, y)
  <2> SUFFICES ASSUME NEW i \in Requests
               PROVE  /\ y.use[i].live => s.p.use[i].live /\ y.window # 0
                      /\ y.use[i].live /\ y.use[i].borrow <=> s.p.use[i].live /\ s.p.use[i].borrow
                      /\ s.p.completion[i] = "free" => y.completion[i] = "free"
    BY DEF Eased
  <2>1. s.p.use[i].live => s.p.window # 0
    BY Windowed
  <2>2. CASE i = r
    BY <1>2, <1>3, <2>2
  <2>3. CASE i # r
    BY <1>3, <2>1, <2>3 DEF SameFlags
  <2> QED BY <2>2, <2>3
<1> QED BY <1>1, <1>3, <1>4, <1>5, EasedSound DEF SameFlags, Healthy

LEMMA RetireUseSound ==
  ASSUME NEW s, NEW d, NEW o, NEW com, NEW B, NEW r \in Requests, Sustained(s, d, o, com, B),
         s.p.use[r].live
  PROVE  Sustained(RetireUse(s, r), d, o, com, B)
<1> DEFINE x == CloseBorrow(s.h, r)
           u == [s.p.use[r] EXCEPT !.started = TRUE]
           started == [s EXCEPT !.h = x, !.p.use[r].started = TRUE]
           begun == IF s.p.use[r].started \/ ~s.p.use[r].borrow THEN s ELSE started
           erased == [begun EXCEPT !.p.use[r] = NoUse]
           z == FinishRetirement(begun.h, r)
           gone == [erased EXCEPT !.h = z]
<1>1. s \in Pair /\ s.h \in HostState /\ s.p \in ProviderState /\ s.p.use[r] \in Use
  BY UnhurtFlags, Windowed
<1>2. Sound(s.h, s.p, d, o, com, 0) /\ Loan(s.h, s.p, com, r)
  BY DEF Sustained, Sound, About
<1>3. s.p.use[r].borrow => s.h.rec[r].live
  BY <1>2 DEF Loan
<1>4. \/ RetireUse(s, r) \in {s, begun}
      \/ RetireUse(s, r) = erased /\ ~s.p.use[r].borrow
      \/ RetireUse(s, r) = gone /\ FinishRetirementStatus(begun.h, r) = "success"
  BY <1>3 DEF RetireUse
<1>5. u \in Use /\ u.live = s.p.use[r].live /\ u.borrow = s.p.use[r].borrow
  BY <1>1 DEF Use
<1>6. x \in HostState /\ Rest(s.h, x) /\ x.op = s.h.op /\ Sound(x, s.p, d, o, com, 0)
  BY <1>2, CloseKeeps, CloseSound
<1> HIDE DEF x
<1>7. started \in Pair /\ started.h = x /\ started.p = WithUse(s.p, r, u)
  BY <1>1, <1>6 DEF Pair, ProviderState, WithUse, Use
<1>8. WithUse(s.p, r, u) \in ProviderState
  BY <1>1, <1>5, NewUse
<1> HIDE DEF started
<1>9. Sustained(started, d, o, com, B)
  <2> DEFINE marked == [h |-> s.h, p |-> WithUse(s.p, r, u)]
  <2>1. MovesUse(s, marked, r, u)
    BY <1>1, <1>8 DEF MovesUse, Pair
  <2>2. marked.h = s.h /\ marked.p = started.p
    BY <1>7
  <2> HIDE DEF marked, u
  <2>3. Sustained(marked, d, o, com, B)
    BY <1>5, <2>1, UseSound
  <2>4. Sound(s.h, started.p, d, o, com, 0)
    BY <2>2, <2>3 DEF Sustained
  <2>5. Sound(x, started.p, d, o, com, 0)
    BY <2>4, CloseSound DEF x
  <2>6. StillOffered(marked.h, x)
    BY <1>6, <2>2 DEF StillOffered
  <2> QED BY <1>7, <2>3, <2>5, <2>6, HostMoves
<1>10. started.p.use[r] = u
  BY <1>1, <1>5, <1>7, NewUse
<1>11. Sustained(begun, d, o, com, B) /\ begun.p.use[r].borrow = s.p.use[r].borrow
  BY <1>5, <1>9, <1>10
<1> HIDE DEF begun
<1>12. begun \in Pair /\ begun.h \in HostState /\ begun.p \in ProviderState
  BY <1>11, UnhurtFlags
<1>13. NoUse \in Use
  BY DEF Use, NoUse, Quiescence
<1>14. erased \in Pair /\ erased.h = begun.h /\ erased.p = WithUse(begun.p, r, NoUse)
  BY <1>12, <1>13 DEF Pair, ProviderState, WithUse
<1> HIDE DEF erased
<1>15. ASSUME ~s.p.use[r].borrow PROVE Sustained(erased, d, o, com, B)
  <2>1. MovesUse(begun, erased, r, NoUse)
    BY <1>14 DEF MovesUse
  <2>2. ~begun.p.use[r].borrow
    BY <1>11, <1>15
  <2> QED BY <1>11, <2>1, <2>2, DropUse
<1>16. ASSUME FinishRetirementStatus(begun.h, r) = "success" PROVE Sustained(gone, d, o, com, B)
  <2>1. Sound(begun.h, begun.p, d, o, com, 0)
    BY <1>11 DEF Sustained
  <2>2. z \in HostState /\ Sound(z, erased.p, d, o, com, 0) /\ StillOffered(begun.h, z)
    BY <1>14, <1>16, <2>1, FinishBoth
  <2> HIDE DEF z
  <2>3. gone \in Pair /\ gone.h = z /\ gone.p = erased.p
    BY <1>14, <2>2 DEF Pair
  <2> HIDE DEF gone
  <2> QED BY <1>11, <2>2, <2>3, HostMoves
<1> HIDE DEF gone
<1> QED BY <1>4, <1>11, <1>15, <1>16

LEMMA ProgressUseSound ==
  ASSUME NEW s, NEW d, NEW o, NEW com, NEW B, NEW r \in Requests, Sustained(s, d, o, com, B)
  PROVE  Sustained(ProgressUse(s, r), d, o, com, B)
BY OfferUseSound, RetireUseSound DEF ProgressUse

LEMMA ProgressWindowSound ==
  ASSUME NEW s, NEW d, NEW o, NEW com, NEW B, Sustained(s, d, o, com, B)
  PROVE  Sustained(ProgressWindow(s), d, o, com, B)
<1> DEFINE t == [s EXCEPT !.p = [@ EXCEPT !.window = 0, !.window_closing = FALSE]]
<1>1. s \in Pair /\ s.p \in ProviderState /\ Healthy(s.p)
  BY UnhurtFlags
<1>2. /\ t \in Pair /\ t.h = s.h /\ t.p.use = s.p.use /\ t.p.completion = s.p.completion
      /\ t.p.stopping = s.p.stopping /\ t.p.failed = s.p.failed
      /\ t.p.begun = s.p.begun /\ t.p.broken = s.p.broken
  <2>1. 0 \in 0..N
    BY ServiceAssumption
  <2> QED BY <1>1, <2>1 DEF Pair, ProviderState
<1>3. ProgressWindow(s) = IF s.p.window # 0 /\ s.p.window_closing /\ \A r \in Requests : ~s.p.use[r].live
                          THEN t ELSE s
  BY DEF ProgressWindow
<1> HIDE DEF t
<1>4. CASE \A r \in Requests : ~s.p.use[r].live
  <2>1. Eased(s.p, t.p)
    BY <1>2, <1>4 DEF Eased
  <2>2. Sustained(t, d, o, com, B)
    BY <1>1, <1>2, <2>1, EasedSound DEF Healthy
  <2> QED BY <1>3, <2>2
<1> QED BY <1>3, <1>4

(* ----------------------- the commands of a batch ------------------------ *)

LEMMA TakeSlot ==
  ASSUME NEW s, NEW t, NEW d, NEW o, NEW com, NEW B, NEW r \in B, Sustained(s, d, o, com, B),
         r \notin com, MovesSlot(s, t, r, "live")
  PROVE  /\ Sustained(t, d, o, com \cup {r}, B) /\ t.h = s.h
         /\ ~t.p.use[r].live /\ ~t.h.rec[r].live /\ SameFlags(s.p, t.p) /\ t.p.use = s.p.use
<1> DEFINE y == WithSlot(s.p, r, "live")
           now == com \cup {r}
<1>1. s \in Pair /\ s.p \in ProviderState /\ r \in Requests
  BY UnhurtFlags DEF Sustained, InBatch
<1>2. s.h.op[r].live /\ ~s.h.op[r].delivered /\ s.h.op[r].offered
  BY DEF Sustained, InBatch
<1>3. "live" \in Slots
  BY DEF Slots
<1>4. /\ y \in ProviderState /\ SameFlags(s.p, y) /\ y.use = s.p.use
      /\ y.completion[r] = "live" /\ \A i \in Requests : i # r => y.completion[i] = s.p.completion[i]
  BY <1>1, <1>3, NewSlot
<1>5. t \in Pair /\ t.h = s.h /\ t.p = y
  BY DEF MovesSlot
<1> HIDE DEF y
<1>6. Sound(s.h, s.p, d, o, com, 0)
  BY DEF Sustained
<1>7. Loan(s.h, s.p, com, r)
  BY <1>1, <1>6 DEF Sound, About
<1>8. ~s.p.use[r].live /\ ~s.h.rec[r].live /\ ~s.h.op[r].completed
  BY <1>2, <1>7 DEF Loan
<1>9. ASSUME NEW i \in Requests PROVE About(s.h, y, d, o, now, i)
  <2>1. About(s.h, s.p, d, o, com, i) /\ Loan(s.h, s.p, com, i)
    BY <1>6 DEF Sound, About
  <2>2. CASE i = r
    <3>1. Loan(s.h, y, now, r)
      BY <1>2, <1>4, <1>7, <1>8 DEF Loan, SameFlags
    <3> QED BY <2>1, <2>2, <3>1 DEF About
  <2>3. CASE i # r
    <3>1. y.completion[i] = s.p.completion[i] /\ (i \in now <=> i \in com)
      BY <1>4, <2>3
    <3>2. Loan(s.h, y, now, i)
      BY <1>4, <2>1, <3>1 DEF Loan, SameFlags
    <3> QED BY <2>1, <3>2 DEF About
  <2> QED BY <2>2, <2>3
<1>10. Sound(s.h, y, d, o, now, 0)
  BY <1>4, <1>6, <1>9 DEF Sound, Calm, Healthy, SameFlags
<1> QED BY <1>4, <1>5, <1>8, <1>10 DEF Sustained

LEMMA NewUseSound ==
  ASSUME NEW s, NEW t \in Pair, NEW d, NEW o, NEW com, NEW B, NEW r \in B, Sustained(s, d, o, com, B),
         r \in com, ~s.h.rec[r].live, t.h = s.h, t.p.use[r].live, ~t.p.use[r].borrow,
         \A i \in Requests : i # r => t.p.use[i] = s.p.use[i],
         t.p.completion = s.p.completion, t.p.window # 0, t.p.stopping = s.p.stopping, t.p.failed = s.p.failed,
         t.p.begun = s.p.begun, t.p.broken = s.p.broken
  PROVE  Sustained(t, d, o, com, B)
<1>1. s.h.op[r].live /\ r \in Requests
  BY DEF Sustained, InBatch
<1>2. Sound(s.h, s.p, d, o, com, 0) /\ t.p \in ProviderState
  BY DEF Sustained, Pair
<1>3. ASSUME NEW i \in Requests PROVE About(s.h, t.p, d, o, com, i)
  <2>1. About(s.h, s.p, d, o, com, i) /\ Loan(s.h, s.p, com, i)
    BY <1>2 DEF Sound, About
  <2>2. CASE i = r
    <3>1. Loan(s.h, t.p, com, r)
      BY <1>1, <2>1, <2>2 DEF Loan
    <3> QED BY <2>1, <2>2, <3>1 DEF About
  <2>3. CASE i # r
    <3>1. t.p.use[i] = s.p.use[i]
      BY <2>3
    <3>2. Loan(s.h, t.p, com, i)
      BY <2>1, <3>1 DEF Loan
    <3> QED BY <2>1, <3>2 DEF About
  <2> QED BY <2>2, <2>3
<1>4. Sound(s.h, t.p, d, o, com, 0)
  BY <1>2, <1>3 DEF Sound, Calm, Healthy
<1> QED BY <1>4 DEF Sustained

LEMMA AcquireSound ==
  ASSUME NEW s, NEW d, NEW o, NEW com, NEW B, NEW r \in B, NEW created, Sustained(s, d, o, com, B),
         r \in com, ~s.h.rec[r].live, s.h.op[r].kind = "acquire" => s.p.window # 0
  PROVE  Sustained(Acquire(s, r, created), d, o, com, B)
<1> DEFINE u == [NoUse EXCEPT !.live = TRUE]
           used == [s EXCEPT !.p.use[r] = u]
           titled == [used EXCEPT !.p.window = r]
<1>1. s \in Pair /\ s.p \in ProviderState /\ r \in Requests
  BY UnhurtFlags DEF Sustained, InBatch
<1>2. u \in Use /\ u.live /\ ~u.borrow
  BY DEF Use, NoUse, Quiescence
<1>3. Acquire(s, r, created) \in {titled, CloseUse(CloseWindow(titled), r)}
      \/ (s.h.op[r].kind = "acquire" /\ Acquire(s, r, created) = used)
  BY DEF Acquire
<1> HIDE DEF u
<1>4. used \in Pair /\ used.h = s.h /\ used.p = WithUse(s.p, r, u)
  BY <1>1, <1>2 DEF Pair, ProviderState, WithUse
<1>5. /\ used.p \in ProviderState /\ SameFlags(s.p, used.p) /\ used.p.completion = s.p.completion
      /\ used.p.use[r] = u /\ \A i \in Requests : i # r => used.p.use[i] = s.p.use[i]
  BY <1>1, <1>2, <1>4, NewUse
<1> HIDE DEF used
<1>6. r \in 0..N /\ r # 0
  BY <1>1, ServiceAssumption DEF Requests
<1>7. /\ titled \in Pair /\ titled.h = s.h /\ titled.p.use = used.p.use /\ titled.p.completion = s.p.completion
      /\ titled.p.window = r /\ titled.p.stopping = s.p.stopping /\ titled.p.failed = s.p.failed
      /\ titled.p.begun = s.p.begun /\ titled.p.broken = s.p.broken
  BY <1>4, <1>5, <1>6 DEF Pair, ProviderState, SameFlags
<1> HIDE DEF titled
<1>8. Sustained(titled, d, o, com, B)
  <2>1. titled.p.use[r].live /\ ~titled.p.use[r].borrow /\ \A i \in Requests : i # r => titled.p.use[i] = s.p.use[i]
    BY <1>2, <1>5, <1>7
  <2> QED BY <1>6, <1>7, <2>1, NewUseSound
<1>9. Sustained(CloseUse(CloseWindow(titled), r), d, o, com, B)
  BY <1>1, <1>8, CloseWindowSound, CloseUseSound
<1>10. ASSUME s.h.op[r].kind = "acquire" PROVE Sustained(used, d, o, com, B)
  <2>1. used.p.use[r].live /\ ~used.p.use[r].borrow /\ used.p.window # 0
    BY <1>2, <1>5, <1>10 DEF SameFlags
  <2> QED BY <1>4, <1>5, <2>1, NewUseSound DEF SameFlags
<1> QED BY <1>3, <1>8, <1>9, <1>10

LEMMA ReadySound ==
  ASSUME NEW s, NEW d, NEW o, NEW com, NEW B, NEW r \in Requests, NEW of \in Requests,
         Sustained(s, d, o, com, B)
  PROVE  Sustained(Ready(s, r, of), d, o, com, B)
<1> DEFINE u == [s.p.use[of] EXCEPT !.ready = TRUE]
           t == [s EXCEPT !.p.use[of].ready = TRUE]
<1>1. s \in Pair /\ s.p \in ProviderState /\ s.p.use[of] \in Use
  BY UnhurtFlags, Windowed
<1>2. Ready(s, r, of) \in {CompleteSlot(CloseUse(s, of), r, FALSE), CompleteSlot(s, r, FALSE),
                           CompleteSlot(CompleteSlot(t, of, TRUE), r, TRUE)}
  BY DEF Ready
<1>3. u \in Use /\ u.live = s.p.use[of].live /\ u.borrow = s.p.use[of].borrow
  BY <1>1 DEF Use
<1>4. t.h = s.h /\ t.p = WithUse(s.p, of, u)
  BY <1>1 DEF Pair, ProviderState, WithUse
<1> HIDE DEF u
<1>5. WithUse(s.p, of, u) \in ProviderState
  BY <1>1, <1>3, NewUse
<1>6. MovesUse(s, t, of, u)
  BY <1>1, <1>4, <1>5 DEF Pair, MovesUse
<1> HIDE DEF t
<1>7. Sustained(t, d, o, com, B)
  BY <1>3, <1>6, UseSound
<1>8. Sustained(CompleteSlot(CompleteSlot(t, of, TRUE), r, TRUE), d, o, com, B)
  <2>1. Sustained(CompleteSlot(t, of, TRUE), d, o, com, B)
    BY <1>7, CompleteSlotSound
  <2> QED BY <2>1, CompleteSlotSound
<1>9. Sustained(CompleteSlot(CloseUse(s, of), r, FALSE), d, o, com, B)
  <2>1. Sustained(CloseUse(s, of), d, o, com, B)
    BY CloseUseSound
  <2> QED BY <2>1, CompleteSlotSound
<1>10. Sustained(CompleteSlot(s, r, FALSE), d, o, com, B)
  BY CompleteSlotSound
<1> QED BY <1>2, <1>8, <1>9, <1>10

LEMMA CommandSound ==
  ASSUME NEW s, NEW d, NEW o, NEW com, NEW B, NEW r \in B, NEW created, Sustained(s, d, o, com, B),
         r \notin com
  PROVE  Sustained(Command(s, r, created), d, o, com \cup {r}, B)
<1> DEFINE t == [s EXCEPT !.p.completion[r] = "live"]
           now == com \cup {r}
<1>1. s \in Pair /\ s.p \in ProviderState /\ r \in Requests
  BY UnhurtFlags DEF Sustained, InBatch
<1>2. \/ Command(s, r, created) = CompleteSlot(t, r, FALSE)
      \/ Command(s, r, created) = Acquire(t, r, created) /\ (s.h.op[r].kind = "acquire" => s.p.window # 0)
      \/ Command(s, r, created) = Ready(t, r, s.h.op[r].of)
  BY DEF Command, AcquireStatus
<1>3. "live" \in Slots
  BY DEF Slots
<1>4. t.h = s.h /\ t.p = WithSlot(s.p, r, "live")
  BY <1>1 DEF WithSlot, Pair, ProviderState
<1>5. WithSlot(s.p, r, "live") \in ProviderState
  BY <1>1, <1>3, NewSlot
<1>6. MovesSlot(s, t, r, "live")
  BY <1>1, <1>4, <1>5 DEF Pair, MovesSlot
<1> HIDE DEF t
<1>7. /\ Sustained(t, d, o, now, B) /\ t.h = s.h
      /\ ~t.p.use[r].live /\ ~t.h.rec[r].live /\ SameFlags(s.p, t.p)
  BY <1>6, TakeSlot
<1>8. Sustained(CompleteSlot(t, r, FALSE), d, o, now, B)
  BY <1>1, <1>7, CompleteSlotSound
<1>9. s.h.op[r].of \in Requests
  BY <1>1 DEF Sustained, Sound, About, Loan, InBatch
<1>10. Sustained(Ready(t, r, s.h.op[r].of), d, o, now, B)
  BY <1>1, <1>7, <1>9, ReadySound
<1>11. ASSUME s.h.op[r].kind = "acquire" => s.p.window # 0
       PROVE  Sustained(Acquire(t, r, created), d, o, now, B)
  <2>1. t.h.op[r].kind = "acquire" => t.p.window # 0
    BY <1>7, <1>11 DEF SameFlags
  <2>2. r \in now
    OBVIOUS
  <2> QED BY <1>7, <2>1, <2>2, AcquireSound
<1> QED BY <1>2, <1>8, <1>10, <1>11

(* ------------------------------- loops ---------------------------------- *)

LEMMA Inductive ==
  ASSUME NEW T, 0 \in T, \A n \in Nat : n \in T => n + 1 \in T
  PROVE  Nat \subseteq T
<1> DEFINE U == Nat \ T
<1> SUFFICES ASSUME U # {} PROVE FALSE
  OBVIOUS
<1>1. IsWellFoundedOn(OpToRel(<, Nat), Nat)
  BY NatLessThanWellFounded
<1>2. PICK n \in U : \A m \in U : ~(<<m, n>> \in OpToRel(<, Nat))
  <2>1. U \subseteq Nat
    OBVIOUS
  <2> HIDE DEF U
  <2> QED BY <1>1, <2>1, WFMin
<1>3. \A m \in U : ~(m < n)
  BY <1>2 DEF OpToRel
<1>4. n # 0 /\ n - 1 \in Nat
  OBVIOUS
<1>5. n - 1 \in T
  BY <1>3, <1>4
<1> QED
  BY <1>4, <1>5

\* What holds at the start of a loop and is kept by its steps holds at its end.
LEMMA Carried ==
  ASSUME NEW n \in Nat, NEW f, NEW G, f[0] \in G[0],
         \A i \in 1..n : f[i - 1] \in G[i - 1] => f[i] \in G[i]
  PROVE  f[n] \in G[n]
<1> DEFINE T == {k \in Nat : k <= n => f[k] \in G[k]}
<1>1. 0 \in T
  OBVIOUS
<1>2. ASSUME NEW k \in Nat, k \in T PROVE k + 1 \in T
  <2> SUFFICES ASSUME k + 1 <= n PROVE f[k + 1] \in G[k + 1]
    OBVIOUS
  <2>1. k + 1 \in 1..n /\ (k + 1) - 1 = k /\ f[k] \in G[k]
    BY <1>2
  <2> QED BY <2>1
<1> HIDE DEF T
<1>3. Nat \subseteq T
  BY <1>1, <1>2, Inductive
<1> QED BY <1>3 DEF T

\* A loop whose steps keep to the sets G runs: step[i] is its ith step.
Stepped(e, n, a, step) == e = [i \in 0..n |-> IF i = 0 THEN a ELSE step[i][e[i - 1]]]

LEMMA Run ==
  ASSUME NEW n \in Nat, NEW a, NEW G, NEW step, a \in G[0],
         \A i \in 1..n : \A x \in G[i - 1] : step[i][x] \in G[i]
  PROVE  \E e : Stepped(e, n, a, step) /\ \A i \in 0..n : e[i] \in G[i]
<1> DEFINE Upto(k, e) == /\ e = [i \in 0..k |-> IF i = 0 THEN a ELSE step[i][e[i - 1]]]
                         /\ \A i \in 0..k : e[i] \in G[i]
           Some(k) == \E e : Upto(k, e)
           T == {k \in Nat : k <= n => Some(k)}
<1>1. 0 \in T
  <2> DEFINE e == [i \in 0..0 |-> a]
  <2>1. Upto(0, e)
    OBVIOUS
  <2>2. Some(0)
    BY <2>1
  <2> HIDE DEF Some
  <2> QED BY <2>2
<1>2. ASSUME NEW k \in Nat, k \in T PROVE k + 1 \in T
  <2> SUFFICES ASSUME k + 1 <= n PROVE Some(k + 1)
    OBVIOUS
  <2>1. PICK e : Upto(k, e)
    BY <1>2
  <2> DEFINE f == [i \in 0..(k + 1) |-> IF i <= k THEN e[i] ELSE step[k + 1][e[k]]]
  <2>2. \A i \in 0..k : f[i] = e[i] /\ e[i] \in G[i] /\ e[i] = IF i = 0 THEN a ELSE step[i][e[i - 1]]
    BY <2>1
  <2>3. f[k + 1] = step[k + 1][e[k]]
    OBVIOUS
  <2>4. e[k] \in G[k] /\ k + 1 \in 1..n /\ (k + 1) - 1 = k
    BY <2>1
  <2>5. f[k + 1] \in G[k + 1]
    BY <2>3, <2>4
  <2>6. f = [i \in 0..(k + 1) |-> f[i]]
    OBVIOUS
  <2> HIDE DEF f
  <2>7. ASSUME NEW i \in 0..(k + 1)
        PROVE  f[i] \in G[i] /\ f[i] = IF i = 0 THEN a ELSE step[i][f[i - 1]]
    <3>1. CASE i = 0
      <4>1. i \in 0..k
        BY <3>1
      <4> QED BY <2>2, <3>1, <4>1
    <3>2. CASE i # 0 /\ i <= k
      <4>1. i \in 0..k /\ i - 1 \in 0..k
        BY <3>2
      <4> QED BY <2>2, <3>2, <4>1
    <3>3. CASE i = k + 1
      <4>1. k \in 0..k /\ i - 1 = k /\ i # 0
        BY <3>3
      <4> QED BY <2>2, <2>3, <2>5, <3>3, <4>1
    <3> QED BY <3>1, <3>2, <3>3
  <2>8. Upto(k + 1, f)
    <3>1. f = [i \in 0..(k + 1) |-> IF i = 0 THEN a ELSE step[i][f[i - 1]]]
      BY <2>6, <2>7
    <3> QED BY <2>7, <3>1
  <2> HIDE DEF Upto
  <2> QED BY <2>8
<1> HIDE DEF Some, T
<1>3. Nat \subseteq T
  BY <1>1, <1>2, Inductive
<1>4. Some(n)
  BY <1>3 DEF T
<1> QED BY <1>4 DEF Some, Stepped

(* --------------------------- a pump call -------------------------------- *)

LEMMA FlushSound ==
  ASSUME NEW s, NEW d, NEW o, NEW com, NEW B, Sustained(s, d, o, com, B)
  PROVE  Sustained(FlushCompletions(s), d, o, com, B)
<1> DEFINE G == [i \in 0..N |-> {x \in Pair : Sustained(x, d, o, com, B)}]
           Upto(e) == e = [i \in 0..N |-> IF i = 0 THEN s ELSE FlushOne(e[i - 1], i)]
           f == CHOOSE e : Upto(e)
<1>1. N \in Nat /\ 1..N = Requests
  BY ServiceAssumption DEF Requests
<1>2. \A i \in 0..N : G[i] = {x \in Pair : Sustained(x, d, o, com, B)}
  OBVIOUS
<1> HIDE DEF G
<1>3. s \in G[0]
  BY <1>1, <1>2 DEF Sustained
<1>4. ASSUME NEW i \in 1..N, NEW x \in G[i - 1] PROVE FlushOne(x, i) \in G[i]
  <2>1. i - 1 \in 0..N /\ i \in 0..N  /\ i \in Requests
    BY <1>1
  <2>2. x \in {z \in Pair : Sustained(z, d, o, com, B)}
    BY <1>2, <2>1
  <2>3. Sustained(FlushOne(x, i), d, o, com, B)
    BY <2>1, <2>2, FlushOneSound
  <2>4. FlushOne(x, i) \in Pair
    BY <2>3 DEF Sustained
  <2> QED BY <1>2, <2>1, <2>3, <2>4
<1>5. \E e : Upto(e)
  <2> DEFINE step == [i \in 1..N |-> [x \in G[i - 1] |-> FlushOne(x, i)]]
  <2>1. \A i \in 1..N : \A x \in G[i - 1] : step[i][x] = FlushOne(x, i)
    OBVIOUS
  <2>2. \A i \in 1..N : \A x \in G[i - 1] : step[i][x] \in G[i]
    BY <1>4, <2>1
  <2> HIDE DEF step
  <2>3. PICK e : Stepped(e, N, s, step) /\ \A i \in 0..N : e[i] \in G[i]
    BY <1>1, <1>3, <2>2, Run
  <2>4. ASSUME NEW i \in 0..N, i # 0 PROVE step[i][e[i - 1]] = FlushOne(e[i - 1], i)
    <3>1. i \in 1..N /\ e[i - 1] \in G[i - 1]
      BY <1>1, <2>3, <2>4
    <3> QED BY <2>1, <3>1
  <2>5. Upto(e)
    BY <2>3, <2>4 DEF Stepped
  <2> QED BY <2>5
<1>6. Upto(f)
  <2> HIDE DEF Upto
  <2> QED BY <1>5
<1>7. FlushCompletions(s) = f[N]
  BY DEF FlushCompletions, ForEachRequest
<1> HIDE DEF f
<1>8. f[0] = s /\ \A i \in 1..N : f[i] = FlushOne(f[i - 1], i)
  <2>1. 0 \in 0..N /\ \A i \in 1..N : i \in 0..N /\ i # 0
    BY <1>1
  <2>2. \A i \in 0..N : f[i] = IF i = 0 THEN s ELSE FlushOne(f[i - 1], i)
    BY <1>6
  <2> QED BY <2>1, <2>2
<1>9. \A i \in 1..N : f[i - 1] \in G[i - 1] => f[i] \in G[i]
  BY <1>4, <1>8
<1>10. f[N] \in G[N]
  BY <1>1, <1>3, <1>8, <1>9, Carried
<1>11. f[N] \in {x \in Pair : Sustained(x, d, o, com, B)}
  BY <1>1, <1>2, <1>10
<1> QED BY <1>7, <1>11

LEMMA ProgressUsesSound ==
  ASSUME NEW s, NEW d, NEW o, NEW com, NEW B, Sustained(s, d, o, com, B)
  PROVE  Sustained(ProgressUses(s), d, o, com, B)
<1> DEFINE G == [i \in 0..N |-> {x \in Pair : Sustained(x, d, o, com, B)}]
           Upto(e) == e = [i \in 0..N |-> IF i = 0 THEN s ELSE ProgressUse(e[i - 1], i)]
           f == CHOOSE e : Upto(e)
<1>1. N \in Nat /\ 1..N = Requests
  BY ServiceAssumption DEF Requests
<1>2. \A i \in 0..N : G[i] = {x \in Pair : Sustained(x, d, o, com, B)}
  OBVIOUS
<1> HIDE DEF G
<1>3. s \in G[0]
  BY <1>1, <1>2 DEF Sustained
<1>4. ASSUME NEW i \in 1..N, NEW x \in G[i - 1] PROVE ProgressUse(x, i) \in G[i]
  <2>1. i - 1 \in 0..N /\ i \in 0..N  /\ i \in Requests
    BY <1>1
  <2>2. x \in {z \in Pair : Sustained(z, d, o, com, B)}
    BY <1>2, <2>1
  <2>3. Sustained(ProgressUse(x, i), d, o, com, B)
    BY <2>1, <2>2, ProgressUseSound
  <2>4. ProgressUse(x, i) \in Pair
    BY <2>3 DEF Sustained
  <2> QED BY <1>2, <2>1, <2>3, <2>4
<1>5. \E e : Upto(e)
  <2> DEFINE step == [i \in 1..N |-> [x \in G[i - 1] |-> ProgressUse(x, i)]]
  <2>1. \A i \in 1..N : \A x \in G[i - 1] : step[i][x] = ProgressUse(x, i)
    OBVIOUS
  <2>2. \A i \in 1..N : \A x \in G[i - 1] : step[i][x] \in G[i]
    BY <1>4, <2>1
  <2> HIDE DEF step
  <2>3. PICK e : Stepped(e, N, s, step) /\ \A i \in 0..N : e[i] \in G[i]
    BY <1>1, <1>3, <2>2, Run
  <2>4. ASSUME NEW i \in 0..N, i # 0 PROVE step[i][e[i - 1]] = ProgressUse(e[i - 1], i)
    <3>1. i \in 1..N /\ e[i - 1] \in G[i - 1]
      BY <1>1, <2>3, <2>4
    <3> QED BY <2>1, <3>1
  <2>5. Upto(e)
    BY <2>3, <2>4 DEF Stepped
  <2> QED BY <2>5
<1>6. Upto(f)
  <2> HIDE DEF Upto
  <2> QED BY <1>5
<1>7. ProgressUses(s) = f[N]
  BY DEF ProgressUses, ForEachRequest
<1> HIDE DEF f
<1>8. f[0] = s /\ \A i \in 1..N : f[i] = ProgressUse(f[i - 1], i)
  <2>1. 0 \in 0..N /\ \A i \in 1..N : i \in 0..N /\ i # 0
    BY <1>1
  <2>2. \A i \in 0..N : f[i] = IF i = 0 THEN s ELSE ProgressUse(f[i - 1], i)
    BY <1>6
  <2> QED BY <2>1, <2>2
<1>9. \A i \in 1..N : f[i - 1] \in G[i - 1] => f[i] \in G[i]
  BY <1>4, <1>8
<1>10. f[N] \in G[N]
  BY <1>1, <1>3, <1>8, <1>9, Carried
<1>11. f[N] \in {x \in Pair : Sustained(x, d, o, com, B)}
  BY <1>1, <1>2, <1>10
<1> QED BY <1>7, <1>11

LEMMA ToldSound ==
  ASSUME NEW s, NEW d, NEW o, NEW com, NEW B, Sustained(s, d, o, com, B),
         NEW messages \in Seq(Notice)
  PROVE  Sustained(Told(s, messages), d, o, com, B)
<1> DEFINE G == [i \in 0..Len(messages) |-> {x \in Pair : Sustained(x, d, o, com, B)}]
           Upto(e) == e = [i \in 0..Len(messages) |-> IF i = 0 THEN s ELSE Message(e[i - 1], messages[i])]
           f == CHOOSE e : Upto(e)
<1>1. Len(messages) \in Nat /\ \A i \in 1..Len(messages) : messages[i] \in Notice
  OBVIOUS
<1>2. \A i \in 0..Len(messages) : G[i] = {x \in Pair : Sustained(x, d, o, com, B)}
  OBVIOUS
<1> HIDE DEF G
<1>3. s \in G[0]
  BY <1>1, <1>2 DEF Sustained
<1>4. ASSUME NEW i \in 1..Len(messages), NEW x \in G[i - 1] PROVE Message(x, messages[i]) \in G[i]
  <2>1. i - 1 \in 0..Len(messages) /\ i \in 0..Len(messages)  /\ messages[i] \in Notice
    BY <1>1
  <2>2. x \in {z \in Pair : Sustained(z, d, o, com, B)}
    BY <1>2, <2>1
  <2>3. Sustained(Message(x, messages[i]), d, o, com, B)
    BY <2>1, <2>2, MessageSound
  <2>4. Message(x, messages[i]) \in Pair
    BY <2>3 DEF Sustained
  <2> QED BY <1>2, <2>1, <2>3, <2>4
<1>5. \E e : Upto(e)
  <2> DEFINE step == [i \in 1..Len(messages) |-> [x \in G[i - 1] |-> Message(x, messages[i])]]
  <2>1. \A i \in 1..Len(messages) : \A x \in G[i - 1] : step[i][x] = Message(x, messages[i])
    OBVIOUS
  <2>2. \A i \in 1..Len(messages) : \A x \in G[i - 1] : step[i][x] \in G[i]
    BY <1>4, <2>1
  <2> HIDE DEF step
  <2>3. PICK e : Stepped(e, Len(messages), s, step) /\ \A i \in 0..Len(messages) : e[i] \in G[i]
    BY <1>1, <1>3, <2>2, Run
  <2>4. ASSUME NEW i \in 0..Len(messages), i # 0 PROVE step[i][e[i - 1]] = Message(e[i - 1], messages[i])
    <3>1. i \in 1..Len(messages) /\ e[i - 1] \in G[i - 1]
      BY <1>1, <2>3, <2>4
    <3> QED BY <2>1, <3>1
  <2>5. Upto(e)
    BY <2>3, <2>4 DEF Stepped
  <2> QED BY <2>5
<1>6. Upto(f)
  <2> HIDE DEF Upto
  <2> QED BY <1>5
<1>7. Told(s, messages) = f[Len(messages)]
  BY DEF Told
<1> HIDE DEF f
<1>8. f[0] = s /\ \A i \in 1..Len(messages) : f[i] = Message(f[i - 1], messages[i])
  <2>1. 0 \in 0..Len(messages) /\ \A i \in 1..Len(messages) : i \in 0..Len(messages) /\ i # 0
    BY <1>1
  <2>2. \A i \in 0..Len(messages) : f[i] = IF i = 0 THEN s ELSE Message(f[i - 1], messages[i])
    BY <1>6
  <2> QED BY <2>1, <2>2
<1>9. \A i \in 1..Len(messages) : f[i - 1] \in G[i - 1] => f[i] \in G[i]
  BY <1>4, <1>8
<1>10. f[Len(messages)] \in G[Len(messages)]
  BY <1>1, <1>3, <1>8, <1>9, Carried
<1>11. f[Len(messages)] \in {x \in Pair : Sustained(x, d, o, com, B)}
  BY <1>1, <1>2, <1>10
<1> QED BY <1>7, <1>11

\* The commands of the consumed operations, in turn.
CommandOne(x, r, commands, created) == IF r \in commands THEN Command(x, r, created) ELSE x

Commanded(s, commands, created) ==
    LET after[r \in 0..N] == IF r = 0 THEN s ELSE CommandOne(after[r - 1], r, commands, created) IN after[N]

\* The requests of a set that come before i, and i.
Until(S, i) == {r \in S : r <= i}

LEMMA UntilNone ==
  ASSUME NEW S, S \subseteq Nat \ {0}
  PROVE  Until(S, 0) = {}
<1>1. \A r \in S : r \in Nat /\ r # 0
  OBVIOUS
<1>2. \A r \in S : ~(r <= 0)
  BY <1>1
<1> QED BY <1>2 DEF Until

LEMMA UntilAll ==
  ASSUME NEW S, NEW i, \A r \in S : r <= i
  PROVE  Until(S, i) = S
BY DEF Until

LEMMA UntilNext ==
  ASSUME NEW S, S \subseteq Nat \ {0}, NEW i \in Nat \ {0}
  PROVE  /\ i \notin Until(S, i - 1)
         /\ i \in S => Until(S, i) = Until(S, i - 1) \cup {i}
         /\ i \notin S => Until(S, i) = Until(S, i - 1)
<1>1. i \notin Until(S, i - 1)
  BY DEF Until
<1>2. ASSUME NEW r PROVE r \in Until(S, i) <=> r \in Until(S, i - 1) \/ (r = i /\ i \in S)
  <2>1. r \in Until(S, i) <=> r \in S /\ r <= i
    BY DEF Until
  <2>2. r \in Until(S, i - 1) <=> r \in S /\ r <= i - 1
    BY DEF Until
  <2>3. r \in S => r \in Nat
    OBVIOUS
  <2>4. r \in S => (r <= i <=> r <= i - 1 \/ r = i)
    BY <2>3
  <2> QED BY <2>1, <2>2, <2>4
<1> QED BY <1>1, <1>2

LEMMA CommandsSound ==
  ASSUME NEW s, NEW d, NEW o, NEW B, NEW commands \in SUBSET B, NEW created,
         Sustained(s, d, o, {}, B)
  PROVE  Sustained(Commanded(s, commands, created), d, o, commands, B)
<1> DEFINE G == [i \in 0..N |-> {x \in Pair : Sustained(x, d, o, Until(commands, i), B)}]
           Upto(e) == e = [i \in 0..N |-> IF i = 0 THEN s ELSE CommandOne(e[i - 1], i, commands, created)]
           f == CHOOSE e : Upto(e)
<1>1. N \in Nat /\ 1..N = Requests
  BY ServiceAssumption DEF Requests
<1>0. commands \subseteq Nat \ {0} /\ \A r \in commands : r <= N
  <2>1. commands \subseteq 1..N
    BY <1>1 DEF Sustained, InBatch
  <2> QED BY <1>1, <2>1
<1>2. \A i \in 0..N : G[i] = {x \in Pair : Sustained(x, d, o, Until(commands, i), B)}
  OBVIOUS
<1> HIDE DEF G
<1>3. s \in G[0]
  <2>1. Until(commands, 0) = {}
    BY <1>0, UntilNone
  <2>2. s \in {x \in Pair : Sustained(x, d, o, Until(commands, 0), B)}
    BY <2>1 DEF Sustained
  <2> QED BY <1>1, <1>2, <2>2
<1>4. ASSUME NEW i \in 1..N, NEW x \in G[i - 1] PROVE CommandOne(x, i, commands, created) \in G[i]
  <2>1. i - 1 \in 0..N /\ i \in 0..N  /\ i \in Requests
    BY <1>1
  <2>2. x \in {z \in Pair : Sustained(z, d, o, Until(commands, i - 1), B)}
    BY <1>2, <2>1
  <2>4. CASE i \in commands
    <3>1. Until(commands, i) = Until(commands, i - 1) \cup {i} /\ i \notin Until(commands, i - 1)
      BY <1>0, <1>1, <2>4, UntilNext
    <3>2. Sustained(Command(x, i, created), d, o, Until(commands, i - 1) \cup {i}, B)
      BY <2>2, <2>4, <3>1, CommandSound
    <3>3. Sustained(CommandOne(x, i, commands, created), d, o, Until(commands, i), B)
      BY <2>4, <3>1, <3>2 DEF CommandOne
    <3>4. CommandOne(x, i, commands, created) \in Pair
      BY <3>3 DEF Sustained
    <3> QED BY <1>2, <2>1, <3>3, <3>4
  <2>5. CASE i \notin commands
    <3>1. Until(commands, i) = Until(commands, i - 1)
      <4>1. commands \subseteq Nat \ {0} /\ i \in Nat \ {0}
        BY <1>0, <1>1
      <4> QED BY <4>1, <2>5, UntilNext
    <3>2. CommandOne(x, i, commands, created) = x
      BY <2>5 DEF CommandOne
    <3> QED BY <1>2, <2>1, <2>2, <3>1, <3>2
  <2> QED BY <2>4, <2>5
<1>5. \E e : Upto(e)
  <2> DEFINE step == [i \in 1..N |-> [x \in G[i - 1] |-> CommandOne(x, i, commands, created)]]
  <2>1. \A i \in 1..N : \A x \in G[i - 1] : step[i][x] = CommandOne(x, i, commands, created)
    OBVIOUS
  <2>2. \A i \in 1..N : \A x \in G[i - 1] : step[i][x] \in G[i]
    BY <1>4, <2>1
  <2> HIDE DEF step
  <2>3. PICK e : Stepped(e, N, s, step) /\ \A i \in 0..N : e[i] \in G[i]
    BY <1>1, <1>3, <2>2, Run
  <2>4. ASSUME NEW i \in 0..N, i # 0 PROVE step[i][e[i - 1]] = CommandOne(e[i - 1], i, commands, created)
    <3>1. i \in 1..N /\ e[i - 1] \in G[i - 1]
      BY <1>1, <2>3, <2>4
    <3> QED BY <2>1, <3>1
  <2>5. Upto(e)
    BY <2>3, <2>4 DEF Stepped
  <2> QED BY <2>5
<1>6. Upto(f)
  <2> HIDE DEF Upto
  <2> QED BY <1>5
<1>7. Commanded(s, commands, created) = f[N]
  BY DEF Commanded
<1> HIDE DEF f
<1>8. f[0] = s /\ \A i \in 1..N : f[i] = CommandOne(f[i - 1], i, commands, created)
  <2>1. 0 \in 0..N /\ \A i \in 1..N : i \in 0..N /\ i # 0
    BY <1>1
  <2>2. \A i \in 0..N : f[i] = IF i = 0 THEN s ELSE CommandOne(f[i - 1], i, commands, created)
    BY <1>6
  <2> QED BY <2>1, <2>2
<1>9. \A i \in 1..N : f[i - 1] \in G[i - 1] => f[i] \in G[i]
  BY <1>4, <1>8
<1>10. f[N] \in G[N]
  BY <1>1, <1>3, <1>8, <1>9, Carried
<1>11. f[N] \in {x \in Pair : Sustained(x, d, o, Until(commands, N), B)}
  BY <1>1, <1>2, <1>10
<1>12. Until(commands, N) = commands
  BY <1>0, UntilAll
<1> QED BY <1>7, <1>11, <1>12

\* The dispatch fails: the provider stops, and it is known why.
Failing(s) == NativeFailure([s EXCEPT !.p.broken = TRUE])

LEMMA FailingSound ==
  ASSUME NEW s, NEW d, NEW o, NEW com, NEW B, Sustained(s, d, o, com, B)
  PROVE  Sustained(Failing(s), d, o, com, B)
<1> DEFINE t == [s EXCEPT !.p.broken = TRUE]
<1>1. s \in Pair /\ s.p \in ProviderState /\ Healthy(s.p)
  BY UnhurtFlags
<1>2. /\ t \in Pair /\ t.h = s.h /\ t.p.use = s.p.use /\ t.p.completion = s.p.completion
      /\ t.p.window = s.p.window /\ t.p.broken /\ t.p.stopping = s.p.stopping /\ t.p.failed = s.p.failed
      /\ t.p.begun = s.p.begun
  BY <1>1 DEF Pair, ProviderState
<1>3. Failing(s) = NativeFailure(t)
  BY DEF Failing
<1> HIDE DEF t
<1>4. Healthy(t.p)
  BY <1>1, <1>2 DEF Healthy
<1>5. Sustained(t, d, o, com, B)
  BY <1>2, <1>4, StoppingSound
<1> QED BY <1>2, <1>3, <1>5, NativeFailureSound

LEMMA PumpBodySound ==
  ASSUME NEW s, NEW d, NEW o, NEW B, NEW messages \in Seq(Notice), NEW commands \in SUBSET B, NEW created,
         NEW fails, Sustained(s, d, o, {}, B), fails \in {"no", "first", "last"}
  PROVE  Sustained(PumpBody(s, messages, commands, created, fails), d, o, commands, B)
<1> DEFINE Dispatched(x, when) == IF fails = when THEN Failing(x) ELSE x
           flushed == FlushCompletions(s)
           told == Told(flushed, messages)
           heard == ProgressUses(told)
           first == Dispatched(heard, "first")
           commanded == Commanded(first, commands, created)
           used == ProgressUses(commanded)
           done == FlushCompletions(used)
           last == Dispatched(done, "last")
           progressed == ProgressUses(last)
<1>1. PumpBody(s, messages, commands, created, fails) = ProgressWindow(progressed)
  BY DEF PumpBody, ForEachRequest, Commanded, CommandOne, Failing
<1>2. Sustained(flushed, d, o, {}, B)
  BY FlushSound
<1> HIDE DEF flushed
<1>3. Sustained(told, d, o, {}, B)
  BY <1>2, ToldSound
<1> HIDE DEF told
<1>4. Sustained(heard, d, o, {}, B)
  BY <1>3, ProgressUsesSound
<1> HIDE DEF heard
<1>5. Sustained(first, d, o, {}, B)
  BY <1>4, FailingSound
<1> HIDE DEF first
<1>6. Sustained(commanded, d, o, commands, B)
  BY <1>5, CommandsSound
<1> HIDE DEF commanded
<1>7. Sustained(used, d, o, commands, B)
  BY <1>6, ProgressUsesSound
<1> HIDE DEF used
<1>8. Sustained(done, d, o, commands, B)
  BY <1>7, FlushSound
<1> HIDE DEF done
<1>9. Sustained(last, d, o, commands, B)
  BY <1>8, FailingSound
<1> HIDE DEF last
<1>10. Sustained(progressed, d, o, commands, B)
  BY <1>9, ProgressUsesSound
<1> HIDE DEF progressed
<1> QED BY <1>1, <1>10, ProgressWindowSound

(* ------------------------- the host's tables ---------------------------- *)

SameTables(g, x) ==
    /\ x.threaded = g.threaded /\ x.terminal = g.terminal /\ x.last = g.last /\ x.reply = g.reply
    /\ x.control = g.control /\ x.failed = g.failed /\ x.reserved = g.reserved /\ x.op = g.op /\ x.rec = g.rec

LEMMA FlagsSound ==
  ASSUME NEW g, NEW x, NEW q, NEW d, NEW o, NEW com, NEW n, Sound(g, q, d, o, com, n),
         x \in HostState, SameTables(g, x), x.route = "none" => g.route = "none"
  PROVE  Sound(x, q, d, o, com, n)
<1>1. ASSUME NEW r \in Requests PROVE About(x, q, d, o, com, r)
  <2>1. About(g, q, d, o, com, r)
    BY DEF Sound
  <2>2. Shape(x, r)
    BY <2>1 DEF About, Shape, SameTables
  <2>3. Loan(x, q, com, r)
    BY <2>1 DEF About, Loan, SameTables, Spent, Unsettled, Owes
  <2>4. Watch(x, d, o, r)
    BY <2>1 DEF About, Watch, SameTables, Spent, Reads, Lent, Never, Closes, Retires
  <2>5. Answers(x, d, o, r)
    BY <2>1 DEF About, Answers, SameTables, Owes, Done, Acked, Lent, Enrolled
  <2>6. Withdrawal(x, d, o, r)
    BY <2>1 DEF About, Withdrawal, SameTables, Withdraws, Withdrawn, Closes, Retires, Lent
  <2> QED BY <2>2, <2>3, <2>4, <2>5, <2>6 DEF About
<1>2. Inbox(x)
  BY DEF Sound, Inbox, SameTables
<1>3. Route(x, d, o)
  BY DEF Sound, Route, SameTables, Left
<1>4. Calm(x, q)
  BY DEF Sound, Calm, SameTables
<1>5. Ended(x, d)
  BY DEF Sound, Ended, SameTables
<1>6. Books(x, n)
  <2>1. Debts(x) = Debts(g)
    BY DEF Debts, Owing, Unpaid, SameTables
  <2> QED BY <2>1 DEF Sound, Books, SameTables
<1> QED BY <1>1, <1>2, <1>3, <1>4, <1>5, <1>6 DEF Sound

\* What the batch changes of an operation is no more than how it was delivered.
Alike(a, b) ==
    /\ b.live = a.live /\ b.of = a.of /\ b.completed = a.completed /\ b.cancelled = a.cancelled
    /\ b.terminal_sent = a.terminal_sent /\ b.borrow = a.borrow

LEMMA TablesSound ==
  ASSUME NEW g, NEW x, NEW q, NEW d, NEW o, NEW com, NEW now, Sound(g, q, d, o, com, 0),
         x \in HostState, Still(g, x), x.reserved = g.reserved,
         \A r \in Requests : Alike(g.op[r], x.op[r]) /\ AsRecord(g.rec[r], x.rec[r]) /\ Loan(x, q, now, r)
  PROVE  Sound(x, q, d, o, now, 0)
<1>1. ASSUME NEW r \in Requests PROVE About(x, q, d, o, now, r)
  <2>1. About(g, q, d, o, com, r)
    BY DEF Sound
  <2>2. Alike(g.op[r], x.op[r]) /\ AsRecord(g.rec[r], x.rec[r]) /\ Loan(x, q, now, r)
    OBVIOUS
  <2>3. Shape(x, r)
    BY <2>1, <2>2 DEF About, Shape, Still, AsRecord
  <2>4. Watch(x, d, o, r)
    BY <2>1, <2>2 DEF About, Watch, Still, AsRecord, Alike, Spent, Reads, Lent, Never, Closes, Retires
  <2>5. Answers(x, d, o, r)
    BY <2>1, <2>2 DEF About, Answers, Still, Alike, Owes, Done, Acked, Lent, Enrolled
  <2>6. Withdrawal(x, d, o, r)
    BY <2>1, <2>2 DEF About, Withdrawal, Still, AsRecord, Withdraws, Withdrawn, Closes, Retires, Lent
  <2> QED BY <2>2, <2>3, <2>4, <2>5, <2>6 DEF About
<1>2. Inbox(x)
  BY DEF Sound, Inbox, Still
<1>3. Route(x, d, o)
  BY DEF Sound, Route, Still, Left
<1>4. Calm(x, q)
  BY DEF Sound, Calm, Still
<1>5. Ended(x, d)
  BY DEF Sound, Ended, Still
<1>6. Books(x, 0)
  <2>1. \A r \in Requests : (Owes(x.op[r]) <=> Owes(g.op[r])) /\ (Unsettled(x.rec[r]) <=> Unsettled(g.rec[r]))
    BY DEF Alike, AsRecord, Owes, Unsettled
  <2>2. Owing(x) = Owing(g) /\ Unpaid(x) = Unpaid(g)
    BY <2>1 DEF Owing, Unpaid
  <2> QED BY <2>2 DEF Sound, Books, Debts, Still
<1> QED BY <1>1, <1>2, <1>3, <1>4, <1>5, <1>6 DEF Sound

(* --------------------------- provider stops ----------------------------- *)

\* The loops of StopProvider, each under a name.
ClosedAll(g) == LET after[r \in 0..N] == IF r = 0 THEN g ELSE CloseBorrow(after[r - 1], r) IN after[N]

FailOne(g, r, quiescent) ==
    IF g.op[r].live /\ ~(g.op[r].completed /\ g.op[r].delivered)
       /\ (quiescent \/ ~(g.op[r].delivered \/ g.op[r].offered))
    THEN FailOperation(g, r) ELSE g

FailedAll(g, quiescent) ==
    LET after[r \in 0..N] == IF r = 0 THEN g ELSE FailOne(after[r - 1], r, quiescent) IN after[N]

LEMMA ClosedAllSound ==
  ASSUME NEW g, NEW q, NEW d, NEW o, Sound(g, q, d, o, {}, 0)
  PROVE  Sound(ClosedAll(g), q, d, o, {}, 0)
<1> DEFINE G == [i \in 0..N |-> {x \in HostState : Sound(x, q, d, o, {}, 0)}]
           Upto(e) == e = [i \in 0..N |-> IF i = 0 THEN g ELSE CloseBorrow(e[i - 1], i)]
           f == CHOOSE e : Upto(e)
<1>1. N \in Nat /\ 1..N = Requests
  BY ServiceAssumption DEF Requests
<1>2. \A i \in 0..N : G[i] = {x \in HostState : Sound(x, q, d, o, {}, 0)}
  OBVIOUS
<1> HIDE DEF G
<1>3. g \in G[0]
  BY <1>1, <1>2 DEF Sound
<1>4. ASSUME NEW i \in 1..N, NEW x \in G[i - 1] PROVE CloseBorrow(x, i) \in G[i]
  <2>1. i - 1 \in 0..N /\ i \in 0..N  /\ i \in Requests
    BY <1>1
  <2>2. x \in {z \in HostState : Sound(z, q, d, o, {}, 0)}
    BY <1>2, <2>1
  <2>3. Sound(CloseBorrow(x, i), q, d, o, {}, 0)
    BY <2>1, <2>2, CloseSound
  <2>4. CloseBorrow(x, i) \in HostState
    BY <2>3 DEF Sound
  <2> QED BY <1>2, <2>1, <2>3, <2>4
<1>5. \E e : Upto(e)
  <2> DEFINE step == [i \in 1..N |-> [x \in G[i - 1] |-> CloseBorrow(x, i)]]
  <2>1. \A i \in 1..N : \A x \in G[i - 1] : step[i][x] = CloseBorrow(x, i)
    OBVIOUS
  <2>2. \A i \in 1..N : \A x \in G[i - 1] : step[i][x] \in G[i]
    BY <1>4, <2>1
  <2> HIDE DEF step
  <2>3. PICK e : Stepped(e, N, g, step) /\ \A i \in 0..N : e[i] \in G[i]
    BY <1>1, <1>3, <2>2, Run
  <2>4. ASSUME NEW i \in 0..N, i # 0 PROVE step[i][e[i - 1]] = CloseBorrow(e[i - 1], i)
    <3>1. i \in 1..N /\ e[i - 1] \in G[i - 1]
      BY <1>1, <2>3, <2>4
    <3> QED BY <2>1, <3>1
  <2>5. Upto(e)
    BY <2>3, <2>4 DEF Stepped
  <2> QED BY <2>5
<1>6. Upto(f)
  <2> HIDE DEF Upto
  <2> QED BY <1>5
<1>7. ClosedAll(g) = f[N]
  BY DEF ClosedAll
<1> HIDE DEF f
<1>8. f[0] = g /\ \A i \in 1..N : f[i] = CloseBorrow(f[i - 1], i)
  <2>1. 0 \in 0..N /\ \A i \in 1..N : i \in 0..N /\ i # 0
    BY <1>1
  <2>2. \A i \in 0..N : f[i] = IF i = 0 THEN g ELSE CloseBorrow(f[i - 1], i)
    BY <1>6
  <2> QED BY <2>1, <2>2
<1>9. \A i \in 1..N : f[i - 1] \in G[i - 1] => f[i] \in G[i]
  BY <1>4, <1>8
<1>10. f[N] \in G[N]
  BY <1>1, <1>3, <1>8, <1>9, Carried
<1>11. f[N] \in {x \in HostState : Sound(x, q, d, o, {}, 0)}
  BY <1>1, <1>2, <1>10
<1> QED BY <1>7, <1>11

LEMMA FailOneSound ==
  ASSUME NEW g, NEW q, NEW d, NEW o, NEW r \in Requests, NEW quiescent, Sound(g, q, d, o, {}, 0),
         quiescent => q.completion[r] = "free"
  PROVE  Sound(FailOne(g, r, quiescent), q, d, o, {}, 0)
<1>1. ~g.op[r].delivered => q.completion[r] = "free"
  BY DEF Sound, About, Loan
<1> QED BY <1>1, FailSound DEF FailOne

LEMMA FailedAllSound ==
  ASSUME NEW g, NEW q, NEW d, NEW o, Sound(g, q, d, o, {}, 0),
         NEW quiescent, quiescent => \A r \in Requests : q.completion[r] = "free"
  PROVE  Sound(FailedAll(g, quiescent), q, d, o, {}, 0)
<1> DEFINE G == [i \in 0..N |-> {x \in HostState : Sound(x, q, d, o, {}, 0)}]
           Upto(e) == e = [i \in 0..N |-> IF i = 0 THEN g ELSE FailOne(e[i - 1], i, quiescent)]
           f == CHOOSE e : Upto(e)
<1>1. N \in Nat /\ 1..N = Requests
  BY ServiceAssumption DEF Requests
<1>2. \A i \in 0..N : G[i] = {x \in HostState : Sound(x, q, d, o, {}, 0)}
  OBVIOUS
<1> HIDE DEF G
<1>3. g \in G[0]
  BY <1>1, <1>2 DEF Sound
<1>4. ASSUME NEW i \in 1..N, NEW x \in G[i - 1] PROVE FailOne(x, i, quiescent) \in G[i]
  <2>1. i - 1 \in 0..N /\ i \in 0..N  /\ i \in Requests
    BY <1>1
  <2>2. x \in {z \in HostState : Sound(z, q, d, o, {}, 0)}
    BY <1>2, <2>1
  <2>3. Sound(FailOne(x, i, quiescent), q, d, o, {}, 0)
    BY <2>1, <2>2, FailOneSound
  <2>4. FailOne(x, i, quiescent) \in HostState
    BY <2>3 DEF Sound
  <2> QED BY <1>2, <2>1, <2>3, <2>4
<1>5. \E e : Upto(e)
  <2> DEFINE step == [i \in 1..N |-> [x \in G[i - 1] |-> FailOne(x, i, quiescent)]]
  <2>1. \A i \in 1..N : \A x \in G[i - 1] : step[i][x] = FailOne(x, i, quiescent)
    OBVIOUS
  <2>2. \A i \in 1..N : \A x \in G[i - 1] : step[i][x] \in G[i]
    BY <1>4, <2>1
  <2> HIDE DEF step
  <2>3. PICK e : Stepped(e, N, g, step) /\ \A i \in 0..N : e[i] \in G[i]
    BY <1>1, <1>3, <2>2, Run
  <2>4. ASSUME NEW i \in 0..N, i # 0 PROVE step[i][e[i - 1]] = FailOne(e[i - 1], i, quiescent)
    <3>1. i \in 1..N /\ e[i - 1] \in G[i - 1]
      BY <1>1, <2>3, <2>4
    <3> QED BY <2>1, <3>1
  <2>5. Upto(e)
    BY <2>3, <2>4 DEF Stepped
  <2> QED BY <2>5
<1>6. Upto(f)
  <2> HIDE DEF Upto
  <2> QED BY <1>5
<1>7. FailedAll(g, quiescent) = f[N]
  BY DEF FailedAll
<1> HIDE DEF f
<1>8. f[0] = g /\ \A i \in 1..N : f[i] = FailOne(f[i - 1], i, quiescent)
  <2>1. 0 \in 0..N /\ \A i \in 1..N : i \in 0..N /\ i # 0
    BY <1>1
  <2>2. \A i \in 0..N : f[i] = IF i = 0 THEN g ELSE FailOne(f[i - 1], i, quiescent)
    BY <1>6
  <2> QED BY <2>1, <2>2
<1>9. \A i \in 1..N : f[i - 1] \in G[i - 1] => f[i] \in G[i]
  BY <1>4, <1>8
<1>10. f[N] \in G[N]
  BY <1>1, <1>3, <1>8, <1>9, Carried
<1>11. f[N] \in {x \in HostState : Sound(x, q, d, o, {}, 0)}
  BY <1>1, <1>2, <1>10
<1> QED BY <1>7, <1>11

LEMMA StopProviderSound ==
  ASSUME NEW g, NEW q, NEW d, NEW o, Sound(g, q, d, o, {}, 0), NEW quiescent \in BOOLEAN,
         quiescent => \A r \in Requests : q.completion[r] = "free" /\ ~q.use[r].live
  PROVE  Sound(StopProvider(g, quiescent), q, d, o, {}, 0)
<1> DEFINE closed == ClosedAll(g)
           failed == FailedAll(closed, quiescent)
           x == StopProvider(g, quiescent)
<1>1. x = [failed EXCEPT !.route = IF @ = "none" THEN @ ELSE "closing",
                         !.failed = @ \/ (quiescent /\ ~BorrowsRetired(closed))]
  BY DEF StopProvider, ForEachRequest, ClosedAll, FailedAll, FailOne
<1>2. Sound(closed, q, d, o, {}, 0)
  BY ClosedAllSound
<1> HIDE DEF closed
<1>3. quiescent => BorrowsRetired(closed)
  BY <1>2 DEF Sound, About, Loan, BorrowsRetired
<1>4. Sound(failed, q, d, o, {}, 0)
  BY <1>2, FailedAllSound
<1> HIDE DEF failed, x
<1>5. failed \in HostState
  BY <1>4 DEF Sound, Calm
<1>6. x = [failed EXCEPT !.route = IF @ = "none" THEN @ ELSE "closing", !.failed = @]
  <2>1. failed.failed \in BOOLEAN
    BY <1>5 DEF HostState
  <2>2. (failed.failed \/ (quiescent /\ ~BorrowsRetired(closed))) = failed.failed
    BY <1>3, <2>1
  <2> QED BY <1>1, <2>2
<1>7. x \in HostState /\ SameTables(failed, x) /\ (x.route = "none" => failed.route = "none") /\ x.provider_stop = failed.provider_stop
  BY <1>5, <1>6 DEF HostState, SameTables, Routes
<1>8. Sound(x, q, d, o, {}, 0)
  BY <1>4, <1>5, <1>7, FlagsSound
<1> QED BY <1>8 DEF x

\* A pump call that works on no batch.
Settled(s, d, o) == s \in Pair /\ Sound(s.h, s.p, d, o, {}, 0)

LEMMA SettledIs ==
  ASSUME NEW s, NEW d, NEW o
  PROVE  Settled(s, d, o) <=> Sustained(s, d, o, {}, {})
BY DEF Settled, Sustained, InBatch

LEMMA BeginStopSound ==
  ASSUME NEW s, NEW d, NEW o, Settled(s, d, o), s.p.begun
  PROVE  Settled(BeginStop(s), d, o)
<1> DEFINE t == [s EXCEPT !.p.stopping = TRUE]
           a == CloseWindow(t)
           b == ProgressUses(a)
           e == FlushCompletions(b)
<1>1. BeginStop(s) = ProgressWindow(e)
  BY DEF BeginStop
<1>2. Sustained(s, d, o, {}, {}) /\ s \in Pair
  BY SettledIs DEF Settled
<1>3. /\ t \in Pair /\ t.h = s.h /\ t.p.use = s.p.use /\ t.p.completion = s.p.completion
      /\ t.p.window = s.p.window /\ Healthy(t.p)
  <2>1. Healthy(s.p) /\ s.p \in ProviderState
    BY <1>2, UnhurtFlags
  <2> QED BY <1>2, <2>1 DEF Pair, ProviderState, Healthy
<1> HIDE DEF t
<1>4. Sustained(t, d, o, {}, {})
  BY <1>2, <1>3, StoppingSound
<1>5. Sustained(a, d, o, {}, {})
  BY <1>4, CloseWindowSound
<1> HIDE DEF a
<1>6. Sustained(b, d, o, {}, {})
  BY <1>5, ProgressUsesSound
<1> HIDE DEF b
<1>7. Sustained(e, d, o, {}, {})
  BY <1>6, FlushSound
<1> HIDE DEF e
<1>8. Sustained(ProgressWindow(e), d, o, {}, {})
  BY <1>7, ProgressWindowSound
<1> QED BY <1>1, <1>8, SettledIs

LEMMA ObserveSound ==
  ASSUME NEW s, NEW d, NEW o, Settled(s, d, o)
  PROVE  Settled(Observe(s), d, o)
<1> DEFINE g == [s.h EXCEPT !.phase = "stopped"]
           x == StopProvider(g, TRUE)
           t == [s EXCEPT !.h = x, !.p.failed = @ \/ ~s.p.begun]
           e == [s.h EXCEPT !.phase = "stopping", !.provider_stop = TRUE]
           u == [s EXCEPT !.h = e]
<1>1. /\ s \in Pair /\ s.h \in HostState /\ s.p \in ProviderState /\ Sound(s.h, s.p, d, o, {}, 0)
      /\ Healthy(s.p)
  BY DEF Settled, Pair, Sound, Calm
<1>2. Observe(s) = IF Stopped(s) THEN t ELSE IF s.p.stopping THEN u ELSE s
  BY DEF Observe
<1>3. g \in HostState /\ SameTables(s.h, g) /\ g.route = s.h.route /\ g.provider_stop = s.h.provider_stop
  BY <1>1 DEF HostState, SameTables
<1>4. e \in HostState /\ SameTables(s.h, e) /\ e.route = s.h.route
  BY <1>1 DEF HostState, SameTables
<1> HIDE DEF g, e
<1>5. CASE Stopped(s)
  <2>1. Sound(g, s.p, d, o, {}, 0)
    BY <1>1, <1>3, FlagsSound
  <2>2. \A r \in Requests : s.p.completion[r] = "free" /\ ~s.p.use[r].live
    BY <1>5 DEF Stopped
  <2>3. Sound(x, s.p, d, o, {}, 0)
    BY <2>1, <2>2, StopProviderSound
  <2> HIDE DEF x
  <2>4. x \in HostState
    BY <2>3 DEF Sound
  <2>5. /\ t \in Pair /\ t.h = x /\ t.p \in ProviderState /\ t.p.use = s.p.use /\ t.p.completion = s.p.completion
        /\ t.p.window = s.p.window /\ t.p.stopping = s.p.stopping
        /\ t.p.begun = s.p.begun /\ t.p.broken = s.p.broken /\ (t.p.failed <=> s.p.failed \/ ~s.p.begun)
    BY <1>1, <2>4 DEF Pair, ProviderState
  <2>6. Healthy(t.p)
    BY <1>1, <1>5, <2>5 DEF Stopped, Healthy
  <2> HIDE DEF t
  <2>7. \A r \in Requests : ~t.p.use[r].live /\ ~s.p.use[r].live
    BY <2>2, <2>5
  <2>8. Sound(x, t.p, d, o, {}, 0)
    BY <2>3, <2>5, <2>6, <2>7, ProviderSound
  <2> QED BY <1>2, <1>5, <2>5, <2>8 DEF Settled
<1>6. CASE s.p.stopping
  <2>1. Sound(e, s.p, d, o, {}, 0)
    BY <1>1, <1>4, <1>6, FlagsSound
  <2>2. u \in Pair /\ u.h = e /\ u.p = s.p
    BY <1>1, <1>4 DEF Pair
  <2> HIDE DEF u
  <2>3. Settled(u, d, o)
    BY <2>1, <2>2 DEF Settled
  <2> QED BY <1>2, <1>5, <1>6, <2>3
<1> QED BY <1>2, <1>5, <1>6

LEMMA OfferSound ==
  ASSUME NEW g, NEW q, NEW d, NEW o, NEW B, Sound(g, q, d, o, {}, 0), B \subseteq Requests,
         \A r \in B : g.op[r].live /\ ~g.op[r].delivered
  PROVE  LET x == Offer(g, B) IN
         /\ Sound(x, q, d, o, {}, 0) /\ InBatch(x, B) /\ x.provider_inbox = g.provider_inbox
<1> DEFINE NewOp(r) == [g.op[r] EXCEPT !.offered = @ \/ r \in B]
           op == [r \in Requests |-> NewOp(r)]
           x == [g EXCEPT !.op = op]
<1>1. g \in HostState
  BY DEF Sound
<1>2. Offer(g, B) = x
  BY DEF Offer
<1>3. op \in [Requests -> Operation] /\ \A r \in Requests : op[r] = NewOp(r)
  <2>1. ASSUME NEW r \in Requests PROVE NewOp(r) \in Operation
    <3>1. g.op[r] \in Operation
      BY <1>1, Entries
    <3> QED BY <3>1 DEF Operation
  <2> HIDE DEF NewOp
  <2> QED BY <2>1
<1> HIDE DEF NewOp, op
<1>4. x \in HostState /\ Rest(g, x) /\ x.rec = g.rec /\ x.reserved = g.reserved /\ x.op = op
  BY <1>1, <1>3 DEF HostState, Rest, Still
<1> HIDE DEF x
<1>5. x \in HostState
  BY <1>4
<1>6. ASSUME NEW r \in Requests
      PROVE  /\ Alike(g.op[r], x.op[r]) /\ x.op[r].delivered = g.op[r].delivered
             /\ r \in B => x.op[r].offered
  <2>1. g.op[r] \in Operation /\ x.op[r] = NewOp(r)
    BY <1>1, <1>3, <1>4, Entries
  <2>2. /\ Alike(g.op[r], NewOp(r)) /\ NewOp(r).delivered = g.op[r].delivered
        /\ r \in B => NewOp(r).offered
    BY <2>1 DEF Operation, Alike, NewOp
  <2> QED BY <2>1, <2>2
<1>7. ASSUME NEW r \in Requests PROVE Loan(x, q, {}, r)
  <2>1. Loan(g, q, {}, r)
    BY DEF Sound, About
  <2> QED BY <1>4, <1>6, <2>1 DEF Loan, Rest, Still, Alike, Spent, Unsettled, Owes
<1>8. \A r \in Requests : AsRecord(g.rec[r], x.rec[r])
  BY <1>4 DEF AsRecord
<1>9. Sound(x, q, d, o, {}, 0)
  BY <1>4, <1>5, <1>6, <1>7, <1>8, TablesSound DEF Rest
<1>10. InBatch(x, B)
  BY <1>6 DEF InBatch, Alike
<1> QED BY <1>2, <1>4, <1>9, <1>10 DEF Rest

LEMMA FinishBatchSound ==
  ASSUME NEW g, NEW q, NEW d, NEW o, NEW B, NEW consumed \in SUBSET B,
         Sound(g, q, d, o, consumed, 0), InBatch(g, B)
  PROVE  Sound([FinishBatch(g, B, consumed) EXCEPT !.provider_inbox = <<>>], q, d, o, {}, 0)
<1> DEFINE x == [FinishBatch(g, B, consumed) EXCEPT !.provider_inbox = <<>>]
           NewOp(r) == [g.op[r] EXCEPT !.offered = FALSE, !.delivered = @ \/ r \in consumed]
           NewRec(r) == IF r \in consumed /\ g.op[r].borrow /\ g.rec[r].live
                        THEN [g.rec[r] EXCEPT !.dispatched = TRUE] ELSE g.rec[r]
           op == [r \in Requests |-> NewOp(r)]
           rec == [r \in Requests |-> NewRec(r)]
           failed == g.failed \/ \E r \in B \ consumed : g.op[r].completed \/ g.op[r].borrow
<1>1. g \in HostState /\ B \subseteq Requests
  BY DEF Sound, InBatch
<1>2. FinishBatch(g, B, consumed) = [g EXCEPT !.op = op, !.rec = rec, !.failed = failed]
  BY DEF FinishBatch
<1>3. ~failed
  <2>1. ASSUME NEW r \in B \ consumed PROVE ~g.op[r].completed /\ ~g.op[r].borrow
    BY <1>1 DEF Sound, About, Loan, InBatch
  <2> QED BY <2>1 DEF Sound, Calm
<1>4. ASSUME NEW r \in Requests
      PROVE  /\ NewOp(r) \in Operation /\ NewRec(r) \in Record
             /\ Alike(g.op[r], NewOp(r)) /\ AsRecord(g.rec[r], NewRec(r))
             /\ (NewOp(r).delivered <=> g.op[r].delivered \/ r \in consumed)
  <2>1. g.op[r] \in Operation /\ g.rec[r] \in Record
    BY <1>1, Entries
  <2>2. NewOp(r) \in Operation /\ Alike(g.op[r], NewOp(r)) /\ (NewOp(r).delivered <=> g.op[r].delivered \/ r \in consumed)
    BY <2>1 DEF Operation, Alike
  <2>3. NewRec(r) \in Record /\ AsRecord(g.rec[r], NewRec(r))
    <3> DEFINE b == [g.rec[r] EXCEPT !.dispatched = TRUE]
    <3>1. b \in Record /\ AsRecord(g.rec[r], b) /\ AsRecord(g.rec[r], g.rec[r])
      BY <2>1 DEF Record, AsRecord
    <3>2. NewRec(r) \in {b, g.rec[r]}
      OBVIOUS
    <3> HIDE DEF b, NewRec
    <3> QED BY <2>1, <3>1, <3>2
  <2> QED BY <2>2, <2>3
<1>5. op \in [Requests -> Operation] /\ rec \in [Requests -> Record]
  <2> HIDE DEF NewOp, NewRec
  <2> QED BY <1>4
<1>6. \A r \in Requests : op[r] = NewOp(r) /\ rec[r] = NewRec(r)
  OBVIOUS
<1> HIDE DEF NewOp, NewRec, op, rec, failed
<1> DEFINE y == [g EXCEPT !.op = op, !.rec = rec, !.failed = failed]
<1>7. /\ y \in HostState /\ y.op = op /\ y.rec = rec /\ y.reserved = g.reserved
      /\ y.threaded = g.threaded /\ y.terminal = g.terminal /\ y.last = g.last /\ y.route = g.route
      /\ y.reply = g.reply /\ y.control = g.control /\ y.provider_stop = g.provider_stop /\ y.failed = g.failed
  <2>1. g.failed \in BOOLEAN /\ failed \in BOOLEAN /\ ~g.failed
    BY <1>1 DEF HostState, failed, Sound, Calm
  <2>2. g.failed = failed
    BY <1>3, <2>1
  <2> QED BY <1>1, <1>5, <2>1, <2>2 DEF HostState
<1>12. x = [y EXCEPT !.provider_inbox = <<>>]
  BY <1>2
<1> HIDE DEF x, y
<1>13. x \in HostState /\ x.op = op /\ x.rec = rec /\ x.reserved = g.reserved
  <2>1. <<>> \in Seq(Notice)
    OBVIOUS
  <2> QED BY <1>7, <1>12, <2>1 DEF HostState
<1>8. Still(g, x)
  BY <1>7, <1>12 DEF HostState, Still
<1>9. ASSUME NEW r \in Requests
      PROVE  Alike(g.op[r], x.op[r]) /\ AsRecord(g.rec[r], x.rec[r]) /\ (x.op[r].delivered <=> g.op[r].delivered \/ r \in consumed)
  BY <1>4, <1>6, <1>13
<1>10. ASSUME NEW r \in Requests PROVE Loan(x, q, {}, r)
  <2>1. Loan(g, q, consumed, r)
    BY DEF Sound, About
  <2>2. Alike(g.op[r], x.op[r]) /\ AsRecord(g.rec[r], x.rec[r]) /\ (x.op[r].delivered <=> g.op[r].delivered \/ r \in consumed)
    BY <1>9
  <2> QED BY <1>8, <2>1, <2>2 DEF Loan, Still, Alike, AsRecord, Spent, Unsettled, Owes
<1>11. Sound(x, q, d, o, {}, 0)
  BY <1>8, <1>9, <1>10, <1>13, TablesSound
<1> QED BY <1>11 DEF x

LEMMA BegunSound ==
  ASSUME NEW g, NEW q, NEW d, NEW o, Sound(g, q, d, o, {}, 0), g.provider_stop
  PROVE  Settled(Observe(BeginStop([h |-> StopProvider(g, FALSE), p |-> [q EXCEPT !.begun = TRUE]])), d, o)
<1> DEFINE x == StopProvider(g, FALSE)
           y == [q EXCEPT !.begun = TRUE]
           s == [h |-> x, p |-> y]
<1>1. q \in ProviderState /\ Healthy(q) /\ \A r \in Requests : q.use[r].live => q.window # 0
  BY DEF Sound, Calm, About, Loan
<1>2. Sound(x, q, d, o, {}, 0)
  BY StopProviderSound
<1> HIDE DEF x
<1>3. /\ y \in ProviderState /\ y.use = q.use /\ y.completion = q.completion /\ y.window = q.window
      /\ y.begun /\ Healthy(y)
  BY <1>1 DEF ProviderState, Healthy
<1> HIDE DEF y
<1>4. Sound(x, y, d, o, {}, 0)
  BY <1>1, <1>2, <1>3, ProviderSound
<1>5. Settled(s, d, o) /\ s.p.begun
  BY <1>3, <1>4 DEF Settled, Pair, Sound
<1> HIDE DEF s
<1>6. Settled(Observe(BeginStop(s)), d, o)
  BY <1>5, BeginStopSound, ObserveSound
<1> QED BY <1>6 DEF s, x, y

\* A pump call over the batch that was prepared for it.
Called(s1, batch, consumed, created, fails) ==
    LET s2 == PumpBody([s1 EXCEPT !.h = Offer(s1.h, batch)], s1.h.provider_inbox, consumed, created, fails)
    IN  Observe([s2 EXCEPT !.h = [FinishBatch(s2.h, batch, consumed) EXCEPT !.provider_inbox = <<>>],
                           !.p.skipped = (consumed = {} /\ batch # {})])

LEMMA CalledSound ==
  ASSUME NEW s, NEW d, NEW o, NEW B, NEW consumed \in SUBSET B, NEW created,
         NEW fails \in {"no", "first", "last"}, Settled(s, d, o),
         B \subseteq Requests, \A r \in B : s.h.op[r].live /\ ~s.h.op[r].delivered
  PROVE  Settled(Called(s, B, consumed, created, fails), d, o)
<1> DEFINE x == Offer(s.h, B)
           t == [s EXCEPT !.h = x]
           messages == s.h.provider_inbox
           s2 == PumpBody(t, messages, consumed, created, fails)
           y == [FinishBatch(s2.h, B, consumed) EXCEPT !.provider_inbox = <<>>]
           s3 == [s2 EXCEPT !.h = y, !.p.skipped = (consumed = {} /\ B # {})]
<1>1. Called(s, B, consumed, created, fails) = Observe(s3)
  BY DEF Called
<1>2. s \in Pair /\ Sound(s.h, s.p, d, o, {}, 0) /\ messages \in Seq(Notice)
  BY DEF Settled, Pair, HostState
<1>3. Sound(x, s.p, d, o, {}, 0) /\ InBatch(x, B)
  BY <1>2, OfferSound
<1> HIDE DEF x
<1>4. t \in Pair /\ t.h = x /\ t.p = s.p
  BY <1>2, <1>3 DEF Pair, Sound
<1> HIDE DEF t
<1>5. Sustained(t, d, o, {}, B)
  BY <1>3, <1>4 DEF Sustained
<1>6. Sustained(s2, d, o, consumed, B)
  BY <1>2, <1>5, PumpBodySound
<1> HIDE DEF s2, messages
<1>7. Sound(y, s2.p, d, o, {}, 0) /\ s2 \in Pair
  BY <1>6, FinishBatchSound DEF Sustained
<1> HIDE DEF y
<1>8. y \in HostState /\ s2.p \in ProviderState
  BY <1>7 DEF Sound
<1>9. /\ s3 \in Pair /\ s3.h = y /\ s3.p \in ProviderState /\ s3.p.use = s2.p.use /\ s3.p.completion = s2.p.completion
      /\ s3.p.window = s2.p.window /\ s3.p.stopping = s2.p.stopping /\ s3.p.failed = s2.p.failed
      /\ s3.p.begun = s2.p.begun /\ s3.p.broken = s2.p.broken
  <2> DEFINE z == [s2 EXCEPT !.h = y]
             skipped == consumed = {} /\ B # {}
  <2>1. z \in Pair /\ z.h = y /\ z.p = s2.p
    BY <1>7, <1>8 DEF Pair
  <2>2. s3 = [z EXCEPT !.p.skipped = skipped] /\ skipped \in BOOLEAN
    OBVIOUS
  <2> HIDE DEF z, skipped, s3
  <2> QED BY <1>8, <2>1, <2>2 DEF Pair, ProviderState
<1> HIDE DEF s3
<1>10. \A r \in Requests : s2.p.use[r].live => s2.p.window # 0
  BY <1>7 DEF Sound, About, Loan
<1>11. Healthy(s3.p)
  BY <1>7, <1>9 DEF Sound, Calm, Healthy
<1>12. Sound(y, s3.p, d, o, {}, 0)
  BY <1>7, <1>9, <1>10, <1>11, ProviderSound
<1>13. Settled(s3, d, o)
  BY <1>9, <1>12 DEF Settled
<1> QED BY <1>1, <1>13, ObserveSound

LEMMA Numbers == Disturbances \in Nat /\ N \in Nat \ {0} /\ ControlCapacity \in Nat /\ ReplyCapacity \in Nat
BY ServiceAssumption

LEMMA DisturbCounts ==
  ASSUME disturbed \in 0..Disturbances, Disturb \/ UNCHANGED disturbed
  PROVE  disturbed' \in 0..Disturbances
BY Numbers DEF Disturb

LEMMA PumpKeeps ==
  ASSUME IInv, Pump
  PROVE  IInv'
<1> DEFINE s0 == [h |-> h, p |-> p]
           begun == Observe(BeginStop([h |-> StopProvider(h, FALSE), p |-> [p EXCEPT !.begun = TRUE]]))
           s1 == IF ~h.provider_stop \/ p.begun THEN s0 ELSE begun
           batch == IF s1.h.provider_stop \/ s1.h.phase # "ready" THEN {} ELSE Batch(s1.h)
<1>1. Sound(h, p, c, out, {}, 0) /\ disturbed \in 0..Disturbances /\ ~c.refused
  BY DEF IInv
<1>2. Settled(s0, c, out)
  BY <1>1 DEF Settled, Pair, Sound
<1>3. h.provider_stop => Settled(begun, c, out)
  BY <1>1, BegunSound
<1>4. Settled(s1, c, out)
  BY <1>2, <1>3
<1>5. /\ UNCHANGED <<c, out, drain>> /\ turn' = "service" /\ (Disturb \/ UNCHANGED disturbed)
      /\ \/ h' = s0.h /\ p' = s0.p
         \/ h' = s1.h /\ p' = s1.p
         \/ \E consumed \in Consumable(s1, batch), created \in BOOLEAN, fails \in {"no", "first", "last"} :
                /\ h' = Called(s1, batch, consumed, created, fails).h
                /\ p' = Called(s1, batch, consumed, created, fails).p
  <2>1. UNCHANGED <<c, out, drain>> /\ turn' = "service"
    BY DEF Pump
  <2>2. /\ turn = "pump" /\ turn' = "service"
        /\ IF h.phase = "stopped" THEN (h' = s0.h /\ p' = s0.p) /\ UNCHANGED disturbed
           ELSE IF s1.h.phase = "stopped" THEN (h' = s1.h /\ p' = s1.p) /\ UNCHANGED disturbed
           ELSE \E consumed \in Consumable(s1, batch), created \in BOOLEAN, fails \in {"no", "first", "last"} :
                    /\ created \/ \E r \in consumed : s1.h.op[r].kind = "create"
                    /\ fails # "no" => p.window # 0
                    /\ IF created /\ fails = "no" THEN UNCHANGED disturbed ELSE Disturb
                    /\ h' = Called(s1, batch, consumed, created, fails).h
                       /\ p' = Called(s1, batch, consumed, created, fails).p
        /\ UNCHANGED <<c, out, drain>>
    BY Zenon DEF Pump, Called
  <2> HIDE DEF s0, s1, batch
  <2> QED BY <2>1, <2>2
<1>6. batch \subseteq Requests /\ \A r \in batch : s1.h.op[r].live /\ ~s1.h.op[r].delivered
  BY DEF Batch
<1>7. \A consumed \in Consumable(s1, batch) : consumed \in SUBSET batch
  BY DEF Consumable, Prefixes
<1> HIDE DEF s0, s1, batch, begun
<1>8. disturbed' \in 0..Disturbances
  BY <1>1, <1>5, DisturbCounts
<1>9. Sound(s0.h, s0.p, c, out, {}, 0) /\ Sound(s1.h, s1.p, c, out, {}, 0)
  BY <1>2, <1>4 DEF Settled
<1>10. Sound(h', p', c, out, {}, 0)
  <2>1. CASE \E consumed \in Consumable(s1, batch), created \in BOOLEAN, fails \in {"no", "first", "last"} :
                /\ h' = Called(s1, batch, consumed, created, fails).h
                /\ p' = Called(s1, batch, consumed, created, fails).p
    <3>1. PICK consumed \in Consumable(s1, batch), created \in BOOLEAN, fails \in {"no", "first", "last"} :
                /\ h' = Called(s1, batch, consumed, created, fails).h
                /\ p' = Called(s1, batch, consumed, created, fails).p
      BY <2>1
    <3>2. Settled(Called(s1, batch, consumed, created, fails), c, out)
      BY <1>4, <1>6, <1>7, <3>1, CalledSound
    <3> QED BY <3>1, <3>2 DEF Settled
  <2> QED BY <1>5, <1>9, <2>1
<1> QED BY <1>1, <1>5, <1>8, <1>10 DEF IInv

(* ---------------- what the Host decides outside a pump ------------------ *)

LEMMA ExpireKeeps ==
  ASSUME IInv, NEW r \in Requests, Expire(r)
  PROVE  IInv'
<1> DEFINE u == [p.use[r] EXCEPT !.expired = TRUE]
           y == [p EXCEPT !.use[r].expired = TRUE]
<1>1. Sound(h, p, c, out, {}, 0) /\ disturbed \in 0..Disturbances /\ ~c.refused /\ p \in ProviderState
  BY DEF IInv, Sound
<1>2. Disturb /\ p' = y /\ UNCHANGED <<h, c, out, drain, turn>>
  BY DEF Expire
<1>3. disturbed' \in 0..Disturbances
  BY <1>1, <1>2, DisturbCounts
<1>4. Sound(h, p, c, out, {}, 0)
  BY <1>1
<1>5. p.use[r] \in Use
  BY <1>1 DEF ProviderState
<1>6. u \in Use /\ u.live = p.use[r].live /\ u.borrow = p.use[r].borrow
  BY <1>5 DEF Use
<1>7. y = WithUse(p, r, u)
  BY <1>1 DEF WithUse, ProviderState
<1> HIDE DEF u, y
<1>8. /\ y \in ProviderState /\ SameFlags(p, y) /\ y.completion = p.completion
      /\ y.use[r] = u /\ \A i \in Requests : i # r => y.use[i] = p.use[i]
  BY <1>1, <1>6, <1>7, NewUse
<1>9. \A i \in Requests : y.use[i].live = p.use[i].live /\ y.use[i].borrow = p.use[i].borrow
  BY <1>6, <1>8
<1>10. \A i \in Requests : p.use[i].live => p.window # 0
  BY <1>1 DEF Sound, About, Loan
<1>12. Healthy(y)
  BY <1>1, <1>8 DEF Sound, Calm, Healthy, SameFlags
<1>11. Sound(h, y, c, out, {}, 0)
  BY <1>4, <1>8, <1>9, <1>10, <1>12, ProviderSound DEF SameFlags
<1> QED BY <1>1, <1>2, <1>3, <1>11 DEF IInv

LEMMA RequestStopKeeps ==
  ASSUME IInv, RequestStop
  PROVE  IInv'
<1> DEFINE x == [h EXCEPT !.provider_stop = TRUE, !.phase = "stopping"]
<1>1. Sound(h, p, c, out, {}, 0) /\ disturbed \in 0..Disturbances /\ ~c.refused /\ h \in HostState
  BY DEF IInv, Sound
<1>2. Disturb /\ h' = StopProvider(x, FALSE) /\ UNCHANGED <<p, c, out, drain, turn>>
  BY DEF RequestStop
<1>3. disturbed' \in 0..Disturbances
  BY <1>1, <1>2, DisturbCounts
<1>4. Sound(h, p, c, out, {}, 0)
  BY <1>1
<1>5. x \in HostState /\ SameTables(h, x) /\ x.route = h.route
  BY <1>1 DEF HostState, SameTables
<1> HIDE DEF x
<1>6. Sound(x, p, c, out, {}, 0)
  BY <1>4, <1>5, FlagsSound
<1>7. Sound(StopProvider(x, FALSE), p, c, out, {}, 0)
  BY <1>6, StopProviderSound
<1> QED BY <1>1, <1>2, <1>3, <1>7 DEF IInv

LEMMA StopClientKeeps ==
  ASSUME IInv, StopClient
  PROVE  IInv'
<1> DEFINE x == [h EXCEPT !.stop = TRUE]
<1>1. Sound(h, p, c, out, {}, 0) /\ disturbed \in 0..Disturbances /\ ~c.refused /\ h \in HostState
  BY DEF IInv, Sound
<1>2. Disturb /\ h' = x /\ UNCHANGED <<p, c, out, drain, turn>>
  BY DEF StopClient
<1>3. disturbed' \in 0..Disturbances
  BY <1>1, <1>2, DisturbCounts
<1>4. Sound(h, p, c, out, {}, 0)
  BY <1>1
<1>5. x \in HostState /\ SameTables(h, x) /\ x.route = h.route /\ x.provider_stop = h.provider_stop
  BY <1>1 DEF HostState, SameTables
<1> HIDE DEF x
<1>6. Sound(x, p, c, out, {}, 0)
  BY <1>4, <1>5, FlagsSound
<1> QED BY <1>1, <1>2, <1>3, <1>6 DEF IInv

(* --------------------------- the lanes ---------------------------------- *)

LEMMA AppendedAt ==
  ASSUME NEW T, NEW s \in Seq(T), NEW e \in T
  PROVE  /\ Append(s, e) \in Seq(T) /\ Len(s) \in Nat /\ Len(Append(s, e)) = Len(s) + 1
         /\ \A i \in 1..Len(s) : Append(s, e)[i] = s[i]
         /\ Append(s, e)[Len(s) + 1] = e
         /\ 1..(Len(s) + 1) = 1..Len(s) \cup {Len(s) + 1}
OBVIOUS

LEMMA TailAt ==
  ASSUME NEW T, NEW s \in Seq(T), s # <<>>
  PROVE  /\ Tail(s) \in Seq(T) /\ Head(s) \in T /\ Head(s) = s[1]
         /\ Len(s) \in Nat \ {0} /\ Len(Tail(s)) = Len(s) - 1
         /\ \A i \in 1..Len(Tail(s)) : Tail(s)[i] = s[i + 1] /\ i + 1 \in 1..Len(s) /\ i + 1 # 1
         /\ \A i \in 1..Len(s) : i = 1 \/ (i - 1 \in 1..Len(Tail(s)) /\ (i - 1) + 1 = i)
OBVIOUS

LEMMA AppendHas ==
  ASSUME NEW T, NEW s \in Seq(T), NEW e \in T, NEW t, NEW r
  PROVE  /\ Has(Append(s, e), t, r) <=> Has(s, t, r) \/ (e.t = t /\ e.r = r)
         /\ Published(Append(s, e), t, r)
               <=> Published(s, t, r) \/ (e.t = t /\ e.r = r /\ e.quiescence # "never_published")
<1> DEFINE x == Append(s, e)
<1>1. /\ Len(x) = Len(s) + 1 /\ 1..Len(x) = 1..Len(s) \cup {Len(s) + 1}
      /\ \A i \in 1..Len(s) : x[i] = s[i]
      /\ x[Len(s) + 1] = e
  BY AppendedAt
<1> HIDE DEF x
<1>2. Has(x, t, r) <=> Has(s, t, r) \/ (e.t = t /\ e.r = r)
  BY <1>1 DEF Has
<1>4. Published(x, t, r) <=> Published(s, t, r) \/ (e.t = t /\ e.r = r /\ e.quiescence # "never_published")
  BY <1>1 DEF Published
<1> QED BY <1>2, <1>4 DEF x

LEMMA AppendUnpublished ==
  ASSUME NEW T, NEW s \in Seq(T), NEW e \in T, NEW r
  PROVE  Unpublished(Append(s, e), r)
            <=> Unpublished(s, r) \/ (e.t \in Controls /\ e.r = r /\ e.quiescence = "never_published")
<1> DEFINE x == Append(s, e)
<1>1. /\ Len(x) = Len(s) + 1 /\ 1..Len(x) = 1..Len(s) \cup {Len(s) + 1}
      /\ \A i \in 1..Len(s) : x[i] = s[i]
      /\ x[Len(s) + 1] = e
  BY AppendedAt
<1> HIDE DEF x
<1>2. Unpublished(x, r) <=> Unpublished(s, r) \/ (e.t \in Controls /\ e.r = r /\ e.quiescence = "never_published")
  BY <1>1 DEF Unpublished
<1> QED BY <1>2 DEF x

\* What the rest of a lane and its first message hold, the lane holds.
LEMMA TailElements ==
  ASSUME NEW T, NEW s \in Seq(T), s # <<>>
  PROVE  /\ \A i \in 1..Len(s) : s[i] = Head(s) \/ \E j \in 1..Len(Tail(s)) : Tail(s)[j] = s[i]
         /\ \A j \in 1..Len(Tail(s)) : \E i \in 1..Len(s) : Tail(s)[j] = s[i]
         /\ \E i \in 1..Len(s) : Head(s) = s[i]
<1> DEFINE x == Tail(s)
           e == Head(s)
<1>1. /\ e = s[1] /\ 1 \in 1..Len(s)
      /\ \A i \in 1..Len(x) : x[i] = s[i + 1] /\ i + 1 \in 1..Len(s)
      /\ \A i \in 1..Len(s) : i = 1 \/ (i - 1 \in 1..Len(x) /\ (i - 1) + 1 = i)
  BY TailAt
<1> HIDE DEF x, e
<1>2. \A i \in 1..Len(s) : s[i] = e \/ \E j \in 1..Len(x) : x[j] = s[i]
  <2> TAKE i \in 1..Len(s)
  <2>1. CASE i = 1
    BY <1>1, <2>1
  <2>2. CASE i # 1
    <3>1. i - 1 \in 1..Len(x) /\ x[i - 1] = s[i]
      BY <1>1, <2>2
    <3> QED BY <3>1
  <2> QED BY <2>1, <2>2
<1>3. \A j \in 1..Len(x) : \E i \in 1..Len(s) : x[j] = s[i]
  BY <1>1
<1>4. \E i \in 1..Len(s) : e = s[i]
  BY <1>1
<1> QED BY <1>2, <1>3, <1>4 DEF x, e

LEMMA TailUnpublished ==
  ASSUME NEW T, NEW s \in Seq(T), s # <<>>, NEW r
  PROVE  Unpublished(s, r)
            <=> Unpublished(Tail(s), r) \/ (Head(s).t \in Controls /\ Head(s).r = r /\ Head(s).quiescence = "never_published")
BY TailElements DEF Unpublished

LEMMA TailHas ==
  ASSUME NEW T, NEW s \in Seq(T), s # <<>>, NEW t, NEW r
  PROVE  /\ Has(s, t, r) <=> Has(Tail(s), t, r) \/ (Head(s).t = t /\ Head(s).r = r)
         /\ Published(s, t, r)
               <=> Published(Tail(s), t, r) \/ (Head(s).t = t /\ Head(s).r = r /\ Head(s).quiescence # "never_published")
<1> DEFINE x == Tail(s)
           e == Head(s)
<1>2. /\ \A i \in 1..Len(s) : s[i] = e \/ \E j \in 1..Len(x) : x[j] = s[i]
      /\ \A j \in 1..Len(x) : \E i \in 1..Len(s) : x[j] = s[i]
      /\ \E i \in 1..Len(s) : e = s[i]
  BY TailElements
<1> HIDE DEF x, e
<1>5. Has(s, t, r) <=> Has(x, t, r) \/ (e.t = t /\ e.r = r)
  BY <1>2 DEF Has
<1>7. Published(s, t, r) <=> Published(x, t, r) \/ (e.t = t /\ e.r = r /\ e.quiescence # "never_published")
  <2>1. ASSUME Published(s, t, r)
        PROVE  Published(x, t, r) \/ (e.t = t /\ e.r = r /\ e.quiescence # "never_published")
    <3>1. PICK i \in 1..Len(s) : s[i].t = t /\ s[i].r = r /\ s[i].quiescence # "never_published"
      BY <2>1 DEF Published
    <3>2. CASE s[i] = e
      BY <3>1, <3>2
    <3>3. CASE \E j \in 1..Len(x) : x[j] = s[i]
      <4>1. PICK j \in 1..Len(x) : x[j] = s[i]
        BY <3>3
      <4>2. x[j].t = t /\ x[j].r = r /\ x[j].quiescence # "never_published"
        BY <3>1, <4>1
      <4> QED BY <4>2 DEF Published
    <3> QED BY <1>2, <3>2, <3>3
  <2>2. Published(x, t, r) => Published(s, t, r)
    BY <1>2 DEF Published
  <2>3. e.t = t /\ e.r = r /\ e.quiescence # "never_published" => Published(s, t, r)
    BY <1>2 DEF Published
  <2> QED BY <2>1, <2>2, <2>3
<1> QED BY <1>5, <1>7 DEF x, e

LEMMA AppendOrdered ==
  ASSUME NEW T, NEW s \in Seq(T), NEW e \in T, Ordered(s),
         \A t : Misplaced(t, e.t) => ~Has(s, t, e.r)
  PROVE  Ordered(Append(s, e))
<1> DEFINE x == Append(s, e)
           n == Len(s)
<1>1. /\ n \in Nat /\ Len(x) = n + 1
      /\ \A i \in 1..n : x[i] = s[i]
      /\ x[n + 1] = e
  BY AppendedAt
<1>2. \A i \in 1..n : s[i].r = e.r => ~Misplaced(s[i].t, e.t)
  BY DEF Has
<1>3. \A i, j \in 1..n : i < j /\ s[i].r = s[j].r => ~Misplaced(s[i].t, s[j].t)
  BY DEF Ordered
<1> HIDE DEF x, n
<1>4. ASSUME NEW i \in 1..(n + 1), NEW j \in 1..(n + 1), i < j, x[i].r = x[j].r
      PROVE  ~Misplaced(x[i].t, x[j].t)
  <2>1. i \in 1..n /\ (j \in 1..n \/ j = n + 1)
    BY <1>1, <1>4
  <2> QED BY <1>1, <1>2, <1>3, <1>4, <2>1
<1> QED BY <1>1, <1>4 DEF Ordered, x

LEMMA TailOrdered ==
  ASSUME NEW T, NEW s \in Seq(T), s # <<>>, Ordered(s)
  PROVE  Ordered(Tail(s)) /\ \A t : Misplaced(Head(s).t, t) => ~Has(Tail(s), t, Head(s).r)
<1> DEFINE x == Tail(s)
           e == Head(s)
<1>1. /\ e = s[1] /\ 1 \in 1..Len(s) /\ Len(x) \in Nat
      /\ \A i \in 1..Len(x) : x[i] = s[i + 1] /\ i + 1 \in 1..Len(s) /\ 1 < i + 1
  BY TailAt
<1>2. \A i, j \in 1..Len(s) : i < j /\ s[i].r = s[j].r => ~Misplaced(s[i].t, s[j].t)
  BY DEF Ordered
<1> HIDE DEF x, e
<1>3. \A i, j \in 1..Len(x) : i < j => i + 1 < j + 1
  BY <1>1
<1>4. Ordered(x)
  BY <1>1, <1>2, <1>3 DEF Ordered
<1>5. \A i \in 1..Len(x) : e.r = x[i].r => ~Misplaced(e.t, x[i].t)
  BY <1>1, <1>2
<1>6. \A t : Misplaced(e.t, t) => ~Has(x, t, e.r)
  BY <1>5 DEF Has
<1> QED BY <1>4, <1>6 DEF x, e

Once == {"request", "register", "close"}

LEMMA AppendSingle ==
  ASSUME NEW T, NEW s \in Seq(T), NEW e \in T, Single(s), e.t \in Once => ~Has(s, e.t, e.r)
  PROVE  Single(Append(s, e))
<1> DEFINE x == Append(s, e)
           n == Len(s)
<1>1. /\ n \in Nat /\ Len(x) = n + 1
      /\ \A i \in 1..n : x[i] = s[i]
      /\ x[n + 1] = e
  BY AppendedAt
<1>2. \A i \in 1..n : s[i].r = e.r /\ s[i].t = e.t => s[i].t \notin Once
  BY DEF Has
<1>3. \A i, j \in 1..n : i < j /\ s[i].r = s[j].r /\ s[i].t = s[j].t => s[i].t \notin Once
  BY DEF Single, Once
<1> HIDE DEF x, n
<1>4. ASSUME NEW i \in 1..(n + 1), NEW j \in 1..(n + 1), i < j, x[i].r = x[j].r, x[i].t = x[j].t
      PROVE  x[i].t \notin Once
  <2>1. i \in 1..n /\ (j \in 1..n \/ j = n + 1)
    BY <1>1, <1>4
  <2> QED BY <1>1, <1>2, <1>3, <1>4, <2>1
<1> QED BY <1>1, <1>4 DEF Single, x, Once

LEMMA TailSingle ==
  ASSUME NEW T, NEW s \in Seq(T), s # <<>>, Single(s)
  PROVE  Single(Tail(s)) /\ (Head(s).t \in Once => ~Has(Tail(s), Head(s).t, Head(s).r))
<1> DEFINE x == Tail(s)
           e == Head(s)
<1>1. /\ e = s[1] /\ 1 \in 1..Len(s) /\ Len(x) \in Nat
      /\ \A i \in 1..Len(x) : x[i] = s[i + 1] /\ i + 1 \in 1..Len(s) /\ 1 < i + 1
  BY TailAt
<1>2. \A i, j \in 1..Len(s) : i < j /\ s[i].r = s[j].r /\ s[i].t = s[j].t => s[i].t \notin Once
  BY DEF Single, Once
<1> HIDE DEF x, e
<1>3. \A i, j \in 1..Len(x) : i < j => i + 1 < j + 1
  BY <1>1
<1>4. Single(x)
  BY <1>1, <1>2, <1>3 DEF Single, Once
<1>5. \A i \in 1..Len(x) : e.r = x[i].r /\ e.t = x[i].t => e.t \notin Once
  BY <1>1, <1>2
<1>6. e.t \in Once => ~Has(x, e.t, e.r)
  BY <1>5 DEF Has
<1> QED BY <1>4, <1>6 DEF x, e

(* ------------- a step that leaves a request as it is -------------------- *)

SameMail(g, x, r) ==
    /\ (Acked(x, r) <=> Acked(g, r)) /\ (Lent(x, r) <=> Lent(g, r)) /\ (Done(x, r) <=> Done(g, r))
    /\ (Enrolled(x, r) <=> Enrolled(g, r)) /\ (Closes(x, r) <=> Closes(g, r)) /\ (Retires(x, r) <=> Retires(g, r))
    /\ (Never(x, r) <=> Never(g, r)) /\ (Withdrawn(x, r) <=> Withdrawn(g, r)) /\ (Withdraws(x, r) <=> Withdraws(g, r))

FewerCalls(o, u, r) ==
    (Asked(u, r) => Asked(o, r)) /\ (Registering(u, r) => Registering(o, r)) /\ (Quitting(u, r) => Quitting(o, r))

\* The tables and flags another request's step may move.
Onward(g, x) ==
    /\ x.terminal = g.terminal /\ x.last \in 0..N /\ g.last \in 0..N /\ g.last <= x.last
    /\ x.route = "none" => g.route = "none"

LEMMA Untouched ==
  ASSUME NEW g, NEW x, NEW q, NEW d, NEW e, NEW o, NEW u, NEW com, NEW r \in Requests,
         About(g, q, d, o, com, r), Onward(g, x), Same(g, x, r), SameMail(g, x, r), FewerCalls(o, u, r),
         e.rec[r] = d.rec[r], e.using[r] = d.using[r], e.next \in Nat, d.next \in Nat, d.next <= e.next
  PROVE  About(x, q, e, u, com, r)
<1>0. N \in Nat /\ r \in Nat
  BY ServiceAssumption DEF Requests
<1>1. Shape(x, r)
  BY DEF About, Shape, Onward, Same
<1>2. Spent(g, r) => Spent(x, r)
  BY <1>0 DEF Spent, Onward, Same
<1>3. Loan(x, q, com, r)
  <2>1. r > x.last => r > g.last
    BY <1>0 DEF Onward
  <2> QED BY <1>2, <2>1 DEF About, Loan, Onward, Same, Unsettled, Owes
<1>4. Watch(x, e, u, r)
  BY <1>2 DEF About, Watch, Onward, Same, SameMail, FewerCalls, Reads
<1>5. Answers(x, e, u, r)
  <2>1. r < d.next => r < e.next
    BY <1>0
  <2> QED BY <2>1 DEF About, Answers, Onward, Same, SameMail, FewerCalls, Owes
<1>6. Withdrawal(x, e, u, r)
  BY DEF About, Withdrawal, Onward, Same, SameMail, FewerCalls
<1> QED BY <1>1, <1>3, <1>4, <1>5, <1>6 DEF About

(* ------------------ a call is taken from the outbox --------------------- *)

\* The oldest call of one of the lanes is taken.
Taken(o, u, call) ==
    \/ o.control # <<>> /\ call = Head(o.control) /\ u = [control |-> Tail(o.control), pod |-> o.pod]
    \/ o.pod # <<>> /\ call = Head(o.pod) /\ u = [control |-> o.control, pod |-> Tail(o.pod)]

Took(o, u, call) ==
    /\ u \in Outbox /\ call \in Call /\ Single(u.pod)
    /\ \A r : (Asked(o, r) <=> Asked(u, r) \/ (call.t = "request" /\ call.r = r))
    /\ \A r : (Registering(o, r) <=> Registering(u, r) \/ (call.t = "register" /\ call.r = r))
    /\ \A r : (Quitting(o, r) <=> Quitting(u, r) \/ (call.t = "quiescent" /\ call.r = r))
    /\ Leaving(o) <=> Leaving(u) \/ (call.t = "close" /\ call.r = 0)
    /\ call.t = "request" => ~Asked(u, call.r)
    /\ call.t = "register" => ~Registering(u, call.r)
    /\ call.t = "close" => ~Leaving(u)

LEMMA TakenTook ==
  ASSUME NEW o \in Outbox, Single(o.pod), NEW u, NEW call, Taken(o, u, call)
  PROVE  Took(o, u, call)
<1>1. o.control \in Seq(Word) /\ o.pod \in Seq(Call)
  BY DEF Outbox
<1>2. CASE o.control # <<>> /\ call = Head(o.control) /\ u = [control |-> Tail(o.control), pod |-> o.pod]
  <2>1. /\ call \in Word /\ Tail(o.control) \in Seq(Word)
        /\ \A t, r : (Has(o.control, t, r) <=> Has(Tail(o.control), t, r) \/ (call.t = t /\ call.r = r))
    BY <1>1, <1>2, TailAt, TailHas
  <2>2. u.control = Tail(o.control) /\ u.pod = o.pod /\ u \in Outbox
    BY <1>1, <1>2, <2>1 DEF Outbox
  <2>3. call.t \in {"cancel", "release", "quiescent"} /\ call \in Call
    BY <2>1 DEF Word, Call
  <2> HIDE <1>2
  <2> QED BY <2>1, <2>2, <2>3 DEF Took, Asked, Registering, Quitting, Leaving
<1>3. CASE o.pod # <<>> /\ call = Head(o.pod) /\ u = [control |-> o.control, pod |-> Tail(o.pod)]
  <2>1. /\ call \in Call /\ Tail(o.pod) \in Seq(Call)
        /\ \A t, r : (Has(o.pod, t, r) <=> Has(Tail(o.pod), t, r) \/ (call.t = t /\ call.r = r))
    BY <1>1, <1>3, TailAt, TailHas
  <2>2. u.control = o.control /\ u.pod = Tail(o.pod) /\ u \in Outbox
    BY <1>1, <1>3, <2>1 DEF Outbox
  <2>3. Single(u.pod) /\ (call.t \in Once => ~Has(u.pod, call.t, call.r))
    BY <1>1, <1>3, <2>2, TailSingle
  <2>4. call.t = "close" => call.r = 0
    BY <2>1 DEF Call, Word
  <2> HIDE <1>3
  <2> QED BY <2>1, <2>2, <2>3, <2>4 DEF Took, Asked, Registering, Quitting, Leaving, Once
<1> QED BY <1>2, <1>3 DEF Taken

LEMMA TookFewer ==
  ASSUME NEW o, NEW u, NEW call, Took(o, u, call)
  PROVE  (\A r : FewerCalls(o, u, r)) /\ (Leaving(u) => Leaving(o))
BY DEF Took, FewerCalls

\* A call that has been taken and not been acted on.
LEMMA TookSound ==
  ASSUME NEW g, NEW q, NEW d, NEW o, NEW u, NEW com, NEW n, NEW call,
         Sound(g, q, d, o, com, n), Took(o, u, call)
  PROVE  Sound(g, q, d, u, com, n)
<1>1. ASSUME NEW r \in Requests PROVE About(g, q, d, u, com, r)
  <2>1. About(g, q, d, o, com, r) /\ FewerCalls(o, u, r)
    BY TookFewer DEF Sound
  <2>2. Onward(g, g) /\ d.next \in Nat
    BY ServiceAssumption DEF Sound, HostState, ClientState, Onward
  <2>3. Same(g, g, r) /\ SameMail(g, g, r) /\ d.next <= d.next
    BY <2>2 DEF Same, SameMail
  <2> QED BY <2>1, <2>2, <2>3, Untouched
<1>2. u \in Outbox /\ Single(u.pod)
  BY DEF Took
<1>3. Route(g, d, u)
  BY TookFewer DEF Sound, Route
<1> QED BY <1>1, <1>2, <1>3 DEF Sound

(* ------------------ an answer is put in the inbox ----------------------- *)

\* x has the same lanes as g, and one answer more in one of them.
Mailed(g, x, a) ==
    \/ x.reply = Append(g.reply, a) /\ x.control = g.control
    \/ x.reply = g.reply /\ x.control = Append(g.control, a)

\* What the lanes then hold.
Mail(g, x, a) ==
    /\ \A r : (Acked(x, r) <=> Acked(g, r) \/ (a.t = "acknowledged" /\ a.r = r))
    /\ \A r : (Lent(x, r) <=> Lent(g, r) \/ (a.t = "prepared" /\ a.r = r))
    /\ \A r : (Done(x, r) <=> Done(g, r) \/ (a.t = "completed" /\ a.r = r))
    /\ \A r : (Enrolled(x, r) <=> Enrolled(g, r) \/ (a.t = "registered" /\ a.r = r))
    /\ Left(x) <=> Left(g) \/ (a.t = "closed" /\ a.r = 0)
    /\ \A r : (Closes(x, r) <=> Closes(g, r) \/ (a.t = "closing" /\ a.r = r))
    /\ \A r : (Retires(x, r) <=> Retires(g, r) \/ (a.t = "retired" /\ a.r = r))
    /\ \A r : (Never(x, r) <=> Never(g, r) \/ (a.t \in Controls /\ a.r = r /\ a.quiescence = "never_published"))
    /\ \A r : (Withdrawn(x, r) <=> Withdrawn(g, r) \/ (a.t = "retired" /\ a.r = r /\ a.quiescence # "never_published"))
    /\ \A r : (Withdraws(x, r) <=> Withdraws(g, r) \/ (a.t \in Controls /\ a.r = r /\ a.quiescence # "never_published"))

LEMMA MailedReply ==
  ASSUME NEW g \in HostState, NEW a \in Answer, NEW x, x.reply = Append(g.reply, a), x.control = g.control
  PROVE  Mail(g, x, a)
<1>1. g.reply \in Seq(Answer)
  BY DEF HostState
<1>2. \A t, r : (Has(x.reply, t, r) <=> Has(g.reply, t, r) \/ (a.t = t /\ a.r = r))
  BY <1>1, AppendHas
<1>3. \A r : (Unpublished(x.reply, r) <=> Unpublished(g.reply, r) \/ (a.t \in Controls /\ a.r = r /\ a.quiescence = "never_published"))
  BY <1>1, AppendUnpublished
<1>4. \A t, r : (Published(x.reply, t, r) <=> Published(g.reply, t, r) \/ (a.t = t /\ a.r = r /\ a.quiescence # "never_published"))
  BY <1>1, AppendHas
<1>5. x.control = g.control
  OBVIOUS
<1>6. /\ \A r : (Acked(x, r) <=> Acked(g, r) \/ (a.t = "acknowledged" /\ a.r = r))
      /\ \A r : (Lent(x, r) <=> Lent(g, r) \/ (a.t = "prepared" /\ a.r = r))
      /\ \A r : (Done(x, r) <=> Done(g, r) \/ (a.t = "completed" /\ a.r = r))
      /\ \A r : (Enrolled(x, r) <=> Enrolled(g, r) \/ (a.t = "registered" /\ a.r = r))
      /\ Left(x) <=> Left(g) \/ (a.t = "closed" /\ a.r = 0)
  BY <1>2 DEF Acked, Lent, Done, Enrolled, Left
<1>7. /\ \A r : (Closes(x, r) <=> Closes(g, r) \/ (a.t = "closing" /\ a.r = r))
      /\ \A r : (Retires(x, r) <=> Retires(g, r) \/ (a.t = "retired" /\ a.r = r))
  BY <1>2, <1>5 DEF Closes, Retires
<1>8. \A r : (Never(x, r) <=> Never(g, r) \/ (a.t \in Controls /\ a.r = r /\ a.quiescence = "never_published"))
  BY <1>3, <1>5 DEF Never
<1>9. \A r : (Withdrawn(x, r) <=> Withdrawn(g, r) \/ (a.t = "retired" /\ a.r = r /\ a.quiescence # "never_published"))
  BY <1>4, <1>5 DEF Withdrawn
<1>10. \A r : (Withdraws(x, r) <=> Withdraws(g, r) \/ (a.t \in Controls /\ a.r = r /\ a.quiescence # "never_published"))
  BY <1>4, <1>5, <1>9 DEF Withdraws, Controls
<1> QED BY <1>6, <1>7, <1>8, <1>9, <1>10 DEF Mail

LEMMA MailedControl ==
  ASSUME NEW g \in HostState, NEW a \in Answer, a.t \in Controls, NEW x, x.reply = g.reply, x.control = Append(g.control, a)
  PROVE  Mail(g, x, a)
<1>1. g.control \in Seq(Answer)
  BY DEF HostState
<1>2. \A t, r : (Has(x.control, t, r) <=> Has(g.control, t, r) \/ (a.t = t /\ a.r = r))
  BY <1>1, AppendHas
<1>3. \A r : (Unpublished(x.control, r) <=> Unpublished(g.control, r) \/ (a.t \in Controls /\ a.r = r /\ a.quiescence = "never_published"))
  BY <1>1, AppendUnpublished
<1>4. \A t, r : (Published(x.control, t, r) <=> Published(g.control, t, r) \/ (a.t = t /\ a.r = r /\ a.quiescence # "never_published"))
  BY <1>1, AppendHas
<1>5. x.reply = g.reply /\ a.t \in Controls
  OBVIOUS
<1>6. /\ \A r : (Acked(x, r) <=> Acked(g, r) \/ (a.t = "acknowledged" /\ a.r = r))
      /\ \A r : (Lent(x, r) <=> Lent(g, r) \/ (a.t = "prepared" /\ a.r = r))
      /\ \A r : (Done(x, r) <=> Done(g, r) \/ (a.t = "completed" /\ a.r = r))
      /\ \A r : (Enrolled(x, r) <=> Enrolled(g, r) \/ (a.t = "registered" /\ a.r = r))
      /\ Left(x) <=> Left(g) \/ (a.t = "closed" /\ a.r = 0)
  BY <1>5 DEF Acked, Lent, Done, Enrolled, Left, Controls
<1>7. /\ \A r : (Closes(x, r) <=> Closes(g, r) \/ (a.t = "closing" /\ a.r = r))
      /\ \A r : (Retires(x, r) <=> Retires(g, r) \/ (a.t = "retired" /\ a.r = r))
  BY <1>2, <1>5 DEF Closes, Retires
<1>8. \A r : (Never(x, r) <=> Never(g, r) \/ (a.t \in Controls /\ a.r = r /\ a.quiescence = "never_published"))
  BY <1>3, <1>5 DEF Never
<1>9. \A r : (Withdrawn(x, r) <=> Withdrawn(g, r) \/ (a.t = "retired" /\ a.r = r /\ a.quiescence # "never_published"))
  BY <1>4, <1>5 DEF Withdrawn
<1>10. \A r : (Withdraws(x, r) <=> Withdraws(g, r) \/ (a.t \in Controls /\ a.r = r /\ a.quiescence # "never_published"))
  BY <1>4, <1>5, <1>9 DEF Withdraws, Controls
<1> QED BY <1>6, <1>7, <1>8, <1>9, <1>10 DEF Mail

LEMMA MailOthers ==
  ASSUME NEW g, NEW x, NEW a, Mail(g, x, a), NEW r, a.r # r
  PROVE  SameMail(g, x, r)
BY DEF Mail, SameMail

(* --------------------- one request, wherever it is ---------------------- *)

Apart(g, x, d, e, o, u, i) ==
    Same(g, x, i) /\ SameMail(g, x, i) /\ FewerCalls(o, u, i) /\ e.rec[i] = d.rec[i] /\ e.using[i] = d.using[i]

\* A step of the Host or of the consumer that concerns one request, or none.
LEMMA StepSound ==
  ASSUME NEW g, NEW x, NEW q, NEW d, NEW e, NEW o, NEW u, NEW com, NEW n, NEW k, NEW r,
         Sound(g, q, d, o, com, n), x \in HostState, e \in ClientState, u \in Outbox,
         Onward(g, x), d.next <= e.next, \A i \in Requests : i # r => Apart(g, x, d, e, o, u, i),
         r \in Requests => About(x, q, e, u, com, r),
         Inbox(x), Single(u.pod), Route(x, e, u), Calm(x, q), Books(x, k), Ended(x, e)
  PROVE  Sound(x, q, e, u, com, k)
<1>1. d.next \in Nat /\ e.next \in Nat
  BY ServiceAssumption DEF Sound, ClientState
<1>2. ASSUME NEW i \in Requests, i # r PROVE About(x, q, e, u, com, i)
  <2>1. About(g, q, d, o, com, i)
    BY DEF Sound
  <2>2. Apart(g, x, d, e, o, u, i)
    BY <1>2
  <2> QED BY <1>1, <2>1, <2>2, Untouched DEF Apart
<1>3. q \in ProviderState
  BY DEF Sound
<1> QED BY <1>2, <1>3 DEF Sound

(* ----------------------- the credits of a reply ------------------------- *)

Room(g) == g.threaded \/ Len(g.reply) + g.reserved <= ReplyCapacity

\* x is g after a reply that had its credit.
Answered(g, x, a) ==
    /\ x \in HostState /\ x.threaded = g.threaded /\ x.terminal = g.terminal /\ x.last = g.last
    /\ x.route = g.route /\ x.failed = g.failed /\ x.provider_stop = g.provider_stop /\ x.phase = g.phase
    /\ x.stop = g.stop /\ x.op = g.op /\ x.rec = g.rec /\ x.control = g.control
    /\ x.reserved = g.reserved - 1
    /\ x.reply = IF g.terminal THEN g.reply ELSE Append(g.reply, a)

LEMMA ReplyIs ==
  ASSUME NEW g \in HostState, NEW a \in Answer, g.reserved > 0, Room(g)
  PROVE  Answered(g, Reply(g, a), a) /\ Room(Reply(g, a))
<1> DEFINE y == [g EXCEPT !.reserved = IF @ > 0 THEN @ - 1 ELSE 0]
           z == [y EXCEPT !.reply = Append(@, a)]
<1>1. g.reserved \in Nat /\ g.reserved - 1 \in Nat /\ g.reply \in Seq(Answer) /\ Len(g.reply) \in Nat
  BY DEF HostState
<1>2. y = [g EXCEPT !.reserved = g.reserved - 1]
  OBVIOUS
<1>3. Append(g.reply, a) \in Seq(Answer) /\ Len(Append(g.reply, a)) = Len(g.reply) + 1
  BY <1>1, AppendedAt
<1>4. y.threaded = g.threaded /\ y.reply = g.reply /\ y.reserved = g.reserved - 1 /\ y.terminal = g.terminal
  BY <1>2 DEF HostState
<1>5. CanReserve(y, 1)
  BY <1>1, <1>4, ServiceAssumption DEF CanReserve, Room
<1>6. Reply(g, a) = IF g.terminal THEN y ELSE z
  BY <1>4, <1>5 DEF Reply, CanPostReply, PostReply
<1>7. g.terminal => Answered(g, y, a)
  BY <1>1, <1>2 DEF Answered, HostState
<1>8. ~g.terminal => Answered(g, z, a)
  BY <1>1, <1>2, <1>3 DEF Answered, HostState
<1> HIDE DEF y, z
<1>9. ASSUME NEW x, Answered(g, x, a) PROVE Room(x)
  BY <1>1, <1>3, <1>9, ServiceAssumption DEF Answered, Room
<1> QED BY <1>6, <1>7, <1>8, <1>9

LEMMA AnsweredInbox ==
  ASSUME NEW g \in HostState, NEW x, NEW a \in Answer, Inbox(g), Answered(g, x, a), a.t \notin Controls,
         ~g.terminal => \A t : Misplaced(t, a.t) => ~Has(g.reply, t, a.r)
  PROVE  Inbox(x)
<1>1. g.reply \in Seq(Answer)
  BY DEF HostState
<1>2. CASE g.terminal
  BY <1>2 DEF Inbox, Answered
<1>3. CASE ~g.terminal
  <2>1. Ordered(x.reply)
    BY <1>1, <1>3, AppendOrdered DEF Inbox, Answered
  <2>2. /\ Len(g.reply) \in Nat /\ Len(x.reply) = Len(g.reply) + 1
        /\ \A i \in 1..Len(g.reply) : x.reply[i] = g.reply[i]
        /\ x.reply[Len(g.reply) + 1] = a
    BY <1>1, <1>3, AppendedAt DEF Answered
  <2>3. ~g.threaded => \A i \in 1..Len(x.reply) : x.reply[i].t \notin Controls
    <3> SUFFICES ASSUME ~g.threaded, NEW i \in 1..Len(x.reply) PROVE x.reply[i].t \notin Controls
      OBVIOUS
    <3>1. i \in 1..Len(g.reply) \/ i = Len(g.reply) + 1
      BY <2>2
    <3> QED BY <2>2, <3>1 DEF Inbox
  <2> QED BY <1>3, <2>1, <2>3 DEF Inbox, Answered
<1> QED BY <1>2, <1>3

LEMMA AnsweredMail ==
  ASSUME NEW g \in HostState, NEW x, NEW a \in Answer, Answered(g, x, a)
  PROVE  /\ ~g.terminal => Mail(g, x, a)
         /\ g.terminal => (\A r : SameMail(g, x, r)) /\ (Left(x) <=> Left(g))
         /\ \A r : r # a.r => SameMail(g, x, r)
<1>1. ~g.terminal => Mail(g, x, a)
  BY MailedReply DEF Answered
<1>2. g.terminal => (\A r : SameMail(g, x, r)) /\ (Left(x) <=> Left(g))
  BY DEF Answered, SameMail, Acked, Lent, Done, Enrolled, Left, Closes, Retires, Never, Withdrawn, Withdraws
<1>3. \A r : r # a.r => SameMail(g, x, r)
  BY <1>1, <1>2, MailOthers
<1> QED BY <1>1, <1>2, <1>3

\* A credit is set aside for each reply a call may need.
LEMMA ReserveIs ==
  ASSUME NEW g, NEW q, NEW d, NEW o, NEW com, NEW k \in Nat, Sound(g, q, d, o, com, 0), CanReserve(g, k)
  PROVE  LET x == Reserve(g, k) IN
         /\ Sound(x, q, d, o, com, k) /\ Room(x) /\ x.reserved = g.reserved + k
         /\ x.op = g.op /\ x.rec = g.rec /\ x.last = g.last
<1> DEFINE x == Reserve(g, k)
<1>1. g \in HostState /\ g.reserved \in Nat /\ Len(g.reply) \in Nat
  BY DEF Sound, HostState
<1>2. /\ x \in HostState /\ Still(g, x) /\ x.op = g.op /\ x.rec = g.rec /\ x.reserved = g.reserved + k
  <2> DEFINE v == g.reserved + k
  <2>1. v \in Nat /\ x = [g EXCEPT !.reserved = v]
    BY <1>1 DEF Reserve
  <2> HIDE DEF v, x
  <2>2. x \in HostState /\ Still(g, x) /\ x.op = g.op /\ x.rec = g.rec /\ x.reserved = v
    BY <1>1, <2>1 DEF HostState, Still
  <2> QED BY <2>2 DEF v
<1>3. Room(x)
  BY <1>1, <1>2, ServiceAssumption DEF CanReserve, Room, Still
<1> HIDE DEF x
<1>4. Debts(x) = Debts(g)
  BY <1>2 DEF Debts, Owing, Unpaid
<1>5. Books(x, k)
  <2>1. g.reserved = Debts(g) + 0 /\ g.reserved \in Nat
    BY <1>1 DEF Sound, Books
  <2>2. Debts(g) \in Nat
    BY FewRequests, FS_Subset, FS_CardinalityType DEF Debts, Owing, Unpaid
  <2>3. x.reserved = Debts(x) + k
    BY <1>2, <1>4, <2>1, <2>2
  <2> QED BY <1>3, <2>3 DEF Books, Room
<1>6. ASSUME NEW i \in Requests PROVE About(x, q, d, o, com, i)
  BY <1>2, SameKeeps DEF Sound, Same
<1>7. Inbox(x) /\ Route(x, d, o) /\ Calm(x, q) /\ Ended(x, d)
  BY <1>2 DEF Sound, Inbox, Still, Route, Left, Calm, Ended
<1>8. Sound(x, q, d, o, com, k)
  BY <1>2, <1>5, <1>6, <1>7 DEF Sound
<1> QED BY <1>2, <1>3, <1>8 DEF x, Still

(* ------------------------- calls of the consumer ------------------------ *)

LEMMA AskedFacts ==
  ASSUME NEW g, NEW q, NEW d, NEW o, NEW u, NEW com, NEW n, NEW call,
         Sound(g, q, d, o, com, n), Took(o, u, call), call.t = "request"
  PROVE  /\ call.r \in Requests /\ call.kind \in Kind /\ call.of \in Requests
         /\ Asked(o, call.r) /\ ~Asked(u, call.r) /\ call.r < d.next
         /\ ~Acked(g, call.r) /\ ~Done(g, call.r) /\ ~Lent(g, call.r) /\ ~g.op[call.r].live
         /\ ~d.rec[call.r].acknowledged
         /\ ~g.terminal => d.rec[call.r].live /\ ~d.rec[call.r].seen_terminal
<1> DEFINE r == call.r
<1>1. r \in Requests /\ call.kind \in Kind /\ call.of \in Requests
  BY DEF Took, Call, Word
<1>2. Asked(o, r) /\ ~Asked(u, r)
  BY DEF Took
<1>3. Answers(g, d, o, r)
  BY <1>1 DEF Sound, About
<1> HIDE DEF r
<1>4. /\ ~Acked(g, r) /\ ~Done(g, r) /\ ~g.op[r].live
      /\ ~d.rec[r].acknowledged /\ r < d.next
      /\ ~g.terminal => d.rec[r].live /\ ~d.rec[r].seen_terminal
  BY <1>2, <1>3 DEF Answers
<1>5. ~Lent(g, r)
  BY <1>3, <1>4 DEF Answers, Owes
<1> QED BY <1>1, <1>2, <1>4, <1>5 DEF r

\* A request is acknowledged and admitted: the other credit is its result's.
LEMMA AdmittedSound ==
  ASSUME NEW g, NEW q, NEW d, NEW o, NEW u, NEW call,
         Sound(g, q, d, o, {}, 2), Took(o, u, call), call.t = "request",
         NEW y, Answered(g, y, [t |-> "acknowledged", r |-> call.r]), Room(y),
         ~g.terminal, g.route = "open", call.r > g.last
  PROVE  Sound([y EXCEPT !.last = call.r,
                         !.op[call.r] = [NoOperation EXCEPT !.live = TRUE, !.kind = call.kind, !.of = call.of]],
               q, d, u, {}, 0)
<1> DEFINE r == call.r
           ack == [t |-> "acknowledged", r |-> r]
           a == [NoOperation EXCEPT !.live = TRUE, !.kind = call.kind, !.of = call.of]
           x == [y EXCEPT !.last = r, !.op[r] = a]
<1>1. /\ r \in Requests /\ call.kind \in Kind /\ call.of \in Requests
      /\ Asked(o, r) /\ ~Asked(u, r) /\ r < d.next
      /\ ~Acked(g, r) /\ ~Done(g, r) /\ ~Lent(g, r) /\ ~g.op[r].live
      /\ ~d.rec[r].acknowledged /\ d.rec[r].live /\ ~d.rec[r].seen_terminal
  BY AskedFacts
<1>2. /\ g \in HostState /\ d \in ClientState /\ o \in Outbox /\ About(g, q, d, o, {}, r) /\ Books(g, 2)
      /\ Inbox(g) /\ Route(g, d, o) /\ Calm(g, q) /\ Ended(g, d) /\ r > g.last
  BY <1>1 DEF Sound
<1>3. u \in Outbox /\ Single(u.pod) /\ (\A i : FewerCalls(o, u, i)) /\ (Leaving(u) => Leaving(o))
  BY TookFewer DEF Took
<1>4. ack \in Answer /\ ack.t = "acknowledged" /\ ack.r = r
  BY <1>1 DEF Answer
<1>5. Answered(g, y, ack)
  OBVIOUS
<1>6. /\ a \in Operation /\ a.live /\ ~a.delivered /\ ~a.borrow /\ ~a.completed /\ ~a.terminal_sent
      /\ a.of \in Requests
  <2>1. call.of \in 0..N /\ call.kind \in Kind
    BY <1>1, ServiceAssumption DEF Requests
  <2>2. a \in Operation
    BY <2>1 DEF NoOperation, Operation
  <2>3. /\ a.live /\ ~a.delivered /\ ~a.borrow /\ ~a.completed /\ ~a.terminal_sent /\ a.of = call.of
    BY DEF NoOperation
  <2> QED BY <1>1, <2>2, <2>3
<1> HIDE DEF a, ack
<1>7. /\ x \in HostState /\ x.threaded = g.threaded /\ x.terminal = g.terminal /\ x.last = r /\ x.route = g.route
      /\ x.failed = g.failed /\ x.provider_stop = g.provider_stop /\ x.rec = g.rec /\ x.op[r] = a
      /\ x.control = g.control /\ x.reply = Append(g.reply, ack) /\ x.reserved = g.reserved - 1
      /\ \A i \in Requests : i # r => x.op[i] = g.op[i]
  <2> DEFINE op == [g.op EXCEPT ![r] = a]
  <2>1. op \in [Requests -> Operation] /\ op[r] = a /\ \A i \in Requests : i # r => op[i] = g.op[i]
    BY <1>1, <1>2, <1>6 DEF HostState
  <2>2. x = [y EXCEPT !.last = r, !.op = op] /\ y \in HostState /\ r \in 0..N
    <3>1. y.op = g.op /\ y \in HostState
      BY <1>5 DEF Answered
    <3>2. r \in 0..N
      BY <1>1, ServiceAssumption DEF Requests
    <3>3. x = [y EXCEPT !.last = r, !.op = [y.op EXCEPT ![r] = a]]
      BY <3>1 DEF HostState
    <3> QED BY <3>1, <3>2, <3>3
  <2> HIDE DEF op, x
  <2>3. /\ x \in HostState /\ x.last = r /\ x.op = op
        /\ x.threaded = y.threaded /\ x.terminal = y.terminal /\ x.route = y.route
        /\ x.failed = y.failed /\ x.provider_stop = y.provider_stop /\ x.rec = y.rec
        /\ x.control = y.control /\ x.reply = y.reply /\ x.reserved = y.reserved
    BY <2>1, <2>2 DEF HostState
  <2> QED BY <1>5, <2>1, <2>3 DEF Answered
<1>8. Inbox(y) /\ Mail(g, y, ack)
  <2>1. \A t : Misplaced(t, ack.t) => ~Has(g.reply, t, ack.r)
    BY <1>1, <1>4 DEF Misplaced, Acked, Lent, Done
  <2>2. Inbox(y)
    BY <1>2, <1>4, <1>5, <2>1, AnsweredInbox DEF Controls
  <2>3. Mail(g, y, ack)
    BY <1>2, <1>4, <1>5, AnsweredMail
  <2> QED BY <2>2, <2>3
<1>9. y.reply = x.reply /\ y.control = x.control /\ y.threaded = x.threaded /\ y.terminal = x.terminal
      /\ y.reserved = x.reserved
  BY <1>5, <1>7 DEF Answered
<1> HIDE DEF x
<1>10. Inbox(x)
  BY <1>8, <1>9 DEF Inbox
<1>11. Mail(g, x, ack)
  BY <1>8, <1>9 DEF Mail, Acked, Lent, Done, Enrolled, Left, Closes, Retires, Never, Withdrawn, Withdraws
<1>12. Acked(x, r) /\ ~Asked(u, r) /\ ~Lent(x, r) /\ ~Done(x, r)
       /\ (Enrolled(x, r) <=> Enrolled(g, r)) /\ (Closes(x, r) <=> Closes(g, r)) /\ (Retires(x, r) <=> Retires(g, r))
       /\ (Never(x, r) <=> Never(g, r)) /\ (Withdrawn(x, r) <=> Withdrawn(g, r)) /\ (Withdraws(x, r) <=> Withdraws(g, r))
       /\ (Left(x) <=> Left(g))
  BY <1>1, <1>4, <1>11 DEF Mail, Controls
<1>13. r \in Nat /\ g.last \in Nat /\ ~(r <= g.last) /\ ~(r > r)
  BY <1>1, <1>2, ServiceAssumption DEF HostState, Requests
<1>14. About(x, q, d, u, {}, r)
  <2>1. Shape(x, r)
    BY <1>2, <1>7 DEF About, Shape
  <2>2. Loan(x, q, {}, r)
    BY <1>2, <1>6, <1>7, <1>13 DEF About, Loan, Spent, Unsettled, Owes
  <2>3. Watch(x, d, u, r)
    BY <1>2, <1>3, <1>7, <1>12, <1>13 DEF About, Watch, Spent, Reads, FewerCalls
  <2>4. Answers(x, d, u, r)
    BY <1>1, <1>2, <1>3, <1>6, <1>7, <1>12 DEF About, Answers, FewerCalls, Owes
  <2>5. Withdrawal(x, d, u, r)
    BY <1>1, <1>2, <1>3, <1>7, <1>12 DEF About, Withdrawal, FewerCalls
  <2> QED BY <2>1, <2>2, <2>3, <2>4, <2>5 DEF About
<1>15. Books(x, 0)
  <2>1. Elsewhere(g, x, r)
    BY <1>7 DEF Elsewhere, Same
  <2>2. Bit(Owes(g.op[r])) = 0 /\ Bit(Owes(x.op[r])) = 1 /\ Bit(Unsettled(g.rec[r])) = Bit(Unsettled(x.rec[r]))
        /\ Bit(Unsettled(g.rec[r])) \in Nat
    BY <1>1, <1>6, <1>7 DEF Bit, Owes
  <2>3. Debts(x) = Debts(g) + 1 /\ Debts(g) \in Nat
    BY <1>1, <2>1, <2>2, Balance
  <2>4. g.reserved = Debts(g) + 2
    BY <1>2 DEF Books
  <2>5. x.reserved = Debts(x) + 0
    BY <1>7, <2>3, <2>4
  <2> QED BY <1>9, <2>5 DEF Books, Room
<1>16. Onward(g, x) /\ d.next <= d.next
  BY <1>2, <1>7, <1>13, ServiceAssumption DEF Onward, HostState, ClientState
<1>17. \A i \in Requests : i # r => Apart(g, x, d, d, o, u, i)
  BY <1>3, <1>4, <1>7, <1>11, MailOthers DEF Apart, Same
<1>18. Route(x, d, u)
  BY <1>1, <1>2, <1>3, <1>7, <1>12 DEF Route
<1>19. Calm(x, q) /\ Ended(x, d)
  BY <1>2, <1>7 DEF Calm, Ended
<1>20. Sound(x, q, d, u, {}, 0)
  BY <1>2, <1>3, <1>7, <1>10, <1>14, <1>15, <1>16, <1>17, <1>18, <1>19, StepSound
<1> QED BY <1>20 DEF x, a

\* A request is acknowledged and refused.
LEMMA RefusedSound ==
  ASSUME NEW g, NEW q, NEW d, NEW o, NEW u, NEW call,
         Sound(g, q, d, o, {}, 2), Took(o, u, call), call.t = "request",
         NEW y, Answered(g, y, [t |-> "acknowledged", r |-> call.r]),
         NEW x, Answered(y, x, [t |-> "completed", r |-> call.r, ok |-> FALSE]), Room(x)
  PROVE  Sound(x, q, d, u, {}, 0)
<1> DEFINE r == call.r
           ack == [t |-> "acknowledged", r |-> r]
           fin == [t |-> "completed", r |-> r, ok |-> FALSE]
<1>1. /\ r \in Requests /\ Asked(o, r) /\ ~Asked(u, r) /\ r < d.next
      /\ ~Acked(g, r) /\ ~Done(g, r) /\ ~Lent(g, r) /\ ~g.op[r].live
      /\ ~d.rec[r].acknowledged
      /\ ~g.terminal => d.rec[r].live /\ ~d.rec[r].seen_terminal
  BY AskedFacts
<1>2. /\ g \in HostState /\ d \in ClientState /\ o \in Outbox /\ About(g, q, d, o, {}, r) /\ Books(g, 2)
      /\ Inbox(g) /\ Route(g, d, o) /\ Calm(g, q) /\ Ended(g, d)
  BY <1>1 DEF Sound
<1>3. u \in Outbox /\ Single(u.pod) /\ (\A i : FewerCalls(o, u, i)) /\ (Leaving(u) => Leaving(o))
  BY TookFewer DEF Took
<1>4. /\ ack \in Answer /\ ack.t = "acknowledged" /\ ack.r = r
      /\ fin \in Answer /\ fin.t = "completed" /\ fin.r = r
  BY <1>1, ServiceAssumption DEF Answer, Requests
<1>5. Answered(g, y, ack) /\ Answered(y, x, fin)
  OBVIOUS
<1> HIDE DEF ack, fin
<1>6. /\ x \in HostState /\ x.threaded = g.threaded /\ x.terminal = g.terminal /\ x.last = g.last /\ x.route = g.route
      /\ x.failed = g.failed /\ x.provider_stop = g.provider_stop /\ x.rec = g.rec /\ x.op = g.op
      /\ y.terminal = g.terminal /\ y \in HostState /\ y.rec = g.rec
  BY <1>5 DEF Answered
<1>7. Inbox(y) /\ (~g.terminal => Mail(g, y, ack))
  <2>1. \A t : Misplaced(t, ack.t) => ~Has(g.reply, t, ack.r)
    BY <1>1, <1>4 DEF Misplaced, Acked, Lent, Done
  <2>2. Inbox(y)
    BY <1>2, <1>4, <1>5, <2>1, AnsweredInbox DEF Controls
  <2>3. ~g.terminal => Mail(g, y, ack)
    BY <1>2, <1>4, <1>5, AnsweredMail
  <2> QED BY <2>2, <2>3
<1>8. Inbox(x) /\ (~g.terminal => Mail(y, x, fin))
  <2>1. ~g.terminal => ~Done(y, r)
    BY <1>1, <1>4, <1>7 DEF Mail
  <2>2. ~y.terminal => \A t : Misplaced(t, fin.t) => ~Has(y.reply, t, fin.r)
    BY <1>4, <1>6, <2>1 DEF Misplaced, Done
  <2>3. Inbox(x)
    BY <1>4, <1>5, <1>6, <1>7, <2>2, AnsweredInbox DEF Controls
  <2>4. ~g.terminal => Mail(y, x, fin)
    BY <1>4, <1>5, <1>6, AnsweredMail
  <2> QED BY <2>3, <2>4
<1>9. /\ \A i : i # r => SameMail(g, x, i)
      /\ Left(x) <=> Left(g)
      /\ ~Lent(x, r)
      /\ Acked(x, r) => ~g.terminal
      /\ Done(x, r) <=> ~g.terminal
      /\ (Enrolled(x, r) <=> Enrolled(g, r)) /\ (Closes(x, r) <=> Closes(g, r)) /\ (Retires(x, r) <=> Retires(g, r))
      /\ (Never(x, r) <=> Never(g, r)) /\ (Withdrawn(x, r) <=> Withdrawn(g, r)) /\ (Withdraws(x, r) <=> Withdraws(g, r))
  <2>1. CASE g.terminal
    <3>1. (\A i : SameMail(g, y, i)) /\ (Left(y) <=> Left(g))
      BY <1>2, <1>4, <1>5, <2>1, AnsweredMail
    <3>2. (\A i : SameMail(y, x, i)) /\ (Left(x) <=> Left(y))
      BY <1>4, <1>5, <1>6, <2>1, AnsweredMail
    <3>3. \A i : SameMail(g, x, i)
      BY <3>1, <3>2 DEF SameMail
    <3> QED BY <1>1, <2>1, <3>1, <3>2, <3>3 DEF SameMail
  <2>2. CASE ~g.terminal
    <3>1. Mail(g, y, ack) /\ Mail(y, x, fin)
      BY <1>7, <1>8, <2>2
    <3>2. \A i : i # r => SameMail(g, y, i) /\ SameMail(y, x, i)
      BY <1>4, <3>1, MailOthers
    <3>3. \A i : i # r => SameMail(g, x, i)
      BY <3>2 DEF SameMail
    <3>4. Left(x) <=> Left(g)
      BY <1>4, <3>1 DEF Mail
    <3>5. ~Lent(x, r) /\ Done(x, r) /\ (Enrolled(x, r) <=> Enrolled(g, r))
      BY <1>1, <1>4, <3>1 DEF Mail
    <3>6. /\ (Closes(x, r) <=> Closes(g, r)) /\ (Retires(x, r) <=> Retires(g, r))
          /\ (Never(x, r) <=> Never(g, r)) /\ (Withdrawn(x, r) <=> Withdrawn(g, r)) /\ (Withdraws(x, r) <=> Withdraws(g, r))
      BY <1>4, <3>1 DEF Mail, Controls
    <3> QED BY <2>2, <3>3, <3>4, <3>5, <3>6
  <2> QED BY <2>1, <2>2
<1>10. About(x, q, d, u, {}, r)
  <2>1. Shape(x, r)
    BY <1>2, <1>6 DEF About, Shape
  <2>2. Loan(x, q, {}, r)
    BY <1>2, <1>6 DEF About, Loan, Spent, Unsettled, Owes
  <2>3. Watch(x, d, u, r)
    BY <1>2, <1>3, <1>6, <1>9 DEF About, Watch, Spent, Reads, FewerCalls
  <2>4. Answers(x, d, u, r)
    BY <1>1, <1>2, <1>3, <1>6, <1>9 DEF About, Answers, FewerCalls, Owes
  <2>5. Withdrawal(x, d, u, r)
    BY <1>1, <1>2, <1>3, <1>6, <1>9 DEF About, Withdrawal, FewerCalls
  <2> QED BY <2>1, <2>2, <2>3, <2>4, <2>5 DEF About
<1>11. Books(x, 0)
  <2>1. Debts(x) = Debts(g)
    BY <1>6 DEF Debts, Owing, Unpaid
  <2>2. Debts(g) \in Nat
    BY FewRequests, FS_Subset, FS_CardinalityType DEF Debts, Owing, Unpaid
  <2>3. g.reserved = Debts(g) + 2
    BY <1>2 DEF Books
  <2>4. x.reserved = (g.reserved - 1) - 1
    BY <1>5 DEF Answered
  <2>5. x.reserved = Debts(x) + 0
    BY <2>1, <2>2, <2>3, <2>4
  <2> QED BY <2>5 DEF Books, Room
<1>12. Onward(g, x) /\ d.next <= d.next
  <2>1. Onward(g, x)
    BY <1>2, <1>6, ServiceAssumption DEF Onward, HostState
  <2>2. d.next \in Nat
    BY <1>2, ServiceAssumption DEF ClientState
  <2> QED BY <2>1, <2>2
<1>13. \A i \in Requests : i # r => Apart(g, x, d, d, o, u, i)
  BY <1>3, <1>6, <1>9 DEF Apart, Same
<1>14. Route(x, d, u)
  BY <1>2, <1>3, <1>6, <1>9 DEF Route
<1>15. Calm(x, q) /\ Ended(x, d)
  BY <1>2, <1>6 DEF Calm, Ended
<1> QED BY <1>2, <1>3, <1>6, <1>8, <1>10, <1>11, <1>12, <1>13, <1>14, <1>15, StepSound

LEMMA RequestSound ==
  ASSUME NEW g, NEW q, NEW d, NEW o, NEW u, NEW call,
         Sound(g, q, d, o, {}, 2), Room(g), Took(o, u, call), call.t = "request"
  PROVE  Sound(Request(g, call.r, call.kind, call.of), q, d, u, {}, 0)
<1> DEFINE r == call.r
           ack == [t |-> "acknowledged", r |-> r]
           fin == [t |-> "completed", r |-> r, ok |-> FALSE]
           y == Reply(g, ack)
           x == [y EXCEPT !.last = r, !.op[r] = [NoOperation EXCEPT !.live = TRUE, !.kind = call.kind, !.of = call.of]]
           z == Reply(y, fin)
<1>1. r \in Requests
  BY AskedFacts
<1>2. ack \in Answer /\ fin \in Answer
  BY <1>1, ServiceAssumption DEF Answer, Requests
<1>3. g \in HostState /\ g.reserved \in Nat /\ g.reserved > 1 /\ ~g.failed
  <2>1. Debts(g) \in Nat
    BY FewRequests, FS_Subset, FS_CardinalityType DEF Debts, Owing, Unpaid
  <2>2. g.reserved = Debts(g) + 2 /\ g \in HostState /\ ~g.failed
    BY DEF Sound, Books, Calm
  <2> QED BY <2>1, <2>2
<1>4. Answered(g, y, ack) /\ Room(y)
  BY <1>2, <1>3, ReplyIs
<1>5. ~y.failed /\ y \in HostState /\ y.reserved = g.reserved - 1 /\ y.terminal = g.terminal /\ y.last = g.last
      /\ y.route = g.route
  BY <1>3, <1>4 DEF Answered
<1>6. Request(g, r, call.kind, call.of) =
          IF y.route = "open" /\ r > y.last /\ y.phase = "ready" /\ ~y.terminal THEN x ELSE z
  BY <1>5 DEF Request
<1> HIDE DEF y
<1>7. Answered(y, z, fin) /\ Room(z)
  BY <1>2, <1>3, <1>4, <1>5, ReplyIs
<1> HIDE DEF z
<1>8. Sound(z, q, d, u, {}, 0)
  BY <1>4, <1>7, RefusedSound
<1>9. y.route = "open" /\ r > y.last /\ ~y.terminal => Sound(x, q, d, u, {}, 0)
  BY <1>4, <1>5, AdmittedSound
<1> QED BY <1>6, <1>8, <1>9

\* One credit of a call is spent on its only answer.
LEMMA OneCredit ==
  ASSUME NEW g, NEW q, NEW d, NEW o, NEW x, NEW a, Sound(g, q, d, o, {}, 1), Answered(g, x, a), Room(x)
  PROVE  Books(x, 0)
<1>1. Debts(x) = Debts(g)
  BY DEF Answered, Debts, Owing, Unpaid
<1>2. Debts(g) \in Nat
  BY FewRequests, FS_Subset, FS_CardinalityType DEF Debts, Owing, Unpaid
<1>3. g.reserved = Debts(g) + 1
  BY DEF Sound, Books
<1>4. x.reserved = g.reserved - 1
  BY DEF Answered
<1>5. x.reserved = Debts(x) + 0
  BY <1>1, <1>2, <1>3, <1>4
<1> QED BY <1>5 DEF Books, Room

LEMMA HasCredit ==
  ASSUME NEW g, NEW q, NEW d, NEW o, Sound(g, q, d, o, {}, 1)
  PROVE  g \in HostState /\ g.reserved > 0
<1>1. Debts(g) \in Nat
  BY FewRequests, FS_Subset, FS_CardinalityType DEF Debts, Owing, Unpaid
<1>2. g.reserved = Debts(g) + 1 /\ g \in HostState
  BY DEF Sound, Books
<1> QED BY <1>1, <1>2

LEMMA RegisteredSound ==
  ASSUME NEW g, NEW q, NEW d, NEW o, NEW u, NEW call,
         Sound(g, q, d, o, {}, 1), Took(o, u, call), call.t = "register", call.r \in Requests,
         NEW ok \in BOOLEAN, NEW x, Answered(g, x, [t |-> "registered", r |-> call.r, ok |-> ok]), Room(x)
  PROVE  Sound(x, q, d, u, {}, 0)
<1> DEFINE r == call.r
           a == [t |-> "registered", r |-> r, ok |-> ok]
<1>1. /\ g \in HostState /\ d \in ClientState /\ o \in Outbox /\ About(g, q, d, o, {}, r)
      /\ Inbox(g) /\ Route(g, d, o) /\ Calm(g, q) /\ Ended(g, d)
  BY DEF Sound
<1>2. u \in Outbox /\ Single(u.pod) /\ (\A i : FewerCalls(o, u, i)) /\ (Leaving(u) => Leaving(o))
  BY TookFewer DEF Took
<1>3. Registering(o, r) /\ ~Registering(u, r)
  BY DEF Took
<1>4. ~Enrolled(g, r) /\ (~g.terminal => d.rec[r].live /\ d.rec[r].borrow /\ d.rec[r].waiting)
  BY <1>1, <1>3 DEF About, Answers
<1>5. a \in Answer /\ a.t = "registered" /\ a.r = r
  BY ServiceAssumption DEF Answer, Requests
<1>6. Answered(g, x, a) /\ r \in Requests
  OBVIOUS
<1> HIDE DEF a, r
<1>7. /\ x \in HostState /\ x.threaded = g.threaded /\ x.terminal = g.terminal /\ x.last = g.last /\ x.route = g.route
      /\ x.failed = g.failed /\ x.provider_stop = g.provider_stop /\ x.rec = g.rec /\ x.op = g.op
  BY <1>6 DEF Answered
<1>8. Inbox(x)
  <2>1. \A t : Misplaced(t, a.t) => ~Has(g.reply, t, a.r)
    BY <1>4, <1>5 DEF Misplaced, Enrolled
  <2> QED BY <1>1, <1>5, <1>6, <2>1, AnsweredInbox DEF Controls
<1>9. /\ \A i : i # r => SameMail(g, x, i)
      /\ Left(x) <=> Left(g)
      /\ Enrolled(x, r) => ~g.terminal
      /\ (Acked(x, r) <=> Acked(g, r)) /\ (Lent(x, r) <=> Lent(g, r)) /\ (Done(x, r) <=> Done(g, r))
      /\ (Closes(x, r) <=> Closes(g, r)) /\ (Retires(x, r) <=> Retires(g, r))
      /\ (Never(x, r) <=> Never(g, r)) /\ (Withdrawn(x, r) <=> Withdrawn(g, r)) /\ (Withdraws(x, r) <=> Withdraws(g, r))
  <2>1. CASE g.terminal
    BY <1>1, <1>4, <1>5, <1>6, <2>1, AnsweredMail DEF SameMail
  <2>2. CASE ~g.terminal
    <3>1. Mail(g, x, a)
      BY <1>1, <1>5, <1>6, <2>2, AnsweredMail
    <3>2. \A i : i # r => SameMail(g, x, i)
      BY <1>5, <3>1, MailOthers
    <3> QED BY <1>5, <2>2, <3>1, <3>2 DEF Mail, Controls
  <2> QED BY <2>1, <2>2
<1>10. About(x, q, d, u, {}, r)
  <2>1. Shape(x, r)
    BY <1>1, <1>7 DEF About, Shape
  <2>2. Loan(x, q, {}, r)
    BY <1>1, <1>7 DEF About, Loan, Spent, Unsettled, Owes
  <2>3. Watch(x, d, u, r)
    BY <1>1, <1>2, <1>7, <1>9 DEF About, Watch, Spent, Reads, FewerCalls
  <2>4. Answers(x, d, u, r)
    BY <1>1, <1>2, <1>3, <1>4, <1>7, <1>9 DEF About, Answers, FewerCalls, Owes
  <2>5. Withdrawal(x, d, u, r)
    BY <1>1, <1>2, <1>7, <1>9 DEF About, Withdrawal, FewerCalls
  <2> QED BY <2>1, <2>2, <2>3, <2>4, <2>5 DEF About
<1>11. Onward(g, x) /\ d.next <= d.next
  BY <1>1, <1>7, ServiceAssumption DEF Onward, HostState, ClientState
<1>12. \A i \in Requests : i # r => Apart(g, x, d, d, o, u, i)
  BY <1>2, <1>7, <1>9 DEF Apart, Same
<1>13. Route(x, d, u)
  BY <1>1, <1>2, <1>7, <1>9 DEF Route
<1>14. Calm(x, q) /\ Ended(x, d)
  BY <1>1, <1>7 DEF Calm, Ended
<1>15. Books(x, 0)
  BY <1>6, OneCredit
<1> QED BY <1>1, <1>2, <1>7, <1>8, <1>10, <1>11, <1>12, <1>13, <1>14, <1>15, StepSound

LEMMA RegisterSound ==
  ASSUME NEW g, NEW q, NEW d, NEW o, NEW u, NEW call,
         Sound(g, q, d, o, {}, 1), Room(g), Took(o, u, call), call.t = "register"
  PROVE  Sound(RegisterNotification(g, call.r), q, d, u, {}, 0)
<1> DEFINE r == call.r
           ok == RegisterStatus(g, r) = "success"
           b == [g.rec[r] EXCEPT !.registered = TRUE]
           y == [g EXCEPT !.rec[r].registered = TRUE]
           z == IF ok THEN y ELSE g
           a == [t |-> "registered", r |-> r, ok |-> ok]
<1>1. r \in Requests
  BY DEF Took, Call, Word
<1>2. RegisterNotification(g, r) = Reply(z, a)
  BY DEF RegisterNotification
<1>3. a \in Answer /\ ok \in BOOLEAN
  BY <1>1, ServiceAssumption DEF Answer, Requests
<1>4. g \in HostState /\ g.rec[r] \in Record /\ g.reserved \in Nat
  BY <1>1, Entries DEF Sound
<1>5. b \in Record /\ AsRecord(g.rec[r], b)
  BY <1>4 DEF Record, AsRecord
<1>6. y = WithRecord(g, r, b, g.reserved)
  BY <1>4 DEF WithRecord, HostState
<1> HIDE DEF b, y
<1>7. /\ y \in HostState /\ Rest(g, y) /\ Elsewhere(g, y, r)
      /\ y.rec[r] = b /\ y.op = g.op /\ y.reserved = g.reserved
  BY <1>1, <1>4, <1>5, <1>6, NewRecord
<1>8. Sound(y, q, d, o, {}, 1) /\ Room(y)
  <2>1. Sound(y, q, d, o, {}, 1)
    BY <1>1, <1>5, <1>7, RecordSound DEF Rest
  <2>2. Room(y)
    BY <1>7 DEF Rest, Still, Room
  <2> QED BY <2>1, <2>2
<1>9. Sound(z, q, d, o, {}, 1) /\ Room(z)
  BY <1>8
<1> HIDE DEF z, ok
<1>10. Answered(z, Reply(z, a), a) /\ Room(Reply(z, a))
  BY <1>3, <1>9, HasCredit, ReplyIs
<1>11. Sound(Reply(z, a), q, d, u, {}, 0)
  BY <1>1, <1>3, <1>9, <1>10, RegisteredSound
<1> QED BY <1>2, <1>11

LEMMA IdleRouteSound ==
  ASSUME NEW g, NEW q, NEW d, NEW o, NEW com, NEW n, Sound(g, q, d, o, com, n), RouteIdle(g)
  PROVE  Sound([g EXCEPT !.route = "none"], q, d, o, com, n)
<1> DEFINE x == [g EXCEPT !.route = "none"]
<1>1. g \in HostState
  BY DEF Sound
<1>2. x \in HostState /\ SameTables(g, x) /\ x.provider_stop = g.provider_stop
  BY <1>1 DEF HostState, SameTables, Routes
<1> HIDE DEF x
<1>3. ASSUME NEW r \in Requests PROVE About(x, q, d, o, com, r)
  <2>1. About(g, q, d, o, com, r) /\ ~g.op[r].live /\ ~g.rec[r].live
    BY DEF Sound, RouteIdle
  <2>2. Shape(x, r)
    BY <1>2, <2>1 DEF About, Shape, SameTables
  <2>3. Loan(x, q, com, r)
    BY <1>2, <2>1 DEF About, Loan, SameTables, Spent, Unsettled, Owes
  <2>4. Watch(x, d, o, r)
    BY <1>2, <2>1 DEF About, Watch, SameTables, Spent, Reads, Lent, Never, Closes, Retires
  <2>5. Answers(x, d, o, r)
    BY <1>2, <2>1 DEF About, Answers, SameTables, Owes, Done, Acked, Lent, Enrolled
  <2>6. Withdrawal(x, d, o, r)
    BY <1>2, <2>1 DEF About, Withdrawal, SameTables, Withdraws, Withdrawn, Closes, Retires, Lent
  <2> QED BY <2>2, <2>3, <2>4, <2>5, <2>6 DEF About
<1>4. Inbox(x) /\ Ended(x, d)
  BY <1>2 DEF Sound, Inbox, Ended, SameTables
<1>5. Route(x, d, o) /\ Calm(x, q)
  BY <1>2 DEF Sound, Route, SameTables, Left, Calm
<1>6. Books(x, n)
  <2>1. Debts(x) = Debts(g)
    BY <1>2 DEF Debts, Owing, Unpaid, SameTables
  <2> QED BY <1>2, <2>1 DEF Sound, Books, SameTables
<1>7. Sound(x, q, d, o, com, n)
  BY <1>2, <1>3, <1>4, <1>5, <1>6 DEF Sound
<1> QED BY <1>7 DEF x

LEMMA ClosedSound ==
  ASSUME NEW g, NEW q, NEW d, NEW o, NEW u, NEW call,
         Sound(g, q, d, o, {}, 1), Took(o, u, call), call.t = "close",
         NEW ok \in BOOLEAN, NEW x, Answered(g, x, [t |-> "closed", r |-> 0, ok |-> ok]), Room(x)
  PROVE  Sound(x, q, d, u, {}, 0)
<1> DEFINE a == [t |-> "closed", r |-> 0, ok |-> ok]
<1>1. /\ g \in HostState /\ d \in ClientState /\ o \in Outbox
      /\ Inbox(g) /\ Route(g, d, o) /\ Calm(g, q) /\ Ended(g, d)
  BY DEF Sound
<1>2. u \in Outbox /\ Single(u.pod) /\ (\A i : FewerCalls(o, u, i)) /\ call.r = 0
  BY TookFewer DEF Took, Call, Word
<1>3. Leaving(o) /\ ~Leaving(u)
  BY <1>2 DEF Took
<1>4. ~Left(g) /\ (~g.terminal => d.route = "closing")
  BY <1>1, <1>3 DEF Route
<1>5. a \in Answer /\ a.t = "closed" /\ a.r = 0
  BY ServiceAssumption DEF Answer
<1>6. Answered(g, x, a)
  OBVIOUS
<1> HIDE DEF a
<1>7. /\ x \in HostState /\ x.threaded = g.threaded /\ x.terminal = g.terminal /\ x.last = g.last /\ x.route = g.route
      /\ x.failed = g.failed /\ x.provider_stop = g.provider_stop /\ x.rec = g.rec /\ x.op = g.op
  BY <1>6 DEF Answered
<1>8. Inbox(x)
  <2>1. \A t : Misplaced(t, a.t) => ~Has(g.reply, t, a.r)
    BY <1>4, <1>5 DEF Misplaced, Left
  <2> QED BY <1>1, <1>5, <1>6, <2>1, AnsweredInbox DEF Controls
<1>9. \A i : i # 0 => SameMail(g, x, i)
  BY <1>1, <1>5, <1>6, AnsweredMail
<1>10. Onward(g, x) /\ d.next <= d.next
  BY <1>1, <1>7, ServiceAssumption DEF Onward, HostState, ClientState
<1>11. \A i \in Requests : i # 0 => Apart(g, x, d, d, o, u, i)
  BY <1>2, <1>7, <1>9 DEF Apart, Same
<1>12. Route(x, d, u)
  <2>1. Left(x) => ~g.terminal
    BY <1>1, <1>4, <1>5, <1>6, AnsweredMail
  <2> QED BY <1>1, <1>3, <1>4, <1>7, <2>1 DEF Route
<1>13. Calm(x, q) /\ Ended(x, d)
  BY <1>1, <1>7 DEF Calm, Ended
<1>14. Books(x, 0)
  BY <1>6, OneCredit
<1>15. 0 \notin Requests
  BY DEF Requests
<1> QED BY <1>1, <1>2, <1>7, <1>8, <1>10, <1>11, <1>12, <1>13, <1>14, <1>15, StepSound

LEMMA CloseRouteSound ==
  ASSUME NEW g, NEW q, NEW d, NEW o, NEW u, NEW call,
         Sound(g, q, d, o, {}, 1), Room(g), Took(o, u, call), call.t = "close"
  PROVE  Sound(CloseRoute(g), q, d, u, {}, 0)
<1> DEFINE idle == g.route # "none" /\ RouteIdle(g)
           y == [g EXCEPT !.route = "none"]
           z == IF idle THEN y ELSE g
           a == [t |-> "closed", r |-> 0, ok |-> idle]
<1>1. CloseRoute(g) = Reply(z, a)
  BY DEF CloseRoute
<1>2. a \in Answer /\ idle \in BOOLEAN
  BY ServiceAssumption DEF Answer
<1>3. idle => Sound(y, q, d, o, {}, 1)
  BY IdleRouteSound
<1>4. Room(y)
  BY DEF Sound, HostState, Room
<1>5. Sound(z, q, d, o, {}, 1) /\ Room(z)
  BY <1>3, <1>4
<1> HIDE DEF z, idle
<1>6. Answered(z, Reply(z, a), a) /\ Room(Reply(z, a))
  BY <1>2, <1>5, HasCredit, ReplyIs
<1>7. Sound(Reply(z, a), q, d, u, {}, 0)
  BY <1>2, <1>5, <1>6, ClosedSound
<1> QED BY <1>1, <1>7

LEMMA QuiescedSound ==
  ASSUME NEW g, NEW q, NEW d, NEW o, NEW u, NEW call,
         Sound(g, q, d, o, {}, 0), Took(o, u, call), call.t = "quiescent"
  PROVE  Sound(Quiesced(g, call.r), q, d, u, {}, 0)
<1> DEFINE r == call.r
<1>1. r \in Requests
  BY DEF Took, Call, Word
<1>2. Quitting(o, r)
  BY DEF Took
<1>3. Watch(g, d, o, r) /\ Withdrawal(g, d, o, r)
  BY <1>1 DEF Sound, About
<1>4. ~Reads(g, d, r)
  BY <1>2, <1>3 DEF Watch
<1>5. d.rec[r].live => d.rec[r].quiescent
  BY <1>2, <1>3 DEF Withdrawal
<1>6. Sound(g, q, d, u, {}, 0)
  BY TookSound
<1> HIDE DEF r
<1>7. g.rec[r].closing /\ g.rec[r].published /\ g.rec[r].quiescence = "none"
        => Sound([g EXCEPT !.rec[r].quiescence = "relinquished"], q, d, u, {}, 0)
  BY <1>1, <1>4, <1>5, <1>6, QuiescenceSound
<1>8. Sound(Quiesced(g, r), q, d, u, {}, 0)
  BY <1>6, <1>7 DEF Quiesced
<1> QED BY <1>8 DEF r

(* --------------------- the drain of the outbox -------------------------- *)

LEMMA CancelRequestSound ==
  ASSUME NEW g, NEW q, NEW d, NEW o, NEW r \in Requests, Sound(g, q, d, o, {}, 0)
  PROVE  Sound(CancelRequest(g, r), q, d, o, {}, 0)
<1>1. Sound(CloseBorrow(g, r), q, d, o, {}, 0)
  BY CloseSound
<1>2. Sound(Cancel(CloseBorrow(g, r), r), q, d, o, {}, 0)
  BY <1>1, CancelSound
<1> QED BY <1>2 DEF CancelRequest

LEMMA ReceivedSound ==
  ASSUME NEW g, NEW q, NEW d, NEW o, NEW u, NEW call,
         Sound(g, q, d, o, {}, 0), Took(o, u, call), CanReserve(g, Credits(call))
  PROVE  Sound(Received(Reserve(g, Credits(call)), call), q, d, u, {}, 0)
<1> DEFINE k == Credits(call)
           x == Reserve(g, k)
<1>1. call.t \in {"request", "register", "close", "cancel", "release", "quiescent"} /\ call \in Call
  BY DEF Took, Call, Word
<1>2. k \in Nat
  BY <1>1 DEF Credits
<1>3. Sound(x, q, d, o, {}, k) /\ Room(x)
  BY <1>2, ReserveIs
<1> HIDE DEF x
<1>4. CASE call.t = "request"
  <2>1. k = 2 /\ Received(x, call) = Request(x, call.r, call.kind, call.of)
    BY <1>4 DEF Credits, Received
  <2> QED BY <1>3, <1>4, <2>1, RequestSound DEF x
<1>5. CASE call.t = "register"
  <2>1. k = 1 /\ Received(x, call) = RegisterNotification(x, call.r)
    BY <1>5 DEF Credits, Received
  <2> QED BY <1>3, <1>5, <2>1, RegisterSound DEF x
<1>6. CASE call.t = "close"
  <2>1. k = 1 /\ Received(x, call) = CloseRoute(x)
    BY <1>6 DEF Credits, Received
  <2> QED BY <1>3, <1>6, <2>1, CloseRouteSound DEF x
<1>7. CASE call.t = "cancel"
  <2>1. k = 0 /\ Received(x, call) = CancelRequest(x, call.r)
    BY <1>7 DEF Credits, Received
  <2>2. call.r \in Requests
    BY <1>1, <1>7 DEF Call, Word
  <2>3. Sound(x, q, d, u, {}, 0)
    BY <1>3, <2>1, TookSound
  <2> QED BY <2>1, <2>2, <2>3, CancelRequestSound DEF x
<1>8. CASE call.t = "release"
  <2>1. k = 0 /\ Received(x, call) = CloseBorrow(x, call.r)
    BY <1>8 DEF Credits, Received
  <2>2. call.r \in Requests
    BY <1>1, <1>8 DEF Call, Word
  <2>3. Sound(x, q, d, u, {}, 0)
    BY <1>3, <2>1, TookSound
  <2> QED BY <2>1, <2>2, <2>3, CloseSound DEF x
<1>9. CASE call.t = "quiescent"
  <2>1. k = 0 /\ Received(x, call) = Quiesced(x, call.r)
    BY <1>9 DEF Credits, Received
  <2> QED BY <1>3, <1>9, <2>1, QuiescedSound DEF x
<1> QED BY <1>1, <1>4, <1>5, <1>6, <1>7, <1>8, <1>9

\* The outbox with what is left of one of its lanes.
Put(o, lane, left) ==
    IF lane = "control" THEN [control |-> left, pod |-> o.pod] ELSE [control |-> o.control, pod |-> left]

Drained(s, q, d, o, lane) == Sound(s.h, q, d, Put(o, lane, s.left), {}, 0)

LEMMA ReceiveOneSound ==
  ASSUME NEW s, NEW q, NEW d, NEW o, NEW lane \in {"control", "pod"}, Drained(s, q, d, o, lane)
  PROVE  Drained(ReceiveOne(s), q, d, o, lane)
<1> DEFINE call == Head(s.left)
           v == Put(o, lane, s.left)
           u == Put(o, lane, Tail(s.left))
           x == Received(Reserve(s.h, Credits(call)), call)
<1>1. ReceiveOne(s) = IF s.left = <<>> \/ ~CanReserve(s.h, Credits(call)) THEN s
                      ELSE [h |-> x, left |-> Tail(s.left)]
  BY DEF ReceiveOne
<1>2. CASE s.left = <<>> \/ ~CanReserve(s.h, Credits(call))
  BY <1>1, <1>2
<1>3. CASE s.left # <<>> /\ CanReserve(s.h, Credits(call))
  <2>1. Sound(s.h, q, d, v, {}, 0)
    BY DEF Drained
  <2>2. v \in Outbox /\ Single(v.pod)
    BY <2>1 DEF Sound
  <2>3. Taken(v, u, call)
    BY <1>3 DEF Taken, Put
  <2> HIDE DEF v, u, call
  <2>4. Took(v, u, call)
    BY <2>2, <2>3, TakenTook
  <2>5. Sound(x, q, d, u, {}, 0)
    BY <1>3, <2>1, <2>4, ReceivedSound
  <2> HIDE DEF x
  <2> QED BY <1>1, <1>3, <2>5 DEF Drained, u
<1> QED BY <1>2, <1>3

LEMMA DrainedTypes ==
  ASSUME NEW s, NEW q, NEW d, NEW o, NEW lane \in {"control", "pod"}, Drained(s, q, d, o, lane)
  PROVE  s.h \in HostState /\ s.left \in Seq(Call)
<1>1. s.h \in HostState /\ Put(o, lane, s.left) \in Outbox
  BY DEF Drained, Sound
<1>2. s.left \in Seq(Word) \/ s.left \in Seq(Call)
  BY <1>1 DEF Put, Outbox
<1>3. Word \subseteq Call
  BY DEF Call
<1>4. s.left \in Seq(Word) => s.left \in Seq(Call)
  BY <1>3
<1> QED BY <1>1, <1>2, <1>4

LEMMA ReceiveOneTypes ==
  ASSUME NEW s \in [h : HostState, left : Seq(Call)], NEW q, NEW d, NEW o, NEW lane \in {"control", "pod"},
         Drained(s, q, d, o, lane)
  PROVE  ReceiveOne(s) \in [h : HostState, left : Seq(Call)]
<1> DEFINE x == Received(Reserve(s.h, Credits(Head(s.left))), Head(s.left))
           e == [h |-> x, left |-> Tail(s.left)]
<1>1. ReceiveOne(s) = s \/ ReceiveOne(s) = e
  BY DEF ReceiveOne
<1> HIDE DEF x
<1>2. Drained(ReceiveOne(s), q, d, o, lane)
  BY ReceiveOneSound
<1>3. ReceiveOne(s).h \in HostState /\ ReceiveOne(s).left \in Seq(Call)
  BY <1>2, DrainedTypes
<1> QED BY <1>1, <1>3

LEMMA DrainLaneSound ==
  ASSUME NEW g \in HostState, NEW messages \in Seq(Call), NEW q, NEW d, NEW o, NEW lane \in {"control", "pod"},
         Sound(g, q, d, Put(o, lane, messages), {}, 0)
  PROVE  Drained(DrainLane(g, messages), q, d, o, lane)
<1> DEFINE G == [i \in 0..Len(messages) |-> {s \in [h : HostState, left : Seq(Call)] : Drained(s, q, d, o, lane)}]
           Upto(e) == e = [i \in 0..Len(messages) |-> IF i = 0 THEN [h |-> g, left |-> messages] ELSE ReceiveOne(e[i - 1])]
           f == CHOOSE e : Upto(e)
<1>1. Len(messages) \in Nat
  OBVIOUS
<1>2. \A i \in 0..Len(messages) : G[i] = {s \in [h : HostState, left : Seq(Call)] : Drained(s, q, d, o, lane)}
  OBVIOUS
<1> HIDE DEF G
<1>3. [h |-> g, left |-> messages] \in G[0]
  <2>1. 0 \in 0..Len(messages)
    BY <1>1
  <2> QED BY <1>2, <2>1 DEF Drained
<1>4. ASSUME NEW i \in 1..Len(messages), NEW x \in G[i - 1] PROVE ReceiveOne(x) \in G[i]
  <2>1. i - 1 \in 0..Len(messages) /\ i \in 0..Len(messages) 
    BY <1>1
  <2>2. x \in {s \in [h : HostState, left : Seq(Call)] : Drained(s, q, d, o, lane)}
    BY <1>2, <2>1
  <2>3. Drained(ReceiveOne(x), q, d, o, lane)
    BY <2>2, ReceiveOneSound
  <2>4. ReceiveOne(x) \in [h : HostState, left : Seq(Call)]
    BY <2>2, ReceiveOneTypes
  <2> QED BY <1>2, <2>1, <2>3, <2>4
<1>5. \E e : Upto(e)
  <2> DEFINE step == [i \in 1..Len(messages) |-> [x \in G[i - 1] |-> ReceiveOne(x)]]
  <2>1. \A i \in 1..Len(messages) : \A x \in G[i - 1] : step[i][x] = ReceiveOne(x)
    OBVIOUS
  <2>2. \A i \in 1..Len(messages) : \A x \in G[i - 1] : step[i][x] \in G[i]
    BY <1>4, <2>1
  <2> HIDE DEF step
  <2>3. PICK e : Stepped(e, Len(messages), [h |-> g, left |-> messages], step) /\ \A i \in 0..Len(messages) : e[i] \in G[i]
    BY <1>1, <1>3, <2>2, Run
  <2>4. ASSUME NEW i \in 0..Len(messages), i # 0 PROVE step[i][e[i - 1]] = ReceiveOne(e[i - 1])
    <3>1. i \in 1..Len(messages) /\ e[i - 1] \in G[i - 1]
      BY <1>1, <2>3, <2>4
    <3> QED BY <2>1, <3>1
  <2>5. Upto(e)
    BY <2>3, <2>4 DEF Stepped
  <2> QED BY <2>5
<1>6. Upto(f)
  <2> HIDE DEF Upto
  <2> QED BY <1>5
<1>7. DrainLane(g, messages) = f[Len(messages)]
  BY DEF DrainLane
<1> HIDE DEF f
<1>8. f[0] = [h |-> g, left |-> messages] /\ \A i \in 1..Len(messages) : f[i] = ReceiveOne(f[i - 1])
  <2>1. 0 \in 0..Len(messages) /\ \A i \in 1..Len(messages) : i \in 0..Len(messages) /\ i # 0
    BY <1>1
  <2>2. \A i \in 0..Len(messages) : f[i] = IF i = 0 THEN [h |-> g, left |-> messages] ELSE ReceiveOne(f[i - 1])
    BY <1>6
  <2> QED BY <2>1, <2>2
<1>9. \A i \in 1..Len(messages) : f[i - 1] \in G[i - 1] => f[i] \in G[i]
  BY <1>4, <1>8
<1>10. f[Len(messages)] \in G[Len(messages)]
  BY <1>1, <1>3, <1>8, <1>9, Carried
<1>11. f[Len(messages)] \in {s \in [h : HostState, left : Seq(Call)] : Drained(s, q, d, o, lane)}
  BY <1>1, <1>2, <1>10
<1> QED BY <1>7, <1>11

LEMMA DrainKeeps ==
  ASSUME IInv, Drain
  PROVE  IInv'
<1> DEFINE a == DrainLane(h, out.control)
           b == DrainLane(a.h, out.pod)
           o1 == [control |-> a.left, pod |-> out.pod]
           o2 == [control |-> a.left, pod |-> b.left]
<1>1. Sound(h, p, c, out, {}, 0) /\ disturbed \in 0..Disturbances /\ ~c.refused
  BY DEF IInv
<1>2. h' = b.h /\ out' = o2 /\ UNCHANGED <<p, c, disturbed>> /\ turn' = "pump"
  BY DEF Drain
<1>3. h \in HostState /\ out.control \in Seq(Word) /\ out.pod \in Seq(Call)
  BY <1>1 DEF Sound, Outbox
<1>4. out.control \in Seq(Call)
  <2>1. Word \subseteq Call
    BY DEF Call
  <2> QED BY <1>3, <2>1
<1>5. Put(out, "control", out.control) = out
  BY <1>1 DEF Put, Sound, Outbox
<1>6. Drained(a, p, c, out, "control")
  BY <1>1, <1>3, <1>4, <1>5, DrainLaneSound
<1> HIDE DEF a
<1>7. Sound(a.h, p, c, o1, {}, 0) /\ a.h \in HostState
  BY <1>6 DEF Drained, Put, Sound
<1>8. Put(o1, "pod", out.pod) = o1
  BY DEF Put
<1>9. Drained(b, p, c, o1, "pod")
  BY <1>3, <1>7, <1>8, DrainLaneSound
<1> HIDE DEF b
<1>10. Sound(b.h, p, c, o2, {}, 0)
  BY <1>9 DEF Drained, Put
<1> QED BY <1>1, <1>2, <1>10 DEF IInv

(* ------------------------ a client is retired --------------------------- *)

\* The loops of RetireClient, each under a name.
EndOne(g, r, quiet) ==
    LET closed == CloseBorrow(g, r) IN
    IF closed.rec[r].live /\ quiet /\ closed.rec[r].quiescence = "none"
    THEN [closed EXCEPT !.rec[r].quiescence = "execution_ended"] ELSE closed

EndedAll(g, quiet) == LET after[r \in 0..N] == IF r = 0 THEN g ELSE EndOne(after[r - 1], r, quiet) IN after[N]

CancelledAll(g) == LET after[r \in 0..N] == IF r = 0 THEN g ELSE Cancel(after[r - 1], r) IN after[N]

\* The client is gone, and nothing of it runs when quiet is said of it.
Gone(g, d, quiet) == g.terminal /\ (quiet => \A r \in Requests : ~d.using[r])

LEMMA EndOneSound ==
  ASSUME NEW g, NEW q, NEW d, NEW o, NEW r \in Requests, NEW quiet,
         Sound(g, q, d, o, {}, 0), Gone(g, d, quiet)
  PROVE  Sound(EndOne(g, r, quiet), q, d, o, {}, 0) /\ Gone(EndOne(g, r, quiet), d, quiet)
<1> DEFINE x == CloseBorrow(g, r)
           y == [x EXCEPT !.rec[r].quiescence = "execution_ended"]
<1>1. EndOne(g, r, quiet) = IF x.rec[r].live /\ quiet /\ x.rec[r].quiescence = "none" THEN y ELSE x
  BY DEF EndOne
<1>2. Sound(x, q, d, o, {}, 0)
  BY CloseSound
<1>3. x \in HostState /\ x.terminal = g.terminal /\ x.rec[r].live = g.rec[r].live
  BY CloseKeeps DEF Rest, Still
<1>4. x.rec[r].live => x.rec[r].closing
  <2>1. g \in HostState /\ (Unsettled(g.rec[r]) => g.reserved > 0)
    BY Funded DEF Sound
  <2> QED BY <1>3, <2>1, ClosedIs DEF Closed
<1> HIDE DEF x
<1>5. x.terminal /\ d.rec[r] = NoClientRecord /\ x.reply = <<>>
  BY <1>2, <1>3 DEF Gone, Sound, Ended, Inbox
<1>6. ~Lent(x, r) /\ ~d.rec[r].view /\ ~d.rec[r].live
  BY <1>5 DEF Lent, Has, NoClientRecord
<1>7. quiet => ~Reads(x, d, r)
  BY <1>6 DEF Reads, Gone
<1>8. x.rec[r].live /\ x.rec[r].quiescence = "none" => x.rec[r].published
  BY <1>2, <1>4 DEF Sound, About, Shape
<1>9. x.rec[r].live /\ quiet /\ x.rec[r].quiescence = "none" => Sound(y, q, d, o, {}, 0)
  BY <1>2, <1>4, <1>5, <1>6, <1>7, <1>8, QuiescenceSound
<1>10. y.terminal = x.terminal
  BY <1>3 DEF HostState
<1> QED BY <1>1, <1>2, <1>3, <1>9, <1>10 DEF Gone

LEMMA EndedAllSound ==
  ASSUME NEW g, NEW q, NEW d, NEW o, Sound(g, q, d, o, {}, 0), NEW quiet, Gone(g, d, quiet)
  PROVE  Sound(EndedAll(g, quiet), q, d, o, {}, 0)
<1> DEFINE G == [i \in 0..N |-> {x \in HostState : Sound(x, q, d, o, {}, 0) /\ Gone(x, d, quiet)}]
           Upto(e) == e = [i \in 0..N |-> IF i = 0 THEN g ELSE EndOne(e[i - 1], i, quiet)]
           f == CHOOSE e : Upto(e)
<1>1. N \in Nat /\ 1..N = Requests
  BY ServiceAssumption DEF Requests
<1>2. \A i \in 0..N : G[i] = {x \in HostState : Sound(x, q, d, o, {}, 0) /\ Gone(x, d, quiet)}
  OBVIOUS
<1> HIDE DEF G
<1>3. g \in G[0]
  BY <1>1, <1>2 DEF Sound
<1>4. ASSUME NEW i \in 1..N, NEW x \in G[i - 1] PROVE EndOne(x, i, quiet) \in G[i]
  <2>1. i - 1 \in 0..N /\ i \in 0..N  /\ i \in Requests
    BY <1>1
  <2>2. x \in {z \in HostState : Sound(z, q, d, o, {}, 0) /\ Gone(z, d, quiet)}
    BY <1>2, <2>1
  <2>3. Sound(EndOne(x, i, quiet), q, d, o, {}, 0) /\ Gone(EndOne(x, i, quiet), d, quiet)
    BY <2>1, <2>2, EndOneSound
  <2>4. EndOne(x, i, quiet) \in HostState
    BY <2>3 DEF Sound
  <2> QED BY <1>2, <2>1, <2>3, <2>4
<1>5. \E e : Upto(e)
  <2> DEFINE step == [i \in 1..N |-> [x \in G[i - 1] |-> EndOne(x, i, quiet)]]
  <2>1. \A i \in 1..N : \A x \in G[i - 1] : step[i][x] = EndOne(x, i, quiet)
    OBVIOUS
  <2>2. \A i \in 1..N : \A x \in G[i - 1] : step[i][x] \in G[i]
    BY <1>4, <2>1
  <2> HIDE DEF step
  <2>3. PICK e : Stepped(e, N, g, step) /\ \A i \in 0..N : e[i] \in G[i]
    BY <1>1, <1>3, <2>2, Run
  <2>4. ASSUME NEW i \in 0..N, i # 0 PROVE step[i][e[i - 1]] = EndOne(e[i - 1], i, quiet)
    <3>1. i \in 1..N /\ e[i - 1] \in G[i - 1]
      BY <1>1, <2>3, <2>4
    <3> QED BY <2>1, <3>1
  <2>5. Upto(e)
    BY <2>3, <2>4 DEF Stepped
  <2> QED BY <2>5
<1>6. Upto(f)
  <2> HIDE DEF Upto
  <2> QED BY <1>5
<1>7. EndedAll(g, quiet) = f[N]
  BY DEF EndedAll
<1> HIDE DEF f
<1>8. f[0] = g /\ \A i \in 1..N : f[i] = EndOne(f[i - 1], i, quiet)
  <2>1. 0 \in 0..N /\ \A i \in 1..N : i \in 0..N /\ i # 0
    BY <1>1
  <2>2. \A i \in 0..N : f[i] = IF i = 0 THEN g ELSE EndOne(f[i - 1], i, quiet)
    BY <1>6
  <2> QED BY <2>1, <2>2
<1>9. \A i \in 1..N : f[i - 1] \in G[i - 1] => f[i] \in G[i]
  BY <1>4, <1>8
<1>10. f[N] \in G[N]
  BY <1>1, <1>3, <1>8, <1>9, Carried
<1>11. f[N] \in {x \in HostState : Sound(x, q, d, o, {}, 0) /\ Gone(x, d, quiet)}
  BY <1>1, <1>2, <1>10
<1> QED BY <1>7, <1>11

LEMMA CancelledAllSound ==
  ASSUME NEW g, NEW q, NEW d, NEW o, Sound(g, q, d, o, {}, 0)
  PROVE  Sound(CancelledAll(g), q, d, o, {}, 0)
<1> DEFINE G == [i \in 0..N |-> {x \in HostState : Sound(x, q, d, o, {}, 0)}]
           Upto(e) == e = [i \in 0..N |-> IF i = 0 THEN g ELSE Cancel(e[i - 1], i)]
           f == CHOOSE e : Upto(e)
<1>1. N \in Nat /\ 1..N = Requests
  BY ServiceAssumption DEF Requests
<1>2. \A i \in 0..N : G[i] = {x \in HostState : Sound(x, q, d, o, {}, 0)}
  OBVIOUS
<1> HIDE DEF G
<1>3. g \in G[0]
  BY <1>1, <1>2 DEF Sound
<1>4. ASSUME NEW i \in 1..N, NEW x \in G[i - 1] PROVE Cancel(x, i) \in G[i]
  <2>1. i - 1 \in 0..N /\ i \in 0..N  /\ i \in Requests
    BY <1>1
  <2>2. x \in {z \in HostState : Sound(z, q, d, o, {}, 0)}
    BY <1>2, <2>1
  <2>3. Sound(Cancel(x, i), q, d, o, {}, 0)
    BY <2>1, <2>2, CancelSound
  <2>4. Cancel(x, i) \in HostState
    BY <2>3 DEF Sound
  <2> QED BY <1>2, <2>1, <2>3, <2>4
<1>5. \E e : Upto(e)
  <2> DEFINE step == [i \in 1..N |-> [x \in G[i - 1] |-> Cancel(x, i)]]
  <2>1. \A i \in 1..N : \A x \in G[i - 1] : step[i][x] = Cancel(x, i)
    OBVIOUS
  <2>2. \A i \in 1..N : \A x \in G[i - 1] : step[i][x] \in G[i]
    BY <1>4, <2>1
  <2> HIDE DEF step
  <2>3. PICK e : Stepped(e, N, g, step) /\ \A i \in 0..N : e[i] \in G[i]
    BY <1>1, <1>3, <2>2, Run
  <2>4. ASSUME NEW i \in 0..N, i # 0 PROVE step[i][e[i - 1]] = Cancel(e[i - 1], i)
    <3>1. i \in 1..N /\ e[i - 1] \in G[i - 1]
      BY <1>1, <2>3, <2>4
    <3> QED BY <2>1, <3>1
  <2>5. Upto(e)
    BY <2>3, <2>4 DEF Stepped
  <2> QED BY <2>5
<1>6. Upto(f)
  <2> HIDE DEF Upto
  <2> QED BY <1>5
<1>7. CancelledAll(g) = f[N]
  BY DEF CancelledAll
<1> HIDE DEF f
<1>8. f[0] = g /\ \A i \in 1..N : f[i] = Cancel(f[i - 1], i)
  <2>1. 0 \in 0..N /\ \A i \in 1..N : i \in 0..N /\ i # 0
    BY <1>1
  <2>2. \A i \in 0..N : f[i] = IF i = 0 THEN g ELSE Cancel(f[i - 1], i)
    BY <1>6
  <2> QED BY <2>1, <2>2
<1>9. \A i \in 1..N : f[i - 1] \in G[i - 1] => f[i] \in G[i]
  BY <1>4, <1>8
<1>10. f[N] \in G[N]
  BY <1>1, <1>3, <1>8, <1>9, Carried
<1>11. f[N] \in {x \in HostState : Sound(x, q, d, o, {}, 0)}
  BY <1>1, <1>2, <1>10
<1> QED BY <1>7, <1>11

LEMMA RetireClientSound ==
  ASSUME NEW g, NEW q, NEW d, NEW o, Sound(g, q, d, o, {}, 0), NEW quiet, Gone(g, d, quiet)
  PROVE  Sound(RetireClient(g, quiet), q, d, o, {}, 0)
<1> DEFINE ended == EndedAll(g, quiet)
           x == [ended EXCEPT !.route = IF @ = "none" THEN @ ELSE "closing"]
<1>1. RetireClient(g, quiet) = CancelledAll(x)
  BY DEF RetireClient, ForEachRequest, EndedAll, CancelledAll, EndOne
<1>2. Sound(ended, q, d, o, {}, 0)
  BY EndedAllSound
<1> HIDE DEF ended
<1>3. ended \in HostState
  BY <1>2 DEF Sound, Calm
<1>4. x \in HostState /\ SameTables(ended, x) /\ (x.route = "none" => ended.route = "none") /\ x.provider_stop = ended.provider_stop
  BY <1>3 DEF HostState, SameTables, Routes
<1> HIDE DEF x
<1>5. Sound(x, q, d, o, {}, 0)
  BY <1>2, <1>3, <1>4, FlagsSound
<1>6. Sound(CancelledAll(x), q, d, o, {}, 0)
  BY <1>5, CancelledAllSound
<1> QED BY <1>1, <1>6

(* --------------------- what the router sends ---------------------------- *)

\* Only the lanes of the client's inbox differ.
Lanes(g, y) ==
    /\ y \in HostState /\ y.threaded = g.threaded /\ y.terminal = g.terminal /\ y.last = g.last
    /\ y.route = g.route /\ y.failed = g.failed /\ y.provider_stop = g.provider_stop
    /\ y.op = g.op /\ y.rec = g.rec /\ y.reserved = g.reserved

LEMMA PostIs ==
  ASSUME NEW g \in HostState, NEW a \in Answer, a.t \in Controls, Inbox(g), ~g.terminal,
         \A t : Misplaced(t, a.t) => ~Has(g.reply, t, a.r) /\ ~Has(g.control, t, a.r)
  PROVE  LET y == Post(g, a) IN Lanes(g, y) /\ Mail(g, y, a) /\ Inbox(y) /\ (Room(g) => Room(y))
<1> DEFINE y == Post(g, a)
<1>1. g.reply \in Seq(Answer) /\ g.control \in Seq(Answer)
  BY DEF HostState
<1>2. CASE g.threaded
  <2> DEFINE s == Append(g.reply, a)
  <2>1. s \in Seq(Answer) /\ Ordered(s)
    BY <1>1, AppendedAt, AppendOrdered DEF Inbox
  <2>2. y = [g EXCEPT !.reply = s]
    BY <1>2 DEF Post
  <2> HIDE DEF s, y
  <2>3. Lanes(g, y) /\ y.reply = s /\ y.control = g.control
    BY <2>1, <2>2 DEF HostState, Lanes
  <2>4. Mail(g, y, a)
    BY <2>3, MailedReply DEF s
  <2>5. Inbox(y)
    BY <1>2, <2>1, <2>3 DEF Inbox, Lanes
  <2>6. Room(y)
    BY <1>2, <2>3 DEF Room, Lanes
  <2> QED BY <2>3, <2>4, <2>5, <2>6 DEF y
<1>3. CASE ~g.threaded
  <2> DEFINE s == Append(g.control, a)
  <2>1. s \in Seq(Answer) /\ Ordered(s)
    BY <1>1, AppendedAt, AppendOrdered DEF Inbox
  <2>2. y = [g EXCEPT !.control = s]
    BY <1>3 DEF Post
  <2>3. /\ Len(g.control) \in Nat /\ Len(s) = Len(g.control) + 1
        /\ \A i \in 1..Len(g.control) : s[i] = g.control[i]
        /\ s[Len(g.control) + 1] = a
    BY <1>1, AppendedAt
  <2>4. \A i \in 1..Len(s) : s[i].t \in Controls
    <3> SUFFICES ASSUME NEW i \in 1..Len(s) PROVE s[i].t \in Controls
      OBVIOUS
    <3> HIDE DEF s
    <3>1. i \in 1..Len(g.control) \/ i = Len(g.control) + 1
      BY <2>3
    <3> QED BY <2>3, <3>1 DEF Inbox
  <2> HIDE DEF s, y
  <2>5. Lanes(g, y) /\ y.reply = g.reply /\ y.control = s
    BY <2>1, <2>2 DEF HostState, Lanes
  <2>6. Mail(g, y, a)
    BY <2>5, MailedControl DEF s
  <2>7. Inbox(y)
    BY <1>3, <2>1, <2>4, <2>5 DEF Inbox, Lanes
  <2>8. Room(g) => Room(y)
    BY <2>5 DEF Room, Lanes
  <2> QED BY <2>5, <2>6, <2>7, <2>8 DEF y
<1> QED BY <1>2, <1>3

LEMMA PostReplyIs ==
  ASSUME NEW g \in HostState, NEW a \in Answer, a.t \notin Controls, Inbox(g), CanPostReply(g),
         \A t : Misplaced(t, a.t) => ~Has(g.reply, t, a.r)
  PROVE  LET y == PostReply(g, a) IN Lanes(g, y) /\ Mail(g, y, a) /\ Inbox(y) /\ Room(y) /\ ~g.terminal
<1> DEFINE y == PostReply(g, a)
           s == Append(g.reply, a)
<1>1. g.reply \in Seq(Answer) /\ ~g.terminal
  BY DEF HostState, CanPostReply
<1>2. s \in Seq(Answer) /\ Ordered(s)
  BY <1>1, AppendedAt, AppendOrdered DEF Inbox
<1>3. y = [g EXCEPT !.reply = s]
  BY DEF PostReply
<1>4. /\ Len(g.reply) \in Nat /\ Len(s) = Len(g.reply) + 1
      /\ \A i \in 1..Len(g.reply) : s[i] = g.reply[i]
      /\ s[Len(g.reply) + 1] = a
  BY <1>1, AppendedAt
<1>5. ~g.threaded => \A i \in 1..Len(s) : s[i].t \notin Controls
  <2> SUFFICES ASSUME ~g.threaded, NEW i \in 1..Len(s) PROVE s[i].t \notin Controls
    OBVIOUS
  <2> HIDE DEF s
  <2>1. i \in 1..Len(g.reply) \/ i = Len(g.reply) + 1
    BY <1>4
  <2> QED BY <1>4, <2>1 DEF Inbox
<1> HIDE DEF s, y
<1>6. Lanes(g, y) /\ y.reply = s /\ y.control = g.control
  BY <1>2, <1>3 DEF HostState, Lanes
<1>7. Mail(g, y, a)
  BY <1>6, MailedReply DEF s
<1>8. Inbox(y)
  BY <1>1, <1>2, <1>5, <1>6 DEF Inbox, Lanes
<1>9. Room(y)
  <2>1. g.reserved \in Nat /\ ReplyCapacity \in Nat
    BY ServiceAssumption DEF HostState
  <2> QED BY <1>4, <1>6, <2>1 DEF Room, Lanes, CanPostReply, CanReserve
<1> QED BY <1>1, <1>6, <1>7, <1>8, <1>9 DEF y

\* A step of the Host on one request, with one answer to the client.
LEMMA PostedSound ==
  ASSUME NEW g, NEW x, NEW q, NEW d, NEW o, NEW r \in Requests, NEW a,
         Sound(g, q, d, o, {}, 0), x \in HostState, x.terminal = g.terminal,
         x.last = g.last, x.route = g.route, x.failed = g.failed, x.provider_stop = g.provider_stop,
         Elsewhere(g, x, r), Mail(g, x, a), a.r = r, a.t # "closed",
         About(x, q, d, o, {}, r), Inbox(x), Books(x, 0)
  PROVE  Sound(x, q, d, o, {}, 0)
<1>1. /\ g \in HostState /\ d \in ClientState /\ o \in Outbox /\ Single(o.pod)
      /\ Route(g, d, o) /\ Calm(g, q) /\ Ended(g, d)
  BY DEF Sound
<1>2. Onward(g, x) /\ d.next <= d.next
  BY <1>1, ServiceAssumption DEF Onward, HostState, ClientState
<1>3. \A i \in Requests : i # r => Apart(g, x, d, d, o, o, i)
  BY MailOthers DEF Apart, Elsewhere, FewerCalls
<1>4. Left(x) <=> Left(g)
  BY DEF Mail
<1>5. Route(x, d, o) /\ Calm(x, q) /\ Ended(x, d)
  BY <1>1, <1>4 DEF Route, Calm, Ended
<1> QED BY <1>1, <1>2, <1>3, <1>5, StepSound

\* The messages of other answers are as they were.
LEMMA MailOfControl ==
  ASSUME NEW g, NEW x, NEW a, Mail(g, x, a), a.t \in Controls, NEW r
  PROVE  /\ (Acked(x, r) <=> Acked(g, r)) /\ (Lent(x, r) <=> Lent(g, r)) /\ (Done(x, r) <=> Done(g, r))
         /\ (Enrolled(x, r) <=> Enrolled(g, r)) /\ (Left(x) <=> Left(g))
BY DEF Mail, Controls

LEMMA MailOfReply ==
  ASSUME NEW g, NEW x, NEW a, Mail(g, x, a), a.t \notin Controls, NEW r
  PROVE  /\ (Closes(x, r) <=> Closes(g, r)) /\ (Retires(x, r) <=> Retires(g, r)) /\ (Never(x, r) <=> Never(g, r))
         /\ (Withdrawn(x, r) <=> Withdrawn(g, r)) /\ (Withdraws(x, r) <=> Withdraws(g, r))
BY DEF Mail, Controls

\* A table is moved after the answer has been put in its lane.
LEMMA LanesMove ==
  ASSUME NEW g, NEW y, NEW x, NEW a, Mail(g, y, a), Inbox(y), Lanes(g, y), Still(y, x)
  PROVE  /\ Mail(g, x, a) /\ Inbox(x) /\ x.threaded = g.threaded /\ x.terminal = g.terminal /\ x.last = g.last
         /\ x.route = g.route /\ x.failed = g.failed /\ x.provider_stop = g.provider_stop
<1>1. x.reply = y.reply /\ x.control = y.control /\ x.threaded = y.threaded /\ x.terminal = y.terminal
  BY DEF Still
<1>2. Mail(g, x, a)
  BY <1>1 DEF Mail, Acked, Lent, Done, Enrolled, Left, Closes, Retires, Never, Withdrawn, Withdraws
<1>3. Inbox(x)
  BY <1>1 DEF Inbox
<1> QED BY <1>2, <1>3 DEF Lanes, Still

(* ------------------------ a view is published --------------------------- *)

LEMMA PublishedSound ==
  ASSUME NEW g, NEW q, NEW d, NEW o, NEW r \in Requests, Sound(g, q, d, o, {}, 0),
         Unsettled(g.rec[r]), CanPostReply(CancelReservation(g, 1))
  PROVE  Sound([PostReply(CancelReservation(g, 1), [t |-> "prepared", r |-> r]) EXCEPT
                    !.rec[r] = [@ EXCEPT !.settled = TRUE, !.published = TRUE]], q, d, o, {}, 0)
<1> DEFINE a == [t |-> "prepared", r |-> r]
           z == CancelReservation(g, 1)
           y == PostReply(z, a)
           b == [g.rec[r] EXCEPT !.settled = TRUE, !.published = TRUE]
           x == [y EXCEPT !.rec[r] = [@ EXCEPT !.settled = TRUE, !.published = TRUE]]
<1>1. /\ g \in HostState /\ About(g, q, d, o, {}, r) /\ Books(g, 0) /\ Inbox(g)
      /\ g.rec[r] \in Record /\ g.reserved \in Nat /\ g.reserved > 0
  BY Entries, Funded DEF Sound
<1>2. /\ z \in HostState /\ Rest(g, z) /\ z.op = g.op /\ z.rec = g.rec /\ z.reserved = g.reserved - 1
      /\ z.reserved \in Nat
  <2> DEFINE k == g.reserved - 1
  <2>1. k \in Nat
    BY <1>1
  <2>2. z = [g EXCEPT !.reserved = k]
    BY DEF CancelReservation
  <2> HIDE DEF k, z
  <2>3. z \in HostState /\ Rest(g, z) /\ z.op = g.op /\ z.rec = g.rec /\ z.reserved = k
    BY <1>1, <2>1, <2>2 DEF HostState, Rest, Still
  <2> QED BY <2>1, <2>3 DEF k
<1>3. /\ Owes(g.op[r]) /\ ~Done(g, r) /\ g.rec[r].live /\ ~g.rec[r].settled /\ ~g.rec[r].published
      /\ ~g.rec[r].closing /\ ~g.rec[r].client_notified /\ g.rec[r].quiescence = "none" /\ Spent(g, r)
  BY <1>1 DEF About, Loan, Shape, Answers, Unsettled
<1>4. /\ ~Lent(g, r) /\ ~d.rec[r].seen_prepared /\ ~Reads(g, d, r)
      /\ ~Quitting(o, r) /\ ~d.rec[r].never_published /\ ~Never(g, r) /\ ~Closes(g, r) /\ ~Retires(g, r)
      /\ ~d.rec[r].retired
  BY <1>1, <1>3 DEF About, Watch
<1>5. a \in Answer /\ a.t = "prepared" /\ a.r = r
  BY DEF Answer
<1>6. Inbox(z) /\ (\A t, i : Has(z.reply, t, i) <=> Has(g.reply, t, i)) /\ z.terminal = g.terminal
  BY <1>1, <1>2 DEF Rest, Still, Inbox
<1>7. CanPostReply(z)
  OBVIOUS
<1> HIDE DEF z, a
<1>8. \A t : Misplaced(t, a.t) => ~Has(z.reply, t, a.r)
  BY <1>3, <1>4, <1>5, <1>6 DEF Misplaced, Lent, Done
<1>9. Lanes(z, y) /\ Mail(z, y, a) /\ Inbox(y) /\ Room(y) /\ ~g.terminal
  BY <1>2, <1>5, <1>6, <1>7, <1>8, PostReplyIs DEF Controls
<1> HIDE DEF y
<1>10. /\ b \in Record /\ b.live /\ b.settled /\ b.published /\ ~b.closing /\ ~b.client_notified
       /\ b.quiescence = "none" /\ b.finished = g.rec[r].finished /\ b.quiescence_notified = g.rec[r].quiescence_notified
  BY <1>1, <1>3 DEF Record
<1>11. x = WithRecord(y, r, b, y.reserved) /\ y \in HostState /\ y.reserved \in Nat
  <2>1. y.rec = g.rec /\ y \in HostState /\ y.reserved \in Nat
    BY <1>2, <1>9 DEF Lanes
  <2> QED BY <1>1, <2>1 DEF WithRecord, HostState
<1> HIDE DEF b, x
<1>12. /\ x \in HostState /\ Rest(y, x) /\ Elsewhere(y, x, r)
       /\ x.rec[r] = b /\ x.op = y.op /\ x.reserved = y.reserved
  BY <1>10, <1>11, NewRecord
<1>13. /\ Mail(z, x, a) /\ Inbox(x) /\ x.threaded = g.threaded /\ x.terminal = g.terminal /\ x.last = g.last
       /\ x.route = g.route /\ x.failed = g.failed /\ x.provider_stop = g.provider_stop
  <2>1. Still(y, x)
    BY <1>12 DEF Rest
  <2> QED BY <1>2, <1>9, <2>1, LanesMove DEF Rest, Still
<1>14. Mail(g, x, a)
  BY <1>2, <1>13 DEF Rest, Still, Mail, Acked, Lent, Done, Enrolled, Left, Closes, Retires, Never, Withdrawn, Withdraws
<1>15. x.op = g.op /\ Elsewhere(g, x, r) /\ x.reserved = g.reserved - 1
  BY <1>2, <1>9, <1>12 DEF Lanes, Elsewhere, Same
<1>16. /\ Lent(x, r) /\ (Done(x, r) <=> Done(g, r)) /\ (Acked(x, r) <=> Acked(g, r)) /\ (Enrolled(x, r) <=> Enrolled(g, r))
       /\ (Closes(x, r) <=> Closes(g, r)) /\ (Retires(x, r) <=> Retires(g, r)) /\ (Never(x, r) <=> Never(g, r))
       /\ (Withdrawn(x, r) <=> Withdrawn(g, r)) /\ (Withdraws(x, r) <=> Withdraws(g, r))
  BY <1>5, <1>14 DEF Mail, Controls
<1>17. About(x, q, d, o, {}, r)
  <2>1. Shape(x, r)
    BY <1>1, <1>3, <1>10, <1>12, <1>13 DEF About, Shape
  <2>2. Loan(x, q, {}, r)
    BY <1>1, <1>3, <1>10, <1>12, <1>13, <1>15 DEF About, Loan, Spent, Unsettled
  <2>3. Watch(x, d, o, r)
    BY <1>1, <1>3, <1>4, <1>10, <1>12, <1>13, <1>15, <1>16 DEF About, Watch, Spent, Reads
  <2>4. Answers(x, d, o, r)
    BY <1>1, <1>3, <1>13, <1>15, <1>16 DEF About, Answers
  <2>5. Withdrawal(x, d, o, r)
    BY <1>1, <1>3, <1>4, <1>10, <1>12, <1>13, <1>15, <1>16 DEF About, Withdrawal, Answers
  <2> QED BY <2>1, <2>2, <2>3, <2>4, <2>5 DEF About
<1>18. Books(x, 0)
  <2>1. Bit(Unsettled(g.rec[r])) = 1 /\ Bit(Unsettled(x.rec[r])) = 0
    BY <1>10, <1>12 DEF Bit, Unsettled
  <2>2. Bit(Owes(x.op[r])) = Bit(Owes(g.op[r])) /\ Bit(Owes(g.op[r])) \in Nat
    BY <1>15 DEF Bit
  <2>3. Debts(g) \in Nat /\ Debts(x) \in Nat /\ Debts(x) = Debts(g) - 1
    <3>1. Elsewhere(g, x, r)
      BY <1>15
    <3>2. /\ Debts(g) \in Nat /\ Debts(x) \in Nat
          /\ Debts(x) + Bit(Owes(g.op[r])) + Bit(Unsettled(g.rec[r]))
                = Debts(g) + Bit(Owes(x.op[r])) + Bit(Unsettled(x.rec[r]))
      BY <3>1, Balance
    <3> DEFINE v == Debts(g)
               w == Debts(x)
               e == Bit(Owes(g.op[r]))
    <3>3. v \in Nat /\ w \in Nat /\ e \in Nat /\ w + e + 1 = v + e + 0
      BY <2>1, <2>2, <3>2
    <3> HIDE DEF v, w, e
    <3>4. w = v - 1
      BY <3>3
    <3> QED BY <3>3, <3>4 DEF v, w
  <2>4. g.reserved = Debts(g) + 0
    BY <1>1 DEF Books
  <2>5. x.reserved = Debts(x) + 0
    BY <1>15, <2>3, <2>4
  <2>6. Room(x)
    BY <1>9, <1>12 DEF Room, Rest, Still
  <2> QED BY <2>5, <2>6 DEF Books, Room
<1>19. Sound(x, q, d, o, {}, 0)
  BY <1>5, <1>12, <1>13, <1>14, <1>15, <1>17, <1>18, PostedSound
<1> QED BY <1>19 DEF x, y, z, a

LEMMA PublishSound ==
  ASSUME NEW g, NEW q, NEW d, NEW o, NEW r \in Requests, Sound(g, q, d, o, {}, 0), g.rec[r].live
  PROVE  Sound(PublishBorrow(g, r), q, d, o, {}, 0)
<1>1. CASE g.rec[r].settled \/ ~g.rec[r].dispatched
  BY <1>1 DEF PublishBorrow
<1>2. CASE ~(g.rec[r].settled \/ ~g.rec[r].dispatched) /\ g.terminal
  <2>1. PublishBorrow(g, r) = CloseBorrow(g, r)
    <3>1. g \in HostState /\ g.rec[r] \in Record
      BY Entries DEF Sound
    <3>2. [g.rec[r] EXCEPT !.settled = TRUE, !.closing = TRUE, !.quiescence = "never_published"]
            = [g.rec[r] EXCEPT !.closing = TRUE, !.settled = TRUE, !.quiescence = "never_published"]
      BY <3>1 DEF Record
    <3> QED BY <1>2, <3>1, <3>2 DEF PublishBorrow, CloseBorrow, CancelReservation, HostState
  <2> QED BY <2>1, CloseSound
<1>3. CASE ~(g.rec[r].settled \/ ~g.rec[r].dispatched) /\ ~g.terminal /\ CanPostReply(CancelReservation(g, 1))
  <2>1. Unsettled(g.rec[r])
    BY <1>3 DEF Unsettled
  <2>2. PublishBorrow(g, r) = [PostReply(CancelReservation(g, 1), [t |-> "prepared", r |-> r]) EXCEPT
                    !.rec[r] = [@ EXCEPT !.settled = TRUE, !.published = TRUE]]
    BY <1>3 DEF PublishBorrow
  <2>3. CanPostReply(CancelReservation(g, 1))
    BY <1>3
  <2>4. Sound([PostReply(CancelReservation(g, 1), [t |-> "prepared", r |-> r]) EXCEPT
                    !.rec[r] = [@ EXCEPT !.settled = TRUE, !.published = TRUE]], q, d, o, {}, 0)
    BY <2>1, <2>3, PublishedSound
  <2> QED BY <2>2, <2>4
<1>4. CASE ~(g.rec[r].settled \/ ~g.rec[r].dispatched) /\ ~g.terminal /\ ~CanPostReply(CancelReservation(g, 1))
  BY <1>4 DEF PublishBorrow
<1> QED BY <1>1, <1>2, <1>3, <1>4

(* ------------------------ a borrow is called off ------------------------ *)

\* What may be said to the client of a borrow that is closing.
LEMMA ControlFacts ==
  ASSUME NEW g, NEW q, NEW d, NEW o, NEW r \in Requests, Sound(g, q, d, o, {}, 0),
         g.rec[r].live, g.rec[r].closing
  PROVE  /\ g.rec[r].settled /\ Spent(g, r) /\ ~d.rec[r].retired /\ ~Retires(g, r)
         /\ g.rec[r].quiescence = "never_published" =>
                ~g.rec[r].published /\ ~Lent(g, r) /\ ~d.rec[r].seen_prepared
         /\ g.rec[r].quiescence # "never_published" /\ ~g.terminal =>
                d.rec[r].live /\ (Lent(g, r) \/ d.rec[r].seen_prepared)
         /\ \A t \in {"closing", "retired"} : [t |-> t, r |-> r, quiescence |-> g.rec[r].quiescence] \in Answer
         /\ \A t \in {"closing", "consumer_quiescent"} : [t |-> t, r |-> r, quiescence |-> g.rec[r].quiescence] \in Notice
<1>1. About(g, q, d, o, {}, r) /\ g.rec[r] \in Record
  BY Entries DEF Sound
<1>2. g.rec[r].settled /\ Spent(g, r) /\ ~d.rec[r].retired /\ ~Retires(g, r)
  BY <1>1 DEF About, Shape, Loan, Withdrawal
<1>3. g.rec[r].quiescence = "never_published" => ~g.rec[r].published /\ ~Lent(g, r) /\ ~d.rec[r].seen_prepared
  BY <1>1 DEF About, Shape, Watch
<1>4. g.rec[r].quiescence # "never_published" /\ ~g.terminal =>
          d.rec[r].live /\ (Lent(g, r) \/ d.rec[r].seen_prepared)
  BY <1>1, <1>2 DEF About, Shape, Withdrawal
<1>5. g.rec[r].quiescence \in Quiescence
  BY <1>1 DEF Record
<1> DEFINE v == g.rec[r].quiescence
<1> HIDE DEF v
<1>6. v \in Quiescence
  BY <1>5 DEF v
<1>7. \A t \in {"closing", "retired"} : [t |-> t, r |-> r, quiescence |-> v] \in Answer
  BY <1>6 DEF Answer, Controls
<1>8. \A t \in {"closing", "consumer_quiescent"} : [t |-> t, r |-> r, quiescence |-> v] \in Notice
  BY <1>6 DEF Notice
<1> QED BY <1>2, <1>3, <1>4, <1>7, <1>8 DEF v

\* A record whose client has been told.
ToldRecord(a, b) ==
    /\ b \in Record /\ b.live = a.live /\ b.settled = a.settled /\ b.published = a.published /\ b.closing = a.closing
    /\ b.client_notified /\ b.quiescence_notified = a.quiescence_notified
    /\ b.finished = a.finished /\ b.quiescence = a.quiescence

LEMMA ToldAbout ==
  ASSUME NEW g, NEW x, NEW q, NEW d, NEW o, NEW r \in Requests, Sound(g, q, d, o, {}, 0),
         g.rec[r].live, g.rec[r].closing, ToldRecord(g.rec[r], x.rec[r]), x.op = g.op,
         x.terminal = g.terminal, x.last = g.last, x.route = g.route,
         (Lent(x, r) <=> Lent(g, r)), (Done(x, r) <=> Done(g, r)), (Acked(x, r) <=> Acked(g, r)),
         (Enrolled(x, r) <=> Enrolled(g, r)), (Retires(x, r) <=> Retires(g, r)), (Withdrawn(x, r) <=> Withdrawn(g, r)),
         Never(x, r) => Never(g, r) \/ g.rec[r].quiescence = "never_published",
         Withdraws(x, r) => Withdraws(g, r) \/ (g.rec[r].quiescence # "never_published" /\ ~g.terminal)
  PROVE  About(x, q, d, o, {}, r)
<1>1. About(g, q, d, o, {}, r)
  BY DEF Sound
<1>2. /\ g.rec[r].settled /\ Spent(g, r) /\ ~d.rec[r].retired
      /\ g.rec[r].quiescence = "never_published" =>
             ~g.rec[r].published /\ ~Lent(g, r) /\ ~d.rec[r].seen_prepared
      /\ g.rec[r].quiescence # "never_published" /\ ~g.terminal =>
             d.rec[r].live /\ (Lent(g, r) \/ d.rec[r].seen_prepared)
  BY ControlFacts
<1>3. Shape(x, r)
  BY <1>1 DEF About, Shape, ToldRecord
<1>4. Loan(x, q, {}, r)
  BY <1>1 DEF About, Loan, ToldRecord, Spent, Unsettled, Owes
<1>5. Watch(x, d, o, r)
  BY <1>1, <1>2 DEF About, Watch, ToldRecord, Spent, Reads
<1>6. Answers(x, d, o, r)
  BY <1>1 DEF About, Answers, Owes
<1>7. Withdrawal(x, d, o, r)
  BY <1>1, <1>2 DEF About, Withdrawal, ToldRecord
<1> QED BY <1>3, <1>4, <1>5, <1>6, <1>7 DEF About

LEMMA NotifyClientSound ==
  ASSUME NEW g, NEW q, NEW d, NEW o, NEW r \in Requests, Sound(g, q, d, o, {}, 0),
         g.rec[r].live, g.rec[r].closing
  PROVE  Sound(NotifyClientClosing(g, r), q, d, o, {}, 0)
<1> DEFINE b == [g.rec[r] EXCEPT !.client_notified = TRUE]
           v == [g EXCEPT !.rec[r].client_notified = TRUE]
           a == BorrowControl(g, r, "closing")
           y == Post(g, a)
           x == [y EXCEPT !.rec[r].client_notified = TRUE]
<1>1. /\ g \in HostState /\ About(g, q, d, o, {}, r) /\ Books(g, 0) /\ Inbox(g)
      /\ g.rec[r] \in Record /\ g.reserved \in Nat
  BY Entries DEF Sound
<1>2. ToldRecord(g.rec[r], b)
  BY <1>1 DEF Record, ToldRecord
<1>3. v = WithRecord(g, r, b, g.reserved)
  BY <1>1 DEF WithRecord, HostState
<1>4. b \in Record
  BY <1>2 DEF ToldRecord
<1>5. NotifyClientClosing(g, r) = IF g.rec[r].client_notified THEN g ELSE IF g.terminal THEN v
                                  ELSE IF CanPost(g) THEN x ELSE g
  BY DEF NotifyClientClosing
<1>6. CASE ~g.rec[r].client_notified /\ g.terminal
  <2> HIDE DEF b, v
  <2>1. /\ v \in HostState /\ Rest(g, v) /\ Elsewhere(g, v, r)
        /\ v.rec[r] = b /\ v.op = g.op /\ v.reserved = g.reserved
    BY <1>1, <1>3, <1>4, NewRecord
  <2>2. About(v, q, d, o, {}, r)
    <3>1. /\ v.reply = g.reply /\ v.control = g.control /\ v.terminal = g.terminal /\ v.last = g.last /\ v.route = g.route
      BY <2>1 DEF Rest, Still
    <3>2. /\ (Lent(v, r) <=> Lent(g, r)) /\ (Done(v, r) <=> Done(g, r)) /\ (Acked(v, r) <=> Acked(g, r))
          /\ (Enrolled(v, r) <=> Enrolled(g, r)) /\ (Retires(v, r) <=> Retires(g, r)) /\ (Withdrawn(v, r) <=> Withdrawn(g, r))
          /\ (Never(v, r) <=> Never(g, r)) /\ (Withdraws(v, r) <=> Withdraws(g, r))
      BY <3>1 DEF Lent, Done, Acked, Enrolled, Retires, Withdrawn, Never, Withdraws
    <3> QED BY <1>2, <2>1, <3>1, <3>2, ToldAbout
  <2>3. Books(v, 0)
    BY <1>1, <1>2, <2>1, SameBooks DEF Rest, Still, ToldRecord, Unsettled
  <2>4. Sound(v, q, d, o, {}, 0)
    BY <2>1, <2>2, <2>3, MoveSound DEF Rest
  <2> QED BY <1>5, <1>6, <2>4
<1>7. CASE ~g.rec[r].client_notified /\ CanPost(g)
  <2>1. ~g.terminal
    BY <1>7 DEF CanPost
  <2>2. /\ a \in Answer /\ a.t = "closing" /\ a.r = r /\ a.quiescence = g.rec[r].quiescence
    BY ControlFacts DEF BorrowControl
  <2>3. ~Closes(g, r) /\ ~Retires(g, r)
    BY <1>1, <1>7 DEF About, Withdrawal
  <2> HIDE DEF a, b
  <2>4. \A t : Misplaced(t, a.t) => ~Has(g.reply, t, a.r) /\ ~Has(g.control, t, a.r)
    BY <2>2, <2>3 DEF Misplaced, Closes, Retires
  <2>5. Lanes(g, y) /\ Mail(g, y, a) /\ Inbox(y) /\ (Room(g) => Room(y))
    BY <1>1, <2>1, <2>2, <2>4, PostIs DEF Controls
  <2> HIDE DEF y
  <2>6. x = WithRecord(y, r, b, y.reserved) /\ y \in HostState /\ y.reserved \in Nat
    <3>1. y.rec = g.rec /\ y \in HostState /\ y.reserved \in Nat
      BY <1>1, <2>5 DEF Lanes
    <3> QED BY <1>1, <3>1 DEF WithRecord, HostState, b
  <2> HIDE DEF x
  <2>7. /\ x \in HostState /\ Rest(y, x) /\ Elsewhere(y, x, r)
        /\ x.rec[r] = b /\ x.op = y.op /\ x.reserved = y.reserved
    BY <1>4, <2>6, NewRecord
  <2>8. /\ Mail(g, x, a) /\ Inbox(x) /\ x.threaded = g.threaded /\ x.terminal = g.terminal /\ x.last = g.last
        /\ x.route = g.route /\ x.failed = g.failed /\ x.provider_stop = g.provider_stop
    <3>1. Still(y, x)
      BY <2>7 DEF Rest
    <3> QED BY <2>5, <3>1, LanesMove
  <2>9. x.op = g.op /\ Elsewhere(g, x, r) /\ x.reserved = g.reserved
    BY <2>5, <2>7 DEF Lanes, Elsewhere, Same
  <2>10. About(x, q, d, o, {}, r)
    <3>1. /\ (Lent(x, r) <=> Lent(g, r)) /\ (Done(x, r) <=> Done(g, r)) /\ (Acked(x, r) <=> Acked(g, r))
          /\ (Enrolled(x, r) <=> Enrolled(g, r))
      BY <2>2, <2>8, MailOfControl DEF Controls
    <3>2. /\ (Retires(x, r) <=> Retires(g, r)) /\ (Withdrawn(x, r) <=> Withdrawn(g, r))
          /\ Never(x, r) => Never(g, r) \/ g.rec[r].quiescence = "never_published"
          /\ Withdraws(x, r) => Withdraws(g, r) \/ g.rec[r].quiescence # "never_published"
      BY <2>2, <2>8 DEF Mail
    <3> QED BY <1>2, <2>1, <2>7, <2>8, <2>9, <3>1, <3>2, ToldAbout
  <2>11. Books(x, 0)
    <3>1. \A i \in Requests : (Owes(x.op[i]) <=> Owes(g.op[i])) /\ (Unsettled(x.rec[i]) <=> Unsettled(g.rec[i]))
      BY <1>2, <2>7, <2>9 DEF Elsewhere, Same, ToldRecord, Unsettled
    <3>2. Debts(x) = Debts(g)
      <4>1. Owing(x) = Owing(g) /\ Unpaid(x) = Unpaid(g)
        BY <3>1 DEF Owing, Unpaid
      <4> QED BY <4>1 DEF Debts
    <3>3. Room(x)
      BY <1>1, <2>5, <2>7 DEF Room, Books, Rest, Still
    <3> QED BY <1>1, <2>9, <3>2, <3>3 DEF Books, Room
  <2>12. Sound(x, q, d, o, {}, 0)
    BY <2>2, <2>7, <2>8, <2>9, <2>10, <2>11, PostedSound
  <2> QED BY <1>5, <1>7, <2>1, <2>12
<1> QED BY <1>5, <1>6, <1>7

(* ---------------------- the provider is notified ------------------------ *)

LEMMA NoticeSound ==
  ASSUME NEW g, NEW q, NEW d, NEW o, NEW n \in Nat, NEW r \in Requests, Sound(g, q, d, o, {}, n), NEW a \in Notice
  PROVE  LET y == PostProvider(g, a) IN
         Sound(y, q, d, o, {}, n) /\ y.op = g.op /\ y.rec = g.rec /\ y.reserved = g.reserved
         /\ y.phase = g.phase /\ y.terminal = g.terminal
<1> DEFINE y == PostProvider(g, a)
           s == Append(g.provider_inbox, a)
<1>1. g \in HostState /\ About(g, q, d, o, {}, r) /\ Books(g, n)
  BY DEF Sound
<1>2. s \in Seq(Notice)
  BY <1>1, AppendedAt DEF HostState
<1>3. y = [g EXCEPT !.provider_inbox = s]
  BY DEF PostProvider
<1> HIDE DEF s, y
<1>4. /\ y \in HostState /\ Still(g, y) /\ y.op = g.op /\ y.rec = g.rec /\ y.reserved = g.reserved
      /\ y.phase = g.phase /\ y.terminal = g.terminal
  BY <1>1, <1>2, <1>3 DEF HostState, Still
<1>5. Elsewhere(g, y, r) /\ Same(g, y, r)
  BY <1>4 DEF Elsewhere, Same
<1>6. About(y, q, d, o, {}, r)
  BY <1>1, <1>4, <1>5, SameKeeps
<1>7. Books(y, n)
  BY <1>1, <1>4, <1>5, SameBooks DEF Still
<1>8. Sound(y, q, d, o, {}, n)
  BY <1>4, <1>5, <1>6, <1>7, MoveSound
<1> QED BY <1>4, <1>8 DEF y

\* A record whose provider has been told, or whose quiescence has.
Noted(a, b) ==
    /\ b.live = a.live /\ b.settled = a.settled /\ b.published = a.published /\ b.closing = a.closing
    /\ b.client_notified = a.client_notified /\ b.finished = a.finished /\ b.quiescence = a.quiescence
    /\ b.quiescence_notified => b.quiescence # "none"

LEMMA NotedSound ==
  ASSUME NEW g, NEW q, NEW d, NEW o, NEW com, NEW n \in Nat, NEW r \in Requests, NEW x,
         Sound(g, q, d, o, com, n), x \in HostState, Still(g, x), Elsewhere(g, x, r),
         Noted(g.rec[r], x.rec[r]), x.op = g.op, x.reserved = g.reserved
  PROVE  Sound(x, q, d, o, com, n)
<1>1. g \in HostState /\ About(g, q, d, o, com, r) /\ Books(g, n)
  BY DEF Sound
<1>2. Shape(x, r)
  BY <1>1 DEF About, Shape, Still, Noted
<1>3. Loan(x, q, com, r)
  BY <1>1 DEF About, Loan, Still, Noted, Spent, Unsettled, Owes
<1>4. Watch(x, d, o, r)
  BY <1>1 DEF About, Watch, Still, Noted, Spent, Reads, Lent, Never, Closes, Retires
<1>5. Answers(x, d, o, r)
  BY <1>1 DEF About, Answers, Still, Owes, Done, Acked, Lent, Enrolled
<1>6. Withdrawal(x, d, o, r)
  BY <1>1 DEF About, Withdrawal, Still, Noted, Withdraws, Withdrawn, Closes, Retires, Lent
<1>7. Books(x, n)
  BY <1>1, SameBooks DEF Still, Noted, Unsettled
<1> QED BY <1>1, <1>2, <1>3, <1>4, <1>5, <1>6, <1>7, MoveSound DEF About

LEMMA NotifyProviderSound ==
  ASSUME NEW g, NEW q, NEW d, NEW o, NEW r \in Requests, Sound(g, q, d, o, {}, 0),
         g.rec[r].live, g.rec[r].closing
  PROVE  LET x == NotifyProviderClosing(g, r) IN
         Sound(x, q, d, o, {}, 0) /\ x.rec[r].live /\ x.rec[r].closing
<1> DEFINE a == BorrowControl(g, r, "closing")
           y == PostProvider(g, a)
           b == [g.rec[r] EXCEPT !.provider_notified = TRUE]
           x == [y EXCEPT !.rec[r].provider_notified = TRUE]
<1>1. NotifyProviderClosing(g, r) = x \/ NotifyProviderClosing(g, r) = g
  BY DEF NotifyProviderClosing
<1>2. a \in Notice
  BY ControlFacts DEF BorrowControl
<1> HIDE DEF a
<1>3. /\ Sound(y, q, d, o, {}, 0) /\ y.op = g.op /\ y.rec = g.rec /\ y \in HostState
      /\ y.rec[r] \in Record /\ y.reserved \in Nat
  BY <1>2, NoticeSound, Entries DEF Sound
<1> HIDE DEF y
<1>4. b \in Record /\ b.live /\ b.closing /\ Noted(y.rec[r], b)
  <2>1. Shape(y, r)
    BY <1>3 DEF Sound, About
  <2> QED BY <1>3, <2>1 DEF Record, Noted, Shape
<1>5. x = WithRecord(y, r, b, y.reserved)
  BY <1>3 DEF WithRecord, HostState
<1> HIDE DEF x, b
<1>6. /\ x \in HostState /\ Rest(y, x) /\ Elsewhere(y, x, r)
      /\ x.rec[r] = b /\ x.op = y.op /\ x.reserved = y.reserved
  BY <1>3, <1>4, <1>5, NewRecord
<1>7. Sound(x, q, d, o, {}, 0)
  BY <1>3, <1>4, <1>6, NotedSound DEF Rest
<1> QED BY <1>1, <1>4, <1>6, <1>7

LEMMA NotifyQuiescenceSound ==
  ASSUME NEW g, NEW q, NEW d, NEW o, NEW r \in Requests, Sound(g, q, d, o, {}, 0),
         g.rec[r].live, g.rec[r].closing
  PROVE  LET x == NotifyQuiescence(g, r) IN
         Sound(x, q, d, o, {}, 0) /\ x.rec[r].live /\ x.rec[r].closing
<1> DEFINE a == BorrowControl(g, r, "consumer_quiescent")
           y == PostProvider(g, a)
           b == [g.rec[r] EXCEPT !.quiescence_notified = TRUE]
           x == [y EXCEPT !.rec[r].quiescence_notified = TRUE]
<1>1. (NotifyQuiescence(g, r) = x /\ g.rec[r].quiescence # "none") \/ NotifyQuiescence(g, r) = g
  BY DEF NotifyQuiescence
<1> SUFFICES ASSUME g.rec[r].quiescence # "none"
             PROVE  Sound(x, q, d, o, {}, 0) /\ x.rec[r].live /\ x.rec[r].closing
  BY <1>1
<1>2. a \in Notice
  BY ControlFacts DEF BorrowControl
<1> HIDE DEF a
<1>3. /\ Sound(y, q, d, o, {}, 0) /\ y.op = g.op /\ y.rec = g.rec /\ y \in HostState
      /\ y.rec[r] \in Record /\ y.reserved \in Nat
  BY <1>2, NoticeSound, Entries DEF Sound
<1> HIDE DEF y
<1>4. b \in Record /\ b.live /\ b.closing /\ Noted(y.rec[r], b)
  BY <1>3 DEF Record, Noted
<1>5. x = WithRecord(y, r, b, y.reserved)
  BY <1>3 DEF WithRecord, HostState
<1> HIDE DEF x, b
<1>6. /\ x \in HostState /\ Rest(y, x) /\ Elsewhere(y, x, r)
      /\ x.rec[r] = b /\ x.op = y.op /\ x.reserved = y.reserved
  BY <1>3, <1>4, <1>5, NewRecord
<1>7. Sound(x, q, d, o, {}, 0)
  BY <1>3, <1>4, <1>6, NotedSound DEF Rest
<1> QED BY <1>4, <1>6, <1>7

LEMMA NotifyClientKeeps ==
  ASSUME NEW g, NEW q, NEW d, NEW o, NEW r \in Requests, Sound(g, q, d, o, {}, 0),
         g.rec[r].live, g.rec[r].closing
  PROVE  NotifyClientClosing(g, r).rec[r].live /\ NotifyClientClosing(g, r).rec[r].closing
<1> DEFINE b == [g.rec[r] EXCEPT !.client_notified = TRUE]
           a == BorrowControl(g, r, "closing")
           y == Post(g, a)
<1>1. g \in HostState /\ g.rec[r] \in Record
  BY Entries DEF Sound
<1>2. b.live /\ b.closing
  BY <1>1 DEF Record
<1> HIDE DEF a
<1>3. y.rec = g.rec /\ DOMAIN y = DOMAIN g
  BY <1>1 DEF Post, HostState
<1> HIDE DEF y
<1>4. [g EXCEPT !.rec[r].client_notified = TRUE].rec[r] = b /\ [y EXCEPT !.rec[r].client_notified = TRUE].rec[r] = b
  BY <1>1, <1>3 DEF HostState
<1>5. NotifyClientClosing(g, r) \in {g, [g EXCEPT !.rec[r].client_notified = TRUE], [y EXCEPT !.rec[r].client_notified = TRUE]}
  BY DEF NotifyClientClosing, a, y
<1> QED BY <1>2, <1>4, <1>5

(* ------------------------- a borrow is retired -------------------------- *)

\* Its record is dropped, and the client of a running consumer is told.
LEMMA ErasedAbout ==
  ASSUME NEW g, NEW x, NEW q, NEW d, NEW o, NEW r \in Requests, Sound(g, q, d, o, {}, 0),
         g.rec[r].live, g.rec[r].finished, x.rec[r] = NoRecord, x.op = g.op,
         x.terminal = g.terminal, x.last = g.last, x.route = g.route,
         (Lent(x, r) <=> Lent(g, r)), (Done(x, r) <=> Done(g, r)), (Acked(x, r) <=> Acked(g, r)),
         (Enrolled(x, r) <=> Enrolled(g, r)), (Closes(x, r) <=> Closes(g, r)),
         Never(x, r) => Never(g, r) \/ g.rec[r].quiescence = "never_published",
         Withdrawn(x, r) => Withdrawn(g, r) \/ (g.rec[r].quiescence # "never_published" /\ ~g.terminal),
         Withdraws(x, r) => Withdraws(g, r) \/ (g.rec[r].quiescence # "never_published" /\ ~g.terminal)
  PROVE  About(x, q, d, o, {}, r)
<1>1. About(g, q, d, o, {}, r) /\ g.rec[r].closing /\ g.rec[r].quiescence # "none" /\ g.rec[r].quiescence \in Quiescence
  BY Entries DEF Sound, About, Shape, Record
<1>2. /\ g.rec[r].settled /\ Spent(g, r) /\ ~d.rec[r].retired
      /\ g.rec[r].quiescence = "never_published" =>
             ~g.rec[r].published /\ ~Lent(g, r) /\ ~d.rec[r].seen_prepared
      /\ g.rec[r].quiescence # "never_published" /\ ~g.terminal =>
             d.rec[r].live /\ (Lent(g, r) \/ d.rec[r].seen_prepared)
  BY <1>1, ControlFacts
<1>3. /\ ~x.rec[r].live /\ ~x.rec[r].settled /\ ~x.rec[r].closing /\ ~x.rec[r].published /\ x.rec[r].quiescence = "none"
      /\ ~x.rec[r].finished /\ ~x.rec[r].quiescence_notified /\ ~x.rec[r].client_notified
  BY DEF NoRecord
<1>4. g.rec[r].quiescence # "never_published" /\ ~g.terminal => d.rec[r].quiescent
  BY <1>1 DEF About, Withdrawal, Shape, Quiescence
<1>5. ~Reads(g, d, r)
  BY <1>1 DEF About, Watch
<1>6. Shape(x, r)
  BY <1>3 DEF Shape
<1>7. Loan(x, q, {}, r)
  BY <1>1, <1>3 DEF About, Loan, Unsettled
<1>8. Watch(x, d, o, r)
  BY <1>1, <1>2, <1>3, <1>5 DEF About, Watch, Spent, Reads
<1>9. Answers(x, d, o, r)
  BY <1>1 DEF About, Answers
<1>10. Withdrawal(x, d, o, r)
  BY <1>1, <1>2, <1>3, <1>4 DEF About, Withdrawal
<1> QED BY <1>6, <1>7, <1>8, <1>9, <1>10 DEF About

LEMMA EraseBorrowSound ==
  ASSUME NEW g, NEW q, NEW d, NEW o, NEW r \in Requests, Sound(g, q, d, o, {}, 0),
         g.rec[r].live
  PROVE  Sound(EraseBorrow(g, r), q, d, o, {}, 0)
<1> DEFINE b == NoRecord
           v == [g EXCEPT !.rec[r] = b]
           a == BorrowControl(g, r, "retired")
           y == Post(g, a)
           x == [y EXCEPT !.rec[r] = b]
<1>1. /\ g \in HostState /\ About(g, q, d, o, {}, r) /\ Books(g, 0) /\ Inbox(g)
      /\ g.rec[r] \in Record /\ g.reserved \in Nat
  BY Entries DEF Sound
<1>2. b \in Record /\ ~b.live
  BY DEF Record, NoRecord, Quiescence
<1>3. v = WithRecord(g, r, b, g.reserved)
  BY <1>1 DEF WithRecord, HostState
<1>4. EraseBorrow(g, r) = IF g.rec[r].finished /\ g.rec[r].client_notified /\ (g.terminal \/ CanPost(g))
                          THEN IF g.terminal THEN v ELSE x ELSE g
  BY DEF EraseBorrow
<1>5. g.rec[r].finished => g.rec[r].closing /\ g.rec[r].settled
  BY <1>1 DEF About, Shape
<1>6. CASE g.rec[r].finished /\ g.terminal
  <2> HIDE DEF b, v
  <2>1. /\ v \in HostState /\ Rest(g, v) /\ Elsewhere(g, v, r)
        /\ v.rec[r] = b /\ v.op = g.op /\ v.reserved = g.reserved
    BY <1>1, <1>2, <1>3, NewRecord
  <2>2. About(v, q, d, o, {}, r)
    <3>1. /\ v.reply = g.reply /\ v.control = g.control /\ v.terminal = g.terminal /\ v.last = g.last /\ v.route = g.route
      BY <2>1 DEF Rest, Still
    <3>2. /\ (Lent(v, r) <=> Lent(g, r)) /\ (Done(v, r) <=> Done(g, r)) /\ (Acked(v, r) <=> Acked(g, r))
          /\ (Enrolled(v, r) <=> Enrolled(g, r)) /\ (Closes(v, r) <=> Closes(g, r)) /\ (Withdrawn(v, r) <=> Withdrawn(g, r))
          /\ (Never(v, r) <=> Never(g, r)) /\ (Withdraws(v, r) <=> Withdraws(g, r))
      BY <3>1 DEF Lent, Done, Acked, Enrolled, Closes, Withdrawn, Never, Withdraws
    <3> QED BY <1>6, <2>1, <3>1, <3>2, ErasedAbout DEF b
  <2>3. Books(v, 0)
    BY <1>1, <1>2, <1>5, <1>6, <2>1, SameBooks DEF Rest, Still, Unsettled
  <2>4. Sound(v, q, d, o, {}, 0)
    BY <2>1, <2>2, <2>3, MoveSound DEF Rest
  <2> QED BY <1>4, <1>6, <2>4
<1>7. CASE g.rec[r].finished /\ ~g.terminal
  <2>2. /\ a \in Answer /\ a.t = "retired" /\ a.r = r /\ a.quiescence = g.rec[r].quiescence
    BY <1>5, <1>7, ControlFacts DEF BorrowControl
  <2>3. ~Retires(g, r)
    BY <1>1 DEF About, Withdrawal
  <2> HIDE DEF a, b
  <2>4. \A t : Misplaced(t, a.t) => ~Has(g.reply, t, a.r) /\ ~Has(g.control, t, a.r)
    BY <2>2, <2>3 DEF Misplaced, Retires
  <2>5. Lanes(g, y) /\ Mail(g, y, a) /\ Inbox(y) /\ (Room(g) => Room(y))
    BY <1>1, <1>7, <2>2, <2>4, PostIs DEF Controls
  <2> HIDE DEF y
  <2>6. x = WithRecord(y, r, b, y.reserved) /\ y \in HostState /\ y.reserved \in Nat
    <3>1. y.rec = g.rec /\ y \in HostState /\ y.reserved \in Nat
      BY <1>1, <2>5 DEF Lanes
    <3> QED BY <1>1, <3>1 DEF WithRecord, HostState
  <2> HIDE DEF x
  <2>7. /\ x \in HostState /\ Rest(y, x) /\ Elsewhere(y, x, r)
        /\ x.rec[r] = b /\ x.op = y.op /\ x.reserved = y.reserved
    BY <1>2, <2>6, NewRecord
  <2>8. /\ Mail(g, x, a) /\ Inbox(x) /\ x.threaded = g.threaded /\ x.terminal = g.terminal /\ x.last = g.last
        /\ x.route = g.route /\ x.failed = g.failed /\ x.provider_stop = g.provider_stop
    <3>1. Still(y, x)
      BY <2>7 DEF Rest
    <3> QED BY <2>5, <3>1, LanesMove
  <2>9. x.op = g.op /\ Elsewhere(g, x, r) /\ x.reserved = g.reserved
    BY <2>5, <2>7 DEF Lanes, Elsewhere, Same
  <2>10. About(x, q, d, o, {}, r)
    <3>1. /\ (Lent(x, r) <=> Lent(g, r)) /\ (Done(x, r) <=> Done(g, r)) /\ (Acked(x, r) <=> Acked(g, r))
          /\ (Enrolled(x, r) <=> Enrolled(g, r))
      BY <2>2, <2>8, MailOfControl DEF Controls
    <3>2. /\ (Closes(x, r) <=> Closes(g, r))
          /\ Never(x, r) => Never(g, r) \/ g.rec[r].quiescence = "never_published"
          /\ Withdraws(x, r) => Withdraws(g, r) \/ g.rec[r].quiescence # "never_published"
          /\ Withdrawn(x, r) => Withdrawn(g, r) \/ g.rec[r].quiescence # "never_published"
      BY <2>2, <2>8 DEF Mail
    <3>3. x.rec[r] = NoRecord
      BY <2>7 DEF b
    <3> QED BY <1>7, <2>8, <2>9, <3>1, <3>2, <3>3, ErasedAbout
  <2>11. Books(x, 0)
    <3>1. \A i \in Requests : (Owes(x.op[i]) <=> Owes(g.op[i])) /\ (Unsettled(x.rec[i]) <=> Unsettled(g.rec[i]))
      BY <1>2, <1>5, <1>7, <2>7, <2>9 DEF Elsewhere, Same, Unsettled
    <3>2. Debts(x) = Debts(g)
      <4>1. Owing(x) = Owing(g) /\ Unpaid(x) = Unpaid(g)
        BY <3>1 DEF Owing, Unpaid
      <4> QED BY <4>1 DEF Debts
    <3>3. Room(x)
      BY <1>1, <2>5, <2>7 DEF Room, Books, Rest, Still
    <3> QED BY <1>1, <2>9, <3>2, <3>3 DEF Books, Room
  <2>12. Sound(x, q, d, o, {}, 0)
    BY <2>2, <2>7, <2>8, <2>9, <2>10, <2>11, PostedSound
  <2> QED BY <1>4, <1>7, <2>12
<1> QED BY <1>4, <1>6, <1>7

LEMMA ProgressBorrowSound ==
  ASSUME NEW g, NEW q, NEW d, NEW o, NEW r \in Requests, Sound(g, q, d, o, {}, 0)
  PROVE  Sound(ProgressBorrow(g, r), q, d, o, {}, 0)
<1> DEFINE x1 == PublishBorrow(g, r)
           x2 == NotifyClientClosing(x1, r)
           x3 == NotifyProviderClosing(x2, r)
           x4 == NotifyQuiescence(x3, r)
<1>1. ProgressBorrow(g, r) = IF ~g.rec[r].live THEN g ELSE IF ~x1.rec[r].closing THEN x1 ELSE EraseBorrow(x4, r)
  BY DEF ProgressBorrow
<1> HIDE DEF x1
<1>2. g.rec[r].live => Sound(x1, q, d, o, {}, 0)
  BY PublishSound DEF x1
<1>3. Sound(x1, q, d, o, {}, 0) /\ x1.rec[r].closing => x1.rec[r].live
  BY DEF Sound, About, Shape
<1> HIDE DEF x2
<1>4. Sound(x1, q, d, o, {}, 0) /\ x1.rec[r].closing => Sound(x2, q, d, o, {}, 0) /\ x2.rec[r].live /\ x2.rec[r].closing
  BY <1>3, NotifyClientSound, NotifyClientKeeps DEF x2
<1> HIDE DEF x3
<1>5. Sound(x1, q, d, o, {}, 0) /\ x1.rec[r].closing => Sound(x3, q, d, o, {}, 0) /\ x3.rec[r].live /\ x3.rec[r].closing
  BY <1>4, NotifyProviderSound DEF x3
<1> HIDE DEF x4
<1>6. Sound(x1, q, d, o, {}, 0) /\ x1.rec[r].closing => Sound(x4, q, d, o, {}, 0) /\ x4.rec[r].live
  BY <1>5, NotifyQuiescenceSound DEF x4
<1>7. Sound(x1, q, d, o, {}, 0) /\ x1.rec[r].closing => Sound(EraseBorrow(x4, r), q, d, o, {}, 0)
  BY <1>6, EraseBorrowSound
<1> QED BY <1>1, <1>2, <1>7

LEMMA BorrowsProgressSound ==
  ASSUME NEW g, NEW q, NEW d, NEW o, Sound(g, q, d, o, {}, 0)
  PROVE  Sound(ForEachRequest(ProgressBorrow, g), q, d, o, {}, 0)
<1> DEFINE G == [i \in 0..N |-> {x \in HostState : Sound(x, q, d, o, {}, 0)}]
           Upto(e) == e = [i \in 0..N |-> IF i = 0 THEN g ELSE ProgressBorrow(e[i - 1], i)]
           f == CHOOSE e : Upto(e)
<1>1. N \in Nat /\ 1..N = Requests
  BY ServiceAssumption DEF Requests
<1>2. \A i \in 0..N : G[i] = {x \in HostState : Sound(x, q, d, o, {}, 0)}
  OBVIOUS
<1> HIDE DEF G
<1>3. g \in G[0]
  <2>1. 0 \in 0..N /\ g \in HostState
    BY <1>1 DEF Sound
  <2> QED BY <1>2, <2>1
<1>4. ASSUME NEW i \in 1..N, NEW x \in G[i - 1] PROVE ProgressBorrow(x, i) \in G[i]
  <2>1. i - 1 \in 0..N /\ i \in 0..N  /\ i \in Requests
    BY <1>1
  <2>2. x \in {z \in HostState : Sound(z, q, d, o, {}, 0)}
    BY <1>2, <2>1
  <2>3. Sound(ProgressBorrow(x, i), q, d, o, {}, 0)
    BY <2>1, <2>2, ProgressBorrowSound
  <2>4. ProgressBorrow(x, i) \in HostState
    BY <2>3 DEF Sound
  <2> QED BY <1>2, <2>1, <2>3, <2>4
<1>5. \E e : Upto(e)
  <2> DEFINE step == [i \in 1..N |-> [x \in G[i - 1] |-> ProgressBorrow(x, i)]]
  <2>1. \A i \in 1..N : \A x \in G[i - 1] : step[i][x] = ProgressBorrow(x, i)
    OBVIOUS
  <2>2. \A i \in 1..N : \A x \in G[i - 1] : step[i][x] \in G[i]
    BY <1>4, <2>1
  <2> HIDE DEF step
  <2>3. PICK e : Stepped(e, N, g, step) /\ \A i \in 0..N : e[i] \in G[i]
    BY <1>1, <1>3, <2>2, Run
  <2>4. ASSUME NEW i \in 0..N, i # 0 PROVE step[i][e[i - 1]] = ProgressBorrow(e[i - 1], i)
    <3>1. i \in 1..N /\ e[i - 1] \in G[i - 1]
      BY <1>1, <2>3, <2>4
    <3> QED BY <2>1, <3>1
  <2>5. Upto(e)
    BY <2>3, <2>4 DEF Stepped
  <2> QED BY <2>5
<1>6. Upto(f)
  <2> HIDE DEF Upto
  <2> QED BY <1>5
<1>7. ForEachRequest(ProgressBorrow, g) = f[N]
  BY DEF ForEachRequest
<1> HIDE DEF f
<1>8. f[0] = g /\ \A i \in 1..N : f[i] = ProgressBorrow(f[i - 1], i)
  <2>1. 0 \in 0..N /\ \A i \in 1..N : i \in 0..N /\ i # 0
    BY <1>1
  <2>2. \A i \in 0..N : f[i] = IF i = 0 THEN g ELSE ProgressBorrow(f[i - 1], i)
    BY <1>6
  <2> QED BY <2>1, <2>2
<1>9. \A i \in 1..N : f[i - 1] \in G[i - 1] => f[i] \in G[i]
  BY <1>4, <1>8
<1>10. f[N] \in G[N]
  BY <1>1, <1>3, <1>8, <1>9, Carried
<1>11. f[N] \in {x \in HostState : Sound(x, q, d, o, {}, 0)}
  BY <1>1, <1>2, <1>10
<1> QED BY <1>7, <1>11

(* ----------------------- an operation is ended -------------------------- *)

\* The provider is told once of a cancellation that came after delivery.
Cancelling(g, r) ==
    IF g.op[r].cancelled /\ g.op[r].delivered /\ ~g.op[r].completed /\ ~g.op[r].cancellation_notified /\ CanPostProvider(g)
    THEN [PostProvider(g, [t |-> "cancelled", r |-> r, quiescence |-> "none"]) EXCEPT
             !.op[r].cancellation_notified = TRUE]
    ELSE g

LEMMA CancellingSound ==
  ASSUME NEW g, NEW q, NEW d, NEW o, NEW r \in Requests, Sound(g, q, d, o, {}, 0)
  PROVE  LET x == Cancelling(g, r) IN
         /\ Sound(x, q, d, o, {}, 0) /\ x.terminal = g.terminal /\ x.rec = g.rec
         /\ AsOperation(g.op[r], x.op[r])
<1> DEFINE a == [t |-> "cancelled", r |-> r, quiescence |-> "none"]
           y == PostProvider(g, a)
           b == [g.op[r] EXCEPT !.cancellation_notified = TRUE]
           x == [y EXCEPT !.op[r].cancellation_notified = TRUE]
<1>1. Cancelling(g, r) = x \/ Cancelling(g, r) = g
  BY DEF Cancelling
<1>2. a \in Notice
  BY DEF Notice, Quiescence
<1> HIDE DEF a
<1>3. /\ Sound(y, q, d, o, {}, 0) /\ y.op = g.op /\ y.rec = g.rec /\ y \in HostState
      /\ y.op[r] \in Operation /\ y.reserved \in Nat /\ y.terminal = g.terminal
  BY <1>2, NoticeSound, Entries DEF Sound
<1> HIDE DEF y
<1>4. b \in Operation /\ AsOperation(y.op[r], b)
  BY <1>3 DEF Operation, AsOperation
<1>5. x = WithOperation(y, r, b, y.reserved)
  BY <1>3 DEF WithOperation, HostState
<1> HIDE DEF x, b
<1>6. /\ x \in HostState /\ Rest(y, x) /\ Elsewhere(y, x, r)
      /\ x.op[r] = b /\ x.rec = y.rec /\ x.reserved = y.reserved
  BY <1>3, <1>4, <1>5, NewOperation
<1>7. Sound(x, q, d, o, {}, 0)
  BY <1>3, <1>4, <1>6, OperationSound DEF Rest
<1>8. x.terminal = g.terminal /\ x.rec = g.rec /\ AsOperation(g.op[r], x.op[r])
  BY <1>3, <1>4, <1>6 DEF Rest, Still
<1>9. AsOperation(g.op[r], g.op[r])
  BY DEF AsOperation
<1> QED BY <1>1, <1>7, <1>8, <1>9

\* An operation whose result is due.
Due(g, r) ==
    /\ g.op[r].live /\ g.op[r].delivered /\ (g.op[r].completed \/ g.op[r].cancelled)
    /\ ~g.op[r].terminal_sent /\ PublicationSettled(g, r)

\* The same operation, its result sent.
SentOperation(a, b) ==
    /\ b \in Operation /\ b.live = a.live /\ b.of = a.of /\ b.offered = a.offered /\ b.delivered = a.delivered
    /\ b.completed = a.completed /\ b.borrow = a.borrow /\ b.cancelled = a.cancelled /\ b.terminal_sent

LEMMA SentAbout ==
  ASSUME NEW g, NEW x, NEW q, NEW d, NEW o, NEW r \in Requests, Sound(g, q, d, o, {}, 0),
         Due(g, r), SentOperation(g.op[r], x.op[r]), x.rec = g.rec,
         x.terminal = g.terminal, x.last = g.last, x.route = g.route,
         (Lent(x, r) <=> Lent(g, r)), (Acked(x, r) <=> Acked(g, r)), (Enrolled(x, r) <=> Enrolled(g, r)),
         (Done(x, r) <=> Done(g, r) \/ ~g.terminal),
         (Closes(x, r) <=> Closes(g, r)), (Retires(x, r) <=> Retires(g, r)), (Never(x, r) <=> Never(g, r)),
         (Withdrawn(x, r) <=> Withdrawn(g, r)), (Withdraws(x, r) <=> Withdraws(g, r))
  PROVE  About(x, q, d, o, {}, r)
<1>1. About(g, q, d, o, {}, r) /\ Inbox(g) /\ Owes(g.op[r]) /\ ~Owes(x.op[r])
  BY DEF Sound, Due, Owes, SentOperation
<1>2. g.rec[r].live => g.rec[r].settled
  BY <1>1 DEF About, Loan, Spent, Due, PublicationSettled
<1>3. g.terminal => ~Acked(g, r) /\ ~Lent(g, r)
  BY <1>1 DEF Inbox, Acked, Lent, Has
<1>4. Shape(x, r)
  BY <1>1 DEF About, Shape
<1>5. Loan(x, q, {}, r)
  BY <1>1, <1>2 DEF About, Loan, SentOperation, Spent, Unsettled, Due
<1>6. Watch(x, d, o, r)
  BY <1>1 DEF About, Watch, SentOperation, Spent, Reads
<1>7. Answers(x, d, o, r)
  BY <1>1, <1>3 DEF About, Answers, SentOperation, Due
<1>8. Withdrawal(x, d, o, r)
  BY <1>1 DEF About, Withdrawal
<1> QED BY <1>4, <1>5, <1>6, <1>7, <1>8 DEF About

LEMMA SentBooks ==
  ASSUME NEW g, NEW x, NEW r \in Requests, Books(g, 0), Owes(g.op[r]), ~Owes(x.op[r]), x.rec = g.rec,
         Elsewhere(g, x, r), g.reserved \in Nat, x.reserved = g.reserved - 1, Room(x)
  PROVE  Books(x, 0)
<1>1. Bit(Owes(g.op[r])) = 1 /\ Bit(Owes(x.op[r])) = 0
  BY DEF Bit
<1>2. Bit(Unsettled(x.rec[r])) = Bit(Unsettled(g.rec[r])) /\ Bit(Unsettled(g.rec[r])) \in Nat
  BY DEF Bit
<1>3. /\ Debts(g) \in Nat /\ Debts(x) \in Nat
      /\ Debts(x) + Bit(Owes(g.op[r])) + Bit(Unsettled(g.rec[r]))
            = Debts(g) + Bit(Owes(x.op[r])) + Bit(Unsettled(x.rec[r]))
  BY Balance
<1> DEFINE v == Debts(g)
           w == Debts(x)
           e == Bit(Unsettled(g.rec[r]))
<1>4. v \in Nat /\ w \in Nat /\ e \in Nat /\ w + 1 + e = v + 0 + e
  BY <1>1, <1>2, <1>3
<1>5. g.reserved = v + 0
  BY DEF Books
<1> HIDE DEF v, w, e
<1>6. x.reserved = w + 0
  BY <1>4, <1>5
<1> QED BY <1>6 DEF Books, Room, w

\* The credit of the result is spent.
SpentCredit(g) == [g EXCEPT !.reserved = IF @ > 0 THEN @ - 1 ELSE 0]

LEMMA SpentCreditIs ==
  ASSUME NEW g \in HostState, g.reserved > 0
  PROVE  LET z == SpentCredit(g) IN
         /\ z \in HostState /\ Rest(g, z) /\ z.op = g.op /\ z.rec = g.rec /\ z.reserved = g.reserved - 1
         /\ z.reserved \in Nat
<1> DEFINE z == SpentCredit(g)
           k == g.reserved - 1
<1>1. k \in Nat
  BY DEF HostState
<1>2. z = [g EXCEPT !.reserved = k]
  BY DEF SpentCredit
<1> HIDE DEF k, z
<1>3. z \in HostState /\ Rest(g, z) /\ z.op = g.op /\ z.rec = g.rec /\ z.reserved = k
  BY <1>1, <1>2 DEF HostState, Rest, Still
<1> QED BY <1>1, <1>3 DEF k, z

LEMMA SentToNobody ==
  ASSUME NEW g, NEW q, NEW d, NEW o, NEW r \in Requests, Sound(g, q, d, o, {}, 0),
         Due(g, r), g.terminal
  PROVE  LET x == [SpentCredit(g) EXCEPT !.op[r].terminal_sent = TRUE] IN
         Sound(x, q, d, o, {}, 0) /\ SentOperation(g.op[r], x.op[r])
<1> DEFINE z == SpentCredit(g)
           b == [g.op[r] EXCEPT !.terminal_sent = TRUE]
           x == [z EXCEPT !.op[r].terminal_sent = TRUE]
<1>1. /\ g \in HostState /\ Books(g, 0) /\ Inbox(g) /\ Owes(g.op[r])
      /\ g.op[r] \in Operation /\ g.reserved \in Nat /\ g.reserved > 0
  BY Entries, Funded DEF Sound, Due, Owes
<1>2. /\ z \in HostState /\ Rest(g, z) /\ z.op = g.op /\ z.rec = g.rec /\ z.reserved = g.reserved - 1
      /\ z.reserved \in Nat
  BY <1>1, SpentCreditIs
<1> HIDE DEF z
<1>3. b \in Operation /\ SentOperation(g.op[r], b) /\ ~Owes(b)
  BY <1>1 DEF Operation, SentOperation, Owes
<1>4. x = WithOperation(z, r, b, z.reserved)
  BY <1>1, <1>2 DEF WithOperation, HostState
<1> HIDE DEF b, x
<1>5. /\ x \in HostState /\ Rest(z, x) /\ Elsewhere(z, x, r)
      /\ x.op[r] = b /\ x.rec = z.rec /\ x.reserved = z.reserved
  BY <1>2, <1>3, <1>4, NewOperation
<1>6. Still(g, x) /\ Elsewhere(g, x, r) /\ x.rec = g.rec /\ x.reserved = g.reserved - 1
  BY <1>2, <1>5 DEF Rest, Still, Elsewhere, Same
<1>7. About(x, q, d, o, {}, r)
  <2>1. /\ x.reply = g.reply /\ x.control = g.control /\ x.terminal = g.terminal /\ x.last = g.last /\ x.route = g.route
    BY <1>6 DEF Still
  <2>2. /\ (Lent(x, r) <=> Lent(g, r)) /\ (Done(x, r) <=> Done(g, r)) /\ (Acked(x, r) <=> Acked(g, r))
        /\ (Enrolled(x, r) <=> Enrolled(g, r)) /\ (Closes(x, r) <=> Closes(g, r)) /\ (Retires(x, r) <=> Retires(g, r))
        /\ (Withdrawn(x, r) <=> Withdrawn(g, r))
        /\ (Never(x, r) <=> Never(g, r)) /\ (Withdraws(x, r) <=> Withdraws(g, r))
    BY <2>1 DEF Lent, Done, Acked, Enrolled, Closes, Retires, Withdrawn, Never, Withdraws
  <2> QED BY <1>3, <1>5, <1>6, <2>1, <2>2, SentAbout
<1>8. Room(x)
  <2>1. Len(g.reply) \in Nat /\ ReplyCapacity \in Nat
    BY <1>1, ServiceAssumption DEF HostState
  <2> QED BY <1>1, <1>6, <2>1 DEF Room, Books, Still
<1>9. Books(x, 0)
  BY <1>1, <1>3, <1>5, <1>6, <1>8, SentBooks
<1>10. Sound(x, q, d, o, {}, 0)
  BY <1>5, <1>6, <1>7, <1>9, MoveSound
<1> QED BY <1>3, <1>5, <1>10 DEF x, z

LEMMA SentToClient ==
  ASSUME NEW g, NEW q, NEW d, NEW o, NEW r \in Requests, Sound(g, q, d, o, {}, 0),
         Due(g, r), NEW ok \in BOOLEAN, CanPostReply(SpentCredit(g))
  PROVE  LET x == [PostReply(SpentCredit(g), [t |-> "completed", r |-> r, ok |-> ok]) EXCEPT !.op[r].terminal_sent = TRUE] IN
         Sound(x, q, d, o, {}, 0) /\ SentOperation(g.op[r], x.op[r])
<1> DEFINE a == [t |-> "completed", r |-> r, ok |-> ok]
           z == SpentCredit(g)
           y == PostReply(z, a)
           b == [g.op[r] EXCEPT !.terminal_sent = TRUE]
           x == [y EXCEPT !.op[r].terminal_sent = TRUE]
<1>1. /\ g \in HostState /\ About(g, q, d, o, {}, r) /\ Books(g, 0) /\ Inbox(g) /\ Owes(g.op[r])
      /\ g.op[r] \in Operation /\ g.reserved \in Nat /\ g.reserved > 0
  BY Entries, Funded DEF Sound, Due, Owes
<1>2. /\ z \in HostState /\ Rest(g, z) /\ z.op = g.op /\ z.rec = g.rec /\ z.reserved = g.reserved - 1
      /\ z.reserved \in Nat
  BY <1>1, SpentCreditIs
<1>3. CanPostReply(z)
  OBVIOUS
<1>4. ~Done(g, r)
  BY <1>1 DEF About, Answers
<1>5. a \in Answer /\ a.t = "completed" /\ a.r = r
  <2>1. r \in 0..N
    BY ServiceAssumption DEF Requests
  <2> QED BY <2>1 DEF Answer
<1>6. Inbox(z) /\ (\A t, i : Has(z.reply, t, i) <=> Has(g.reply, t, i)) /\ z.terminal = g.terminal
  BY <1>1, <1>2 DEF Rest, Still, Inbox
<1> HIDE DEF z, a
<1>7. \A t : Misplaced(t, a.t) => ~Has(z.reply, t, a.r)
  BY <1>4, <1>5, <1>6 DEF Misplaced, Done
<1>8. Lanes(z, y) /\ Mail(z, y, a) /\ Inbox(y) /\ Room(y) /\ ~g.terminal
  BY <1>2, <1>3, <1>5, <1>6, <1>7, PostReplyIs DEF Controls
<1> HIDE DEF y
<1>9. b \in Operation /\ SentOperation(g.op[r], b) /\ ~Owes(b)
  BY <1>1 DEF Operation, SentOperation, Owes
<1>10. x = WithOperation(y, r, b, y.reserved) /\ y \in HostState /\ y.reserved \in Nat
  <2>1. y.op = g.op /\ y \in HostState /\ y.reserved \in Nat
    BY <1>2, <1>8 DEF Lanes
  <2> QED BY <1>1, <2>1 DEF WithOperation, HostState
<1> HIDE DEF b, x
<1>11. /\ x \in HostState /\ Rest(y, x) /\ Elsewhere(y, x, r)
       /\ x.op[r] = b /\ x.rec = y.rec /\ x.reserved = y.reserved
  BY <1>9, <1>10, NewOperation
<1>12. /\ Mail(z, x, a) /\ Inbox(x) /\ x.threaded = g.threaded /\ x.terminal = g.terminal /\ x.last = g.last
       /\ x.route = g.route /\ x.failed = g.failed /\ x.provider_stop = g.provider_stop
  <2>1. Still(y, x)
    BY <1>11 DEF Rest
  <2> QED BY <1>2, <1>8, <2>1, LanesMove DEF Rest, Still
<1>13. Mail(g, x, a)
  BY <1>2, <1>12 DEF Rest, Still, Mail, Acked, Lent, Done, Enrolled, Left, Closes, Retires, Never, Withdrawn, Withdraws
<1>14. x.rec = g.rec /\ Elsewhere(g, x, r) /\ x.reserved = g.reserved - 1
  BY <1>2, <1>8, <1>11 DEF Lanes, Elsewhere, Same
<1>15. About(x, q, d, o, {}, r)
  <2>1. /\ Done(x, r) /\ (Lent(x, r) <=> Lent(g, r)) /\ (Acked(x, r) <=> Acked(g, r)) /\ (Enrolled(x, r) <=> Enrolled(g, r))
        /\ (Closes(x, r) <=> Closes(g, r)) /\ (Retires(x, r) <=> Retires(g, r)) /\ (Never(x, r) <=> Never(g, r))
        /\ (Withdrawn(x, r) <=> Withdrawn(g, r)) /\ (Withdraws(x, r) <=> Withdraws(g, r))
    BY <1>5, <1>13 DEF Mail, Controls
  <2> QED BY <1>8, <1>9, <1>11, <1>12, <1>14, <2>1, SentAbout
<1>16. Room(x)
  BY <1>8, <1>11 DEF Room, Rest, Still
<1>17. Books(x, 0)
  BY <1>1, <1>9, <1>11, <1>14, <1>16, SentBooks
<1>18. Sound(x, q, d, o, {}, 0)
  BY <1>5, <1>11, <1>12, <1>13, <1>14, <1>15, <1>17, PostedSound
<1> QED BY <1>9, <1>11, <1>18 DEF x, y, z, a

\* A completed operation whose result has been sent is forgotten.
LEMMA ForgottenSound ==
  ASSUME NEW g, NEW q, NEW d, NEW o, NEW r \in Requests, Sound(g, q, d, o, {}, 0),
         g.op[r].live, g.op[r].terminal_sent, g.op[r].completed
  PROVE  Sound([g EXCEPT !.op[r] = NoOperation], q, d, o, {}, 0)
<1> DEFINE b == NoOperation
           x == [g EXCEPT !.op[r] = b]
<1>1. g \in HostState /\ About(g, q, d, o, {}, r) /\ Books(g, 0) /\ g.reserved \in Nat
  BY Entries DEF Sound
<1>2. b \in Operation /\ ~b.live /\ ~b.borrow /\ ~b.completed /\ ~b.terminal_sent
  BY ServiceAssumption DEF Operation, NoOperation, Kind
<1>3. x = WithOperation(g, r, b, g.reserved)
  BY <1>1 DEF WithOperation, HostState
<1> HIDE DEF b, x
<1>4. /\ x \in HostState /\ Rest(g, x) /\ Elsewhere(g, x, r)
      /\ x.op[r] = b /\ x.rec = g.rec /\ x.reserved = g.reserved
  BY <1>1, <1>2, <1>3, NewOperation
<1>5. Shape(x, r)
  BY <1>1, <1>4 DEF About, Shape, Rest, Still
<1>6. Loan(x, q, {}, r)
  BY <1>1, <1>2, <1>4 DEF About, Loan, Rest, Still, Spent, Unsettled, Owes
<1>7. Watch(x, d, o, r)
  BY <1>1, <1>2, <1>4 DEF About, Watch, Rest, Still, Spent, Reads, Lent, Never, Closes, Retires
<1>8. Answers(x, d, o, r)
  BY <1>1, <1>2, <1>4 DEF About, Answers, Rest, Still, Owes, Done, Acked, Lent, Enrolled
<1>9. Withdrawal(x, d, o, r)
  BY <1>1, <1>4 DEF About, Withdrawal, Rest, Still, Withdraws, Withdrawn, Closes, Retires, Lent
<1>10. Books(x, 0)
  BY <1>1, <1>2, <1>4, SameBooks DEF Rest, Still, Owes
<1>11. Sound(x, q, d, o, {}, 0)
  BY <1>4, <1>5, <1>6, <1>7, <1>8, <1>9, <1>10, MoveSound DEF About, Rest
<1> QED BY <1>11 DEF x, b

LEMMA ProgressOperationSound ==
  ASSUME NEW g, NEW q, NEW d, NEW o, NEW r \in Requests, Sound(g, q, d, o, {}, 0)
  PROVE  Sound(ProgressOperation(g, r), q, d, o, {}, 0)
<1> DEFINE op == g.op[r]
           told == Cancelling(g, r)
           spent == SpentCredit(told)
           ok == op.ok /\ ~op.cancelled
           unheard == [spent EXCEPT !.op[r].terminal_sent = TRUE]
           posted == [PostReply(spent, [t |-> "completed", r |-> r, ok |-> ok]) EXCEPT !.op[r].terminal_sent = TRUE]
           sent == IF op.terminal_sent THEN told ELSE IF g.terminal THEN unheard
                   ELSE IF CanPostReply(spent) THEN posted ELSE told
<1>1. ProgressOperation(g, r) =
          IF ~op.live THEN g
          ELSE IF ~op.delivered \/ ~(op.completed \/ op.cancelled) \/ ~PublicationSettled(g, r) THEN told
          ELSE IF sent.op[r].terminal_sent /\ op.completed THEN [sent EXCEPT !.op[r] = NoOperation]
          ELSE sent
  BY Zenon DEF ProgressOperation, Cancelling, SpentCredit
<1>2. ok \in BOOLEAN
  OBVIOUS
<1> HIDE DEF told, ok
<1>3. Sound(told, q, d, o, {}, 0) /\ told.terminal = g.terminal /\ told.rec = g.rec /\ AsOperation(op, told.op[r])
  BY CancellingSound DEF told
<1>4. CASE op.live /\ op.delivered /\ (op.completed \/ op.cancelled) /\ PublicationSettled(g, r)
  <2>1. ~op.terminal_sent => Due(told, r)
    BY <1>3, <1>4 DEF AsOperation, Due, PublicationSettled
  <2>2. Due(told, r) /\ g.terminal => Sound(unheard, q, d, o, {}, 0) /\ SentOperation(told.op[r], unheard.op[r])
    BY <1>3, SentToNobody
  <2>3. Due(told, r) /\ CanPostReply(spent) => Sound(posted, q, d, o, {}, 0) /\ SentOperation(told.op[r], posted.op[r])
    BY <1>2, <1>3, SentToClient
  <2> HIDE DEF unheard, posted, spent
  <2>4. /\ Sound(sent, q, d, o, {}, 0)
        /\ sent.op[r].live = told.op[r].live /\ sent.op[r].completed = told.op[r].completed
    BY <1>3, <2>1, <2>2, <2>3 DEF SentOperation
  <2> HIDE DEF sent
  <2>5. sent.op[r].live /\ sent.op[r].completed = op.completed
    BY <1>3, <1>4, <2>4 DEF AsOperation
  <2>6. sent.op[r].terminal_sent /\ op.completed => Sound([sent EXCEPT !.op[r] = NoOperation], q, d, o, {}, 0)
    BY <2>4, <2>5, ForgottenSound
  <2> QED BY <1>1, <1>4, <2>4, <2>6
<1>5. CASE ~(op.live /\ op.delivered /\ (op.completed \/ op.cancelled) /\ PublicationSettled(g, r))
  BY <1>1, <1>3, <1>5
<1> QED BY <1>4, <1>5

LEMMA OperationsProgressSound ==
  ASSUME NEW g, NEW q, NEW d, NEW o, Sound(g, q, d, o, {}, 0)
  PROVE  Sound(ForEachRequest(ProgressOperation, g), q, d, o, {}, 0)
<1> DEFINE G == [i \in 0..N |-> {x \in HostState : Sound(x, q, d, o, {}, 0)}]
           Upto(e) == e = [i \in 0..N |-> IF i = 0 THEN g ELSE ProgressOperation(e[i - 1], i)]
           f == CHOOSE e : Upto(e)
<1>1. N \in Nat /\ 1..N = Requests
  BY ServiceAssumption DEF Requests
<1>2. \A i \in 0..N : G[i] = {x \in HostState : Sound(x, q, d, o, {}, 0)}
  OBVIOUS
<1> HIDE DEF G
<1>3. g \in G[0]
  <2>1. 0 \in 0..N /\ g \in HostState
    BY <1>1 DEF Sound
  <2> QED BY <1>2, <2>1
<1>4. ASSUME NEW i \in 1..N, NEW x \in G[i - 1] PROVE ProgressOperation(x, i) \in G[i]
  <2>1. i - 1 \in 0..N /\ i \in 0..N  /\ i \in Requests
    BY <1>1
  <2>2. x \in {z \in HostState : Sound(z, q, d, o, {}, 0)}
    BY <1>2, <2>1
  <2>3. Sound(ProgressOperation(x, i), q, d, o, {}, 0)
    BY <2>1, <2>2, ProgressOperationSound
  <2>4. ProgressOperation(x, i) \in HostState
    BY <2>3 DEF Sound
  <2> QED BY <1>2, <2>1, <2>3, <2>4
<1>5. \E e : Upto(e)
  <2> DEFINE step == [i \in 1..N |-> [x \in G[i - 1] |-> ProgressOperation(x, i)]]
  <2>1. \A i \in 1..N : \A x \in G[i - 1] : step[i][x] = ProgressOperation(x, i)
    OBVIOUS
  <2>2. \A i \in 1..N : \A x \in G[i - 1] : step[i][x] \in G[i]
    BY <1>4, <2>1
  <2> HIDE DEF step
  <2>3. PICK e : Stepped(e, N, g, step) /\ \A i \in 0..N : e[i] \in G[i]
    BY <1>1, <1>3, <2>2, Run
  <2>4. ASSUME NEW i \in 0..N, i # 0 PROVE step[i][e[i - 1]] = ProgressOperation(e[i - 1], i)
    <3>1. i \in 1..N /\ e[i - 1] \in G[i - 1]
      BY <1>1, <2>3, <2>4
    <3> QED BY <2>1, <3>1
  <2>5. Upto(e)
    BY <2>3, <2>4 DEF Stepped
  <2> QED BY <2>5
<1>6. Upto(f)
  <2> HIDE DEF Upto
  <2> QED BY <1>5
<1>7. ForEachRequest(ProgressOperation, g) = f[N]
  BY DEF ForEachRequest
<1> HIDE DEF f
<1>8. f[0] = g /\ \A i \in 1..N : f[i] = ProgressOperation(f[i - 1], i)
  <2>1. 0 \in 0..N /\ \A i \in 1..N : i \in 0..N /\ i # 0
    BY <1>1
  <2>2. \A i \in 0..N : f[i] = IF i = 0 THEN g ELSE ProgressOperation(f[i - 1], i)
    BY <1>6
  <2> QED BY <2>1, <2>2
<1>9. \A i \in 1..N : f[i - 1] \in G[i - 1] => f[i] \in G[i]
  BY <1>4, <1>8
<1>10. f[N] \in G[N]
  BY <1>1, <1>3, <1>8, <1>9, Carried
<1>11. f[N] \in {x \in HostState : Sound(x, q, d, o, {}, 0)}
  BY <1>1, <1>2, <1>10
<1> QED BY <1>7, <1>11

(* ------------------------- the service turn ----------------------------- *)

LEMMA RouterProgressSound ==
  ASSUME NEW g, NEW q, NEW d, NEW o, Sound(g, q, d, o, {}, 0)
  PROVE  Sound(RouterProgress(g), q, d, o, {}, 0)
<1> DEFINE x1 == ForEachRequest(ProgressBorrow, g)
           x2 == ForEachRequest(ProgressOperation, x1)
<1>1. RouterProgress(g) = IF x2.route = "closing" /\ RouteIdle(x2) THEN [x2 EXCEPT !.route = "none"] ELSE x2
  BY DEF RouterProgress, ProgressRoute
<1>2. Sound(x1, q, d, o, {}, 0)
  BY BorrowsProgressSound
<1> HIDE DEF x1
<1>3. Sound(x2, q, d, o, {}, 0)
  BY <1>2, OperationsProgressSound
<1> HIDE DEF x2
<1>4. RouteIdle(x2) => Sound([x2 EXCEPT !.route = "none"], q, d, o, {}, 0)
  BY <1>3, IdleRouteSound
<1> QED BY <1>1, <1>3, <1>4

LEMMA ServiceTurnKeeps ==
  ASSUME IInv, ServiceTurn
  PROVE  IInv'
<1> DEFINE x == IF h.terminal /\ drain.drained THEN RetireClient(h, ExecutionQuiescent) ELSE h
<1>1. Sound(h, p, c, out, {}, 0) /\ disturbed \in 0..Disturbances /\ ~c.refused
  BY DEF IInv
<1>2. h' = RouterProgress(x) /\ UNCHANGED <<p, c, out, disturbed>> /\ turn' = "drain"
  BY DEF ServiceTurn
<1>3. h.terminal => Gone(h, c, ExecutionQuiescent)
  BY DEF Gone, ExecutionQuiescent
<1>4. h.terminal => Sound(RetireClient(h, ExecutionQuiescent), p, c, out, {}, 0)
  BY <1>1, <1>3, RetireClientSound
<1>5. Sound(x, p, c, out, {}, 0)
  BY <1>1, <1>4
<1> HIDE DEF x
<1>6. Sound(h', p, c, out, {}, 0)
  BY <1>2, <1>5, RouterProgressSound
<1> QED BY <1>1, <1>2, <1>6 DEF IInv

(* ---------------------- what the consumer sends ------------------------- *)

\* u is the outbox with one call more.
Sent(o, u, call) ==
    /\ u \in Outbox /\ Single(u.pod)
    /\ \A r : (Asked(u, r) <=> Asked(o, r) \/ (call.t = "request" /\ call.r = r))
    /\ \A r : (Registering(u, r) <=> Registering(o, r) \/ (call.t = "register" /\ call.r = r))
    /\ \A r : (Quitting(u, r) <=> Quitting(o, r) \/ (call.t = "quiescent" /\ call.r = r))
    /\ Leaving(u) <=> Leaving(o) \/ (call.t = "close" /\ call.r = 0)

LEMMA SendIs ==
  ASSUME NEW o \in Outbox, Single(o.pod), NEW call \in Call, NEW lane \in {"control", "pod"},
         lane = "control" => call \in Word, call.t \in Once => ~Has(o.pod, call.t, call.r),
         NEW u, u = [o EXCEPT ![lane] = Append(@, call)]
  PROVE  Sent(o, u, call)
<1>1. o.control \in Seq(Word) /\ o.pod \in Seq(Call)
  BY DEF Outbox
<1>2. CASE lane = "control"
  <2> DEFINE s == Append(o.control, call)
  <2>1. /\ s \in Seq(Word)
        /\ \A t, r : (Has(s, t, r) <=> Has(o.control, t, r) \/ (call.t = t /\ call.r = r))
    BY <1>1, <1>2, AppendedAt, AppendHas
  <2>2. call.t \in {"cancel", "release", "quiescent"}
    BY <1>2 DEF Word
  <2> HIDE DEF s
  <2>3. u.control = s /\ u.pod = o.pod /\ u \in Outbox
    BY <1>1, <1>2, <2>1 DEF Outbox, s
  <2> QED BY <2>1, <2>2, <2>3 DEF Sent, Asked, Registering, Quitting, Leaving
<1>3. CASE lane = "pod"
  <2> DEFINE s == Append(o.pod, call)
  <2>1. /\ s \in Seq(Call)
        /\ \A t, r : (Has(s, t, r) <=> Has(o.pod, t, r) \/ (call.t = t /\ call.r = r))
    BY <1>1, AppendedAt, AppendHas
  <2>2. Single(s)
    BY <1>1, AppendSingle
  <2> HIDE DEF s
  <2>3. u.control = o.control /\ u.pod = s /\ u \in Outbox
    BY <1>1, <1>3, <2>1 DEF Outbox, s
  <2> QED BY <2>1, <2>2, <2>3 DEF Sent, Asked, Registering, Quitting, Leaving
<1> QED BY <1>2, <1>3

\* The action Send, from the outbox of a sound state.
LEMMA SendSent ==
  ASSUME NEW g, NEW q, NEW d, Sound(g, q, d, out, {}, 0), NEW call \in Call, NEW lane \in {"control", "pod"},
         lane = "control" => call \in Word, call.t \in Once => ~Has(out.pod, call.t, call.r),
         Send(lane, call)
  PROVE  Sent(out, out', call)
<1> DEFINE where == IF h.threaded THEN "pod" ELSE lane
<1>1. where \in {"control", "pod"} /\ (where = "control" => lane = "control")
  OBVIOUS
<1>2. out' = [out EXCEPT ![where] = Append(@, call)]
  BY DEF Send
<1>3. out \in Outbox /\ Single(out.pod)
  BY DEF Sound
<1> HIDE DEF where
<1> QED BY <1>1, <1>2, <1>3, SendIs

\* A step of the consumer that reads none of its messages.
LEMMA CallerSound ==
  ASSUME NEW g, NEW q, NEW d, NEW e, NEW o, NEW u, NEW r,
         Sound(g, q, d, o, {}, 0), e \in ClientState, u \in Outbox, d.next <= e.next,
         \A i \in Requests : i # r => e.rec[i] = d.rec[i] /\ e.using[i] = d.using[i] /\ FewerCalls(o, u, i),
         r \in Requests => About(g, q, e, u, {}, r),
         Single(u.pod), Route(g, e, u), Ended(g, e)
  PROVE  Sound(g, q, e, u, {}, 0)
<1>1. g \in HostState /\ Inbox(g) /\ Calm(g, q) /\ Books(g, 0)
  BY DEF Sound
<1>2. Onward(g, g)
  BY <1>1, ServiceAssumption DEF Onward, HostState
<1>3. \A i \in Requests : i # r => Apart(g, g, d, e, o, u, i)
  BY DEF Apart, Same, SameMail
<1> QED BY <1>1, <1>2, <1>3, StepSound

\* What the consumer knows of one request is replaced.
WithClient(d, r, k) == [d EXCEPT !.rec = [d.rec EXCEPT ![r] = k]]

LEMMA NewClient ==
  ASSUME NEW d \in ClientState, NEW r \in Requests, NEW k \in ClientRecord, NEW e, e = WithClient(d, r, k)
  PROVE  /\ e \in ClientState /\ e.next = d.next /\ e.route = d.route /\ e.refused = d.refused /\ e.using = d.using
         /\ e.rec[r] = k /\ \A i \in Requests : i # r => e.rec[i] = d.rec[i]
<1> DEFINE rec == [d.rec EXCEPT ![r] = k]
<1>1. rec \in [Requests -> ClientRecord] /\ rec[r] = k /\ \A i \in Requests : i # r => rec[i] = d.rec[i]
  BY DEF ClientState
<1> HIDE DEF rec
<1> QED BY <1>1 DEF WithClient, ClientState

\* The same, with a call of the same request.
LEMMA ClientSound ==
  ASSUME NEW g, NEW q, NEW d, NEW o, NEW u, NEW r \in Requests, NEW k \in ClientRecord,
         Sound(g, q, d, o, {}, 0), ~g.terminal, u = o \/ \E call \in Call : call.r = r /\ Sent(o, u, call),
         About(g, q, WithClient(d, r, k), u, {}, r)
  PROVE  Sound(g, q, WithClient(d, r, k), u, {}, 0)
<1> DEFINE e == WithClient(d, r, k)
<1>1. d \in ClientState /\ o \in Outbox /\ Single(o.pod) /\ Route(g, d, o)
  BY DEF Sound
<1>2. /\ e \in ClientState /\ e.next = d.next /\ e.route = d.route /\ e.using = d.using
      /\ e.rec[r] = k /\ \A i \in Requests : i # r => e.rec[i] = d.rec[i]
  BY <1>1, NewClient
<1> HIDE DEF e
<1>3. /\ u \in Outbox /\ Single(u.pod) /\ (Leaving(u) <=> Leaving(o))
      /\ \A i \in Requests : i # r => FewerCalls(o, u, i)
  <2>1. CASE u = o
    BY <1>1, <2>1 DEF FewerCalls
  <2>2. CASE \E call \in Call : call.r = r /\ Sent(o, u, call)
    <3>1. PICK call \in Call : call.r = r /\ Sent(o, u, call)
      BY <2>2
    <3>2. r # 0
      BY ServiceAssumption DEF Requests
    <3> QED BY <3>1, <3>2 DEF Sent, FewerCalls
  <2> QED BY <2>1, <2>2
<1>4. Route(g, e, u) /\ Ended(g, e) /\ d.next <= e.next
  BY <1>1, <1>2, <1>3, ServiceAssumption DEF Route, Ended, ClientState
<1>5. About(g, q, e, u, {}, r)
  BY DEF e
<1>6. Sound(g, q, e, u, {}, 0)
  BY <1>2, <1>3, <1>4, <1>5, CallerSound
<1> QED BY <1>6 DEF e

(* ------------------- the consumer lets go of a view --------------------- *)

\* The consumer answers nothing, and reads nothing more.
Quieter(a, b) ==
    /\ b.live = a.live /\ b.acknowledged = a.acknowledged /\ b.seen_prepared = a.seen_prepared
    /\ b.seen_terminal = a.seen_terminal /\ b.never_published = a.never_published /\ b.retired = a.retired
    /\ b.borrow = a.borrow /\ b.quiescent = a.quiescent
    /\ b.view => a.view
    /\ a.waiting => b.waiting

LEMMA QuieterAbout ==
  ASSUME NEW g, NEW q, NEW d, NEW e, NEW o, NEW u, NEW com, NEW r, About(g, q, d, o, com, r),
         Quieter(d.rec[r], e.rec[r]), e.next = d.next, e.using[r] => d.using[r],
         (Asked(u, r) <=> Asked(o, r)), (Quitting(u, r) <=> Quitting(o, r)),
         Registering(u, r) => Registering(o, r)
             \/ (e.rec[r].live /\ e.rec[r].borrow /\ e.rec[r].waiting /\ ~Enrolled(g, r))
  PROVE  About(g, q, e, u, com, r)
<1>1. Shape(g, r) /\ Loan(g, q, com, r)
  BY DEF About
<1>2. Watch(g, e, u, r)
  BY DEF About, Watch, Quieter, Reads
<1>3. Answers(g, e, u, r)
  BY DEF About, Answers, Quieter
<1>4. Withdrawal(g, e, u, r)
  BY DEF About, Withdrawal, Quieter
<1> QED BY <1>1, <1>2, <1>3, <1>4 DEF About

\* What the consumer has said before is of no account.
WithSaid(d, b) == [d EXCEPT !.said = b]

LEMMA SaidSound ==
  ASSUME NEW g, NEW q, NEW d, NEW o, NEW b \in [Requests -> BOOLEAN], Sound(g, q, d, o, {}, 0)
  PROVE  Sound(g, q, WithSaid(d, b), o, {}, 0) /\ WithSaid(d, b).refused = d.refused
<1> DEFINE e == WithSaid(d, b)
<1>1. d \in ClientState /\ o \in Outbox /\ Single(o.pod) /\ Route(g, d, o) /\ Ended(g, d)
  BY DEF Sound
<1>2. /\ e \in ClientState /\ e.next = d.next /\ e.route = d.route /\ e.rec = d.rec /\ e.using = d.using
      /\ e.refused = d.refused
  BY <1>1 DEF WithSaid, ClientState
<1> HIDE DEF e
<1>3. Route(g, e, o) /\ Ended(g, e) /\ d.next <= e.next
  BY <1>1, <1>2, ServiceAssumption DEF Route, Ended, ClientState
<1>4. \A i \in Requests : e.rec[i] = d.rec[i] /\ e.using[i] = d.using[i] /\ FewerCalls(o, o, i)
  BY <1>2 DEF FewerCalls
<1>5. 0 \notin Requests
  BY DEF Requests
<1>6. Sound(g, q, e, o, {}, 0)
  BY <1>1, <1>2, <1>3, <1>4, <1>5, CallerSound
<1> QED BY <1>2, <1>6 DEF e

\* A word of the control lane, once it is known to suit its request.
LEMMA WithdrawKeeps ==
  ASSUME IInv, NEW r \in Requests, NEW k \in ClientRecord, NEW t \in {"release", "cancel", "quiescent"},
         NEW again, Running, Withdraw(r, k, t, again),
         Sent(out, out', [t |-> t, r |-> r]) => About(h, p, WithClient(c, r, k), out', {}, r)
  PROVE  IInv'
<1> DEFINE call == [t |-> t, r |-> r]
           e == WithClient(c, r, k)
           b == [c.said EXCEPT ![r] = TRUE]
<1>1. Sound(h, p, c, out, {}, 0) /\ ~h.terminal /\ c \in ClientState /\ disturbed \in 0..Disturbances
  BY DEF IInv, Running, Sound
<1>2. /\ Send("control", call) /\ UNCHANGED <<h, p, drain, turn>> /\ (Disturb \/ UNCHANGED disturbed)
      /\ c' = WithSaid(e, b)
  BY <1>1 DEF Withdraw, WithSaid, WithClient, ClientState
<1>3. b \in [Requests -> BOOLEAN]
  BY <1>1 DEF ClientState
<1> HIDE DEF b
<1>4. call \in Word /\ call \in Call /\ call.t = t /\ call.r = r
  BY DEF Word, Call
<1>5. About(h, p, e, out', {}, r) /\ \E x \in Call : x.r = r /\ Sent(out, out', x)
  <2> HIDE DEF e
  <2>1. Sent(out, out', call)
    <3> HIDE DEF call
    <3> QED BY <1>1, <1>2, <1>4, SendSent DEF Once
  <2>2. About(h, p, e, out', {}, r)
    BY <2>1 DEF e
  <2> HIDE DEF call
  <2> QED BY <1>4, <2>1, <2>2
<1>6. Sound(h, p, e, out', {}, 0)
  BY <1>1, <1>5, ClientSound
<1>7. e.refused = c.refused
  BY <1>1, NewClient
<1> HIDE DEF e
<1>8. Sound(h, p, c', out', {}, 0) /\ c'.refused = c.refused
  BY <1>2, <1>3, <1>6, <1>7, SaidSound
<1>9. disturbed' \in 0..Disturbances
  BY <1>1, <1>2, DisturbCounts
<1> QED BY <1>2, <1>8, <1>9 DEF IInv

\* One that takes the view away.
LEMMA ClearViewKeeps ==
  ASSUME IInv, NEW r \in Requests, NEW t \in {"release", "cancel"}, NEW again, Running,
         Withdraw(r, ClearView(c.rec[r]), t, again)
  PROVE  IInv'
<1> DEFINE call == [t |-> t, r |-> r]
           k == ClearView(c.rec[r])
           e == WithClient(c, r, k)
<1>1. c \in ClientState /\ About(h, p, c, out, {}, r)
  BY DEF IInv, Sound
<1>2. call.t = t /\ call.r = r
  OBVIOUS
<1>3. c.rec[r] \in ClientRecord
  BY <1>1 DEF ClientState
<1>4. k \in ClientRecord /\ Quieter(c.rec[r], k)
  BY <1>3 DEF ClearView, ClientRecord, Quieter
<1>5. e.rec[r] = k /\ e.next = c.next /\ e.using = c.using
  BY <1>1, <1>4, NewClient
<1>6. ASSUME Sent(out, out', call) PROVE About(h, p, e, out', {}, r)
  <2> HIDE DEF call, e, k
  <2>1. /\ (Asked(out', r) <=> Asked(out, r)) /\ (Quitting(out', r) <=> Quitting(out, r))
        /\ (Registering(out', r) <=> Registering(out, r))
    BY <1>2, <1>6 DEF Sent
  <2> QED BY <1>1, <1>4, <1>5, <2>1, QuieterAbout
<1>7. Withdraw(r, k, t, again)
  OBVIOUS
<1>8. Sent(out, out', [t |-> t, r |-> r]) => About(h, p, WithClient(c, r, k), out', {}, r)
  BY <1>6
<1>9. t \in {"release", "cancel", "quiescent"}
  OBVIOUS
<1> HIDE DEF k
<1> QED BY <1>4, <1>7, <1>8, <1>9, WithdrawKeeps

LEMMA ReleaseKeeps ==
  ASSUME IInv, NEW r \in Requests, Release(r)
  PROVE  IInv'
<1> DEFINE again == c.said[r]
<1>1. Running /\ Withdraw(r, ClearView(c.rec[r]), "release", again)
  BY DEF Release
<1> HIDE DEF again
<1> QED BY <1>1, ClearViewKeeps

LEMMA CancelWaitKeeps ==
  ASSUME IInv, NEW r \in Requests, CancelWait(r)
  PROVE  IInv'
<1> DEFINE again == c.said[r]
<1>1. Running /\ Withdraw(r, ClearView(c.rec[r]), "cancel", again)
  BY DEF CancelWait
<1> HIDE DEF again
<1> QED BY <1>1, ClearViewKeeps

LEMMA RequestNotificationKeeps ==
  ASSUME IInv, NEW r \in Requests, RequestNotification(r)
  PROVE  IInv'
<1> DEFINE call == [t |-> "register", r |-> r]
           k == [c.rec[r] EXCEPT !.waiting = TRUE]
<1>1. Sound(h, p, c, out, {}, 0) /\ ~h.terminal /\ c \in ClientState /\ About(h, p, c, out, {}, r)
  BY DEF IInv, RequestNotification, Running, Sound
<1>2. /\ c.rec[r].live /\ c.rec[r].seen_prepared /\ ~c.rec[r].waiting
      /\ c' = [c EXCEPT !.rec[r].waiting = TRUE] /\ Send("pod", call) /\ UNCHANGED <<h, p, drain, turn, disturbed>>
  BY DEF RequestNotification
<1>3. call \in Call /\ call.t = "register" /\ call.r = r
  BY DEF Call
<1> HIDE DEF call
<1>4. ~Registering(out, r) /\ ~Enrolled(h, r) /\ c.rec[r].borrow
  BY <1>1, <1>2 DEF About, Answers, Withdrawal
<1>5. Sent(out, out', call)
  BY <1>1, <1>2, <1>3, <1>4, SendSent DEF Registering
<1>6. c.rec[r] \in ClientRecord
  BY <1>1 DEF ClientState
<1>7. k \in ClientRecord /\ Quieter(c.rec[r], k) /\ k.waiting /\ k.live /\ k.borrow
  BY <1>2, <1>4, <1>6 DEF ClientRecord, Quieter
<1>8. c' = WithClient(c, r, k)
  BY <1>1, <1>2 DEF WithClient, ClientState
<1> HIDE DEF k
<1>9. c'.rec[r] = k /\ c'.next = c.next /\ c'.using = c.using /\ c'.refused = c.refused
  BY <1>1, <1>7, <1>8, NewClient
<1>10. (Asked(out', r) <=> Asked(out, r)) /\ (Quitting(out', r) <=> Quitting(out, r))
  BY <1>3, <1>5 DEF Sent
<1>11. About(h, p, c', out', {}, r)
  BY <1>1, <1>4, <1>7, <1>9, <1>10, QuieterAbout
<1>12. Sound(h, p, c', out', {}, 0)
  BY <1>1, <1>3, <1>5, <1>7, <1>8, <1>11, ClientSound
<1> QED BY <1>2, <1>9, <1>12 DEF IInv

(* ------------------- the consumer is done with a view ------------------- *)

LEMMA QuiesceKeeps ==
  ASSUME IInv, NEW r \in Requests, Quiesce(r)
  PROVE  IInv'
<1> DEFINE call == [t |-> "quiescent", r |-> r]
           k == [ClearView(c.rec[r]) EXCEPT !.quiescent = TRUE]
           e == WithClient(c, r, k)
           again == c.rec[r].quiescent
<1>1. c \in ClientState /\ About(h, p, c, out, {}, r)
  BY DEF IInv, Sound
<1>2. /\ c.rec[r].live /\ c.rec[r].borrow /\ ~c.rec[r].retired /\ ~c.using[r]
      /\ c.rec[r].seen_prepared \/ c.rec[r].never_published
      /\ Running /\ Withdraw(r, k, "quiescent", again)
  BY DEF Quiesce
<1>4. call.t = "quiescent" /\ call.r = r
  OBVIOUS
<1>6. c.rec[r] \in ClientRecord
  BY <1>1 DEF ClientState
<1>7. /\ k \in ClientRecord /\ k.live /\ k.acknowledged = c.rec[r].acknowledged
      /\ k.seen_prepared = c.rec[r].seen_prepared /\ k.seen_terminal = c.rec[r].seen_terminal
      /\ k.never_published = c.rec[r].never_published /\ k.retired = c.rec[r].retired
      /\ k.borrow /\ k.waiting = c.rec[r].waiting /\ k.quiescent /\ ~k.view
  BY <1>2, <1>6 DEF ClientRecord, ClearView
<1> HIDE DEF k, again
<1>8. e.rec[r] = k /\ e.next = c.next /\ e.using = c.using
  BY <1>1, <1>7, NewClient
<1>10. ~Lent(h, r)
  BY <1>1, <1>2 DEF About, Watch, Reads
<1>11. Spent(h, r) /\ (h.rec[r].live => h.rec[r].settled)
  BY <1>1, <1>2 DEF About, Watch, Shape
<1>12. ASSUME Sent(out, out', call) PROVE About(h, p, e, out', {}, r)
  <2> HIDE DEF call, e
  <2>5. (Asked(out', r) <=> Asked(out, r)) /\ (Registering(out', r) <=> Registering(out, r))
    BY <1>4, <1>12 DEF Sent
  <2>1. Shape(h, r) /\ Loan(h, p, {}, r)
    BY <1>1 DEF About
  <2>2. Watch(h, e, out', r)
    BY <1>1, <1>2, <1>7, <1>8, <1>10, <1>11 DEF About, Watch, Reads
  <2>3. Answers(h, e, out', r)
    BY <1>1, <1>2, <1>7, <1>8, <2>5 DEF About, Answers
  <2>4. Withdrawal(h, e, out', r)
    BY <1>1, <1>2, <1>7, <1>8 DEF About, Withdrawal
  <2> QED BY <2>1, <2>2, <2>3, <2>4 DEF About
<1>13. Sent(out, out', [t |-> "quiescent", r |-> r]) => About(h, p, WithClient(c, r, k), out', {}, r)
  BY <1>12
<1> QED BY <1>2, <1>7, <1>13, WithdrawKeeps

LEMMA ForgetKeeps ==
  ASSUME IInv, NEW r \in Requests, Forget(r)
  PROVE  IInv'
<1> DEFINE k == NoClientRecord
<1>1. Sound(h, p, c, out, {}, 0) /\ ~h.terminal /\ c \in ClientState /\ About(h, p, c, out, {}, r)
  BY DEF IInv, Forget, Running, Sound
<1>2. /\ c.rec[r].live /\ c.rec[r].seen_terminal /\ ~c.rec[r].waiting /\ (c.rec[r].borrow => c.rec[r].retired)
      /\ UNCHANGED <<h, p, out, drain, turn, disturbed>>
  BY DEF Forget, Forgettable
<1>3. c' = WithClient(c, r, k)
  BY <1>1 DEF WithClient, ClientState, Forget
<1>4. /\ k \in ClientRecord /\ ~k.live /\ ~k.acknowledged /\ ~k.seen_prepared /\ ~k.seen_terminal
      /\ ~k.never_published /\ ~k.retired /\ ~k.view
  BY ServiceAssumption DEF ClientRecord, NoClientRecord, Kind
<1> HIDE DEF k
<1>5. c'.rec[r] = k /\ c'.next = c.next /\ c'.using = c.using /\ c'.refused = c.refused
  BY <1>1, <1>3, <1>4, NewClient
<1>6. ~Asked(out, r) /\ ~Done(h, r) /\ ~Owes(h.op[r]) /\ ~Lent(h, r) /\ ~Registering(out, r) /\ ~Enrolled(h, r)
  BY <1>1, <1>2 DEF About, Answers
<1>7. c.rec[r].seen_prepared => c.rec[r].retired /\ ~h.rec[r].live
  BY <1>1, <1>2 DEF About, Withdrawal
<1>8. ~Withdraws(h, r) /\ ~Withdrawn(h, r)
  BY <1>1, <1>6, <1>7 DEF About, Withdrawal, Withdraws
<1>9. ~(h.rec[r].live /\ h.rec[r].published) /\ ~(h.rec[r].live /\ h.rec[r].quiescence = "relinquished")
  BY <1>1, <1>6, <1>7 DEF About, Withdrawal, Shape
<1>10. About(h, p, c', out, {}, r)
  <2>1. Shape(h, r) /\ Loan(h, p, {}, r)
    BY <1>1 DEF About
  <2>2. Watch(h, c', out, r)
    BY <1>1, <1>4, <1>5 DEF About, Watch, Reads
  <2>3. Answers(h, c', out, r)
    BY <1>1, <1>4, <1>5, <1>6 DEF About, Answers
  <2>4. Withdrawal(h, c', out, r)
    BY <1>1, <1>4, <1>5, <1>8, <1>9 DEF About, Withdrawal
  <2> QED BY <2>1, <2>2, <2>3, <2>4 DEF About
<1>11. Sound(h, p, c', out, {}, 0)
  BY <1>1, <1>3, <1>4, <1>10, ClientSound
<1> QED BY <1>2, <1>5, <1>11 DEF IInv

LEMMA CloseServiceKeeps ==
  ASSUME IInv, CloseService
  PROVE  IInv'
<1> DEFINE call == [t |-> "close", r |-> 0]
<1>1. Sound(h, p, c, out, {}, 0) /\ ~h.terminal /\ c \in ClientState /\ Route(h, c, out)
  BY DEF IInv, CloseService, Running, Sound
<1>2. c.route = "open" /\ Send("pod", call) /\ UNCHANGED <<h, p, drain, turn, disturbed>>
  BY DEF CloseService
<1>3. ~Leaving(out) /\ ~Left(h)
  BY <1>1, <1>2 DEF Route
<1>4. call \in Call /\ call.t = "close" /\ call.r = 0
  BY DEF Call
<1> HIDE DEF call
<1>5. Sent(out, out', call)
  BY <1>1, <1>2, <1>3, <1>4, SendSent DEF Leaving
<1>6. /\ c' \in ClientState /\ c'.next = c.next /\ c'.route = "closing" /\ c'.rec = c.rec /\ c'.using = c.using
      /\ c'.refused = c.refused
  BY <1>1 DEF CloseService, ClientState, Routes
<1>7. \A i \in Requests : FewerCalls(out, out', i)
  BY <1>4, <1>5 DEF Sent, FewerCalls
<1>8. Route(h, c', out') /\ Ended(h, c') /\ c.next <= c'.next
  BY <1>1, <1>3, <1>6, ServiceAssumption DEF Route, Ended, ClientState
<1>9. out' \in Outbox /\ Single(out'.pod) /\ 0 \notin Requests
  BY <1>5 DEF Sent, Requests
<1>10. Sound(h, p, c', out', {}, 0)
  BY <1>1, <1>6, <1>7, <1>8, <1>9, CallerSound
<1> QED BY <1>2, <1>6, <1>10 DEF IInv

(* ------------------------- the view is read ----------------------------- *)

\* The reads of one request start, or stop.
WithUsing(d, r, b) == [d EXCEPT !.using[r] = b]

LEMMA UsingSound ==
  ASSUME NEW g, NEW q, NEW d, NEW o, NEW r \in Requests, NEW b \in BOOLEAN,
         Sound(g, q, d, o, {}, 0), b => d.rec[r].view
  PROVE  Sound(g, q, WithUsing(d, r, b), o, {}, 0)
<1> DEFINE e == WithUsing(d, r, b)
           using == [d.using EXCEPT ![r] = b]
<1>1. d \in ClientState /\ o \in Outbox /\ Single(o.pod) /\ Route(g, d, o) /\ About(g, q, d, o, {}, r) /\ Ended(g, d)
  BY DEF Sound
<1>2. using \in [Requests -> BOOLEAN] /\ using[r] = b /\ \A i \in Requests : i # r => using[i] = d.using[i]
  BY <1>1 DEF ClientState
<1>3. e = [d EXCEPT !.using = using]
  BY DEF WithUsing
<1> HIDE DEF using, e
<1>4. /\ e \in ClientState /\ e.next = d.next /\ e.route = d.route /\ e.rec = d.rec /\ e.using = using
      /\ e.refused = d.refused
  BY <1>1, <1>2, <1>3 DEF ClientState
<1>5. About(g, q, e, o, {}, r)
  <2>1. Shape(g, r) /\ Loan(g, q, {}, r)
    BY <1>1 DEF About
  <2>2. Watch(g, e, o, r)
    BY <1>1, <1>2, <1>4 DEF About, Watch, Reads
  <2>3. Answers(g, e, o, r)
    BY <1>1, <1>4 DEF About, Answers
  <2>4. Withdrawal(g, e, o, r)
    BY <1>1, <1>4 DEF About, Withdrawal
  <2> QED BY <2>1, <2>2, <2>3, <2>4 DEF About
<1>6. Route(g, e, o) /\ Ended(g, e) /\ d.next <= e.next
  BY <1>1, <1>4, ServiceAssumption DEF Route, Ended, ClientState
<1>7. \A i \in Requests : i # r => e.rec[i] = d.rec[i] /\ e.using[i] = d.using[i] /\ FewerCalls(o, o, i)
  BY <1>2, <1>4 DEF FewerCalls
<1>8. Sound(g, q, e, o, {}, 0)
  BY <1>1, <1>4, <1>5, <1>6, <1>7, CallerSound
<1> QED BY <1>8 DEF e

LEMMA BeginUseKeeps ==
  ASSUME IInv, NEW r \in Requests, BeginUse(r)
  PROVE  IInv'
<1> DEFINE b == TRUE
           e == WithUsing(c, r, b)
<1>1. Sound(h, p, c, out, {}, 0) /\ b \in BOOLEAN /\ (b => c.rec[r].view)
  BY DEF IInv, BeginUse
<1>2. c' = e /\ UNCHANGED <<h, p, out, drain, turn, disturbed>>
  BY DEF BeginUse, WithUsing
<1> HIDE DEF b
<1>3. Sound(h, p, e, out, {}, 0)
  BY <1>1, UsingSound
<1>4. e.refused = c.refused
  BY <1>1 DEF WithUsing, Sound, ClientState
<1> HIDE DEF e
<1> QED BY <1>2, <1>3, <1>4 DEF IInv

LEMMA EndUseKeeps ==
  ASSUME IInv, NEW r \in Requests, EndUse(r)
  PROVE  IInv'
<1> DEFINE b == FALSE
           e == WithUsing(c, r, b)
<1>1. Sound(h, p, c, out, {}, 0) /\ b \in BOOLEAN /\ (b => c.rec[r].view)
  BY DEF IInv, EndUse
<1>2. c' = e /\ UNCHANGED <<h, p, out, drain, turn, disturbed>>
  BY DEF EndUse, WithUsing
<1> HIDE DEF b
<1>3. Sound(h, p, e, out, {}, 0)
  BY <1>1, UsingSound
<1>4. e.refused = c.refused
  BY <1>1 DEF WithUsing, Sound, ClientState
<1> HIDE DEF e
<1> QED BY <1>2, <1>3, <1>4 DEF IInv

(* ------------------------ the consumer goes away ------------------------ *)

LEMMA ExitSound ==
  ASSUME NEW g, NEW x, NEW q, NEW d, NEW e, NEW o, Sound(g, q, d, o, {}, 0),
         x \in HostState, x.threaded = g.threaded, x.terminal, x.last = g.last, x.route = g.route,
         x.failed = g.failed, x.provider_stop = g.provider_stop, x.op = g.op, x.rec = g.rec, x.reserved = g.reserved,
         x.reply = <<>>, x.control = <<>>,
         e \in ClientState, e.next = d.next, e.route = d.route,
         \A i \in Requests : e.rec[i] = NoClientRecord /\ (e.using[i] => d.using[i])
  PROVE  Sound(x, q, e, o, {}, 0)
<1>1. \A t, i : ~Has(<<>>, t, i) /\ ~Published(<<>>, t, i) /\ ~Unpublished(<<>>, i)
  BY DEF Has, Published, Unpublished
<1>2. \A i : /\ ~Acked(x, i) /\ ~Lent(x, i) /\ ~Done(x, i) /\ ~Enrolled(x, i) /\ ~Closes(x, i) /\ ~Retires(x, i)
             /\ ~Never(x, i) /\ ~Withdrawn(x, i) /\ ~Withdraws(x, i) /\ ~Left(x)
  BY <1>1 DEF Acked, Lent, Done, Enrolled, Closes, Retires, Never, Withdrawn, Withdraws, Left
<1>3. ASSUME NEW i \in Requests PROVE About(x, q, e, o, {}, i)
  <2>1. About(g, q, d, o, {}, i)
    BY DEF Sound
  <2>2. /\ ~e.rec[i].live /\ ~e.rec[i].acknowledged /\ ~e.rec[i].seen_prepared /\ ~e.rec[i].seen_terminal
        /\ ~e.rec[i].never_published /\ ~e.rec[i].retired /\ ~e.rec[i].view
    BY DEF NoClientRecord
  <2>3. e.using[i] => d.using[i]
    OBVIOUS
  <2>4. Shape(x, i)
    BY <2>1 DEF About, Shape
  <2>5. Loan(x, q, {}, i)
    BY <2>1 DEF About, Loan, Spent
  <2>6. Watch(x, e, o, i)
    BY <1>2, <2>1, <2>2, <2>3 DEF About, Watch, Spent, Reads
  <2>7. Answers(x, e, o, i)
    BY <1>2, <2>1, <2>2 DEF About, Answers
  <2>8. Withdrawal(x, e, o, i)
    BY <1>2, <2>1, <2>2 DEF About, Withdrawal
  <2> QED BY <2>4, <2>5, <2>6, <2>7, <2>8 DEF About
<1>4. Len(<<>>) = 0 /\ Ordered(<<>>)
  BY DEF Ordered
<1>5. Inbox(x)
  BY <1>4 DEF Inbox
<1>6. Route(x, e, o) /\ Calm(x, q) /\ Ended(x, e)
  BY <1>2 DEF Sound, Route, Calm, Ended
<1>7. Books(x, 0)
  <2>1. g \in HostState /\ Books(g, 0)
    BY DEF Sound
  <2>2. Len(g.reply) \in Nat /\ g.reserved \in Nat /\ ReplyCapacity \in Nat
    BY <2>1, ServiceAssumption DEF HostState
  <2>3. Debts(x) = Debts(g)
    BY DEF Debts, Owing, Unpaid
  <2> QED BY <1>4, <2>1, <2>2, <2>3 DEF Books
<1>8. q \in ProviderState /\ o \in Outbox /\ Single(o.pod)
  BY DEF Sound
<1> QED BY <1>3, <1>5, <1>6, <1>7, <1>8 DEF Sound

LEMMA ExitKeeps ==
  ASSUME IInv, Exit
  PROVE  IInv'
<1> DEFINE x == [h EXCEPT !.terminal = TRUE, !.control = <<>>, !.reply = <<>>]
<1>1. Sound(h, p, c, out, {}, 0) /\ h \in HostState /\ c \in ClientState
  BY DEF IInv, Sound
<1>2. h' = x /\ UNCHANGED <<p, out, drain, turn, disturbed>>
  BY DEF Exit
<1>3. PICK batch \in BOOLEAN :
          c' = [c EXCEPT !.using = [r \in Requests |-> batch /\ @[r]],
                         !.rec = [r \in Requests |-> NoClientRecord]]
  BY DEF Exit
<1>4. NoClientRecord \in ClientRecord
  BY ServiceAssumption DEF ClientRecord, NoClientRecord, Kind
<1>5. /\ c' \in ClientState /\ c'.next = c.next /\ c'.route = c.route /\ c'.refused = c.refused
      /\ \A i \in Requests : c'.rec[i] = NoClientRecord /\ (c'.using[i] => c.using[i])
  <2> DEFINE using == [r \in Requests |-> batch /\ c.using[r]]
             rec == [r \in Requests |-> NoClientRecord]
  <2>1. using \in [Requests -> BOOLEAN] /\ \A i \in Requests : using[i] => c.using[i]
    BY <1>1 DEF ClientState
  <2>2. rec \in [Requests -> ClientRecord] /\ \A i \in Requests : rec[i] = NoClientRecord
    BY <1>4
  <2>3. c' = [c EXCEPT !.using = using, !.rec = rec]
    BY <1>3
  <2> HIDE DEF using, rec
  <2>4. c' \in ClientState /\ c'.next = c.next /\ c'.route = c.route /\ c'.refused = c.refused /\ c'.rec = rec /\ c'.using = using
    BY <1>1, <2>1, <2>2, <2>3 DEF ClientState
  <2> QED BY <2>1, <2>2, <2>4
<1>6. /\ x \in HostState /\ x.threaded = h.threaded /\ x.terminal /\ x.last = h.last /\ x.route = h.route
      /\ x.failed = h.failed /\ x.provider_stop = h.provider_stop /\ x.op = h.op /\ x.rec = h.rec
      /\ x.reserved = h.reserved /\ x.reply = <<>> /\ x.control = <<>>
  <2> DEFINE none == <<>>
  <2>1. none \in Seq(Answer)
    OBVIOUS
  <2>2. x = [h EXCEPT !.terminal = TRUE, !.control = none, !.reply = none]
    OBVIOUS
  <2> HIDE DEF none, x
  <2>3. /\ x \in HostState /\ x.threaded = h.threaded /\ x.terminal /\ x.last = h.last /\ x.route = h.route
        /\ x.failed = h.failed /\ x.provider_stop = h.provider_stop /\ x.op = h.op /\ x.rec = h.rec
        /\ x.reserved = h.reserved /\ x.reply = none /\ x.control = none
    BY <1>1, <2>1, <2>2 DEF HostState
  <2> QED BY <2>3 DEF none
<1> HIDE DEF x
<1>7. Sound(x, p, c', out, {}, 0)
  BY <1>1, <1>5, <1>6, ExitSound
<1> QED BY <1>2, <1>5, <1>7 DEF IInv

(* ----------------------- a request is begun ----------------------------- *)

LEMMA BegunAbout ==
  ASSUME NEW g, NEW q, NEW d, NEW e, NEW o, NEW u, NEW r \in Requests, Sound(g, q, d, o, {}, 0),
         r = d.next, e.next = r + 1, e.using = d.using, NEW kind \in Kind, NEW of \in Requests, ~g.terminal,
         e.rec[r] = [NoClientRecord EXCEPT !.live = TRUE, !.kind = kind, !.of = of],
         Sent(o, u, [t |-> "request", r |-> r, kind |-> kind, of |-> of])
  PROVE  About(g, q, e, u, {}, r)
<1>1. About(g, q, d, o, {}, r) /\ Route(g, d, o) /\ g \in HostState
  BY DEF Sound
<1>2. r \in Nat /\ g.last \in Nat /\ g.last < r /\ ~(r < r) /\ r < r + 1
  BY <1>1, ServiceAssumption DEF Route, Requests, HostState
<1>3. r > g.last /\ ~(r <= g.last)
  BY <1>2
<1>4. ~Asked(o, r) /\ ~d.rec[r].live /\ ~Done(g, r) /\ ~g.op[r].live /\ ~g.rec[r].live /\ ~Owes(g.op[r])
  BY <1>1, <1>2, <1>3 DEF About, Answers, Loan, Owes
<1>5. ~Lent(g, r) /\ ~Acked(g, r) /\ ~Registering(o, r) /\ ~Enrolled(g, r) /\ ~Withdraws(g, r) /\ ~Withdrawn(g, r)
  BY <1>1, <1>4 DEF About, Answers, Withdrawal, Withdraws
<1>6. ~Quitting(o, r) /\ ~Never(g, r) /\ ~Closes(g, r) /\ ~Retires(g, r) /\ ~d.using[r]
  BY <1>1, <1>3, <1>4 DEF About, Watch, Spent, Reads
<1>7. /\ e.rec[r].live /\ ~e.rec[r].acknowledged /\ ~e.rec[r].seen_prepared /\ ~e.rec[r].seen_terminal
      /\ ~e.rec[r].never_published /\ ~e.rec[r].retired /\ ~e.rec[r].view
  BY DEF NoClientRecord
<1>8. Asked(u, r) /\ ~Registering(u, r) /\ ~Quitting(u, r)
  BY <1>5, <1>6 DEF Sent
<1>9. Shape(g, r) /\ Loan(g, q, {}, r)
  BY <1>1 DEF About
<1>10. Watch(g, e, u, r)
  BY <1>5, <1>6, <1>7, <1>8 DEF Watch, Reads
<1>11. Answers(g, e, u, r)
  BY <1>2, <1>4, <1>5, <1>7, <1>8 DEF Answers
<1>12. Withdrawal(g, e, u, r)
  BY <1>4, <1>5, <1>6, <1>7, <1>8 DEF Withdrawal
<1> QED BY <1>9, <1>10, <1>11, <1>12 DEF About

LEMMA BeginKeeps ==
  ASSUME IInv, NEW kind \in Kind \ {"none"}, NEW of \in Requests, Begin(kind, of)
  PROVE  IInv'
<1> DEFINE r == c.next
           k == [NoClientRecord EXCEPT !.live = TRUE, !.kind = kind, !.of = of]
           call == [t |-> "request", r |-> r, kind |-> kind, of |-> of]
<1>1. /\ Sound(h, p, c, out, {}, 0) /\ ~h.terminal /\ r \in Requests
      /\ disturbed \in 0..Disturbances /\ ~c.refused /\ c \in ClientState
  BY DEF IInv, Begin, Running, Sound
<1>2. /\ Disturb \/ UNCHANGED disturbed
      /\ c' = [c EXCEPT !.next = r + 1, !.rec[r] = k]
      /\ Send("pod", call) /\ UNCHANGED <<h, p, drain, turn>>
  BY DEF Begin
<1>3. disturbed' \in 0..Disturbances
  BY <1>1, <1>2, DisturbCounts
<1>4. Sound(h, p, c, out, {}, 0)
  BY <1>1
<1>5. k \in ClientRecord
  <2>1. of \in 0..N /\ 0 \in 0..N
    BY ServiceAssumption DEF Requests
  <2> QED BY <2>1 DEF ClientRecord, NoClientRecord, Kind
<1>6. /\ c' \in ClientState /\ c'.next = r + 1 /\ c'.route = c.route /\ c'.refused = c.refused /\ c'.using = c.using
      /\ c'.rec[r] = k /\ \A i \in Requests : i # r => c'.rec[i] = c.rec[i]
  <2> DEFINE y == WithClient(c, r, k)
             next == r + 1
  <2>1. /\ y \in ClientState /\ y.route = c.route /\ y.refused = c.refused /\ y.using = c.using
        /\ y.rec[r] = k /\ \A i \in Requests : i # r => y.rec[i] = c.rec[i]
    BY <1>1, <1>5, NewClient
  <2>2. c' = [y EXCEPT !.next = next]
    BY <1>1, <1>2 DEF WithClient, ClientState
  <2>3. next \in 1..(N + 1)
    BY <1>1, ServiceAssumption DEF Requests
  <2> HIDE DEF y, next
  <2>4. /\ c' \in ClientState /\ c'.next = next /\ c'.route = y.route /\ c'.refused = y.refused /\ c'.using = y.using
        /\ c'.rec = y.rec
    BY <2>1, <2>2, <2>3 DEF ClientState
  <2> QED BY <2>1, <2>4 DEF next
<1>7. call \in Call /\ call.t = "request" /\ call.r = r
  BY <1>1 DEF Call
<1>8. ~Asked(out, r)
  <2>1. ~(r < r)
    BY <1>1, ServiceAssumption DEF Requests
  <2> QED BY <1>1, <2>1 DEF Sound, About, Answers
<1>9. Sent(out, out', call)
  BY <1>1, <1>2, <1>7, <1>8, SendSent DEF Asked
<1>10. About(h, p, c', out', {}, r)
  BY <1>1, <1>4, <1>6, <1>9, BegunAbout
<1> HIDE DEF call, k
<1>11. r # 0
  BY <1>1, ServiceAssumption DEF Requests
<1>12. \A i \in Requests : i # r => FewerCalls(out, out', i)
  BY <1>7, <1>9 DEF Sent, FewerCalls
<1>13. (Leaving(out') <=> Leaving(out)) /\ out' \in Outbox /\ Single(out'.pod)
  BY <1>7, <1>9 DEF Sent
<1>14. Route(h, c', out') /\ Ended(h, c') /\ c.next <= c'.next
  <2>1. h.last < r /\ h.last \in Nat /\ r \in Nat
    BY <1>1, ServiceAssumption DEF Sound, Route, HostState, Requests
  <2> QED BY <1>1, <1>6, <1>13, <2>1 DEF Sound, Route, Ended
<1>15. Sound(h, p, c', out', {}, 0)
  BY <1>4, <1>6, <1>10, <1>12, <1>13, <1>14, CallerSound
<1> QED BY <1>1, <1>2, <1>3, <1>6, <1>15 DEF IInv

(* ------------------- the consumer reads a message ----------------------- *)

\* The lanes held a, the oldest of one of them, and hold it no more.
LEMMA HeardReply ==
  ASSUME NEW g \in HostState, g.reply # <<>>, NEW x, x.reply = Tail(g.reply), x.control = g.control
  PROVE  Mail(x, g, Head(g.reply))
<1> DEFINE a == Head(g.reply)
           s == g.reply
<1>1. s \in Seq(Answer) /\ s # <<>> /\ x.reply = Tail(s) /\ x.control = g.control /\ g.reply = s
  BY DEF HostState
<1> HIDE DEF s
<1>2. \A t, r : (Has(s, t, r) <=> Has(Tail(s), t, r) \/ (Head(s).t = t /\ Head(s).r = r))
  BY <1>1, TailHas
<1>3. \A r : (Unpublished(s, r) <=> Unpublished(Tail(s), r)
                  \/ (Head(s).t \in Controls /\ Head(s).r = r /\ Head(s).quiescence = "never_published"))
  BY <1>1, TailUnpublished
<1>4. \A t, r : (Published(s, t, r) <=> Published(Tail(s), t, r)
                  \/ (Head(s).t = t /\ Head(s).r = r /\ Head(s).quiescence # "never_published"))
  BY <1>1, TailHas
<1>5. a = Head(s)
  BY <1>1
<1> HIDE DEF a
<1>6. /\ \A r : (Acked(g, r) <=> Acked(x, r) \/ (a.t = "acknowledged" /\ a.r = r))
      /\ \A r : (Lent(g, r) <=> Lent(x, r) \/ (a.t = "prepared" /\ a.r = r))
      /\ \A r : (Done(g, r) <=> Done(x, r) \/ (a.t = "completed" /\ a.r = r))
      /\ \A r : (Enrolled(g, r) <=> Enrolled(x, r) \/ (a.t = "registered" /\ a.r = r))
      /\ Left(g) <=> Left(x) \/ (a.t = "closed" /\ a.r = 0)
  BY <1>1, <1>2, <1>5 DEF Acked, Lent, Done, Enrolled, Left
<1>7. /\ \A r : (Closes(g, r) <=> Closes(x, r) \/ (a.t = "closing" /\ a.r = r))
      /\ \A r : (Retires(g, r) <=> Retires(x, r) \/ (a.t = "retired" /\ a.r = r))
  BY <1>1, <1>2, <1>5 DEF Closes, Retires
<1>8. \A r : (Never(g, r) <=> Never(x, r) \/ (a.t \in Controls /\ a.r = r /\ a.quiescence = "never_published"))
  BY <1>1, <1>3, <1>5 DEF Never
<1>9. \A r : (Withdrawn(g, r) <=> Withdrawn(x, r) \/ (a.t = "retired" /\ a.r = r /\ a.quiescence # "never_published"))
  BY <1>1, <1>4, <1>5 DEF Withdrawn
<1>10. \A r : (Withdraws(g, r) <=> Withdraws(x, r) \/ (a.t \in Controls /\ a.r = r /\ a.quiescence # "never_published"))
  BY <1>1, <1>4, <1>5, <1>9 DEF Withdraws, Controls
<1>11. Mail(x, g, a)
  BY <1>6, <1>7, <1>8, <1>9, <1>10 DEF Mail
<1> QED BY <1>11 DEF a

LEMMA HeardControl ==
  ASSUME NEW g \in HostState, g.control # <<>>, NEW x, x.reply = g.reply, x.control = Tail(g.control),
         Head(g.control).t \in Controls
  PROVE  Mail(x, g, Head(g.control))
<1> DEFINE a == Head(g.control)
           s == g.control
<1>1. s \in Seq(Answer) /\ s # <<>> /\ x.control = Tail(s) /\ x.reply = g.reply /\ g.control = s
  BY DEF HostState
<1> HIDE DEF s
<1>2. \A t, r : (Has(s, t, r) <=> Has(Tail(s), t, r) \/ (Head(s).t = t /\ Head(s).r = r))
  BY <1>1, TailHas
<1>3. \A r : (Unpublished(s, r) <=> Unpublished(Tail(s), r)
                  \/ (Head(s).t \in Controls /\ Head(s).r = r /\ Head(s).quiescence = "never_published"))
  BY <1>1, TailUnpublished
<1>4. \A t, r : (Published(s, t, r) <=> Published(Tail(s), t, r)
                  \/ (Head(s).t = t /\ Head(s).r = r /\ Head(s).quiescence # "never_published"))
  BY <1>1, TailHas
<1>5. a = Head(s) /\ a.t \in Controls
  BY <1>1
<1> HIDE DEF a
<1>6. /\ \A r : (Acked(g, r) <=> Acked(x, r) \/ (a.t = "acknowledged" /\ a.r = r))
      /\ \A r : (Lent(g, r) <=> Lent(x, r) \/ (a.t = "prepared" /\ a.r = r))
      /\ \A r : (Done(g, r) <=> Done(x, r) \/ (a.t = "completed" /\ a.r = r))
      /\ \A r : (Enrolled(g, r) <=> Enrolled(x, r) \/ (a.t = "registered" /\ a.r = r))
      /\ Left(g) <=> Left(x) \/ (a.t = "closed" /\ a.r = 0)
  BY <1>1, <1>5 DEF Acked, Lent, Done, Enrolled, Left, Controls
<1>7. /\ \A r : (Closes(g, r) <=> Closes(x, r) \/ (a.t = "closing" /\ a.r = r))
      /\ \A r : (Retires(g, r) <=> Retires(x, r) \/ (a.t = "retired" /\ a.r = r))
  BY <1>1, <1>2, <1>5 DEF Closes, Retires
<1>8. \A r : (Never(g, r) <=> Never(x, r) \/ (a.t \in Controls /\ a.r = r /\ a.quiescence = "never_published"))
  BY <1>1, <1>3, <1>5 DEF Never
<1>9. \A r : (Withdrawn(g, r) <=> Withdrawn(x, r) \/ (a.t = "retired" /\ a.r = r /\ a.quiescence # "never_published"))
  BY <1>1, <1>4, <1>5 DEF Withdrawn
<1>10. \A r : (Withdraws(g, r) <=> Withdraws(x, r) \/ (a.t \in Controls /\ a.r = r /\ a.quiescence # "never_published"))
  BY <1>1, <1>4, <1>5, <1>9 DEF Withdraws, Controls
<1>11. Mail(x, g, a)
  BY <1>6, <1>7, <1>8, <1>9, <1>10 DEF Mail
<1> QED BY <1>11 DEF a

Heard(g, x, a) ==
    /\ Lanes(g, x) /\ Mail(x, g, a) /\ Inbox(x) /\ a \in Answer
    /\ Len(x.reply) <= Len(g.reply)
    /\ \A t : Misplaced(a.t, t) => ~Has(x.reply, t, a.r) /\ ~Has(x.control, t, a.r)

LEMMA HeardFromReply ==
  ASSUME NEW g \in HostState, Inbox(g), ~g.terminal, g.reply # <<>>, g.control = <<>>
  PROVE  Heard(g, [g EXCEPT !.reply = Tail(g.reply)], Head(g.reply))
<1> DEFINE s == Tail(g.reply)
           a == Head(g.reply)
           x == [g EXCEPT !.reply = s]
<1>1. g.reply \in Seq(Answer)
  BY DEF HostState
<1>2. /\ s \in Seq(Answer) /\ a \in Answer /\ Len(s) \in Nat /\ Len(g.reply) \in Nat /\ Len(s) = Len(g.reply) - 1
      /\ \A i \in 1..Len(s) : s[i] = g.reply[i + 1] /\ i + 1 \in 1..Len(g.reply)
  BY <1>1, TailAt
<1>3. Ordered(s) /\ \A t : Misplaced(a.t, t) => ~Has(s, t, a.r)
  BY <1>1, TailOrdered DEF Inbox
<1> HIDE DEF s
<1>4. Lanes(g, x) /\ x.reply = s /\ x.control = g.control
  BY <1>2 DEF HostState, Lanes
<1> HIDE DEF x
<1>5. Mail(x, g, a)
  BY <1>4, HeardReply DEF s
<1> HIDE DEF a
<1>6. Inbox(x)
  BY <1>2, <1>3, <1>4 DEF Inbox, Lanes
<1>7. \A t, r : ~Has(x.control, t, r)
  BY <1>4 DEF Has
<1>8. Len(x.reply) <= Len(g.reply)
  BY <1>2, <1>4
<1>9. Heard(g, x, a)
  BY <1>2, <1>3, <1>4, <1>5, <1>6, <1>7, <1>8 DEF Heard
<1> QED BY <1>9 DEF x, a, s

LEMMA HeardFromControl ==
  ASSUME NEW g \in HostState, Inbox(g), ~g.terminal, g.control # <<>>
  PROVE  Heard(g, [g EXCEPT !.control = Tail(g.control)], Head(g.control)) /\ Head(g.control).t \in Controls
<1> DEFINE s == Tail(g.control)
           a == Head(g.control)
           x == [g EXCEPT !.control = s]
<1>1. g.control \in Seq(Answer) /\ Len(g.reply) \in Nat
  BY DEF HostState
<1>2. /\ s \in Seq(Answer) /\ a \in Answer /\ Len(g.control) \in Nat \ {0} /\ a = g.control[1]
      /\ \A i \in 1..Len(s) : s[i] = g.control[i + 1] /\ i + 1 \in 1..Len(g.control)
  BY <1>1, TailAt
<1>3. Ordered(s) /\ \A t : Misplaced(a.t, t) => ~Has(s, t, a.r)
  BY <1>1, TailOrdered DEF Inbox
<1>4. a.t \in Controls
  <2>1. 1 \in 1..Len(g.control)
    BY <1>2
  <2> QED BY <1>2, <2>1 DEF Inbox
<1> HIDE DEF s
<1>5. Lanes(g, x) /\ x.control = s /\ x.reply = g.reply
  BY <1>2 DEF HostState, Lanes
<1> HIDE DEF x
<1>6. Mail(x, g, a)
  BY <1>4, <1>5, HeardControl DEF s
<1>7. ~g.threaded
  BY DEF Inbox
<1> HIDE DEF a
<1>8. Inbox(x)
  BY <1>2, <1>3, <1>5, <1>7 DEF Inbox, Lanes
<1>9. \A t : Misplaced(a.t, t) => ~Has(x.reply, t, a.r)
  <2>1. \A t : Misplaced(a.t, t) => t \in Controls
    BY <1>4 DEF Misplaced, Controls
  <2> QED BY <1>5, <1>7, <2>1 DEF Inbox, Has
<1>10. Len(x.reply) <= Len(g.reply)
  BY <1>1, <1>5
<1>11. Heard(g, x, a)
  BY <1>2, <1>3, <1>5, <1>6, <1>8, <1>9, <1>10 DEF Heard
<1> QED BY <1>4, <1>11 DEF x, a, s

\* A message is read, and changes what the consumer knows of its request.
LEMMA HeardSound ==
  ASSUME NEW g, NEW x, NEW q, NEW d, NEW o, NEW a, NEW r \in Requests, NEW k \in ClientRecord,
         Sound(g, q, d, o, {}, 0), ~g.terminal, Heard(g, x, a), a.r = r, a.t # "closed",
         About(x, q, WithClient(d, r, k), o, {}, r)
  PROVE  Sound(x, q, WithClient(d, r, k), o, {}, 0)
<1> DEFINE e == WithClient(d, r, k)
<1>1. /\ g \in HostState /\ d \in ClientState /\ o \in Outbox /\ Single(o.pod) /\ Route(g, d, o)
      /\ Calm(g, q) /\ Books(g, 0)
  BY DEF Sound
<1>2. /\ e \in ClientState /\ e.next = d.next /\ e.route = d.route /\ e.using = d.using
      /\ e.rec[r] = k /\ \A i \in Requests : i # r => e.rec[i] = d.rec[i]
  BY <1>1, NewClient
<1> HIDE DEF e
<1>3. Onward(g, x) /\ d.next <= e.next /\ x \in HostState /\ Inbox(x)
  BY <1>1, <1>2, ServiceAssumption DEF Heard, Lanes, Onward, HostState, ClientState
<1>4. \A i \in Requests : i # r => SameMail(x, g, i)
  BY MailOthers DEF Heard
<1>5. \A i \in Requests : i # r => Apart(g, x, d, e, o, o, i)
  BY <1>2, <1>4 DEF Apart, Heard, Lanes, Same, SameMail, FewerCalls
<1>6. Left(x) => Left(g)
  BY DEF Heard, Mail
<1>7. Route(x, e, o) /\ Calm(x, q) /\ Ended(x, e)
  BY <1>1, <1>2, <1>6 DEF Heard, Lanes, Route, Calm, Ended
<1>8. Books(x, 0)
  <2>1. Debts(x) = Debts(g)
    BY DEF Debts, Owing, Unpaid, Heard, Lanes
  <2>2. Len(g.reply) \in Nat /\ Len(x.reply) \in Nat /\ g.reserved \in Nat /\ ReplyCapacity \in Nat
    BY <1>1, <1>3, ServiceAssumption DEF HostState
  <2> QED BY <1>1, <2>1, <2>2 DEF Books, Heard, Lanes
<1>9. About(x, q, e, o, {}, r)
  BY DEF e
<1>10. Sound(x, q, e, o, {}, 0)
  BY <1>1, <1>2, <1>3, <1>5, <1>7, <1>8, <1>9, StepSound
<1> QED BY <1>10 DEF e

(* --------------- each message, and what it finds there ------------------ *)

LEMMA HearAcknowledged ==
  ASSUME NEW g, NEW x, NEW q, NEW d, NEW e, NEW o, NEW a, NEW r, About(g, q, d, o, {}, r),
         ~g.terminal, Heard(g, x, a), a.t = "acknowledged", a.r = r, e.next = d.next, e.using = d.using,
         d.rec[r] \in ClientRecord, e.rec[r] = [d.rec[r] EXCEPT !.acknowledged = TRUE]
  PROVE  /\ d.rec[r].live /\ ~d.rec[r].acknowledged /\ ~d.rec[r].seen_terminal
         /\ About(x, q, e, o, {}, r)
<1> DEFINE b == d.rec[r]
           k == e.rec[r]
<1>1. Lanes(g, x) /\ Mail(x, g, a) /\ a.t \notin Controls
  BY DEF Heard, Controls
<1>2. /\ (Lent(x, r) <=> Lent(g, r)) /\ (Done(x, r) <=> Done(g, r)) /\ (Enrolled(x, r) <=> Enrolled(g, r))
      /\ Acked(g, r)
  BY <1>1 DEF Mail
<1>3. /\ (Closes(x, r) <=> Closes(g, r)) /\ (Retires(x, r) <=> Retires(g, r)) /\ (Never(x, r) <=> Never(g, r))
      /\ (Withdrawn(x, r) <=> Withdrawn(g, r)) /\ (Withdraws(x, r) <=> Withdraws(g, r))
  BY <1>1, MailOfReply
<1>4. ~Acked(x, r)
  BY DEF Heard, Misplaced, Acked
<1>5. b.live /\ ~b.acknowledged /\ ~b.seen_terminal /\ ~Asked(o, r)
  BY <1>2 DEF About, Answers
<1>6. /\ k.live = b.live /\ k.seen_prepared = b.seen_prepared /\ k.seen_terminal = b.seen_terminal
      /\ k.never_published = b.never_published /\ k.retired = b.retired /\ k.borrow = b.borrow
      /\ k.quiescent = b.quiescent /\ k.view = b.view /\ k.waiting = b.waiting
  BY DEF ClientRecord
<1>7. x.op = g.op /\ x.rec = g.rec /\ x.last = g.last /\ x.terminal = g.terminal /\ x.route = g.route
  BY <1>1 DEF Lanes
<1> HIDE DEF b, k
<1>8. Shape(x, r)
  BY <1>7 DEF About, Shape
<1>9. Loan(x, q, {}, r)
  BY <1>7 DEF About, Loan, Spent
<1>10. Watch(x, e, o, r)
  BY <1>2, <1>3, <1>6, <1>7 DEF About, Watch, Spent, Reads, k, b
<1>11. Answers(x, e, o, r)
  BY <1>2, <1>4, <1>5, <1>6, <1>7 DEF About, Answers, k, b
<1>12. Withdrawal(x, e, o, r)
  BY <1>2, <1>3, <1>6, <1>7 DEF About, Withdrawal, k, b
<1> QED BY <1>5, <1>8, <1>9, <1>10, <1>11, <1>12 DEF About, b

\* What the consumer changes in its record for the three replies it keeps count of.
Lending(b, k) ==
    /\ k.live = b.live /\ k.acknowledged = b.acknowledged /\ k.seen_terminal = b.seen_terminal
    /\ k.never_published = b.never_published /\ k.retired = b.retired /\ k.quiescent = b.quiescent
    /\ k.waiting = b.waiting /\ k.seen_prepared /\ k.borrow

Completing(b, k) ==
    /\ k.live = b.live /\ k.acknowledged = b.acknowledged /\ k.seen_prepared = b.seen_prepared
    /\ k.never_published = b.never_published /\ k.retired = b.retired /\ k.borrow = b.borrow
    /\ k.quiescent = b.quiescent /\ k.waiting = b.waiting /\ (k.view => b.view)

Enrolling(b, k) ==
    /\ k.live = b.live /\ k.acknowledged = b.acknowledged /\ k.seen_terminal = b.seen_terminal
    /\ k.seen_prepared = b.seen_prepared /\ k.never_published = b.never_published /\ k.retired = b.retired
    /\ k.borrow = b.borrow /\ k.quiescent = b.quiescent /\ k.view = b.view

LEMMA HearPrepared ==
  ASSUME NEW g, NEW x, NEW q, NEW d, NEW e, NEW o, NEW a, NEW r, About(g, q, d, o, {}, r),
         ~g.terminal, Heard(g, x, a), a.t = "prepared", a.r = r, e.next = d.next, e.using = d.using,
         d.rec[r] \in ClientRecord, NEW k, e.rec[r] = k, Lending(d.rec[r], k)
  PROVE  /\ d.rec[r].live /\ ~d.rec[r].seen_prepared /\ ~d.rec[r].seen_terminal /\ ~d.rec[r].never_published
         /\ About(x, q, e, o, {}, r)
<1> DEFINE b == d.rec[r]
<1>1. Lanes(g, x) /\ Mail(x, g, a) /\ a.t \notin Controls
  BY DEF Heard, Controls
<1>2. /\ (Acked(x, r) <=> Acked(g, r)) /\ (Done(x, r) <=> Done(g, r)) /\ (Enrolled(x, r) <=> Enrolled(g, r))
      /\ Lent(g, r)
  BY <1>1 DEF Mail
<1>3. /\ (Closes(x, r) <=> Closes(g, r)) /\ (Retires(x, r) <=> Retires(g, r)) /\ (Never(x, r) <=> Never(g, r))
      /\ (Withdrawn(x, r) <=> Withdrawn(g, r)) /\ (Withdraws(x, r) <=> Withdraws(g, r))
  BY <1>1, MailOfReply
<1>4. ~Lent(x, r)
  BY DEF Heard, Misplaced, Lent
<1>5. b.live /\ ~b.seen_prepared /\ ~b.seen_terminal
  BY <1>2 DEF About, Answers, Watch
<1>6. g.rec[r].live /\ g.rec[r].published /\ g.rec[r].quiescence = "none" /\ ~Quitting(o, r) /\ Spent(g, r)
  BY <1>2 DEF About, Watch, Reads
<1>7. ~b.never_published /\ ~Never(g, r)
  BY <1>6 DEF About, Watch
<1>8. /\ k.live = b.live /\ k.seen_prepared /\ k.seen_terminal = b.seen_terminal /\ k.acknowledged = b.acknowledged
      /\ k.never_published = b.never_published /\ k.retired = b.retired /\ k.borrow
      /\ k.quiescent = b.quiescent /\ k.waiting = b.waiting
  BY DEF Lending
<1>9. x.op = g.op /\ x.rec = g.rec /\ x.last = g.last /\ x.terminal = g.terminal /\ x.route = g.route
  BY <1>1 DEF Lanes
<1>15. d.rec[r] = b /\ e.rec[r] = k
  OBVIOUS
<1> HIDE DEF b
<1>10. Shape(x, r)
  BY <1>9 DEF About, Shape
<1>11. Loan(x, q, {}, r)
  BY <1>9 DEF About, Loan, Spent
<1>12. Watch(x, e, o, r)
  BY <1>3, <1>4, <1>6, <1>7, <1>8, <1>9, <1>15 DEF About, Watch, Spent, Reads
<1>13. Answers(x, e, o, r)
  BY <1>2, <1>4, <1>5, <1>8, <1>9, <1>15 DEF About, Answers
<1>14. Withdrawal(x, e, o, r)
  BY <1>3, <1>5, <1>6, <1>7, <1>8, <1>9, <1>15 DEF About, Withdrawal
<1> QED BY <1>5, <1>7, <1>10, <1>11, <1>12, <1>13, <1>14, <1>15 DEF About

LEMMA HearCompleted ==
  ASSUME NEW g, NEW x, NEW q, NEW d, NEW e, NEW o, NEW a, NEW r, About(g, q, d, o, {}, r),
         ~g.terminal, Heard(g, x, a), a.t = "completed", a.r = r, e.next = d.next, e.using = d.using,
         d.rec[r] \in ClientRecord, NEW k, e.rec[r] = k, Completing(d.rec[r], k)
  PROVE  d.rec[r].live /\ ~d.rec[r].seen_terminal /\ About(x, q, e, o, {}, r)
<1>1. Lanes(g, x) /\ Mail(x, g, a) /\ a.t \notin Controls
  BY DEF Heard, Controls
<1>2. /\ (Enrolled(x, r) <=> Enrolled(g, r)) /\ Done(g, r) /\ (Lent(x, r) <=> Lent(g, r))
  BY <1>1 DEF Mail
<1>3. /\ (Closes(x, r) <=> Closes(g, r)) /\ (Retires(x, r) <=> Retires(g, r)) /\ (Never(x, r) <=> Never(g, r))
      /\ (Withdrawn(x, r) <=> Withdrawn(g, r)) /\ (Withdraws(x, r) <=> Withdraws(g, r))
  BY <1>1, MailOfReply
<1>4. ~Lent(x, r) /\ ~Acked(x, r) /\ ~Done(x, r)
  BY DEF Heard, Misplaced, Lent, Acked, Done
<1>5. d.rec[r].live /\ ~d.rec[r].seen_terminal /\ ~Asked(o, r) /\ ~Owes(g.op[r])
  BY <1>2 DEF About, Answers
<1>6. x.op = g.op /\ x.rec = g.rec /\ x.last = g.last /\ x.terminal = g.terminal /\ x.route = g.route
  BY <1>1 DEF Lanes
<1>7. Shape(x, r)
  BY <1>6 DEF About, Shape
<1>8. Loan(x, q, {}, r)
  BY <1>6 DEF About, Loan, Spent
<1>9. Watch(x, e, o, r)
  BY <1>2, <1>3, <1>6 DEF About, Watch, Spent, Reads, Completing
<1>10. Answers(x, e, o, r)
  BY <1>2, <1>4, <1>5, <1>6 DEF About, Answers, Completing
<1>11. Withdrawal(x, e, o, r)
  BY <1>2, <1>3, <1>6 DEF About, Withdrawal, Completing
<1> QED BY <1>5, <1>7, <1>8, <1>9, <1>10, <1>11 DEF About

LEMMA HearRegistered ==
  ASSUME NEW g, NEW x, NEW q, NEW d, NEW e, NEW o, NEW a, NEW r, About(g, q, d, o, {}, r),
         ~g.terminal, Heard(g, x, a), a.t = "registered", a.r = r, e.next = d.next, e.using = d.using,
         d.rec[r] \in ClientRecord, NEW k, e.rec[r] = k, Enrolling(d.rec[r], k)
  PROVE  d.rec[r].live /\ d.rec[r].borrow /\ d.rec[r].waiting /\ About(x, q, e, o, {}, r)
<1>1. Lanes(g, x) /\ Mail(x, g, a) /\ a.t \notin Controls
  BY DEF Heard, Controls
<1>2. /\ (Acked(x, r) <=> Acked(g, r)) /\ (Done(x, r) <=> Done(g, r)) /\ (Lent(x, r) <=> Lent(g, r)) /\ Enrolled(g, r)
  BY <1>1 DEF Mail
<1>3. /\ (Closes(x, r) <=> Closes(g, r)) /\ (Retires(x, r) <=> Retires(g, r)) /\ (Never(x, r) <=> Never(g, r))
      /\ (Withdrawn(x, r) <=> Withdrawn(g, r)) /\ (Withdraws(x, r) <=> Withdraws(g, r))
  BY <1>1, MailOfReply
<1>4. ~Enrolled(x, r)
  BY DEF Heard, Misplaced, Enrolled
<1>5. d.rec[r].live /\ d.rec[r].borrow /\ d.rec[r].waiting /\ ~Registering(o, r)
  BY <1>2 DEF About, Answers
<1>6. x.op = g.op /\ x.rec = g.rec /\ x.last = g.last /\ x.terminal = g.terminal /\ x.route = g.route
  BY <1>1 DEF Lanes
<1>7. Shape(x, r)
  BY <1>6 DEF About, Shape
<1>8. Loan(x, q, {}, r)
  BY <1>6 DEF About, Loan, Spent
<1>9. Watch(x, e, o, r)
  BY <1>2, <1>3, <1>6 DEF About, Watch, Spent, Reads, Enrolling
<1>10. Answers(x, e, o, r)
  BY <1>2, <1>4, <1>5, <1>6 DEF About, Answers, Enrolling
<1>11. Withdrawal(x, e, o, r)
  BY <1>2, <1>3, <1>6 DEF About, Withdrawal, Enrolling
<1> QED BY <1>5, <1>7, <1>8, <1>9, <1>10, <1>11 DEF About

\* What the consumer makes of a closing or retired message.
Warned(b, k, a) ==
    /\ k.live = b.live /\ k.acknowledged = b.acknowledged /\ k.seen_terminal = b.seen_terminal
    /\ k.seen_prepared = b.seen_prepared /\ k.quiescent = b.quiescent /\ k.waiting = b.waiting
    /\ k.view => b.view
    /\ b.borrow => k.borrow
    /\ k.never_published => b.never_published \/ (b.live /\ a.quiescence = "never_published")
    /\ k.retired => b.retired \/ a.t = "retired"

LEMMA HearWarning ==
  ASSUME NEW g, NEW x, NEW q, NEW d, NEW e, NEW o, NEW a, NEW r, About(g, q, d, o, {}, r),
         ~g.terminal, Heard(g, x, a), a.t \in Controls, a.r = r, e.next = d.next, e.using = d.using,
         d.rec[r] \in ClientRecord, NEW k, e.rec[r] = k, Warned(d.rec[r], k, a)
  PROVE  /\ ~d.rec[r].live => a.quiescence = "never_published"
         /\ ~(a.quiescence = "never_published" /\ d.rec[r].seen_prepared)
         /\ a.t = "retired" => d.rec[r].quiescent \/ a.quiescence = "never_published"
         /\ About(x, q, e, o, {}, r)
<1>1. Lanes(g, x) /\ Mail(x, g, a)
  BY DEF Heard
<1>2. /\ (Acked(g, r) <=> Acked(x, r)) /\ (Lent(g, r) <=> Lent(x, r)) /\ (Done(g, r) <=> Done(x, r))
      /\ (Enrolled(g, r) <=> Enrolled(x, r))
  BY <1>1, MailOfControl
<1>3. /\ Closes(x, r) => Closes(g, r)
      /\ Retires(x, r) => Retires(g, r)
      /\ Never(x, r) => Never(g, r)
      /\ Withdrawn(x, r) => Withdrawn(g, r)
      /\ Withdraws(x, r) => Withdraws(g, r)
  BY <1>1 DEF Mail
<1>4. /\ a.quiescence = "never_published" => Never(g, r)
      /\ a.quiescence # "never_published" => Withdraws(g, r)
      /\ a.t = "retired" /\ a.quiescence # "never_published" => Withdrawn(g, r)
      /\ a.t = "retired" => Retires(g, r)
  BY <1>1 DEF Mail
<1>5. a.t = "retired" => ~Withdraws(x, r)
  <2>1. a.t = "retired" => \A t \in Controls : ~Has(x.reply, t, r) /\ ~Has(x.control, t, r)
    BY DEF Heard, Misplaced, Controls
  <2>2. \A s, t : Published(s, t, r) => Has(s, t, r)
    BY DEF Published, Has
  <2> QED BY <2>1, <2>2 DEF Withdraws, Withdrawn, Controls
<1>6. /\ ~d.rec[r].live => a.quiescence = "never_published"
      /\ ~(a.quiescence = "never_published" /\ d.rec[r].seen_prepared)
      /\ a.t = "retired" => d.rec[r].quiescent \/ a.quiescence = "never_published"
  BY <1>4 DEF About, Watch, Withdrawal
<1>7. x.op = g.op /\ x.rec = g.rec /\ x.last = g.last /\ x.terminal = g.terminal /\ x.route = g.route
  BY <1>1 DEF Lanes
<1>8. Shape(x, r)
  BY <1>7 DEF About, Shape
<1>9. Loan(x, q, {}, r)
  BY <1>7 DEF About, Loan, Spent
<1>10. Watch(x, e, o, r)
  BY <1>2, <1>3, <1>4, <1>7 DEF About, Watch, Spent, Reads, Warned
<1>11. Answers(x, e, o, r)
  BY <1>2, <1>7 DEF About, Answers, Warned
<1>12. Withdrawal(x, e, o, r)
  BY <1>2, <1>3, <1>4, <1>5, <1>7 DEF About, Withdrawal, Warned
<1> QED BY <1>6, <1>8, <1>9, <1>10, <1>11, <1>12 DEF About

(* ------------------- the consumer accepts every message ----------------- *)

\* What the consumer records of a message, one lemma for each type.
LEMMA RecordAcknowledged ==
  ASSUME NEW b \in ClientRecord, NEW a, a.t = "acknowledged"
  PROVE  /\ Observed(b, a) = [b EXCEPT !.acknowledged = TRUE] /\ Observed(b, a) \in ClientRecord
         /\ Accepts(b, a) <=> b.live /\ ~b.acknowledged /\ ~b.seen_terminal
BY DEF Observed, Accepts, ClientRecord

LEMMA RecordPrepared ==
  ASSUME NEW b \in ClientRecord, NEW a, a.t = "prepared"
  PROVE  /\ Observed(b, a) \in ClientRecord /\ Lending(b, Observed(b, a))
         /\ (Accepts(b, a) <=> b.live /\ ~b.seen_prepared /\ ~b.seen_terminal /\ ~b.never_published)
<1> DEFINE open == ~b.closing
           k == Observed(b, a)
<1>1. k = [b EXCEPT !.seen_prepared = TRUE, !.borrow = TRUE, !.view = open]
  BY DEF Observed
<1>2. open \in BOOLEAN
  BY DEF ClientRecord
<1>3. Accepts(b, a) <=> b.live /\ ~b.seen_prepared /\ ~b.seen_terminal /\ ~b.never_published
  BY DEF Accepts
<1> HIDE DEF open, k
<1>4. k \in ClientRecord
  BY <1>1, <1>2 DEF ClientRecord
<1>5. Lending(b, k)
  BY <1>1 DEF ClientRecord, Lending
<1> QED BY <1>3, <1>4, <1>5 DEF k

LEMMA ClearedRecord ==
  ASSUME NEW b \in ClientRecord
  PROVE  LET k == ClearView(b) IN
         /\ k \in ClientRecord /\ k.live = b.live /\ k.acknowledged = b.acknowledged
         /\ k.seen_terminal = b.seen_terminal /\ k.seen_prepared = b.seen_prepared
         /\ k.never_published = b.never_published /\ k.retired = b.retired /\ k.borrow = b.borrow
         /\ k.quiescent = b.quiescent /\ k.waiting = b.waiting /\ ~k.view
BY DEF ClearView, ClientRecord

LEMMA RecordCompleted ==
  ASSUME NEW b \in ClientRecord, NEW a, a.t = "completed"
  PROVE  /\ Observed(b, a) \in ClientRecord /\ Completing(b, Observed(b, a))
         /\ (Accepts(b, a) <=> b.live /\ ~b.seen_terminal)
<1> DEFINE seen == [b EXCEPT !.seen_terminal = TRUE]
           k == Observed(b, a)
<1>1. /\ seen \in ClientRecord /\ seen.live = b.live /\ seen.acknowledged = b.acknowledged
      /\ seen.seen_prepared = b.seen_prepared /\ seen.never_published = b.never_published
      /\ seen.retired = b.retired /\ seen.borrow = b.borrow /\ seen.quiescent = b.quiescent
      /\ seen.waiting = b.waiting /\ seen.view = b.view
  BY DEF ClientRecord
<1>2. k = IF a.ok THEN seen ELSE ClearView(seen)
  BY DEF Observed
<1>3. Accepts(b, a) <=> b.live /\ ~b.seen_terminal
  BY DEF Accepts
<1> HIDE DEF seen, k
<1>4. CASE a.ok
  <2>1. k \in ClientRecord /\ Completing(b, k)
    BY <1>1, <1>2, <1>4 DEF Completing
  <2> QED BY <1>3, <2>1 DEF k
<1>5. CASE ~a.ok
  <2>1. LET y == ClearView(seen) IN
        /\ y \in ClientRecord /\ y.live = seen.live /\ y.acknowledged = seen.acknowledged
        /\ y.seen_prepared = seen.seen_prepared /\ y.never_published = seen.never_published
        /\ y.retired = seen.retired /\ y.borrow = seen.borrow
        /\ y.quiescent = seen.quiescent /\ y.waiting = seen.waiting /\ ~y.view
    BY <1>1, ClearedRecord
  <2>2. k = ClearView(seen)
    BY <1>2, <1>5
  <2>3. k \in ClientRecord /\ Completing(b, k)
    BY <1>1, <2>1, <2>2 DEF Completing
  <2> QED BY <1>3, <2>3 DEF k
<1> QED BY <1>4, <1>5

LEMMA RecordRegistered ==
  ASSUME NEW b \in ClientRecord, NEW a, a.t = "registered", a.ok \in BOOLEAN
  PROVE  /\ Observed(b, a) \in ClientRecord /\ Enrolling(b, Observed(b, a))
         /\ (Accepts(b, a) <=> b.live /\ b.borrow /\ b.waiting)
<1> DEFINE now == b.registered \/ (a.ok /\ ~b.closing)
           k == Observed(b, a)
<1>1. now \in BOOLEAN
  BY DEF ClientRecord
<1>2. k = [b EXCEPT !.waiting = FALSE, !.registered = now]
  BY DEF Observed
<1>3. Accepts(b, a) <=> b.live /\ b.borrow /\ b.waiting
  BY DEF Accepts
<1> HIDE DEF now, k
<1>4. k \in ClientRecord
  BY <1>1, <1>2 DEF ClientRecord
<1>5. Enrolling(b, k)
  BY <1>2 DEF ClientRecord, Enrolling
<1> QED BY <1>3, <1>4, <1>5 DEF k

LEMMA RecordWarning ==
  ASSUME NEW b \in ClientRecord, NEW a, a.t \in Controls
  PROVE  /\ Observed(b, a) \in ClientRecord /\ Warned(b, Observed(b, a), a)
         /\ /\ ~b.live => a.quiescence = "never_published"
            /\ ~(a.quiescence = "never_published" /\ b.seen_prepared)
            /\ a.t = "retired" => b.quiescent \/ a.quiescence = "never_published"
            => Accepts(b, a)
<1> DEFINE k == Observed(b, a)
           gone == b.retired \/ a.t = "retired"
           never == a.quiescence = "never_published"
           y == ClearView(b)
<1>1. a.t \notin {"acknowledged", "prepared", "completed", "registered", "closed"}
  BY DEF Controls
<1>2. k = IF ~b.live THEN b ELSE [y EXCEPT !.borrow = TRUE, !.retired = y.retired \/ a.t = "retired", !.never_published = never]
  BY <1>1 DEF Observed
<1>3. ASSUME ~b.live => a.quiescence = "never_published",
             ~(a.quiescence = "never_published" /\ b.seen_prepared),
             a.t = "retired" => b.quiescent \/ a.quiescence = "never_published"
      PROVE  Accepts(b, a)
  BY <1>1, <1>3 DEF Accepts
<1>4. gone \in BOOLEAN /\ never \in BOOLEAN /\ (never <=> a.quiescence = "never_published")
      /\ (gone <=> b.retired \/ a.t = "retired")
  BY DEF ClientRecord
<1>5. /\ y \in ClientRecord /\ y.live = b.live /\ y.acknowledged = b.acknowledged
      /\ y.seen_terminal = b.seen_terminal /\ y.seen_prepared = b.seen_prepared
      /\ y.never_published = b.never_published /\ y.retired = b.retired /\ y.borrow = b.borrow
      /\ y.quiescent = b.quiescent /\ y.waiting = b.waiting /\ ~y.view
  BY ClearedRecord
<1>6. b.live => k = [y EXCEPT !.borrow = TRUE, !.retired = gone, !.never_published = never]
  BY <1>2, <1>5
<1>7. ~b.live => k = b
  BY <1>2
<1> HIDE DEF k, gone, never, y
<1>8. CASE b.live
  <2>1. /\ k \in ClientRecord /\ k.live = b.live /\ k.acknowledged = b.acknowledged
        /\ k.seen_terminal = b.seen_terminal /\ k.seen_prepared = b.seen_prepared
        /\ k.quiescent = b.quiescent /\ k.waiting = b.waiting /\ ~k.view /\ k.borrow
        /\ k.retired = gone /\ k.never_published = never
    <3>1. y \in ClientRecord
      BY <1>5
    <3>2. /\ k \in ClientRecord /\ k.live = y.live /\ k.acknowledged = y.acknowledged
          /\ k.seen_terminal = y.seen_terminal /\ k.seen_prepared = y.seen_prepared
          /\ k.quiescent = y.quiescent /\ k.waiting = y.waiting /\ k.view = y.view /\ k.borrow
          /\ k.retired = gone /\ k.never_published = never
      BY <1>4, <1>6, <1>8, <3>1 DEF ClientRecord
    <3> QED BY <1>5, <3>2
  <2>2. Warned(b, k, a)
    BY <1>4, <1>8, <2>1 DEF Warned
  <2> QED BY <1>3, <2>1, <2>2 DEF k
<1>9. CASE ~b.live
  <2>1. k \in ClientRecord /\ Warned(b, k, a)
    BY <1>7, <1>9 DEF Warned
  <2> QED BY <1>3, <2>1 DEF k
<1> QED BY <1>8, <1>9

LEMMA HeardAbout ==
  ASSUME NEW x, NEW a, NEW r \in Requests, IInv, ~h.terminal, Heard(h, x, a), a.t # "closed", a.r = r
  PROVE  /\ Accepts(c.rec[r], a) /\ Observed(c.rec[r], a) \in ClientRecord
         /\ About(x, p, WithClient(c, r, Observed(c.rec[r], a)), out, {}, r)
<1> DEFINE b == c.rec[r]
           k == Observed(b, a)
           e == WithClient(c, r, k)
<1>1. /\ About(h, p, c, out, {}, r) /\ c \in ClientState /\ c.rec[r] = b /\ b \in ClientRecord
  BY DEF IInv, Sound, ClientState
<1>2. ASSUME k \in ClientRecord
      PROVE  e.rec[r] = k /\ e.next = c.next /\ e.using = c.using
  BY <1>1, <1>2, NewClient
<1>3. a \in Answer
  BY DEF Heard
<1>4. CASE a.t = "acknowledged"
  <2>1. /\ k = [b EXCEPT !.acknowledged = TRUE] /\ k \in ClientRecord
        /\ (Accepts(b, a) <=> b.live /\ ~b.acknowledged /\ ~b.seen_terminal)
    BY <1>1, <1>4, RecordAcknowledged
  <2>2. e.rec[r] = k /\ e.next = c.next /\ e.using = c.using
    BY <1>2, <2>1
  <2> HIDE DEF e, k
  <2>3. e.rec[r] = [c.rec[r] EXCEPT !.acknowledged = TRUE]
    BY <2>1, <2>2 DEF b
  <2>4. /\ c.rec[r].live /\ ~c.rec[r].acknowledged /\ ~c.rec[r].seen_terminal
        /\ About(x, p, e, out, {}, r)
    BY <1>1, <1>4, <2>2, <2>3, HearAcknowledged
  <2> QED BY <2>1, <2>4 DEF e, k, b
<1>5. CASE a.t = "prepared"
  <2>1. /\ k \in ClientRecord /\ Lending(b, k)
        /\ (Accepts(b, a) <=> b.live /\ ~b.seen_prepared /\ ~b.seen_terminal /\ ~b.never_published)
    BY <1>1, <1>5, RecordPrepared
  <2>2. e.rec[r] = k /\ e.next = c.next /\ e.using = c.using
    BY <1>2, <2>1
  <2> HIDE DEF e, k
  <2>3. /\ c.rec[r].live /\ ~c.rec[r].seen_prepared /\ ~c.rec[r].seen_terminal /\ ~c.rec[r].never_published
        /\ About(x, p, e, out, {}, r)
    BY <1>1, <1>5, <2>1, <2>2, HearPrepared
  <2> QED BY <2>1, <2>3 DEF e, k, b
<1>6. CASE a.t = "completed"
  <2>1. /\ k \in ClientRecord /\ Completing(b, k)
        /\ (Accepts(b, a) <=> b.live /\ ~b.seen_terminal)
    BY <1>1, <1>6, RecordCompleted
  <2>2. e.rec[r] = k /\ e.next = c.next /\ e.using = c.using
    BY <1>2, <2>1
  <2> HIDE DEF e, k
  <2>3. c.rec[r].live /\ ~c.rec[r].seen_terminal /\ About(x, p, e, out, {}, r)
    BY <1>1, <1>6, <2>1, <2>2, HearCompleted
  <2> QED BY <2>1, <2>3 DEF e, k, b
<1>7. CASE a.t = "registered"
  <2>1. a.ok \in BOOLEAN
    BY <1>3, <1>7 DEF Answer, Controls
  <2>2. /\ k \in ClientRecord /\ Enrolling(b, k)
        /\ (Accepts(b, a) <=> b.live /\ b.borrow /\ b.waiting)
    BY <1>1, <1>7, <2>1, RecordRegistered
  <2>3. e.rec[r] = k /\ e.next = c.next /\ e.using = c.using
    BY <1>2, <2>2
  <2> HIDE DEF e, k
  <2>4. c.rec[r].live /\ c.rec[r].borrow /\ c.rec[r].waiting /\ About(x, p, e, out, {}, r)
    BY <1>1, <1>7, <2>2, <2>3, HearRegistered
  <2> QED BY <2>2, <2>4 DEF e, k, b
<1>8. CASE a.t \in Controls
  <2>1. /\ k \in ClientRecord /\ Warned(b, k, a)
        /\ (/\ ~b.live => a.quiescence = "never_published"
            /\ ~(a.quiescence = "never_published" /\ b.seen_prepared)
            /\ a.t = "retired" => b.quiescent \/ a.quiescence = "never_published") => Accepts(b, a)
    BY <1>1, <1>8, RecordWarning
  <2>2. e.rec[r] = k /\ e.next = c.next /\ e.using = c.using
    BY <1>2, <2>1
  <2> HIDE DEF e, k
  <2>3. /\ ~c.rec[r].live => a.quiescence = "never_published"
        /\ ~(a.quiescence = "never_published" /\ c.rec[r].seen_prepared)
        /\ a.t = "retired" => c.rec[r].quiescent \/ a.quiescence = "never_published"
        /\ About(x, p, e, out, {}, r)
    BY <1>1, <1>8, <2>1, <2>2, HearWarning
  <2> QED BY <2>1, <2>3 DEF e, k, b
<1>9. a.t \in {"acknowledged", "prepared", "completed", "registered", "closed"} \cup Controls
  BY <1>3 DEF Answer
<1> QED BY <1>4, <1>5, <1>6, <1>7, <1>8, <1>9

\* The Host has closed the route, as the consumer asked, or has refused to.
LEMMA HearClosed ==
  ASSUME NEW g, NEW x, NEW q, NEW d, NEW e, NEW o, NEW a,
         Sound(g, q, d, o, {}, 0), ~g.terminal, Heard(g, x, a), a.t = "closed",
         e \in ClientState, e.next = d.next, e.using = d.using, e.rec = d.rec
  PROVE  d.route = "closing" /\ Sound(x, q, e, o, {}, 0)
<1>1. /\ g \in HostState /\ d \in ClientState /\ o \in Outbox /\ Single(o.pod) /\ Route(g, d, o)
      /\ Calm(g, q) /\ Books(g, 0) /\ Ended(g, d)
  BY DEF Sound
<1>2. a.r = 0 /\ Lanes(g, x) /\ Mail(x, g, a) /\ Inbox(x)
  BY DEF Heard, Answer, Controls
<1>3. d.next \in Nat
  BY <1>1, ServiceAssumption DEF ClientState
<1>4. Onward(g, x) /\ d.next <= e.next /\ x \in HostState
  BY <1>1, <1>2, <1>3, ServiceAssumption DEF Lanes, Onward, HostState
<1>5. \A i \in Requests : i # 0
  BY ServiceAssumption DEF Requests
<1>6. \A i \in Requests : SameMail(x, g, i)
  BY <1>2, <1>5, MailOthers
<1>7. \A i \in Requests : Apart(g, x, d, e, o, o, i)
  BY <1>2, <1>6 DEF Apart, Lanes, Same, SameMail, FewerCalls
<1>8. Left(g) /\ ~Left(x)
  BY <1>2 DEF Heard, Mail, Misplaced, Left
<1>9. d.route = "closing" /\ ~Leaving(o)
  BY <1>1, <1>8 DEF Route
<1>10. Route(x, e, o) /\ Calm(x, q) /\ Ended(x, e)
  BY <1>1, <1>2, <1>8, <1>9 DEF Lanes, Route, Calm, Ended
<1>11. Books(x, 0)
  <2>1. Debts(x) = Debts(g)
    BY <1>2 DEF Debts, Owing, Unpaid, Lanes
  <2>2. Len(g.reply) \in Nat /\ Len(x.reply) \in Nat /\ g.reserved \in Nat /\ ReplyCapacity \in Nat
    BY <1>1, <1>4, ServiceAssumption DEF HostState
  <2> QED BY <1>1, <1>2, <2>1, <2>2 DEF Books, Heard, Lanes
<1>12. 0 \notin Requests /\ \A i \in Requests : i # 0 => Apart(g, x, d, e, o, o, i)
  BY <1>5, <1>7
<1>13. Sound(x, q, e, o, {}, 0)
  BY <1>1, <1>2, <1>4, <1>10, <1>11, <1>12, StepSound
<1> QED BY <1>9, <1>13

\* What the consumer makes of a message a that it is given.
Understood(a) ==
    c' = IF a.t = "closed"
         THEN [c EXCEPT !.refused = @ \/ c.route # "closing",
                        !.route = IF a.ok THEN "none" ELSE "open"]
         ELSE IF Accepts(c.rec[a.r], a)
         THEN [c EXCEPT !.rec[a.r] = Observed(@, a)]
         ELSE [c EXCEPT !.refused = TRUE]

LEMMA HeardKeeps ==
  ASSUME NEW x, NEW a, IInv, ~h.terminal, Heard(h, x, a), h' = x,
         UNCHANGED <<p, out, drain, turn, disturbed>>,
         Understood(a)
  PROVE  IInv'
<1>1. /\ Sound(h, p, c, out, {}, 0) /\ ~c.refused /\ c \in ClientState /\ h \in HostState
      /\ turn \in {"drain", "pump", "service"} /\ disturbed \in 0..Disturbances
  BY DEF IInv, Sound
<1>2. ASSUME Sound(x, p, c', out, {}, 0), ~c'.refused
      PROVE  IInv'
  BY <1>1, <1>2 DEF IInv
<1>3. CASE a.t = "closed"
  <2> DEFINE refused == c.refused \/ c.route # "closing"
             route == IF a.ok THEN "none" ELSE "open"
             e == [c EXCEPT !.refused = refused, !.route = route]
  <2>1. c' = e
    BY <1>3 DEF Understood
  <2>2. refused \in BOOLEAN /\ route \in Routes
    BY <1>1 DEF Routes, ClientState
  <2>3. refused <=> c.route # "closing"
    BY <1>1
  <2> HIDE DEF refused, route
  <2>4. /\ e \in ClientState /\ e.next = c.next /\ e.using = c.using /\ e.rec = c.rec /\ e.refused = refused
    BY <1>1, <2>2 DEF ClientState
  <2> HIDE DEF e
  <2>5. c.route = "closing" /\ Sound(x, p, e, out, {}, 0)
    BY <1>1, <1>3, <2>4, HearClosed
  <2> QED BY <1>2, <2>1, <2>3, <2>4, <2>5
<1>4. CASE a.t # "closed"
  <2> DEFINE r == a.r
             k == Observed(c.rec[r], a)
             e == WithClient(c, r, k)
  <2>1. r \in Requests
    BY <1>4 DEF Heard, Answer
  <2>2. Accepts(c.rec[r], a) /\ k \in ClientRecord /\ About(x, p, e, out, {}, r)
    BY <1>4, <2>1, HeardAbout
  <2>3. c' = [c EXCEPT !.rec[r] = k]
    BY <1>4, <2>2 DEF Understood
  <2> HIDE DEF k
  <2>4. c' = e
    BY <1>1, <2>3 DEF WithClient, ClientState
  <2>5. e.refused = c.refused
    BY <1>1, <2>1, <2>2, NewClient
  <2>6. Sound(x, p, e, out, {}, 0)
    BY <1>1, <1>4, <2>1, <2>2, HeardSound
  <2> QED BY <1>1, <1>2, <2>4, <2>5, <2>6
<1> QED BY <1>3, <1>4

LEMMA HearKeeps ==
  ASSUME IInv, Hear
  PROVE  IInv'
<1>1. h \in HostState /\ Inbox(h) /\ ~h.terminal
  BY DEF IInv, Sound, Hear, Running
<1>2. UNCHANGED <<p, out, drain, turn, disturbed>>
  BY DEF Hear
<1>3. CASE h.control # <<>>
  <2> DEFINE a == Head(h.control)
             x == [h EXCEPT !.control = Tail(h.control)]
  <2>1. Heard(h, x, a)
    BY <1>1, <1>3, HeardFromControl
  <2>2. /\ h' = x
        /\ Understood(a)
    BY <1>1, <1>3 DEF Hear, HostState, Understood
  <2> HIDE DEF x, a
  <2> QED BY <1>1, <1>2, <2>1, <2>2, HeardKeeps
<1>4. CASE h.control = <<>>
  <2> DEFINE a == Head(h.reply)
             x == [h EXCEPT !.reply = Tail(h.reply)]
  <2>1. h.reply # <<>>
    BY <1>1, <1>4 DEF Hear, HostState
  <2>2. Heard(h, x, a)
    BY <1>1, <1>4, <2>1, HeardFromReply
  <2>3. /\ h' = x
        /\ Understood(a)
    BY <1>1, <1>4 DEF Hear, HostState, Understood
  <2> HIDE DEF x, a
  <2> QED BY <1>1, <1>2, <2>2, <2>3, HeardKeeps
<1> QED BY <1>3, <1>4

(* ------------------------- every step, and the start -------------------- *)

LEMMA StartSound ==
  ASSUME Init
  PROVE  IInv
<1>1. PICK e \in Executions : h = HostInit(e = "threaded")
  BY DEF Init
<1> DEFINE threaded == e = "threaded"
<1>2. /\ p = [window |-> 0, window_closing |-> FALSE, stopping |-> FALSE, begun |-> FALSE,
              failed |-> FALSE, broken |-> FALSE, skipped |-> FALSE, use |-> [r \in Requests |-> NoUse],
              completion |-> [r \in Requests |-> "free"]]
      /\ c = [rec |-> [r \in Requests |-> NoClientRecord], next |-> 1, refused |-> FALSE,
              using |-> [r \in Requests |-> FALSE], route |-> "open", said |-> [r \in Requests |-> FALSE]]
      /\ out = [control |-> <<>>, pod |-> <<>>]
      /\ turn = "drain" /\ disturbed = 0
  BY DEF Init
<1>3. 0 \in 0..N /\ 1 \in 1..(N + 1) /\ 0 \in 0..Disturbances /\ 0 < 1 /\ \A r \in Requests : r > 0 /\ 0 < r
  BY ServiceAssumption DEF Requests
<1>4. h \in HostState
  <2>1. NoOperation \in Operation
    BY <1>3 DEF NoOperation, Operation, Kind
  <2>2. NoRecord \in Record
    BY DEF NoRecord, Record, Quiescence
  <2>3. threaded \in BOOLEAN
    OBVIOUS
  <2> DEFINE op == [r \in Requests |-> NoOperation]
             rec == [r \in Requests |-> NoRecord]
             answers == <<>>
             notices == <<>>
  <2>4. op \in [Requests -> Operation] /\ rec \in [Requests -> Record]
    BY <2>1, <2>2
  <2>5. answers \in Seq(Answer) /\ notices \in Seq(Notice)
    OBVIOUS
  <2> HIDE DEF op, rec, threaded, answers, notices
  <2> QED BY <1>1, <1>3, <2>3, <2>4, <2>5 DEF HostInit, HostState, Routes, op, rec, threaded, answers, notices
<1>5. p \in ProviderState
  <2>1. NoUse \in Use
    BY DEF NoUse, Use, Quiescence
  <2> QED BY <1>2, <1>3, <2>1 DEF ProviderState, Slots
<1>6. c \in ClientState
  <2>1. NoClientRecord \in ClientRecord
    BY <1>3 DEF NoClientRecord, ClientRecord, Kind
  <2> QED BY <1>2, <1>3, <2>1 DEF ClientState, Routes
<1>7. out \in Outbox
  <2> DEFINE words == <<>>
             calls == <<>>
  <2>1. words \in Seq(Word) /\ calls \in Seq(Call)
    OBVIOUS
  <2>2. out = [control |-> words, pod |-> calls]
    BY <1>2
  <2> HIDE DEF words, calls
  <2> QED BY <2>1, <2>2 DEF Outbox
<1>8. /\ h.threaded \in BOOLEAN /\ ~h.terminal /\ h.route = "open" /\ h.last = 0 /\ ~h.failed /\ h.reserved = 0
      /\ h.control = <<>> /\ h.reply = <<>> /\ ~h.provider_stop
      /\ h.op = [r \in Requests |-> NoOperation] /\ h.rec = [r \in Requests |-> NoRecord]
  BY <1>1 DEF HostInit
<1>9. \A t, r : ~Has(<<>>, t, r) /\ ~Published(<<>>, t, r) /\ ~Unpublished(<<>>, r)
  BY DEF Has, Published, Unpublished
<1>10. \A r : /\ ~Acked(h, r) /\ ~Lent(h, r) /\ ~Done(h, r) /\ ~Enrolled(h, r) /\ ~Closes(h, r) /\ ~Retires(h, r)
              /\ ~Never(h, r) /\ ~Withdrawn(h, r) /\ ~Withdraws(h, r) /\ ~Left(h)
  BY <1>8, <1>9 DEF Acked, Lent, Done, Enrolled, Closes, Retires, Never, Withdrawn, Withdraws, Left
<1>11. out.control = <<>> /\ out.pod = <<>>
  BY <1>2
<1>12. \A r : ~Asked(out, r) /\ ~Registering(out, r) /\ ~Quitting(out, r) /\ ~Leaving(out)
  BY <1>9, <1>11 DEF Asked, Registering, Quitting, Leaving
<1>13. ASSUME NEW r \in Requests PROVE About(h, p, c, out, {}, r)
  <2>1. h.op[r] = NoOperation /\ h.rec[r] = NoRecord
    BY <1>8
  <2>2. p.use[r] = NoUse /\ p.completion[r] = "free"
    BY <1>2
  <2>3. c.rec[r] = NoClientRecord /\ ~c.using[r]
    BY <1>2
  <2>4. ~h.op[r].live /\ ~h.op[r].terminal_sent /\ ~h.op[r].borrow /\ ~h.op[r].completed
    BY <2>1 DEF NoOperation
  <2>5. /\ ~h.rec[r].live /\ ~h.rec[r].settled /\ ~h.rec[r].closing /\ ~h.rec[r].published
        /\ ~h.rec[r].finished /\ ~h.rec[r].client_notified /\ ~h.rec[r].quiescence_notified
        /\ h.rec[r].quiescence = "none"
    BY <2>1 DEF NoRecord
  <2>6. ~p.use[r].live
    BY <2>2 DEF NoUse
  <2>7. /\ ~c.rec[r].live /\ ~c.rec[r].acknowledged /\ ~c.rec[r].seen_prepared /\ ~c.rec[r].seen_terminal
        /\ ~c.rec[r].never_published /\ ~c.rec[r].retired /\ ~c.rec[r].view
    BY <2>3 DEF NoClientRecord
  <2>8. r > h.last
    BY <1>3, <1>8
  <2>9. Shape(h, r)
    BY <2>5 DEF Shape
  <2>10. Loan(h, p, {}, r)
    BY <1>8, <2>2, <2>4, <2>5, <2>6 DEF Loan, Unsettled
  <2>11. Watch(h, c, out, r)
    BY <1>10, <1>12, <2>3, <2>5, <2>7 DEF Watch, Reads
  <2>12. Answers(h, c, out, r)
    BY <1>10, <1>12, <2>4, <2>7 DEF Answers, Owes
  <2>13. Withdrawal(h, c, out, r)
    BY <1>10, <1>12, <2>5, <2>7 DEF Withdrawal
  <2> QED BY <2>9, <2>10, <2>11, <2>12, <2>13 DEF About
<1>14. Len(<<>>) = 0 /\ Ordered(<<>>) /\ Single(<<>>)
  BY DEF Ordered, Single
<1>15. Inbox(h)
  BY <1>8, <1>14 DEF Inbox
<1>16. Route(h, c, out) /\ Calm(h, p) /\ Ended(h, c)
  BY <1>2, <1>3, <1>8, <1>10, <1>12 DEF Route, Calm, Healthy, Ended
<1>17. Books(h, 0)
  <2>1. Owing(h) = {} /\ Unpaid(h) = {}
    BY <1>8 DEF Owing, Unpaid, Owes, Unsettled, NoOperation, NoRecord
  <2>2. Debts(h) = 0
    BY <2>1, FS_EmptySet DEF Debts
  <2> QED BY <1>8, <1>14, <2>2, ServiceAssumption DEF Books
<1>18. ~c.refused /\ turn \in {"drain", "pump", "service"} /\ disturbed \in 0..Disturbances
  BY <1>2, <1>3
<1>19. Single(out.pod)
  BY <1>11, <1>14
<1> QED BY <1>4, <1>5, <1>6, <1>7, <1>13, <1>15, <1>16, <1>17, <1>18, <1>19 DEF IInv, Sound

LEMMA StepKeeps ==
  ASSUME IInv, [Next]_vars
  PROVE  IInv'
<1>1. CASE Drain
  BY <1>1, DrainKeeps
<1>2. CASE Pump
  BY <1>2, PumpKeeps
<1>3. CASE ServiceTurn
  BY <1>3, ServiceTurnKeeps
<1>4. CASE RequestStop
  BY <1>4, RequestStopKeeps
<1>5. CASE StopClient
  BY <1>5, StopClientKeeps
<1>6. CASE \E r \in Requests : Expire(r)
  BY <1>6, ExpireKeeps
<1>7. CASE \E kind \in Kinds[IF h.threaded THEN "threaded" ELSE "pumped"], of \in Requests :
               (kind = "create" => of = 1) /\ Begin(kind, of)
  <2>1. PICK kind \in Kinds[IF h.threaded THEN "threaded" ELSE "pumped"], of \in Requests : Begin(kind, of)
    BY <1>7
  <2>2. kind \in {"create", "acquire", "ready"}
    BY ServiceAssumption DEF Executions
  <2>3. kind \in Kind \ {"none"}
    BY <2>2 DEF Kind
  <2> QED BY <2>1, <2>3, BeginKeeps
<1>8. CASE Hear
  BY <1>8, HearKeeps
<1>9. CASE \E r \in Requests : RequestNotification(r) \/ Release(r) \/ CancelWait(r) \/ Quiesce(r) \/ Forget(r)
  <2>1. PICK r \in Requests : RequestNotification(r) \/ Release(r) \/ CancelWait(r) \/ Quiesce(r) \/ Forget(r)
    BY <1>9
  <2>2. CASE RequestNotification(r)
    BY <2>2, RequestNotificationKeeps
  <2>3. CASE Release(r)
    BY <2>3, ReleaseKeeps
  <2>4. CASE CancelWait(r)
    BY <2>4, CancelWaitKeeps
  <2>5. CASE Quiesce(r)
    BY <2>5, QuiesceKeeps
  <2>6. CASE Forget(r)
    BY <2>6, ForgetKeeps
  <2> QED BY <2>1, <2>2, <2>3, <2>4, <2>5, <2>6
<1>10. CASE CloseService
  BY <1>10, CloseServiceKeeps
<1>11. CASE \E r \in Requests : BeginUse(r) \/ EndUse(r)
  <2>1. PICK r \in Requests : BeginUse(r) \/ EndUse(r)
    BY <1>11
  <2>2. CASE BeginUse(r)
    BY <2>2, BeginUseKeeps
  <2>3. CASE EndUse(r)
    BY <2>3, EndUseKeeps
  <2> QED BY <2>1, <2>2, <2>3
<1>12. CASE Exit
  BY <1>12, ExitKeeps
<1>13. CASE UNCHANGED vars
  BY <1>13 DEF vars, IInv
<1> QED
  BY <1>1, <1>2, <1>3, <1>4, <1>5, <1>6, <1>7, <1>8, <1>9, <1>10, <1>11, <1>12, <1>13
     DEF Next, HostStep, ConsumerStep

LEMMA Invariant == Spec => []IInv
BY StartSound, StepKeeps, PTL DEF Spec

(* ----------------------------- the theorems ----------------------------- *)

LEMMA ShapeOfTypes == IInv => TypeOK
<1> SUFFICES ASSUME IInv PROVE TypeOK
  OBVIOUS
<1>1. /\ h \in HostState /\ p \in ProviderState /\ c \in ClientState
      /\ turn \in {"drain", "pump", "service"} /\ disturbed \in 0..Disturbances
  BY DEF IInv, Sound
<1>2. h.route \in Routes /\ h.last \in 0..N /\ h.reserved \in Nat /\ h.phase \in {"ready", "stopping", "stopped"}
  BY <1>1 DEF HostState
<1>3. \A r \in Requests : h.rec[r].quiescence \in Quiescence
  BY <1>1 DEF HostState, Record
<1>4. p.window \in 0..N /\ \A r \in Requests : p.use[r].quiescence \in Quiescence /\ p.completion[r] \in Slots
  BY <1>1 DEF ProviderState, Use
<1>5. c.next \in 1..(N + 1) /\ c.route \in Routes
  BY <1>1 DEF ClientState
<1> QED BY <1>1, <1>2, <1>3, <1>4, <1>5 DEF TypeOK, Routes, Slots

\* The services of the Host, the provider and the consumer keep their types.
THEOREM TypeCorrect == Spec => []TypeOK
BY Invariant, ShapeOfTypes, PTL

\* A window, its use and the Host's record outlive every reader of the view,
\* the batches of a thread that has exited included: Reads says the loan is
\* published and has not been given up, Loan that the provider still has it.
THEOREM ViewsOutliveReaders == Spec => []BorrowOutlivesUse
<1>1. IInv => BorrowOutlivesUse
  <2> SUFFICES ASSUME IInv, NEW r \in Requests, c.using[r]
               PROVE  p.use[r].live /\ p.window # 0 /\ h.rec[r].live
    BY DEF BorrowOutlivesUse
  <2>1. Shape(h, r) /\ Loan(h, p, {}, r) /\ Watch(h, c, out, r)
    BY DEF IInv, Sound, About
  <2>2. h.rec[r].live /\ h.rec[r].quiescence = "none"
    BY <2>1 DEF Watch, Reads
  <2>3. ~h.rec[r].finished
    BY <2>1, <2>2 DEF Shape
  <2> QED BY <2>1, <2>2, <2>3 DEF Loan
<1> QED BY <1>1, Invariant, PTL

\* The consumer recognises every message it is given, the router never fails,
\* and the provider fails only after its native side did.
THEOREM NobodyRefuses == Spec => []ProtocolRespected
<1>1. IInv => ProtocolRespected
  BY DEF IInv, Sound, Calm, Healthy, ProtocolRespected
<1> QED BY <1>1, Invariant, PTL

\* Every reply that is owed has its credit, and no credit is kept for another:
\* a reply always finds room in the inbox of a pumped client.
THEOREM RepliesHaveRoom == Spec => []CreditsExact
<1>1. IInv => CreditsExact
  <2> SUFFICES ASSUME IInv PROVE CreditsExact
    OBVIOUS
  <2>1. Books(h, 0) /\ h \in HostState
    BY DEF IInv, Sound
  <2>2. /\ Owing(h) = {r \in Requests : h.op[r].live /\ ~h.op[r].terminal_sent}
        /\ Unpaid(h) = {r \in Requests : h.rec[r].live /\ ~h.rec[r].settled}
    BY DEF Owing, Unpaid, Owes, Unsettled
  <2>3. h.reserved = Debts(h) + 0 /\ (h.threaded \/ Len(h.reply) + h.reserved <= ReplyCapacity)
    BY <2>1 DEF Books
  <2>4. Debts(h) \in Nat
    BY FewRequests, FS_Subset, FS_CardinalityType DEF Debts, Owing, Unpaid
  <2>5. h.reserved = Debts(h)
    BY <2>3, <2>4
  <2> QED BY <2>2, <2>3, <2>5 DEF CreditsExact, Debts
<1> QED BY <1>1, Invariant, PTL
=============================================================================
