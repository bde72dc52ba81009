--------------------------- MODULE ServiceBorrow ---------------------------
(***************************************************************************)
(* A window lent by the Platform provider to a consuming module through    *)
(* the Host: the Host's router (ServiceRouter.tla), CPlatformRuntime on    *)
(* the other side of a pump call, and CServiceBorrowClient in the          *)
(* consumer, which may be a thread (and may leave a batch reading the view *)
(* when it exits) or itself a pumped client with bounded inbox lanes.      *)
(*                                                                         *)
(* The Host thread runs the router and the provider's pump; the consumer   *)
(* runs beside it.  The two meet in the inbox lanes, the outbox lanes, the *)
(* published view and the consumer's terminal flag.                        *)
(***************************************************************************)
EXTENDS ServiceRouter, FiniteSets

CONSTANTS
    Kinds,              \* execution of the consumer -> the window commands it uses
    Disturbances        \* bound on stops, timeouts, native failures, second
                        \* acquisitions and repeated withdrawals in a behaviour

Executions == {"threaded", "pumped"}

ASSUME ServiceAssumption ==
    /\ N \in Nat \ {0}
    /\ ControlCapacity \in Nat \ {0}
    /\ ReplyCapacity \in Nat /\ ReplyCapacity >= 2
    /\ Kinds \in [Executions -> SUBSET {"create", "acquire", "ready"}]
    /\ Disturbances \in Nat

VARIABLES
    h,          \* the Host's router, borrows and client records
    p,          \* CPlatformRuntime
    c,          \* CServiceBorrowClient and the consumer around it
    out,        \* the consumer's outbox lanes, read by the Host's drain
    drain,      \* what the Host's last drain of the consumer established
    turn,       \* the next step of the Host turn: drain, pump or service
    disturbed   \* disturbances so far

vars == <<h, p, c, out, drain, turn, disturbed>>

NoUse ==
    [live |-> FALSE, closing |-> FALSE, ready |-> FALSE, borrow |-> FALSE, started |-> FALSE,
     expired |-> FALSE, quiescence |-> "none"]

NoClientRecord ==
    [live |-> FALSE, kind |-> "none", of |-> 0, acknowledged |-> FALSE, seen_prepared |-> FALSE,
     seen_terminal |-> FALSE, never_published |-> FALSE, closing |-> FALSE, quiescent |-> FALSE,
     retired |-> FALSE, borrow |-> FALSE, view |-> FALSE, waiting |-> FALSE, registered |-> FALSE]

NotDrained == [terminal_before |-> FALSE, drained |-> FALSE]

Init ==
    /\ \E e \in Executions : h = HostInit(e = "threaded")
    /\ p = [window |-> 0, window_closing |-> FALSE, stopping |-> FALSE, begun |-> FALSE,
            failed |-> FALSE, broken |-> FALSE, skipped |-> FALSE,
            use |-> [r \in Requests |-> NoUse],
            completion |-> [r \in Requests |-> "free"]]
    /\ c = [rec |-> [r \in Requests |-> NoClientRecord], next |-> 1, refused |-> FALSE,
            using |-> [r \in Requests |-> FALSE], route |-> "open",
            said |-> [r \in Requests |-> FALSE]]
    /\ out = [control |-> <<>>, pod |-> <<>>]
    /\ drain = NotDrained
    /\ turn = "drain"
    /\ disturbed = 0

Disturb == disturbed < Disturbances /\ disturbed' = disturbed + 1

-----------------------------------------------------------------------------
(* The provider.  s is a pair [h, p]: the calls of the pump context reach  *)
(* the router directly.                                                    *)

CompleteSlot(s, r, ok) ==
    IF s.p.completion[r] = "live"
    THEN [s EXCEPT !.p.completion[r] = IF ok THEN "ok" ELSE "failed"] ELSE s

CloseWindow(s) == [s EXCEPT !.p.window_closing = @ \/ s.p.window # 0]

NativeFailure(s) ==
    CloseWindow([s EXCEPT !.p = [@ EXCEPT !.failed = TRUE, !.stopping = TRUE]])

(* close_use: the controller's use takes the window with it.               *)
CloseUse(s, r) ==
    LET marked == [s EXCEPT !.p.use[r].closing = TRUE] IN
    CompleteSlot(IF ~s.p.use[r].closing /\ s.p.window = r THEN CloseWindow(marked) ELSE marked,
                 r, FALSE)

FlushOne(s, r) ==
    IF s.p.completion[r] \notin {"ok", "failed"} THEN s
    ELSE IF CompleteStatus(s.h, r) # "success" THEN NativeFailure(s)
    ELSE [s EXCEPT !.h = Complete(s.h, r, s.p.completion[r] = "ok"), !.p.completion[r] = "free"]

FlushCompletions(s) == ForEachRequest(FlushOne, s)

Message(s, m) ==
    LET use == s.p.use[m.r] IN
    IF ~use.live \/ (m.t # "cancelled" /\ ~use.borrow) THEN s
    ELSE LET closed == CloseUse(s, m.r) IN
         IF m.t = "consumer_quiescent"
         THEN [closed EXCEPT !.p.use[m.r].quiescence = m.quiescence] ELSE closed

(* The messages of a pump call, in turn.                                   *)
Told(s, messages) ==
    LET after[i \in 0..Len(messages)] == IF i = 0 THEN s ELSE Message(after[i - 1], messages[i])
    IN  after[Len(messages)]

(* The first half of progress_uses: close what must close, lend what may   *)
(* be lent.                                                                *)
OfferUse(s, r) ==
    LET use == s.p.use[r]
        closing == s.p.stopping \/ s.p.window_closing
        shut == IF closing THEN CloseUse(s, r) ELSE s
        status == PrepareStatus(shut.h, r)
    IN  IF shut.p.use[r].closing \/ use.ready THEN shut
        ELSE IF use.expired THEN CloseUse(shut, r)
        ELSE IF use.borrow \/ status = "busy" THEN shut
        ELSE IF status = "success"
        THEN [shut EXCEPT !.h = Prepare(shut.h, r), !.p.use[r].borrow = TRUE]
        ELSE CloseUse(shut, r)

(* The second half: start the retirement, and erase the use once the Host  *)
(* has said why nobody can be reading it.  A consumer that merely stopped  *)
(* executing does not release a window.                                    *)
RetireUse(s, r) ==
    LET use == s.p.use[r]
        begun == IF use.started \/ ~use.borrow THEN s
                 ELSE IF s.h.rec[r].live
                 THEN [s EXCEPT !.h = CloseBorrow(s.h, r), !.p.use[r].started = TRUE]
                 ELSE NativeFailure(s)
        cleanup == ~use.borrow \/ use.quiescence \in {"never_published", "relinquished"}
        erased == [begun EXCEPT !.p.use[r] = NoUse]
    IN  IF ~use.closing THEN s
        ELSE IF ~cleanup \/ begun.p.completion[r] # "free" THEN begun
        ELSE IF ~use.borrow THEN erased
        ELSE IF FinishRetirementStatus(begun.h, r) = "success"
        THEN [erased EXCEPT !.h = FinishRetirement(begun.h, r)]
        ELSE begun

ProgressUse(s, r) == IF s.p.use[r].live THEN RetireUse(OfferUse(s, r), r) ELSE s

ProgressUses(s) == ForEachRequest(ProgressUse, s)

(* progress_window: the native window is destroyed after its last use.     *)
ProgressWindow(s) ==
    IF s.p.window # 0 /\ s.p.window_closing /\ \A r \in Requests : ~s.p.use[r].live
    THEN [s EXCEPT !.p = [@ EXCEPT !.window = 0, !.window_closing = FALSE]] ELSE s

AcquireStatus(s, op) ==
    IF s.p.stopping THEN "closing"
    ELSE IF op.kind = "create" /\ s.p.window # 0 THEN "occupied"
    ELSE IF op.kind = "acquire" /\ (s.p.window = 0 \/ op.of # s.p.window) THEN "stale"
    ELSE IF op.kind = "acquire" /\ s.p.window_closing THEN "closing"
    ELSE "success"

(* acquire: the window is named by the request that created it.            *)
Acquire(s, r, created) ==
    LET used == [s EXCEPT !.p.use[r] = [NoUse EXCEPT !.live = TRUE]] IN
    IF s.h.op[r].kind = "acquire" THEN used
    ELSE LET titled == [used EXCEPT !.p.window = r] IN
         IF created THEN titled ELSE CloseUse(CloseWindow(titled), r)

ReadyStatus(s, use, of) ==
    IF ~use.live \/ ~use.borrow THEN "stale"
    ELSE IF use.closing \/ s.p.window_closing THEN "closing"
    ELSE IF use.ready THEN "success"
    ELSE IF use.expired THEN "timed_out"
    ELSE BindStatus(s.h, of)

Ready(s, r, of) ==
    LET status == ReadyStatus(s, s.p.use[of], of) IN
    IF status = "timed_out" THEN CompleteSlot(CloseUse(s, of), r, FALSE)
    ELSE IF status = "success"
    THEN CompleteSlot(CompleteSlot([s EXCEPT !.p.use[of].ready = TRUE], of, TRUE), r, TRUE)
    ELSE CompleteSlot(s, r, FALSE)

Command(s, r, created) ==
    LET op == s.h.op[r]
        reserved == [s EXCEPT !.p.completion[r] = "live"]
    IN  IF op.kind \in {"create", "acquire"}
        THEN IF AcquireStatus(s, op) = "success" THEN Acquire(reserved, r, created)
             ELSE CompleteSlot(reserved, r, FALSE)
        ELSE IF s.p.stopping THEN CompleteSlot(reserved, r, FALSE)
        ELSE Ready(reserved, r, op.of)

Stopped(s) ==
    /\ s.p.stopping /\ s.p.window = 0
    /\ \A r \in Requests : ~s.p.use[r].live /\ s.p.completion[r] = "free"

BeginStop(s) ==
    ProgressWindow(FlushCompletions(ProgressUses(CloseWindow([s EXCEPT !.p.stopping = TRUE]))))

(* CPlatformRuntime::pump: the native dispatch comes before the commands   *)
(* in one pump and after them in the next, since it may use up the time    *)
(* the pump is given; a dispatch that fails stops the provider.  broken is *)
(* a history variable: it records that failure and no other.               *)
PumpBody(s, messages, commands, created, fails) ==
    LET Dispatched(x, when) ==
            IF fails = when THEN NativeFailure([x EXCEPT !.p.broken = TRUE]) ELSE x
        CommandOne(x, r) == IF r \in commands THEN Command(x, r, created) ELSE x
        heard == ProgressUses(Told(FlushCompletions(s), messages))
        commanded == ForEachRequest(CommandOne, Dispatched(heard, "first"))
        flushed == FlushCompletions(ProgressUses(commanded))
    IN  ProgressWindow(ProgressUses(Dispatched(flushed, "last")))

Prefixes(batch) == {{r \in batch : r <= last} : last \in 0..N}

(* A seeded fault: the native dispatch comes first in every pump.          *)
AlwaysDispatchFirst(s, batch) ==
    {consumed \in Prefixes(batch) : consumed = {} => batch = {} \/ s.p.window # 0}

(* How much of a batch the pump consumes before its time is used up: a     *)
(* prefix, and none of it only after a dispatch that came first.  Of       *)
(* m_native_first, which alternates, only what matters is kept: no two     *)
(* pumps in a row take nothing of what they are offered.                   *)
Consumable(s, batch) ==
    {consumed \in Prefixes(batch) :
        consumed = {} => batch = {} \/ (s.p.window # 0 /\ ~s.p.skipped)}

(* CPumpedClient::observe.                                                 *)
Observe(s) ==
    IF Stopped(s)
    THEN [s EXCEPT !.h = StopProvider([s.h EXCEPT !.phase = "stopped"], TRUE),
                   !.p.failed = @ \/ ~s.p.begun]
    ELSE IF s.p.stopping
    THEN [s EXCEPT !.h = [@ EXCEPT !.phase = "stopping", !.provider_stop = TRUE]]
    ELSE s

(* CPumpedClient::pump: begin_stop once a stop has been asked for, then    *)
(* one pump call over the prepared batch and the inbox.                    *)
Pump ==
    LET s0 == [h |-> h, p |-> p]
        s1 == IF ~h.provider_stop \/ p.begun THEN s0
              ELSE Observe(BeginStop([h |-> StopProvider(h, FALSE), p |-> [p EXCEPT !.begun = TRUE]]))
        batch == IF s1.h.provider_stop \/ s1.h.phase # "ready" THEN {} ELSE Batch(s1.h)
        messages == s1.h.provider_inbox
        Result(consumed, created, fails) ==
            LET s2 == PumpBody([s1 EXCEPT !.h = Offer(s1.h, batch)], messages, consumed,
                               created, fails)
            IN  Observe([s2 EXCEPT !.h =
                    [FinishBatch(s2.h, batch, consumed) EXCEPT !.provider_inbox = <<>>],
                              !.p.skipped = (consumed = {} /\ batch # {})])
        Take(s) == h' = s.h /\ p' = s.p
    IN  /\ turn = "pump" /\ turn' = "service"
        /\ IF h.phase = "stopped" THEN Take(s0) /\ UNCHANGED disturbed
           ELSE IF s1.h.phase = "stopped" THEN Take(s1) /\ UNCHANGED disturbed
           ELSE \E consumed \in Consumable(s1, batch), created \in BOOLEAN,
                   fails \in {"no", "first", "last"} :
                    /\ created \/ \E r \in consumed : s1.h.op[r].kind = "create"
                    /\ fails # "no" => p.window # 0
                    /\ IF created /\ fails = "no" THEN UNCHANGED disturbed ELSE Disturb
                    /\ Take(Result(consumed, created, fails))
        /\ UNCHANGED <<c, out, drain>>

(* The five seconds a consumer has to answer a prepared window run out.    *)
Expire(r) ==
    /\ Disturb
    /\ p.use[r].live /\ ~p.use[r].ready /\ ~p.use[r].closing /\ ~p.use[r].expired
    /\ p' = [p EXCEPT !.use[r].expired = TRUE]
    /\ UNCHANGED <<h, c, out, drain, turn>>

(* The Host asks the provider to stop (CPumpedClient::request_stop).       *)
RequestStop ==
    /\ Disturb
    /\ turn = "service" /\ ~h.provider_stop
    /\ h' = StopProvider([h EXCEPT !.provider_stop = TRUE, !.phase = "stopping"], FALSE)
    /\ UNCHANGED <<p, c, out, drain, turn>>

-----------------------------------------------------------------------------
(* The Host's drain of the consumer and its service turn.                  *)

Credits(m) == CASE m.t = "request" -> 2 [] m.t \in {"register", "close"} -> 1 [] OTHER -> 0

Received(g, m) ==
    CASE m.t = "request"   -> Request(g, m.r, m.kind, m.of)
      [] m.t = "register"  -> RegisterNotification(g, m.r)
      [] m.t = "close"     -> CloseRoute(g)
      [] m.t = "cancel"    -> CancelRequest(g, m.r)
      [] m.t = "release"   -> CloseBorrow(g, m.r)
      [] m.t = "quiescent" -> Quiesced(g, m.r)

(* One lane of a drain: messages are taken in order, each only with the    *)
(* credits its replies may need; the first that cannot be taken ends it.   *)
(* s is [h, left].                                                         *)
ReceiveOne(s) ==
    LET m == Head(s.left) IN
    IF s.left = <<>> \/ ~CanReserve(s.h, Credits(m)) THEN s
    ELSE [h |-> Received(Reserve(s.h, Credits(m)), m), left |-> Tail(s.left)]

DrainLane(g, messages) ==
    LET after[i \in 0..Len(messages)] ==
            IF i = 0 THEN [h |-> g, left |-> messages] ELSE ReceiveOne(after[i - 1])
    IN  after[Len(messages)]

(* The drain of a Host turn: the terminal state is sampled first, then the *)
(* control lane and the pod lane are read.                                 *)
Drain ==
    LET controls == DrainLane(h, out.control)
        pods == DrainLane(controls.h, out.pod)
    IN  /\ turn = "drain" /\ turn' = "pump"
        /\ h' = pods.h
        /\ out' = [control |-> controls.left, pod |-> pods.left]
        /\ drain' = [terminal_before |-> h.terminal,
                     drained |-> controls.left = <<>> /\ pods.left = <<>>]
        /\ UNCHANGED <<p, c, disturbed>>

(* execution_quiescent: a client seen terminal before its last drain, with *)
(* no batch of its own outstanding, has nobody left to read a view.        *)
ExecutionQuiescent == drain.terminal_before /\ \A r \in Requests : ~c.using[r]

(* The end of the turn: retire a client whose last messages are in, then   *)
(* let the router send what it owes.                                       *)
ServiceTurn ==
    LET retired == IF h.terminal /\ drain.drained THEN RetireClient(h, ExecutionQuiescent) ELSE h
    IN  /\ turn = "service" /\ turn' = "drain"
        /\ h' = RouterProgress(retired)
        /\ drain' = NotDrained
        /\ UNCHANGED <<p, c, out, disturbed>>

-----------------------------------------------------------------------------
(* The consumer.                                                           *)

Running == ~h.terminal

Send(lane, m) ==
    out' = [out EXCEPT ![IF h.threaded THEN "pod" ELSE lane] = Append(@, m)]

(* begin and the post of the request.  ready names a borrow whose          *)
(* notification is registered; acquire names a window seen in a view.      *)
Begin(kind, of) ==
    LET r == c.next IN
    /\ Running /\ r \in Requests /\ c.route = "open"
    /\ kind # "create" => c.rec[of].live /\ c.rec[of].view
    /\ kind = "acquire" => c.rec[of].kind = "create"
    /\ kind = "ready" => c.rec[of].registered
    /\ IF kind # "ready" /\ r > 1 THEN Disturb ELSE UNCHANGED disturbed
    /\ c' = [c EXCEPT !.next = r + 1,
                      !.rec[r] = [NoClientRecord EXCEPT !.live = TRUE, !.kind = kind, !.of = of]]
    /\ Send("pod", [t |-> "request", r |-> r, kind |-> kind, of |-> of])
    /\ UNCHANGED <<h, p, drain, turn>>

ClearView(rec) == [rec EXCEPT !.closing = TRUE, !.view = FALSE]

(* observe, for each of the messages the Host sends.  Accepts says whether *)
(* the client recognises the message, Observed what it then records.       *)
Accepts(rec, m) ==
    CASE m.t = "acknowledged" -> rec.live /\ ~rec.acknowledged /\ ~rec.seen_terminal
      [] m.t = "prepared" -> rec.live /\ ~rec.seen_prepared /\ ~rec.seen_terminal /\ ~rec.never_published
      [] m.t = "completed" -> rec.live /\ ~rec.seen_terminal
      [] m.t = "registered" -> rec.live /\ rec.borrow /\ rec.waiting
      [] m.t = "closed" -> c.route = "closing"
      [] OTHER ->
            IF ~rec.live THEN m.quiescence = "never_published"
            ELSE /\ ~(m.quiescence = "never_published" /\ rec.seen_prepared)
                 /\ m.t = "retired" => rec.quiescent \/ m.quiescence = "never_published"

Observed(rec, m) ==
    CASE m.t = "acknowledged" -> [rec EXCEPT !.acknowledged = TRUE]
      [] m.t = "prepared" -> [rec EXCEPT !.seen_prepared = TRUE, !.borrow = TRUE, !.view = ~rec.closing]
      [] m.t = "completed" ->
            LET seen == [rec EXCEPT !.seen_terminal = TRUE] IN IF m.ok THEN seen ELSE ClearView(seen)
      [] m.t = "registered" ->
            [rec EXCEPT !.waiting = FALSE, !.registered = @ \/ (m.ok /\ ~rec.closing)]
      [] OTHER ->
            IF ~rec.live THEN rec
            ELSE [ClearView(rec) EXCEPT !.borrow = TRUE, !.retired = @ \/ m.t = "retired",
                                        !.never_published = m.quiescence = "never_published"]

(* A pumped client is given its controls before its replies.               *)
Hear ==
    LET lane == IF h.control # <<>> THEN "control" ELSE "reply"
        m == Head(h[lane])
    IN  /\ Running /\ h[lane] # <<>>
        /\ h' = [h EXCEPT ![lane] = Tail(@)]
        /\ c' = IF m.t = "closed"
                THEN [c EXCEPT !.refused = @ \/ c.route # "closing",
                               !.route = IF m.ok THEN "none" ELSE "open"]
                ELSE IF Accepts(c.rec[m.r], m)
                THEN [c EXCEPT !.rec[m.r] = Observed(@, m)]
                ELSE [c EXCEPT !.refused = TRUE]
        /\ UNCHANGED <<p, out, drain, turn, disturbed>>

RequestNotification(r) ==
    LET rec == c.rec[r] IN
    /\ Running /\ rec.live /\ rec.seen_prepared /\ ~rec.closing /\ ~rec.waiting /\ ~rec.registered
    /\ c' = [c EXCEPT !.rec[r].waiting = TRUE]
    /\ Send("pod", [t |-> "register", r |-> r])
    /\ UNCHANGED <<h, p, drain, turn, disturbed>>

(* release, cancel and quiesce may be called in any order, one after       *)
(* another and after the Host has said that the borrow closes.  said is a  *)
(* history of the consumer's own words, for the bound alone: the first is  *)
(* free, another withdrawal or another quiescence is a disturbance.        *)
Withdraw(r, rec, word, again) ==
    /\ IF again THEN Disturb ELSE UNCHANGED disturbed
    /\ c' = [c EXCEPT !.rec[r] = rec, !.said[r] = TRUE]
    /\ Send("control", [t |-> word, r |-> r])
    /\ UNCHANGED <<h, p, drain, turn>>

Release(r) ==
    /\ Running /\ c.rec[r].live /\ c.rec[r].borrow /\ ~c.rec[r].retired
    /\ Withdraw(r, ClearView(c.rec[r]), "release", c.said[r])

CancelWait(r) ==
    /\ Running /\ c.rec[r].live /\ c.rec[r].acknowledged /\ ~c.rec[r].seen_terminal
    /\ Withdraw(r, ClearView(c.rec[r]), "cancel", c.said[r])

(* The consumer promises that nothing of it reads the view any more.       *)
Quiesce(r) ==
    LET rec == c.rec[r] IN
    /\ Running /\ rec.live /\ rec.borrow /\ rec.closing /\ ~rec.retired
    /\ rec.seen_prepared \/ rec.never_published
    /\ ~c.using[r]
    /\ Withdraw(r, [ClearView(rec) EXCEPT !.quiescent = TRUE], "quiescent", rec.quiescent)

(* A seeded fault: a record is dropped while a registration is awaited.    *)
ForgetsAwaited(rec) == rec.seen_terminal /\ (rec.borrow => rec.retired)

Forgettable(rec) == rec.seen_terminal /\ ~rec.waiting /\ (rec.borrow => rec.retired)

Forget(r) ==
    /\ Running /\ c.rec[r].live /\ Forgettable(c.rec[r])
    /\ c' = [c EXCEPT !.rec[r] = NoClientRecord]
    /\ UNCHANGED <<h, p, out, drain, turn, disturbed>>

CloseService ==
    /\ Running /\ c.route = "open" /\ c.next > 1 /\ \A r \in Requests : ~c.rec[r].live
    /\ c' = [c EXCEPT !.route = "closing"]
    /\ Send("pod", [t |-> "close", r |-> 0])
    /\ UNCHANGED <<h, p, drain, turn, disturbed>>

(* The consumer, or a batch it submitted, reads through the view.          *)
BeginUse(r) ==
    /\ Running /\ c.rec[r].live /\ c.rec[r].view /\ ~c.using[r]
    /\ c' = [c EXCEPT !.using[r] = TRUE]
    /\ UNCHANGED <<h, p, out, drain, turn, disturbed>>

EndUse(r) ==
    /\ c.using[r]
    /\ c' = [c EXCEPT !.using[r] = FALSE]
    /\ UNCHANGED <<h, p, out, drain, turn, disturbed>>

(* The Host asks the client to stop; the client exits, or fails, at any    *)
(* time and in any state.  Its records and inbox go with it, what it has   *)
(* posted stays for the Host, and its batches finish on their own.         *)
StopClient ==
    /\ Disturb
    /\ turn = "service" /\ ~h.stop /\ Running
    /\ h' = [h EXCEPT !.stop = TRUE]
    /\ UNCHANGED <<p, c, out, drain, turn>>

Exit ==
    /\ Running
    /\ h' = [h EXCEPT !.terminal = TRUE, !.control = <<>>, !.reply = <<>>]
    /\ \E batch \in IF h.threaded THEN BOOLEAN ELSE {FALSE} :
           c' = [c EXCEPT !.using = [r \in Requests |-> batch /\ @[r]],
                          !.rec = [r \in Requests |-> NoClientRecord]]
    /\ UNCHANGED <<p, out, drain, turn, disturbed>>

-----------------------------------------------------------------------------
HostStep == Drain \/ Pump \/ ServiceTurn \/ RequestStop \/ StopClient

ConsumerStep ==
    \/ \E kind \in Kinds[IF h.threaded THEN "threaded" ELSE "pumped"], of \in Requests :
           (kind = "create" => of = 1) /\ Begin(kind, of)
    \/ Hear
    \/ \E r \in Requests : RequestNotification(r) \/ Release(r) \/ CancelWait(r) \/ Quiesce(r) \/ Forget(r)
    \/ CloseService
    \/ \E r \in Requests : BeginUse(r) \/ EndUse(r)
    \/ Exit

Next ==
    \/ HostStep
    \/ \E r \in Requests : Expire(r)
    \/ ConsumerStep

Spec == Init /\ [][Next]_vars

(* The Host keeps taking turns (a step of the turn is always possible, so  *)
(* fairness can be stated of turn alone); a consumer that is still running *)
(* reads its inbox, finishes its reads and answers a closing borrow; a     *)
(* batch that outlives its thread finishes too.                            *)
TurnAdvances ==
    turn' = CASE turn = "drain" -> "pump" [] turn = "pump" -> "service" [] turn = "service" -> "drain"

FairSpec ==
    /\ Spec
    /\ WF_turn(TurnAdvances)
    /\ WF_vars(Hear)
    /\ \A r \in Requests : WF_vars(EndUse(r)) /\ WF_vars(Quiesce(r))

-----------------------------------------------------------------------------
TypeOK ==
    /\ h.route \in {"none", "open", "closing"} /\ h.last \in 0..N /\ h.reserved \in Nat
    /\ h.phase \in {"ready", "stopping", "stopped"}
    /\ \A r \in Requests : h.rec[r].quiescence \in Quiescence /\ p.use[r].quiescence \in Quiescence
    /\ p.window \in 0..N
    /\ \A r \in Requests : p.completion[r] \in {"free", "live", "ok", "failed"}
    /\ c.next \in 1..(N + 1) /\ c.route \in {"none", "open", "closing"}
    /\ turn \in {"drain", "pump", "service"} /\ disturbed \in 0..Disturbances

(* While the consumer, or a batch it left behind, reads through a view,    *)
(* the provider's use, the native window and the Host's record (with the   *)
(* notification state it holds) all exist: retirement needs the consumer's *)
(* own word, or proof that nothing of it executes.                         *)
BorrowOutlivesUse ==
    \A r \in Requests : c.using[r] => p.use[r].live /\ p.window # 0 /\ h.rec[r].live

(* Whatever the order of cancels, releases, timeouts, stops and exits, the *)
(* consumer never meets a message it refuses, the router never fails, and  *)
(* the provider fails only when its native side did.                       *)
ProtocolRespected ==
    /\ ~c.refused
    /\ ~h.failed
    /\ p.failed => p.broken

(* The reserved credits are exactly one for each operation whose result is *)
(* still to come and one for each borrow whose view is; with the replies   *)
(* already queued they fit the inbox of a pumped client.                   *)
CreditsExact ==
    /\ h.reserved = Cardinality({r \in Requests : h.op[r].live /\ ~h.op[r].terminal_sent})
                    + Cardinality({r \in Requests : h.rec[r].live /\ ~h.rec[r].settled})
    /\ h.threaded \/ Len(h.reply) + h.reserved <= ReplyCapacity

(* Borrows that have begun to close are retired on both sides, unless the  *)
(* consumer died holding one: that window is deliberately kept.            *)
ClosingBorrows ==
    {r \in Requests : h.rec[r].live /\ h.rec[r].closing /\ h.rec[r].quiescence # "execution_ended"}

ClosingBorrowsRetire == ClosingBorrows # {} ~> ClosingBorrows = {}

(* The requests of a running consumer all get their terminal reply, from   *)
(* the provider, a timeout, a cancellation or the provider's stop, or have *)
(* been lent the window and are the consumer's to answer; if the consumer  *)
(* then withdraws, the reply still comes.                                  *)
Unanswered == {r \in Requests : Running /\ c.rec[r].live /\ ~c.rec[r].seen_terminal /\ ~c.rec[r].view}

EveryRequestAnswered == Unanswered # {} ~> Unanswered = {}

=============================================================================
