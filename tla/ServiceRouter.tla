--------------------------- MODULE ServiceRouter ---------------------------
(***************************************************************************)
(* The Host's side of the service protocol: CServiceRouter (correlated     *)
(* operations), CServiceBorrows (publication and retirement of a resource  *)
(* a provider lends) and the reply credits of SClientRecord, for one       *)
(* consumer, one provider and one open route.                              *)
(*                                                                         *)
(* All of this state belongs to the Host thread, so every C++ method is an *)
(* operator from one Host state h to the next; ServiceBorrow.tla composes  *)
(* them with the provider and the consumer.                                *)
(*                                                                         *)
(* A request id is never reused on a route, and an operation prepares at   *)
(* most one borrow, so the id also names the operation and the borrow.     *)
(***************************************************************************)
EXTENDS Naturals, Sequences

CONSTANTS
    N,                  \* request ids are 1..N
    ControlCapacity,    \* k_control_capacity, of a pumped client and of the provider
    ReplyCapacity       \* k_reply_capacity of a pumped client

Requests == 1..N

Quiescence == {"none", "never_published", "relinquished", "execution_ended"}

NoOperation ==
    [live |-> FALSE, kind |-> "none", of |-> 0, offered |-> FALSE, delivered |-> FALSE,
     completed |-> FALSE, ok |-> FALSE, cancelled |-> FALSE, cancellation_notified |-> FALSE,
     terminal_sent |-> FALSE, borrow |-> FALSE]

NoRecord ==
    [live |-> FALSE, dispatched |-> FALSE, settled |-> FALSE, published |-> FALSE,
     closing |-> FALSE, client_notified |-> FALSE, provider_notified |-> FALSE,
     quiescence_notified |-> FALSE, finished |-> FALSE, quiescence |-> "none",
     registered |-> FALSE]

(* The Host's state at the moment the route has just been opened.          *)
HostInit(threaded) ==
    [threaded |-> threaded, terminal |-> FALSE, stop |-> FALSE,
     route |-> "open", last |-> 0, failed |-> FALSE, reserved |-> 0,
     op |-> [r \in Requests |-> NoOperation], rec |-> [r \in Requests |-> NoRecord],
     control |-> <<>>, reply |-> <<>>,          \* the client's inbox lanes
     phase |-> "ready", provider_stop |-> FALSE, provider_inbox |-> <<>>]

(* The router's and the provider's loops over their tables visit the       *)
(* entries in the order in which they were admitted, that of their ids.    *)
ForEachRequest(F(_, _), h) ==
    LET after[r \in 0..N] == IF r = 0 THEN h ELSE F(after[r - 1], r) IN after[N]

-----------------------------------------------------------------------------
(* Reply credits and inbox delivery (SClientRecord).                       *)

(* reserve_replies: a threaded client's inbox grows, a pumped client's     *)
(* reserved replies and queued replies share k_reply_capacity.             *)
CanReserve(h, n) == h.threaded \/ Len(h.reply) + h.reserved + n <= ReplyCapacity

Reserve(h, n) == [h EXCEPT !.reserved = @ + n]

CancelReservation(h, n) == [h EXCEPT !.reserved = @ - n]

(* post: controls have a lane of their own only for a pumped client.       *)
CanPost(h) == ~h.terminal /\ (h.threaded \/ Len(h.control) < ControlCapacity)

Post(h, m) == IF h.threaded THEN [h EXCEPT !.reply = Append(@, m)]
                            ELSE [h EXCEPT !.control = Append(@, m)]

CanPostReply(h) == ~h.terminal /\ CanReserve(h, 1)

PostReply(h, m) == [h EXCEPT !.reply = Append(@, m)]

(* reply: spends a credit, and reports failure to the router's m_failed.   *)
Reply(h, m) ==
    LET g == [h EXCEPT !.reserved = IF @ > 0 THEN @ - 1 ELSE 0] IN
    IF g.terminal THEN g
    ELSE IF CanPostReply(g) THEN PostReply(g, m)
    ELSE [g EXCEPT !.failed = TRUE]

(* SClientRecord::post to the provider, a pumped client.                   *)
CanPostProvider(h) == h.phase # "stopped" /\ Len(h.provider_inbox) < ControlCapacity

PostProvider(h, m) == [h EXCEPT !.provider_inbox = Append(@, m)]

-----------------------------------------------------------------------------
(* Borrow records (CServiceBorrows).                                       *)

(* Seeded faults of CloseBorrow: a closed borrow counts as never           *)
(* published; the credit of an unpublished view is kept.                   *)
AlwaysUnpublished(h, r) ==
    IF ~h.rec[r].live THEN h
    ELSE [h EXCEPT !.reserved = IF h.rec[r].settled THEN @ ELSE @ - 1,
                   !.rec[r] = [@ EXCEPT !.closing = TRUE, !.settled = TRUE,
                                        !.quiescence = IF @ = "none" THEN "never_published" ELSE @]]

LeakedCredit(h, r) ==
    IF ~h.rec[r].live THEN h
    ELSE IF h.rec[r].settled THEN [h EXCEPT !.rec[r].closing = TRUE]
    ELSE [h EXCEPT !.rec[r] = [@ EXCEPT !.closing = TRUE, !.settled = TRUE,
                                        !.quiescence = "never_published"]]

CloseBorrow(h, r) ==
    IF ~h.rec[r].live THEN h
    ELSE IF h.rec[r].settled THEN [h EXCEPT !.rec[r].closing = TRUE]
    ELSE [CancelReservation(h, 1) EXCEPT
             !.rec[r] = [@ EXCEPT !.closing = TRUE, !.settled = TRUE,
                                  !.quiescence = "never_published"]]

(* prepare_borrow and CServiceBorrows::prepare: the status it returns ...  *)
PrepareStatus(h, r) ==
    LET op == h.op[r] IN
    IF h.route = "none" \/ ~op.live \/ ~(op.offered \/ op.delivered) THEN "stale"
    ELSE IF op.cancelled \/ h.route = "closing" \/ h.terminal THEN "closing"
    ELSE IF op.completed \/ op.borrow THEN "invalid_request"
    ELSE IF h.stop \/ h.provider_stop THEN "closing"
    ELSE IF ~CanReserve(h, 1) THEN "busy"
    ELSE "success"

(* ... and the record and credit it leaves when that status is success.    *)
Prepare(h, r) ==
    [Reserve(h, 1) EXCEPT
        !.rec[r] = [NoRecord EXCEPT !.live = TRUE, !.dispatched = h.op[r].delivered],
        !.op[r].borrow = TRUE]

FinishRetirementStatus(h, r) ==
    IF ~h.rec[r].live THEN "stale"
    ELSE IF h.rec[r].closing /\ h.rec[r].quiescence_notified THEN "success" ELSE "busy"

FinishRetirement(h, r) == [h EXCEPT !.rec[r].finished = TRUE]

RegisterStatus(h, r) ==
    IF ~h.rec[r].live THEN "stale"
    ELSE IF h.rec[r].closing \/ h.terminal \/ h.stop THEN "closing"
    ELSE IF ~h.rec[r].published THEN "invalid_request"
    ELSE "success"

RegisterNotification(h, r) ==
    LET status == RegisterStatus(h, r) IN
    Reply(IF status = "success" THEN [h EXCEPT !.rec[r].registered = TRUE] ELSE h,
          [t |-> "registered", r |-> r, ok |-> status = "success"])

BindStatus(h, r) ==
    IF ~h.rec[r].live \/ ~h.rec[r].registered THEN "stale"
    ELSE IF h.rec[r].closing \/ h.terminal \/ h.stop THEN "closing"
    ELSE "success"

Quiesced(h, r) ==
    LET rec == h.rec[r] IN
    IF rec.live /\ rec.closing /\ rec.published /\ rec.quiescence = "none"
    THEN [h EXCEPT !.rec[r].quiescence = "relinquished"] ELSE h

BorrowsRetired(h) == \A r \in Requests : h.rec[r].live => h.rec[r].finished

-----------------------------------------------------------------------------
(* Operations (CServiceRouter).                                            *)

FailOperation(h, r) ==
    [h EXCEPT !.op[r] = [@ EXCEPT !.ok = FALSE, !.completed = TRUE, !.delivered = TRUE]]

Cancel(h, r) ==
    IF ~h.op[r].live \/ (h.op[r].completed /\ h.op[r].delivered) THEN h
    ELSE LET marked == [h EXCEPT !.op[r].cancelled = TRUE]
             closed == IF h.op[r].borrow THEN CloseBorrow(marked, r) ELSE marked
         IN  IF h.op[r].delivered \/ h.op[r].offered THEN closed ELSE FailOperation(closed, r)

CancelRequest(h, r) == IF h.route = "none" THEN h ELSE Cancel(CloseBorrow(h, r), r)

RouteIdle(h) == \A r \in Requests : ~h.op[r].live /\ ~h.rec[r].live

(* request: the acknowledgement spends one of the two credits; a refusal   *)
(* spends the other, and an admitted operation keeps it for its result.    *)
Request(h, r, kind, of) ==
    LET acked == Reply(h, [t |-> "acknowledged", r |-> r]) IN
    IF acked.failed THEN CancelReservation(acked, 1)
    ELSE IF acked.route = "open" /\ r > acked.last /\ acked.phase = "ready" /\ ~acked.terminal
    THEN [acked EXCEPT !.last = r,
                       !.op[r] = [NoOperation EXCEPT !.live = TRUE, !.kind = kind, !.of = of]]
    ELSE Reply(acked, [t |-> "completed", r |-> r, ok |-> FALSE])

(* close: refused while an operation or a borrow of the route remains.     *)
CloseRoute(h) ==
    LET idle == h.route # "none" /\ RouteIdle(h) IN
    Reply(IF idle THEN [h EXCEPT !.route = "none"] ELSE h, [t |-> "closed", r |-> 0, ok |-> idle])

CompleteStatus(h, r) ==
    IF h.route = "none" \/ ~h.op[r].live \/ h.op[r].completed
       \/ ~(h.op[r].offered \/ h.op[r].delivered) THEN "stale" ELSE "success"

Complete(h, r, ok) ==
    LET done == [h EXCEPT !.op[r] = [@ EXCEPT !.completed = TRUE, !.ok = ok]] IN
    IF ~ok /\ h.op[r].borrow THEN CloseBorrow(done, r) ELSE done

(* prepare_batch: the operations that have not been delivered.             *)
Batch(h) ==
    {r \in Requests : h.op[r].live /\ ~h.op[r].delivered /\ ~h.op[r].completed /\ ~h.op[r].cancelled}

Offer(h, batch) ==
    [h EXCEPT !.op = [r \in Requests |-> [h.op[r] EXCEPT !.offered = @ \/ r \in batch]]]

(* finish_batch: the consumed prefix is delivered and its borrows may now  *)
(* be published.                                                           *)
FinishBatch(h, batch, consumed) ==
    [h EXCEPT
        !.op = [r \in Requests |->
                   [h.op[r] EXCEPT !.offered = FALSE, !.delivered = @ \/ r \in consumed]],
        !.rec = [r \in Requests |->
                   IF r \in consumed /\ h.op[r].borrow /\ h.rec[r].live
                   THEN [h.rec[r] EXCEPT !.dispatched = TRUE] ELSE h.rec[r]],
        !.failed = @ \/ \E r \in batch \ consumed : h.op[r].completed \/ h.op[r].borrow]

StopProvider(h, quiescent) ==
    LET closed == ForEachRequest(CloseBorrow, h)
        FailOne(g, r) ==
            IF g.op[r].live /\ ~(g.op[r].completed /\ g.op[r].delivered)
               /\ (quiescent \/ ~(g.op[r].delivered \/ g.op[r].offered))
            THEN FailOperation(g, r) ELSE g
        failed == ForEachRequest(FailOne, closed)
    IN  [failed EXCEPT !.route = IF @ = "none" THEN @ ELSE "closing",
                       !.failed = @ \/ (quiescent /\ ~BorrowsRetired(closed))]

RetireClient(h, execution_quiescent) ==
    LET EndOne(g, r) ==
            LET closed == CloseBorrow(g, r) IN
            IF closed.rec[r].live /\ execution_quiescent /\ closed.rec[r].quiescence = "none"
            THEN [closed EXCEPT !.rec[r].quiescence = "execution_ended"] ELSE closed
        ended == ForEachRequest(EndOne, h)
    IN  ForEachRequest(Cancel, [ended EXCEPT !.route = IF @ = "none" THEN @ ELSE "closing"])

-----------------------------------------------------------------------------
(* CServiceRouter::progress: borrows, then operations, then closing routes.*)

BorrowControl(h, r, control) ==
    [t |-> control, r |-> r, quiescence |-> h.rec[r].quiescence]

(* A prepared view is published once its request has been delivered.       *)
PublishBorrow(h, r) ==
    LET rec == h.rec[r]
        spent == CancelReservation(h, 1)
    IN  IF rec.settled \/ ~rec.dispatched THEN h
        ELSE IF h.terminal
        THEN [spent EXCEPT !.rec[r] = [@ EXCEPT !.settled = TRUE, !.closing = TRUE,
                                                !.quiescence = "never_published"]]
        ELSE IF CanPostReply(spent)
        THEN [PostReply(spent, [t |-> "prepared", r |-> r]) EXCEPT
                 !.rec[r] = [@ EXCEPT !.settled = TRUE, !.published = TRUE]]
        ELSE h

NotifyClientClosing(h, r) ==
    IF h.rec[r].client_notified THEN h
    ELSE IF h.terminal THEN [h EXCEPT !.rec[r].client_notified = TRUE]
    ELSE IF CanPost(h)
    THEN [Post(h, BorrowControl(h, r, "closing")) EXCEPT !.rec[r].client_notified = TRUE]
    ELSE h

NotifyProviderClosing(h, r) ==
    IF ~h.rec[r].provider_notified /\ CanPostProvider(h)
    THEN [PostProvider(h, BorrowControl(h, r, "closing")) EXCEPT !.rec[r].provider_notified = TRUE]
    ELSE h

(* A seeded fault: a post the provider's full inbox refused counts as sent.*)
UnretriedQuiescence(h, r) ==
    IF h.rec[r].quiescence_notified \/ h.rec[r].quiescence = "none" THEN h
    ELSE IF ~CanPostProvider(h) THEN [h EXCEPT !.rec[r].quiescence_notified = TRUE]
    ELSE [PostProvider(h, BorrowControl(h, r, "consumer_quiescent")) EXCEPT
             !.rec[r].quiescence_notified = TRUE]

NotifyQuiescence(h, r) ==
    IF /\ h.rec[r].provider_notified /\ ~h.rec[r].quiescence_notified
       /\ h.rec[r].quiescence # "none" /\ CanPostProvider(h)
    THEN [PostProvider(h, BorrowControl(h, r, "consumer_quiescent")) EXCEPT
             !.rec[r].quiescence_notified = TRUE]
    ELSE h

EraseBorrow(h, r) ==
    IF h.rec[r].finished /\ h.rec[r].client_notified /\ (h.terminal \/ CanPost(h))
    THEN [(IF h.terminal THEN h ELSE Post(h, BorrowControl(h, r, "retired"))) EXCEPT
             !.rec[r] = NoRecord]
    ELSE h

ProgressBorrow(h, r) ==
    IF ~h.rec[r].live THEN h
    ELSE LET published == PublishBorrow(h, r) IN
         IF ~published.rec[r].closing THEN published
         ELSE EraseBorrow(NotifyQuiescence(NotifyProviderClosing(
                  NotifyClientClosing(published, r), r), r), r)

PublicationSettled(h, r) == ~h.op[r].borrow \/ ~h.rec[r].live \/ h.rec[r].settled

ProgressOperation(h, r) ==
    LET op == h.op[r]
        told == IF op.cancelled /\ op.delivered /\ ~op.completed /\ ~op.cancellation_notified
                   /\ CanPostProvider(h)
                THEN [PostProvider(h, [t |-> "cancelled", r |-> r, quiescence |-> "none"]) EXCEPT
                         !.op[r].cancellation_notified = TRUE]
                ELSE h
        settled == PublicationSettled(h, r)
        spent == [told EXCEPT !.reserved = IF @ > 0 THEN @ - 1 ELSE 0]
        result == [t |-> "completed", r |-> r, ok |-> op.ok /\ ~op.cancelled]
        sent == IF op.terminal_sent THEN told                           \* retry_reply
                ELSE IF h.terminal THEN [spent EXCEPT !.op[r].terminal_sent = TRUE]
                ELSE IF CanPostReply(spent)
                THEN [PostReply(spent, result) EXCEPT !.op[r].terminal_sent = TRUE]
                ELSE told
    IN  IF ~op.live THEN h
        ELSE IF ~op.delivered \/ ~(op.completed \/ op.cancelled) \/ ~settled THEN told
        ELSE IF sent.op[r].terminal_sent /\ op.completed
        THEN [sent EXCEPT !.op[r] = NoOperation]
        ELSE sent

ProgressRoute(h) ==
    IF h.route = "closing" /\ RouteIdle(h) THEN [h EXCEPT !.route = "none"] ELSE h

RouterProgress(h) ==
    ProgressRoute(ForEachRequest(ProgressOperation, ForEachRequest(ProgressBorrow, h)))

=============================================================================
