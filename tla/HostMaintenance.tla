-------------------------- MODULE HostMaintenance --------------------------
(***************************************************************************)
(* CHostMaintenance: while a pumped module sits in a native modal loop the *)
(* Host thread is inside that module's pump call.  The module calls back   *)
(* into the Host, which captures what the clients and workers have posted  *)
(* without processing it, and replies that fall due to the module itself   *)
(* are staged beside its inbox.  When the call returns, everything held is *)
(* replayed in the order it was accepted, one entry at a time.             *)
(*                                                                         *)
(* One pumped client is modelled with its two inbox lanes, its credits     *)
(* (SClientRecord) and its pump frames (CPumpedClient); the sources are    *)
(* its own control, pod and owner queues, the pod queue of a threaded      *)
(* client and the result queue of a worker.                                *)
(***************************************************************************)
EXTENDS Naturals, Sequences, FiniteSets, SequencesExt

CONSTANTS
    Sources,            \* the queues that are posted to
    CaptureCapacity,    \* slots of each capture class (128, 128, 32; 32, 32)
    DeliveryCapacity,   \* slots for staged deliveries (64)
    ReplyCapacity,      \* k_reply_capacity
    ControlCapacity,    \* k_control_capacity
    MaxPosts            \* bound: messages posted to one source

ASSUME MaintenanceAssumption ==
    ReplyCapacity \in Nat /\ ControlCapacity \in Nat /\ MaxPosts \in Nat

VARIABLES
    box,        \* source -> what has been posted to it and not yet taken
    posted,     \* source -> how many messages have been posted
    got,        \* source -> the last message the Host processed in order (0: out of order)
    held,       \* captured messages and staged deliveries, by sequence number
    frame,      \* the pump call in progress, with the inbox prefix it was offered,
                \* or the entry the replay attempts next (0: none)
    cl          \* the pumped client's record

maintenance == <<box, posted, got, held, frame, cl>>

Lanes == {"control", "reply"}

Pumped == {"control", "pod", "owner"}       \* queues of the pumped client itself

Capacity == [l \in Lanes |-> IF l = "control" THEN ControlCapacity ELSE ReplyCapacity]

(* The lane the replies to a source's messages travel in.                  *)
ReplyLane(src) == IF src = "control" THEN "control" ELSE "reply"

NoFrame == [on |-> FALSE, restricted |-> FALSE, offered |-> [l \in Lanes |-> 0], replay |-> 0]

InTurn == ~frame.on /\ frame.replay = 0

MaintenanceInit ==
    /\ box = [s \in Sources |-> <<>>]
    /\ posted = [s \in Sources |-> 0]
    /\ got = [s \in Sources |-> 0]
    /\ held = <<>>
    /\ frame = NoFrame
    /\ cl = [inbox |-> [l \in Lanes |-> 0], reserved |-> [l \in Lanes |-> 0],
             owed |-> [l \in Lanes |-> 0], staged |-> [l \in Lanes |-> 0],
             phase |-> "ready", prefix_failed |-> FALSE]

-----------------------------------------------------------------------------
(* The client record.  s is the Host's state [cl, held, on, got].          *)

Terminal(c) == c.phase = "stopped"

Protected(s) == s.on \/ (s.cl.prefix_failed /\ ~Terminal(s.cl))

(* A seeded fault: credits already promised are not counted.               *)
CountsInboxOnly(c, lane, n) == c.inbox[lane] + n <= Capacity[lane]

CanReserve(c, lane, n) == c.inbox[lane] + c.reserved[lane] + n <= Capacity[lane]

Reserve(c, lane, n) == [c EXCEPT !.reserved[lane] = @ + n]

Release(c, lane, n) == [c EXCEPT !.reserved[lane] = @ - n]

Owe(c, lane, n) == [c EXCEPT !.owed[lane] = @ + n]

Answered(c, lane) == [c EXCEPT !.owed[lane] = @ - 1]

(* post and post_reply outside a frame; a terminal client takes nothing.   *)
CanDeliver(c, lane) == ~Terminal(c) /\ CanReserve(c, lane, 1)

Deliver(c, lane) == [c EXCEPT !.inbox[lane] = @ + 1]

(* A staged delivery needs a slot, and a credit: the one reserved for it,  *)
(* unless every reserved credit already stands behind a staged delivery.   *)
NeedsCredit(c, lane, reserved) == ~reserved \/ c.reserved[lane] <= c.staged[lane]

Deliveries(h) == SelectSeq(h, LAMBDA e : e.t = "delivery")

CanStage(s, lane, reserved) ==
    /\ Len(Deliveries(s.held)) < DeliveryCapacity
    /\ NeedsCredit(s.cl, lane, reserved) => CanReserve(s.cl, lane, 1)

Staged(c, lane) == [c EXCEPT !.staged[lane] = @ + 1]

Delivery(lane) == [t |-> "delivery", lane |-> lane]

Stage(s, lane, reserved) ==
    [s EXCEPT !.cl = Staged(IF NeedsCredit(@, lane, reserved) THEN Reserve(@, lane, 1) ELSE @, lane),
              !.held = Append(@, Delivery(lane))]

(* reply, reply_control and retry_reply for one owed reply.  A reply that  *)
(* cannot be sent stays owed: its credit is put back.                      *)
SendReply(s, lane) ==
    LET counted == [s EXCEPT !.cl = Answered(@, lane)]
    IN  IF Protected(s) THEN IF CanStage(s, lane, TRUE) THEN Stage(counted, lane, TRUE) ELSE s
        ELSE IF Terminal(s.cl) THEN [counted EXCEPT !.cl = Release(@, lane, 1)]
        ELSE [counted EXCEPT !.cl = Deliver(Release(@, lane, 1), lane)]

-----------------------------------------------------------------------------
(* What the Host does with a message: a request that has k replies keeps k *)
(* credits; of two replies the acknowledgement is sent at once.            *)

Heard(g, src, m) == [g EXCEPT ![src] = IF m.n = @ + 1 THEN m.n ELSE 0]

Process(s, src, m) ==
    LET heard == [s EXCEPT !.got = Heard(@, src, m)]
        lane == ReplyLane(src)
        owing == [heard EXCEPT !.cl = Owe(@, lane, m.k)]
    IN  IF src \notin Pumped THEN heard
        ELSE IF m.k = 2 THEN SendReply(owing, lane) ELSE owing

(* The replies a message may ask for: a release or a cancellation asks for *)
(* none, whichever of the two lanes it comes through.                      *)
Replies(src) ==
    CASE src = "control" -> {0, 1}
      [] src = "pod" -> {0, 1, 2}
      [] src = "owner" -> {1, 2}
      [] OTHER -> {0}

(* Credits a capture takes before it knows how many replies are needed; a  *)
(* control is looked at first, and a drain of the pumped client looks at   *)
(* its pods too.                                                           *)
CaptureCredits(src, m) == IF src = "control" THEN m.k ELSE IF src \in Pumped THEN 2 ELSE 0

Taken(c, src, credits, k) ==
    IF src \in Pumped THEN Release(Reserve(c, ReplyLane(src), credits), ReplyLane(src), credits - k)
    ELSE c

-----------------------------------------------------------------------------
(* The sources.  The pumped client posts from inside its pump call.        *)

Post(src, k) ==
    /\ posted[src] < MaxPosts
    /\ src \in Pumped => frame.on /\ ~Terminal(cl)
    /\ k \in Replies(src)
    /\ posted' = [posted EXCEPT ![src] = @ + 1]
    /\ box' = [box EXCEPT ![src] = Append(@, [n |-> posted[src] + 1, k |-> k])]
    /\ UNCHANGED <<got, held, frame, cl>>

(* A drain of the Host turn takes one message; a client with captured      *)
(* messages outstanding is passed over.                                    *)
Captured(src) ==
    \E i \in DOMAIN held :
        held[i].t = "capture" /\ (held[i].src = src \/ {held[i].src, src} \subseteq Pumped)

Drain(src) ==
    LET m == Head(box[src])
        credits == IF src = "owner" THEN 2 ELSE m.k
        s == Process([cl |-> Taken(cl, src, credits, m.k), held |-> held, on |-> FALSE, got |-> got], src, m)
    IN  /\ InTurn /\ box[src] # <<>> /\ ~Captured(src)
        /\ src \in Pumped => CanReserve(cl, ReplyLane(src), credits)
        /\ box' = [box EXCEPT ![src] = Tail(@)]
        /\ got' = s.got /\ cl' = s.cl /\ held' = s.held
        /\ UNCHANGED <<posted, frame>>

(* A reply that has been owed falls due, in a Host turn or in a frame.     *)
Answer(lane) ==
    LET s == [cl |-> cl, held |-> held, on |-> frame.on, got |-> got]
    IN  /\ cl.owed[lane] > 0
        /\ Protected(s) => CanStage(s, lane, TRUE)
        /\ cl' = SendReply(s, lane).cl /\ held' = SendReply(s, lane).held
        /\ UNCHANGED <<box, posted, got, frame>>

(* The Host posts a control nobody asked for (a borrow closing, say): it   *)
(* is sent only if there is room beyond the reserved credits.              *)
Notify ==
    LET s == [cl |-> cl, held |-> held, on |-> frame.on, got |-> got]
    IN  /\ \/ /\ Protected(s) /\ CanStage(s, "control", FALSE)
              /\ cl' = Stage(s, "control", FALSE).cl
              /\ held' = Stage(s, "control", FALSE).held
           \/ /\ ~Protected(s) /\ CanDeliver(cl, "control")
              /\ cl' = Deliver(cl, "control")
              /\ held' = held
        /\ UNCHANGED <<box, posted, got, frame>>

-----------------------------------------------------------------------------
(* A pump frame.                                                           *)

BeginFrame ==
    /\ InTurn /\ ~Terminal(cl)
    /\ frame' = [NoFrame EXCEPT !.on = TRUE,
                    !.offered = [l \in Lanes |-> IF cl.prefix_failed THEN 0 ELSE cl.inbox[l]]]
    /\ UNCHANGED <<box, posted, got, held, cl>>

(* A client that has stopped is not pumped; its inbox is emptied instead.  *)
FlushTerminal ==
    /\ InTurn /\ Terminal(cl) /\ \E l \in Lanes : cl.inbox[l] > 0
    /\ cl' = [cl EXCEPT !.inbox = [l \in Lanes |-> 0]]
    /\ UNCHANGED <<box, posted, got, held, frame>>

EnterRestriction ==
    /\ frame.on /\ ~frame.restricted
    /\ frame' = [frame EXCEPT !.restricted = TRUE]
    /\ UNCHANGED <<box, posted, got, held, cl>>

LeaveRestriction ==
    /\ frame.restricted
    /\ frame' = [frame EXCEPT !.restricted = FALSE]
    /\ UNCHANGED <<box, posted, got, held, cl>>

CaptureClass(src) ==
    CASE src \in {"pod", "thread"} -> {"pod", "thread"} [] OTHER -> {src}

(* One capture step of run(): the head of a source moves, with its         *)
(* credits, into a slot of its class.                                      *)
Capture(src) ==
    LET m == Head(box[src])
        credits == CaptureCredits(src, m)
        used == SelectSeq(held, LAMBDA e : e.t = "capture" /\ e.src \in CaptureClass(src))
    IN  /\ frame.restricted /\ box[src] # <<>>
        /\ Len(used) < CaptureCapacity
        /\ src \in Pumped => CanReserve(cl, ReplyLane(src), credits)
        /\ cl' = IF src \in Pumped THEN Reserve(cl, ReplyLane(src), credits) ELSE cl
        /\ held' = Append(held, [t |-> "capture", src |-> src, m |-> m, credits |-> credits])
        /\ box' = [box EXCEPT ![src] = Tail(@)]
        /\ UNCHANGED <<posted, got, frame>>

(* A seeded fault: after a replayed entry has gone, the one that followed  *)
(* it is passed over.                                                      *)
SkipsOne(h, i) == IF i + 1 \in DOMAIN h THEN i + 1 ELSE 0

(* replay: the first entry not attempted yet; 0 when there is none.        *)
Upcoming(h, i) == IF i \in DOMAIN h THEN i ELSE 0

ReplayTo(i) == frame' = [NoFrame EXCEPT !.replay = Upcoming(held', i)]

(* A seeded fault: the credits taken beyond what the message needed are    *)
(* kept.                                                                   *)
KeepsSurplus(c, e) == c

WithoutSurplus(c, e) ==
    IF e.src \in Pumped THEN Release(c, ReplyLane(e.src), e.credits - e.m.k) ELSE c

ReplayCapture ==
    LET at == frame.replay
        e == held[at]
        s == Process([cl |-> WithoutSurplus(cl, e), held |-> RemoveAt(held, at), on |-> FALSE, got |-> got], e.src, e.m)
    IN  /\ at > 0 /\ e.t = "capture"
        /\ cl' = s.cl /\ held' = s.held /\ got' = s.got
        /\ ReplayTo(at)
        /\ UNCHANGED <<box, posted>>

(* A delivery goes to the inbox, or nowhere if the client has stopped; it  *)
(* stays held if it cannot go, or an earlier one of its lane could not.    *)
EarlierDelivery(at, lane) == \E i \in DOMAIN held : i < at /\ held[i].t = "delivery" /\ held[i].lane = lane

ReplayDelivery ==
    LET at == frame.replay
        lane == held[at].lane
        freed == [Release(cl, lane, 1) EXCEPT !.staged[lane] = @ - 1]
        stays == Protected([cl |-> cl, held |-> held, on |-> FALSE, got |-> got]) \/ EarlierDelivery(at, lane)
    IN  /\ at > 0 /\ held[at].t = "delivery"
        /\ \/ /\ ~stays /\ (Terminal(cl) \/ CanDeliver(freed, lane))
              /\ cl' = IF Terminal(cl) THEN freed ELSE Deliver(freed, lane)
              /\ held' = RemoveAt(held, at)
              /\ ReplayTo(at)
           \/ /\ stays \/ ~(Terminal(cl) \/ CanDeliver(freed, lane))
              /\ UNCHANGED <<cl, held>>
              /\ ReplayTo(at + 1)
        /\ UNCHANGED <<box, posted, got>>

(* A turn of the Host begins with a replay of what is still held.          *)
ReplayInTurn ==
    /\ InTurn
    /\ UNCHANGED <<box, posted, got, held, cl>>
    /\ ReplayTo(1)

(* consume_messages: a prefix of what was offered, controls first.         *)
Consume(c, taken) == [c EXCEPT !.inbox = [l \in Lanes |-> @[l] - taken[l]]]

(* The call returns: its scopes are closed, the consumed prefix is taken   *)
(* out of the inbox, or refused as invalid, the client may report that it  *)
(* has stopped, and the replay of what was held begins.                    *)
EndFrame ==
    \E controls \in 0..frame.offered["control"], replies \in 0..frame.offered["reply"],
       outcome \in {"valid", "invalid", "stopped"} :
        /\ frame.on
        /\ replies > 0 => controls = frame.offered["control"]
        /\ outcome = "invalid" => controls + replies = 0 /\ ~cl.prefix_failed
        /\ outcome = "stopped" => cl.phase = "stopping"
        /\ cl' = [Consume(cl, [l \in Lanes |-> IF l = "control" THEN controls ELSE replies]) EXCEPT
                     !.prefix_failed = @ \/ outcome = "invalid",
                     !.phase = IF outcome = "stopped" THEN "stopped"
                               ELSE IF outcome = "invalid" THEN "stopping" ELSE @]
        /\ UNCHANGED <<box, posted, got, held>>
        /\ ReplayTo(1)

(* The Host asks the module to stop.                                       *)
RequestStop ==
    /\ cl.phase = "ready" /\ InTurn
    /\ cl' = [cl EXCEPT !.phase = "stopping"]
    /\ UNCHANGED <<box, posted, got, held, frame>>

MaintenanceNext ==
    \/ \E src \in Sources, k \in 0..2 : Post(src, k)
    \/ \E src \in Sources : Drain(src) \/ Capture(src)
    \/ \E lane \in Lanes : Answer(lane)
    \/ Notify
    \/ BeginFrame \/ FlushTerminal \/ EnterRestriction \/ LeaveRestriction \/ EndFrame
    \/ ReplayCapture \/ ReplayDelivery \/ ReplayInTurn
    \/ RequestStop

MaintenanceSpec == MaintenanceInit /\ [][MaintenanceNext]_maintenance

-----------------------------------------------------------------------------
(* Shape of the client record and of the frame.                            *)
MaintenanceTypeOK ==
    /\ \A l \in Lanes : {cl.inbox[l], cl.reserved[l], cl.owed[l], cl.staged[l]} \subseteq Nat
    /\ cl.phase \in {"ready", "stopping", "stopped"}
    /\ \A s \in Sources : posted[s] \in 0..MaxPosts
    /\ frame.restricted => frame.on
    /\ frame.replay \in 0..Len(held) /\ (frame.on => frame.replay = 0)

(* Whatever is captured in a modal loop and whatever is drained in a turn, *)
(* each source's messages are processed once each and in the order they    *)
(* were posted: those processed, then those held, then those still queued. *)
CapturesOf(h, s) == {i \in DOMAIN h : h[i].t = "capture" /\ h[i].src = s}

TakenFrom(s) == posted[s] - Len(box[s])

SourceOrder ==
    \A s \in Sources :
        /\ got[s] <= TakenFrom(s)
        /\ {held[i].m.n : i \in CapturesOf(held, s)} = (got[s] + 1)..TakenFrom(s)
        /\ \A i, j \in CapturesOf(held, s) : i < j => held[i].m.n < held[j].m.n
        /\ \A i \in DOMAIN box[s] : box[s][i].n = TakenFrom(s) + i

(* Every reserved credit stands for one reply still owed, one staged       *)
(* delivery or one credit of a captured message (of at most two), and with *)
(* the messages in the inbox they never exceed their lane.                 *)
CreditsOf(e, l) ==
    IF e.t = "delivery" THEN IF e.lane = l THEN 1 ELSE 0
    ELSE IF e.src \in Pumped /\ ReplyLane(e.src) = l THEN e.credits ELSE 0

StagedIn(h, l) == {i \in DOMAIN h : h[i].t = "delivery" /\ h[i].lane = l}

Crediting(h, l, n) == {i \in DOMAIN h : n <= CreditsOf(h[i], l)}

CreditsIn(h, l) == Cardinality(Crediting(h, l, 1)) + Cardinality(Crediting(h, l, 2))

CreditsCovered ==
    \A l \in Lanes :
        /\ cl.staged[l] = Cardinality(StagedIn(held, l))
        /\ cl.reserved[l] = cl.owed[l] + CreditsIn(held, l)
        /\ cl.inbox[l] + cl.reserved[l] <= Capacity[l]

(* Nothing stays held once a replay has ended, except deliveries to a      *)
(* client whose prefix failed; so no later message can overtake them.      *)
ReplayNeverBlocks == InTurn /\ ~(cl.prefix_failed /\ ~Terminal(cl)) => held = <<>>

=============================================================================
