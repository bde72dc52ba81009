-------------------------- MODULE InputConnection --------------------------
(***************************************************************************)
(* An input connection: the platform module publishes actions and text in  *)
(* two single-producer rings and its authority over them in a coherent     *)
(* snapshot (CInputConnection, CInputPublication); a client thread merges  *)
(* them in sequence order (CInputReader).  Ordinary records carry no       *)
(* generation.  After an overflow, a change of context or of text target   *)
(* both sides go through a boundary: publication stops, the generation of  *)
(* the affected streams advances, a marker goes down each ring, the reader *)
(* acknowledges the generations it has seen markers of, and publication    *)
(* is reopened.                                                            *)
(*                                                                         *)
(* A post to a ring and the publication of the snapshot that covers it are *)
(* two steps; the snapshot itself is read and written whole, as its        *)
(* sequence lock provides (HostRestriction has the words of the same       *)
(* construction), or not at all while a publication is under way.          *)
(***************************************************************************)
EXTENDS Naturals, Sequences, FiniteSets

CONSTANTS
    Streams,            \* {"actions", "text"} for a desktop, {"actions"} for a controller
    RingCapacity,       \* k_action_capacity, k_text_capacity
    GenerationLimit,    \* a generation that cannot advance (UINT64_MAX)
    SequenceLimit,      \* a sequence that cannot advance (UINT64_MAX)
    MaxRequests         \* bound: context and target changes the client asks for

ASSUME InputAssumption ==
    /\ "actions" \in Streams /\ Streams \subseteq {"actions", "text"}
    /\ {RingCapacity, GenerationLimit} \subseteq Nat \ {0}
    /\ {SequenceLimit, MaxRequests} \subseteq Nat

VARIABLES
    p,          \* the connection at its provider
    pub,        \* the published snapshot
    ring,       \* stream -> records posted and not yet read
    rd,         \* the client's reader
    cmds,       \* commands on their way to the provider
    replies     \* replies on their way to the client

input == <<p, pub, ring, rd, cmds, replies>>

NoHead == [kind |-> "none", seq |-> 0, gen |-> 0, trans |-> 0]

Vector(g) == [s \in Streams |-> g]

Snapshot(q) == [phase |-> q.phase, pending |-> q.pending, enabled |-> q.enabled, gen |-> q.gen,
                trans |-> q.trans, committed |-> q.committed, failure |-> q.failure]

(* As initialise leaves it: the initial boundary is pending on each stream.*)
InputInit ==
    /\ p = [phase |-> "reserved", pending |-> Streams, enabled |-> FALSE, gen |-> Vector(1), trans |-> 1,
            committed |-> 0, failure |-> FALSE, markers |-> {}, context_pending |-> TRUE,
            target_pending |-> FALSE, ready |-> FALSE, gate |-> 0, neutral |-> FALSE, pc |-> "idle", then |-> "idle"]
    /\ pub = Snapshot(p)
    /\ ring = [s \in Streams |-> <<>>]
    /\ rd = [state |-> [Snapshot(p) EXCEPT !.gen = Vector(0), !.pending = {}, !.trans = 0], head |-> [s \in Streams |-> NoHead],
             seen |-> Vector(0), ack |-> Vector(0), cancel |-> Vector(0), last |-> 0, cutoff |-> 0,
             cancellation |-> {}, local_cancel |-> {}, pc |-> "idle", event |-> NoHead, stamp |-> 0, on |-> "actions",
             acking |-> FALSE, request |-> "none", changing |-> {}, trans |-> 1, asked |-> 0]
    /\ cmds = <<[t |-> "ready", gen |-> Vector(0), trans |-> 1, on |-> FALSE]>>
    /\ replies = <<>>

-----------------------------------------------------------------------------
(* The provider.                                                           *)

Closing == p.phase = "closing"

Close(q, failed) ==
    IF q.phase = "closing" THEN q
    ELSE [q EXCEPT !.phase = "closing", !.pending = {}, !.enabled = FALSE, !.failure = failed]

(* boundary: a new generation for the streams of mask, or closure when     *)
(* there is none left.  The neutral gates of the subjects are reset.       *)
Boundary(q, mask) ==
    IF \E s \in mask : q.gen[s] = GenerationLimit THEN Close(q, TRUE)
    ELSE [q EXCEPT !.gen = [s \in Streams |-> IF s \in mask THEN @[s] + 1 ELSE @[s]],
                   !.gate = IF "actions" \in mask THEN 0 ELSE @,
                   !.pending = @ \cup mask, !.markers = @ \ mask]

Room(s) == Len(ring[s]) < RingCapacity

(* A publication also signals the client's notification; when the signal   *)
(* cannot be made the connection closes as failed.                         *)
Published(q) == {q} \cup (IF q.ready THEN {[q EXCEPT !.phase = "closing", !.failure = TRUE]} ELSE {})

(* A step of the provider that posts no record publishes what it did.      *)
Settle(q) == p' \in Published(q) /\ pub' = Snapshot(p')

(* A step that posts a record publishes afterwards.                        *)
PostRecord(s, kind, q, then) ==
    IF p.committed = SequenceLimit
    THEN p' = [Close(p, TRUE) EXCEPT !.pc = "idle"] /\ pub' = Snapshot(p') /\ UNCHANGED ring
    ELSE /\ ring' = [ring EXCEPT ![s] = Append(@, [kind |-> kind, seq |-> p.committed + 1, gen |-> p.gen[s],
                                                   trans |-> p.trans])]
         /\ p' = [q EXCEPT !.committed = @ + 1, !.pc = "publish", !.then = then]
         /\ UNCHANGED pub

Publish ==
    /\ p.pc = "publish"
    /\ \E q \in Published([p EXCEPT !.pc = p.then, !.then = "idle"]) :
           /\ p' = IF q.phase = "closing" THEN [q EXCEPT !.pc = "idle"] ELSE q
           /\ pub' = Snapshot(q)
    /\ UNCHANGED <<ring, rd, cmds, replies>>

(* progress: the marker of each pending stream, once its ring has room.    *)
MarkerDue(s) == s \in p.pending \ p.markers /\ Room(s)

Progress ==
    /\ p.ready /\ ~Closing
    /\ \/ /\ p.pc = "idle" /\ MarkerDue("actions")
          /\ PostRecord("actions", "marker", [p EXCEPT !.markers = @ \cup {"actions"}], "text")
       \/ /\ p.pc = "text" \/ (p.pc = "idle" /\ ~MarkerDue("actions"))
          /\ "text" \in Streams /\ MarkerDue("text")
          /\ PostRecord("text", "marker", [p EXCEPT !.markers = @ \cup {"text"}, !.pc = "idle"], "idle")
       \/ /\ p.pc = "text" /\ ~("text" \in Streams /\ MarkerDue("text"))
          /\ p' = [p EXCEPT !.pc = "idle"] /\ UNCHANGED <<pub, ring>>
    /\ UNCHANGED <<rd, cmds, replies>>

(* observe_subject: whether the subject of actions is at rest.  Resting    *)
(* arms its gate; in a boundary, being held disarms it.                    *)
ObserveSubject(neutral) ==
    /\ p.pc = "idle" /\ ~Closing
    /\ p' = [p EXCEPT !.neutral = neutral,
                      !.gate = IF neutral THEN p.gen["actions"]
                               ELSE IF p.phase # "active" \/ "actions" \in p.pending THEN 0 ELSE @]
    /\ UNCHANGED <<pub, ring, rd, cmds, replies>>

(* post_action and post_text.  A record that may not be published now is   *)
(* suppressed, and its subject must come to rest; one that finds its ring  *)
(* full starts an overflow boundary.                                       *)
MayPost(s) ==
    /\ p.phase = "active" /\ s \notin p.pending
    /\ IF s = "actions" THEN p.gate = p.gen[s] ELSE p.enabled

PostInput(s) ==
    /\ p.pc = "idle" /\ ~Closing
    /\ \/ /\ ~MayPost(s)
          /\ Settle(IF s = "actions" THEN [p EXCEPT !.gate = 0] ELSE p)
          /\ UNCHANGED ring
       \/ MayPost(s) /\ ~Room(s) /\ Settle(Boundary(p, {s})) /\ UNCHANGED ring
       \/ MayPost(s) /\ Room(s) /\ PostRecord(s, "data", p, "idle")
    /\ UNCHANGED <<rd, cmds, replies>>

(* The commands of the client.                                             *)
Reply(m, status) == replies' = Append(replies, [t |-> m.t, gen |-> m.gen, status |-> status, trans |-> p'.trans])

(* start, with the client's notification bound.                            *)
InputReady(m) ==
    IF Closing THEN UNCHANGED <<p, pub>> /\ Reply(m, "closing")
    ELSE /\ Settle([p EXCEPT !.ready = TRUE])
         /\ Reply(m, IF p'.phase = "closing" THEN "failed" ELSE "success")

(* acknowledge                                                             *)
BoundaryReady(m) ==
    \/ Closing /\ UNCHANGED <<p, pub>> /\ Reply(m, "closing")
    \/ ~Closing /\ m.gen # p.gen /\ UNCHANGED <<p, pub>> /\ Reply(m, "stale")
    \/ /\ ~Closing /\ m.gen = p.gen /\ (~p.ready \/ ~(p.pending \subseteq p.markers))
       /\ UNCHANGED <<p, pub>> /\ Reply(m, "busy")
    \/ /\ ~Closing /\ m.gen = p.gen /\ p.ready /\ p.pending \subseteq p.markers
       /\ Settle(IF p.pending = {} THEN p
                 ELSE [p EXCEPT !.gate = IF "actions" \in p.pending /\ p.neutral THEN p.gen["actions"] ELSE @,
                                !.context_pending = FALSE, !.target_pending = FALSE,
                                !.pending = {}, !.phase = "active"])
       /\ Reply(m, IF p'.phase = "closing" THEN "failed" ELSE "success")

SelectContext(m) ==
    \/ Closing /\ UNCHANGED <<p, pub>> /\ Reply(m, "closing")
    \/ ~Closing /\ (p.context_pending \/ p.target_pending) /\ UNCHANGED <<p, pub>> /\ Reply(m, "busy")
    \/ /\ ~Closing /\ ~p.context_pending /\ ~p.target_pending
       /\ Settle(Boundary([p EXCEPT !.context_pending = TRUE, !.trans = @ + 1, !.enabled = FALSE], Streams))
       /\ Reply(m, IF p'.phase = "closing" THEN "failed" ELSE "success")

TextTarget(m) ==
    \/ Closing /\ UNCHANGED <<p, pub>> /\ Reply(m, "closing")
    \/ ~Closing /\ m.trans # p.trans /\ UNCHANGED <<p, pub>> /\ Reply(m, "stale")
    \/ /\ ~Closing /\ m.trans = p.trans /\ (p.context_pending \/ p.target_pending)
       /\ UNCHANGED <<p, pub>> /\ Reply(m, "busy")
    \/ /\ ~Closing /\ m.trans = p.trans /\ ~p.context_pending /\ ~p.target_pending
       /\ Settle(Boundary([p EXCEPT !.target_pending = TRUE, !.enabled = m.on], {"text"}))
       /\ Reply(m, IF p'.phase = "closing" THEN "failed" ELSE "success")

InputCommand ==
    /\ p.pc = "idle" /\ cmds # <<>>
    /\ LET m == Head(cmds)
       IN  \/ m.t = "ready" /\ InputReady(m)
           \/ m.t = "ack" /\ BoundaryReady(m)
           \/ m.t = "context" /\ SelectContext(m)
           \/ m.t = "target" /\ TextTarget(m)
    /\ cmds' = Tail(cmds)
    /\ UNCHANGED <<ring, rd>>

(* close_input: the window closes, the module stops, or the handshake has  *)
(* taken too long.                                                         *)
CloseInput ==
    /\ p.pc = "idle" /\ ~Closing
    /\ Settle(Close(p, FALSE))
    /\ UNCHANGED <<ring, rd, cmds, replies>>

-----------------------------------------------------------------------------
(* The reader.  Refresh(r) is what a coherent read of the snapshot makes   *)
(* of r: streams whose generation has moved on are cancelled.              *)

(* A seeded fault: copied heads are cleared with the generation they were  *)
(* read under.                                                             *)
RefreshDropsHeads(r) ==
    LET moved == {s \in Streams : pub.gen[s] # r.state.gen[s]}
        Forget(v) == [s \in Streams |-> IF s \in moved THEN 0 ELSE v[s]]
    IN  [r EXCEPT !.state = pub, !.seen = Forget(@), !.ack = Forget(@),
                  !.head = [s \in Streams |-> IF s \in moved THEN NoHead ELSE @[s]],
                  !.cancellation = @ \cup moved \cup (IF pub.phase = "closing" THEN Streams ELSE {})]

Refresh(r) ==
    LET moved == {s \in Streams : pub.gen[s] # r.state.gen[s]}
        Forget(v) == [s \in Streams |-> IF s \in moved THEN 0 ELSE v[s]]
    IN  [r EXCEPT !.state = pub, !.seen = Forget(@), !.ack = Forget(@),
                  !.cancellation = @ \cup moved \cup (IF pub.phase = "closing" THEN Streams ELSE {})]

(* A read competes with a publication under way.                           *)
Contended == p.pc = "publish"

Ended(r) == [r EXCEPT !.pc = "closed", !.head = [s \in Streams |-> NoHead], !.event = NoHead,
                      !.cancellation = Streams]

Unless(r, next) ==      \* what next makes of a snapshot it has just read
    IF r.state.failure THEN [r EXCEPT !.pc = "failed"]
    ELSE IF r.state.phase = "closing" THEN Ended(r)
    ELSE IF r.cancellation # {} THEN [r EXCEPT !.pc = "idle"]
    ELSE next

Allowed(r, s) ==
    /\ r.state.phase = "active" /\ s \notin r.state.pending \cup r.cancellation \cup r.local_cancel
    /\ r.seen[s] = r.state.gen[s] /\ r.ack[s] = r.state.gen[s]
    /\ s = "text" => r.state.enabled

(* next: the snapshot gives the cutoff, then missing heads are filled, ... *)
NextBegin ==
    /\ rd.pc = "idle"
    /\ LET r == Refresh(rd)
       IN  rd' = Unless(r, [r EXCEPT !.pc = "actions", !.cutoff = r.state.committed])
    /\ UNCHANGED <<p, pub, ring, cmds, replies>>

ReadHead(s, then) ==
    /\ rd.pc = s
    /\ IF rd.head[s] = NoHead /\ ring[s] # <<>>
       THEN /\ rd' = [rd EXCEPT !.head[s] = Head(ring[s]), !.pc = then]
            /\ ring' = [ring EXCEPT ![s] = Tail(@)]
       ELSE rd' = [rd EXCEPT !.pc = then] /\ UNCHANGED ring
    /\ UNCHANGED <<p, pub, cmds, replies>>

ReadHeads ==
    \/ ReadHead("actions", IF "text" \in Streams THEN "text" ELSE "choose")
    \/ "text" \in Streams /\ ReadHead("text", "choose")

(* ... and the earlier head within the cutoff is taken, under the          *)
(* authority of a second snapshot.                                         *)
(* A seeded fault: the second snapshot extends the cutoff.                 *)
WithinExtended(r) == {s \in Streams : r.head[s] # NoHead /\ r.head[s].seq <= r.state.committed}

Within(r) == {s \in Streams : r.head[s] # NoHead /\ r.head[s].seq <= r.cutoff}

Take(r) ==
    LET s == CHOOSE x \in Within(r) : \A y \in Within(r) : r.head[x].seq <= r.head[y].seq
        m == r.head[s]
        taken == [r EXCEPT !.head[s] = NoHead, !.last = m.seq, !.pc = "idle", !.cutoff = 0]
    IN  IF m.seq <= r.last THEN [r EXCEPT !.pc = "broken"]
        ELSE IF m.kind = "marker"
        THEN IF m.gen = r.state.gen[s] /\ m.trans = r.state.trans THEN [taken EXCEPT !.seen[s] = m.gen] ELSE taken
        ELSE IF Allowed(r, s) THEN [taken EXCEPT !.event = m, !.stamp = r.state.gen[s], !.on = s]
        ELSE taken

NextChoose ==
    /\ rd.pc = "choose"
    /\ \/ LET r == Refresh(rd)
          IN  rd' = Unless(r, IF Within(r) = {} THEN [r EXCEPT !.pc = "idle", !.cutoff = 0] ELSE Take(r))
       \/ Contended /\ rd' = [rd EXCEPT !.pc = "idle", !.cutoff = 0]
    /\ rd.event # NoHead => rd'.event \in {rd.event, NoHead}
    /\ UNCHANGED <<p, pub, ring, cmds, replies>>

TakeCancellation ==
    /\ rd.pc = "idle" /\ rd.cancellation # {}
    /\ rd' = [rd EXCEPT !.cancellation = {}]
    /\ UNCHANGED <<p, pub, ring, cmds, replies>>

(* validate, immediately before a record is applied; a stale one is let go.*)
(* The client may go on reading while it holds a record back.              *)
(* A seeded fault: a deferred record is not checked against its stamp.     *)
CurrentUnstamped(r) == Allowed(r, r.on) /\ ~r.state.failure

Current(r) == Allowed(r, r.on) /\ ~r.state.failure /\ r.stamp = r.state.gen[r.on]

Apply ==
    /\ rd.pc = "idle" /\ rd.event # NoHead
    /\ LET r == Refresh(rd)
       IN  rd' = [r EXCEPT !.event = NoHead, !.stamp = 0, !.on = "actions"]
    /\ UNCHANGED <<p, pub, ring, cmds, replies>>

(* boundary_ready, the command, and submitted once it is on its way.       *)
CanSubmit(r) ==
    /\ ~r.state.failure /\ r.state.phase # "closing" /\ r.state.pending # {}
    /\ \A s \in r.state.pending : r.seen[s] = r.state.gen[s]
    /\ r.ack # r.state.gen

SubmitBoundary ==
    LET r == Refresh(rd)
    IN  /\ rd.pc = "idle" /\ ~rd.acking /\ CanSubmit(r)
        /\ rd' = [r EXCEPT !.ack = r.state.gen, !.acking = TRUE]
        /\ cmds' = Append(cmds, [t |-> "ack", gen |-> r.state.gen, trans |-> rd.trans, on |-> FALSE])
        /\ UNCHANGED <<p, pub, ring, replies>>

(* cancel_application and a context or target change.                      *)
RequestChange(t, on, streams) ==
    LET r == Refresh(rd)
    IN  /\ rd.pc = "idle" /\ rd.request = "none" /\ rd.asked < MaxRequests
        /\ streams \subseteq Streams
        /\ ~r.state.failure /\ r.state.phase # "closing"
        /\ rd' = [r EXCEPT !.local_cancel = @ \cup streams, !.cancellation = @ \cup streams,
                           !.cancel = [s \in Streams |-> IF s \in streams THEN r.state.gen[s] ELSE @[s]],
                           !.request = t, !.changing = streams, !.asked = @ + 1]
        /\ cmds' = Append(cmds, [t |-> t, gen |-> Vector(0), trans |-> rd.trans, on |-> on])
        /\ UNCHANGED <<p, pub, ring, replies>>

(* The replies: a busy boundary is submitted again, a stale one has been   *)
(* superseded; a rejected change leaves application cancelled.             *)
Hear ==
    /\ rd.pc = "idle" /\ replies # <<>>
    /\ LET m == Head(replies)
           ended == m.status \in {"closing", "failed"}
           retry == [rd EXCEPT !.ack = [s \in Streams |-> IF m.gen = rd.ack /\ s \in rd.state.pending THEN 0 ELSE @[s]]]
           change == m.t \in {"context", "target"}
       IN  \/ ended /\ rd' = Ended(rd)
           \/ ~ended /\ m.t = "ready" /\ UNCHANGED rd
           \/ ~ended /\ m.t = "ack" /\ rd' = [(IF m.status = "busy" THEN retry ELSE rd) EXCEPT !.acking = FALSE]
           \/ ~ended /\ change /\ m.status # "success" /\ rd' = [rd EXCEPT !.request = "none", !.changing = {}]
           \/ ~ended /\ change /\ m.status = "success" /\ rd' = [rd EXCEPT !.request = "accepted", !.trans = m.trans]
    /\ replies' = Tail(replies)
    /\ UNCHANGED <<p, pub, ring, cmds>>

(* resume_application, after the change was accepted and its boundary      *)
(* acknowledged.                                                           *)
Resume ==
    LET r == Refresh(rd)
    IN  /\ rd.pc = "idle" /\ rd.request = "accepted"
        /\ ~r.state.failure /\ r.state.phase = "active" /\ r.changing \cap r.state.pending = {}
        /\ \A s \in r.changing :
               /\ r.state.gen[s] > r.cancel[s]
               /\ r.seen[s] = r.state.gen[s] /\ r.ack[s] = r.state.gen[s]
        /\ rd' = [r EXCEPT !.local_cancel = @ \ r.changing, !.request = "none", !.changing = {}]
        /\ UNCHANGED <<p, pub, ring, cmds, replies>>

-----------------------------------------------------------------------------
Reader == NextBegin \/ ReadHeads \/ NextChoose \/ TakeCancellation \/ Apply \/ SubmitBoundary \/ Hear \/ Resume

Provider == Publish \/ Progress \/ InputCommand

InputNext ==
    \/ Reader \/ Provider
    \/ \E neutral \in BOOLEAN : ObserveSubject(neutral)
    \/ \E s \in Streams : PostInput(s)
    \/ CloseInput
    \/ RequestChange("context", FALSE, Streams)
    \/ \E on \in BOOLEAN : RequestChange("target", on, {"text"})

InputSpec == InputInit /\ [][InputNext]_input

-----------------------------------------------------------------------------
InputTypeOK ==
    /\ p.phase \in {"reserved", "active", "closing"} /\ p.pending \subseteq Streams /\ p.markers \subseteq Streams
    /\ p.committed \in 0..SequenceLimit /\ p.gen \in [Streams -> 1..GenerationLimit]
    /\ \A s \in Streams : Len(ring[s]) <= RingCapacity
    /\ rd.pc \in {"idle", "actions", "text", "choose", "closed", "failed"}

(* No input of an earlier generation or context is ever applied: a record  *)
(* that passes validation was posted under the generation it is stamped    *)
(* with and under the context the client has been told it is in, although  *)
(* records carry neither.                                                  *)
FreshInput ==
    rd.pc = "idle" /\ rd.event # NoHead /\ Current(Refresh(rd)) =>
        rd.event.gen = rd.stamp /\ rd.event.trans = rd.trans

(* The two rings are merged without a gap: the record next takes is the    *)
(* one after the last it took, whatever the provider posts between the     *)
(* reader's looks at the two rings.                                        *)
MergeInOrder == [][rd'.last # rd.last => rd'.last = rd.last + 1]_input

(* A boundary never stalls with each side waiting for the other: when all  *)
(* that was posted and sent has been taken, either the provider still owes *)
(* a marker or the client has a boundary to acknowledge.                   *)
BoundaryNeverStalls ==
    /\ p.ready /\ ~Closing /\ p.pending # {} /\ p.pc = "idle"
    /\ rd.pc = "idle" /\ rd.cancellation = {} /\ rd.event = NoHead
    /\ \A s \in Streams : ring[s] = <<>> /\ rd.head[s] = NoHead
    /\ cmds = <<>> /\ replies = <<>>
    => (\E s \in Streams : MarkerDue(s)) \/ CanSubmit(Refresh(rd))

=============================================================================
