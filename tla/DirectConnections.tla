--------------------------- MODULE DirectConnections ---------------------------
(***************************************************************************)
(* The protocol that connects two service threads directly: connections::  *)
(* CClient in each thread, CDirectConnections in the Host.  The Host owns   *)
(* the connection's descriptors, queues and notifications and lends them    *)
(* to both threads; it may erase them only when nobody uses them any more.  *)
(*                                                                         *)
(* Both directions are queues of messages that may refuse one when full.   *)
(* One step is one message handled, one call of the application, or one    *)
(* progress() of a client or of the Host.  A poisoned queue (an allocation *)
(* failure inside a post) and a mismatch of versions are left out.         *)
(***************************************************************************)
EXTENDS Integers, Sequences, FiniteSets, SequencesExt

CONSTANTS Client,       \* the two threads
          Opener,       \* those that ask for a connection
          Opens,        \* how often each of them does
          Room,         \* how many messages a client's queue takes in one pass
          Faults        \* what may go wrong

ASSUME ConnectionAssumption == /\ IsFiniteSet(Client) /\ Cardinality(Client) = 2
                               /\ Opener \subseteq Client
                               /\ Opens \in Nat
                               /\ Room \subseteq Nat /\ \E n \in Room : n > 0
                               /\ Faults \subseteq {"stop", "exit", "close_all", "expire"}

VARIABLES to_host, to_client,   \* the message queues of each thread
          record,               \* the Host's SRecord for the two, if any
          issued,               \* tokens issued so far
          closed, failed,       \* m_closed and m_failed of the Host
          stop_requested,       \* the clients told to exit
          terminal,             \* the clients whose thread has ended
          local,                \* SRecord of each client for each token
          request,              \* SRequest of each client
          opened                \* how often each client has called open()

hostVars   == <<record, issued, closed, failed, stop_requested>>
clientVars == <<local, request, opened, terminal>>
vars == <<to_host, to_client, hostVars, clientVars>>

Tokens  == Cardinality(Opener) * Opens
Token   == 1..Tokens
NoToken == 0
Peer(c) == CHOOSE d \in Client : d # c

Msg(kind, token)        == [kind |-> kind, token |-> token, ok |-> TRUE]
Decision(token, accept) == [kind |-> "Decision", token |-> token, ok |-> accept]

NoRecord == [phase |-> "none"]
NoLocal  == [phase |-> "empty", endpoint |-> FALSE, owes |-> {}, closing_seen |-> FALSE,
             quiescent |-> FALSE]
NewSide  == [slot |-> FALSE, initiated |-> FALSE, exposed |-> FALSE, ready |-> FALSE,
             activated |-> FALSE, closing_sent |-> FALSE, quiescent |-> FALSE,
             retired_sent |-> FALSE]

Init == /\ to_host = [c \in Client |-> << >>]
        /\ to_client = [c \in Client |-> << >>]
        /\ record = NoRecord /\ issued = 0
        /\ closed = FALSE /\ failed = FALSE
        /\ stop_requested = {} /\ terminal = {}
        /\ local = [c \in Client |-> [t \in Token |-> NoLocal]]
        /\ request = [c \in Client |-> "none"]
        /\ opened = [c \in Client |-> 0]

(* ------------------------------ the client ------------------------------ *)

\* What a record has to send, in the order of progress(); its phase decides
\* what a decision says.  A message that the queue refuses stays owed.
Due(r, m, refused) == IF m.kind \in r.owes /\ m \notin refused THEN << m >> ELSE << >>

OwedOf(r, t, refused) ==
  Due(r, Decision(t, r.phase # "closing"), refused) \o Due(r, Msg("Ready", t), refused)
    \o Due(r, Msg("Close", t), refused) \o Due(r, Msg("Quiescent", t), refused)

\* progress() goes through the records one after the other.
Sendable(records, refused) ==
  LET upto[t \in 0..Tokens] ==
        IF t = 0 THEN << >> ELSE upto[t - 1] \o OwedOf(records[t], t, refused)
  IN upto[Tokens]

Owed(records) == Sendable(records, {})

\* The records once the messages in sent have gone out.
Paid(records, sent) ==
  [t \in Token |->
    LET kinds == {m.kind : m \in {n \in sent : n.token = t}} IN
    [records[t] EXCEPT !.owes = @ \ kinds, !.quiescent = @ \/ "Quiescent" \in kinds]]

MayBeFull == 0 \in Room

\* progress() on the given records, after the queue has taken extra: every
\* message that is owed goes out unless the queue refuses it.
Send(c, records, extra, refused) ==
  LET sent == Sendable(records, refused) IN
  /\ to_host' = [to_host EXCEPT ![c] = @ \o extra \o sent]
  /\ local' = [local EXCEPT ![c] = Paid(records, ToSet(sent))]

SendOwed(c, records, extra) ==
  \E refused \in IF MayBeFull THEN SUBSET ToSet(Owed(records)) ELSE {{}} :
    Send(c, records, extra, refused)

Alive(c) == c \notin terminal

open(c) ==
  /\ Alive(c) /\ request[c] = "none" /\ c \notin stop_requested
  /\ c \in Opener /\ opened[c] < Opens
  /\ to_host' = [to_host EXCEPT ![c] = Append(@, Msg("Request", NoToken))]
  /\ request' = [request EXCEPT ![c] = "pending"]
  /\ opened' = [opened EXCEPT ![c] = @ + 1]
  /\ UNCHANGED <<to_client, hostVars, local, terminal>>

take_result(c) ==
  /\ Alive(c) /\ request[c] = "completed"
  /\ request' = [request EXCEPT ![c] = "none"]
  /\ UNCHANGED <<to_host, to_client, hostVars, local, opened, terminal>>

Closed(r) == IF r.phase \in {"empty", "closing"} THEN r
             ELSE [r EXCEPT !.phase = "closing", !.owes = (@ \ {"Ready"}) \cup {"Close"}]

close(c, t) ==
  /\ Alive(c) /\ local[c][t].phase \notin {"empty", "closing"}
  /\ local' = [local EXCEPT ![c][t] = Closed(@)]
  /\ UNCHANGED <<to_host, to_client, hostVars, request, opened, terminal>>

\* What a thread does first when it is told to exit.
close_all(c) ==
  /\ Alive(c) /\ c \in stop_requested
  /\ request' = [request EXCEPT ![c] = IF @ = "pending" THEN "cancelled" ELSE @]
  /\ local' = [local EXCEPT ![c] = [t \in Token |-> Closed(@[t])]]
  /\ UNCHANGED <<to_host, to_client, hostVars, opened, terminal>>

progress(c) ==
  /\ Alive(c) /\ Owed(local[c]) # << >>
  /\ SendOwed(c, local[c], << >>)
  /\ UNCHANGED <<to_client, hostVars, request, opened, terminal>>

\* The application has unwound its uses of the endpoint.
Quiesced(r) == [r EXCEPT !.endpoint = FALSE, !.owes = @ \cup {"Quiescent"}]

quiesce(c, t) ==
  /\ Alive(c)
  /\ local[c][t].phase = "closing" /\ local[c][t].closing_seen /\ ~local[c][t].quiescent
  /\ SendOwed(c, [local[c] EXCEPT ![t] = Quiesced(@)], << >>)
  /\ UNCHANGED <<to_client, hostVars, request, opened, terminal>>

\* The thread ends, told to or not, whatever it still holds.
Exit(c) ==
  /\ "exit" \in Faults /\ Alive(c)
  /\ terminal' = terminal \cup {c}
  /\ local' = [local EXCEPT ![c] = [t \in Token |-> NoLocal]]
  /\ request' = [request EXCEPT ![c] = "none"]
  /\ to_client' = [to_client EXCEPT ![c] = << >>]
  /\ UNCHANGED <<to_host, hostVars, opened>>

(* --------------------- the client handles a message --------------------- *)

Received(c, kind) == /\ Alive(c) /\ to_client[c] # << >> /\ Head(to_client[c]).kind = kind
                     /\ to_client' = [to_client EXCEPT ![c] = Tail(@)]

\* An early return, after at most one message that nobody sends again.
Answer(c, messages) ==
  /\ \E sent \in {messages} \cup IF MayBeFull THEN {<< >>} ELSE {} :
       to_host' = [to_host EXCEPT ![c] = @ \o sent]
  /\ UNCHANGED <<local, request>>

\* A return through the trailing progress().
Update(c, t, r) ==
  SendOwed(c, [local[c] EXCEPT ![t] = r], << >>)

handle_offer(c) ==
  LET t == Head(to_client[c]).token
      cancelled == request[c] = "cancelled"
      offered == [NoLocal EXCEPT !.phase = IF cancelled THEN "closing" ELSE "offered",
                                 !.owes = {"Decision"} \cup IF cancelled THEN {"Close"} ELSE {}]
  IN
  /\ Received(c, "Offer")
  /\ IF c \in stop_requested
       THEN Answer(c, << Decision(t, FALSE) >>)
       ELSE Update(c, t, offered) /\ UNCHANGED request
  /\ UNCHANGED <<hostVars, opened, terminal>>

\* The requester meets its token here for the first time.
handle_install(c) ==
  LET t == Head(to_client[c]).token
      known == local[c][t].phase # "empty"
      r == IF known THEN local[c][t]
           ELSE [NoLocal EXCEPT !.phase = IF request[c] = "cancelled" THEN "closing"
                                          ELSE "requesting"]
      installed == [r EXCEPT !.phase = "installed", !.endpoint = TRUE,
                             !.owes = @ \cup {"Ready"}]
  IN
  /\ Received(c, "Install")
  /\ CASE ~known /\ request[c] \notin {"pending", "cancelled"} ->
            Answer(c, << Msg("Close", t) >>)
       [] r.phase = "closing" ->
            /\ local' = [local EXCEPT ![c][t] = [r EXCEPT !.owes = @ \cup {"Close"}]]
            /\ UNCHANGED <<to_host, request>>
       [] OTHER -> Update(c, t, installed) /\ UNCHANGED request
  /\ UNCHANGED <<hostVars, opened, terminal>>

handle_activate(c) ==
  LET t == Head(to_client[c]).token
      r == local[c][t]
  IN
  /\ Received(c, "Activate")
  /\ Update(c, t, IF r.phase = "installed" THEN [r EXCEPT !.phase = "active"] ELSE r)
  /\ UNCHANGED <<hostVars, request, opened, terminal>>

\* Without a record nothing was installed, and the client is quiescent at once.
handle_closing(c) ==
  LET t == Head(to_client[c]).token
      r == [local[c][t] EXCEPT !.phase = "closing", !.closing_seen = TRUE,
                               !.owes = @ \ {"Decision", "Ready", "Close"}]
  IN
  /\ Received(c, "Closing")
  /\ IF local[c][t].phase = "empty"
       THEN \E sent \in {<< Msg("Quiescent", t) >>} \cup IF MayBeFull THEN {<< >>} ELSE {} :
              SendOwed(c, local[c], sent)
       ELSE Update(c, t, r)
  /\ UNCHANGED <<hostVars, request, opened, terminal>>

handle_retired(c) ==
  LET t == Head(to_client[c]).token IN
  /\ Received(c, "Retired")
  /\ Update(c, t, NoLocal)
  /\ UNCHANGED <<hostVars, request, opened, terminal>>

handle_result(c) ==
  LET t == Head(to_client[c]).token IN
  /\ Received(c, "Result")
  /\ request' = [request EXCEPT ![c] = IF @ \in {"pending", "cancelled"} THEN "completed" ELSE @]
  /\ IF request[c] = "cancelled" /\ t # NoToken
       THEN Update(c, t, Closed(local[c][t]))
       ELSE SendOwed(c, local[c], << >>)
  /\ UNCHANGED <<hostVars, opened, terminal>>

handle(c) ==
  \/ handle_offer(c) \/ handle_install(c) \/ handle_activate(c)
  \/ handle_closing(c) \/ handle_retired(c) \/ handle_result(c)
(* ------------------------------- the Host ------------------------------- *)

Live(c) == c \notin stop_requested /\ c \notin terminal

\* fault: closing a connection forgets who still waits for its result
DroppedRequest(r) ==
  IF r.phase = "none" THEN r
  ELSE [r EXCEPT !.phase = "closing", !.side = [c \in Client |-> [@[c] EXCEPT !.slot = FALSE]]]

BeginClose(r) == IF r.phase = "none" THEN r ELSE [r EXCEPT !.phase = "closing"]

Read(c, kind) == /\ to_host[c] # << >> /\ Head(to_host[c]).kind = kind
                 /\ to_host' = [to_host EXCEPT ![c] = Tail(@)]

\* refuse(): a thread that has ended needs no answer; one whose queue is full
\* does not get it, and the Host shuts down.
refuse(c, token) ==
  \/ /\ to_client' = IF c \in terminal THEN to_client
                       ELSE [to_client EXCEPT ![c] = Append(@, Msg("Result", token))]
     /\ UNCHANGED failed
  \/ MayBeFull /\ c \notin terminal /\ failed' = TRUE /\ UNCHANGED to_client

issue_token == issued + 1

\* A second request from the other side joins the connection being made.
Request(c) ==
  LET existing == record.phase # "none" IN
  /\ Read(c, "Request")
  /\ IF closed \/ ~Live(c) \/ ~Live(Peer(c))
       THEN refuse(c, NoToken) /\ UNCHANGED <<record, issued>>
     ELSE IF existing /\ (record.phase \in {"closing", "active"} \/ record.side[c].initiated)
       THEN /\ refuse(c, IF record.phase = "active" THEN record.token ELSE NoToken)
            /\ UNCHANGED <<record, issued>>
     ELSE IF existing
       THEN /\ record' = [record EXCEPT !.side[c].initiated = TRUE, !.side[c].slot = TRUE]
            /\ UNCHANGED <<to_client, issued, failed>>
       ELSE /\ issued' = issued + 1
            /\ record' = [phase |-> "offered", token |-> issue_token, second |-> Peer(c),
                          offered |-> FALSE,
                          side |-> [d \in Client |-> IF d = c THEN
                                      [NewSide EXCEPT !.slot = TRUE, !.initiated = TRUE]
                                    ELSE NewSide]]
            /\ UNCHANGED <<to_client, failed>>
  /\ UNCHANGED <<closed, stop_requested, clientVars>>

\* A message that concerns the record there is, in one of the phases.
Concerns(c, phases) == record.phase \in phases /\ record.token = Head(to_host[c]).token

HostKeeps == UNCHANGED <<to_client, issued, closed, failed, stop_requested, clientVars>>

\* The offer is declined, or the queues and the notifications are made; that
\* may fail too.
decision(c) ==
  /\ Read(c, "Decision")
  /\ IF Concerns(c, {"offered"}) /\ record.second = c /\ record.offered
       THEN \E installed \in {Head(to_host[c]).ok, FALSE} :
              record' = IF installed THEN [record EXCEPT !.phase = "installing"]
                        ELSE BeginClose(record)
       ELSE UNCHANGED record
  /\ HostKeeps

ready(c) ==
  /\ Read(c, "Ready")
  /\ record' = IF Concerns(c, {"installing"}) /\ record.side[c].exposed
                  THEN [record EXCEPT !.side[c].ready = TRUE] ELSE record
  /\ HostKeeps

HostClose(c) ==
  /\ Read(c, "Close")
  /\ record' = IF Concerns(c, {"offered", "installing", "active"})
                  THEN BeginClose(record) ELSE record
  /\ HostKeeps

quiescent(c) ==
  /\ Read(c, "Quiescent")
  /\ record' = IF Concerns(c, {"closing"}) /\ record.side[c].closing_sent
                  THEN [record EXCEPT !.side[c].quiescent = TRUE] ELSE record
  /\ HostKeeps

\* close_client() and the request to exit that follows it.
close_client(c) ==
  /\ "stop" \in Faults /\ c \notin stop_requested
  /\ stop_requested' = stop_requested \cup {c}
  /\ record' = BeginClose(record)
  /\ UNCHANGED <<to_host, to_client, issued, closed, failed, clientVars>>

\* close_all(), when the Host stops or has failed.
HostCloseAll ==
  /\ "close_all" \in Faults /\ ~closed
  /\ closed' = TRUE
  /\ record' = BeginClose(record)
  /\ UNCHANGED <<to_host, to_client, issued, failed, stop_requested, clientVars>>

(* ------------------------- the Host's progress() ------------------------ *)

\* fault: one side's readiness is enough
AnyReady(r) == \E c \in Client : r.side[c].ready

AllReady(r) == \A c \in Client : r.side[c].ready

\* fault: the slot of a result that has been delivered is kept
KeptSlot(slot, delivered) == slot

\* The slot that still waits for its result.
Unanswered(slot, delivered) == slot /\ ~delivered

\* fault: a side that is not ready yet passes for one that was given nothing
UnreadyIsQuiescent(c, side) ==
  side.quiescent \/ ~side.ready \/ (c \in terminal /\ to_host[c] = << >>)

\* fault: only a thread that still runs can be quiescent
OnlyByMessage(c, side) == side.quiescent \/ ~side.exposed

\* A side no longer uses its descriptor: it was given none, the client said
\* so, or its thread has ended and everything it sent is read.
SideQuiescent(c, side) ==
  side.quiescent \/ ~side.exposed \/ (c \in terminal /\ to_host[c] = << >>)

\* A side with what it was sent; room is how many messages its queue takes.
Plain(side) == [side |-> side, sent |-> << >>]

Exposed(r, room) ==
  [c \in Client |->
    IF r.side[c].exposed \/ room[c] = 0 THEN Plain(r.side[c])
    ELSE [side |-> [r.side[c] EXCEPT !.exposed = TRUE], sent |-> << Msg("Install", r.token) >>]]

Activated(r, room) ==
  [c \in Client |->
    LET old == r.side[c]
        announce == ~old.activated /\ room[c] > 0
        answer == /\ old.slot /\ (old.activated \/ announce)
                  /\ room[c] > IF announce THEN 1 ELSE 0
    IN [side |-> [old EXCEPT !.activated = @ \/ announce, !.slot = Unanswered(@, answer)],
        sent |-> (IF announce THEN << Msg("Activate", r.token) >> ELSE << >>)
                 \o (IF answer THEN << Msg("Result", r.token) >> ELSE << >>)]]

\* The result, then the closing message, then the side's quiescence.
Closing(r, room) ==
  [c \in Client |->
    LET old == r.side[c]
        answer == old.slot /\ room[c] > 0
        slot == Unanswered(old.slot, answer \/ c \in terminal)
        announce == ~old.closing_sent /\ ~slot /\ room[c] > IF answer THEN 1 ELSE 0
    IN [side |-> [old EXCEPT !.slot = slot,
                             !.closing_sent = @ \/ announce,
                             !.quiescent = SideQuiescent(c, old)],
        sent |-> (IF answer THEN << Msg("Result", r.token) >> ELSE << >>)
                 \o (IF announce THEN << Msg("Closing", r.token) >> ELSE << >>)]]

Retired(r, sides, room) ==
  [c \in Client |->
    LET new == sides[c].side
        due == ~new.slot /\ ~new.retired_sent
        announce == due /\ new.closing_sent /\ room[c] > Len(sides[c].sent)
    IN IF \A d \in Client : sides[d].side.quiescent
         THEN [side |-> [new EXCEPT !.retired_sent = @ \/ (due /\ (c \in terminal \/ announce))],
               sent |-> sides[c].sent \o
                          IF announce THEN << Msg("Retired", r.token) >> ELSE << >>]
         ELSE sides[c]]

Publish(r, sides) ==
  /\ record' = IF r.phase = "closing" /\ \A c \in Client : sides[c].side.retired_sent
                 THEN NoRecord
                 ELSE [r EXCEPT !.side = [c \in Client |-> sides[c].side]]
  /\ to_client' = [c \in Client |-> to_client[c] \o sides[c].sent]

\* One pass over the record; the budget of a connection that is not yet active
\* may have expired.
HostProgress(expired, free) ==
  LET stopped == \E c \in Client : ~Live(c)
      late == expired /\ record.phase \in {"offered", "installing"}
      r == IF stopped \/ late THEN BeginClose(record)
           ELSE IF record.phase = "installing" /\ AllReady(record)
                  THEN [record EXCEPT !.phase = "active"]
           ELSE record
      room == [c \in Client |-> IF c \in terminal THEN 0 ELSE free[c]]
      offer == ~r.offered /\ room[r.second] > 0
  IN
  /\ record.phase # "none"
  /\ CASE r.phase = "offered" ->
            Publish([r EXCEPT !.offered = @ \/ offer],
                    [c \in Client |-> [side |-> r.side[c],
                       sent |-> IF offer /\ c = r.second THEN << Msg("Offer", r.token) >>
                                ELSE << >>]])
       [] r.phase = "installing" -> Publish(r, Exposed(r, room))
       [] r.phase = "active" -> Publish(r, Activated(r, room))
       [] r.phase = "closing" -> Publish(r, Retired(r, Closing(r, room), room))
  /\ UNCHANGED <<to_host, issued, closed, failed, stop_requested, clientVars>>

(* ------------------------------------------------------------------------ *)

ClientStep(c) == handle(c) \/ take_result(c) \/ (\E t \in Token : quiesce(c, t))

HostStep(c) == Request(c) \/ decision(c) \/ ready(c) \/ HostClose(c) \/ quiescent(c)

AnyProgress == \E expired \in {FALSE, "expire" \in Faults}, free \in [Client -> Room] :
                 HostProgress(expired, free)

Next == \/ \E c \in Client : \/ ClientStep(c) \/ progress(c) \/ open(c) \/ close_all(c)
                             \/ (\E t \in Token : close(c, t)) \/ Exit(c)
                             \/ HostStep(c) \/ close_client(c)
        \/ HostCloseAll
        \/ AnyProgress

Spec == Init /\ [][Next]_vars

\* Each thread runs: it handles what has arrived, and sends what it owes to a
\* queue that is drained in time.  A budget that is started expires.  Nobody
\* has to open, to close, to exit or to be stopped.
FullProgress(c) ==
  /\ Alive(c) /\ Owed(local[c]) # << >>
  /\ Send(c, local[c], << >>, {})
  /\ UNCHANGED <<to_client, hostVars, request, opened, terminal>>

HostWork == \/ \E c \in Client : HostStep(c)
            \/ \E expired \in {FALSE, "expire" \in Faults} :
                 HostProgress(expired, [c \in Client |-> Max(Room)])

Fairness == /\ \A c \in Client : WF_vars(ClientStep(c) \/ FullProgress(c))
            /\ WF_vars(HostWork)

FairSpec == Spec /\ Fairness

(* ------------------------------- properties ----------------------------- *)

ToHostKinds   == {"Request", "Decision", "Ready", "Close", "Quiescent"}
ToClientKinds == {"Offer", "Install", "Activate", "Closing", "Retired", "Result"}

\* Each queue carries the messages of its direction, and every record is in
\* one of its phases.
TypeOK ==
  /\ \A m \in UNION {ToSet(to_host[c]) : c \in Client} :
       m.kind \in ToHostKinds /\ m.token \in Token \cup {NoToken}
  /\ \A m \in UNION {ToSet(to_client[c]) : c \in Client} :
       m.kind \in ToClientKinds /\ m.token \in Token \cup {NoToken}
  /\ record.phase \in {"none", "offered", "installing", "active", "closing"}
  /\ record # NoRecord => record.token \in 1..issued
  /\ issued \in 0..Tokens
  /\ \A c \in Client, t \in Token :
       /\ local[c][t].phase \in {"empty", "offered", "installed", "active", "closing"}
       /\ local[c][t].owes \subseteq ToHostKinds \ {"Request"}
  /\ request \in [Client -> {"none", "pending", "cancelled", "completed"}]

Holds(token) == record # NoRecord /\ record.token = token

\* The Host erases a record, its descriptors, queues and notifications, only
\* when no thread can touch them again: not through an endpoint it has
\* installed, and not through a descriptor that is still on its way to it.
DescriptorOutlivesUse ==
  \A c \in Client, t \in Token :
    (local[c][t].endpoint \/ Msg("Install", t) \in ToSet(to_client[c])) => Holds(t)

\* Whoever may post finds the other side installed, on its way out or gone:
\* nobody is active alone.
ActiveTogether ==
  \A c \in Client, t \in Token : local[c][t].phase = "active" =>
    \/ local[Peer(c)][t].endpoint \/ local[Peer(c)][t].phase = "closing"
    \/ Peer(c) \in terminal

Answers(c) == /\ record # NoRecord
              /\ record.side[c].slot

Count(queue, kind) == Cardinality({i \in DOMAIN queue : queue[i].kind = kind})

\* A request that the client waits for is in one place: on its way to the
\* Host, in the record's slot or answered; one that it does not wait for is
\* nowhere, so that no result is taken for the answer to a later request.
OneAnswer ==
  ~failed => \A c \in Client \ terminal :
    Count(to_host[c], "Request") + Count(to_client[c], "Result") + (IF Answers(c) THEN 1 ELSE 0)
      = IF request[c] \in {"pending", "cancelled"} THEN 1 ELSE 0

\* Every open() gets its result, unless the thread ends or the Host has failed.
OpenIsAnswered ==
  \A c \in Client : request[c] = "pending" ~> request[c] \notin {"pending", "cancelled"} \/ failed

\* A connection that is closing is taken down: the handshake of closing,
\* quiescent and retired never waits for itself, even if a thread ends in it.
ClosingEnds ==
  \A t \in Token : (Holds(t) /\ record.phase = "closing") ~> ~Holds(t)

==============================================================================
