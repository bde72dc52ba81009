------------------------------ MODULE OwnerWake -------------------------------
(***************************************************************************)
(* COwnerWait and CNotification, the way the Host uses them: publishers    *)
(* put something where the Host will look for it, and then signal, some of *)
(* them through the CNotification of a pumped client; the Host's loop      *)
(* begins a cycle, drains every source a bounded number of times, pumps    *)
(* the client, and parks on a manual-reset event when nothing is left.     *)
(* Both layers coalesce signals: a publisher that finds the pending bit    *)
(* set wakes nobody.                                                       *)
(*                                                                         *)
(* One step is one atomic access, one native call or the drain of one      *)
(* source.  This is the Windows build with its event; release(), which the *)
(* Host never calls, is left out.                                          *)
(***************************************************************************)
EXTENDS Integers

CONSTANTS Direct,           \* publishers that signal the COwnerWait
          Notified,         \* publishers that signal the CNotification
          Publications,     \* how often each of them publishes
          Burst             \* what one turn reads of one source: 64

ASSUME WakeAssumption == /\ Direct \cap Notified = {}
                         /\ Publications \in Nat
                         /\ Burst \in Nat \ {0}

VARIABLES posted, seen,         \* by each publisher: published, and read by the Host
          pending,              \* k_pending of COwnerWait::m_state
          event,                \* m_native, the manual-reset event
          failure,              \* m_failure
          notification,         \* k_pending of CNotification::m_state
          refused,              \* k_failed of CNotification::m_state
          hint,                 \* SClientRecord::notifications_pending
          signaller,                   \* each publisher's place in signal()
          owner,                \* the Host's place in run() and wait()
          remaining,            \* sources not yet drained in this turn
          turn_pending,         \* m_turn_pending
          wait_failed           \* m_wait_failed

publisherVars    == <<posted, signaller>>
notificationVars == <<notification, refused, hint>>
hostVars         == <<seen, owner, remaining, turn_pending, wait_failed>>
wakeVars == <<publisherVars, notificationVars, hostVars, pending, event, failure>>

Publisher == Direct \cup Notified

WakeInit == /\ posted = [p \in Publisher |-> 0]
            /\ seen = [p \in Publisher |-> 0]
            /\ pending = FALSE /\ event = FALSE /\ failure = FALSE
            /\ notification = FALSE /\ refused = FALSE /\ hint = FALSE
            /\ signaller = [p \in Publisher |-> "idle"]
            /\ owner = "reset"
            /\ remaining = {}
            /\ turn_pending = FALSE /\ wait_failed = FALSE

(* ------------------------------- publishers ----------------------------- *)

Moves(p, from, to) == signaller[p] = from /\ signaller' = [signaller EXCEPT ![p] = to]

\* What is published comes before the signal.
PublishWork(p) ==
  /\ Moves(p, "idle", IF p \in Direct THEN "signal" ELSE "notify")
  /\ posted[p] < Publications
  /\ posted' = [posted EXCEPT ![p] = @ + 1]
  /\ UNCHANGED <<notificationVars, hostVars, pending, event, failure>>

\* CNotification::signal(): a publisher that finds the bit set is done.
Notify(p) ==
  /\ Moves(p, "notify", IF refused \/ notification THEN "idle" ELSE "hint")
  /\ notification' = TRUE
  /\ UNCHANGED <<posted, refused, hint, hostVars, pending, event, failure>>

StoreHint(p) ==
  /\ Moves(p, "hint", "signal")
  /\ hint' = TRUE
  /\ UNCHANGED <<posted, notification, refused, hostVars, pending, event, failure>>

\* COwnerWait::signal(): the fetch_or, the load of m_failure, SetEvent().
Signal(p) ==
  /\ Moves(p, "signal", IF pending THEN "coalesced" ELSE "first")
  /\ pending' = TRUE
  /\ UNCHANGED <<posted, notificationVars, hostVars, event, failure>>

CheckFailure(p) ==
  /\ signaller[p] \in {"coalesced", "first"}
  /\ signaller' = [signaller EXCEPT ![p] = IF failure THEN "failed" ELSE IF @ = "first" THEN "set" ELSE "idle"]
  /\ UNCHANGED <<posted, notificationVars, hostVars, pending, event, failure>>

SetEvent(p) ==
  /\ Moves(p, "set", "idle")
  /\ event' = TRUE
  /\ UNCHANGED <<posted, notificationVars, hostVars, pending, failure>>

SetEventFails(p) ==
  /\ Moves(p, "set", "failed")
  /\ failure' = TRUE
  /\ UNCHANGED <<posted, notificationVars, hostVars, pending, event>>

\* signal() returns false; the CNotification remembers it.
SignalFailed(p) ==
  /\ Moves(p, "failed", "idle")
  /\ refused' = (refused \/ p \in Notified)
  /\ UNCHANGED <<posted, notification, hint, hostVars, pending, event, failure>>

(* ------------------------------ the Host's turn ------------------------- *)

LateAcknowledge ==      \* fault: the cycle is acknowledged after the turn
  [reset |-> "direct", direct |-> "hint", hint |-> "clear", clear |-> "drain",
   drain |-> "ack", ack |-> "turned"]

\* begin_cycle() comes before every check: the event, the pending bit, the
\* threads' queues, and the pumped client, which clears and then drains.
Then == [reset |-> "ack", ack |-> "direct", direct |-> "hint", hint |-> "clear",
         clear |-> "drain", drain |-> "turned"]

BeginTurn == remaining' = Publisher /\ turn_pending' = FALSE

\* begin_cycle(): ResetEvent() and then the acknowledgement.
ResetEvent ==
  /\ owner = "reset" /\ ~wait_failed /\ ~failure
  /\ owner' = Then.reset
  /\ event' = FALSE
  /\ BeginTurn
  /\ UNCHANGED <<publisherVars, notificationVars, seen, wait_failed, pending, failure>>

\* Without a wait that works the turns go on, and nothing is acknowledged.
SkipCycle ==
  /\ owner = "reset" /\ (wait_failed \/ failure)
  /\ owner' = "direct"
  /\ wait_failed' = TRUE
  /\ BeginTurn
  /\ UNCHANGED <<publisherVars, notificationVars, seen, pending, event, failure>>

ResetEventFails ==
  /\ owner = "reset" /\ ~wait_failed /\ ~failure
  /\ owner' = "direct"
  /\ failure' = TRUE /\ wait_failed' = TRUE
  /\ BeginTurn
  /\ UNCHANGED <<publisherVars, notificationVars, seen, pending, event>>

Acknowledge ==
  /\ owner = "ack"
  /\ owner' = Then.ack
  /\ pending' = FALSE
  /\ UNCHANGED <<publisherVars, notificationVars, seen, remaining, turn_pending,
                 wait_failed, event, failure>>

ReadNow(p) == IF posted[p] - seen[p] < Burst THEN posted[p] - seen[p] ELSE Burst

IgnoredBurst(p) == FALSE        \* fault: a full burst is taken for an empty queue

\* A full burst may have left something behind, and asks for another turn.
UnfinishedDrain(p) == ReadNow(p) = Burst

ReadUpTo(p) == seen[p] + ReadNow(p)

Drain(p) ==
  /\ p \in remaining
  /\ owner = IF p \in Direct THEN "direct" ELSE "drain"
  /\ seen' = [seen EXCEPT ![p] = ReadUpTo(p)]
  /\ remaining' = remaining \ {p}
  /\ turn_pending' = (turn_pending \/ UnfinishedDrain(p))
  /\ UNCHANGED <<publisherVars, notificationVars, owner, wait_failed, pending, event, failure>>

\* From the threads to the pump, and from the pump to the end of the turn.
Drained ==
  /\ \/ owner = "direct" /\ remaining \cap Direct = {}
     \/ owner = "drain" /\ remaining \cap Notified = {}
  /\ owner' = Then[owner]
  /\ UNCHANGED <<publisherVars, notificationVars, seen, remaining, turn_pending,
                 wait_failed, pending, event, failure>>

TakeHint ==
  /\ owner = "hint"
  /\ owner' = Then.hint
  /\ hint' = FALSE
  /\ UNCHANGED <<publisherVars, notification, refused, seen, remaining, turn_pending,
                 wait_failed, pending, event, failure>>

clear_pending ==
  /\ owner = "clear"
  /\ owner' = Then.clear
  /\ notification' = FALSE
  /\ UNCHANGED <<publisherVars, refused, hint, seen, remaining, turn_pending,
                 wait_failed, pending, event, failure>>

(* ------------------------------ the Host's wait ------------------------- *)

OwnerGoes(to) == /\ owner' = to
                 /\ UNCHANGED <<publisherVars, notificationVars, seen, remaining,
                                turn_pending, pending, event, failure>>

EndTurn ==
  /\ owner = "turned"
  /\ wait_failed' = (wait_failed \/ failure)
  /\ OwnerGoes(IF turn_pending \/ wait_failed' THEN "reset" ELSE "check")

\* wait(): m_state, then m_failure, then the deadline.
CheckState ==
  /\ owner = "check"
  /\ OwnerGoes(IF pending THEN "reset" ELSE "error")
  /\ UNCHANGED wait_failed

CheckError ==
  /\ owner = "error"
  /\ wait_failed' = failure
  /\ OwnerGoes(IF failure THEN "reset" ELSE "deadline")

\* The deadline has passed; a signal that came in meanwhile wins over it.
Expire ==
  /\ owner = "deadline"
  /\ OwnerGoes(IF pending THEN "check" ELSE "reset")
  /\ UNCHANGED wait_failed

Park ==
  /\ owner = "deadline"
  /\ OwnerGoes("parked")
  /\ UNCHANGED wait_failed

\* The event ends the wait, with a failure if there has been one.
Awake ==
  /\ owner = "parked" /\ event
  /\ wait_failed' = failure
  /\ OwnerGoes("reset")

\* The native wait times out and the loop looks again, or there is input for
\* the window and the wait is over.
ParkEnds ==
  /\ owner = "parked"
  /\ \E to \in {"check", "reset"} : OwnerGoes(to)
  /\ UNCHANGED wait_failed

(* ------------------------------------------------------------------------ *)

SignalStep(p) == \/ Notify(p) \/ StoreHint(p) \/ Signal(p) \/ CheckFailure(p)
                 \/ SetEvent(p) \/ SetEventFails(p) \/ SignalFailed(p)

HostStep == \/ ResetEvent \/ SkipCycle \/ ResetEventFails \/ Acknowledge
            \/ (\E p \in Publisher : Drain(p)) \/ Drained \/ TakeHint \/ clear_pending
            \/ EndTurn \/ CheckState \/ CheckError \/ Park \/ Awake

WakeNext == \/ \E p \in Publisher : PublishWork(p) \/ SignalStep(p)
            \/ HostStep
            \/ Expire
            \/ ParkEnds

WakeSpec == WakeInit /\ [][WakeNext]_wakeVars

\* Threads run; no timeout and no input has to come to the Host's help.
WakeFairness == WF_wakeVars(HostStep) /\ \A p \in Publisher : WF_wakeVars(SignalStep(p))

WakeFairSpec == WakeSpec /\ WakeFairness

(* ------------------------------- properties ----------------------------- *)

Place == {"idle", "notify", "hint", "signal", "coalesced", "first", "set", "failed"}
Stage == {"reset", "ack", "direct", "hint", "clear", "drain", "turned", "check", "error",
          "deadline", "parked"}

\* The Host never reads what has not been published, and each place is one of
\* the steps of signal(), begin_cycle(), run_turn() and wait().
WakeTypeOK ==
  /\ posted \in [Publisher -> 0..Publications]
  /\ seen \in [Publisher -> 0..Publications]
  /\ \A p \in Publisher : seen[p] <= posted[p]
  /\ pending \in BOOLEAN /\ event \in BOOLEAN /\ failure \in BOOLEAN
  /\ notification \in BOOLEAN /\ refused \in BOOLEAN /\ hint \in BOOLEAN
  /\ signaller \in [Publisher -> Place]
  /\ owner \in Stage
  /\ remaining \in SUBSET Publisher
  /\ turn_pending \in BOOLEAN /\ wait_failed \in BOOLEAN

Unseen(p) == seen[p] < posted[p]

\* The places from which a publisher still goes on to set the event.
Waking(p) == signaller[p] \in {"notify", "hint", "signal", "first", "set"}

\* The Host does not sleep on unread work: while it is parked on an event that
\* is not set and something is unread, somebody is still on the way to
\* SetEvent(), however the signals were coalesced (or the event has failed).
NoLostWake ==
  owner = "parked" /\ ~event /\ ~failure =>
    \A p \in Publisher : Unseen(p) => \E q \in Publisher : Waking(q)

\* Everything published is read by the Host in the end, without the help of a
\* timeout, unless the native event fails.
WorkIsHandled ==
  \A p \in Publisher, n \in 1..Publications : posted[p] = n ~> seen[p] >= n \/ failure
==============================================================================
