------------------------------- MODULE BatchWork -------------------------------
(***************************************************************************)
(* CBatchClient, CBatchPool and the part of CThreadPackage that retires a  *)
(* requesting thread: requesters submit work to one shared channel, a pool *)
(* of runners executes it and sends one response each into the requester's *)
(* own return channel; both sides park on the word of a CWaitPredicate.    *)
(*                                                                         *)
(* Each channel is a TMpmcArenaTransport: a queue and a stock of free      *)
(* slots.  An item whose publisher is still inside publish() blocks the    *)
(* head of its queue, as in TMpmcIndexRing.  A parked thread's epoch is    *)
(* abstracted to whether the word still has the value that it read; the    *)
(* 2^32 - 1 pokes that would bring the word round to that value again      *)
(* while the thread has not parked are taken never to happen.  One step is *)
(* one atomic access or one channel operation; a runner reads the exit flag *)
(* and the word at the top of its loop in one step, since it reads the flag *)
(* again before it parks.  The signals to the host's own wait are left out: *)
(* here the host polls.                                                    *)
(***************************************************************************)
EXTENDS Integers, Sequences, FiniteSets

CONSTANTS Requester, Runner,
          Correlation,      \* the correlations a requester uses
          Watched,          \* the ones whose return is checked: they only serve
                            \* as names, so one of them stands for all
          Capacity          \* k_batch_channel_capacity

ASSUME BatchAssumption ==
  /\ Capacity \in Nat \ {0} /\ Watched \subseteq Correlation
  /\ Runner # {} /\ IsFiniteSet(Runner) /\ Requester \cap Runner = {}

VARIABLES work, work_free,          \* m_shared.work
          returns, returns_free,    \* m_returns of each requester
          pending,                  \* m_pending: correlations of each requester
          outstanding,              \* m_outstanding
          return_publishers,        \* m_return_publishers
          unchanged,                \* the threads whose epoch is still the word
          parked,                   \* the threads parked on their word
          exit_requested,           \* the threads told to exit
          released,                 \* the requesters whose word is released
          pool_released,            \* the runners' word is released
          pc, job, progressed, host \* places and locals

channelVars == <<work, work_free, returns, returns_free>>
creditVars  == <<pending, outstanding, return_publishers>>
wordVars    == <<unchanged, parked, released, pool_released>>
vars == <<channelVars, creditVars, wordVars, exit_requested, pc, job, progressed, host>>

Thread == Requester \cup Runner
Items  == Requester \X Correlation
NoItem == << >>

From(item) == item[1]

Init ==
  /\ work = << >> /\ work_free = Capacity
  /\ returns = [q \in Requester |-> << >>]
  /\ returns_free = [q \in Requester |-> Capacity]
  /\ pending = [q \in Requester |-> {}]
  /\ outstanding = [q \in Requester |-> 0]
  /\ return_publishers = [q \in Requester |-> 0]
  /\ unchanged = {} /\ parked = {}
  /\ exit_requested = {} /\ released = {} /\ pool_released = FALSE
  /\ pc = [t \in Thread |-> "top"]
  /\ job = [t \in Thread |-> NoItem]
  /\ progressed = [t \in Thread |-> FALSE]
  /\ host = [q \in Requester |-> "serving"]

Go(t, from, to) == pc[t] = from /\ pc' = [pc EXCEPT ![t] = to]

\* The items whose publish() has claimed its place and not yet released it.
Unready == {job[t] : t \in {u \in Thread : pc[u] \in {"releasing", "r_releasing"}}}

Readable(queue) == queue # << >> /\ Head(queue) \notin Unready

\* wake_one_waiter() on the word that the given threads park on.
WakeOne(waiters) ==
  IF parked \cap waiters = {} THEN UNCHANGED parked
  ELSE \E t \in parked \cap waiters : parked' = parked \ {t}

(* ------------------------------- requester ------------------------------ *)

\* The requester's loop (rendering_thread.cpp): read the word, receive, submit,
\* leave when told to and nothing is pending, park when nothing happened.
BeginPass(q) ==
  /\ Go(q, "top", "receive")
  /\ unchanged' = unchanged \cup {q}
  /\ progressed' = [progressed EXCEPT ![q] = FALSE]
  /\ UNCHANGED <<channelVars, creditVars, parked, released, pool_released,
                 exit_requested, job, host>>

receive(q) ==
  /\ Go(q, "receive", "recycle")
  /\ Readable(returns[q])
  /\ job' = [job EXCEPT ![q] = Head(returns[q])]
  /\ returns' = [returns EXCEPT ![q] = Tail(@)]
  /\ progressed' = [progressed EXCEPT ![q] = TRUE]
  /\ UNCHANGED <<work, work_free, returns_free, creditVars, wordVars, exit_requested, host>>

ReceiveNone(q) ==
  /\ Go(q, "receive", "submit")
  /\ ~Readable(returns[q])
  /\ UNCHANGED <<channelVars, creditVars, wordVars, exit_requested, job, progressed, host>>

KeptReturn(q) ==            \* fault: the return slot is never recycled
  /\ Go(q, "recycle", "credit")
  /\ UNCHANGED <<channelVars, creditVars, wordVars, exit_requested, job, progressed, host>>

\* The credit comes back only after the return slot is reusable.
RecycleReturn(q) ==
  /\ Go(q, "recycle", "credit")
  /\ returns_free' = [returns_free EXCEPT ![q] = @ + 1]
  /\ UNCHANGED <<work, work_free, returns, creditVars, wordVars, exit_requested,
                 job, progressed, host>>

RestoreCredit(q) ==
  /\ Go(q, "credit", "receive")
  /\ pending' = [pending EXCEPT ![q] = @ \ {job[q]}]
  /\ outstanding' = [outstanding EXCEPT ![q] = @ - 1]
  /\ job' = [job EXCEPT ![q] = NoItem]
  /\ UNCHANGED <<channelVars, return_publishers, wordVars, exit_requested, progressed, host>>

DuplicateBlind(q, item) ==  \* fault: submit() does not look for duplicates
  q \notin exit_requested /\ outstanding[q] < Capacity

\* submit() accepts work that is not a duplicate while there is credit and a
\* slot; otherwise it runs the work itself (or rejects it).
Submittable(q, item) ==
  /\ q \notin exit_requested
  /\ item \notin pending[q]
  /\ outstanding[q] < Capacity

submit(q, item) ==
  /\ Go(q, "submit", "publish")
  /\ Submittable(q, item)
  /\ work_free > 0
  /\ work_free' = work_free - 1
  /\ pending' = [pending EXCEPT ![q] = @ \cup {item}]
  /\ outstanding' = [outstanding EXCEPT ![q] = @ + 1]
  /\ job' = [job EXCEPT ![q] = item]
  /\ progressed' = [progressed EXCEPT ![q] = TRUE]
  /\ UNCHANGED <<work, returns, returns_free, return_publishers, wordVars,
                 exit_requested, host>>

\* Inline work, a rejection, or no wish to submit.
SubmitNothing(q) ==
  /\ Go(q, "submit", "decide")
  /\ UNCHANGED <<channelVars, creditVars, wordVars, exit_requested, job, progressed, host>>

PublishWork(q) ==
  /\ Go(q, "publish", "releasing")
  /\ work' = Append(work, job[q])
  /\ UNCHANGED <<work_free, returns, returns_free, creditVars, wordVars,
                 exit_requested, job, progressed, host>>

ReleaseWork(q) ==
  /\ Go(q, "releasing", "poke")
  /\ job' = [job EXCEPT ![q] = NoItem]
  /\ UNCHANGED <<channelVars, creditVars, wordVars, exit_requested, progressed, host>>

\* poke_epoch_and_wake_one(): the word, then the wake.
PokeRunners(q) ==
  /\ Go(q, "poke", "wake")
  /\ unchanged' = unchanged \ Runner
  /\ UNCHANGED <<channelVars, creditVars, parked, released, pool_released,
                 exit_requested, job, progressed, host>>

WakeRunner(q) ==
  /\ Go(q, "wake", "submit")
  /\ WakeOne(Runner)
  /\ UNCHANGED <<channelVars, creditVars, unchanged, released, pool_released,
                 exit_requested, job, progressed, host>>

Decide(q) ==
  /\ pc[q] = "decide"
  /\ pc' = [pc EXCEPT ![q] =
              IF q \in exit_requested /\ pending[q] = {} THEN "exited"
              ELSE IF progressed[q] THEN "top" ELSE "wait"]
  /\ UNCHANGED <<channelVars, creditVars, wordVars, exit_requested, job, progressed, host>>

(* --------------------------------- runner ------------------------------- *)

WordReleased(t) == IF t \in Runner THEN pool_released ELSE t \in released

BlindPark(t) ==             \* fault: parks without comparing the word to the epoch
  /\ pc[t] = "wait" /\ t \notin parked
  /\ IF ~WordReleased(t)
       THEN parked' = parked \cup {t} /\ UNCHANGED pc
       ELSE pc' = [pc EXCEPT ![t] = "top"] /\ UNCHANGED parked
  /\ UNCHANGED <<channelVars, creditVars, unchanged, released, pool_released,
                 exit_requested, job, progressed, host>>

\* wait_until_not_equal(): the compare and the park are one native step.
Park(t) ==
  /\ pc[t] = "wait" /\ t \notin parked
  /\ IF t \in unchanged /\ ~WordReleased(t)
       THEN parked' = parked \cup {t} /\ UNCHANGED pc
       ELSE pc' = [pc EXCEPT ![t] = "top"] /\ UNCHANGED parked
  /\ UNCHANGED <<channelVars, creditVars, unchanged, released, pool_released,
                 exit_requested, job, progressed, host>>

BeginDrain(r) ==
  /\ pc[r] = "top"
  /\ pc' = [pc EXCEPT ![r] = IF r \in exit_requested THEN "exited" ELSE "acquire"]
  /\ unchanged' = unchanged \cup {r}
  /\ progressed' = [progressed EXCEPT ![r] = FALSE]
  /\ UNCHANGED <<channelVars, creditVars, parked, released, pool_released,
                 exit_requested, job, host>>

Acquire(r) ==
  /\ Go(r, "acquire", "r_recycle")
  /\ Readable(work)
  /\ job' = [job EXCEPT ![r] = Head(work)]
  /\ work' = Tail(work)
  /\ progressed' = [progressed EXCEPT ![r] = TRUE]
  /\ UNCHANGED <<work_free, returns, returns_free, creditVars, wordVars, exit_requested, host>>

AcquireNone(r) ==
  /\ pc[r] = "acquire"
  /\ ~Readable(work)
  /\ pc' = [pc EXCEPT ![r] = IF progressed[r] \/ r \in exit_requested THEN "top" ELSE "wait"]
  /\ UNCHANGED <<channelVars, creditVars, wordVars, exit_requested, job, progressed, host>>

RecycleWork(r) ==
  /\ Go(r, "r_recycle", "execute")
  /\ work_free' = work_free + 1
  /\ UNCHANGED <<work, returns, returns_free, creditVars, wordVars, exit_requested,
                 job, progressed, host>>

\* The work is executed, or discarded for a requester that is exiting; either
\* way complete() is called, and enters.
Execute(r) ==
  /\ Go(r, "execute", "reserve")
  /\ return_publishers' = [return_publishers EXCEPT ![From(job[r])] = @ + 1]
  /\ UNCHANGED <<channelVars, pending, outstanding, wordVars, exit_requested,
                 job, progressed, host>>

\* complete() without a slot to publish in ends undelivered.
ReserveReturn(r) ==
  LET q == From(job[r]) IN
  /\ pc[r] = "reserve"
  /\ IF returns_free[q] > 0
       THEN /\ returns_free' = [returns_free EXCEPT ![q] = @ - 1]
            /\ pc' = [pc EXCEPT ![r] = "r_publish"]
       ELSE pc' = [pc EXCEPT ![r] = "undelivered"] /\ UNCHANGED returns_free
  /\ UNCHANGED <<work, work_free, returns, creditVars, wordVars, exit_requested,
                 job, progressed, host>>

PublishReturn(r) ==
  /\ Go(r, "r_publish", "r_releasing")
  /\ returns' = [returns EXCEPT ![From(job[r])] = Append(@, job[r])]
  /\ UNCHANGED <<work, work_free, returns_free, creditVars, wordVars,
                 exit_requested, job, progressed, host>>

ReleaseReturn(r) ==
  /\ Go(r, "r_releasing", "r_poke")
  /\ UNCHANGED <<channelVars, creditVars, wordVars, exit_requested, job, progressed, host>>

\* The poke of a released word fails and the response counts as undelivered.
PokeRequester(r) ==
  LET q == From(job[r]) IN
  /\ pc[r] = "r_poke"
  /\ pc' = [pc EXCEPT ![r] = IF q \in released THEN "undelivered" ELSE "r_wake"]
  /\ unchanged' = unchanged \ {q}
  /\ UNCHANGED <<channelVars, creditVars, parked, released, pool_released,
                 exit_requested, job, progressed, host>>

WakeRequester(r) ==
  /\ Go(r, "r_wake", "leave")
  /\ WakeOne({From(job[r])})
  /\ UNCHANGED <<channelVars, creditVars, unchanged, released, pool_released,
                 exit_requested, job, progressed, host>>

\* complete() leaves: from here the client may be retired.  An undelivered
\* response ends the runner.
LeaveComplete(r) ==
  /\ pc[r] \in {"leave", "undelivered"}
  /\ pc' = [pc EXCEPT ![r] = IF @ = "leave" THEN "acquire" ELSE "failed"]
  /\ return_publishers' = [return_publishers EXCEPT ![From(job[r])] = @ - 1]
  /\ job' = [job EXCEPT ![r] = NoItem]
  /\ UNCHANGED <<channelVars, pending, outstanding, wordVars, exit_requested,
                 progressed, host>>

(* ---------------------------------- host -------------------------------- *)

\* CThreadPackage::shutdown(): request the exit, poke, join, and release the
\* word once no runner is inside complete().
RequestExit(q) ==
  /\ host[q] = "serving"
  /\ host' = [host EXCEPT ![q] = "poking"]
  /\ exit_requested' = exit_requested \cup {q}
  /\ UNCHANGED <<channelVars, creditVars, wordVars, pc, job, progressed>>

SilentExit(q) ==            \* fault: the exit is requested without a poke
  /\ host[q] = "poking"
  /\ host' = [host EXCEPT ![q] = "waking"]
  /\ UNCHANGED <<channelVars, creditVars, wordVars, exit_requested, pc, job, progressed>>

PokeExit(q) ==
  /\ host[q] = "poking"
  /\ host' = [host EXCEPT ![q] = "waking"]
  /\ unchanged' = unchanged \ {q}
  /\ UNCHANGED <<channelVars, creditVars, parked, released, pool_released,
                 exit_requested, pc, job, progressed>>

WakeExit(q) ==
  /\ host[q] = "waking"
  /\ host' = [host EXCEPT ![q] = "joining"]
  /\ WakeOne({q})
  /\ UNCHANGED <<channelVars, creditVars, unchanged, released, pool_released,
                 exit_requested, pc, job, progressed>>

Joinable(q) == host[q] = "joining" /\ pc[q] = "exited"

HastyRetire(q) ==       \* fault: releases the word without waiting for complete()
  /\ Joinable(q)
  /\ host' = [host EXCEPT ![q] = "retired"]
  /\ released' = released \cup {q}
  /\ UNCHANGED <<channelVars, creditVars, unchanged, parked, pool_released,
                 exit_requested, pc, job, progressed>>

release_wait_control(q) ==
  /\ Joinable(q)
  /\ return_publishers[q] = 0
  /\ host' = [host EXCEPT ![q] = "retired"]
  /\ released' = released \cup {q}
  /\ UNCHANGED <<channelVars, creditVars, unchanged, parked, pool_released,
                 exit_requested, pc, job, progressed>>

\* CBatchPool::stop(), after every requester is gone: each runner is told to
\* exit, the word is released and everyone is woken.
StopRunner(r) ==
  /\ \A q \in Requester : host[q] = "retired"
  /\ r \notin exit_requested
  /\ exit_requested' = exit_requested \cup {r}
  /\ UNCHANGED <<channelVars, creditVars, wordVars, pc, job, progressed, host>>

ReleasePool ==
  /\ Runner \subseteq exit_requested
  /\ ~pool_released
  /\ pool_released' = TRUE
  /\ unchanged' = unchanged \ Runner
  /\ UNCHANGED <<channelVars, creditVars, parked, released, exit_requested, pc,
                 job, progressed, host>>

WakePool ==
  /\ pool_released
  /\ parked \cap Runner # {}
  /\ parked' = parked \ Runner
  /\ UNCHANGED <<channelVars, creditVars, unchanged, released, pool_released,
                 exit_requested, pc, job, progressed, host>>

(* ------------------------------------------------------------------------ *)

RequesterStep(q) ==
  \/ BeginPass(q) \/ receive(q) \/ ReceiveNone(q) \/ RecycleReturn(q) \/ RestoreCredit(q)
  \/ SubmitNothing(q) \/ PublishWork(q) \/ ReleaseWork(q) \/ PokeRunners(q)
  \/ WakeRunner(q) \/ Decide(q) \/ Park(q)

RunnerStep(r) ==
  \/ BeginDrain(r) \/ Acquire(r) \/ AcquireNone(r) \/ RecycleWork(r) \/ Execute(r)
  \/ ReserveReturn(r) \/ PublishReturn(r) \/ ReleaseReturn(r) \/ PokeRequester(r)
  \/ WakeRequester(r) \/ LeaveComplete(r) \/ Park(r)

ShutdownStep(q) == PokeExit(q) \/ WakeExit(q) \/ release_wait_control(q)

StopStep == (\E r \in Runner : StopRunner(r)) \/ ReleasePool \/ WakePool

Next == \/ \E q \in Requester :
             \/ RequesterStep(q)
             \/ \E c \in Correlation : submit(q, <<q, c>>)
             \/ RequestExit(q)
             \/ ShutdownStep(q)
        \/ \E r \in Runner : RunnerStep(r)
        \/ StopStep

Spec == Init /\ [][Next]_vars

\* Every thread runs; nobody has to submit, and no exit has to be requested.
Fairness == /\ \A q \in Requester : WF_vars(RequesterStep(q)) /\ WF_vars(ShutdownStep(q))
            /\ \A r \in Runner : WF_vars(RunnerStep(r))
            /\ WF_vars(StopStep)

FairSpec == Spec /\ Fairness

(* ------------------------------- properties ----------------------------- *)

\* Credits, slots and counts stay in their ranges: the unsigned counters never
\* wrap and no channel gains a slot.
TypeOK ==
  /\ work \in Seq(Items) /\ work_free \in 0..Capacity
  /\ returns \in [Requester -> Seq(Items)]
  /\ returns_free \in [Requester -> 0..Capacity]
  /\ pending \in [Requester -> SUBSET Items]
  /\ outstanding \in [Requester -> 0..Capacity]
  /\ return_publishers \in [Requester -> 0..Cardinality(Runner)]
  /\ unchanged \subseteq Thread /\ parked \subseteq Thread
  /\ exit_requested \subseteq Thread
  /\ released \subseteq Requester /\ pool_released \in BOOLEAN
  /\ job \in [Thread -> Items \cup {NoItem}]
  /\ progressed \in [Thread -> BOOLEAN]

Occurrences(queue, item) == {n \in DOMAIN queue : queue[n] = item}

\* Where an item is: in the work channel, in a return channel, or with the one
\* thread that submits, executes or receives it.
Places(item) ==
       ({"work"} \X Occurrences(work, item))
  \cup ({"returns"} \X Occurrences(returns[From(item)], item))
  \cup ({"with"} \X {t \in Thread : /\ job[t] = item
                                    /\ pc[t] \notin {"releasing", "r_releasing", "r_poke",
                                                     "r_wake", "leave", "undelivered"}})

\* Work that was accepted is in exactly one place until its response has been
\* received, and nothing else is anywhere: it is executed and answered at most
\* once, and a response always finds its m_pending entry.
WorkIsInOnePlace ==
  \A q \in Requester, c \in Correlation :
    Cardinality(Places(<<q, c>>)) = IF <<q, c>> \in pending[q] THEN 1 ELSE 0

\* "every accepted asynchronous work item has guaranteed return space"
\* (CBatchWork.hpp): complete() never ends undelivered, so no runner fails.
EveryResponseIsDelivered == \A r \in Runner : pc[r] \notin {"undelivered", "failed"}

\* A requester's client, channel and word are gone once its package has shut
\* down: no runner still has to touch them.
ClientOutlivesRunners ==
  \A q \in released, r \in Runner : job[r] # NoItem => From(job[r]) # q

\* No wake is lost: accepted work is executed and its response received, even
\* if the requester is told to exit meanwhile, although both sides park.
WorkReturns ==
  \A q \in Requester, c \in Watched : <<q, c>> \in pending[q] ~> <<q, c>> \notin pending[q]

\* Whoever is told to exit does: shutdown() of a requester's package and stop()
\* of the pool come to an end.
Exiting == {t \in exit_requested : pc[t] # "exited"}

ExitCompletes == Exiting # {} ~> Exiting = {}
==============================================================================
