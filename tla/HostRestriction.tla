-------------------------- MODULE HostRestriction --------------------------
(***************************************************************************)
(* Restricted time.  While a pumped module sits in a native modal loop the *)
(* clients cannot make progress, and the budgets their watchdogs run on    *)
(* must not be charged for it.  The Host publishes when it is restricted   *)
(* through a sequence lock (CHostRestrictionPublication), fed by the scope *)
(* counting of CHostRestrictions; a client thread reads it, and the clock  *)
(* between two readings, through CHostEligibleBudget.                      *)
(*                                                                         *)
(* Every load and store of an atomic word is a step.  The snapshot keeps   *)
(* the words that a budget depends on; identities and reasons, which it    *)
(* only carries along, are left out.                                       *)
(***************************************************************************)
EXTENDS Naturals, Sequences

CONSTANTS
    TerminalRevision,   \* k_terminal_revision: even, the last revision
    MaxDepth,           \* scopes open at once (64)
    ReadAttempts,       \* attempts of one read (4)
    SampleAttempts,     \* attempts of one sample (4)
    Duration,           \* of the budget
    MaxClock            \* bound: the clock stops here

ASSUME RestrictionAssumption ==
    /\ TerminalRevision \in Nat /\ TerminalRevision % 2 = 0 /\ TerminalRevision >= 4
    /\ MaxDepth \in Nat \ {0}
    /\ ReadAttempts \in Nat /\ SampleAttempts \in Nat
    /\ Duration \in Nat /\ MaxClock \in Nat

VARIABLES
    rev,        \* m_revision
    words,      \* m_words: the published snapshot, word by word
    st,         \* m_state of CHostRestrictions
    host,       \* control state of the Host thread
    clock,      \* the awake clock
    truth,      \* history: eligible time so far, and whether it is running
    budget          \* the budget and the reading it is making

restriction == <<rev, words, st, host, clock, truth, budget>>

Words == <<"completed", "start", "depth", "sampling", "error">>     \* in store order

Idle == [pc |-> "idle", goal |-> 0, next |-> 1, then |-> "idle", call |-> "none", ending |-> FALSE]

Blank == [completed |-> 0, start |-> 0, depth |-> 0, sampling |-> 0, error |-> 0]

NoReading == [pc |-> "idle", attempt |-> 1, inner |-> 1, i |-> 1, second |-> FALSE, seen |-> 0, cand |-> Blank,
              before |-> Blank, first |-> 0, awake |-> 0, due |-> 0]

RestrictionInit ==
    /\ st = Blank
    /\ rev = 2 /\ words = st
    /\ host = Idle
    /\ clock = 0
    /\ truth = [eligible |-> 0, restricted |-> FALSE]
    /\ budget = [at |-> NoReading,
             status |-> "new", from |-> 0, last |-> 0, lastAwake |-> 0, error |-> "none", fair |-> TRUE]

-----------------------------------------------------------------------------
(* Publication: the revision is odd while the words are being stored.      *)

CanPublish(count) ==
    rev % 2 = 0 /\ rev < TerminalRevision /\ count * 2 <= TerminalRevision - 2 - rev

Failed == st.error = 1

(* A seeded fault: the revision stays even while the words change.         *)
UnmarkedStore(s, goal, then) ==
    /\ st' = s /\ UNCHANGED rev
    /\ host' = [host EXCEPT !.pc = "store", !.goal = goal, !.next = 1, !.then = then]

BeginStore(s, goal, then) ==
    /\ st' = s
    /\ rev' = goal - 1
    /\ host' = [host EXCEPT !.pc = "store", !.goal = goal, !.next = 1, !.then = then]

(* fail: the first failure is stored under the terminal revision.          *)
Fail(s, then) == BeginStore([s EXCEPT !.error = 1, !.sampling = 0], TerminalRevision, then)

PublishSnapshot(s, then) ==
    \/ CanPublish(1) /\ BeginStore(s, rev + 2, then)
    \/ ~CanPublish(1) /\ Fail(s, then)

StoreWord ==
    /\ host.pc = "store" /\ host.next <= Len(Words)
    /\ words' = [words EXCEPT ![Words[host.next]] = st[Words[host.next]]]
    /\ host' = [host EXCEPT !.next = @ + 1]
    /\ UNCHANGED <<rev, st, clock, truth, budget>>

StoreRevision ==
    /\ host.pc = "store" /\ host.next > Len(Words)
    /\ rev' = host.goal
    /\ host' = [host EXCEPT !.pc = host.then, !.next = 1, !.goal = 0, !.then = "idle"]
    /\ UNCHANGED <<words, st, clock, truth, budget>>

-----------------------------------------------------------------------------
(* Scopes.  The first one entered and the last one left are boundaries:    *)
(* readers are told that the clock is being sampled until it has been.     *)

(* A seeded fault: readers are not told that a boundary is being sampled.  *)
SilentBoundary(then) ==
    /\ CanPublish(2)
    /\ host' = [host EXCEPT !.pc = then] /\ UNCHANGED <<st, rev>>

SampleBoundary(then) ==
    \/ CanPublish(2) /\ PublishSnapshot([st EXCEPT !.sampling = 1], then)
    \/ ~CanPublish(2) /\ Fail(st, IF then = "leave" THEN "close" ELSE "idle")

BeginInvocation ==
    /\ host.pc = "idle" /\ host.call = "none"
    /\ \E allow \in {"restricting", "plain"} : host' = [host EXCEPT !.call = allow]
    /\ UNCHANGED <<rev, words, st, clock, truth, budget>>

Enter ==
    /\ host.pc = "idle" /\ host.call = "restricting" /\ ~host.ending
    /\ ~Failed /\ st.depth < MaxDepth
    /\ \/ st.depth = 0 /\ SampleBoundary("enter")
       \/ st.depth > 0 /\ CanPublish(1) /\ PublishSnapshot([st EXCEPT !.depth = @ + 1], "idle")
       \/ st.depth > 0 /\ ~CanPublish(1) /\ Fail(st, "idle")
    /\ UNCHANGED <<words, clock, truth, budget>>

EnterSampled ==
    /\ host.pc = "enter"
    /\ \/ /\ st' = [st EXCEPT !.sampling = 0, !.start = clock, !.depth = 1]
          /\ host' = [host EXCEPT !.pc = "publish"] /\ UNCHANGED rev
          /\ truth' = [truth EXCEPT !.restricted = TRUE]
       \/ Fail(st, "idle") /\ UNCHANGED truth       \* the clock could not be read
    /\ UNCHANGED <<words, clock, budget>>

Closed(s) == [s EXCEPT !.depth = @ - 1, !.start = IF s.depth = 1 THEN 0 ELSE @]

Leave ==
    /\ host.pc = "idle" /\ host.call # "none" /\ st.depth > 0
    /\ IF Failed THEN st' = Closed(st) /\ UNCHANGED <<rev, host>>
       ELSE \/ st.depth = 1 /\ SampleBoundary("leave")
            \/ st.depth > 1 /\ PublishSnapshot(Closed(st), "idle")
    /\ UNCHANGED <<words, clock, truth, budget>>

LeaveSampled ==
    /\ host.pc = "leave"
    /\ \/ /\ st' = Closed([st EXCEPT !.sampling = 0, !.completed = @ + (clock - st.start)])
          /\ host' = [host EXCEPT !.pc = "publish"] /\ UNCHANGED rev
          /\ truth' = [truth EXCEPT !.restricted = FALSE]
       \/ Fail(st, "close") /\ UNCHANGED truth
    /\ UNCHANGED <<words, clock, budget>>

(* The publication that ends a sampled boundary.                           *)
PublishBoundary ==
    /\ host.pc = "publish"
    /\ PublishSnapshot(st, "idle")
    /\ UNCHANGED <<words, clock, truth, budget>>

(* After a failure the scope is closed all the same, without publication.  *)
CloseFailed ==
    /\ host.pc = "close"
    /\ st' = Closed(st) /\ host' = [host EXCEPT !.pc = "idle"]
    /\ UNCHANGED <<rev, words, clock, truth, budget>>

(* end_invocation leaves whatever scopes the module left open.             *)
EndInvocation ==
    /\ host.pc = "idle" /\ host.call # "none"
    /\ host' = IF st.depth = 0 THEN [host EXCEPT !.call = "none", !.ending = FALSE]
               ELSE [host EXCEPT !.ending = TRUE]
    /\ host' # host
    /\ UNCHANGED <<rev, words, st, clock, truth, budget>>

-----------------------------------------------------------------------------
(* A budget: start, then any number of observe calls, each one a sample:   *)
(* the snapshot, the clock, and the snapshot again under the same revision.*)

NextRead(r) ==
    IF r.at.inner < ReadAttempts THEN [r EXCEPT !.at.pc = "revision", !.at.inner = @ + 1, !.at.i = 1, !.at.cand = Blank]
    ELSE [r EXCEPT !.at.pc = "retry"]

BeginSample ==
    /\ budget.at.pc = "idle" /\ budget.status \in {"new", "running", "restricted"}
    /\ budget' = [budget EXCEPT !.at = [NoReading EXCEPT !.pc = "revision"]]
    /\ UNCHANGED <<rev, words, st, host, clock, truth>>

ReadRevision ==
    /\ budget.at.pc = "revision"
    /\ budget' = IF rev % 2 = 1 THEN NextRead(budget)
             ELSE [budget EXCEPT !.at.pc = "words", !.at.seen = rev]
    /\ UNCHANGED <<rev, words, st, host, clock, truth>>

ReadWord ==
    /\ budget.at.pc = "words" /\ budget.at.i <= Len(Words)
    /\ budget' = [budget EXCEPT !.at.cand[Words[budget.at.i]] = words[Words[budget.at.i]], !.at.i = @ + 1]
    /\ UNCHANGED <<rev, words, st, host, clock, truth>>

(* The result of one sample; it is compared with the time the Host was in  *)
(* fact unrestricted when the clock was read.                              *)
Sampled(r) ==
    LET b == r.at.before
        awake == r.at.awake
        eligible == (IF b.depth > 0 THEN b.start ELSE awake) - b.completed
        broken == \/ awake < b.completed
                  \/ b.depth > 0 /\ (awake < b.start \/ b.start < b.completed)
        state == IF b.depth > 0 THEN "restricted" ELSE "running"
    IN  IF broken THEN [r EXCEPT !.status = "failed", !.error = "overflow"]
        ELSE IF r.status = "new"
        THEN [r EXCEPT !.status = IF Duration = 0 THEN "expired" ELSE state, !.fair = eligible = r.at.due,
                       !.from = eligible, !.last = eligible, !.lastAwake = awake]
        ELSE IF eligible < r.last \/ awake < r.lastAwake
        THEN [r EXCEPT !.status = "failed", !.error = "invalid"]
        ELSE [r EXCEPT !.status = IF eligible - r.from >= Duration THEN "expired" ELSE state,
                       !.fair = eligible = r.at.due, !.last = eligible, !.lastAwake = awake]

Done(r) == [r EXCEPT !.at = NoReading]

(* The second load of the revision, and what read and sample make of it.   *)
CheckRevision ==
    /\ budget.at.pc = "words" /\ budget.at.i > Len(Words)
    /\ budget' = IF rev # budget.at.seen THEN NextRead(budget)
             ELSE IF budget.at.cand.error = 1
             THEN IF budget.at.second THEN [budget EXCEPT !.at.pc = "retry"]
                  ELSE Done([budget EXCEPT !.status = "failed", !.error = "host"])
             ELSE IF budget.at.cand.sampling = 1 THEN [budget EXCEPT !.at.pc = "retry"]
             ELSE IF ~budget.at.second THEN [budget EXCEPT !.at.pc = "clock", !.at.before = budget.at.cand, !.at.first = budget.at.seen,
                                                       !.at.i = 1, !.at.cand = Blank]
             ELSE IF budget.at.first # budget.at.seen THEN [budget EXCEPT !.at.pc = "retry"]
             ELSE Done(Sampled(budget))
    /\ UNCHANGED <<rev, words, st, host, clock, truth>>

ReadClock ==
    /\ budget.at.pc = "clock"
    /\ budget' \in {[budget EXCEPT !.at = [@ EXCEPT !.pc = "revision", !.inner = 1, !.second = TRUE,
                                            !.awake = clock, !.due = truth.eligible]],
                Done([budget EXCEPT !.status = "failed", !.error = "clock"])}
    /\ UNCHANGED <<rev, words, st, host, clock, truth>>

(* A sample that runs out of attempts reports retry; a start then fails.   *)
Retry ==
    /\ budget.at.pc = "retry"
    /\ budget' = IF budget.at.attempt < SampleAttempts
             THEN [budget EXCEPT !.at = [NoReading EXCEPT !.pc = "revision", !.attempt = budget.at.attempt + 1]]
             ELSE Done([budget EXCEPT !.status = IF @ = "new" THEN "unstarted" ELSE @])
    /\ UNCHANGED <<rev, words, st, host, clock, truth>>

Tick ==
    /\ clock < MaxClock
    /\ clock' = clock + 1
    /\ truth' = [truth EXCEPT !.eligible = IF truth.restricted THEN @ ELSE @ + 1]
    /\ UNCHANGED <<rev, words, st, host, budget>>

RestrictionNext ==
    \/ StoreWord \/ StoreRevision
    \/ BeginInvocation \/ Enter \/ EnterSampled \/ Leave \/ LeaveSampled \/ PublishBoundary
    \/ CloseFailed \/ EndInvocation
    \/ BeginSample \/ ReadRevision \/ ReadWord \/ CheckRevision \/ ReadClock \/ Retry
    \/ Tick

RestrictionSpec == RestrictionInit /\ [][RestrictionNext]_restriction

-----------------------------------------------------------------------------
RestrictionTypeOK ==
    /\ rev \in 1..TerminalRevision
    /\ st.depth \in 0..MaxDepth /\ st.sampling \in 0..1 /\ st.error \in 0..1
    /\ st.completed \in 0..MaxClock /\ st.start \in 0..MaxClock
    /\ host.call \in {"none", "plain", "restricting"}
    /\ budget.status \in {"new", "unstarted", "running", "restricted", "expired", "failed"}

(* Restricted time is never charged to a budget, nor eligible time lost:   *)
(* whatever the Host does while a client samples, the eligible time the    *)
(* sample comes to is the time the Host had in fact been unrestricted for  *)
(* when the client read the clock.                                         *)
RestrictedTimeIsFree == budget.fair

(* A watchdog fails only because the Host has failed or a clock has: its   *)
(* eligible time never appears to run backwards, however samples and       *)
(* scopes interleave.                                                      *)
NoSpuriousFailure == budget.status = "failed" => budget.error \in {"clock", "host"} /\ (budget.error = "host" => Failed)

=============================================================================
