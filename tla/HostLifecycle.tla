--------------------------- MODULE HostLifecycle ---------------------------
(***************************************************************************)
(* Module lifecycle on the Host: CModuleService (one pending operation,    *)
(* performed by a worker), the Host turn that starts and stops a module's  *)
(* thread or pump around it, and the phases of the Host itself.            *)
(*                                                                         *)
(* A turn is two steps, for what happens between them: TurnBegin decides   *)
(* on stops and samples the state of every thread; TurnEnd drains queues,  *)
(* pumps, starts, stops and dispatches.  Threads, the worker and the       *)
(* sources of a Host stop move between any two steps.  Asset operations    *)
(* are the set of clients that have one; service routes are pairs of a     *)
(* client and a provider, idle unless closing (ServiceRouter has them in   *)
(* full).  Every mount point has one implementation, as in the catalogue.  *)
(***************************************************************************)
EXTENDS Naturals, Sequences, FiniteSets, SequencesExt

CONSTANTS
    Executive, Threaded, Pumped,    \* the modules: one, and two disjoint sets
    Catalogue,                      \* the modules in the order of module_ids
    StartTurns, StopTurns,          \* pump calls a module takes to start, to stop
    StopSources,                    \* who may ask the Host to stop
    MaxPosts, MaxFaults             \* bounds: messages of threads, and failures

ASSUME LifecycleAssumption ==
    /\ Executive \notin Threaded \cup Pumped /\ Threaded \cap Pumped = {}
    /\ Catalogue \in Seq({Executive} \cup Threaded \cup Pumped)
    /\ {Executive} \cup Threaded \cup Pumped \subseteq ToSet(Catalogue)
    /\ {StartTurns, StopTurns, MaxPosts, MaxFaults} \subseteq Nat

VARIABLES
    h,          \* the Host, its records, and the queues it shares
    turn,       \* "begin" or "end": the next half of the Host turn
    posts, faults

vars == <<h, turn, posts, faults>>

Modules == {Executive} \cup Threaded \cup Pumped

Threads == {Executive} \cup Threaded

NoPump == [phase |-> "none", stop |-> FALSE, begun |-> FALSE, failed |-> FALSE,
           retained |-> FALSE, off |-> FALSE, left |-> 0]

(* Service is idle: no request in m_work.                                  *)
NoWork == [pending |-> FALSE, in_flight |-> FALSE, start |-> FALSE, purpose |-> "client", action |-> "load",
           module |-> Executive, client |-> Executive, previous |-> FALSE, next |-> FALSE, cleanup |-> FALSE]

Init ==
    /\ h = [phase |-> "starting", change |-> "bootstrap", runtime_failed |-> FALSE, retain |-> FALSE,
            emergency |-> FALSE, asked |-> {}, stop |-> FALSE, applied |-> FALSE, closed |-> FALSE,
            native |-> FALSE, grace |-> "unset", unavailable |-> FALSE, failure_drained |-> FALSE,
            svc |-> NoWork, result |-> "none", svc_failed |-> FALSE, index |-> 1,
            bound |-> {}, started |-> {}, client |-> {},
            thread |-> [m \in Threads |-> "none"], exit |-> {}, observed |-> [m \in Threads |-> "none"],
            drained |-> {}, mail |-> [m \in Threads |-> <<>>], owed |-> [m \in Threads |-> 0],
            pump |-> [p \in Pumped |-> NoPump], routes |-> {}, work |-> {},
            worker |-> "running", job |-> "scan", done |-> "none", ended |-> FALSE]
    /\ turn = "begin" /\ posts = 0 /\ faults = 0

HasThread(g, m) == m \in Threads /\ g.thread[m] # "none"

Terminal(g, m) == g.thread[m] \in {"exited", "failed", "empty"}

(* reply: one of the replies a request has reserved.  A reply to a client  *)
(* whose thread has ended is dropped, and counts as made.                  *)
Reply(g, c) == [g EXCEPT !.owed[c] = @ - 1]

-----------------------------------------------------------------------------
(* CModuleService.                                                         *)

(* finish: the client is told, or the Host's own result is left for it.    *)
Finish(g, status) ==
    LET told == IF g.svc.purpose = "client" THEN Reply(g, g.svc.client) ELSE [g EXCEPT !.result = status]
    IN  [told EXCEPT !.svc = [NoWork EXCEPT !.purpose = g.svc.purpose, !.in_flight = g.svc.in_flight]]

(* What admission itself answers; "" when the request goes to the worker.  *)
Refusal(g, action, m, c, purpose) ==
    IF purpose = "client" /\ action # "load" /\ m \in {Executive, c} THEN "invalid_request"
    ELSE IF action = "load" /\ m \in g.bound THEN "already_loaded"
    ELSE IF action # "load" /\ m \notin g.bound THEN "not_loaded"
    ELSE ""

Admit(g, action, m, c, purpose) ==
    LET admitted == [g EXCEPT !.svc =
            [NoWork EXCEPT !.pending = TRUE, !.purpose = purpose, !.action = action, !.module = m, !.client = c,
                           !.previous = m \in g.bound, !.next = action # "unload"]]
        refusal == Refusal(g, action, m, c, purpose)
    IN  IF refusal # "" THEN Finish(admitted, refusal) ELSE admitted

(* A seeded fault: a client that finds the service busy is told so in one  *)
(* reply instead of two.                                                   *)
BusyUnacknowledged(g, action, m, c, purpose) ==
    IF g.svc.pending \/ g.result # "none" THEN Reply(g, c)
    ELSE Admit(IF purpose = "client" THEN Reply(g, c) ELSE g, action, m, c, purpose)

(* request: a client is always acknowledged, and told busy when an         *)
(* operation is pending; two operations of the Host itself never overlap.  *)
Request(g, action, m, c, purpose) ==
    LET acknowledged == IF purpose = "client" THEN Reply(g, c) ELSE g
    IN  IF g.svc.pending \/ g.result # "none"
        THEN IF purpose = "client" THEN Reply(acknowledged, c) ELSE [g EXCEPT !.svc_failed = TRUE]
        ELSE Admit(acknowledged, action, m, c, purpose)

(* dispatch: the job is posted to the worker, or the post is refused.      *)
Dispatch(g, luck) ==
    IF g.svc.start THEN g
    ELSE IF luck = "fail" THEN Finish(g, "delivery_failed")
    ELSE [g EXCEPT !.svc.in_flight = TRUE, !.job = "module"]

(* complete: a module that has just been bound still needs to be started.  *)
Complete(g, status) ==
    LET back == [g EXCEPT !.svc.in_flight = FALSE]
    IN  IF ~g.svc.in_flight THEN [g EXCEPT !.svc_failed = TRUE]
        ELSE IF g.svc.cleanup THEN Finish(back, IF status = "success" THEN "installation_failed" ELSE status)
        ELSE IF status = "success" /\ g.svc.next THEN [back EXCEPT !.svc.start = TRUE]
        ELSE Finish(back, status)

(* complete_thread_start: a module that did not start is unloaded again.   *)
CompleteStart(g, ok) ==
    IF ok THEN Finish([g EXCEPT !.started = @ \cup {g.svc.module}], "success")
    ELSE [g EXCEPT !.svc.start = FALSE, !.svc.previous = TRUE, !.svc.next = FALSE, !.svc.cleanup = TRUE]

CancelPending(g) ==
    LET back == [g EXCEPT !.svc.in_flight = FALSE]
    IN  IF g.svc.pending THEN Finish(back, "delivery_failed") ELSE back

(* A seeded fault: the index is advanced before the module it names is     *)
(* looked at.                                                              *)
NextBoundSkips(g) == {i \in (g.index + 1)..Len(Catalogue) : Catalogue[i] \in g.bound}

(* request_shutdown: the next bound module of the catalogue is unloaded.   *)
NextBound(g) == {i \in g.index..Len(Catalogue) : Catalogue[i] \in g.bound}

RequestShutdown(g) ==
    IF NextBound(g) = {} THEN [g EXCEPT !.index = Len(Catalogue) + 1]
    ELSE LET i == CHOOSE i \in NextBound(g) : \A j \in NextBound(g) : i <= j
         IN  Request([g EXCEPT !.index = i + 1], "unload", Catalogue[i], Executive, "shutdown")

-----------------------------------------------------------------------------
(* CPumpedClient, as far as the lifecycle sees it.                         *)

PumpLive(g, p) == g.pump[p].phase # "none"

(* request_stop, which a pump that is not there ignores.                   *)
Asked(pump) ==
    IF pump.phase = "none" THEN pump
    ELSE [pump EXCEPT !.stop = TRUE, !.phase = IF @ = "stopped" THEN @ ELSE "stopping"]

PumpStop(g, p) == [g EXCEPT !.pump[p] = Asked(@)]

StopPumps(g) == [g EXCEPT !.pump = [p \in Pumped |-> Asked(g.pump[p])]]

Activate(g, p, luck) ==
    [g EXCEPT !.client = @ \cup {p},
              !.pump[p] = [NoPump EXCEPT
                  !.phase = IF luck = "fail" THEN "stopping" ELSE IF StartTurns = 0 THEN "ready" ELSE "starting",
                  !.stop = luck = "fail", !.failed = luck = "fail", !.left = StartTurns]]

(* pump: begin_stop once a stop is requested, then one call.               *)
Callable(pump) == pump.phase \notin {"none", "stopped"} /\ ~pump.retained /\ ~pump.off

Called(pump) ==
    LET begun == IF pump.stop /\ ~pump.begun
                 THEN [pump EXCEPT !.begun = TRUE, !.left = StopTurns] ELSE pump
        called == [begun EXCEPT !.left = IF @ > 0 THEN @ - 1 ELSE 0]
    IN  IF ~Callable(pump) THEN pump
        ELSE IF called.left > 0 THEN called
        ELSE [called EXCEPT !.phase =
                 CASE @ = "starting" -> "ready" [] @ = "stopping" -> "stopped" [] OTHER -> @]

(* The pumps are called one after the other; each call looks at its own    *)
(* client, and passes on a native request to stop the Host.                *)
Pumps(g) ==
    LET called == {p \in Pumped : Callable(g.pump[p])} IN
    [g EXCEPT !.pump = [p \in Pumped |-> Called(g.pump[p])],
              !.native = @ \/ (called # {} /\ "native" \in g.asked),
              !.started = @ \ {p \in called : Called(g.pump[p]).phase = "stopped"}]

(* retire_client for every client whose thread has ended, and progress: a  *)
(* closing route that is idle goes.                                        *)
Router(g) ==
    [g EXCEPT !.routes = {r \in @ : ~(Terminal(g, r[1]) /\ r[1] \in g.drained) /\ ~g.pump[r[2]].stop}]

RouterIdle(g, m) == \A r \in g.routes : m \notin {r[1], r[2]}

Retire(g, p) == [g EXCEPT !.pump[p] = NoPump, !.client = @ \ {p}, !.started = @ \ {p}]

-----------------------------------------------------------------------------
(* Starting and stopping a module around its binding.                      *)

(* start_module_thread: the Executive's thread is started by the lifecycle.*)
StartThread(g, m, luck) ==
    IF m \in g.client THEN CompleteStart(g, FALSE)
    ELSE LET registered == [g EXCEPT !.client = @ \cup {m}, !.drained = @ \ {m}] IN
         IF m = Executive THEN CompleteStart(registered, TRUE)
         ELSE IF luck = "fail" THEN CompleteStart(registered, FALSE)
         ELSE CompleteStart([registered EXCEPT !.thread[m] = "running", !.exit = @ \ {m}], TRUE)

(* start_pending_module for a pumped module: it is activated once, and the *)
(* operation stays pending until it is ready or has failed and stopped.    *)
StartPump(g, p, luck) ==
    LET a == IF p \in g.client THEN g ELSE Activate(g, p, luck)
        pump == a.pump[p]
    IN  IF pump.phase = "ready" THEN CompleteStart(a, TRUE)
        ELSE IF ~(pump.failed /\ pump.phase = "stopped" /\ RouterIdle(a, p)) THEN a
        ELSE IF luck = "stuck" THEN Finish([a EXCEPT !.pump[p].retained = TRUE, !.retain = TRUE], "installation_failed")
        ELSE CompleteStart(Retire(a, p), FALSE)

StartPending(g, luck) ==
    IF ~g.svc.start THEN g
    ELSE IF g.svc.module \in Pumped THEN StartPump(g, g.svc.module, luck)
    ELSE StartThread(g, g.svc.module, luck)

(* stop_module_thread: what is left of the Host, and whether the module    *)
(* has stopped.                                                            *)
StopPump(g, p, luck) ==
    LET asked == PumpStop(g, p)
        pump == asked.pump[p]
    IN  IF ~g.pump[p].stop /\ (\E r \in g.routes : r[2] = p)
        THEN [ok |-> FALSE, h |-> IF g.svc.purpose = "client" THEN Finish(g, "busy") ELSE g]
        ELSE IF pump.phase # "stopped" \/ ~RouterIdle(asked, p) THEN [ok |-> FALSE, h |-> asked]
        ELSE IF ~pump.off /\ (pump.retained \/ luck = "stuck")
        THEN [ok |-> FALSE, h |-> Finish([asked EXCEPT !.pump[p].retained = TRUE, !.retain = TRUE,
                                                       !.started = @ \ {p}], "unload_failed")]
        ELSE [ok |-> TRUE, h |-> Retire(asked, p)]

Quiet(g, m) == RouterIdle(g, m) /\ m \notin g.work /\ m \in g.drained /\ g.owed[m] = 0

(* Join the thread and destroy its package, its queues and its record.     *)
Join(g, m) ==
    [g EXCEPT !.thread[m] = "none", !.mail[m] = <<>>, !.client = @ \ {m}, !.drained = @ \ {m},
              !.started = IF m = Executive THEN @ ELSE @ \ {m}]

(* A seeded fault: the module is released once nothing is pending for it,  *)
(* without waiting for its thread.                                         *)
ReleasesRunning(g, m) ==
    IF m \in g.work \/ g.owed[m] > 0 THEN [ok |-> FALSE, h |-> g]
    ELSE [ok |-> TRUE, h |-> [g EXCEPT !.exit = @ \cup {m}]]

StopThread(g, m) ==
    LET asked == [g EXCEPT !.exit = @ \cup {m}]
        failed == [asked EXCEPT !.runtime_failed = @ \/ g.observed[m] = "failed"]
    IN  IF g.thread[m] = "none"
        THEN IF m \in g.work \/ g.owed[m] > 0 THEN [ok |-> FALSE, h |-> g]
             ELSE [ok |-> TRUE, h |-> [g EXCEPT !.client = @ \ {m}]]
        ELSE IF g.work # {} THEN [ok |-> FALSE, h |-> g]
        ELSE IF g.observed[m] \notin {"exited", "failed"} \/ ~Quiet(g, m) THEN [ok |-> FALSE, h |-> asked]
        ELSE [ok |-> TRUE, h |-> Join(failed, m)]

StopModule(g, m, luck) ==
    IF m \notin Pumped THEN StopThread(g, m)
    ELSE IF PumpLive(g, m) THEN StopPump(g, m, luck)
    ELSE [ok |-> TRUE, h |-> [g EXCEPT !.client = @ \ {m}]]

(* The end of a turn: stop what the pending operation releases, then hand  *)
(* the operation to the worker.                                            *)
Advance(g, luck) ==
    LET releasing == g.svc.pending /\ ~g.svc.in_flight /\ g.svc.previous
        s == IF releasing THEN StopModule(g, g.svc.module, luck) ELSE [ok |-> TRUE, h |-> g]
    IN  IF ~s.ok \/ s.h.work # {} \/ ~s.h.svc.pending \/ s.h.svc.in_flight THEN s.h
        ELSE IF ~s.h.unavailable THEN Dispatch(s.h, luck)
        ELSE IF s.h.failure_drained THEN Finish([s.h EXCEPT !.retain = TRUE], "unload_failed")
        ELSE s.h

-----------------------------------------------------------------------------
(* Phases of the Host.                                                     *)

ExecutiveFailure(g) ==
    IF HasThread(g, Executive)
    THEN [g EXCEPT !.runtime_failed = TRUE, !.change = "none", !.exit = @ \cup {Executive}, !.phase = "stopping_executive"]
    ELSE [g EXCEPT !.runtime_failed = TRUE, !.change = "none", !.phase = "shutting_down"]

(* complete_scan of the initial scan: the Executive can be bound.          *)
CompleteScan(g, ok) ==
    IF ~ok \/ g.runtime_failed THEN ExecutiveFailure(g)
    ELSE Request([g EXCEPT !.change = "none"], "load", Executive, Executive, "bootstrap")

StartExecutive(g, luck) ==
    LET state == IF luck = "fail" THEN "empty" ELSE "running"
    IN  [g EXCEPT !.thread[Executive] = state, !.exit = @ \ {Executive}]

(* The Host's own result.  The flag says that the turn ends here.          *)
TakeResult(g, luck) ==
    LET taken == [g EXCEPT !.result = "none"]
        executive == g.svc.purpose \in {"bootstrap", "executive_change"}
    IN  IF g.result = "none" THEN [last |-> FALSE, h |-> g]
        ELSE IF executive /\ g.runtime_failed THEN [last |-> TRUE, h |-> [taken EXCEPT !.phase = "shutting_down"]]
        ELSE IF ~executive
        THEN [last |-> FALSE, h |-> IF g.result = "success" THEN taken
                                    ELSE [taken EXCEPT !.runtime_failed = TRUE, !.retain = TRUE]]
        ELSE IF g.result # "success" THEN [last |-> FALSE, h |-> ExecutiveFailure(taken)]
        ELSE IF luck = "fail" THEN [last |-> FALSE, h |-> ExecutiveFailure(StartExecutive(taken, luck))]
        ELSE [last |-> TRUE, h |-> [StartExecutive(taken, luck) EXCEPT !.phase = "running", !.grace = "unset"]]

(* The Executive has stopped and nothing of it is pending: it is joined,   *)
(* and replaced or not.                                                    *)
EndExecutive(g) ==
    LET joined == Join([g EXCEPT !.runtime_failed = @ \/ g.observed[Executive] = "failed"], Executive)
    IN  IF ~joined.runtime_failed /\ g.change = "replace"
        THEN [Request(joined, "replace", Executive, Executive, "executive_change")
                 EXCEPT !.phase = "replacing_executive", !.change = "none"]
        ELSE [joined EXCEPT !.phase = "shutting_down", !.change = "none",
                            !.runtime_failed = @ \/ g.change = "replace"]

FilesystemIdle(g) == g.job # "scan" /\ g.done \notin {"scanned", "scan_failed"}

StoppingExecutive(g) ==
    LET stopped == g.observed[Executive] \in {"exited", "failed", "empty", "none"}
        entered == [g EXCEPT !.phase = IF stopped /\ @ = "running" THEN "stopping_executive" ELSE @]
        leaving == entered.phase = "stopping_executive" /\ stopped
        pumps == IF leaving /\ g.change # "replace" THEN StopPumps(entered) ELSE entered
        others == IF leaving /\ g.change # "replace" /\ g.work = {}
                  THEN [pumps EXCEPT !.exit = @ \cup {m \in Threaded : HasThread(g, m)}] ELSE pumps
    IN  IF ~HasThread(g, Executive) THEN g
        ELSE IF leaving /\ g.work = {} /\ ~g.svc.pending /\ FilesystemIdle(g) /\ Quiet(g, Executive)
        THEN EndExecutive(others) ELSE others

ShuttingDown(g) ==
    IF g.phase # "shutting_down" \/ g.work # {} \/ g.svc.pending \/ ~FilesystemIdle(g) THEN g
    ELSE LET asked == RequestShutdown(g)
         IN  IF NextBound(g) = {} THEN [asked EXCEPT !.phase = "complete"] ELSE asked

AdvanceLifecycle(g, luck) ==
    LET r == TakeResult(g, luck)
    IN  IF r.last THEN r.h ELSE ShuttingDown(StoppingExecutive(r.h))

-----------------------------------------------------------------------------
(* Stops.                                                                  *)

PollStop(g) ==
    LET lost == g.worker = "failed"
        stop == \/ g.stop \/ lost \/ g.emergency \/ g.native \/ "debug" \in g.asked
                \/ "executive" \in g.asked /\ Executive \in g.client
                \/ g.phase = "shutting_down" \/ (g.phase = "stopping_executive" /\ g.change # "replace")
    IN  IF ~stop THEN g
        ELSE [g EXCEPT !.stop = TRUE, !.closed = TRUE,
                       !.runtime_failed = @ \/ lost \/ g.grace = "expired",
                       !.grace = IF @ = "unset" THEN "running" ELSE @]

(* apply_host_stop: applied once.                                          *)
ApplyStop(g) ==
    LET applied == [g EXCEPT !.applied = TRUE, !.change = "none"]
    IN  IF ~(g.stop \/ g.native) \/ g.applied THEN g
        ELSE IF HasThread(g, Executive)
        THEN [applied EXCEPT !.exit = @ \cup {Executive}, !.phase = IF @ = "shutting_down" THEN @ ELSE "stopping_executive"]
        ELSE IF ~g.svc.pending THEN [applied EXCEPT !.phase = "shutting_down"] ELSE applied

BeginEmergency(g) ==
    LET asked == [g EXCEPT !.emergency = TRUE, !.runtime_failed = TRUE, !.change = "none",
                           !.exit = @ \cup {m \in Threads : HasThread(g, m)},
                           !.phase = IF HasThread(g, Executive) THEN "stopping_executive" ELSE "shutting_down"]
    IN  StopPumps(asked)

Failures(g) ==
    LET seen == [g EXCEPT !.unavailable = @ \/ g.worker = "failed"]
    IN  IF ~seen.emergency /\ (seen.unavailable \/ seen.svc_failed) THEN BeginEmergency(seen) ELSE seen

(* A shutdown request of the debug service, looked at in every turn.       *)
DebugStop(g) ==
    LET noted == [g EXCEPT !.runtime_failed = TRUE, !.change = "none"]
    IN  IF "debug" \notin g.asked \/ g.phase = "shutting_down" THEN g
        ELSE IF HasThread(g, Executive) THEN [noted EXCEPT !.exit = @ \cup {Executive}, !.phase = "stopping_executive"]
        ELSE IF ~g.svc.pending THEN [noted EXCEPT !.phase = "shutting_down"] ELSE noted

-----------------------------------------------------------------------------
(* The queues.                                                             *)

(* receive_request and receive_message for one message of client c.        *)
ReceiveModule(g, c, m) ==
    LET reserved == [g EXCEPT !.owed[c] = @ + 2]
    IN  IF c = Executive /\ m.module = Executive /\ m.action # "load"
        THEN [g EXCEPT !.exit = @ \cup {c}, !.change = IF g.phase = "running" THEN m.action ELSE @,
                       !.phase = IF @ = "running" THEN "stopping_executive" ELSE @]
        ELSE IF g.phase = "running" /\ ~g.closed THEN Request(reserved, m.action, m.module, c, "client")
        ELSE Reply(Reply(reserved, c), c)

Receive(g, c, m) ==
    CASE m.t = "module" -> ReceiveModule(g, c, m)
      [] m.t = "work" -> [g EXCEPT !.work = IF g.unavailable \/ g.closed THEN @ ELSE @ \cup {c}]
      [] m.t = "open" -> [g EXCEPT !.routes =
             IF g.pump[m.module].phase = "ready" /\ m.module \in g.started /\ ~Terminal(g, c) /\ ~g.closed
             THEN @ \cup {<<c, m.module>>} ELSE @]

(* A thread's queue, read to its end.                                      *)
Emptied(g, c) ==
    LET after[n \in 0..Len(g.mail[c])] ==
            IF n = 0 THEN g ELSE Receive(after[n - 1], c, g.mail[c][n])
    IN  [after[Len(g.mail[c])] EXCEPT !.mail[c] = <<>>, !.drained = @ \cup {c}]

(* A seeded fault: a queue counts as drained only if it held something.    *)
DrainsOnlyMail(g, c) == IF ~HasThread(g, c) \/ g.mail[c] = <<>> THEN g ELSE Emptied(g, c)

DrainThread(g, c) == IF HasThread(g, c) THEN Emptied(g, c) ELSE g

(* Every thread's queue in turn, those that have none passed over.         *)
DrainThreads(g) ==
    LET after[n \in 0..Len(Catalogue)] ==
            IF n = 0 THEN g ELSE DrainThread(after[n - 1], Catalogue[n])
    IN  after[Len(Catalogue)]

DrainWorker(g) ==
    LET taken == [g EXCEPT !.done = "none"]
    IN  CASE g.done = "none" -> g
          [] g.done \in {"scanned", "scan_failed"} -> CompleteScan(taken, g.done = "scanned")
          [] OTHER -> Complete(taken, g.done)

(* A seeded fault: the operation a failed worker had in flight is kept.    *)
LosesOperation(g) ==
    IF ~g.unavailable \/ g.failure_drained THEN g
    ELSE [g EXCEPT !.failure_drained = TRUE, !.work = {}, !.job = "none"]

(* The worker has failed, and its last completions have been drained.      *)
WorkerFailure(g) ==
    IF ~g.unavailable \/ g.failure_drained THEN g
    ELSE LET g1 == [g EXCEPT !.failure_drained = TRUE, !.work = {}, !.job = "none"]
         IN  IF g.svc.in_flight THEN CancelPending(g1) ELSE g1

Drain(g) == WorkerFailure(DrainThreads(DrainWorker(g)))

-----------------------------------------------------------------------------
(* The Host turn.                                                          *)

Observe(g) == [g EXCEPT !.observed = g.thread]

TurnBegin ==
    /\ turn = "begin" /\ h.phase # "complete"
    /\ h' = Observe(DebugStop(Failures(ApplyStop(PollStop(h)))))
    /\ turn' = "end" /\ UNCHANGED <<posts, faults>>

Turn(g, luck) ==
    Advance(AdvanceLifecycle(StartPending(Router(ApplyStop(PollStop(Pumps(Drain(g))))), luck), luck), luck)

(* A call that may fail fails: at most one of a turn does.                 *)
TurnEnd ==
    /\ turn = "end"
    /\ turn' = "begin" /\ UNCHANGED posts
    /\ \/ h' = Turn(h, "ok") /\ UNCHANGED faults
       \/ \E luck \in {"fail", "stuck"} :
              /\ faults < MaxFaults
              /\ Turn(h, luck) # Turn(h, "ok")
              /\ h' = Turn(h, luck) /\ faults' = faults + 1

(* shutdown, once the turns have ended: the worker is joined, and a record *)
(* that is still bound keeps its code until the process exits.             *)
Shutdown ==
    /\ h.phase = "complete" /\ ~h.ended
    /\ h' = [h EXCEPT !.ended = TRUE, !.worker = IF @ = "running" THEN "exited" ELSE @]
    /\ UNCHANGED <<turn, posts, faults>>

-----------------------------------------------------------------------------
(* The worker, perform_module_work, and the filesystem scan.               *)

Worked(bound, status) == h' = [h EXCEPT !.bound = bound, !.job = "none", !.done = status]

WorkModule ==
    LET m == h.svc.module
        unloaded == h.bound \ {m}
        only == h.svc.action = "unload" \/ h.svc.cleanup
    IN  /\ h.worker = "running" /\ h.job = "module"
        /\ \/ /\ UNCHANGED faults
              /\ Worked(IF only THEN unloaded ELSE h.bound \cup {m}, "success")
           \/ /\ faults < MaxFaults /\ faults' = faults + 1
              /\ \/ h.svc.previous /\ Worked(h.bound, "unload_failed")
                 \/ ~only /\ Worked(unloaded, "binding_failed")
                 \/ ~only /\ Worked(h.bound \cup {m}, "unload_failed")
        /\ UNCHANGED <<turn, posts>>

WorkScan ==
    /\ h.worker = "running" /\ h.job = "scan"
    /\ \/ h' = [h EXCEPT !.job = "none", !.done = "scanned"] /\ UNCHANGED faults
       \/ h' = [h EXCEPT !.job = "none", !.done = "scan_failed"] /\ faults < MaxFaults /\ faults' = faults + 1
    /\ UNCHANGED <<turn, posts>>

WorkAsset(c) ==
    /\ h.worker = "running" /\ c \in h.work
    /\ h' = [h EXCEPT !.work = @ \ {c}]
    /\ UNCHANGED <<turn, posts, faults>>

WorkerFails ==
    /\ h.worker = "running" /\ faults < MaxFaults /\ h.phase # "complete"
    /\ h' = [h EXCEPT !.worker = "failed"]
    /\ faults' = faults + 1 /\ UNCHANGED <<turn, posts>>

-----------------------------------------------------------------------------
(* The threads of the modules, and who may stop the Host.                  *)

Messages ==
    [t : {"module"}, action : {"load", "unload", "replace"}, module : Modules]
        \cup [t : {"work"}] \cup [t : {"open"}, module : Pumped]

Post(c, m) ==
    /\ h.thread[c] = "running" /\ posts < MaxPosts
    /\ h' = [h EXCEPT !.mail[c] = Append(@, m)]
    /\ posts' = posts + 1 /\ UNCHANGED <<turn, faults>>

Exit(c) ==
    /\ h.thread[c] = "running" /\ c \in h.exit
    /\ h' = [h EXCEPT !.thread[c] = "exited"]
    /\ UNCHANGED <<turn, posts, faults>>

(* A thread returns, or fails, without having been asked to.               *)
ThreadEnds(c) ==
    /\ h.thread[c] = "running" /\ faults < MaxFaults
    /\ \E state \in {"exited", "failed"} : h' = [h EXCEPT !.thread[c] = state]
    /\ faults' = faults + 1 /\ UNCHANGED <<turn, posts>>

AskStop(source) ==
    /\ source \in StopSources /\ source \notin h.asked /\ h.phase # "complete"
    /\ source = "native" => \E p \in Pumped : h.pump[p].phase = "ready"
    /\ source = "executive" => h.thread[Executive] = "running"
    /\ h' = [h EXCEPT !.asked = @ \cup {source}]
    /\ UNCHANGED <<turn, posts, faults>>

GraceExpires ==
    /\ h.grace = "running" /\ h.phase # "complete"
    /\ h' = [h EXCEPT !.grace = "expired"]
    /\ UNCHANGED <<turn, posts, faults>>

Next ==
    \/ TurnBegin \/ TurnEnd \/ Shutdown
    \/ WorkModule \/ WorkScan \/ WorkerFails
    \/ \E c \in Threads : WorkAsset(c) \/ Exit(c) \/ ThreadEnds(c)
    \/ \E c \in Threads, m \in Messages : Post(c, m)
    \/ \E source \in StopSources : AskStop(source)
    \/ GraceExpires

Spec == Init /\ [][Next]_vars

(* The Host takes turns for as long as it is not complete (a half turn is  *)
(* then always possible, so fairness can be stated of turn alone); the     *)
(* worker, and a thread that is asked to exit, are scheduled.              *)
TurnAdvances ==
    /\ turn = "end" \/ h.phase # "complete"
    /\ turn' = IF turn = "begin" THEN "end" ELSE "begin"

Fairness ==
    /\ WF_turn(TurnAdvances) /\ WF_vars(Shutdown)
    /\ WF_vars(WorkModule) /\ WF_vars(WorkScan)
    /\ \A c \in Threads : WF_vars(WorkAsset(c)) /\ WF_vars(Exit(c))

FairSpec == Spec /\ Fairness

-----------------------------------------------------------------------------
TypeOK ==
    /\ h.phase \in {"starting", "running", "stopping_executive", "replacing_executive", "shutting_down", "complete"}
    /\ {h.bound, h.started, h.client} \subseteq SUBSET Modules
    /\ \A c \in Threads : h.owed[c] \in 0..2

(* A module's code is bound for as long as anything of it can run or has a *)
(* claim on the Host: its thread, its pump, its client record.             *)
CodeOutlivesUse ==
    /\ \A m \in Threads : h.thread[m] # "none" => m \in h.bound
    /\ \A p \in Pumped : PumpLive(h, p) => p \in h.bound
    /\ h.client \subseteq h.bound

(* The record of the client that is to be told of the pending operation is *)
(* there until it has been told: one reply is owed, and exactly to it.     *)
(* Operations of the Host itself never overlap another, and the worker     *)
(* completes only what the service waits for.                              *)
RequesterIsKept ==
    /\ ~h.svc_failed
    /\ \A c \in Threads :
        /\ h.owed[c] = (IF h.svc.pending /\ h.svc.purpose = "client" /\ h.svc.client = c THEN 1 ELSE 0)
        /\ h.owed[c] > 0 => c \in h.client /\ h.thread[c] # "none"

(* The Host completes with nothing left running, and every module unbound  *)
(* unless it has decided to keep everything until the process exits.       *)
CleanExit ==
    h.phase = "complete" =>
        /\ \A m \in Threads : h.thread[m] = "none"
        /\ ~h.retain => h.bound = {} /\ h.client = {} /\ \A p \in Pumped : ~PumpLive(h, p)

(* Every request that was admitted is completed.                           *)
OperationsComplete == h.svc.pending ~> ~h.svc.pending

(* Once the Host has been asked to stop, it completes.                     *)
StopCompletes == (h.asked # {}) ~> h.ended

=============================================================================
