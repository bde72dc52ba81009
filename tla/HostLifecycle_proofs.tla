------------------------ MODULE HostLifecycle_proofs ------------------------
(***************************************************************************)
(* Three promises of the Host about the modules it runs, for every set of  *)
(* modules, every catalogue and every number of faults and of messages: a  *)
(* module's code outlives whatever uses it, the requester of an operation  *)
(* is there to be answered once, and the Host completes with nothing left. *)
(*                                                                         *)
(* A half turn is a composition of functions on the Host's state, and the  *)
(* argument follows it: most functions move nothing that is claimed (they  *)
(* are Calm), and each of the others keeps the invariant Sound on its own. *)
(* Sound says what a client record, an operation, a reply and a result     *)
(* stand for, and how far a shutdown has come in the catalogue.            *)
(***************************************************************************)
EXTENDS HostLifecycle, WellFoundedInduction, TLAPS

Phases == {"starting", "running", "stopping_executive", "replacing_executive", "shutting_down", "complete"}
Actions == {"load", "unload", "replace"}
Purposes == {"client", "bootstrap", "executive_change", "shutdown"}
ThreadStates == {"none", "running", "exited", "failed", "empty"}
PumpPhases == {"none", "starting", "ready", "stopping", "stopped"}
Completions == {"success", "unload_failed", "binding_failed"}
Scanned == {"scanned", "scan_failed"}

Operation ==
    [pending : BOOLEAN, in_flight : BOOLEAN, start : BOOLEAN, purpose : Purposes, action : Actions,
     module : Modules, client : Threads, previous : BOOLEAN, next : BOOLEAN, cleanup : BOOLEAN]

PumpState ==
    [phase : PumpPhases, stop : BOOLEAN, begun : BOOLEAN, failed : BOOLEAN, retained : BOOLEAN,
     off : BOOLEAN, left : Nat]

\* The fields of the Host's state.  The proofs use their names, not the set.
Fields ==
    {"phase", "change", "runtime_failed", "retain", "emergency", "asked", "stop", "applied", "closed",
     "native", "grace", "unavailable", "failure_drained", "svc", "result", "svc_failed", "index", "bound",
     "started", "client", "thread", "exit", "observed", "drained", "mail", "owed", "pump", "routes", "work",
     "worker", "job", "done", "ended"}

Typed(g) ==
    /\ g = [f \in Fields |-> g[f]]
    /\ g.phase \in Phases
    /\ g.svc \in Operation
    /\ g.index \in 1..(Len(Catalogue) + 1)
    /\ g.bound \in SUBSET Modules /\ g.started \in SUBSET Modules /\ g.client \in SUBSET Modules
    /\ g.thread \in [Threads -> ThreadStates]
    /\ g.mail \in [Threads -> Seq(Messages)]
    /\ g.owed \in [Threads -> Int]
    /\ g.pump \in [Pumped -> PumpState]

\* What has a claim on a module's code: its thread and its pump are those of
\* a client, and a client is bound.
Claims(g) ==
    /\ \A m \in Threads : g.thread[m] # "none" => m \in g.client
    /\ \A p \in Pumped : g.pump[p].phase # "none" => p \in g.client
    /\ g.client \subseteq g.bound

Scanning(g) == \/ g.job = "scan" /\ g.done = "none"
               \/ g.job = "none" /\ g.done \in Scanned

Working(g) == \/ g.job = "module" /\ g.done = "none"
              \/ g.job = "none" /\ g.done \in Completions

\* The worker has what the service has in flight; while the first scan goes on
\* there is no operation, no result and no client yet.
Worker(g) ==
    /\ Working(g) <=> g.svc.in_flight
    /\ Working(g) \/ Scanning(g) \/ (g.job = "none" /\ g.done = "none")
    /\ Scanning(g) => ~g.svc.pending /\ g.result = "none" /\ g.client = {}

ForExecutive(g) == g.svc.purpose \in {"bootstrap", "executive_change"}

\* The pending operation: the worker touches the binding of a module only when
\* nothing of it is registered, and a module is started only when it is bound.
Pending(g) ==
    /\ g.svc.in_flight => g.svc.pending /\ ~g.svc.start /\ g.svc.module \notin g.client
    /\ g.svc.start => g.svc.pending /\ g.svc.next /\ g.svc.module \in g.bound
    /\ g.svc.pending =>
        /\ ~g.svc.in_flight /\ ~g.svc.previous /\ ~g.svc.start => g.svc.module \notin g.bound
        /\ g.svc.next <=> g.svc.action # "unload" /\ ~g.svc.cleanup
        /\ ForExecutive(g) =>
              g.svc.module = Executive /\ g.svc.action # "unload" /\ g.thread[Executive] = "none"
        /\ g.svc.purpose = "shutdown" => g.svc.action = "unload"
        /\ g.done = "success" => (g.svc.module \in g.bound <=> g.svc.next)

\* The client that waits for the pending operation.
Awaited(g, c) == g.svc.pending /\ g.svc.purpose = "client" /\ g.svc.client = c

Requesters(g) ==
    /\ ~g.svc_failed
    /\ \A c \in Threads :
        /\ Awaited(g, c) => g.owed[c] = 1 /\ c \in g.client /\ g.thread[c] # "none"
        /\ ~Awaited(g, c) => g.owed[c] = 0

\* A result of the Host's own operation, until it is taken.
Results(g) ==
    g.result # "none" =>
        /\ ~g.svc.pending /\ g.svc.purpose # "client"
        /\ ForExecutive(g) => g.thread[Executive] = "none"
        /\ ForExecutive(g) /\ g.result = "success" => Executive \in g.client

Down == {"shutting_down", "complete"}

\* Why a module that the shutdown has passed may still be bound.
Excused(g, m) ==
    \/ g.svc.pending /\ g.svc.module = m
    \/ g.retain
    \/ g.result \notin {"none", "success"}

\* How far the shutdown has come: the modules before the index are unbound or
\* excused, and none of them has a thread that nobody is stopping.
Ending(g) ==
    /\ g.phase \in Down => g.thread[Executive] = "none"
    /\ g.index > 1 =>
        /\ g.phase \in Down /\ ~Scanning(g)
        /\ g.svc.pending \/ g.result # "none" => g.svc.purpose = "shutdown"
    /\ g.phase = "complete" => g.index = Len(Catalogue) + 1 /\ ~g.svc.pending /\ g.result = "none"
    /\ \A i \in 1..Len(Catalogue) : i < g.index /\ Catalogue[i] \in g.bound => Excused(g, Catalogue[i])
    /\ \A i \in 1..Len(Catalogue) :
        i < g.index /\ Catalogue[i] \in Threads /\ g.thread[Catalogue[i]] # "none"
            => g.svc.pending /\ ~g.svc.in_flight /\ g.svc.module = Catalogue[i]

Sound(g) == Typed(g) /\ Claims(g) /\ Worker(g) /\ Pending(g) /\ Requesters(g) /\ Results(g) /\ Ending(g)

IInv == Sound(h)

(* ------------------------------ the constants --------------------------- *)

LEMMA Constants ==
    /\ Executive \in Threads /\ Executive \notin Pumped /\ Threads \cap Pumped = {}
    /\ Threads \subseteq Modules /\ Pumped \subseteq Modules /\ Modules = Threads \cup Pumped
    /\ Len(Catalogue) \in Nat
    /\ \A i \in 1..Len(Catalogue) : Catalogue[i] \in Modules
    /\ \A m \in Modules : \E i \in 1..Len(Catalogue) : Catalogue[i] = m
    /\ StartTurns \in Nat /\ StopTurns \in Nat
<1>1. Catalogue \in Seq(Modules) /\ Modules \subseteq ToSet(Catalogue)
  BY LifecycleAssumption DEF Modules
<1>2. \A m \in Modules : \E i \in 1..Len(Catalogue) : Catalogue[i] = m
  BY <1>1 DEF ToSet
<1>3. Len(Catalogue) \in Nat /\ \A i \in 1..Len(Catalogue) : Catalogue[i] \in Modules
  BY <1>1
<1> QED
  BY <1>2, <1>3, LifecycleAssumption DEF Modules, Threads

LEMMA FieldsKnown ==
    /\ "phase" \in Fields /\ "change" \in Fields /\ "runtime_failed" \in Fields /\ "retain" \in Fields
    /\ "emergency" \in Fields /\ "asked" \in Fields /\ "stop" \in Fields /\ "applied" \in Fields
    /\ "closed" \in Fields /\ "native" \in Fields /\ "grace" \in Fields /\ "unavailable" \in Fields
    /\ "failure_drained" \in Fields /\ "svc" \in Fields /\ "result" \in Fields /\ "svc_failed" \in Fields
    /\ "index" \in Fields /\ "bound" \in Fields /\ "started" \in Fields /\ "client" \in Fields
    /\ "thread" \in Fields /\ "exit" \in Fields /\ "observed" \in Fields /\ "drained" \in Fields
    /\ "mail" \in Fields /\ "owed" \in Fields /\ "pump" \in Fields /\ "routes" \in Fields
    /\ "work" \in Fields /\ "worker" \in Fields /\ "job" \in Fields /\ "done" \in Fields
    /\ "ended" \in Fields
BY DEF Fields

(* ------------------- steps that move nothing that is claimed ------------ *)

Alike(g, x) ==
    /\ Typed(x)
    /\ x.svc = g.svc /\ x.result = g.result /\ x.svc_failed = g.svc_failed /\ x.index = g.index
    /\ x.bound = g.bound /\ x.client = g.client /\ x.owed = g.owed
    /\ x.job = g.job /\ x.done = g.done
    /\ g.retain => x.retain
    /\ \A m \in Threads : x.thread[m] = "none" <=> g.thread[m] = "none"
    /\ \A p \in Pumped : x.pump[p].phase = "none" <=> g.pump[p].phase = "none"

\* The phase stays, or follows the Executive's thread.
PhaseFollows(g, x) ==
    \/ x.phase = g.phase
    \/ g.thread[Executive] # "none" /\ x.phase \notin Down
    \/ g.thread[Executive] = "none" /\ x.phase = "shutting_down"
    \/ g.phase \notin Down /\ x.phase \notin Down

Calm(g, x) == Alike(g, x) /\ PhaseFollows(g, x)

LEMMA CalmSound ==
  ASSUME NEW g, NEW x, Sound(g), Calm(g, x)
  PROVE  Sound(x)
<1>1. Alike(g, x) /\ PhaseFollows(g, x)
  BY DEF Calm
<1>2. Typed(x)
  BY <1>1 DEF Alike
<1>3. Claims(x)
  BY <1>1 DEF Alike, Sound, Claims
<1>4. Worker(x) /\ (Scanning(x) <=> Scanning(g))
  BY <1>1 DEF Alike, Sound, Worker, Working, Scanning
<1>5. Pending(x)
  BY <1>1, Constants DEF Alike, Sound, Pending, ForExecutive
<1>6. Requesters(x)
  BY <1>1 DEF Alike, Sound, Requesters, Awaited
<1>7. Results(x)
  BY <1>1, Constants DEF Alike, Sound, Results, ForExecutive
<1>8. Ending(x)
  <2>1. Ending(g) /\ Executive \in Threads /\ g.index \in Int
    BY Constants DEF Sound, Typed
  <2>2. x.phase \in Down => x.thread[Executive] = "none"
    BY <1>1, <2>1 DEF Alike, PhaseFollows, Ending
  <2>3. x.index > 1 => /\ x.phase \in Down /\ ~Scanning(x)
                       /\ x.svc.pending \/ x.result # "none" => x.svc.purpose = "shutdown"
    BY <1>1, <1>4, <2>1 DEF Alike, PhaseFollows, Ending, Down
  <2>4. x.phase = "complete" => x.index = Len(Catalogue) + 1 /\ ~x.svc.pending /\ x.result = "none"
    BY <1>1, <2>1 DEF Alike, PhaseFollows, Ending, Down
  <2>5. ASSUME NEW i \in 1..Len(Catalogue), i < x.index, Catalogue[i] \in x.bound
        PROVE  Excused(x, Catalogue[i])
    BY <1>1, <2>1, <2>5 DEF Alike, Ending, Excused
  <2>6. ASSUME NEW i \in 1..Len(Catalogue), i < x.index, Catalogue[i] \in Threads,
               x.thread[Catalogue[i]] # "none"
        PROVE  x.svc.pending /\ ~x.svc.in_flight /\ x.svc.module = Catalogue[i]
    BY <1>1, <2>1, <2>6 DEF Alike, Ending
  <2> QED BY <2>2, <2>3, <2>4, <2>5, <2>6 DEF Ending
<1> QED
  BY <1>2, <1>3, <1>4, <1>5, <1>6, <1>7, <1>8 DEF Sound

LEMMA CalmPollStop == ASSUME NEW g, Typed(g) PROVE Calm(g, PollStop(g))
BY FieldsKnown DEF Typed, Calm, Alike, PhaseFollows, PollStop

LEMMA CalmApplyStop == ASSUME NEW g, Typed(g) PROVE Calm(g, ApplyStop(g))
BY FieldsKnown, Constants DEF Typed, Calm, Alike, PhaseFollows, ApplyStop, HasThread, Phases, Down

LEMMA CalmDebugStop == ASSUME NEW g, Typed(g) PROVE Calm(g, DebugStop(g))
BY FieldsKnown, Constants DEF Typed, Calm, Alike, PhaseFollows, DebugStop, HasThread, Phases, Down

LEMMA CalmObserve == ASSUME NEW g, Typed(g) PROVE Calm(g, Observe(g))
BY FieldsKnown DEF Typed, Calm, Alike, PhaseFollows, Observe

LEMMA CalmRouter == ASSUME NEW g, Typed(g) PROVE Calm(g, Router(g))
BY FieldsKnown DEF Typed, Calm, Alike, PhaseFollows, Router

LEMMA CalmFailure == ASSUME NEW g, Typed(g) PROVE Calm(g, ExecutiveFailure(g))
BY FieldsKnown, Constants DEF Typed, Calm, Alike, PhaseFollows, ExecutiveFailure, HasThread, Phases, Down

(* -------------------------------- the pumps ----------------------------- *)

LEMMA AskedKeeps ==
  ASSUME NEW q \in PumpState
  PROVE  Asked(q) \in PumpState /\ (Asked(q).phase = "none" <=> q.phase = "none")
BY DEF PumpState, PumpPhases, Asked

LEMMA CalledKeeps ==
  ASSUME NEW q \in PumpState
  PROVE  Called(q) \in PumpState /\ (Called(q).phase = "none" <=> q.phase = "none")
<1> DEFINE begun == IF q.stop /\ ~q.begun THEN [q EXCEPT !.begun = TRUE, !.left = StopTurns] ELSE q
           called == [begun EXCEPT !.left = IF @ > 0 THEN @ - 1 ELSE 0]
<1>1. begun \in PumpState /\ begun.phase = q.phase
  BY Constants DEF PumpState
<1> HIDE DEF begun
<1>2. called \in PumpState /\ called.phase = q.phase
  BY <1>1 DEF PumpState
<1> HIDE DEF called
<1> DEFINE moved == [called EXCEPT !.phase =
                       CASE @ = "starting" -> "ready" [] @ = "stopping" -> "stopped" [] OTHER -> @]
<1>3. moved \in PumpState /\ (moved.phase = "none" <=> q.phase = "none")
  BY <1>2 DEF PumpState, PumpPhases
<1> HIDE DEF moved
<1>4. Called(q) = q \/ Called(q) = called \/ Called(q) = moved
  BY DEF Called, moved, called, begun
<1> QED
  BY <1>2, <1>3, <1>4

LEMMA CalmPumpStop == ASSUME NEW g, Typed(g), NEW p \in Pumped PROVE Calm(g, PumpStop(g, p))
<1>1. Asked(g.pump[p]) \in PumpState /\ (Asked(g.pump[p]).phase = "none" <=> g.pump[p].phase = "none")
  BY AskedKeeps DEF Typed
<1> QED
  BY <1>1, FieldsKnown DEF Typed, Calm, Alike, PhaseFollows, PumpStop

LEMMA CalmStopPumps == ASSUME NEW g, Typed(g) PROVE Calm(g, StopPumps(g))
<1>1. \A p \in Pumped : Asked(g.pump[p]) \in PumpState /\ (Asked(g.pump[p]).phase = "none" <=> g.pump[p].phase = "none")
  BY AskedKeeps DEF Typed
<1> QED
  BY <1>1, FieldsKnown DEF Typed, Calm, Alike, PhaseFollows, StopPumps

LEMMA CalmPumps == ASSUME NEW g, Typed(g) PROVE Calm(g, Pumps(g))
<1>1. \A p \in Pumped : Called(g.pump[p]) \in PumpState /\ (Called(g.pump[p]).phase = "none" <=> g.pump[p].phase = "none")
  BY CalledKeeps DEF Typed
<1> QED
  BY <1>1, FieldsKnown DEF Typed, Calm, Alike, PhaseFollows, Pumps

LEMMA CalmThen ==
  ASSUME NEW g, NEW x, NEW y, Alike(g, x), Alike(x, y)
  PROVE  Alike(g, y)
BY DEF Alike

LEMMA CalmEmergency == ASSUME NEW g, Typed(g) PROVE Calm(g, BeginEmergency(g))
<1> DEFINE asked == [g EXCEPT !.emergency = TRUE, !.runtime_failed = TRUE, !.change = "none",
                              !.exit = @ \cup {m \in Threads : HasThread(g, m)},
                              !.phase = IF HasThread(g, Executive) THEN "stopping_executive" ELSE "shutting_down"]
<1>1. Calm(g, asked)
  BY FieldsKnown, Constants DEF Typed, Calm, Alike, PhaseFollows, HasThread, Phases, Down
<1>2. Typed(asked)
  BY <1>1 DEF Calm, Alike
<1>3. BeginEmergency(g) = StopPumps(asked)
  BY DEF BeginEmergency
<1> HIDE DEF asked
<1>4. Calm(asked, StopPumps(asked)) /\ StopPumps(asked).phase = asked.phase
  BY <1>2, CalmStopPumps, FieldsKnown DEF Typed, StopPumps
<1>5. Alike(g, StopPumps(asked))
  BY <1>1, <1>4, CalmThen DEF Calm
<1> QED
  BY <1>1, <1>3, <1>4, <1>5 DEF Calm, PhaseFollows

LEMMA CalmFailures == ASSUME NEW g, Typed(g) PROVE Calm(g, Failures(g))
<1> DEFINE seen == [g EXCEPT !.unavailable = @ \/ g.worker = "failed"]
<1>1. Calm(g, seen) /\ seen.phase = g.phase /\ seen.thread = g.thread
  BY FieldsKnown DEF Typed, Calm, Alike, PhaseFollows
<1>2. Failures(g) = seen \/ Failures(g) = BeginEmergency(seen)
  BY DEF Failures
<1> HIDE DEF seen
<1>3. Calm(seen, BeginEmergency(seen))
  BY <1>1, CalmEmergency DEF Calm, Alike
<1>4. Calm(g, BeginEmergency(seen))
  BY <1>1, <1>3, CalmThen DEF Calm, PhaseFollows
<1> QED
  BY <1>1, <1>2, <1>4

(* --------------------------- the module service ------------------------- *)

Resting(g) == g.job = "none" /\ g.done = "none"

LEMMA RestingWorker ==
  ASSUME NEW g, Resting(g)
  PROVE  /\ ~Scanning(g) /\ ~Working(g)
         /\ ~g.svc.in_flight => Worker(g)
BY DEF Resting, Scanning, Working, Worker, Scanned, Completions

LEMMA NoWorkTyped == NoWork \in Operation /\ ~NoWork.pending /\ ~NoWork.in_flight /\ ~NoWork.start
BY Constants DEF NoWork, Operation, Purposes, Actions

\* Everything but the operation, its result and what is owed is the same.
SameCode(g, x) ==
    /\ x.phase = g.phase /\ x.index = g.index /\ x.retain = g.retain /\ x.svc_failed = g.svc_failed
    /\ x.bound = g.bound /\ x.client = g.client /\ x.thread = g.thread /\ x.pump = g.pump
    /\ x.job = g.job /\ x.done = g.done

LEMMA ReplyKeeps ==
  ASSUME NEW g, Typed(g), NEW c \in Threads
  PROVE  /\ Typed(Reply(g, c)) /\ SameCode(g, Reply(g, c))
         /\ Reply(g, c).svc = g.svc /\ Reply(g, c).result = g.result
         /\ Reply(g, c).owed = [g.owed EXCEPT ![c] = @ - 1]
<1> DEFINE owed == [g.owed EXCEPT ![c] = @ - 1]
<1>1. owed \in [Threads -> Int]
  BY DEF Typed
<1>2. Reply(g, c) = [g EXCEPT !.owed = owed]
  BY FieldsKnown DEF Reply, Typed
<1> HIDE DEF owed
<1>3. /\ Typed([g EXCEPT !.owed = owed]) /\ SameCode(g, [g EXCEPT !.owed = owed])
      /\ [g EXCEPT !.owed = owed].svc = g.svc /\ [g EXCEPT !.owed = owed].result = g.result
      /\ [g EXCEPT !.owed = owed].owed = owed
  BY <1>1, FieldsKnown DEF Typed, SameCode
<1> QED
  BY <1>2, <1>3 DEF owed

\* A pending operation that nobody works on and that may end in a result.
Finishing(g, status) ==
    /\ Typed(g) /\ Claims(g) /\ Resting(g) /\ Requesters(g) /\ Ending(g)
    /\ g.svc.pending /\ ~g.svc.in_flight /\ g.result = "none"
    /\ ForExecutive(g) => g.thread[Executive] = "none"
    /\ status # "none"
    /\ status = "success" /\ ForExecutive(g) => Executive \in g.client
    /\ g.index > 1 =>
        /\ status = "success" => g.svc.module \notin g.bound
        /\ g.svc.module \in Threads => g.thread[g.svc.module] = "none"

LEMMA FinishMoves ==
  ASSUME NEW g, Typed(g), NEW status
  PROVE  /\ Typed(Finish(g, status)) /\ SameCode(g, Finish(g, status))
         /\ Finish(g, status).svc = [NoWork EXCEPT !.purpose = g.svc.purpose, !.in_flight = g.svc.in_flight]
         /\ g.svc.purpose = "client" =>
                /\ Finish(g, status).result = g.result
                /\ Finish(g, status).owed = [g.owed EXCEPT ![g.svc.client] = @ - 1]
         /\ g.svc.purpose # "client" =>
                /\ Finish(g, status).result = status
                /\ Finish(g, status).owed = g.owed
<1> DEFINE svc == [NoWork EXCEPT !.purpose = g.svc.purpose, !.in_flight = g.svc.in_flight]
           told == IF g.svc.purpose = "client" THEN Reply(g, g.svc.client) ELSE [g EXCEPT !.result = status]
<1>1. svc \in Operation
  BY NoWorkTyped DEF Typed, Operation
<1>2. g.svc.client \in Threads
  BY DEF Typed, Operation
<1>3. /\ Typed(told) /\ SameCode(g, told)
      /\ g.svc.purpose = "client" =>
             told.result = g.result /\ told.owed = [g.owed EXCEPT ![g.svc.client] = @ - 1]
      /\ g.svc.purpose # "client" => told.result = status /\ told.owed = g.owed
  <2>1. CASE g.svc.purpose = "client"
    BY <1>2, <2>1, ReplyKeeps
  <2>2. CASE g.svc.purpose # "client"
    BY <2>2, FieldsKnown DEF Typed, SameCode
  <2> QED BY <2>1, <2>2
<1>4. Finish(g, status) = [told EXCEPT !.svc = svc]
  BY DEF Finish
<1> HIDE DEF svc, told
<1>5. /\ Typed([told EXCEPT !.svc = svc]) /\ SameCode(told, [told EXCEPT !.svc = svc])
      /\ [told EXCEPT !.svc = svc].svc = svc
      /\ [told EXCEPT !.svc = svc].result = told.result /\ [told EXCEPT !.svc = svc].owed = told.owed
  BY <1>1, <1>3, FieldsKnown DEF Typed, SameCode
<1>6. SameCode(g, [told EXCEPT !.svc = svc])
  BY <1>3, <1>5 DEF SameCode
<1> QED
  BY <1>3, <1>4, <1>5, <1>6 DEF svc

LEMMA FinishSound ==
  ASSUME NEW g, NEW status, Finishing(g, status)
  PROVE  Sound(Finish(g, status)) /\ Resting(Finish(g, status)) /\ ~Finish(g, status).svc.pending
<1> DEFINE x == Finish(g, status)
<1>0. Typed(g)
  BY DEF Finishing
<1>1. /\ Typed(x) /\ SameCode(g, x)
      /\ x.svc = [NoWork EXCEPT !.purpose = g.svc.purpose, !.in_flight = g.svc.in_flight]
      /\ g.svc.purpose = "client" => x.result = g.result /\ x.owed = [g.owed EXCEPT ![g.svc.client] = @ - 1]
      /\ g.svc.purpose # "client" => x.result = status /\ x.owed = g.owed
  BY <1>0, FinishMoves
<1> HIDE DEF x
<1>2. /\ x.phase = g.phase /\ x.index = g.index /\ x.bound = g.bound /\ x.client = g.client
      /\ x.thread = g.thread /\ x.pump = g.pump /\ x.job = g.job /\ x.done = g.done
      /\ x.svc_failed = g.svc_failed /\ x.retain = g.retain
  BY <1>1 DEF SameCode
<1>3. ~x.svc.pending /\ ~x.svc.in_flight /\ ~x.svc.start /\ x.svc.purpose = g.svc.purpose
  BY <1>1, NoWorkTyped DEF Finishing, Operation
<1>4. Claims(x)
  BY <1>2 DEF Claims, Finishing
<1>5. Resting(x) /\ Worker(x) /\ ~Scanning(x)
  BY <1>2, <1>3, RestingWorker DEF Finishing, Resting
<1>6. Pending(x)
  BY <1>3 DEF Pending
<1>7. Requesters(x)
  <2>1. ~x.svc_failed
    BY <1>2 DEF Finishing, Requesters
  <2>2. ASSUME NEW c \in Threads PROVE ~Awaited(x, c) /\ x.owed[c] = 0
    <3>1. g.owed \in [Threads -> Int] /\ g.svc.client \in Threads
      BY DEF Finishing, Typed, Operation
    <3>2. CASE Awaited(g, c)
      BY <1>1, <1>3, <3>1, <3>2 DEF Awaited, Finishing, Requesters
    <3>3. CASE ~Awaited(g, c)
      <4>1. g.svc.purpose = "client" => g.svc.client # c
        BY <3>3 DEF Awaited, Finishing
      <4> QED BY <1>1, <1>3, <3>1, <3>3, <4>1 DEF Awaited, Finishing, Requesters
    <3> QED BY <3>2, <3>3
  <2> QED BY <2>1, <2>2 DEF Requesters
<1>8. Results(x)
  BY <1>1, <1>2, <1>3 DEF Results, Finishing, ForExecutive
<1>9. Ending(x)
  <2>0. Ending(g) /\ g.svc.pending /\ g.result = "none" /\ g.index \in Int
    BY DEF Finishing, Typed
  <2>1. x.phase \in Down => x.thread[Executive] = "none"
    BY <1>2, <2>0 DEF Ending
  <2>2. g.index > 1 => g.svc.purpose = "shutdown" /\ x.result = status
    BY <1>1, <2>0 DEF Ending
  <2>3. x.index > 1 => x.phase \in Down /\ x.svc.purpose = "shutdown"
    BY <1>2, <1>3, <2>0 DEF Ending
  <2>4. x.phase # "complete"
    BY <1>2, <2>0 DEF Ending
  <2>5. ASSUME NEW i \in 1..Len(Catalogue), i < x.index, Catalogue[i] \in x.bound
        PROVE  Excused(x, Catalogue[i])
    <3>1. Excused(g, Catalogue[i]) /\ g.index > 1
      BY <1>2, <2>0, <2>5 DEF Ending
    <3>2. CASE g.retain
      BY <1>2, <3>2 DEF Excused
    <3>3. CASE g.svc.module = Catalogue[i]
      BY <1>2, <2>2, <2>5, <3>1, <3>3 DEF Excused, Finishing
    <3> QED BY <2>0, <3>1, <3>2, <3>3 DEF Excused
  <2>6. ASSUME NEW i \in 1..Len(Catalogue), i < x.index, Catalogue[i] \in Threads,
               x.thread[Catalogue[i]] # "none"
        PROVE  FALSE
    <3>1. g.svc.module = Catalogue[i] /\ g.index > 1
      BY <1>2, <2>0, <2>6 DEF Ending
    <3> QED BY <1>2, <2>6, <3>1 DEF Finishing
  <2> QED BY <1>5, <2>1, <2>3, <2>4, <2>5, <2>6 DEF Ending
<1> QED
  BY <1>1, <1>3, <1>4, <1>5, <1>6, <1>7, <1>8, <1>9 DEF Sound, x

\* A state in which the service can admit the given request: it is idle, and
\* the requester is owed the one reply that is still to come.  A shutdown has
\* already counted the module it asks for.
Admissible(g, action, m, c, purpose) ==
    /\ Typed(g) /\ Claims(g) /\ Resting(g)
    /\ action \in Actions /\ m \in Modules /\ c \in Threads /\ purpose \in Purposes
    /\ ~g.svc.pending /\ g.result = "none" /\ ~g.svc_failed
    /\ \A d \in Threads :
        /\ purpose = "client" /\ d = c => g.owed[d] = 1 /\ d \in g.client /\ g.thread[d] # "none"
        /\ ~(purpose = "client" /\ d = c) => g.owed[d] = 0
    /\ purpose \in {"bootstrap", "executive_change"} =>
          m = Executive /\ action # "unload" /\ g.thread[Executive] = "none"
    /\ purpose = "shutdown" => action = "unload"
    /\ g.phase # "complete"
    /\ g.phase \in Down => g.thread[Executive] = "none"
    /\ g.index > 1 => g.phase \in Down /\ purpose = "shutdown"
    /\ \A i \in 1..Len(Catalogue) :
        i < g.index /\ Catalogue[i] \in g.bound => g.retain \/ Catalogue[i] = m
    /\ \A i \in 1..Len(Catalogue) :
        i < g.index /\ Catalogue[i] \in Threads /\ g.thread[Catalogue[i]] # "none" => Catalogue[i] = m

\* The operation that is admitted.
Admitted(g, action, m, c, purpose) ==
    [NoWork EXCEPT !.pending = TRUE, !.purpose = purpose, !.action = action, !.module = m, !.client = c,
                   !.previous = m \in g.bound, !.next = action # "unload"]

LEMMA AdmittedOperation ==
  ASSUME NEW g, NEW action \in Actions, NEW m \in Modules, NEW c \in Threads, NEW purpose \in Purposes
  PROVE  LET op == Admitted(g, action, m, c, purpose) IN
         /\ op \in Operation /\ op.pending /\ ~op.in_flight /\ ~op.start /\ op.purpose = purpose
         /\ op.action = action /\ op.module = m /\ op.client = c
         /\ op.previous <=> m \in g.bound
         /\ op.next <=> action # "unload"
         /\ ~op.cleanup
<1> DEFINE previous == m \in g.bound
           next == action # "unload"
           op == [NoWork EXCEPT !.pending = TRUE, !.purpose = purpose, !.action = action, !.module = m,
                                !.client = c, !.previous = previous, !.next = next]
<1>1. previous \in BOOLEAN /\ next \in BOOLEAN
  OBVIOUS
<1>2. Admitted(g, action, m, c, purpose) = op
  BY DEF Admitted
<1>3. (previous <=> m \in g.bound) /\ (next <=> action # "unload")
  OBVIOUS
<1>4. NoWork \in Operation /\ ~NoWork.in_flight /\ ~NoWork.start /\ ~NoWork.cleanup
  BY NoWorkTyped DEF NoWork
<1> HIDE DEF previous, next
<1>5. /\ op \in Operation /\ op.pending /\ ~op.in_flight /\ ~op.start /\ op.purpose = purpose
      /\ op.action = action /\ op.module = m /\ op.client = c /\ op.previous = previous /\ op.next = next
      /\ ~op.cleanup
  BY <1>1, <1>4 DEF Operation
<1> QED
  BY <1>2, <1>3, <1>5

LEMMA AdmitSound ==
  ASSUME NEW g, NEW action, NEW m, NEW c, NEW purpose, Admissible(g, action, m, c, purpose)
  PROVE  Sound(Admit(g, action, m, c, purpose)) /\ Resting(Admit(g, action, m, c, purpose))
<1> DEFINE op == Admitted(g, action, m, c, purpose)
           x == [g EXCEPT !.svc = op]
           refusal == Refusal(g, action, m, c, purpose)
<1>0. action \in Actions /\ m \in Modules /\ c \in Threads /\ purpose \in Purposes
  BY DEF Admissible
<1>1. /\ op \in Operation /\ op.pending /\ ~op.in_flight /\ ~op.start /\ op.purpose = purpose
      /\ op.action = action /\ op.module = m /\ op.client = c
      /\ op.previous <=> m \in g.bound
      /\ op.next <=> action # "unload"
      /\ ~op.cleanup
  BY <1>0, AdmittedOperation
<1>2. Admit(g, action, m, c, purpose) = IF refusal # "" THEN Finish(x, refusal) ELSE x
  BY DEF Admit, Admitted
<1> HIDE DEF op, refusal
<1>3. Typed(x) /\ SameCode(g, x) /\ x.svc = op /\ x.result = g.result /\ x.owed = g.owed
  BY <1>1, FieldsKnown DEF Admissible, Typed, SameCode
<1> HIDE DEF x
<1>4. /\ x.phase = g.phase /\ x.index = g.index /\ x.bound = g.bound /\ x.client = g.client
      /\ x.thread = g.thread /\ x.pump = g.pump /\ x.job = g.job /\ x.done = g.done
      /\ x.svc_failed = g.svc_failed /\ x.retain = g.retain /\ x.result = "none"
  BY <1>3 DEF SameCode, Admissible
<1>5. Claims(x)
  BY <1>4 DEF Claims, Admissible
<1>6. Resting(x) /\ Worker(x) /\ ~Scanning(x)
  BY <1>1, <1>3, <1>4, RestingWorker DEF Admissible, Resting
<1>7. Requesters(x)
  BY <1>1, <1>3, <1>4 DEF Requesters, Awaited, Admissible
<1>8. Ending(x)
  <2>1. \A i \in 1..Len(Catalogue) : i < x.index /\ Catalogue[i] \in x.bound => Excused(x, Catalogue[i])
    BY <1>1, <1>3, <1>4 DEF Excused, Admissible
  <2>2. \A i \in 1..Len(Catalogue) :
        i < x.index /\ Catalogue[i] \in Threads /\ x.thread[Catalogue[i]] # "none"
            => x.svc.pending /\ ~x.svc.in_flight /\ x.svc.module = Catalogue[i]
    BY <1>1, <1>3, <1>4 DEF Admissible
  <2>3. x.index > 1 => x.phase \in Down /\ x.svc.purpose = "shutdown"
    BY <1>1, <1>3, <1>4 DEF Admissible
  <2>4. x.phase # "complete" /\ (x.phase \in Down => x.thread[Executive] = "none")
    BY <1>4 DEF Admissible
  <2> QED BY <1>6, <2>1, <2>2, <2>3, <2>4 DEF Ending
<1>9. ForExecutive(x) => x.svc.module = Executive /\ x.svc.action # "unload" /\ x.thread[Executive] = "none"
  BY <1>1, <1>3, <1>4 DEF ForExecutive, Admissible
<1>10. CASE refusal = ""
  <2>1. Pending(x)
    <3>1. x.done # "success"
      BY <1>6 DEF Resting
    <3> QED BY <1>1, <1>3, <1>4, <1>9, <3>1 DEF Pending, Admissible
  <2>2. Results(x)
    BY <1>4 DEF Results
  <2>3. Sound(x)
    BY <1>3, <1>5, <1>6, <1>7, <1>8, <2>1, <2>2 DEF Sound
  <2> QED BY <1>2, <1>6, <1>10, <2>3
<1>11. CASE refusal # ""
  <2>1. refusal # "none" /\ refusal # "success"
    BY DEF refusal, Refusal
  <2>2. x.index > 1 /\ m \in Threads => x.thread[m] = "none"
    <3>1. purpose = "shutdown" => m \notin g.bound
      BY <1>11 DEF refusal, Refusal, Admissible
    <3> QED BY <1>4, <1>5, <3>1 DEF Claims, Admissible
  <2>3. x.svc.pending /\ ~x.svc.in_flight /\ x.svc.module = m
    BY <1>1, <1>3
  <2>4. Finishing(x, refusal)
    BY <1>3, <1>4, <1>5, <1>6, <1>7, <1>8, <1>9, <2>1, <2>2, <2>3 DEF Finishing
  <2> QED BY <1>2, <1>11, <2>4, FinishSound
<1> QED
  BY <1>10, <1>11

LEMMA AdmitKeeps ==
  ASSUME NEW g, NEW action, NEW m, NEW c, NEW purpose, Admissible(g, action, m, c, purpose)
  PROVE  SameCode(g, Admit(g, action, m, c, purpose))
<1> DEFINE op == Admitted(g, action, m, c, purpose)
           x == [g EXCEPT !.svc = op]
<1>1. op \in Operation
  BY AdmittedOperation DEF Admissible
<1>2. \/ Admit(g, action, m, c, purpose) = x
      \/ Admit(g, action, m, c, purpose) = Finish(x, Refusal(g, action, m, c, purpose))
  BY DEF Admit, Admitted
<1> HIDE DEF op
<1>3. Typed(x) /\ SameCode(g, x)
  BY <1>1, FieldsKnown DEF Admissible, Typed, SameCode
<1> HIDE DEF x
<1>4. SameCode(x, Finish(x, Refusal(g, action, m, c, purpose)))
  BY <1>3, FinishMoves
<1> QED
  BY <1>2, <1>3, <1>4 DEF SameCode

\* The service is idle unless an operation is pending.
LEMMA IdleRests ==
  ASSUME NEW g, Sound(g), ~g.svc.pending, ~Scanning(g)
  PROVE  Resting(g) /\ ~g.svc.in_flight
BY DEF Sound, Worker, Pending, Resting

\* Nobody waits for the service when nothing is pending.
LEMMA IdleOwes ==
  ASSUME NEW g, Sound(g), ~g.svc.pending
  PROVE  ~g.svc_failed /\ \A c \in Threads : g.owed[c] = 0
BY DEF Sound, Requesters, Awaited

\* An operation of the Host's own.
LEMMA HostRequestSound ==
  ASSUME NEW g, NEW action, NEW m, NEW purpose, purpose # "client",
         Admissible(g, action, m, Executive, purpose)
  PROVE  Sound(Request(g, action, m, Executive, purpose)) /\ Resting(Request(g, action, m, Executive, purpose))
<1>1. Request(g, action, m, Executive, purpose) = Admit(g, action, m, Executive, purpose)
  BY DEF Request, Admissible
<1> QED
  BY <1>1, AdmitSound

\* A request of a client with a thread, for which two replies are reserved.
LEMMA ClientRequestSound ==
  ASSUME NEW g, Sound(g), g.done = "none", NEW c \in Threads, g.thread[c] # "none",
         NEW action \in Actions, NEW m \in Modules, g.phase = "running"
  PROVE  LET x == Request([g EXCEPT !.owed[c] = @ + 2], action, m, c, "client") IN
         Sound(x) /\ x.done = "none" /\ x.thread = g.thread
<1> DEFINE owed == [g.owed EXCEPT ![c] = @ + 2]
           r == [g EXCEPT !.owed = owed]
           a == Reply(r, c)
<1>0. Typed(g) /\ Claims(g)
  BY DEF Sound
<1>1. owed \in [Threads -> Int] /\ owed[c] = g.owed[c] + 2 /\ \A d \in Threads : d # c => owed[d] = g.owed[d]
  BY <1>0 DEF Typed
<1>2. [g EXCEPT !.owed[c] = @ + 2] = r
  BY <1>0, FieldsKnown DEF Typed
<1> HIDE DEF owed
<1>3. Typed(r) /\ SameCode(g, r) /\ r.svc = g.svc /\ r.result = g.result /\ r.owed = owed
  BY <1>0, <1>1, FieldsKnown DEF Typed, SameCode
<1> HIDE DEF r
<1>4. /\ Typed(a) /\ SameCode(r, a) /\ a.svc = r.svc /\ a.result = r.result
      /\ a.owed = [r.owed EXCEPT ![c] = @ - 1]
  BY <1>3, ReplyKeeps
<1>5. /\ SameCode(g, a) /\ a.svc = g.svc /\ a.result = g.result
      /\ a.owed[c] = g.owed[c] + 1 /\ \A d \in Threads : d # c => a.owed[d] = g.owed[d]
  <2>1. g.owed[c] \in Int
    BY <1>0 DEF Typed
  <2> QED BY <1>1, <1>3, <1>4, <2>1 DEF SameCode
<1>6. Request(r, action, m, c, "client")
        = IF r.svc.pending \/ r.result # "none" THEN Reply(a, c) ELSE Admit(a, action, m, c, "client")
  BY DEF Request
<1> HIDE DEF a
<1>7. CASE r.svc.pending \/ r.result # "none"
  <2> DEFINE x == Reply(a, c)
  <2>1. /\ Typed(x) /\ SameCode(a, x) /\ x.svc = a.svc /\ x.result = a.result
        /\ x.owed = [a.owed EXCEPT ![c] = @ - 1]
    BY <1>4, ReplyKeeps
  <2> HIDE DEF x
  <2>2. x.owed = g.owed
    <3>1. x.owed \in [Threads -> Int] /\ g.owed \in [Threads -> Int] /\ a.owed \in [Threads -> Int]
      BY <1>0, <1>4, <2>1 DEF Typed
    <3>2. \A d \in Threads : x.owed[d] = g.owed[d]
      BY <1>5, <2>1, <3>1
    <3> QED BY <3>1, <3>2
  <2>3. Calm(g, x)
    BY <1>5, <2>1, <2>2 DEF Calm, Alike, PhaseFollows, SameCode
  <2>4. Sound(x)
    BY <2>3, CalmSound
  <2>5. x.done = "none" /\ x.thread = g.thread
    BY <1>5, <2>1 DEF SameCode
  <2> QED BY <1>2, <1>6, <1>7, <2>4, <2>5 DEF x
<1>8. CASE ~(r.svc.pending \/ r.result # "none")
  <2>1. ~g.svc.pending /\ g.result = "none"
    BY <1>3, <1>8
  <2>2. c \in g.client /\ ~Scanning(g)
    BY <1>0 DEF Claims, Sound, Worker
  <2>3. Resting(g) /\ ~g.svc_failed /\ \A d \in Threads : g.owed[d] = 0
    BY <2>1, <2>2, IdleRests, IdleOwes
  <2>4. /\ a.phase = g.phase /\ a.index = g.index /\ a.retain = g.retain /\ a.svc_failed = g.svc_failed
        /\ a.bound = g.bound /\ a.client = g.client /\ a.thread = g.thread /\ a.pump = g.pump
        /\ a.job = g.job /\ a.done = g.done
    BY <1>5 DEF SameCode
  <2>5. Claims(a) /\ Resting(a)
    BY <1>0, <2>3, <2>4 DEF Claims, Resting
  <2>6. g.phase \notin Down /\ g.phase # "complete"
    BY DEF Down
  <2>7. ~(g.index > 1)
    BY <2>6 DEF Sound, Ending
  <2>8. \A i \in 1..Len(Catalogue) : ~(i < a.index)
    BY <1>0, <2>4, <2>7 DEF Typed
  <2>9. \A d \in Threads :
        /\ d = c => a.owed[d] = 1 /\ d \in a.client /\ a.thread[d] # "none"
        /\ d # c => a.owed[d] = 0
    BY <1>5, <2>2, <2>3, <2>4
  <2>10. Admissible(a, action, m, c, "client")
    BY <1>4, <1>5, <2>1, <2>3, <2>4, <2>5, <2>6, <2>7, <2>8, <2>9 DEF Admissible, Purposes
  <2>11. Sound(Admit(a, action, m, c, "client")) /\ Resting(Admit(a, action, m, c, "client"))
    BY <2>10, AdmitSound
  <2>12. Admit(a, action, m, c, "client").thread = a.thread
    BY <2>10, AdmitKeeps DEF SameCode
  <2> QED BY <1>2, <1>6, <1>8, <2>4, <2>11, <2>12 DEF Resting
<1> QED
  BY <1>7, <1>8

(* ------------------------- completions of the worker -------------------- *)

\* An operation that fails once nobody works on it.
LEMMA FailSound ==
  ASSUME NEW g, NEW status, Sound(g), g.svc.pending, ~g.svc.in_flight, status \notin {"none", "success"},
         g.index > 1 /\ g.svc.module \in Threads => g.thread[g.svc.module] = "none"
  PROVE  Sound(Finish(g, status)) /\ Resting(Finish(g, status)) /\ ~Finish(g, status).svc.pending
<1>1. Resting(g)
  BY DEF Sound, Worker, Resting
<1>2. g.result = "none"
  BY DEF Sound, Results
<1>3. ForExecutive(g) => g.thread[Executive] = "none"
  BY DEF Sound, Pending
<1>4. Finishing(g, status)
  BY <1>1, <1>2, <1>3 DEF Finishing, Sound
<1> QED
  BY <1>4, FinishSound

\* The operation has come back from the worker: nothing runs of its module.
LEMMA BackFinishing ==
  ASSUME NEW g, NEW x, NEW status, Sound(g), g.svc.in_flight,
         Typed(x), x.job = "none", x.done = "none", x.svc = [g.svc EXCEPT !.in_flight = FALSE],
         x.phase = g.phase, x.index = g.index, x.retain = g.retain, x.svc_failed = g.svc_failed,
         x.bound = g.bound, x.client = g.client, x.thread = g.thread, x.pump = g.pump,
         x.owed = g.owed, x.result = g.result, status # "none",
         status = "success" => ~g.svc.next /\ ~g.svc.cleanup /\ g.svc.module \notin g.bound
  PROVE  Finishing(x, status)
<1>0. /\ g.svc.pending /\ g.svc.module \notin g.client /\ g.result = "none" /\ Typed(g) /\ Claims(g)
      /\ Requesters(g) /\ Ending(g)
  BY DEF Sound, Pending, Results
<1>1. /\ x.svc.pending /\ ~x.svc.in_flight /\ x.svc.purpose = g.svc.purpose /\ x.svc.module = g.svc.module
      /\ x.svc.client = g.svc.client
  BY <1>0 DEF Typed, Operation
<1>2. Claims(x) /\ Resting(x)
  BY <1>0 DEF Claims, Resting
<1>3. Requesters(x)
  BY <1>0, <1>1 DEF Requesters, Awaited
<1>4. ~Scanning(x)
  BY <1>2, RestingWorker
<1>5. Ending(x)
  <2>1. \A i \in 1..Len(Catalogue) : i < x.index /\ Catalogue[i] \in x.bound => Excused(x, Catalogue[i])
    BY <1>0, <1>1 DEF Ending, Excused
  <2>2. \A i \in 1..Len(Catalogue) :
            i < x.index /\ Catalogue[i] \in Threads /\ x.thread[Catalogue[i]] # "none" => FALSE
    BY <1>0 DEF Ending
  <2> QED BY <1>0, <1>1, <1>4, <2>1, <2>2 DEF Ending
<1>6. g.svc.module \in Threads => g.thread[g.svc.module] = "none"
  BY <1>0 DEF Claims
<1>7. ForExecutive(g) => g.thread[Executive] = "none" /\ (g.svc.next <=> ~g.svc.cleanup)
  BY <1>0 DEF Sound, Pending
<1>8. ForExecutive(x) <=> ForExecutive(g)
  BY <1>1 DEF ForExecutive
<1> QED
  BY <1>0, <1>1, <1>2, <1>3, <1>5, <1>6, <1>7, <1>8 DEF Finishing

LEMMA CompleteSound ==
  ASSUME NEW g, Sound(g), g.done \in Completions
  PROVE  LET x == Complete([g EXCEPT !.done = "none"], g.done) IN Sound(x) /\ Resting(x)
<1> DEFINE t == [g EXCEPT !.done = "none"]
           svc == [g.svc EXCEPT !.in_flight = FALSE]
           b == [t EXCEPT !.svc = svc]
           status == g.done
<1>0. Typed(g) /\ Claims(g) /\ g.svc \in Operation
  BY DEF Sound, Typed
<1>1. Working(g) /\ g.job = "none" /\ g.svc.in_flight
  BY DEF Sound, Worker, Working, Scanning, Completions, Scanned
<1>2. g.svc.pending /\ ~g.svc.start /\ g.svc.module \notin g.client
  BY <1>1 DEF Sound, Pending
<1>3. svc \in Operation
  BY <1>0 DEF Operation
<1>4. t.svc = g.svc
  BY <1>0, FieldsKnown DEF Typed
<1>5. [t EXCEPT !.svc.in_flight = FALSE] = b
  BY <1>0, <1>4, FieldsKnown DEF Typed
<1>6. Complete(t, status) =
        IF svc.cleanup THEN Finish(b, IF status = "success" THEN "installation_failed" ELSE status)
        ELSE IF status = "success" /\ svc.next THEN [b EXCEPT !.svc.start = TRUE]
        ELSE Finish(b, status)
  <2>1. svc.cleanup = t.svc.cleanup /\ svc.next = t.svc.next
    BY <1>0, <1>4 DEF Operation
  <2> HIDE DEF b, svc, t
  <2> QED BY <1>1, <1>4, <1>5, <2>1 DEF Complete
<1>7. /\ Typed(b) /\ b.job = "none" /\ b.done = "none" /\ b.svc = svc
      /\ b.phase = g.phase /\ b.index = g.index /\ b.retain = g.retain /\ b.svc_failed = g.svc_failed
      /\ b.bound = g.bound /\ b.client = g.client /\ b.thread = g.thread /\ b.pump = g.pump
      /\ b.owed = g.owed /\ b.result = g.result
  <2> HIDE DEF svc
  <2> QED BY <1>0, <1>1, <1>3, FieldsKnown DEF Typed
<1>8. /\ svc.pending /\ ~svc.in_flight /\ ~svc.start /\ svc.purpose = g.svc.purpose /\ svc.module = g.svc.module
      /\ svc.client = g.svc.client /\ svc.next = g.svc.next /\ svc.cleanup = g.svc.cleanup
      /\ svc.action = g.svc.action
  BY <1>0, <1>2 DEF Operation
<1>9. status = "success" => (g.svc.module \in g.bound <=> g.svc.next)
  BY <1>2 DEF Sound, Pending
<1>10. ASSUME NEW s, s # "none", s = "success" => ~g.svc.next /\ ~g.svc.cleanup /\ g.svc.module \notin g.bound
       PROVE  Sound(Finish(b, s)) /\ Resting(Finish(b, s))
  <2>1. Finishing(b, s)
    <3> HIDE DEF b
    <3> QED BY <1>1, <1>7, <1>10, BackFinishing
  <2> QED BY <2>1, FinishSound
<1> HIDE DEF t, b
<1>11. CASE svc.cleanup
  BY <1>6, <1>8, <1>10, <1>11 DEF t, Completions
<1>12. CASE ~svc.cleanup /\ ~(status = "success" /\ svc.next)
  BY <1>6, <1>8, <1>9, <1>10, <1>12 DEF t, Completions
<1>13. CASE ~svc.cleanup /\ status = "success" /\ svc.next
  <2> DEFINE op == [svc EXCEPT !.start = TRUE]
             x == [b EXCEPT !.svc = op]
  <2>1. /\ op \in Operation /\ op.pending /\ ~op.in_flight /\ op.start /\ op.purpose = svc.purpose
        /\ op.module = svc.module /\ op.client = svc.client /\ op.next = svc.next /\ op.cleanup = svc.cleanup
        /\ op.action = svc.action
    <3> HIDE DEF svc
    <3> QED BY <1>3, <1>8 DEF Operation
  <2>2. Complete(t, status) = x
    <3> HIDE DEF svc
    <3> QED BY <1>6, <1>7, <1>13, FieldsKnown DEF Typed
  <2> HIDE DEF op, svc
  <2>3. /\ Typed(x) /\ x.job = "none" /\ x.done = "none" /\ x.svc = op
        /\ x.phase = g.phase /\ x.index = g.index /\ x.retain = g.retain /\ x.svc_failed = g.svc_failed
        /\ x.bound = g.bound /\ x.client = g.client /\ x.thread = g.thread /\ x.pump = g.pump
        /\ x.owed = g.owed /\ x.result = g.result
    BY <1>7, <2>1, FieldsKnown DEF Typed
  <2> HIDE DEF x
  <2>4. Claims(x) /\ Resting(x)
    BY <1>0, <2>3 DEF Claims, Resting
  <2>5. Worker(x) /\ ~Scanning(x)
    BY <2>1, <2>3, <2>4, RestingWorker
  <2>6. g.svc.next /\ g.svc.module \in g.bound /\ g.svc.action # "unload" /\ g.result = "none"
    BY <1>2, <1>8, <1>9, <1>13 DEF Sound, Pending, Results
  <2>7. Pending(x)
    BY <1>2, <1>8, <2>1, <2>3, <2>6 DEF Sound, Pending, ForExecutive
  <2>8. Requesters(x)
    BY <1>2, <1>8, <2>1, <2>3 DEF Sound, Requesters, Awaited
  <2>9. Results(x)
    BY <2>3, <2>6 DEF Results
  <2>10. g.index = 1
    <3>1. ~(g.index > 1)
      BY <1>2, <2>6 DEF Sound, Pending, Ending
    <3> QED BY <1>0, <3>1 DEF Typed
  <2>11. g.phase # "complete" /\ (g.phase \in Down => g.thread[Executive] = "none")
    BY <1>2 DEF Sound, Ending
  <2>12. \A i \in 1..Len(Catalogue) : ~(i < x.index)
    BY <2>3, <2>10
  <2>13. Ending(x)
    BY <2>3, <2>10, <2>11, <2>12 DEF Ending
  <2> QED BY <2>2, <2>3, <2>4, <2>5, <2>7, <2>8, <2>9, <2>13 DEF Sound, t
<1> QED
  BY <1>11, <1>12, <1>13

LEMMA ScanSound ==
  ASSUME NEW g, Sound(g), g.done \in Scanned
  PROVE  LET x == CompleteScan([g EXCEPT !.done = "none"], g.done = "scanned") IN
         Sound(x) /\ x.done = "none"
<1> DEFINE t == [g EXCEPT !.done = "none"]
           t1 == [t EXCEPT !.change = "none"]
<1>0. Typed(g) /\ Claims(g) /\ Ending(g)
  BY DEF Sound
<1>1. g.job = "none" /\ Scanning(g) /\ ~Working(g)
  BY DEF Sound, Worker, Working, Scanning, Completions, Scanned
<1>2. ~g.svc.in_flight /\ ~g.svc.pending /\ g.result = "none" /\ g.client = {} /\ ~g.svc.start
  BY <1>1 DEF Sound, Worker, Pending
<1>3. /\ Typed(t)
      /\ t.phase = g.phase /\ t.index = g.index /\ t.retain = g.retain /\ t.svc_failed = g.svc_failed
      /\ t.bound = g.bound /\ t.client = g.client /\ t.thread = g.thread /\ t.pump = g.pump
      /\ t.job = "none" /\ t.done = "none" /\ t.svc = g.svc /\ t.owed = g.owed /\ t.result = "none"
  BY <1>0, <1>1, <1>2, FieldsKnown DEF Typed, SameCode
<1> HIDE DEF t
<1>4. /\ Typed(t1)
      /\ t1.phase = g.phase /\ t1.index = g.index /\ t1.retain = g.retain /\ t1.svc_failed = g.svc_failed
      /\ t1.bound = g.bound /\ t1.client = g.client /\ t1.thread = g.thread /\ t1.pump = g.pump
      /\ t1.job = "none" /\ t1.done = "none" /\ t1.svc = g.svc /\ t1.owed = g.owed /\ t1.result = "none"
  BY <1>3, FieldsKnown DEF Typed
<1> HIDE DEF t1
<1>5. g.index = 1 /\ g.phase # "complete"
  <2>1. ~(g.index > 1)
    BY <1>0, <1>1 DEF Ending
  <2>2. \E i \in 1..Len(Catalogue) : Catalogue[i] = Executive
    BY Constants
  <2>3. g.index \in Int /\ g.index >= 1 /\ Len(Catalogue) \in Int /\ Len(Catalogue) >= 1
    BY <1>0, <2>2, Constants DEF Typed
  <2>4. g.phase # "complete"
    BY <1>0, <2>1, <2>3 DEF Ending
  <2> QED BY <2>1, <2>3, <2>4
<1>6. g.thread[Executive] = "none"
  BY <1>0, <1>2, Constants DEF Claims
<1>7. ~g.svc_failed /\ \A c \in Threads : g.owed[c] = 0
  BY <1>2, IdleOwes
<1>8. Resting(t) /\ Resting(t1) /\ ~Scanning(t)
  BY <1>3, <1>4, RestingWorker DEF Resting
<1>9. Sound(t)
  <2>1. Claims(t)
    BY <1>0, <1>3 DEF Claims
  <2>2. Worker(t)
    BY <1>2, <1>3, <1>8, RestingWorker
  <2>3. Pending(t)
    BY <1>2, <1>3 DEF Pending
  <2>4. Requesters(t)
    BY <1>2, <1>3, <1>7 DEF Requesters, Awaited
  <2>5. Results(t)
    BY <1>3 DEF Results
  <2>6. \A i \in 1..Len(Catalogue) : ~(i < t.index)
    BY <1>3, <1>5
  <2>7. Ending(t)
    BY <1>3, <1>5, <1>6, <2>6 DEF Ending
  <2> QED BY <1>3, <2>1, <2>2, <2>3, <2>4, <2>5, <2>7 DEF Sound
<1>10. Sound(ExecutiveFailure(t)) /\ ExecutiveFailure(t).done = "none"
  <2>1. Calm(t, ExecutiveFailure(t))
    BY <1>3, CalmFailure
  <2> QED BY <1>3, <1>9, <2>1, CalmSound DEF Calm, Alike
<1>11. Admissible(t1, "load", Executive, Executive, "bootstrap")
  <2>1. Claims(t1)
    BY <1>0, <1>4 DEF Claims
  <2>2. \A i \in 1..Len(Catalogue) : ~(i < t1.index)
    BY <1>4, <1>5
  <2>3. "load" \in Actions /\ "bootstrap" \in Purposes /\ Executive \in Modules /\ Executive \in Threads
    BY Constants DEF Actions, Purposes
  <2> QED BY <1>2, <1>4, <1>5, <1>6, <1>7, <1>8, <2>1, <2>2, <2>3 DEF Admissible
<1>12. /\ Sound(Request(t1, "load", Executive, Executive, "bootstrap"))
       /\ Request(t1, "load", Executive, Executive, "bootstrap").done = "none"
  BY <1>11, HostRequestSound DEF Resting
<1>13. \/ CompleteScan(t, g.done = "scanned") = ExecutiveFailure(t)
       \/ CompleteScan(t, g.done = "scanned") = Request(t1, "load", Executive, Executive, "bootstrap")
  BY DEF CompleteScan, t1
<1> QED
  BY <1>10, <1>12, <1>13 DEF t

LEMMA DrainWorkerSound ==
  ASSUME NEW g, Sound(g)
  PROVE  Sound(DrainWorker(g)) /\ DrainWorker(g).done = "none"
<1>1. g.done = "none" \/ g.done \in Scanned \/ g.done \in Completions
  BY DEF Sound, Worker, Working, Scanning
<1>2. CASE g.done = "none"
  BY <1>2 DEF DrainWorker
<1>3. CASE g.done \in Scanned
  <2>1. DrainWorker(g) = CompleteScan([g EXCEPT !.done = "none"], g.done = "scanned")
    BY <1>3 DEF DrainWorker, Scanned
  <2> QED BY <1>3, <2>1, ScanSound
<1>4. CASE g.done \in Completions
  <2>1. DrainWorker(g) = Complete([g EXCEPT !.done = "none"], g.done)
    BY <1>4 DEF DrainWorker, Completions
  <2> QED BY <1>4, <2>1, CompleteSound DEF Resting
<1> QED
  BY <1>1, <1>2, <1>3, <1>4

LEMMA WorkerFailureSound ==
  ASSUME NEW g, Sound(g), g.done = "none"
  PROVE  Sound(WorkerFailure(g))
<1> DEFINE g1 == [g EXCEPT !.failure_drained = TRUE, !.work = {}, !.job = "none"]
           svc == [g.svc EXCEPT !.in_flight = FALSE]
           b == [g1 EXCEPT !.svc = svc]
<1>0. Typed(g) /\ Claims(g) /\ Ending(g) /\ g.svc \in Operation
  BY DEF Sound, Typed
<1>1. /\ Typed(g1)
      /\ g1.phase = g.phase /\ g1.index = g.index /\ g1.retain = g.retain /\ g1.svc_failed = g.svc_failed
      /\ g1.bound = g.bound /\ g1.client = g.client /\ g1.thread = g.thread /\ g1.pump = g.pump
      /\ g1.job = "none" /\ g1.done = "none" /\ g1.svc = g.svc /\ g1.owed = g.owed /\ g1.result = g.result
  BY <1>0, FieldsKnown DEF Typed
<1> HIDE DEF g1
<1>2. Resting(g1) /\ ~Scanning(g1)
  BY <1>1, RestingWorker DEF Resting
<1>3. CASE g.svc.in_flight
  <2>1. svc \in Operation /\ svc.pending = g.svc.pending
    BY <1>0 DEF Operation
  <2>2. CancelPending(g1) = Finish(b, "delivery_failed")
    <3>1. [g1 EXCEPT !.svc.in_flight = FALSE] = b
      BY <1>0, <1>1, FieldsKnown DEF Typed
    <3>2. g.svc.pending
      BY <1>3 DEF Sound, Pending
    <3> HIDE DEF b, svc
    <3> QED BY <1>1, <3>1, <3>2 DEF CancelPending
  <2>3. /\ Typed(b)
        /\ b.phase = g.phase /\ b.index = g.index /\ b.retain = g.retain /\ b.svc_failed = g.svc_failed
        /\ b.bound = g.bound /\ b.client = g.client /\ b.thread = g.thread /\ b.pump = g.pump
        /\ b.job = "none" /\ b.done = "none" /\ b.svc = svc /\ b.owed = g.owed /\ b.result = g.result
    <3> HIDE DEF svc
    <3> QED BY <1>1, <2>1, FieldsKnown DEF Typed
  <2> HIDE DEF b
  <2>4. Finishing(b, "delivery_failed")
    BY <1>3, <2>3, BackFinishing
  <2>5. Sound(Finish(b, "delivery_failed"))
    BY <2>4, FinishSound
  <2>6. WorkerFailure(g) = g \/ WorkerFailure(g) = CancelPending(g1)
    BY <1>3 DEF WorkerFailure, g1
  <2> QED BY <2>2, <2>5, <2>6
<1>4. CASE ~g.svc.in_flight
  <2>1. Claims(g1)
    BY <1>0, <1>1 DEF Claims
  <2>2. Worker(g1)
    BY <1>1, <1>2, <1>4, RestingWorker
  <2>3. Pending(g1)
    BY <1>1, <1>4 DEF Sound, Pending, ForExecutive
  <2>4. Requesters(g1)
    BY <1>1 DEF Sound, Requesters, Awaited
  <2>5. Results(g1)
    BY <1>1 DEF Sound, Results, ForExecutive
  <2>6. \A i \in 1..Len(Catalogue) : i < g1.index /\ Catalogue[i] \in g1.bound => Excused(g1, Catalogue[i])
    BY <1>0, <1>1 DEF Ending, Excused
  <2>7. Ending(g1)
    BY <1>0, <1>1, <1>2, <2>6 DEF Ending
  <2>8. Sound(g1)
    BY <1>1, <2>1, <2>2, <2>3, <2>4, <2>5, <2>7 DEF Sound
  <2>9. WorkerFailure(g) = g \/ WorkerFailure(g) = g1
    BY <1>4 DEF WorkerFailure, g1
  <2> QED BY <2>8, <2>9
<1> QED
  BY <1>3, <1>4

(* ---------------------------- starting a module ------------------------- *)

\* A module that waits to be started is bound, nobody works on it, and the
\* shutdown has not begun.
LEMMA StartFacts ==
  ASSUME NEW g, Sound(g), g.svc.start
  PROVE  /\ g.svc.pending /\ ~g.svc.in_flight /\ g.svc.module \in g.bound /\ g.svc.module \in Modules
         /\ Resting(g) /\ g.result = "none" /\ g.index = 1
         /\ g.phase # "complete"
<1>1. g.svc.pending /\ ~g.svc.in_flight /\ g.svc.module \in g.bound /\ g.svc.next
  BY DEF Sound, Pending
<1>2. g.result = "none" /\ Resting(g)
  BY <1>1 DEF Sound, Results, Worker, Resting
<1>3. g.svc.action # "unload"
  BY <1>1 DEF Sound, Pending
<1>4. ~(g.index > 1) /\ g.phase # "complete"
  BY <1>1, <1>3 DEF Sound, Pending, Ending
<1>5. g.index \in 1..(Len(Catalogue) + 1) /\ Len(Catalogue) \in Nat /\ g.svc.module \in Modules
  BY Constants DEF Sound, Typed, Operation
<1> QED
  BY <1>1, <1>2, <1>4, <1>5

\* A client is registered for a module that is bound and not being worked on,
\* with a thread, with a pump or with neither.
LEMMA RegisteredSound ==
  ASSUME NEW g, NEW x, Sound(g), g.svc.start, NEW m, m = g.svc.module,
         Typed(x), x.client = g.client \cup {m}, x.svc = g.svc,
         x.phase = g.phase, x.index = g.index, x.retain = g.retain, x.svc_failed = g.svc_failed,
         x.bound = g.bound, x.job = g.job, x.done = g.done, x.owed = g.owed, x.result = g.result,
         \A d \in Threads : d # m \/ m = Executive => x.thread[d] = g.thread[d],
         \A d \in Threads : g.thread[d] # "none" => x.thread[d] # "none",
         \A q \in Pumped : q # m => x.pump[q] = g.pump[q]
  PROVE  Sound(x)
<1>1. /\ g.svc.pending /\ ~g.svc.in_flight /\ m \in g.bound /\ m \in Modules
      /\ Resting(g) /\ g.result = "none" /\ g.index = 1 /\ g.phase # "complete"
  BY StartFacts
<1>2. Claims(x)
  BY <1>1 DEF Sound, Claims
<1>3. Resting(x) /\ Worker(x) /\ ~Scanning(x)
  BY <1>1, RestingWorker DEF Resting
<1>4. Pending(x)
  BY <1>1, Constants DEF Sound, Pending, ForExecutive
<1>5. Requesters(x)
  BY <1>1 DEF Sound, Requesters, Awaited
<1>6. Results(x)
  BY <1>1 DEF Results
<1>7. \A i \in 1..Len(Catalogue) : ~(i < x.index)
  BY <1>1
<1>8. x.phase \in Down => x.thread[Executive] = "none"
  BY Constants DEF Sound, Ending
<1>9. Ending(x)
  BY <1>1, <1>7, <1>8 DEF Ending
<1> QED
  BY <1>2, <1>3, <1>4, <1>5, <1>6, <1>9 DEF Sound

LEMMA CompleteStartSound ==
  ASSUME NEW g, Sound(g), g.svc.start
  PROVE  /\ (ForExecutive(g) => Executive \in g.client) => Sound(CompleteStart(g, TRUE))
         /\ Sound(CompleteStart(g, FALSE))
<1>0. Typed(g) /\ Claims(g) /\ Requesters(g) /\ Ending(g) /\ g.svc \in Operation
  BY DEF Sound, Typed
<1>1. /\ g.svc.pending /\ ~g.svc.in_flight /\ g.svc.module \in g.bound /\ g.svc.module \in Modules
      /\ Resting(g) /\ g.result = "none" /\ g.index = 1 /\ g.phase # "complete"
  BY StartFacts
<1>2. ASSUME ForExecutive(g) => Executive \in g.client
      PROVE  Sound(CompleteStart(g, TRUE))
  <2> DEFINE x == [g EXCEPT !.started = @ \cup {g.svc.module}]
  <2>1. Calm(g, x) /\ x.thread = g.thread /\ x.phase = g.phase
    BY <1>0, <1>1, FieldsKnown DEF Calm, Alike, PhaseFollows, Typed
  <2>2. CompleteStart(g, TRUE) = Finish(x, "success")
    BY DEF CompleteStart
  <2> HIDE DEF x
  <2>3. Sound(x)
    BY <2>1, CalmSound
  <2>4. /\ x.svc = g.svc /\ x.result = "none" /\ x.client = g.client /\ x.index = 1 /\ x.job = g.job
        /\ x.done = g.done
    BY <1>1, <2>1 DEF Calm, Alike
  <2>5. Finishing(x, "success")
    <3>1. ForExecutive(x) => Executive \in x.client /\ x.thread[Executive] = "none"
      BY <1>1, <1>2, <2>3, <2>4 DEF ForExecutive, Sound, Pending
    <3>2. ~(x.index > 1) /\ Resting(x)
      BY <1>1, <2>4 DEF Resting
    <3> QED BY <1>1, <2>3, <2>4, <3>1, <3>2 DEF Finishing, Sound
  <2> QED BY <2>2, <2>5, FinishSound
<1>3. Sound(CompleteStart(g, FALSE))
  <2> DEFINE op == [g.svc EXCEPT !.start = FALSE, !.previous = TRUE, !.next = FALSE, !.cleanup = TRUE]
             x == [g EXCEPT !.svc = op]
  <2>1. /\ op \in Operation /\ op.pending /\ ~op.in_flight /\ ~op.start /\ op.previous /\ ~op.next /\ op.cleanup
        /\ op.purpose = g.svc.purpose /\ op.module = g.svc.module /\ op.client = g.svc.client
        /\ op.action = g.svc.action
    BY <1>0, <1>1 DEF Operation
  <2>2. CompleteStart(g, FALSE) = x
    BY <1>0, FieldsKnown DEF CompleteStart, Typed, Operation
  <2> HIDE DEF op
  <2>3. Typed(x) /\ SameCode(g, x) /\ x.svc = op /\ x.owed = g.owed /\ x.result = g.result
    BY <1>0, <2>1, FieldsKnown DEF Typed, SameCode
  <2> HIDE DEF x
  <2>4. /\ x.phase = g.phase /\ x.index = g.index /\ x.bound = g.bound /\ x.client = g.client
        /\ x.thread = g.thread /\ x.pump = g.pump /\ x.job = g.job /\ x.done = g.done
        /\ x.svc_failed = g.svc_failed /\ x.retain = g.retain
    BY <2>3 DEF SameCode
  <2>5. Claims(x) /\ Resting(x)
    BY <1>0, <1>1, <2>4 DEF Claims, Resting
  <2>6. Worker(x) /\ ~Scanning(x) /\ x.done # "success"
    BY <2>1, <2>3, <2>5, RestingWorker DEF Resting
  <2>7. Pending(x)
    BY <1>1, <2>1, <2>3, <2>4, <2>6 DEF Sound, Pending, ForExecutive
  <2>8. Requesters(x)
    BY <1>0, <1>1, <2>1, <2>3, <2>4 DEF Requesters, Awaited
  <2>9. Results(x)
    BY <1>1, <2>3 DEF Results
  <2>10. \A i \in 1..Len(Catalogue) : ~(i < x.index)
    BY <1>1, <2>4
  <2>11. Ending(x)
    BY <1>0, <1>1, <2>4, <2>10 DEF Ending
  <2> QED BY <2>2, <2>3, <2>5, <2>6, <2>7, <2>8, <2>9, <2>11 DEF Sound
<1> QED
  BY <1>2, <1>3

LEMMA StartThreadSound ==
  ASSUME NEW g, Sound(g), g.svc.start, NEW luck, NEW m, m = g.svc.module, m \in Threads
  PROVE  Sound(StartThread(g, m, luck))
<1> DEFINE r == [g EXCEPT !.client = @ \cup {m}, !.drained = @ \ {m}]
           s == [r EXCEPT !.thread[m] = "running", !.exit = @ \ {m}]
<1>0. Typed(g)
  BY DEF Sound
<1>1. /\ Typed(r) /\ r.client = g.client \cup {m} /\ r.svc = g.svc
      /\ r.phase = g.phase /\ r.index = g.index /\ r.retain = g.retain /\ r.svc_failed = g.svc_failed
      /\ r.bound = g.bound /\ r.job = g.job /\ r.done = g.done /\ r.owed = g.owed /\ r.result = g.result
      /\ r.thread = g.thread /\ r.pump = g.pump
  BY <1>0, FieldsKnown, Constants DEF Typed
<1>2. StartThread(g, m, luck) =
        IF m \in g.client THEN CompleteStart(g, FALSE)
        ELSE IF m = Executive THEN CompleteStart(r, TRUE)
        ELSE IF luck = "fail" THEN CompleteStart(r, FALSE) ELSE CompleteStart(s, TRUE)
  BY DEF StartThread
<1> HIDE DEF r
<1>3. /\ Typed(s) /\ s.client = g.client \cup {m} /\ s.svc = g.svc
      /\ s.phase = g.phase /\ s.index = g.index /\ s.retain = g.retain /\ s.svc_failed = g.svc_failed
      /\ s.bound = g.bound /\ s.job = g.job /\ s.done = g.done /\ s.owed = g.owed /\ s.result = g.result
      /\ s.pump = g.pump
  BY <1>1, FieldsKnown, Constants DEF Typed, ThreadStates
<1>3a. s.thread = [g.thread EXCEPT ![m] = "running"]
  BY <1>1, FieldsKnown DEF Typed
<1> HIDE DEF s
<1>4. Sound(CompleteStart(g, FALSE))
  BY CompleteStartSound
<1>5. Sound(r)
  BY <1>1, RegisteredSound
<1>6. Sound(CompleteStart(r, TRUE)) \/ m # Executive
  <2>1. m = Executive => Executive \in r.client
    BY <1>1
  <2> QED BY <1>1, <1>5, <2>1, CompleteStartSound
<1>7. Sound(CompleteStart(r, FALSE))
  BY <1>1, <1>5, CompleteStartSound
<1>8. Sound(CompleteStart(s, TRUE)) \/ m = Executive
  <2> SUFFICES ASSUME m # Executive PROVE Sound(CompleteStart(s, TRUE))
    OBVIOUS
  <2>1. /\ \A d \in Threads : d # m \/ m = Executive => s.thread[d] = g.thread[d]
        /\ \A d \in Threads : g.thread[d] # "none" => s.thread[d] # "none"
    BY <1>0, <1>3a DEF Typed
  <2>2. Sound(s)
    <3>1. \A q \in Pumped : q # m => s.pump[q] = g.pump[q]
      BY <1>3
    <3> QED BY <1>3, <2>1, <3>1, RegisteredSound
  <2>3. ~ForExecutive(s)
    BY <1>3, <2>2, StartFacts DEF Sound, Pending
  <2> QED BY <1>3, <2>2, <2>3, CompleteStartSound
<1> QED
  BY <1>2, <1>4, <1>6, <1>7, <1>8

\* A pumped client is taken off the Host's lists.
LEMMA RetireSound ==
  ASSUME NEW g, Sound(g), NEW p \in Pumped
  PROVE  /\ Sound(Retire(g, p)) /\ p \notin Retire(g, p).client
         /\ Retire(g, p).svc = g.svc /\ Retire(g, p).bound = g.bound /\ Retire(g, p).work = g.work
<1> DEFINE x == Retire(g, p)
<1>0. Typed(g) /\ p \notin Threads /\ p # Executive
  BY Constants DEF Sound
<1>1. NoPump \in PumpState /\ NoPump.phase = "none"
  BY DEF NoPump, PumpState, PumpPhases
<1>2. /\ Typed(x) /\ x.client = g.client \ {p} /\ x.svc = g.svc /\ x.work = g.work
      /\ x.phase = g.phase /\ x.index = g.index /\ x.retain = g.retain /\ x.svc_failed = g.svc_failed
      /\ x.bound = g.bound /\ x.job = g.job /\ x.done = g.done /\ x.owed = g.owed /\ x.result = g.result
      /\ x.thread = g.thread /\ x.pump = [g.pump EXCEPT ![p] = NoPump]
  BY <1>0, <1>1, FieldsKnown DEF Typed, Retire
<1> HIDE DEF x
<1>3. Claims(x)
  <2>1. ASSUME NEW q \in Pumped, x.pump[q].phase # "none" PROVE q \in x.client
    BY <1>0, <1>1, <1>2, <2>1 DEF Sound, Claims, Typed
  <2> QED BY <1>0, <1>2, <2>1 DEF Sound, Claims
<1>4. Worker(x) /\ (Scanning(x) <=> Scanning(g))
  BY <1>2 DEF Sound, Worker, Working, Scanning
<1>5. Pending(x)
  BY <1>2 DEF Sound, Pending, ForExecutive
<1>6. Requesters(x)
  BY <1>0, <1>2 DEF Sound, Requesters, Awaited
<1>7. Results(x)
  BY <1>0, <1>2 DEF Sound, Results, ForExecutive
<1>8. Ending(x)
  <2>1. \A i \in 1..Len(Catalogue) : i < x.index /\ Catalogue[i] \in x.bound => Excused(x, Catalogue[i])
    BY <1>2 DEF Sound, Ending, Excused
  <2> QED BY <1>2, <1>4, <2>1 DEF Sound, Ending
<1>9. Sound(x)
  BY <1>2, <1>3, <1>4, <1>5, <1>6, <1>7, <1>8 DEF Sound
<1> QED
  BY <1>2, <1>9 DEF x

LEMMA ActivateSound ==
  ASSUME NEW g, Sound(g), g.svc.start, NEW luck, NEW p, p = g.svc.module, p \in Pumped
  PROVE  Sound(Activate(g, p, luck)) /\ Activate(g, p, luck).svc = g.svc
<1> DEFINE q == [NoPump EXCEPT
                    !.phase = IF luck = "fail" THEN "stopping" ELSE IF StartTurns = 0 THEN "ready" ELSE "starting",
                    !.stop = luck = "fail", !.failed = luck = "fail", !.left = StartTurns]
           x == [g EXCEPT !.client = @ \cup {p}, !.pump[p] = q]
<1>0. Typed(g)
  BY DEF Sound
<1>1. q \in PumpState
  <2> DEFINE failed == luck = "fail"
             phase == IF failed THEN "stopping" ELSE IF StartTurns = 0 THEN "ready" ELSE "starting"
  <2>1. failed \in BOOLEAN /\ phase \in PumpPhases /\ StartTurns \in Nat
    BY Constants DEF PumpPhases
  <2>2. q = [NoPump EXCEPT !.phase = phase, !.stop = failed, !.failed = failed, !.left = StartTurns]
    OBVIOUS
  <2>3. NoPump \in PumpState
    BY DEF NoPump, PumpState, PumpPhases
  <2> HIDE DEF failed, phase, q
  <2> QED BY <2>1, <2>2, <2>3 DEF PumpState
<1>2. Activate(g, p, luck) = x
  BY DEF Activate
<1> HIDE DEF q
<1>3. /\ Typed(x) /\ x.client = g.client \cup {p} /\ x.svc = g.svc
      /\ x.phase = g.phase /\ x.index = g.index /\ x.retain = g.retain /\ x.svc_failed = g.svc_failed
      /\ x.bound = g.bound /\ x.job = g.job /\ x.done = g.done /\ x.owed = g.owed /\ x.result = g.result
      /\ x.thread = g.thread
      /\ \A r \in Pumped : r # p => x.pump[r] = g.pump[r]
  BY <1>0, <1>1, FieldsKnown, Constants DEF Typed
<1> HIDE DEF x
<1>4. Sound(x)
  BY <1>3, RegisteredSound
<1> QED
  BY <1>2, <1>3, <1>4

LEMMA StartPumpSound ==
  ASSUME NEW g, Sound(g), g.svc.start, NEW luck, NEW p, p = g.svc.module, p \in Pumped
  PROVE  Sound(StartPump(g, p, luck))
<1> DEFINE a == IF p \in g.client THEN g ELSE Activate(g, p, luck)
           f == [a EXCEPT !.pump[p].retained = TRUE, !.retain = TRUE]
<1>1. Sound(a) /\ a.svc = g.svc /\ p # Executive
  BY ActivateSound, Constants
<1>2. StartPump(g, p, luck) =
        IF a.pump[p].phase = "ready" THEN CompleteStart(a, TRUE)
        ELSE IF ~(a.pump[p].failed /\ a.pump[p].phase = "stopped" /\ RouterIdle(a, p)) THEN a
        ELSE IF luck = "stuck" THEN Finish(f, "installation_failed")
        ELSE CompleteStart(Retire(a, p), FALSE)
  BY DEF StartPump
<1> HIDE DEF a
<1>3. Sound(CompleteStart(a, TRUE))
  <2>1. ~ForExecutive(a)
    BY <1>1, StartFacts DEF Sound, Pending
  <2> QED BY <1>1, <2>1, CompleteStartSound
<1>4. Sound(Finish(f, "installation_failed"))
  <2>0. Typed(a) /\ a.pump[p] \in PumpState
    BY <1>1 DEF Sound, Typed
  <2>1. Calm(a, f)
    <3> DEFINE q == [a.pump[p] EXCEPT !.retained = TRUE]
               y == [a EXCEPT !.pump[p] = q, !.retain = TRUE]
    <3>1. q \in PumpState /\ q.phase = a.pump[p].phase
      BY <2>0 DEF PumpState
    <3>2. f = y
      BY <2>0, FieldsKnown DEF Typed
    <3> HIDE DEF q, f
    <3>3. Calm(a, y)
      BY <2>0, <3>1, FieldsKnown DEF Calm, Alike, PhaseFollows, Typed
    <3> QED BY <3>2, <3>3
  <2> HIDE DEF f
  <2>2. Sound(f) /\ f.svc = a.svc
    BY <1>1, <2>1, CalmSound DEF Calm, Alike
  <2>3. f.svc.pending /\ ~f.svc.in_flight /\ ~(f.index > 1)
    BY <1>1, <2>2, StartFacts
  <2> QED BY <2>2, <2>3, FailSound
<1>5. Sound(CompleteStart(Retire(a, p), FALSE))
  BY <1>1, RetireSound, CompleteStartSound
<1> QED
  BY <1>1, <1>2, <1>3, <1>4, <1>5

LEMMA StartPendingSound ==
  ASSUME NEW g, Sound(g), NEW luck
  PROVE  Sound(StartPending(g, luck))
<1>1. g.svc.start => g.svc.module \in Modules /\ (g.svc.module \in Pumped \/ g.svc.module \in Threads)
  BY Constants DEF Sound, Typed, Operation
<1> QED
  BY <1>1, StartPumpSound, StartThreadSound DEF StartPending

(* ---------------------------- stopping a module ------------------------- *)

\* A thread that owes nothing is joined, or found to be gone already.
LEMMA ReleasedSound ==
  ASSUME NEW g, NEW x, Sound(g), g.result = "none", NEW m \in Modules,
         Typed(x), x.client = g.client \ {m}, x.svc = g.svc,
         x.phase = g.phase, x.index = g.index, x.retain = g.retain, x.svc_failed = g.svc_failed,
         x.bound = g.bound, x.job = g.job, x.done = g.done, x.owed = g.owed, x.result = g.result,
         x.pump = g.pump,
         m \in Pumped => g.pump[m].phase = "none",
         m \in Threads => g.owed[m] = 0,
         \A d \in Threads : d # m => x.thread[d] = g.thread[d],
         \A d \in Threads : d = m => x.thread[d] = "none"
  PROVE  Sound(x)
<1>1. \A d \in Threads : x.thread[d] # "none" => d # m /\ g.thread[d] # "none"
  OBVIOUS
<1>2. Claims(x)
  <2>1. \A d \in Threads : x.thread[d] # "none" => d \in x.client
    BY <1>1 DEF Sound, Claims
  <2>2. \A q \in Pumped : x.pump[q].phase # "none" => q \in x.client
    BY DEF Sound, Claims
  <2> QED BY <2>1, <2>2 DEF Sound, Claims
<1>3. Worker(x) /\ (Scanning(x) <=> Scanning(g))
  BY DEF Sound, Worker, Working, Scanning
<1>4. Pending(x)
  <2>1. g.thread[Executive] = "none" => x.thread[Executive] = "none"
    BY <1>1, Constants
  <2> QED BY <2>1 DEF Sound, Pending, ForExecutive
<1>5. Requesters(x)
  <2>1. \A d \in Threads : Awaited(g, d) => d # m
    BY DEF Sound, Requesters
  <2> QED BY <2>1 DEF Sound, Requesters, Awaited
<1>6. Results(x)
  BY DEF Results
<1>7. Ending(x)
  <2>1. \A i \in 1..Len(Catalogue) : i < x.index /\ Catalogue[i] \in x.bound => Excused(x, Catalogue[i])
    BY DEF Sound, Ending, Excused
  <2>2. \A i \in 1..Len(Catalogue) :
        i < x.index /\ Catalogue[i] \in Threads /\ x.thread[Catalogue[i]] # "none"
            => x.svc.pending /\ ~x.svc.in_flight /\ x.svc.module = Catalogue[i]
    BY <1>1 DEF Sound, Ending
  <2>3. x.phase \in Down => x.thread[Executive] = "none"
    BY <1>1, Constants DEF Sound, Ending
  <2> QED BY <1>3, <2>1, <2>2, <2>3 DEF Sound, Ending
<1> QED
  BY <1>2, <1>3, <1>4, <1>5, <1>6, <1>7 DEF Sound

LEMMA JoinSound ==
  ASSUME NEW g, Sound(g), g.result = "none", NEW m \in Threads, g.owed[m] = 0
  PROVE  /\ Sound(Join(g, m)) /\ m \notin Join(g, m).client /\ Join(g, m).thread[m] = "none"
         /\ Join(g, m).svc = g.svc /\ Join(g, m).result = g.result /\ Join(g, m).work = g.work
         /\ Join(g, m).phase = g.phase /\ Join(g, m).index = g.index /\ Join(g, m).bound = g.bound
         /\ Join(g, m).job = g.job /\ Join(g, m).done = g.done
<1> DEFINE x == Join(g, m)
<1>0. Typed(g) /\ m \notin Pumped
  BY Constants DEF Sound
<1>1. /\ Typed(x) /\ x.client = g.client \ {m} /\ x.svc = g.svc
      /\ x.phase = g.phase /\ x.index = g.index /\ x.retain = g.retain /\ x.svc_failed = g.svc_failed
      /\ x.bound = g.bound /\ x.job = g.job /\ x.done = g.done /\ x.owed = g.owed /\ x.result = g.result
      /\ x.pump = g.pump /\ x.work = g.work
  <2>1. << >> \in Seq(Messages) /\ "none" \in ThreadStates
    BY DEF ThreadStates
  <2> QED BY <1>0, <2>1, FieldsKnown DEF Typed, Join
<1>2. x.thread = [g.thread EXCEPT ![m] = "none"]
  BY <1>0, FieldsKnown DEF Typed, Join
<1> HIDE DEF x
<1>3. /\ \A d \in Threads : d # m => x.thread[d] = g.thread[d]
      /\ \A d \in Threads : d = m => x.thread[d] = "none"
  BY <1>0, <1>2 DEF Typed
<1>4. Sound(x)
  BY <1>0, <1>1, <1>3, ReleasedSound, Constants
<1> QED
  BY <1>1, <1>3, <1>4 DEF x

LEMMA StopThreadSound ==
  ASSUME NEW g, Sound(g), g.svc.pending, NEW m \in Threads
  PROVE  /\ Sound(StopThread(g, m).h)
         /\ StopThread(g, m).ok => StopThread(g, m).h.svc = g.svc /\ m \notin StopThread(g, m).h.client
<1> DEFINE asked == [g EXCEPT !.exit = @ \cup {m}]
           failed == [asked EXCEPT !.runtime_failed = @ \/ g.observed[m] = "failed"]
           gone == [g EXCEPT !.client = @ \ {m}]
<1>0. Typed(g) /\ m \notin Pumped /\ m \in Modules
  BY Constants DEF Sound
<1>1. g.result = "none"
  BY DEF Sound, Results
<1>2. /\ Calm(g, asked) /\ asked.svc = g.svc
      /\ Calm(g, failed) /\ failed.svc = g.svc /\ failed.owed = g.owed
  BY <1>0, FieldsKnown DEF Calm, Alike, PhaseFollows, Typed
<1>3. \/ StopThread(g, m) = [ok |-> FALSE, h |-> g]
      \/ StopThread(g, m) = [ok |-> FALSE, h |-> asked]
      \/ /\ StopThread(g, m) = [ok |-> TRUE, h |-> gone]
         /\ g.thread[m] = "none" /\ ~(g.owed[m] > 0)
      \/ /\ StopThread(g, m) = [ok |-> TRUE, h |-> Join(failed, m)]
         /\ g.owed[m] = 0
  BY DEF StopThread, Quiet
<1>4. /\ Typed(gone) /\ gone.client = g.client \ {m} /\ gone.svc = g.svc
      /\ gone.phase = g.phase /\ gone.index = g.index /\ gone.retain = g.retain /\ gone.svc_failed = g.svc_failed
      /\ gone.bound = g.bound /\ gone.job = g.job /\ gone.done = g.done /\ gone.owed = g.owed
      /\ gone.result = g.result /\ gone.pump = g.pump /\ gone.thread = g.thread
  BY <1>0, FieldsKnown DEF Typed
<1> HIDE DEF asked, failed, gone
<1>5. Sound(asked) /\ Sound(failed) /\ failed.result = "none"
  BY <1>1, <1>2, CalmSound DEF Calm, Alike
<1>6. ASSUME g.thread[m] = "none", ~(g.owed[m] > 0) PROVE Sound(gone)
  <2>1. g.owed[m] = 0
    BY <1>6 DEF Sound, Requesters
  <2> QED BY <1>0, <1>1, <1>4, <1>6, <2>1, ReleasedSound
<1>7. ASSUME g.owed[m] = 0
      PROVE  Sound(Join(failed, m)) /\ Join(failed, m).svc = g.svc /\ m \notin Join(failed, m).client
  <2>1. failed.owed[m] = 0
    BY <1>2, <1>7
  <2> QED BY <1>2, <1>5, <2>1, JoinSound
<1>8. CASE StopThread(g, m) = [ok |-> FALSE, h |-> g]
  BY <1>8
<1>9. CASE StopThread(g, m) = [ok |-> FALSE, h |-> asked]
  BY <1>5, <1>9
<1>10. CASE StopThread(g, m) = [ok |-> TRUE, h |-> gone] /\ g.thread[m] = "none" /\ ~(g.owed[m] > 0)
  BY <1>4, <1>6, <1>10
<1>11. CASE StopThread(g, m) = [ok |-> TRUE, h |-> Join(failed, m)] /\ g.owed[m] = 0
  BY <1>7, <1>11
<1> QED
  BY <1>3, <1>8, <1>9, <1>10, <1>11

LEMMA StopPumpSound ==
  ASSUME NEW g, Sound(g), g.svc.pending, ~g.svc.in_flight, NEW p \in Pumped, p = g.svc.module, NEW luck
  PROVE  /\ Sound(StopPump(g, p, luck).h)
         /\ StopPump(g, p, luck).ok => StopPump(g, p, luck).h.svc = g.svc /\ p \notin StopPump(g, p, luck).h.client
<1> DEFINE asked == PumpStop(g, p)
           kept == [asked EXCEPT !.pump[p].retained = TRUE, !.retain = TRUE, !.started = @ \ {p}]
<1>0. Typed(g) /\ p \notin Threads
  BY Constants DEF Sound
<1>1. \/ StopPump(g, p, luck) = [ok |-> FALSE, h |-> Finish(g, "busy")]
      \/ StopPump(g, p, luck) = [ok |-> FALSE, h |-> g]
      \/ StopPump(g, p, luck) = [ok |-> FALSE, h |-> asked]
      \/ StopPump(g, p, luck) = [ok |-> FALSE, h |-> Finish(kept, "unload_failed")]
      \/ StopPump(g, p, luck) = [ok |-> TRUE, h |-> Retire(asked, p)]
  BY DEF StopPump
<1>2. Calm(g, asked)
  BY <1>0, CalmPumpStop
<1> HIDE DEF asked
<1>3. Sound(asked) /\ asked.svc = g.svc
  BY <1>2, CalmSound DEF Calm, Alike
<1>4. Calm(asked, kept)
  <2> DEFINE q == [asked.pump[p] EXCEPT !.retained = TRUE]
             y == [asked EXCEPT !.pump[p] = q, !.retain = TRUE, !.started = @ \ {p}]
  <2>0. Typed(asked) /\ asked.pump[p] \in PumpState
    BY <1>3 DEF Sound, Typed
  <2>1. q \in PumpState /\ q.phase = asked.pump[p].phase
    BY <2>0 DEF PumpState
  <2>2. kept = y
    BY <2>0, FieldsKnown DEF Typed
  <2> HIDE DEF q, kept
  <2>3. Calm(asked, y)
    BY <2>0, <2>1, FieldsKnown DEF Calm, Alike, PhaseFollows, Typed
  <2> QED BY <2>2, <2>3
<1> HIDE DEF kept
<1>5. Sound(kept) /\ kept.svc = g.svc
  BY <1>3, <1>4, CalmSound DEF Calm, Alike
<1>6. Sound(Finish(g, "busy"))
  BY <1>0, FailSound
<1>7. Sound(Finish(kept, "unload_failed"))
  BY <1>0, <1>5, FailSound
<1>8. Sound(Retire(asked, p)) /\ Retire(asked, p).svc = g.svc /\ p \notin Retire(asked, p).client
  BY <1>3, RetireSound
<1> QED
  BY <1>1, <1>3, <1>6, <1>7, <1>8

LEMMA StopModuleSound ==
  ASSUME NEW g, Sound(g), g.svc.pending, ~g.svc.in_flight, NEW m, m = g.svc.module, NEW luck
  PROVE  /\ Sound(StopModule(g, m, luck).h)
         /\ StopModule(g, m, luck).ok => StopModule(g, m, luck).h.svc = g.svc /\ m \notin StopModule(g, m, luck).h.client
<1>0. Typed(g) /\ m \in Modules /\ (m \notin Pumped => m \in Threads) /\ (m \in Pumped => m \notin Threads)
  BY Constants DEF Sound, Typed, Operation
<1>1. CASE m \notin Pumped
  BY <1>0, <1>1, StopThreadSound DEF StopModule
<1>2. CASE m \in Pumped /\ PumpLive(g, m)
  BY <1>2, StopPumpSound DEF StopModule
<1>3. CASE m \in Pumped /\ ~PumpLive(g, m)
  <2> DEFINE gone == [g EXCEPT !.client = @ \ {m}]
  <2>1. /\ Typed(gone) /\ gone.client = g.client \ {m} /\ gone.svc = g.svc
        /\ gone.phase = g.phase /\ gone.index = g.index /\ gone.retain = g.retain /\ gone.svc_failed = g.svc_failed
        /\ gone.bound = g.bound /\ gone.job = g.job /\ gone.done = g.done /\ gone.owed = g.owed
        /\ gone.result = g.result /\ gone.pump = g.pump /\ gone.thread = g.thread
    BY <1>0, FieldsKnown DEF Typed
  <2>2. StopModule(g, m, luck) = [ok |-> TRUE, h |-> gone]
    BY <1>3 DEF StopModule
  <2> HIDE DEF gone
  <2>3. g.result = "none" /\ g.pump[m].phase = "none"
    BY <1>3 DEF Sound, Results, PumpLive
  <2>4. Sound(gone)
    BY <1>0, <1>3, <2>1, <2>3, ReleasedSound
  <2> QED BY <2>1, <2>2, <2>4
<1> QED
  BY <1>1, <1>2, <1>3

(* ------------------------- handing over to the worker ------------------- *)

LEMMA DispatchSound ==
  ASSUME NEW g, Sound(g), g.svc.pending, ~g.svc.in_flight, g.svc.start \/ g.svc.module \notin g.client, NEW luck
  PROVE  Sound(Dispatch(g, luck))
<1>0. Typed(g) /\ g.svc \in Operation
  BY DEF Sound, Typed
<1>1. CASE g.svc.start
  BY <1>1 DEF Dispatch
<1>2. CASE ~g.svc.start /\ luck = "fail"
  <2>1. g.svc.module \in Threads => g.thread[g.svc.module] = "none"
    BY <1>2 DEF Sound, Claims
  <2> QED BY <1>2, <2>1, FailSound DEF Dispatch
<1>3. CASE ~g.svc.start /\ luck # "fail"
  <2> DEFINE op == [g.svc EXCEPT !.in_flight = TRUE]
             x == [g EXCEPT !.svc = op, !.job = "module"]
  <2>1. /\ op \in Operation /\ op.pending /\ op.in_flight /\ ~op.start /\ op.purpose = g.svc.purpose
        /\ op.module = g.svc.module /\ op.client = g.svc.client /\ op.next = g.svc.next
        /\ op.cleanup = g.svc.cleanup /\ op.action = g.svc.action
    BY <1>0, <1>3 DEF Operation
  <2>2. Dispatch(g, luck) = x
    BY <1>0, <1>3, FieldsKnown DEF Dispatch, Typed
  <2> HIDE DEF op
  <2>3. /\ Typed(x) /\ x.svc = op /\ x.owed = g.owed /\ x.result = g.result
        /\ x.phase = g.phase /\ x.index = g.index /\ x.bound = g.bound /\ x.client = g.client
        /\ x.thread = g.thread /\ x.pump = g.pump /\ x.job = "module" /\ x.done = g.done
        /\ x.svc_failed = g.svc_failed /\ x.retain = g.retain
    BY <1>0, <2>1, FieldsKnown DEF Typed
  <2> HIDE DEF x
  <2>4. g.done = "none" /\ g.result = "none"
    BY DEF Sound, Worker, Working, Results
  <2>5. Claims(x)
    BY <2>3 DEF Sound, Claims
  <2>6. Working(x) /\ ~Scanning(x)
    BY <2>3, <2>4 DEF Working, Scanning
  <2>7. Worker(x)
    BY <2>1, <2>3, <2>6 DEF Worker
  <2>8. Pending(x)
    BY <1>3, <2>1, <2>3, <2>4 DEF Sound, Pending, ForExecutive
  <2>9. Requesters(x)
    BY <2>1, <2>3 DEF Sound, Requesters, Awaited
  <2>10. Results(x)
    BY <2>3, <2>4 DEF Results
  <2>11. \A i \in 1..Len(Catalogue) : i < x.index /\ Catalogue[i] \in x.bound => Excused(x, Catalogue[i])
    BY <2>1, <2>3 DEF Sound, Ending, Excused
  <2>12. \A i \in 1..Len(Catalogue) :
            i < x.index /\ Catalogue[i] \in Threads /\ x.thread[Catalogue[i]] # "none" => FALSE
    BY <1>3, <2>3 DEF Sound, Ending, Claims
  <2>13. Ending(x)
    BY <2>1, <2>3, <2>4, <2>6, <2>11, <2>12 DEF Sound, Ending
  <2> QED BY <2>2, <2>3, <2>5, <2>7, <2>8, <2>9, <2>10, <2>13 DEF Sound
<1> QED
  BY <1>1, <1>2, <1>3

LEMMA AdvanceSound ==
  ASSUME NEW g, Sound(g), NEW luck
  PROVE  Sound(Advance(g, luck))
<1> DEFINE releasing == g.svc.pending /\ ~g.svc.in_flight /\ g.svc.previous
           s == IF releasing THEN StopModule(g, g.svc.module, luck) ELSE [ok |-> TRUE, h |-> g]
           r == [s.h EXCEPT !.retain = TRUE]
<1>1. Sound(s.h)
  BY StopModuleSound
<1>2. ASSUME s.ok, s.h.svc.pending, ~s.h.svc.in_flight
      PROVE  s.h.svc.start \/ s.h.svc.module \notin s.h.client
  <2>1. CASE releasing
    BY <1>2, <2>1, StopModuleSound
  <2>2. CASE ~releasing
    BY <1>2, <2>2 DEF Sound, Pending, Claims
  <2> QED BY <2>1, <2>2
<1>3. \/ Advance(g, luck) = s.h
      \/ /\ s.ok /\ s.h.svc.pending /\ ~s.h.svc.in_flight
         /\ Advance(g, luck) = Dispatch(s.h, luck) \/ Advance(g, luck) = Finish(r, "unload_failed")
  BY DEF Advance
<1> HIDE DEF s
<1>4. Calm(s.h, r)
  BY <1>1, FieldsKnown DEF Sound, Calm, Alike, PhaseFollows, Typed
<1> HIDE DEF r
<1>5. Sound(r) /\ r.svc = s.h.svc /\ r.client = s.h.client
  BY <1>1, <1>4, CalmSound DEF Calm, Alike
<1>6. ASSUME s.ok, s.h.svc.pending, ~s.h.svc.in_flight
      PROVE  Sound(Finish(r, "unload_failed"))
  <2>1. r.index > 1 /\ r.svc.module \in Threads => r.thread[r.svc.module] = "none"
    <3>1. CASE r.svc.start
      <4>1. r.index = 1
        BY <1>5, <3>1, StartFacts
      <4> QED BY <4>1
    <3>2. CASE ~r.svc.start
      BY <1>2, <1>5, <1>6, <3>2 DEF Sound, Claims
    <3> QED BY <3>1, <3>2
  <2> QED BY <1>5, <1>6, <2>1, FailSound
<1>7. ASSUME s.ok, s.h.svc.pending, ~s.h.svc.in_flight
      PROVE  Sound(Dispatch(s.h, luck))
  BY <1>1, <1>2, <1>7, DispatchSound
<1> QED
  BY <1>1, <1>3, <1>6, <1>7

(* ---------------------------- the Host's phases ------------------------- *)

\* The result is taken: a failure of the shutdown keeps everything.
LEMMA TakenSound ==
  ASSUME NEW g, NEW x, Sound(g), g.result # "none", Typed(x), x.result = "none",
         x.svc = g.svc, x.svc_failed = g.svc_failed, x.index = g.index, x.phase = g.phase,
         x.bound = g.bound, x.client = g.client, x.owed = g.owed, x.thread = g.thread, x.pump = g.pump,
         x.job = g.job, x.done = g.done, g.retain => x.retain,
         g.result = "success" \/ ForExecutive(g) \/ x.retain
  PROVE  Sound(x)
<1>1. Claims(x)
  BY DEF Sound, Claims
<1>2. Worker(x) /\ (Scanning(x) <=> Scanning(g))
  BY DEF Sound, Worker, Working, Scanning
<1>3. Pending(x)
  BY DEF Sound, Pending, ForExecutive
<1>4. Requesters(x)
  BY DEF Sound, Requesters, Awaited
<1>5. Results(x)
  BY DEF Results
<1>6. ~g.svc.pending
  BY DEF Sound, Results
<1>7. \A i \in 1..Len(Catalogue) : i < x.index /\ Catalogue[i] \in x.bound => Excused(x, Catalogue[i])
  <2> SUFFICES ASSUME NEW i \in 1..Len(Catalogue), i < g.index, Catalogue[i] \in g.bound PROVE x.retain
    BY DEF Excused
  <2>1. g.index \in Int /\ g.index > 1
    BY DEF Sound, Typed
  <2>2. g.svc.purpose = "shutdown"
    BY <2>1 DEF Sound, Ending
  <2>3. Excused(g, Catalogue[i])
    BY DEF Sound, Ending
  <2> QED BY <1>6, <2>2, <2>3 DEF Excused, ForExecutive
<1>8. Ending(x)
  BY <1>2, <1>7 DEF Sound, Ending
<1> QED
  BY <1>1, <1>2, <1>3, <1>4, <1>5, <1>8 DEF Sound

\* The Executive's thread is started: its binding is there, and the shutdown
\* has not begun.
LEMMA StartedSound ==
  ASSUME NEW g, NEW x, Sound(g), g.result = "success", ForExecutive(g), Typed(x), x.result = "none",
         x.svc = g.svc, x.svc_failed = g.svc_failed, x.index = g.index, x.phase \notin Down,
         x.bound = g.bound, x.client = g.client, x.owed = g.owed, x.pump = g.pump,
         x.job = g.job, x.done = g.done, x.retain = g.retain,
         \A m \in Threads : m # Executive => x.thread[m] = g.thread[m],
         x.thread[Executive] # "none"
  PROVE  Sound(x)
<1>1. ~g.svc.pending /\ Executive \in g.client /\ g.thread[Executive] = "none"
  BY DEF Sound, Results
<1>2. Claims(x)
  BY <1>1 DEF Sound, Claims
<1>3. Worker(x)
  BY DEF Sound, Worker, Working, Scanning
<1>4. Pending(x)
  BY <1>1 DEF Sound, Pending
<1>5. Requesters(x)
  BY <1>1 DEF Sound, Requesters, Awaited
<1>6. Results(x)
  BY DEF Results
<1>7. g.index = 1
  <2>1. ~(g.index > 1)
    BY DEF Sound, Ending, ForExecutive
  <2> QED BY <2>1 DEF Sound, Typed
<1>8. \A i \in 1..Len(Catalogue) : ~(i < x.index)
  BY <1>7
<1>9. Ending(x)
  BY <1>7, <1>8 DEF Ending, Down
<1> QED
  BY <1>2, <1>3, <1>4, <1>5, <1>6, <1>9 DEF Sound

LEMMA TakeResultSound ==
  ASSUME NEW g, Sound(g), NEW luck
  PROVE  /\ Sound(TakeResult(g, luck).h)
         /\ ~TakeResult(g, luck).last => TakeResult(g, luck).h.result = "none"
<1> DEFINE taken == [g EXCEPT !.result = "none"]
           kept == [taken EXCEPT !.runtime_failed = TRUE, !.retain = TRUE]
           down == [taken EXCEPT !.phase = "shutting_down"]
           begun == StartExecutive(taken, luck)
           up == [begun EXCEPT !.phase = "running", !.grace = "unset"]
<1>0. Typed(g)
  BY DEF Sound
<1>1. \/ g.result = "none" /\ TakeResult(g, luck) = [last |-> FALSE, h |-> g]
      \/ g.result # "none" /\ ForExecutive(g) /\ TakeResult(g, luck) = [last |-> TRUE, h |-> down]
      \/ g.result = "success" /\ TakeResult(g, luck) = [last |-> FALSE, h |-> taken]
      \/ g.result # "none" /\ TakeResult(g, luck) = [last |-> FALSE, h |-> kept]
      \/ /\ g.result # "none" /\ ForExecutive(g)
         /\ TakeResult(g, luck) = [last |-> FALSE, h |-> ExecutiveFailure(taken)]
      \/ /\ g.result = "success" /\ ForExecutive(g)
         /\ \/ TakeResult(g, luck) = [last |-> FALSE, h |-> ExecutiveFailure(begun)]
            \/ TakeResult(g, luck) = [last |-> TRUE, h |-> up]
  BY DEF TakeResult, ForExecutive
<1>2. /\ Typed(taken) /\ taken.result = "none"
      /\ taken.svc = g.svc /\ taken.svc_failed = g.svc_failed /\ taken.index = g.index /\ taken.phase = g.phase
      /\ taken.bound = g.bound /\ taken.client = g.client /\ taken.owed = g.owed /\ taken.thread = g.thread
      /\ taken.pump = g.pump /\ taken.job = g.job /\ taken.done = g.done /\ taken.retain = g.retain
  BY <1>0, FieldsKnown DEF Typed
<1> HIDE DEF taken
<1>3. /\ Typed(kept) /\ kept.result = "none" /\ kept.retain
      /\ kept.svc = g.svc /\ kept.svc_failed = g.svc_failed /\ kept.index = g.index /\ kept.phase = g.phase
      /\ kept.bound = g.bound /\ kept.client = g.client /\ kept.owed = g.owed /\ kept.thread = g.thread
      /\ kept.pump = g.pump /\ kept.job = g.job /\ kept.done = g.done
  BY <1>2, FieldsKnown DEF Typed
<1> HIDE DEF kept
<1>4. ASSUME g.result = "success" \/ ForExecutive(g), g.result # "none"
      PROVE  Sound(taken)
  BY <1>2, <1>4, TakenSound
<1>5. ASSUME g.result # "none"
      PROVE  Sound(kept)
  BY <1>3, <1>5, TakenSound
<1>6. ASSUME g.result # "none", ForExecutive(g)
      PROVE  Sound(down)
  <2>1. taken.thread[Executive] = "none"
    BY <1>2, <1>6 DEF Sound, Results
  <2>2. Calm(taken, down)
    BY <1>2, <2>1, FieldsKnown DEF Calm, Alike, PhaseFollows, Typed, Phases
  <2> QED BY <1>4, <1>6, <2>2, CalmSound
<1>7. ASSUME g.result # "none", ForExecutive(g)
      PROVE  Sound(ExecutiveFailure(taken)) /\ ExecutiveFailure(taken).result = "none"
  <2>1. Calm(taken, ExecutiveFailure(taken))
    BY <1>2, CalmFailure
  <2> QED BY <1>2, <1>4, <1>7, <2>1, CalmSound DEF Calm, Alike
<1>8. ASSUME g.result = "success", ForExecutive(g)
      PROVE  Sound(ExecutiveFailure(begun)) /\ ExecutiveFailure(begun).result = "none" /\ Sound(up)
  <2>1. /\ Typed(begun) /\ begun.result = "none"
        /\ begun.svc = g.svc /\ begun.svc_failed = g.svc_failed /\ begun.index = g.index
        /\ begun.bound = g.bound /\ begun.client = g.client /\ begun.owed = g.owed
        /\ begun.pump = g.pump /\ begun.job = g.job /\ begun.done = g.done /\ begun.retain = g.retain
        /\ \A m \in Threads : m # Executive => begun.thread[m] = g.thread[m]
        /\ begun.thread[Executive] # "none"
    <3> DEFINE state == IF luck = "fail" THEN "empty" ELSE "running"
    <3>1. state \in ThreadStates /\ state # "none"
      BY DEF ThreadStates
    <3>2. begun = [taken EXCEPT !.thread[Executive] = state, !.exit = @ \ {Executive}]
      BY DEF StartExecutive
    <3> HIDE DEF state, begun
    <3>3. /\ Typed(begun) /\ begun.result = "none"
          /\ begun.svc = g.svc /\ begun.svc_failed = g.svc_failed /\ begun.index = g.index
          /\ begun.bound = g.bound /\ begun.client = g.client /\ begun.owed = g.owed
          /\ begun.pump = g.pump /\ begun.job = g.job /\ begun.done = g.done /\ begun.retain = g.retain
      BY <1>2, <3>1, <3>2, FieldsKnown, Constants DEF Typed
    <3>4. begun.thread = [g.thread EXCEPT ![Executive] = state]
      BY <1>2, <3>2, FieldsKnown DEF Typed
    <3> QED BY <1>0, <3>1, <3>3, <3>4, Constants DEF Typed
  <2> HIDE DEF begun
  <2> DEFINE failing == ExecutiveFailure(begun)
  <2>2. /\ Typed(failing) /\ failing.result = "none" /\ failing.phase \notin Down
        /\ failing.svc = begun.svc /\ failing.svc_failed = begun.svc_failed /\ failing.index = begun.index
        /\ failing.bound = begun.bound /\ failing.client = begun.client /\ failing.owed = begun.owed
        /\ failing.pump = begun.pump /\ failing.job = begun.job /\ failing.done = begun.done
        /\ failing.retain = begun.retain /\ failing.thread = begun.thread
    BY <2>1, FieldsKnown, Constants DEF ExecutiveFailure, HasThread, Typed, Phases, Down
  <2>3. /\ Typed(up) /\ up.result = "none" /\ up.phase \notin Down
        /\ up.svc = begun.svc /\ up.svc_failed = begun.svc_failed /\ up.index = begun.index
        /\ up.bound = begun.bound /\ up.client = begun.client /\ up.owed = begun.owed
        /\ up.pump = begun.pump /\ up.job = begun.job /\ up.done = begun.done
        /\ up.retain = begun.retain /\ up.thread = begun.thread
    BY <2>1, FieldsKnown, Constants DEF Typed, Phases, Down
  <2> HIDE DEF failing, up
  <2>4. Sound(failing)
    BY <1>8, <2>1, <2>2, StartedSound
  <2>5. Sound(up)
    BY <1>8, <2>1, <2>3, StartedSound
  <2> QED BY <2>2, <2>4, <2>5 DEF failing
<1> HIDE DEF begun, up, down
<1> QED
  BY <1>1, <1>2, <1>3, <1>4, <1>5, <1>6, <1>7, <1>8

LEMMA EndExecutiveSound ==
  ASSUME NEW g, Sound(g), g.result = "none", ~g.svc.pending, ~Scanning(g), g.owed[Executive] = 0,
         g.thread[Executive] # "none"
  PROVE  /\ Sound(EndExecutive(g))
         /\ EndExecutive(g).phase = "shutting_down" => EndExecutive(g).result = "none"
<1> DEFINE seen == [g EXCEPT !.runtime_failed = @ \/ g.observed[Executive] = "failed"]
           joined == Join(seen, Executive)
           request == Request(joined, "replace", Executive, Executive, "executive_change")
           replacing == [request EXCEPT !.phase = "replacing_executive", !.change = "none"]
           down == [joined EXCEPT !.phase = "shutting_down", !.change = "none",
                                  !.runtime_failed = @ \/ g.change = "replace"]
<1>0. Typed(g) /\ Executive \in Threads /\ Executive \in Modules
  BY Constants DEF Sound
<1>1. Calm(g, seen) /\ seen.phase = g.phase
  BY <1>0, FieldsKnown DEF Calm, Alike, PhaseFollows, Typed
<1>2. EndExecutive(g) = replacing \/ EndExecutive(g) = down
  BY DEF EndExecutive
<1> HIDE DEF seen
<1>3. /\ Sound(seen) /\ seen.result = "none" /\ seen.owed[Executive] = 0 /\ seen.svc = g.svc
      /\ seen.job = g.job /\ seen.done = g.done /\ seen.index = g.index
  BY <1>1, CalmSound DEF Calm, Alike
<1>4. /\ Sound(joined) /\ joined.thread[Executive] = "none" /\ joined.svc = g.svc /\ joined.result = "none"
      /\ joined.phase = g.phase /\ joined.index = g.index /\ joined.job = g.job /\ joined.done = g.done
  BY <1>0, <1>1, <1>3, JoinSound
<1> HIDE DEF joined
<1>5. g.phase \notin Down /\ g.index = 1
  <2>1. g.phase \notin Down
    BY DEF Sound, Ending
  <2>2. ~(g.index > 1)
    BY <2>1 DEF Sound, Ending
  <2> QED BY <1>0, <2>1, <2>2 DEF Typed
<1>6. ~Scanning(joined) /\ ~joined.svc.pending
  BY <1>4 DEF Scanning
<1>7. Admissible(joined, "replace", Executive, Executive, "executive_change")
  <2>1. Resting(joined) /\ ~joined.svc_failed /\ \A d \in Threads : joined.owed[d] = 0
    BY <1>4, <1>6, IdleRests, IdleOwes
  <2>2. "replace" \in Actions /\ "executive_change" \in Purposes
    BY DEF Actions, Purposes
  <2>3. \A i \in 1..Len(Catalogue) : ~(i < joined.index)
    BY <1>4, <1>5
  <2>4. Typed(joined) /\ Claims(joined)
    BY <1>4 DEF Sound
  <2> QED BY <1>0, <1>4, <1>5, <1>6, <2>1, <2>2, <2>3, <2>4 DEF Admissible, Down
<1>8. Sound(request) /\ SameCode(joined, request)
  <2>1. request = Admit(joined, "replace", Executive, Executive, "executive_change")
    BY <1>4, <1>6 DEF Request
  <2> QED BY <1>7, <2>1, AdmitSound, AdmitKeeps
<1> HIDE DEF request
<1>9. Sound(replacing) /\ replacing.phase = "replacing_executive"
  <2>1. request.phase \notin Down /\ Typed(request)
    BY <1>4, <1>5, <1>8 DEF SameCode, Sound
  <2>2. Calm(request, replacing) /\ replacing.phase = "replacing_executive"
    BY <2>1, FieldsKnown DEF Calm, Alike, PhaseFollows, Typed, Phases, Down
  <2> QED BY <1>8, <2>2, CalmSound
<1>10. Sound(down) /\ down.result = "none"
  <2>1. Calm(joined, down) /\ down.result = joined.result
    BY <1>4, FieldsKnown DEF Calm, Alike, PhaseFollows, Typed, Phases, Sound
  <2> QED BY <1>4, <2>1, CalmSound
<1> QED
  BY <1>2, <1>9, <1>10

LEMMA IdleScan ==
  ASSUME NEW g, FilesystemIdle(g)
  PROVE  ~Scanning(g)
BY DEF FilesystemIdle, Scanning, Scanned

LEMMA StoppingExecutiveSound ==
  ASSUME NEW g, Sound(g), g.result = "none"
  PROVE  /\ Sound(StoppingExecutive(g))
         /\ StoppingExecutive(g).phase = "shutting_down" => StoppingExecutive(g).result = "none"
<1> DEFINE stopped == g.observed[Executive] \in {"exited", "failed", "empty", "none"}
           entered == [g EXCEPT !.phase = IF stopped /\ @ = "running" THEN "stopping_executive" ELSE @]
           leaving == entered.phase = "stopping_executive" /\ stopped
           pumps == IF leaving /\ g.change # "replace" THEN StopPumps(entered) ELSE entered
           asked == [pumps EXCEPT !.exit = @ \cup {m \in Threaded : HasThread(g, m)}]
           others == IF leaving /\ g.change # "replace" /\ g.work = {} THEN asked ELSE pumps
<1>0. Typed(g)
  BY DEF Sound
<1>1. \/ StoppingExecutive(g) = g
      \/ StoppingExecutive(g) = others
      \/ /\ StoppingExecutive(g) = EndExecutive(others)
         /\ HasThread(g, Executive) /\ ~g.svc.pending /\ FilesystemIdle(g) /\ Quiet(g, Executive)
  BY DEF StoppingExecutive
<1>2. Calm(g, entered)
  BY <1>0, FieldsKnown DEF Calm, Alike, PhaseFollows, Typed, Phases, Down
<1> HIDE DEF stopped, leaving, entered
<1>3. Sound(entered)
  BY <1>2, CalmSound
<1>4. Sound(pumps) /\ Alike(g, pumps)
  <2>1. Calm(entered, StopPumps(entered))
    BY <1>3, CalmStopPumps DEF Sound
  <2>2. Sound(StopPumps(entered)) /\ Alike(g, StopPumps(entered))
    BY <1>2, <1>3, <2>1, CalmSound, CalmThen DEF Calm
  <2> QED BY <1>2, <1>3, <2>2 DEF Calm
<1> HIDE DEF pumps
<1>5. Sound(asked) /\ Alike(g, asked)
  <2>1. Calm(pumps, asked)
    BY <1>4, FieldsKnown DEF Calm, Alike, PhaseFollows, Typed, Sound
  <2> QED BY <1>4, <2>1, CalmSound, CalmThen DEF Calm
<1> HIDE DEF asked
<1>6. Sound(others) /\ Alike(g, others)
  BY <1>4, <1>5
<1> HIDE DEF others
<1>7. others.result = "none"
  BY <1>6 DEF Alike
<1>8. ASSUME HasThread(g, Executive), ~g.svc.pending, FilesystemIdle(g), Quiet(g, Executive)
      PROVE  /\ Sound(EndExecutive(others))
             /\ EndExecutive(others).phase = "shutting_down" => EndExecutive(others).result = "none"
  <2>1. ~Scanning(others)
    <3>1. ~Scanning(g)
      BY <1>8, IdleScan
    <3> QED BY <1>6, <3>1 DEF Alike, Scanning
  <2>2. others.owed[Executive] = 0 /\ ~others.svc.pending /\ others.thread[Executive] # "none"
    BY <1>6, <1>8, Constants DEF Alike, Quiet, HasThread
  <2> QED BY <1>6, <1>7, <2>1, <2>2, EndExecutiveSound
<1> QED
  BY <1>1, <1>6, <1>7, <1>8

\* A set of numbers that is not empty has a least one.
LEMMA LeastNumber ==
  ASSUME NEW U, U \subseteq Nat, U # {}
  PROVE  \E n \in U : \A m \in U : n <= m
<1>1. IsWellFoundedOn(OpToRel(<, Nat), Nat)
  BY NatLessThanWellFounded
<1>2. PICK n \in U : \A m \in U : ~(<<m, n>> \in OpToRel(<, Nat))
  BY <1>1, WFMin
<1>3. \A m \in U : ~(m < n)
  BY <1>2 DEF OpToRel
<1>4. \A m \in U : n <= m
  <2> SUFFICES ASSUME NEW m \in U PROVE n <= m
    OBVIOUS
  <2>1. m \in Nat /\ n \in Nat
    OBVIOUS
  <2> QED BY <1>3, <2>1
<1> QED
  BY <1>4

LEMMA ShuttingDownSound ==
  ASSUME NEW g, Sound(g), g.phase = "shutting_down" => g.result = "none"
  PROVE  Sound(ShuttingDown(g))
<1> SUFFICES ASSUME g.phase = "shutting_down", ~g.svc.pending, FilesystemIdle(g)
             PROVE  Sound(ShuttingDown(g)) \/ ShuttingDown(g) = g
  BY DEF ShuttingDown
<1>0. /\ Typed(g) /\ Claims(g) /\ Ending(g) /\ g.result = "none" /\ g.thread[Executive] = "none"
      /\ Executive \in Threads /\ Executive \in Modules
  BY Constants DEF Sound, Ending, Down
<1>1. ~Scanning(g)
  BY IdleScan
<1>2. Resting(g) /\ ~g.svc.in_flight /\ ~g.svc_failed /\ \A d \in Threads : g.owed[d] = 0
  BY <1>1, IdleRests, IdleOwes
<1>3. Len(Catalogue) \in Nat /\ g.index \in Nat /\ g.index >= 1 /\ g.index <= Len(Catalogue) + 1
  BY <1>0, Constants DEF Typed
<1>4. \A i \in 1..Len(Catalogue) : i < g.index /\ Catalogue[i] \in g.bound => g.retain
  BY <1>0 DEF Ending, Excused
<1>5. \A i \in 1..Len(Catalogue) :
        ~(i < g.index /\ Catalogue[i] \in Threads /\ g.thread[Catalogue[i]] # "none")
  BY <1>0 DEF Ending
<1>6. CASE NextBound(g) = {}
  <2> DEFINE last == Len(Catalogue) + 1
             x == [g EXCEPT !.index = last, !.phase = "complete"]
  <2>1. ShuttingDown(g) = g \/ ShuttingDown(g) = x
    BY <1>0, <1>6, FieldsKnown DEF ShuttingDown, RequestShutdown, Typed
  <2>2. \A i \in 1..Len(Catalogue) : ~(i < g.index) => Catalogue[i] \notin g.bound
    BY <1>3, <1>6 DEF NextBound
  <2>3. /\ Typed(x) /\ x.svc = g.svc /\ x.owed = g.owed /\ x.result = g.result
        /\ x.phase = "complete" /\ x.index = last /\ x.bound = g.bound /\ x.client = g.client
        /\ x.thread = g.thread /\ x.pump = g.pump /\ x.job = g.job /\ x.done = g.done
        /\ x.svc_failed = g.svc_failed /\ x.retain = g.retain
    <3>1. last \in 1..(Len(Catalogue) + 1) /\ "complete" \in Phases
      BY <1>3 DEF Phases
    <3> HIDE DEF last
    <3> QED BY <1>0, <3>1, FieldsKnown DEF Typed
  <2> HIDE DEF x
  <2>4. Claims(x)
    BY <1>0, <2>3 DEF Claims
  <2>5. Worker(x) /\ ~Scanning(x)
    BY <1>1, <2>3 DEF Sound, Worker, Working, Scanning
  <2>6. Pending(x)
    BY <2>3 DEF Sound, Pending
  <2>7. Requesters(x)
    BY <2>3 DEF Sound, Requesters, Awaited
  <2>8. Results(x)
    BY <1>0, <2>3 DEF Results
  <2>9. \A i \in 1..Len(Catalogue) : Catalogue[i] \in x.bound => x.retain
    BY <1>4, <2>2, <2>3
  <2>10. \A i \in 1..Len(Catalogue) : ~(Catalogue[i] \in Threads /\ x.thread[Catalogue[i]] # "none")
    BY <1>0, <1>5, <2>2, <2>3 DEF Claims
  <2>11. Ending(x)
    BY <1>0, <2>3, <2>5, <2>9, <2>10 DEF Ending, Excused, Down
  <2>12. Sound(x)
    BY <2>3, <2>4, <2>5, <2>6, <2>7, <2>8, <2>11 DEF Sound
  <2> QED BY <2>1, <2>12
<1>7. CASE NextBound(g) # {}
  <2> DEFINE i == CHOOSE i \in NextBound(g) : \A j \in NextBound(g) : i <= j
             x == [g EXCEPT !.index = i + 1]
  <2>1. NextBound(g) \subseteq Nat
    BY <1>3 DEF NextBound
  <2>2. i \in NextBound(g) /\ \A j \in NextBound(g) : i <= j
    BY <1>7, <2>1, LeastNumber
  <2>3. ShuttingDown(g) = g \/ ShuttingDown(g) = Request(x, "unload", Catalogue[i], Executive, "shutdown")
    BY <1>7 DEF ShuttingDown, RequestShutdown
  <2> HIDE DEF i
  <2>4. i \in 1..Len(Catalogue) /\ i >= g.index /\ Catalogue[i] \in g.bound /\ Catalogue[i] \in Modules
    BY <1>3, <2>2, Constants DEF NextBound
  <2>5. \A k \in 1..Len(Catalogue) : k < i /\ Catalogue[k] \in g.bound => k < g.index
    BY <1>3, <2>2, <2>4 DEF NextBound
  <2>6. /\ Typed(x) /\ x.svc = g.svc /\ x.owed = g.owed /\ x.result = g.result
        /\ x.phase = g.phase /\ x.index = i + 1 /\ x.bound = g.bound /\ x.client = g.client
        /\ x.thread = g.thread /\ x.pump = g.pump /\ x.job = g.job /\ x.done = g.done
        /\ x.svc_failed = g.svc_failed /\ x.retain = g.retain
    BY <1>0, <1>3, <2>4, FieldsKnown DEF Typed
  <2> HIDE DEF x
  <2>7. Claims(x) /\ Resting(x)
    BY <1>0, <1>2, <2>6 DEF Claims, Resting
  <2>8. ASSUME NEW k \in 1..Len(Catalogue), k < x.index, Catalogue[k] # Catalogue[i]
        PROVE  k < i
    BY <2>4, <2>6, <2>8
  <2>9. \A k \in 1..Len(Catalogue) :
            k < x.index /\ Catalogue[k] \in x.bound => x.retain \/ Catalogue[k] = Catalogue[i]
    BY <1>4, <2>5, <2>6, <2>8
  <2>10. \A k \in 1..Len(Catalogue) :
            k < x.index /\ Catalogue[k] \in Threads /\ x.thread[Catalogue[k]] # "none"
                => Catalogue[k] = Catalogue[i]
    BY <1>0, <1>5, <2>5, <2>6, <2>8 DEF Claims
  <2>11. "unload" \in Actions /\ "shutdown" \in Purposes /\ x.phase \in Down /\ x.phase # "complete"
    BY <2>6 DEF Actions, Purposes, Down
  <2>12. Admissible(x, "unload", Catalogue[i], Executive, "shutdown")
    BY <1>0, <1>2, <2>4, <2>6, <2>7, <2>9, <2>10, <2>11 DEF Admissible
  <2> QED BY <2>3, <2>12, HostRequestSound
<1> QED
  BY <1>6, <1>7

LEMMA AdvanceLifecycleSound ==
  ASSUME NEW g, Sound(g), NEW luck
  PROVE  Sound(AdvanceLifecycle(g, luck))
BY TakeResultSound, StoppingExecutiveSound, ShuttingDownSound DEF AdvanceLifecycle

(* ------------------------------- the queues ----------------------------- *)

\* What stands while the queue of thread c is read.
Reading(g, c) == Sound(g) /\ g.done = "none" /\ g.thread[c] # "none"

LEMMA ReceiveSound ==
  ASSUME NEW g, NEW c \in Threads, Reading(g, c), NEW m \in Messages
  PROVE  Reading(Receive(g, c, m), c)
<1>0. Typed(g) /\ Sound(g) /\ g.done = "none" /\ g.thread[c] # "none"
  BY DEF Reading, Sound
<1>1. ASSUME NEW x, Calm(g, x)
      PROVE  Reading(x, c)
  BY <1>0, <1>1, CalmSound DEF Reading, Calm, Alike
<1>2. CASE m.t = "module"
  <2> DEFINE reserved == [g EXCEPT !.owed[c] = @ + 2]
             asked == [g EXCEPT !.exit = @ \cup {c}, !.change = IF g.phase = "running" THEN m.action ELSE @,
                                !.phase = IF @ = "running" THEN "stopping_executive" ELSE @]
  <2>0. m.action \in Actions /\ m.module \in Modules
    BY <1>2 DEF Messages, Actions
  <2>1. \/ Receive(g, c, m) = asked
        \/ /\ Receive(g, c, m) = Request(reserved, m.action, m.module, c, "client")
           /\ g.phase = "running"
        \/ Receive(g, c, m) = Reply(Reply(reserved, c), c)
    BY <1>2 DEF Receive, ReceiveModule
  <2>2. Calm(g, asked)
    BY <1>0, FieldsKnown DEF Calm, Alike, PhaseFollows, Typed, Phases, Down
  <2>3. Calm(g, Reply(Reply(reserved, c), c))
    <3> DEFINE owed == [g.owed EXCEPT ![c] = @ + 2]
               r == [g EXCEPT !.owed = owed]
               a == Reply(r, c)
               b == Reply(a, c)
    <3>1. owed \in [Threads -> Int] /\ owed[c] = g.owed[c] + 2 /\ \A d \in Threads : d # c => owed[d] = g.owed[d]
      BY <1>0 DEF Typed
    <3>2. reserved = r
      BY <1>0, FieldsKnown DEF Typed
    <3> HIDE DEF owed, reserved
    <3>3. Typed(r) /\ SameCode(g, r) /\ r.svc = g.svc /\ r.result = g.result /\ r.owed = owed
      BY <1>0, <3>1, FieldsKnown DEF Typed, SameCode
    <3> HIDE DEF r
    <3>4. /\ Typed(a) /\ SameCode(r, a) /\ a.svc = r.svc /\ a.result = r.result
          /\ a.owed = [r.owed EXCEPT ![c] = @ - 1]
      BY <3>3, ReplyKeeps
    <3> HIDE DEF a
    <3>5. /\ Typed(b) /\ SameCode(a, b) /\ b.svc = a.svc /\ b.result = a.result
          /\ b.owed = [a.owed EXCEPT ![c] = @ - 1]
      BY <3>4, ReplyKeeps
    <3> HIDE DEF b
    <3>6. b.owed = g.owed
      <4>1. /\ g.owed \in [Threads -> Int] /\ r.owed \in [Threads -> Int]
            /\ a.owed \in [Threads -> Int] /\ b.owed \in [Threads -> Int]
        BY <1>0, <3>3, <3>4, <3>5 DEF Typed
      <4>2. \A d \in Threads : b.owed[d] = g.owed[d]
        BY <3>1, <3>3, <3>4, <3>5, <4>1
      <4> QED BY <4>1, <4>2
    <3>7. Calm(g, b)
      BY <3>3, <3>4, <3>5, <3>6 DEF Calm, Alike, PhaseFollows, SameCode
    <3> QED BY <3>2, <3>7 DEF a, b
  <2>4. ASSUME g.phase = "running"
        PROVE  Reading(Request(reserved, m.action, m.module, c, "client"), c)
    BY <1>0, <2>0, <2>4, ClientRequestSound DEF Reading
  <2> HIDE DEF asked, reserved
  <2> QED BY <1>1, <2>1, <2>2, <2>3, <2>4
<1>3. CASE m.t = "work"
  <2> DEFINE x == [g EXCEPT !.work = IF g.unavailable \/ g.closed THEN @ ELSE @ \cup {c}]
  <2>1. Receive(g, c, m) = x
    BY <1>3 DEF Receive
  <2>2. Calm(g, x)
    BY <1>0, FieldsKnown DEF Calm, Alike, PhaseFollows, Typed
  <2> QED BY <1>1, <2>1, <2>2
<1>4. CASE m.t = "open"
  <2> DEFINE x == [g EXCEPT !.routes =
             IF g.pump[m.module].phase = "ready" /\ m.module \in g.started /\ ~Terminal(g, c) /\ ~g.closed
             THEN @ \cup {<<c, m.module>>} ELSE @]
  <2>1. Receive(g, c, m) = x
    BY <1>4 DEF Receive
  <2>2. Calm(g, x)
    BY <1>0, FieldsKnown DEF Calm, Alike, PhaseFollows, Typed
  <2> QED BY <1>1, <2>1, <2>2
<1> QED
  BY <1>2, <1>3, <1>4 DEF Messages

LEMMA Inductive ==
  ASSUME NEW T, 0 \in T, \A n \in Nat : n \in T => n + 1 \in T
  PROVE  Nat \subseteq T
<1> DEFINE U == Nat \ T
<1> SUFFICES ASSUME U # {} PROVE FALSE
  OBVIOUS
<1>1. IsWellFoundedOn(OpToRel(<, Nat), Nat)
  BY NatLessThanWellFounded
<1>2. PICK n \in U : \A m \in U : ~(<<m, n>> \in OpToRel(<, Nat))
  <2>1. U \subseteq Nat
    OBVIOUS
  <2> HIDE DEF U
  <2> QED BY <1>1, <2>1, WFMin
<1>3. \A m \in U : ~(m < n)
  BY <1>2 DEF OpToRel
<1>4. n # 0 /\ n - 1 \in Nat
  OBVIOUS
<1>5. n - 1 \in T
  BY <1>3, <1>4
<1> QED
  BY <1>4, <1>5

\* A queue that has been read to its end is empty, and drained.
LEMMA EmptiedSound ==
  ASSUME NEW g, NEW c \in Threads, Reading(g, c)
  PROVE  Reading(Emptied(g, c), c)
<1> DEFINE N == Len(g.mail[c])
           Next1(f, n) == IF n = 0 THEN g ELSE Receive(f[n - 1], c, g.mail[c][n])
           Upto(n, f) == f = [k \in 0..n |-> Next1(f, k)]
<1>1. N \in Nat
  BY DEF Reading, Sound, Typed
<1>2. \E f : Upto(N, f)
  <2> DEFINE Some(n) == \E f : Upto(n, f)
             T == {n \in Nat : Some(n)}
  <2>1. 0 \in T
    <3> DEFINE f == [k \in 0..0 |-> g]
    <3>1. Upto(0, f)
      OBVIOUS
    <3>2. Some(0)
      BY <3>1
    <3> HIDE DEF Some
    <3> QED BY <3>2
  <2>2. ASSUME NEW n \in Nat, n \in T PROVE n + 1 \in T
    <3>1. PICK f : Upto(n, f)
      BY <2>2
    <3> DEFINE e == [k \in 0..(n + 1) |-> IF k <= n THEN f[k] ELSE Receive(f[n], c, g.mail[c][n + 1])]
    <3>2. \A k \in 0..(n + 1) : e[k] = Next1(e, k)
      <4> SUFFICES ASSUME NEW k \in 0..(n + 1) PROVE e[k] = Next1(e, k)
        OBVIOUS
      <4>1. CASE k = 0
        <5>1. f[0] = g
          BY <3>1
        <5> QED BY <4>1, <5>1
      <4>2. CASE k # 0 /\ k <= n
        <5>1. k \in 0..n /\ k - 1 \in 0..n /\ k - 1 \in 0..(n + 1) /\ k - 1 <= n
          BY <4>2
        <5>2. e[k] = f[k] /\ e[k - 1] = f[k - 1] /\ f[k] = Next1(f, k)
          BY <3>1, <4>2, <5>1
        <5> HIDE DEF e
        <5> QED BY <4>2, <5>2
      <4>3. CASE k = n + 1
        <5>1. k # 0 /\ k - 1 = n /\ n \in 0..(n + 1) /\ ~(k <= n)
          BY <4>3
        <5>2. e[k] = Receive(f[n], c, g.mail[c][n + 1])
          BY <5>1
        <5>3. e[n] = f[n]
          BY <5>1
        <5>4. Next1(e, k) = Receive(e[n], c, g.mail[c][n + 1])
          <6> HIDE DEF e
          <6> QED BY <4>3, <5>1
        <5> HIDE DEF e
        <5> QED BY <5>2, <5>3, <5>4
      <4> QED BY <4>1, <4>2, <4>3
    <3>3. Upto(n + 1, e)
      BY <3>2
    <3>4. Some(n + 1)
      <4> HIDE DEF Upto, e
      <4> QED BY <3>3
    <3> HIDE DEF Some
    <3> QED BY <3>4
  <2> HIDE DEF T
  <2>3. Nat \subseteq T
    BY <2>1, <2>2, Inductive
  <2> QED BY <1>1, <2>3 DEF T
<1>3. PICK f : Upto(N, f) /\ Emptied(g, c) = [f[N] EXCEPT !.mail[c] = <<>>, !.drained = @ \cup {c}]
  <2> DEFINE f == CHOOSE f : Upto(N, f)
  <2>1. Upto(N, f)
    <3> HIDE DEF Upto
    <3> QED BY <1>2
  <2>2. Emptied(g, c) = [f[N] EXCEPT !.mail[c] = <<>>, !.drained = @ \cup {c}]
    BY DEF Emptied
  <2> QED BY <2>1, <2>2
<1>4. f[0] = g /\ \A n \in 1..N : f[n] = Receive(f[n - 1], c, g.mail[c][n])
  <2>1. 0 \in 0..N /\ \A n \in 1..N : n \in 0..N /\ n # 0
    BY <1>1
  <2>2. f[0] = Next1(f, 0) /\ \A n \in 1..N : f[n] = Next1(f, n)
    BY <1>3, <2>1
  <2> QED BY <2>1, <2>2
<1>5. Reading(f[N], c)
  <2> DEFINE T == {n \in Nat : n <= N => Reading(f[n], c)}
  <2>1. 0 \in T
    BY <1>4
  <2>2. ASSUME NEW n \in Nat, n \in T PROVE n + 1 \in T
    <3> SUFFICES ASSUME n + 1 <= N PROVE Reading(f[n + 1], c)
      OBVIOUS
    <3>1. n + 1 \in 1..N /\ (n + 1) - 1 = n /\ n <= N
      BY <1>1
    <3>2. Reading(f[n], c)
      BY <2>2, <3>1
    <3>3. f[n + 1] = Receive(f[n], c, g.mail[c][n + 1])
      BY <1>4, <3>1
    <3>4. g.mail[c][n + 1] \in Messages
      BY <3>1 DEF Reading, Sound, Typed
    <3> HIDE DEF N
    <3> QED BY <3>2, <3>3, <3>4, ReceiveSound
  <2> HIDE DEF T, N
  <2>3. Nat \subseteq T
    BY <2>1, <2>2, Inductive
  <2> QED BY <1>1, <2>3 DEF T
<1> HIDE DEF N, Upto
<1> DEFINE last == f[N]
           mail == [last.mail EXCEPT ![c] = <<>>]
           x == [last EXCEPT !.mail = mail, !.drained = @ \cup {c}]
<1>6. Typed(last) /\ Sound(last)
  BY <1>5 DEF Reading, Sound
<1>7. mail \in [Threads -> Seq(Messages)]
  <2>1. <<>> \in Seq(Messages) /\ last.mail \in [Threads -> Seq(Messages)]
    BY <1>6 DEF Typed
  <2> HIDE DEF last
  <2> QED BY <2>1
<1>8. Emptied(g, c) = x
  <2>1. Emptied(g, c) = [last EXCEPT !.mail[c] = <<>>, !.drained = @ \cup {c}]
    BY <1>3
  <2> HIDE DEF last
  <2> QED BY <1>6, <2>1, FieldsKnown DEF Typed
<1>9. Calm(last, x)
  <2> HIDE DEF last, mail
  <2> QED BY <1>6, <1>7, FieldsKnown DEF Calm, Alike, PhaseFollows, Typed
<1>10. Reading(x, c)
  <2> HIDE DEF x
  <2>1. Sound(x)
    <3> HIDE DEF last
    <3> QED BY <1>6, <1>9, CalmSound
  <2> QED BY <1>5, <1>9, <2>1 DEF Reading, Calm, Alike
<1> QED
  BY <1>8, <1>10

LEMMA DrainThreadSound ==
  ASSUME NEW g, Sound(g), g.done = "none", NEW c
  PROVE  Sound(DrainThread(g, c)) /\ DrainThread(g, c).done = "none"
BY EmptiedSound DEF DrainThread, HasThread, Reading

\* What stands between two queues.
Between(g) == Sound(g) /\ g.done = "none"

LEMMA DrainThreadsSound ==
  ASSUME NEW g, Between(g)
  PROVE  Between(DrainThreads(g))
<1> DEFINE N == Len(Catalogue)
           Next1(f, n) == IF n = 0 THEN g ELSE DrainThread(f[n - 1], Catalogue[n])
           Upto(n, f) == f = [k \in 0..n |-> Next1(f, k)]
<1>1. N \in Nat
  BY Constants
<1>2. \E f : Upto(N, f)
  <2> DEFINE Some(n) == \E f : Upto(n, f)
             T == {n \in Nat : Some(n)}
  <2>1. 0 \in T
    <3> DEFINE f == [k \in 0..0 |-> g]
    <3>1. Upto(0, f)
      OBVIOUS
    <3>2. Some(0)
      BY <3>1
    <3> HIDE DEF Some
    <3> QED BY <3>2
  <2>2. ASSUME NEW n \in Nat, n \in T PROVE n + 1 \in T
    <3>1. PICK f : Upto(n, f)
      BY <2>2
    <3> DEFINE e == [k \in 0..(n + 1) |-> IF k <= n THEN f[k] ELSE DrainThread(f[n], Catalogue[n + 1])]
    <3>2. \A k \in 0..(n + 1) : e[k] = Next1(e, k)
      <4> SUFFICES ASSUME NEW k \in 0..(n + 1) PROVE e[k] = Next1(e, k)
        OBVIOUS
      <4>1. CASE k = 0
        <5>1. f[0] = g
          BY <3>1
        <5> QED BY <4>1, <5>1
      <4>2. CASE k # 0 /\ k <= n
        <5>1. k \in 0..n /\ k - 1 \in 0..n /\ k - 1 \in 0..(n + 1) /\ k - 1 <= n
          BY <4>2
        <5>2. e[k] = f[k] /\ e[k - 1] = f[k - 1] /\ f[k] = Next1(f, k)
          BY <3>1, <4>2, <5>1
        <5> HIDE DEF e
        <5> QED BY <4>2, <5>2
      <4>3. CASE k = n + 1
        <5>1. k # 0 /\ k - 1 = n /\ n \in 0..(n + 1) /\ ~(k <= n)
          BY <4>3
        <5>2. e[k] = DrainThread(f[n], Catalogue[n + 1])
          BY <5>1
        <5>3. e[n] = f[n]
          BY <5>1
        <5>4. Next1(e, k) = DrainThread(e[n], Catalogue[n + 1])
          <6> HIDE DEF e
          <6> QED BY <4>3, <5>1
        <5> HIDE DEF e
        <5> QED BY <5>2, <5>3, <5>4
      <4> QED BY <4>1, <4>2, <4>3
    <3>3. Upto(n + 1, e)
      BY <3>2
    <3>4. Some(n + 1)
      <4> HIDE DEF Upto, e
      <4> QED BY <3>3
    <3> HIDE DEF Some
    <3> QED BY <3>4
  <2> HIDE DEF T
  <2>3. Nat \subseteq T
    BY <2>1, <2>2, Inductive
  <2> QED BY <1>1, <2>3 DEF T
<1>3. PICK f : Upto(N, f) /\ DrainThreads(g) = f[N]
  <2> DEFINE f == CHOOSE f : Upto(N, f)
  <2>1. Upto(N, f)
    <3> HIDE DEF Upto
    <3> QED BY <1>2
  <2>2. DrainThreads(g) = f[N]
    BY DEF DrainThreads
  <2> QED BY <2>1, <2>2
<1>4. f[0] = g /\ \A n \in 1..N : f[n] = DrainThread(f[n - 1], Catalogue[n])
  <2>1. 0 \in 0..N /\ \A n \in 1..N : n \in 0..N /\ n # 0
    BY <1>1
  <2>2. f[0] = Next1(f, 0) /\ \A n \in 1..N : f[n] = Next1(f, n)
    BY <1>3, <2>1
  <2> QED BY <2>1, <2>2
<1>5. Between(f[N])
  <2> DEFINE T == {n \in Nat : n <= N => Between(f[n])}
  <2>1. 0 \in T
    BY <1>4
  <2>2. ASSUME NEW n \in Nat, n \in T PROVE n + 1 \in T
    <3> SUFFICES ASSUME n + 1 <= N PROVE Between(f[n + 1])
      OBVIOUS
    <3>1. n + 1 \in 1..N /\ (n + 1) - 1 = n /\ n <= N
      BY <1>1
    <3>2. Between(f[n])
      BY <2>2, <3>1
    <3>3. f[n + 1] = DrainThread(f[n], Catalogue[n + 1])
      BY <1>4, <3>1
    <3>4. Catalogue[n + 1] \in Modules
      BY <3>1, Constants
    <3> HIDE DEF N
    <3> QED BY <3>2, <3>3, <3>4, DrainThreadSound DEF Between
  <2> HIDE DEF T, N
  <2>3. Nat \subseteq T
    BY <2>1, <2>2, Inductive
  <2> QED BY <1>1, <2>3 DEF T
<1> QED
  BY <1>3, <1>5

LEMMA DrainSound ==
  ASSUME NEW g, Sound(g)
  PROVE  Sound(Drain(g))
BY DrainWorkerSound, DrainThreadsSound, WorkerFailureSound DEF Drain, Between

LEMMA TurnSound ==
  ASSUME NEW g, Sound(g), NEW luck
  PROVE  Sound(Turn(g, luck))
<1> DEFINE a == Drain(g)
           b == Pumps(a)
           c == PollStop(b)
           d == ApplyStop(c)
           e == Router(d)
           f == StartPending(e, luck)
           i == AdvanceLifecycle(f, luck)
<1>1. Sound(a)
  BY DrainSound
<1> HIDE DEF a
<1>2. Sound(b)
  BY <1>1, CalmPumps, CalmSound DEF Sound
<1> HIDE DEF b
<1>3. Sound(c)
  BY <1>2, CalmPollStop, CalmSound DEF Sound
<1> HIDE DEF c
<1>4. Sound(d)
  BY <1>3, CalmApplyStop, CalmSound DEF Sound
<1> HIDE DEF d
<1>5. Sound(e)
  BY <1>4, CalmRouter, CalmSound DEF Sound
<1> HIDE DEF e
<1>6. Sound(f)
  BY <1>5, StartPendingSound
<1> HIDE DEF f
<1>7. Sound(i)
  BY <1>6, AdvanceLifecycleSound
<1> HIDE DEF i
<1>8. Sound(Advance(i, luck))
  BY <1>7, AdvanceSound
<1>9. Turn(g, luck) = Advance(i, luck)
  BY DEF Turn, a, b, c, d, e, f, i
<1> QED
  BY <1>8, <1>9

(* ---------------------------- the specification ------------------------- *)

LEMMA InitSound ==
  ASSUME Init
  PROVE  Sound(h)
<1>1. /\ h.phase = "starting" /\ h.svc = NoWork /\ h.result = "none" /\ ~h.svc_failed /\ h.index = 1
      /\ h.bound = {} /\ h.started = {} /\ h.client = {}
      /\ h.thread = [m \in Threads |-> "none"] /\ h.mail = [m \in Threads |-> <<>>]
      /\ h.owed = [m \in Threads |-> 0] /\ h.pump = [p \in Pumped |-> NoPump]
      /\ h.job = "scan" /\ h.done = "none"
  BY DEF Init
<1>2. Typed(h)
  <2>1. h = [f \in Fields |-> h[f]]
    BY DEF Init, Fields
  <2>2. NoWork \in Operation /\ NoPump \in PumpState
    BY NoWorkTyped DEF NoPump, PumpState, PumpPhases
  <2>3. h.mail \in [Threads -> Seq(Messages)]
    BY <1>1
  <2>4. h.thread \in [Threads -> ThreadStates] /\ h.owed \in [Threads -> Int] /\ h.pump \in [Pumped -> PumpState]
    BY <1>1, <2>2 DEF ThreadStates
  <2>5. h.phase \in Phases /\ h.index \in 1..(Len(Catalogue) + 1)
    BY <1>1, Constants DEF Phases
  <2> QED BY <1>1, <2>1, <2>2, <2>3, <2>4, <2>5 DEF Typed
<1>3. Claims(h)
  BY <1>1 DEF Claims, NoPump
<1>4. Worker(h)
  BY <1>1, NoWorkTyped DEF Worker, Working, Scanning, Scanned, Completions
<1>5. Pending(h)
  BY <1>1, NoWorkTyped DEF Pending
<1>6. Requesters(h)
  BY <1>1, NoWorkTyped DEF Requesters, Awaited
<1>7. Results(h)
  BY <1>1 DEF Results
<1>8. Ending(h)
  <2>1. \A i \in 1..Len(Catalogue) : ~(i < h.index)
    BY <1>1, Constants
  <2> QED BY <1>1, <2>1 DEF Ending, Down
<1> QED
  BY <1>2, <1>3, <1>4, <1>5, <1>6, <1>7, <1>8 DEF Sound

LEMMA TurnBeginSound ==
  ASSUME NEW g, Sound(g)
  PROVE  Sound(Observe(DebugStop(Failures(ApplyStop(PollStop(g))))))
<1> DEFINE a == PollStop(g)
           b == ApplyStop(a)
           c == Failures(b)
           d == DebugStop(c)
<1>1. Sound(a)
  BY CalmPollStop, CalmSound DEF Sound
<1> HIDE DEF a
<1>2. Sound(b)
  BY <1>1, CalmApplyStop, CalmSound DEF Sound
<1> HIDE DEF b
<1>3. Sound(c)
  BY <1>2, CalmFailures, CalmSound DEF Sound
<1> HIDE DEF c
<1>4. Sound(d)
  BY <1>3, CalmDebugStop, CalmSound DEF Sound
<1> HIDE DEF d
<1>5. Sound(Observe(d))
  BY <1>4, CalmObserve, CalmSound DEF Sound
<1> QED
  BY <1>5 DEF a, b, c, d

\* The worker binds and unbinds the module of the operation in flight, nothing
\* of which is registered.
LEMMA WorkedSound ==
  ASSUME NEW g, Sound(g), g.job = "module", g.svc.in_flight, g.done = "none",
         NEW bound \in SUBSET Modules, NEW status \in Completions,
         \A d \in Modules : d # g.svc.module => (d \in bound <=> d \in g.bound),
         status = "success" => (g.svc.module \in bound <=> g.svc.next)
  PROVE  Sound([g EXCEPT !.bound = bound, !.job = "none", !.done = status])
<1> DEFINE x == [g EXCEPT !.bound = bound, !.job = "none", !.done = status]
<1>0. Typed(g)
  BY DEF Sound
<1>1. /\ Typed(x) /\ x.bound = bound /\ x.job = "none" /\ x.done = status
      /\ x.phase = g.phase /\ x.svc = g.svc /\ x.result = g.result /\ x.svc_failed = g.svc_failed
      /\ x.index = g.index /\ x.client = g.client /\ x.owed = g.owed /\ x.thread = g.thread
      /\ x.pump = g.pump /\ x.retain = g.retain
  BY <1>0, FieldsKnown DEF Typed
<1> HIDE DEF x
<1>2. g.svc.pending /\ ~g.svc.start /\ g.svc.module \notin g.client
  BY DEF Sound, Pending
<1>3. Claims(x)
  <2>1. g.client \subseteq g.bound /\ g.client \subseteq Modules /\ Claims(g)
    BY <1>0 DEF Sound, Claims, Typed
  <2> QED BY <1>1, <1>2, <2>1 DEF Claims
<1>4. Worker(x) /\ ~Scanning(x)
  <2>1. Working(x) /\ ~Scanning(x)
    BY <1>1 DEF Working, Scanning, Scanned, Completions
  <2> QED BY <1>1, <2>1 DEF Worker
<1>5. Pending(x)
  BY <1>1, <1>2 DEF Sound, Pending, ForExecutive
<1>6. Requesters(x)
  BY <1>1 DEF Sound, Requesters, Awaited
<1>7. Results(x)
  BY <1>1 DEF Sound, Results, ForExecutive
<1>8. Ending(x)
  <2>1. Ending(g) /\ ~Scanning(g)
    BY DEF Sound, Scanning, Scanned
  <2>2. ASSUME NEW i \in 1..Len(Catalogue), i < x.index, Catalogue[i] \in x.bound
        PROVE  Excused(x, Catalogue[i])
    <3>1. CASE Catalogue[i] = g.svc.module
      BY <1>1, <1>2, <3>1 DEF Excused
    <3>2. CASE Catalogue[i] # g.svc.module
      <4>1. Catalogue[i] \in g.bound
        BY <1>1, <2>2, <3>2, Constants
      <4>2. Excused(g, Catalogue[i])
        BY <1>1, <2>1, <2>2, <4>1 DEF Ending
      <4> QED BY <1>1, <4>2 DEF Excused
    <3> QED BY <3>1, <3>2
  <2>3. ASSUME NEW i \in 1..Len(Catalogue), i < x.index, Catalogue[i] \in Threads,
               x.thread[Catalogue[i]] # "none"
        PROVE  x.svc.pending /\ ~x.svc.in_flight /\ x.svc.module = Catalogue[i]
    BY <1>1, <2>1, <2>3 DEF Ending
  <2> QED BY <1>1, <1>4, <2>1, <2>2, <2>3 DEF Ending
<1> QED
  BY <1>1, <1>3, <1>4, <1>5, <1>6, <1>7, <1>8 DEF Sound, x

LEMMA WorkModuleSound ==
  ASSUME Sound(h), WorkModule
  PROVE  Sound(h')
<1> DEFINE m == h.svc.module
           only == h.svc.action = "unload" \/ h.svc.cleanup
           Result(bound, status) == [h EXCEPT !.bound = bound, !.job = "none", !.done = status]
<1>1. h.job = "module"
  BY DEF WorkModule
<1>2. h.done = "none" /\ h.svc.in_flight /\ h.svc.pending /\ (h.svc.next <=> ~only) /\ m \in Modules
      /\ h.bound \subseteq Modules
  <2>1. Working(h) /\ h.done = "none"
    BY <1>1 DEF Sound, Worker, Working, Scanning
  <2> QED BY <2>1 DEF Sound, Worker, Pending, Typed, Operation
<1>3. \/ only /\ h' = Result(h.bound \ {m}, "success")
      \/ ~only /\ h' = Result(h.bound \cup {m}, "success")
      \/ h' = Result(h.bound, "unload_failed")
      \/ h' = Result(h.bound \ {m}, "binding_failed")
      \/ h' = Result(h.bound \cup {m}, "unload_failed")
  BY DEF WorkModule, Worked
<1>4. ASSUME NEW bound \in SUBSET Modules, NEW status \in Completions,
             \A d \in Modules : d # m => (d \in bound <=> d \in h.bound),
             status = "success" => (m \in bound <=> h.svc.next)
      PROVE  Sound(Result(bound, status))
  BY <1>1, <1>2, <1>4, WorkedSound
<1> DEFINE without == h.bound \ {m}
           with == h.bound \cup {m}
<1>5. /\ without \in SUBSET Modules /\ with \in SUBSET Modules /\ m \in with /\ m \notin without
      /\ \A d \in Modules : d # m => (d \in without <=> d \in h.bound)
      /\ \A d \in Modules : d # m => (d \in with <=> d \in h.bound)
  BY <1>2
<1> HIDE DEF with, without
<1>6. "success" \in Completions /\ "unload_failed" \in Completions /\ "binding_failed" \in Completions
  BY DEF Completions
<1>7. only => Sound(Result(without, "success"))
  BY <1>2, <1>4, <1>5, <1>6
<1>8. ~only => Sound(Result(with, "success"))
  BY <1>2, <1>4, <1>5, <1>6
<1>9. /\ Sound(Result(h.bound, "unload_failed")) /\ Sound(Result(without, "binding_failed"))
      /\ Sound(Result(with, "unload_failed"))
  BY <1>2, <1>4, <1>5, <1>6
<1> HIDE DEF Result, only, m
<1> QED
  BY <1>3, <1>7, <1>8, <1>9 DEF with, without

LEMMA WorkScanSound ==
  ASSUME Sound(h), WorkScan
  PROVE  Sound(h')
<1>1. PICK status \in Scanned : h' = [h EXCEPT !.job = "none", !.done = status]
  BY DEF WorkScan, Scanned
<1>2. h.job = "scan" /\ Typed(h)
  BY DEF WorkScan, Sound
<1>3. /\ Typed(h') /\ h'.job = "none" /\ h'.done = status
      /\ h'.phase = h.phase /\ h'.svc = h.svc /\ h'.result = h.result /\ h'.svc_failed = h.svc_failed
      /\ h'.index = h.index /\ h'.client = h.client /\ h'.owed = h.owed /\ h'.thread = h.thread
      /\ h'.pump = h.pump /\ h'.retain = h.retain /\ h'.bound = h.bound
  BY <1>1, <1>2, FieldsKnown DEF Typed
<1>4. Scanning(h) /\ ~Working(h) /\ Scanning(h') /\ ~Working(h')
  BY <1>1, <1>2, <1>3 DEF Sound, Worker, Working, Scanning, Scanned, Completions
<1>5. ~h.svc.pending /\ h.result = "none" /\ h.client = {} /\ ~h.svc.in_flight /\ ~h.svc.start
  BY <1>4 DEF Sound, Worker, Pending
<1>6. Claims(h') /\ Worker(h') /\ Pending(h') /\ Results(h')
  BY <1>3, <1>4, <1>5 DEF Sound, Claims, Worker, Pending, Results
<1>7. Requesters(h')
  BY <1>3 DEF Sound, Requesters, Awaited
<1>8. Ending(h')
  <2>1. Ending(h) /\ ~(h.index > 1)
    BY <1>4 DEF Sound, Ending
  <2>2. \A i \in 1..Len(Catalogue) : ~(i < h.index)
    BY <1>2, <2>1, Constants DEF Typed
  <2> QED BY <1>3, <2>1, <2>2 DEF Ending
<1> QED
  BY <1>3, <1>6, <1>7, <1>8 DEF Sound

\* The other steps move nothing that is claimed: what a thread posts or how it
\* ends, who asks the Host to stop, and what becomes of the worker.
Quietly ==
    \/ Shutdown \/ WorkerFails \/ GraceExpires
    \/ \E c \in Threads : WorkAsset(c) \/ Exit(c) \/ ThreadEnds(c)
    \/ \E c \in Threads, m \in Messages : Post(c, m)
    \/ \E source \in StopSources : AskStop(source)

LEMMA QuietlyCalm ==
  ASSUME Typed(h), Quietly
  PROVE  Calm(h, h')
<1>1. ASSUME Shutdown
      PROVE  Calm(h, h')
  <2>1. h' = [h EXCEPT !.ended = TRUE, !.worker = IF @ = "running" THEN "exited" ELSE @]
    BY <1>1 DEF Shutdown
  <2> QED BY <2>1, FieldsKnown DEF Typed, Calm, Alike, PhaseFollows
<1>2. ASSUME WorkerFails
      PROVE  Calm(h, h')
  <2>1. h' = [h EXCEPT !.worker = "failed"]
    BY <1>2 DEF WorkerFails
  <2> QED BY <2>1, FieldsKnown DEF Typed, Calm, Alike, PhaseFollows
<1>3. ASSUME GraceExpires
      PROVE  Calm(h, h')
  <2>1. h' = [h EXCEPT !.grace = "expired"]
    BY <1>3 DEF GraceExpires
  <2> QED BY <2>1, FieldsKnown DEF Typed, Calm, Alike, PhaseFollows
<1>4. ASSUME NEW c \in Threads, WorkAsset(c)
      PROVE  Calm(h, h')
  <2>1. h' = [h EXCEPT !.work = @ \ {c}]
    BY <1>4 DEF WorkAsset
  <2> QED BY <2>1, FieldsKnown DEF Typed, Calm, Alike, PhaseFollows
<1>5. ASSUME NEW c \in Threads, Exit(c) \/ ThreadEnds(c)
      PROVE  Calm(h, h')
  <2>1. PICK state \in {"exited", "failed"} : h' = [h EXCEPT !.thread[c] = state]
    BY <1>5 DEF Exit, ThreadEnds
  <2>2. h.thread[c] # "none"
    BY <1>5 DEF Exit, ThreadEnds
  <2> DEFINE thread == [h.thread EXCEPT ![c] = state]
  <2>3. thread \in [Threads -> ThreadStates] /\ \A m \in Threads : thread[m] = "none" <=> h.thread[m] = "none"
    BY <2>2 DEF Typed, ThreadStates
  <2>4. h' = [h EXCEPT !.thread = thread]
    BY <2>1, FieldsKnown DEF Typed
  <2> HIDE DEF thread
  <2> QED BY <2>3, <2>4, FieldsKnown DEF Typed, Calm, Alike, PhaseFollows
<1>6. ASSUME NEW c \in Threads, NEW m \in Messages, Post(c, m)
      PROVE  Calm(h, h')
  <2> DEFINE mail == [h.mail EXCEPT ![c] = Append(@, m)]
  <2>1. mail \in [Threads -> Seq(Messages)]
    BY DEF Typed
  <2>2. h' = [h EXCEPT !.mail = mail]
    BY <1>6, FieldsKnown DEF Typed, Post
  <2> HIDE DEF mail
  <2> QED BY <2>1, <2>2, FieldsKnown DEF Typed, Calm, Alike, PhaseFollows
<1>7. ASSUME NEW source \in StopSources, AskStop(source)
      PROVE  Calm(h, h')
  <2>1. h' = [h EXCEPT !.asked = @ \cup {source}]
    BY <1>7 DEF AskStop
  <2> QED BY <2>1, FieldsKnown DEF Typed, Calm, Alike, PhaseFollows
<1> QED
  BY <1>1, <1>2, <1>3, <1>4, <1>5, <1>6, <1>7 DEF Quietly

\* Every step keeps the invariant.
LEMMA IInvStep ==
  ASSUME IInv, [Next]_vars
  PROVE  IInv'
<1> USE DEF IInv
<1>1. CASE TurnBegin
  BY <1>1, TurnBeginSound DEF TurnBegin
<1>2. CASE TurnEnd
  <2>1. PICK luck : h' = Turn(h, luck)
    BY <1>2 DEF TurnEnd
  <2> QED BY <2>1, TurnSound
<1>3. CASE WorkModule
  BY <1>3, WorkModuleSound
<1>4. CASE WorkScan
  BY <1>4, WorkScanSound
<1>5. CASE Quietly
  BY <1>5, QuietlyCalm, CalmSound DEF Sound
<1>6. CASE UNCHANGED vars
  BY <1>6 DEF vars
<1> QED
  BY <1>1, <1>2, <1>3, <1>4, <1>5, <1>6 DEF Next, Quietly

LEMMA IInvAlways == Spec => []IInv
<1>1. Init => IInv
  BY InitSound DEF IInv
<1>2. IInv /\ [Next]_vars => IInv'
  BY IInvStep
<1> QED
  BY <1>1, <1>2, PTL DEF Spec

(* Type correctness: the Host is in one of its phases, its records are of  *)
(* the modules it knows, and it owes no client more than the two replies   *)
(* of a request (host.cpp, module_service.cpp).                            *)
THEOREM TypeCorrect == Spec => []TypeOK
<1>1. IInv => TypeOK
  <2> SUFFICES ASSUME IInv PROVE TypeOK
    OBVIOUS
  <2>1. ASSUME NEW c \in Threads
        PROVE  h.owed[c] \in 0..2
    <3>1. h.owed[c] = 0 \/ h.owed[c] = 1
      BY DEF IInv, Sound, Requesters
    <3> QED BY <3>1
  <2>2. h.phase \in Phases /\ {h.bound, h.started, h.client} \subseteq SUBSET Modules
    BY DEF IInv, Sound, Typed
  <2> QED BY <2>1, <2>2 DEF Phases, TypeOK
<1> QED
  BY <1>1, IInvAlways, PTL

(* A module's code is bound for as long as a thread, a pump or a client    *)
(* record of it is there: the worker unbinds it (perform_module_work) only *)
(* after stop_module_thread has released all three, in whatever order the  *)
(* requests, the ends of threads, the stops and the failures come.         *)
THEOREM CodeOutlives == Spec => []CodeOutlivesUse
<1>1. IInv => CodeOutlivesUse
  BY Constants DEF IInv, Sound, Claims, CodeOutlivesUse, PumpLive
<1> QED
  BY <1>1, IInvAlways, PTL

(* The client that asked for an operation is there, and owed exactly one   *)
(* reply, until the operation is finished (CModuleService::finish); the    *)
(* Host's own operations never overlap another.                            *)
THEOREM RequesterKept == Spec => []RequesterIsKept
<1>1. IInv => RequesterIsKept
  <2> SUFFICES ASSUME IInv PROVE RequesterIsKept
    OBVIOUS
  <2>1. ~h.svc_failed
    BY DEF IInv, Sound, Requesters
  <2>2. ASSUME NEW c \in Threads
        PROVE  /\ h.owed[c] = (IF h.svc.pending /\ h.svc.purpose = "client" /\ h.svc.client = c THEN 1 ELSE 0)
               /\ h.owed[c] > 0 => c \in h.client /\ h.thread[c] # "none"
    BY <2>2 DEF IInv, Sound, Requesters, Awaited
  <2> QED BY <2>1, <2>2 DEF RequesterIsKept
<1> QED
  BY <1>1, IInvAlways, PTL

(* When the shutdown has passed the whole catalogue (request_shutdown and  *)
(* the phases of the Host), no thread is left, and no module is bound but  *)
(* for a decision to keep everything until the process exits.              *)
THEOREM ExitIsClean == Spec => []CleanExit
<1>1. IInv => CleanExit
  <2> SUFFICES ASSUME IInv, h.phase = "complete" PROVE
        /\ \A m \in Threads : h.thread[m] = "none"
        /\ ~h.retain => h.bound = {} /\ h.client = {} /\ \A p \in Pumped : ~PumpLive(h, p)
    BY DEF CleanExit
  <2>1. h.index = Len(Catalogue) + 1 /\ ~h.svc.pending /\ h.result = "none"
    BY DEF IInv, Sound, Ending
  <2>2. ASSUME NEW m \in Modules
        PROVE  \E i \in 1..Len(Catalogue) : i < h.index /\ Catalogue[i] = m
    <3>1. PICK i \in 1..Len(Catalogue) : Catalogue[i] = m
      BY Constants
    <3>2. i < h.index
      BY <2>1, Constants
    <3> QED BY <3>1, <3>2
  <2>3. ASSUME NEW m \in Threads
        PROVE  h.thread[m] = "none"
    <3>1. PICK i \in 1..Len(Catalogue) : i < h.index /\ Catalogue[i] = m
      BY <2>2, Constants
    <3> QED BY <2>1, <3>1 DEF IInv, Sound, Ending
  <2>4. ASSUME ~h.retain, NEW m \in h.bound
        PROVE  FALSE
    <3>1. m \in Modules
      BY DEF IInv, Sound, Typed
    <3>2. PICK i \in 1..Len(Catalogue) : i < h.index /\ Catalogue[i] = m
      BY <2>2, <3>1
    <3>3. Excused(h, m)
      BY <3>2 DEF IInv, Sound, Ending
    <3> QED BY <2>1, <2>4, <3>3 DEF Excused
  <2>5. ~h.retain => h.bound = {} /\ h.client = {} /\ \A p \in Pumped : h.pump[p].phase = "none"
    <3>1. Claims(h)
      BY DEF IInv, Sound
    <3> QED BY <2>4, <3>1 DEF Claims
  <2> QED BY <2>3, <2>5 DEF PumpLive
<1> QED
  BY <1>1, IInvAlways, PTL

=============================================================================
