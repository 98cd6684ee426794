----------------------------- MODULE FleetLease -----------------------------
(***************************************************************************)
(* One fleet run: the lease table and run row the control plane keeps      *)
(* (fleet.py, routes/agent.py), the supervisor thread that watches them    *)
(* (FleetRun), and the workers that claim slots, report and are released   *)
(* together (managed.py).                                                  *)
(*                                                                         *)
(* A request handler is one atomic step here; FleetRows.tla splits the     *)
(* handlers that touch the run row into their read and their commit.  An   *)
(* HTTP call is the handler's step with the answer heard or lost; a call   *)
(* the caller timed out on may sit in `late' and reach its handler at any  *)
(* later moment.  Time is counted in units long enough to matter to the    *)
(* leases; every clock saturates just past the last threshold read off it. *)
(***************************************************************************)
EXTENDS Integers, FiniteSets

CONSTANTS
    Slots,          \* slot numbers of the run's leases
    Workers,        \* holders: one per container, and a container never restarts
    Hint,           \* Hint[w]: the slot w asks for first, or NoSlot
    CanServe,       \* CanServe[w]: slots whose engine w's image can run
    Outcomes,       \* what a worker's summary can say
    LeaseTicks,     \* lease_s
    ProvisionTicks, \* provision_timeout_s
    RunTicks,       \* from T0 to the hard deadline of a run that is not paused
    CeilingTicks,   \* the watch's own wall-clock ceiling
    MaxIds,         \* bound: lease ids issued
    MaxFaults       \* bound: answers lost, calls delayed, workers stopped or dead

NoSlot   == -1
NoId     == 0
NoT0     == -1
Terminal == {"completed", "stopped", "aborted", "failed"}
Live     == {"claimed", "ready", "running"}
Pending  == {"free", "claimed"}
LeaseStates == {"free", "claimed", "ready", "running", "done", "lost"}
FleetStates == {"provisioning", "releasing", "running", "draining", "finished"}
Phases      == {"claiming", "starting", "failing", "ready", "waiting",
                "running", "finishing", "gone"}
SupStates   == {"launching", "watching", "merging", "correlating", "finished",
                "forgotten"}

ASSUME SlotsAssumption == Slots \subseteq Nat /\ IsFiniteSet(Slots) /\ Slots # {}
ASSUME WorkersAssumption == "nobody" \notin Workers
ASSUME HintAssumption ==
    /\ Hint \in [Workers -> Slots \cup {NoSlot}]
    /\ CanServe \in [Workers -> SUBSET Slots]
ASSUME OutcomesAssumption == Outcomes \subseteq Terminal \cup {"unreadable"}
ASSUME TimesAssumption ==
    /\ LeaseTicks \in Nat /\ ProvisionTicks \in Nat
    /\ RunTicks \in Nat /\ CeilingTicks \in Nat
    /\ CeilingTicks >= ProvisionTicks + RunTicks
ASSUME BoundsAssumption == MaxIds \in Nat /\ MaxFaults \in Nat

VARIABLES
    lease,          \* worker_leases: one row per slot
    fleetState, runState, t0,                           \* the run row
    nextId,         \* lease ids are fresh: the next one to be issued
    sup,            \* where the supervisor thread is
    stopRequested, merged, lostSlots,                   \* and what it holds
    elapsed,        \* the clock, from the start of the watch
    worker,         \* what each worker process knows
    late,           \* calls their caller gave up on, not yet handled
    faults          \* how much of MaxFaults is spent

runRow     == <<fleetState, runState, t0>>
supervisor == <<sup, stopRequested, merged, lostSlots>>
server     == <<lease, runRow, nextId>>
vars       == <<lease, runRow, nextId, supervisor, elapsed, worker, late, faults>>

MaxOf(a, b) == IF a >= b THEN a ELSE b
AgeCap == MaxOf(LeaseTicks, ProvisionTicks) + 1
ElapsedCap == CeilingTicks + 1

NoReport == [by |-> "nobody", outcome |-> "none"]
FreeLease == [state |-> "free", id |-> NoId, holder |-> "nobody",
              report |-> NoReport, age |-> 0]
NewWorker == [phase |-> "claiming", slot |-> NoSlot, id |-> NoId, t0 |-> NoT0,
              released |-> FALSE, stop |-> FALSE, superseded |-> FALSE,
              outcome |-> "none"]
GoneWorker == [NewWorker EXCEPT !.phase = "gone"]

-----------------------------------------------------------------------------
(* Time and requests. *)

\* The state a heartbeat of phase p carries: a worker that fails before it is
\* ready reports under the phase it failed in, and one that waits is ready.
Reported(p) == CASE p = "failing" -> "starting"
                 [] p = "waiting" -> "ready"
                 [] OTHER         -> p

Request(w, kind) ==
    [kind |-> kind, w |-> w, slot |-> worker[w].slot, id |-> worker[w].id,
     state |-> IF kind = "heartbeat" THEN Reported(worker[w].phase) ELSE "none",
     outcome |-> IF kind = "final" THEN worker[w].outcome ELSE "none"]

Alive(w) == worker[w].phase \notin {"claiming", "gone"}

\* The answer reaches the worker, or is lost on the way.
Told(w, heard, knows) ==
    worker' = IF heard THEN [worker EXCEPT ![w] = knows] ELSE worker

AnyHolder(m) == m.slot # NoSlot
IsHolder(m) == lease[m.slot].id = m.id
RunOver == fleetState = "finished" \/ runState \in Terminal

\* A lease row heard from now; age counts silence and only for a live lease.
Seen(row, st) == [row EXCEPT !.state = st, !.age = 0]

-----------------------------------------------------------------------------
(* claim: POST /runs/{id}/claim. *)

AcceptsClaims == ~RunOver /\ fleetState # "draining" /\ sup # "forgotten"

HeldRunning(w) == {s \in Slots : lease[s].holder = w /\ lease[s].state = "running"}
HeldBy(w) == {s \in Slots : lease[s].holder = w /\ lease[s].state \in Live}
Claimable(w) == {s \in CanServe[w] : lease[s].state \in {"free", "lost"}}

\* s is the slot a claim tries first: the hint if it can be had, else the lowest.
Preferred(w, s) ==
    IF Hint[w] \in Claimable(w) THEN s = Hint[w]
    ELSE \A r \in Claimable(w) : s <= r

ReusedId(s) == IF lease[s].id = NoId THEN nextId ELSE lease[s].id
FreshId(s) == nextId

Granted(w, s, id) ==
    [worker[w] EXCEPT !.phase = "starting", !.slot = s, !.id = id]

\* A retried claim is answered with the lease its holder already has.
ClaimAgain(w, heard) ==
    \E s \in HeldBy(w) :
        /\ \A r \in HeldBy(w) : s <= r
        /\ lease' = [lease EXCEPT ![s].age = 0]
        /\ Told(w, heard, Granted(w, s, lease[s].id))
        /\ UNCHANGED <<runRow, nextId>>

ClaimFresh(w, heard) ==
    /\ HeldBy(w) = {}
    /\ nextId <= MaxIds
    /\ \E s \in Claimable(w) :
        /\ Preferred(w, s)
        /\ lease' = [lease EXCEPT ![s] = [Seen(@, "claimed") EXCEPT
                                            !.id = FreshId(s), !.holder = w]]
        /\ Told(w, heard, Granted(w, s, FreshId(s)))
    /\ nextId' = nextId + 1
    /\ UNCHANGED runRow

ClaimOpen(w) == AcceptsClaims /\ HeldBy(w) \cup Claimable(w) # {}

\* A 409 changes nothing: the worker backs off and asks again.
ClaimRefused(w) ==
    /\ ~ClaimOpen(w)
    /\ UNCHANGED <<server, worker>>

Claim(m, heard) ==
    \/ AcceptsClaims /\ ClaimAgain(m.w, heard)
    \/ AcceptsClaims /\ ClaimFresh(m.w, heard)
    \/ ClaimRefused(m.w)

-----------------------------------------------------------------------------
(* evaluate_release: T0 is set once, when every slot that is not lost is    *)
(* ready and at least one is.                                               *)

SomeReady(rows) == \E s \in Slots : rows[s].state = "ready"
NonePending(rows) == \A s \in Slots : rows[s].state \notin Pending
UnreleasedByState == fleetState \in {"provisioning", "releasing"}
Unreleased == t0 = NoT0 /\ fleetState = "provisioning"

ReleaseFirstReady(rows) ==
    IF Unreleased /\ SomeReady(rows)
    THEN t0' = elapsed /\ fleetState' = "releasing"
    ELSE UNCHANGED <<t0, fleetState>>

EvaluateRelease(rows) ==
    IF Unreleased /\ SomeReady(rows) /\ NonePending(rows)
    THEN t0' = elapsed /\ fleetState' = "releasing"
    ELSE UNCHANGED <<t0, fleetState>>

(* ready: POST /runs/{id}/ready.  A lease lost during the warm-up comes     *)
(* back; the answer carries T0 when the fleet is already released.          *)

ReadyWhatever(st) == "ready"
ReadyAgain(st) == IF st \in {"claimed", "ready", "lost"} THEN "ready" ELSE st

MarkReady(m, heard) ==
    /\ ~RunOver /\ IsHolder(m)
    /\ lease' = [lease EXCEPT ![m.slot] = Seen(@, ReadyAgain(@.state))]
    /\ EvaluateRelease(lease')
    /\ LET known == IF t0' # NoT0 THEN t0' ELSE worker[m.w].t0 IN
        Told(m.w, heard, [worker[m.w] EXCEPT
                            !.phase = "waiting", !.t0 = known,
                            !.released = @ \/ known # NoT0])
    /\ UNCHANGED <<runState, nextId>>

\* 409 "superseded": the worker ends without a report.
ReadySuperseded(m, heard) ==
    /\ ~RunOver /\ ~IsHolder(m)
    /\ Told(m.w, heard, GoneWorker)
    /\ UNCHANGED server

ReadyRefused == RunOver /\ UNCHANGED <<server, worker>>

Ready(m, heard) ==
    \/ MarkReady(m, heard)
    \/ ReadySuperseded(m, heard)
    \/ ReadyRefused

-----------------------------------------------------------------------------
(* heartbeat: POST /runs/{id}/heartbeat. *)

Underway(m) == m.state \in {"running", "finishing"}

RestoredAsReported(m) ==
    IF lease[m.slot].state # "lost" THEN lease[m.slot].state ELSE m.state

\* A lost lease that is heard from goes back where its own report says it is.
Restored(m) ==
    LET st == lease[m.slot].state IN
    IF st # "lost" THEN st
    ELSE IF m.state = "starting" THEN "claimed" ELSE "ready"

HeardRelease(w, when) ==
    [worker[w] EXCEPT !.t0 = when,
                      !.released = @ \/ worker[w].phase \in {"ready", "waiting"}]
HeardStop(w) == [worker[w] EXCEPT !.stop = TRUE, !.released = TRUE]

BeatFenced(m, heard) ==
    /\ fleetState # "finished" /\ ~IsHolder(m)
    /\ Told(m.w, heard, [HeardStop(m.w) EXCEPT !.superseded = TRUE])
    /\ UNCHANGED server

BeatStops(m, heard) ==
    /\ fleetState # "finished" /\ IsHolder(m)
    /\ fleetState = "draining" \/ runState \in Terminal
    /\ lease' = [lease EXCEPT ![m.slot].age = 0]
    /\ Told(m.w, heard, HeardStop(m.w))
    /\ UNCHANGED <<runRow, nextId>>

\* Not released yet: a lease that is ready may be the one the fleet waited for.
BeatBeforeT0(m, heard) ==
    /\ ~RunOver /\ fleetState # "draining" /\ IsHolder(m)
    /\ t0 = NoT0
    /\ lease' = [lease EXCEPT ![m.slot] = Seen(@, Restored(m))]
    /\ IF Restored(m) = "ready" THEN EvaluateRelease(lease')
       ELSE UNCHANGED <<t0, fleetState>>
    /\ Told(m.w, heard, IF t0' = NoT0 THEN worker[m.w] ELSE HeardRelease(m.w, t0'))
    /\ UNCHANGED <<runState, nextId>>

ReleaseOnce(m, heard) ==
    /\ ~RunOver /\ fleetState # "draining" /\ IsHolder(m)
    /\ t0 # NoT0 /\ ~Underway(m) /\ lease[m.slot].state \notin {"running", "done"}
    /\ lease' = [lease EXCEPT ![m.slot] = Seen(@, "running")]
    /\ Told(m.w, heard, HeardRelease(m.w, t0))
    /\ UNCHANGED <<runRow, nextId>>

\* Released, and the worker has not said it is running: T0 again.
BeatRepeatsT0(m, heard) ==
    /\ ~RunOver /\ fleetState # "draining" /\ IsHolder(m)
    /\ t0 # NoT0 /\ ~Underway(m) /\ lease[m.slot].state # "done"
    /\ lease' = [lease EXCEPT ![m.slot] = Seen(@, Restored(m))]
    /\ Told(m.w, heard, HeardRelease(m.w, t0))
    /\ UNCHANGED <<runRow, nextId>>

BeatUnderway(m, heard) ==
    /\ ~RunOver /\ fleetState # "draining" /\ IsHolder(m)
    /\ t0 # NoT0 /\ (Underway(m) \/ lease[m.slot].state = "done")
    /\ LET st == Restored(m) IN
        lease' = [lease EXCEPT ![m.slot] =
                    Seen(@, IF st \in {"claimed", "ready"} THEN "running" ELSE st)]
    /\ IF fleetState = "releasing" /\ Underway(m)
       THEN fleetState' = "running" /\ runState' = "running"
       ELSE UNCHANGED <<fleetState, runState>>
    /\ UNCHANGED <<t0, nextId, worker>>

BeatRefused == fleetState = "finished" /\ UNCHANGED <<server, worker>>

Heartbeat(m, heard) ==
    \/ BeatFenced(m, heard)
    \/ BeatStops(m, heard)
    \/ BeatBeforeT0(m, heard)
    \/ BeatRepeatsT0(m, heard)
    \/ BeatUnderway(m, heard)
    \/ BeatRefused

-----------------------------------------------------------------------------
(* final: POST /runs/{id}/final.  A superseded worker is answered too, and  *)
(* nothing of its report is kept; the first report of a slot is the one.    *)

Final(m, heard) ==
    \/ /\ fleetState # "finished" /\ IsHolder(m) /\ lease[m.slot].state # "done"
       /\ lease' = [lease EXCEPT ![m.slot] =
                [Seen(@, "done") EXCEPT !.report = [by |-> m.w, outcome |-> m.outcome]]]
       /\ Told(m.w, heard, GoneWorker)
       /\ UNCHANGED <<runRow, nextId>>
    \/ /\ fleetState # "finished"
       /\ ~IsHolder(m) \/ lease[m.slot].state = "done"
       /\ Told(m.w, heard, GoneWorker)
       /\ UNCHANGED server
    \/ fleetState = "finished" /\ UNCHANGED <<server, worker>>

Handle(m, heard) ==
    \/ m.kind = "claim"     /\ Claim(m, heard)
    \/ m.kind = "ready"     /\ Ready(m, heard)
    \/ m.kind = "heartbeat" /\ Heartbeat(m, heard)
    \/ m.kind = "final"     /\ Final(m, heard)

-----------------------------------------------------------------------------
(* The worker: one call at a time on its main task, heartbeats on another.  *)

MainCall(w) == CASE worker[w].phase = "claiming" -> "claim"
                 [] worker[w].phase = "ready"    -> "ready"
                 [] worker[w].phase \in {"failing", "finishing"} -> "final"
                 [] OTHER -> "none"

Beating(w) == Alive(w) /\ ~worker[w].superseded

Kinds(w) == ({MainCall(w)} \ {"none"}) \cup (IF Beating(w) THEN {"heartbeat"} ELSE {})

Fault == faults < MaxFaults /\ faults' = faults + 1

\* The call is handled at once; its answer is heard or lost.
Call(w, kind) ==
    /\ kind \in Kinds(w)
    /\ \E heard \in BOOLEAN :
        /\ Handle(Request(w, kind), heard)
        /\ IF heard THEN UNCHANGED faults ELSE Fault
    /\ UNCHANGED <<supervisor, elapsed, late>>

BeatHeard(w) ==
    /\ "heartbeat" \in Kinds(w)
    /\ Handle(Request(w, "heartbeat"), TRUE)
    /\ UNCHANGED <<supervisor, elapsed, late, faults>>

\* The call times out at its caller but stays in flight ...
Delay(w) ==
    /\ Fault
    /\ \E kind \in Kinds(w) : late' = late \cup {Request(w, kind)}
    /\ UNCHANGED <<server, supervisor, elapsed, worker>>

\* ... and is handled when nobody waits for the answer any more.
DeliverLate ==
    /\ \E m \in late : Handle(m, FALSE) /\ late' = late \ {m}
    /\ UNCHANGED <<supervisor, elapsed, faults>>

Becomes(w, knows) ==
    /\ worker' = [worker EXCEPT ![w] = knows]
    /\ UNCHANGED <<server, supervisor, elapsed, late>>

\* The claim does not lint, the engine does not start, the target does not
\* match, or a stop arrived first: a failure summary instead of a run.
FailToStart(w) ==
    /\ worker[w].phase = "starting"
    /\ \E o \in Outcomes \cap (IF worker[w].stop THEN {"failed", "stopped"} ELSE {"failed"}) :
        Becomes(w, [worker[w] EXCEPT !.phase = "failing", !.outcome = o])
    /\ UNCHANGED faults

WarmedUp(w) ==
    /\ worker[w].phase = "starting"
    /\ Becomes(w, [worker[w] EXCEPT !.phase = "ready"])
    /\ UNCHANGED faults

\* `released' is set by the release and by a stop from any source.
StartLoad(w) ==
    /\ worker[w].phase = "waiting" /\ worker[w].released
    /\ Becomes(w, IF worker[w].superseded THEN GoneWorker
                  ELSE [worker[w] EXCEPT !.phase = "running"])
    /\ UNCHANGED faults

FinishLoad(w) ==
    /\ worker[w].phase = "running"
    /\ \E o \in Outcomes :
        Becomes(w, [worker[w] EXCEPT !.phase = "finishing", !.outcome = o])
    /\ UNCHANGED faults

\* SIGTERM, or the dead-man after heartbeats that were not acknowledged.
WorkerStopped(w) ==
    /\ worker[w].phase # "gone" /\ ~worker[w].stop
    /\ Becomes(w, HeardStop(w)) /\ Fault

\* The process dies, or the four attempts at its final report fail.
WorkerDies(w) ==
    /\ worker[w].phase # "gone"
    /\ Becomes(w, GoneWorker) /\ Fault

\* The dead-man: a control plane whose run is over answers nothing but 409.
DeadMan(w) ==
    /\ fleetState = "finished" /\ Alive(w) /\ ~worker[w].stop
    /\ Becomes(w, HeardStop(w)) /\ UNCHANGED faults

\* A call that is refused until the dead-man or its last attempt.
GivesUp(w) ==
    /\ CASE MainCall(w) = "claim" -> ~ClaimOpen(w)
         [] MainCall(w) = "ready" -> RunOver
         [] MainCall(w) = "final" -> fleetState = "finished"
         [] OTHER -> FALSE
    /\ Becomes(w, GoneWorker) /\ UNCHANGED faults

-----------------------------------------------------------------------------
(* The operator's stop. *)

Stop ==
    /\ runState \notin Terminal /\ sup # "forgotten"
    /\ stopRequested' = TRUE
    /\ fleetState' = IF fleetState = "finished" THEN fleetState ELSE "draining"
    /\ UNCHANGED <<lease, runState, t0, nextId, sup, merged, lostSlots,
                   elapsed, worker, late, faults>>

-----------------------------------------------------------------------------
(* The supervisor thread. *)

\* The groups are created; the watch and its clock start.
StartWatch ==
    /\ sup = "launching"
    /\ sup' = "watching"
    /\ UNCHANGED <<server, stopRequested, merged, lostSlots, elapsed, worker, late, faults>>

PastProvisioning ==
    t0 = NoT0 /\ fleetState = "provisioning" /\ elapsed > ProvisionTicks

\* A lease silent for longer than its allowance; one still warming up has the
\* provisioning window.
Allowance(s) ==
    IF /\ lease[s].state = "claimed"
       /\ elapsed <= ProvisionTicks
       /\ fleetState # "draining"
    THEN MaxOf(LeaseTicks, ProvisionTicks) ELSE LeaseTicks
Silent(s) == lease[s].state \in Live /\ lease[s].age > Allowance(s)

Lose(rows, S) == [s \in Slots |-> IF s \in S THEN Seen(rows[s], "lost") ELSE rows[s]]

Lapsed == Lose(lease, {s \in Slots : Silent(s)})
PendingIn(rows) == {s \in Slots : rows[s].state \in Pending}
FreeIn(rows)    == {s \in Slots : rows[s].state = "free"}
UnreportedIn(rows) == {s \in Slots : rows[s].state # "done"}
AllSettled(rows) == \A s \in Slots : rows[s].state \in {"done", "lost"}

PastHardDeadline(when) == when # NoT0 /\ elapsed - when > RunTicks

TimedOut(when) ==
    \/ PastHardDeadline(when)
    \/ elapsed > CeilingTicks

\* The end of every tick: the watch is over when every slot is settled, or
\* when a clock runs out and the rest is declared lost.
Conclude(rows, when) ==
    IF AllSettled(rows) \/ TimedOut(when)
    THEN /\ lease' = IF AllSettled(rows) THEN rows ELSE Lose(rows, UnreportedIn(rows))
         /\ sup' = "merging"
    ELSE lease' = rows /\ sup' = sup

WatchTick ==
    /\ sup = "watching"
    /\ \/ /\ ~PastProvisioning
          /\ Conclude(IF fleetState = "draining" THEN Lose(Lapsed, FreeIn(Lapsed))
                      ELSE Lapsed, t0)
          /\ UNCHANGED <<t0, fleetState>>
       \* The fleet is released without its stragglers ...
       \/ /\ PastProvisioning /\ SomeReady(Lapsed)
          /\ Conclude(Lose(Lapsed, PendingIn(Lapsed)), elapsed)
          /\ t0' = elapsed
          /\ fleetState' = "releasing"
       \* ... or given up when nobody is ready.
       \/ /\ PastProvisioning /\ ~SomeReady(Lapsed)
          /\ Conclude(Lose(Lapsed, PendingIn(Lapsed)), t0)
          /\ fleetState' = "draining"
          /\ UNCHANGED t0
    /\ UNCHANGED <<runState, nextId, stopRequested, merged, lostSlots,
                   elapsed, worker, late, faults>>

\* After the watch, in a session of its own: what was reported is merged, what
\* cannot be read costs its own slot.
Readable(row) == row.state = "done" /\ row.report.outcome # "unreadable"
Unreadable(row) == row.state = "done" /\ row.report.outcome = "unreadable"

MergeReports ==
    /\ sup = "merging"
    /\ LET bad == {s \in Slots : Unreadable(lease[s])} IN
        /\ merged' = {s \in Slots : Readable(lease[s])}
        /\ lostSlots' = {s \in Slots : lease[s].state = "lost"} \cup bad
        /\ lease' = Lose(lease, bad)
    /\ sup' = "correlating"
    /\ UNCHANGED <<runRow, nextId, stopRequested, elapsed, worker, late, faults>>

MergedOutcome ==
    LET said == {lease[s].report.outcome : s \in merged} IN
    IF "failed" \in said THEN "failed"
    ELSE IF "aborted" \in said THEN "aborted"
    ELSE IF "stopped" \in said THEN "stopped" ELSE "completed"

\* The cluster has been read and searched; the result is written.
WriteResult ==
    /\ sup = "correlating"
    /\ runState' = IF merged # {} THEN MergedOutcome
                   ELSE IF stopRequested THEN "stopped" ELSE "failed"
    /\ fleetState' = "finished"
    /\ sup' = "finished"
    /\ UNCHANGED <<lease, t0, nextId, stopRequested, merged, lostSlots,
                   elapsed, worker, late, faults>>

\* An exception: the target, the driver or the database.
SupervisorFails ==
    /\ sup \in {"launching", "watching", "merging", "correlating"}
    /\ runState' = "failed" /\ fleetState' = "finished"
    /\ sup' = "finished"
    /\ UNCHANGED <<lease, t0, nextId, stopRequested, merged, lostSlots,
                   elapsed, worker, late, faults>>

\* The groups are destroyed (a driver that refuses is as if this never ran) and
\* the manager forgets the run.
DestroyAndForget ==
    /\ sup = "finished"
    /\ sup' = "forgotten"
    /\ worker' = [w \in Workers |-> GoneWorker]
    /\ UNCHANGED <<server, stopRequested, merged, lostSlots, elapsed, late, faults>>

-----------------------------------------------------------------------------
(* The clock. *)

Older(row) ==
    IF row.state \in Live /\ row.age < AgeCap
    THEN [row EXCEPT !.age = @ + 1] ELSE row

\* Nobody reads the clock when the watch is over.
Pass ==
    /\ sup \in {"launching", "watching"}
    /\ lease' = [s \in Slots |-> Older(lease[s])]
    /\ elapsed' = IF sup = "watching" /\ elapsed < ElapsedCap THEN elapsed + 1
                  ELSE elapsed
    /\ UNCHANGED <<runRow, nextId, supervisor, worker, late, faults>>

-----------------------------------------------------------------------------

Init ==
    /\ lease = [s \in Slots |-> FreeLease]
    /\ fleetState = "provisioning" /\ runState = "pending"
    /\ t0 = NoT0
    /\ nextId = 1
    /\ sup = "launching" /\ stopRequested = FALSE
    /\ merged = {} /\ lostSlots = {}
    /\ elapsed = 0
    /\ worker = [w \in Workers |-> NewWorker]
    /\ late = {} /\ faults = 0

Supervise ==
    \/ StartWatch \/ WatchTick \/ MergeReports \/ WriteResult
    \/ SupervisorFails \/ DestroyAndForget

WorkerStep(w) ==
    \/ \E kind \in {"claim", "ready", "heartbeat", "final"} : Call(w, kind)
    \/ Delay(w)
    \/ FailToStart(w) \/ WarmedUp(w) \/ StartLoad(w) \/ FinishLoad(w)
    \/ WorkerStopped(w) \/ WorkerDies(w) \/ DeadMan(w) \/ GivesUp(w)

Next ==
    \/ \E w \in Workers : WorkerStep(w)
    \/ DeliverLate
    \/ Stop
    \/ Supervise
    \/ Pass

Spec == Init /\ [][Next]_vars

\* The supervisor thread keeps running, and so do a worker's heartbeat loop, its
\* dead-man and the task that waits for the release.  Nothing makes a worker
\* warm up, report or stop, and nothing makes time pass.
FairSpec ==
    /\ Spec
    /\ WF_vars(StartWatch) /\ WF_vars(WatchTick)
    /\ WF_vars(MergeReports) /\ WF_vars(WriteResult)
    /\ \A w \in Workers :
        /\ WF_vars(BeatHeard(w)) /\ WF_vars(StartLoad(w)) /\ WF_vars(DeadMan(w))

-----------------------------------------------------------------------------
(* Correctness. *)

RequestSet == [kind : {"claim", "ready", "heartbeat", "final"}, w : Workers,
               slot : Slots \cup {NoSlot}, id : Nat, state : Phases \cup {"none"},
               outcome : Outcomes \cup {"none"}]

ReportSet == {NoReport} \cup [by : Workers, outcome : Outcomes \cup {"none"}]

LeaseSet == [state : LeaseStates, id : Nat, holder : Workers \cup {"nobody"},
             report : ReportSet, age : 0..AgeCap]

WorkerSet == [phase : Phases, slot : Slots \cup {NoSlot}, id : Nat,
              t0 : Nat \cup {NoT0}, released : BOOLEAN, stop : BOOLEAN,
              superseded : BOOLEAN, outcome : Outcomes \cup {"none"}]

\* Type invariant of the lease table, the run row, the supervisor and the workers.
TypeOK ==
    /\ lease \in [Slots -> LeaseSet]
    /\ fleetState \in FleetStates
    /\ runState \in {"pending", "running"} \cup Terminal
    /\ t0 \in Nat \cup {NoT0}
    /\ nextId \in Nat \ {0}
    /\ sup \in SupStates
    /\ stopRequested \in BOOLEAN
    /\ merged \subseteq Slots /\ lostSlots \subseteq Slots
    /\ elapsed \in 0..ElapsedCap
    /\ worker \in [Workers -> WorkerSet]
    /\ late \subseteq RequestSet
    /\ faults \in Nat

\* "Fenced with a fresh lease id every time it changes hands" (fleet.py claim):
\* a slot that is done carries the report of the worker its lease was issued to,
\* whatever was restarted, retried or delivered late; nobody speaks for a slot
\* another worker has claimed since.
ReportFromHolder ==
    \A s \in Slots : lease[s].state = "done" =>
        /\ lease[s].report # NoReport
        /\ lease[s].report.by = lease[s].holder

\* No two worker processes believe they hold the same lease, and a worker whose
\* lease is current holds the slot it believes it does.
HoldersAgree ==
    \A v, w \in Workers :
        /\ worker[w].id # NoId /\ worker[v].id = worker[w].id => v = w
        /\ \A s \in Slots : worker[w].id # NoId /\ lease[s].id = worker[w].id =>
              worker[w].slot = s /\ lease[s].holder = w

\* The fleet starts together: a worker generates load before it was told to
\* stop only from the run's one T0, however its release reached it.
StartsAtT0 ==
    \A w \in Workers : worker[w].phase = "running" /\ ~worker[w].stop =>
        t0 # NoT0 /\ worker[w].t0 = t0

\* T0 is set at most once, with somebody ready and nobody on the way: a slot
\* that was still free or warming up is ready or counted lost by that step.
ReleaseIsWhole ==
    [][t0' # t0 => /\ t0 = NoT0
                   /\ SomeReady(lease) \/ SomeReady(lease')
                   /\ NonePending(lease')]_vars

\* "A retried claim after a dropped response must not take a second slot"
\* (fleet.py claim): a worker that has not heard its grant yet, however often it
\* asked, has at most one live lease.
ClaimingHoldsOne ==
    \A w \in Workers : worker[w].phase = "claiming" =>
        \A r, s \in Slots :
            /\ lease[r].holder = w /\ lease[r].state \in Live
            /\ lease[s].holder = w /\ lease[s].state \in Live
            => r = s

\* "Every slot is done or lost: merge" (fleet.py): the result accounts for every
\* slot of the run, as merged or as lost.
MergeCoversEverySlot ==
    sup = "correlating" => merged \cup lostSlots = Slots

\* As time passes the run is finished, whatever the workers do and even when they
\* do nothing: "no state, not even a stop before the first claim, can leave this
\* loop running for ever" (fleet.py _watch).
FleetFinishes == WF_vars(Pass) => <>(fleetState = "finished")

\* A worker waiting for a released run is let go, however many answers are lost:
\* "repeating the release until the worker says it is running is what makes a
\* heartbeat lost in transit harmless" (fleet.py _heartbeat).
ReleaseReaches ==
    \A w \in Workers :
        worker[w].phase = "waiting" /\ t0 # NoT0 ~> worker[w].phase # "waiting"

=============================================================================
