# Regulator in TLA+

Regulator generates search load against a Splunk target and measures it. A
control plane (`src/server`) launches runs, in its own process or on a fleet of
worker containers, and the workers (`src/worker`) generate the load and report.
This directory holds TLA+ models of the parts whose correctness depends on order
or on arithmetic at an edge: who holds a slot of a fleet, when the fleet is
released and what its result covers, how controls meet a run, how load starts,
pauses and drains, what is counted, what is left after a crash. TLC checks the
models on small instances, and that the lease protocol implements an abstract
specification of slot claims; TLAPS proves for all instances that it does, and
the safety of the fleet's start, of run control, of the run manager, of the
scheduler, publisher, emitter and drivers, of both engines, and what the eviction lock
does keep.

Contents: [the system](#the-system), [the models](#the-models),
[the runs](#the-runs), [findings](#findings),
[the proofs](#the-proofs), [not modelled](#not-modelled), [plan](#plan).

## The system

### Components

| Component | State | Operations | What makes it correct |
|---|---|---|---|
| Fleet leases (`fleet.py` 270-700, `routes/agent.py`) | one `worker_leases` row per slot; `fleet_state`, `state`, `t0` on the run row | `claim`, `mark_ready`, `heartbeat`, `final`, `evaluate_release` | one holder per slot; only the holder reports; one T0, once nobody is on the way; the first report is kept |
| Fleet supervisor (`fleet.py` 971-1452) | a thread per run: groups created, stop flag, clocks | `_supervise`, `_watch`, the merge, `_finish_failed`, `_destroy_quietly` | ends whatever the workers do; every slot is merged or lost; nothing is left on the cluster unrecorded |
| Managed worker (`managed.py`) | phase, lease, release, stop | claim, warm up, ready, wait, load, report; a heartbeat task; a dead-man | loads only for a lease it holds, from T0; stops when cut off |
| Run manager (`runner.py`) | `_active`, `_fleets`, cache epochs | `start`, `_start_fleet`, `forget`, boot reconciliation | the limit on runs in flight; no entry without a run; no row in flight without a thread |
| Run control (`routes/runs.py`, `runcontrol.py`) | `stop_requested`, `entry.scheduler`, `paused_at` | stop, pause, resume, load | a control is never lost between launch and load; an outcome is never replaced |
| Scheduler (`scheduler.py`) | virtual users, in-flight arrivals, pauses, guards | closed, open and scheduled load; drain | population follows its target; one drain budget; paused time counted once |
| API and browser engines (`engines/`, `splunk.py`) | sessions, jobs, deadlines | run a step, retry, cancel | each step is recorded once, with the outcome it had |
| Results and histogram (`results.py`, `histogram.py`) | totals, interval, buckets | record, `take_interval`, merge, percentiles | intervals add up to the totals; merging loses nothing |
| Telemetry emitter (`hec.py`) | unbounded queue, counters | append, flush loop, `flush`, `close` | every record is sent or counted dropped |
| Cache epochs, eviction (`runner.py`, `cachelock.py`, `smartstore.py`) | epochs per run, a lock per target | mark, evict, hand over | the lock is let go; it excludes (it does only until it is waited for); provenance tells what was fetched |
| Configuration source (`configsource.py`, `configio.py`, `runarchive.py`) | last synced digest, carried rows, `archived_at` | pull, push, archive, forget | an instance that could not read a document does not replace it |
| Scenario library (`routes/scenarios.py`, `scenarioarchive.py`, `scenariosource.py`) | a directory and an archive per name, the names on run rows | create, edit, rename, delete, upload, publish, boot import | history keeps its scenario; what was deleted stays away |
| Scenarios (`scenario.py`, `params.py`, `savedsearches.py`, `timepolicy.py`) | none between runs | export, load, lint, draw, schedule | what was exported is what runs; a search that writes needs leave |
| Drivers (`drivers/`) | services or jobs, secrets | create, stop, destroy, list | a failed create leaves nothing behind |
| Comparison (`compare.py`, baselines) | baseline rows | promote, verdicts over two summaries | a gate fails on missing data |
| Target guards (`targetguard.py`), ceilings (`ceilings.py`) | streaks, a baseline, notes | poll, breach, report | a stop is earned; a blind guard says so |
| Correlation (`sut.py`), certificate trust (`catrust.py`) | none | read-only searches, address checks | |
| Auth, audit, schemas, console, CLI, tools, deployment | | | |

### Interaction

A request handler is a function on the server's thread pool with a SQLAlchemy
session of its own over SQLite; supervisors and in-process runs are threads of
the same process with sessions of theirs. They share the rows, the manager's
tables (under one lock) and, for an in-process run, the scheduler object. A
worker talks to the control plane by HTTP only: its main task makes one call at a
time and retries, a second task sends heartbeats. The control plane never calls a
worker: release and stop travel in the answers to heartbeats.

### What is hard

Handlers interleave with the supervisor and with each other between a read and a
commit; a session keeps what it read and writes only the attributes it changed;
calls and answers are lost, repeated and delayed; workers die, are partitioned
and are replaced; the control plane dies between any two steps and reconciles at
boot; the run thread publishes its scheduler while handlers look for it.
`PROJECT.json` lists these as hazards, each at the line where it bites, with the
properties that cover it or the reason none does yet.

## The models

| Module | Models | Grain of a step |
|---|---|---|
| `SlotClaims` | what the lease protocol promises: claims, reports, one start, one count | one event of a slot or of the fleet |
| `FleetLease` | one fleet run: leases, run row, supervisor, workers, lost and delayed calls, clocks | a whole handler, a tick, a worker's phase |
| `FleetLeaseRefines` | the mapping under which `FleetLease` implements `SlotClaims` | |
| `FleetLeaseProofs` | the proofs about `FleetLease`: types, the fence, the start and the refinement | |
| `FleetRows` | the same handlers and the watch against the database | a read, or a write with its commit |
| `RunControl` | one in-process run and its stop, pause and resume handlers | what runs between two accesses to shared state |
| `RunManager` | every run of a control plane across a crash and a boot | a step of a launch, a thread, a boot |
| `Drivers` | launch, drain and removal of a run's groups on each backend | one backend call |
| `FleetPlan` | how load is dealt to groups and slots, and dealt again | one change, one heartbeat |
| `Series` | live figures to the control plane; pause, load and epoch back | what runs between two awaits, one handler |
| `Verdict` | merged reports, baselines, gates | one report, one comparison |
| `Scheduler` | the load's own loops, pauses, guards, drain and outcome | what runs between two awaits |
| `SearchJobs` | searches over one splunkd session, drain and harvest | what runs between two awaits, one request served |
| `BrowserPages` | browser users, logins and dashboard loads | what runs between two awaits, one event of the page |
| `TargetGuard` | the guards on the target's CPU and skipped searches | one reading |
| `Histogram` | the latency sketch, recorded apart and merged | one value, one shipment |
| `Emitter` | telemetry: queue, flushes, retries, close | what runs between two awaits |
| `Eviction` | the cache of a target: evictions, epochs, provenance | what runs between two awaits; at the lock, between two calls |
| `Publisher` | the shared copy of configuration and history | one call to the bucket, one transaction |
| `Library` | the scenario library and its archives | one file, row or bucket operation |
| `SavedSearches` | saved searches from export to dispatch | export, load, launch |
| `MCFleetLease`, `MCFleetRows`, `MCRunControl`, `MCRunManager` | the instances TLC checks | |
| `MCProgress`, `MCParts` | the instances of the other components, side by side | |
| `FleetRowsProofs`, `RunControlProofs`, `RunManagerProofs` | the proofs about the module each is named for | |
| `ProgressProofs` | the proofs about `Scheduler`, `Series`, `Publisher`, `Emitter` and `Drivers` | |
| `PartsProofs` | the proofs about `Eviction`, `BrowserPages`, `SearchJobs`, `Library`, `TargetGuard` and `Verdict` | |
| `SavedSearchesProofs` | the proofs about `SavedSearches`, and the lemmas about numbers and sequences they rest on | |
| `FleetLoadProofs` | the proofs about `FleetPlan` and `Histogram`: the load going out and the latencies coming back | |

`MCProgress` and `MCParts` host components that share no variable. Their first
step chooses a part; from then on the chosen component takes its own steps and
the others rest, so a behaviour of the hosting module is a behaviour of the
chosen component and an invariant or temporal property of one component means
there what it means alone. They are not compositions.

### FleetLease

`lease[s]` is the row of slot `s`: state, lease id (a fresh number for the
code's random one), holder, the report kept in `summary_json` (who sent it and
what it says), and `age`, the time since `last_seen`. `fleetState`, `runState`
and `t0` are the run row. `sup` is where the supervisor's thread is, `merged` and
`lostSlots` what it found, `worker[w]` what a worker process knows.

`Handle(m, heard)` is the control plane's handler on the request `m`; `heard`
says whether the worker gets the answer. `Call` handles a request at once;
`Delay` leaves it in `late`, to be handled at any later moment by `DeliverLate`
while the worker goes on (it has timed out and retries). Each answer that is not
heard, each delayed call, each worker that is stopped or dies spends one of
`MaxFaults`. A heartbeat's disjuncts follow the branches of `_heartbeat`: a
superseded worker is told to stop; a draining or finished run stops its workers;
before T0 a heartbeat may bring a lost lease back and may be the one that makes
the fleet whole; after T0 it repeats T0 until the worker says it is running.

`WatchTick` is one turn of the watch: leases that were silent for their allowance
are lost, the provisioning deadline releases the fleet without its stragglers or
gives it up, a draining fleet loses its free slots, and the watch ends when all
is settled or a deadline has passed. `MergeReports` is the session after it,
`WriteResult` the one after the target was read. Supervisors can fail anywhere.

`PastProvisioning` and `Silent` compare small clocks with the constants
`LeaseTicks`, `ProvisionTicks`, `RunTicks` and `CeilingTicks`. `Pass` lets time
go by; clocks saturate one above the last threshold that reads them, so they
distinguish exactly what the code's comparisons do. A worker's clock is not
modelled: its dead-man may stop it at any time (`WorkerStopped`), and does stop
it once the run is finished (`DeadMan`).

### SlotClaims and FleetLeaseRefines

`SlotClaims` has no workers' states, messages, clocks or lapses: a slot is given
out under a number never used before (`Take`), reported on by its current claim
(`Report`), the fleet is started once (`StartTogether`), drained, counted once
(`Count`) and finished. `FleetLeaseRefines` maps the lease rows to it: `held` is
the id and holder of a row, `reported` its report while the row is done,
`stage` forgets the difference between releasing and running, `result` is what
the merge took. A lease that lapses, a heartbeat that brings it back, a repeated
answer or a worker's death is a stutter; every other step of `FleetLease` must
be one of the actions above, and that the run shows.

### FleetRows

FleetLease's handlers as sessions. `Arrive` is the run row read by `agent._run`;
`FindLease` and `FindClaimable` the lease read; the `Commit...` actions the
writes and the commit. Three facts of the code's database layer shape them:

- a session answers from the objects it has loaded, so later decisions use what
  was read, even if the row has changed (`req[w][c].run`, `seen`, `tick`);
- a commit writes the attributes whose value differs from the value loaded
  (`Write`: a lease the handler leaves in the state it read is not written);
- SQLite has one writer: from its first flush to its commit a session excludes
  other writers, so what a handler reads after its first write it reads together
  with its commit. `evaluate_release` re-reads the leases after the flush of the
  handler's own (`States`); `claim`'s conditional update tests the row as it is
  (`StillOpen`).

Ticks (`TickReads`, `Tick`) and the operator's stop (`StopReads`, `StopCommits`)
are sessions too. A lease may be silent and a deadline may pass in any tick
(`MaxLapses` bounds the silences). `everLost` is a history variable that only
properties read.

### RunControl

`stage` is how far the launch and then the run thread has come; `entry` is the
run's entry in `manager._active`, `stopFlag` its `stop_requested`, `sched` the
scheduler once published. `req[q]` is a handler: which control, what its first
read returned, and what it does next. A stop sets the flag, then looks for the
scheduler; the thread publishes the scheduler, then looks at the flag. The load
itself is `EndLoad` (its duration is over, or it was told to stop, and it is not
waiting out a pause) and `LoadCutShort` (a guard, an exception or the pause
budget).

### RunManager

`row` is what outlives the process, with the recorded group refs; `cluster` is
what the driver really has; `active`, `fleets`, `held` and `stage` die with it.
A launch is the row's commit, the count, the registration and the thread's start;
in-process runs count and register under one lock, fleets plan in between.
`Restart`, `MarkRuns` and `SweepGroups` are the boot in the order of
`create_app`. A driver may refuse to destroy any group.

### The worker

`Scheduler`. A `plan` is a load with the environment's overrides applied as
`effective_*` does; `RampAt` is the target of a ramp. `Turn` is one turn of the
chosen loop: `_run_closed` compares the population with the target every
`TickS` and starts or retires users, `_run_open` issues, sheds or skips arrivals
by its timetable, the schedule loop fires its crons each minute. `task[u]` is a
user or an arrival between two awaits: held by a pause, in a step, thinking,
sleeping. A pause, a stop, a load change and a guard may come at any time; the
drain has one deadline for all. `now` counts units, a sleeper wakes up to
`plan.late` after its time.

`SearchJobs`. `call[u]` is the request a search waits for, `session` the key's
generation, the lock and the refused logins, `target` the jobs and keys the
target knows. A request that finds its key aged out takes the lock, compares
generations and logs in or goes on with the new key; a search posts its job with
or without an id of its own, polls, reads, deletes; the drain cancels at any
await; the harvest follows what was parked. The target may refuse, fail or not
answer as often as `faults` allows.

`BrowserPages` has a tab and a web session per user: the page shows a login
form, a dashboard or neither, its searches start and finish on their own, and
the load sees only what it overhears while it listens. `TargetGuard` keeps what
the target did per poll interval, the skipped searches as a running total, and
computes each reading from the window of the poll. `Histogram` is the bucket arithmetic with recorders that ship deltas
in any order. `Emitter` has the background loop and the run's own flushes over
one queue; a post is accepted, refused or tried again.

### The control plane beside the fleet

`Series`. An interval is taken when a heartbeat leaves, the heartbeat may be
given up on and arrive later, the supervisor's sample may fail to be written,
a slot may change hands. `wanting` is the pause, load and epoch of the run, which
each heartbeat's answer carries to its slot.

`FleetPlan` translates `plan`, `_deal`, `_split_evenly`, `slot_load` and the load
change; `slots` hear of a change one at a time. `Verdict` translates
`merge_summaries`, `create_baseline` and `compare_runs`; a report is its counts,
latencies, outcome and validity. A slot that does not report counts as lost there, as the
watch leaves it; `MergeCoversEverySlot` shows a slot that is neither merged nor lost, and of
a summary it is missing from `VerdictIsEarned` says nothing.

`Drivers` is what `_supervise`, its stop and `_destroy_quietly` do as calls on
Swarm, Kubernetes or local processes: secret, workload, ownership, ref, drain,
removal. A call is refused, or takes effect and loses its answer.

`Eviction` has the button, the eviction before a run and the periodic one, the epochs
a run is told of, and the two readings a summary's provenance rests on; buckets come
and go meanwhile. The lock of `cachelock.py` is one `asyncio.Lock` that the loops of
several threads share, and nothing in it is made for that. While it has no queue its test
and its setting lie in one piece of straight-line bytecode, where CPython 3.11 and 3.12,
the versions of the images and of CI, change threads at calls and backward jumps only:
`Acquire` takes it at once. With a queue the test is a call (`all(...)`), so it is found
free in one step and taken in another (`Take`). Who has to wait makes the queue or is
bound to its loop (`Join`) without looking again whether the lock is still taken; who is
woken leaves the queue in one step (`Woken`) and takes the lock in the next, whoever has
it by then. So `Inside` may hold several evictors. The first of them to leave releases the
lock, and the others, `Robbed`, get a RuntimeError in place of what they were doing; for a
run that is being cancelled this error takes the place of the cancellation
(`CancelIsLost`).

`Publisher` has three threads: pull, publisher and push, with the write lock of
the database, the four fields of `_state` and an operator who edits, deletes and
presses buttons. A put that raises leaves a directory as it was (the file is put in its place by
`os.replace`), and an object store as it was or with the object stored (`MayLeave`, where
`remote`); `synced` stays behind either way. `Library` serves two requests, or three renames, one after the
other or overlapping, with the server killed between any two steps and the boot's
import after it; what an archive may hold is a guard of the upload. A rename updates
the run rows before it puts its copy in place and commits after, and SQLite, the
database the server ships with, admits one writer at a time, so no two renames are
between those two steps. That removal is taken to succeed,
though `rmtree(ignore_errors=True)` (`scenarios.py` 717) may leave part of the old directory
behind unsaid. The run rows are those that are there when a rename begins; a launch that loads
the scenario before the rename's commit and commits its row after it
(`routes/runs.py` 315-353) is not modelled. `SavedSearches`
translates the `.conf` writer and parser line by line (a line is an atom and the
backslashes it ends in), selection, binding, cron and the time range of a
dispatch. A step written by hand whose stanza the file does not have is kept
(`HeldByTarget`), and one with `dispatch: saved` runs what the target's own search says by
then (`TextsOf`), whatever the file said.

## The runs

| Run | Configuration | Bounds | What it shows |
|---|---|---|---|
| `fleet_lease_safety` | `FleetLeaseSafety.cfg` | 2 slots, 2 identical workers, 2 lease ids, 1 fault | `ReportFromHolder`, `HoldersAgree`: the fence; `StartsAtT0`, `ReleaseIsWhole`: the start; `ImplementsSlotClaims`: the refinement |
| `fleet_lease_live` | `FleetLeaseLive.cfg` | 2 slots, 1 worker with a slot hint, 3 ids, 2 faults | `ClaimingHoldsOne`: retried claims; `ReleaseReaches`: a lost release is repeated; `FleetFinishes`: the watch ends |
| `fleet_rows_crowd` | `FleetRowsCrowd.cfg` | 2 slots, 2 workers, 2 ids, 1 silence, 2 handlers at once besides the tick | `ClaimsAreExclusive`: claims interleave; `ReadyFleetIsReleased`: overlapping readies |
| `run_control` | `RunControlStop.cfg` | 2 requests at a time, any number one after another | `StopReachesLoad`, `OutcomeIsKept`, `StopEndsRun` |
| `run_manager` | `RunManagerRuns.cfg` | 2 in-process runs, 2 fleets of 2 groups, limit 1, 1 crash | `NoGhosts`, `OneUnrecorded`, `InFlightIsSupervised`, `FinishedRecordsStrays` |
| `progress` | `Progress.cfg` | the settings in `MCProgress` | see below |
| `parts` | `Parts.cfg` | the settings in `MCParts` | see below |
| `fleet_lease_merge`, `fleet_rows_stop`, `run_control_paused`, `run_manager_together`, `run_manager_sweep` | see [Findings](#findings) | | statements of the code's documents and comments that do not hold |

What `progress` shows:

| Component | Property | |
|---|---|---|
| Scheduler | `DeliversItsDuration` | a completed run was under load for all of its duration, however often it was paused |
| | `ArrivalsAreAccounted` | every arrival due was issued, shed or counted as skipped, to within one for each new start of the timetable |
| | `RunEnds` | pauses nobody ends and searches that never end hold no run |
| Series | `SeriesAddsUp` | each execution is in one sample, waits for one or was lost once |
| | `ControlReachesWorkers` | pause, load and epoch reach every slot whatever answers are lost |
| Publisher | `BootRowsAreKept` | rows the boot found stay in the copy until removed here, or landed by a later pull |
| | `CopyCatchesUp` | the document last put becomes what the instance says, whatever failed meanwhile, and so does a copy in a directory |
| Emitter | `RecordsAreCounted` | each record is sent or dropped, counted once |
| Drivers | `NothingIsForgotten` | what is left at the backend is on the row |

What `parts` shows:

| Component | Property | |
|---|---|---|
| SearchJobs | `OneLoginPerRefusal` | one login follows an aged-out key, however many requests found it so |
| | `SearchesAreSettled` | each search runs once, is filed once, and its job is gone |
| BrowserPages | `OneLoginPerSession` | one login per session, never inside a measured load |
| TargetGuard | `StopIsEarned` | stopped exactly on two readings in a row; blind guards are named |
| Histogram | `FleetPercentiles` | the merge is exact, percentiles are within the bucket's error |
| SavedSearches | `ExportIsTheSameLoad` | text, range, schedule and flags survive the file |
| | `WritersNeedLeave` | a search that writes in the file is launched only with leave; without it, what writes is the target's own search dispatched by name |
| Eviction | `LockIsLetGo` | the lock is never left taken with nobody inside, however the evictions that share it end |
| | `ProvenanceIsHonest` | two complete readings by one route tell what was fetched and lost |
| FleetPlan | `LoadIsDealtOut` | the fleet's load stays between the totals asked for; crons fire once |
| Verdict | `VerdictIsEarned` | "ok" rests on measurements of every slot |
| Library | `HistoryFollows` | the scenario a run names is there at every step of a rename, unless three overlap |
| | `RemoteCopiesFollow` | the bucket follows deletions and renames, kills included |

Why the bounds are enough. Two workers are one holder and one that supersedes it;
two ids are one hand-over of a slot, or both slots claimed. One fault is a lost
grant, a lost release, a delayed report or claim, or a death, each alone with
every interleaving; two faults are a loss and its repetition. The clocks are 0 or
1 in the instances: a lease can fall silent after one `Pass`, before or after the
provisioning deadline, and the ceiling comes one `Pass` later, so every order of
the thresholds that the assumption `CeilingTicks >= ProvisionTicks + RunTicks`
allows occurs. The safety run stops at the end of the run, since nothing
after it changes a lease except refused calls, and begins when the watch does
(`Watched`): a claim made while groups are still being created is the same step
as one made just after. The liveness run has no such bounds and no symmetry. `Crowded` lets sessions overlap freely until the
fleet is released or draining and then one at a time: the two properties of that
run are about the time before. In RunManager a limit of one with four launches
makes every pair of launches compete, and a crash may come at any step.

The instances of `progress`. The scheduler's six plans are each a mechanism with
the one beside it: a ramp up and down with a hand on it, pacing with a pause and
a stop, failing and refusing engines, an open load behind its timetable for its
whole duration with `Catchup` 1, a random one that is paused and changed, and the
schedule with skew. Its sleepers wake up to 5 units late, which makes the timetable
start again at now more than once; `LagLimit` 5 lets such a run go on. `Horizon` 30 is beyond the longest duration, its pauses and
the drain, so that no run is cut by it; a minute is 4 units. A stream has two
slots, changes of pause, load or epoch, and one lost or late heartbeat: a heartbeat
that arrives late beside the next one, and a sample between them. The publisher
has one target, one baseline label, two runs and two edits: one edit during a
push and one after it, one failure at any call; in one setting (`PulledAgain`) the
run a baseline waits for is archived after the boot and the button pulls it. Three records are one in the
loop's batch, one in the run's and one queued; two attempts are a
failure and its repetition. Drivers: one group or two, two refusals and a lost
answer, so a create and its undo may both be refused.

The instances of `parts`. Two searches share the session and its lock,
and the target runs one at a time, so the other queues; two browser users share
the lock; four polls with
windows of three hold two breaches in a row, one apart, and one that has left
the window. `SubBits` 2 puts values in the linear region and in three octaves up to
the last, at the lower and the upper edge of their buckets. One search beside a fixed one goes through
each kind of line, range, cron line and flag; the two constants `OneHour` and
`OneDay` keep only the divisibility the code uses. Two runs and the button make
each pair of evictions, and one that holds the lock, one that waits and one that arrives. Plans go from nobody to seven users on one to three
workers and two engines, changed twice. Two slots' reports that
agree, differ, abort or are lost, against seven gates. Every pair of library requests, in order and
overlapping, with two refused calls and one kill.

Symmetry is over workers that run the same image, over the handlers' names and
over runs of one kind; only runs without liveness properties use it. Deadlock is
not checked where a run ends: a finished fleet with dead workers, a run with no
handler left and a control plane with every run over have no further step.

Fairness. `FleetLease!FairSpec` assumes that the supervisor's thread goes on
(its loop sleeps and repeats, `fleet.py` 1275-1282) and that a worker's heartbeat
loop, its dead-man and its wait for the release go on (asyncio tasks of a live
process; `managed.py` 311-356, 433-442). `BeatHeard` is fair because a heartbeat
is sent every interval and faults are bounded. Nothing is assumed of claims,
warm-up, the load or the operator, and of time only in `FleetFinishes`, as its
premise. `RunControl!FairSpec` assumes the launch, the thread and each handler
finish (they are straight-line code) and that an unpaused or stopped load ends
(`EndLoad`); nobody has to resume a paused run. `SchedulerFairness` says that the
event loop serves what is ready and that time goes on: no search has to end, no
pause has to be lifted, and a load still ends, by the pause budget and the drain
budget (`scheduler.py` 1126). `SeriesFairness` is the heartbeat loop again
(`managed.py` 311-356); `PublisherFairness` that the publisher's and the
handlers' threads run, faults being bounded. `MCParts` assumes no fairness.

## Findings

Five runs end in a violation, each of one statement made in the repository:

- `MergeCoversEverySlot`, "Every slot is done or lost: merge" (`fleet.py` 1117).
  The merge reads the leases after the watch's last commit; a heartbeat or a
  ready of a worker just declared lost restores its lease in between, and the
  result counts the slot as neither merged nor lost.
- `StopSticks`, "a claimed or ready worker hears "stop" on its next heartbeat"
  (`fleet.py` 1333-1334). A handler that read the run before the stop commits
  "releasing" or "running" over "draining".
- `ControlIsApplied`, "recorded on the run and applied by the runner as soon as
  the scheduler is built" (`runcontrol.py` 46-49). A pause that found no
  scheduler and commits after the thread read `paused_at` is never applied.
- `TogetherBound`, "Runs in flight at once, in-process and fleet together"
  (`README.md` 446, `REG_MAX_CONCURRENT_RUNS`). In-process launches do not count
  fleets, and a fleet registers outside the critical section that counted.
- `LeftBehindAreSwept`, "Destroy worker groups left behind by a control plane
  that died mid-run" (`fleet.py` 1425-1426). The boot marks rows failed before it
  looks for rows in flight that have groups.
The atomicity matters in the second: FleetLease, whose handlers are atomic, keeps
`ImplementsSlotClaims`, in which a fleet that drains is never started again;
FleetRows shows that this rests on that atomicity.

The modules below define further statements of the repository that their
component does not keep; their comments say that they do not hold. To see the
trace of one, replace the INVARIANTS and PROPERTIES of `Progress.cfg` or
`Parts.cfg` by `INVARIANT` and its name (`PROPERTY` for `SharedCopyIsCurrent`; for `LagIsLateness`, with `TickS = 2`
and a plan of the closed model whose `late` is 1 and whose duration is 8).
`PROJECT.json` quotes the line each contradicts.

| Module | Definition | What happens instead |
|---|---|---|
| Scheduler | `LagIsLateness` | lateness of part of a tick adds up over the ticks |
| | `PauseIsNotLateness` | a pause inside a paced iteration makes the next one late |
| Publisher | `SharedCopyIsCurrent` | a put that raised and was done leaves `synced` behind the copy; an edit taken back finds nothing to push |
| | `FailedBootKeepsTheCopy` | after a boot pull that failed, the empty document is pushed |
| | `SkippedRowsAreKept` | a row is no longer carried before the pull that lands it commits; the document read in between lacks it |
| | `BaselinesNameArchivedRuns` | a run can be a baseline before it is old enough to be archived |
| | `DeletedRunsStayDeleted` | a run deleted while it is being archived comes back |
| SearchJobs | `AnsweredIsFiled` | a search cancelled while it deletes its job is not recorded |
| | `RefusedLoginIsNotRepeated` | each request that waited for a refused login logs in again |
| BrowserPages | `FirstPanelHasData` | another page's search, or none overheard yet, ends the wait |
| | `SettledIsFinished` | the deadline settles a page too |
| TargetGuard | `SpikeIsNotEvidence` | one busy interval is in several readings in a row |
| | `SkipsAreTheRuns` | skips before the run leave the window as the run's enter it |
| | `BlindGuardIsReported` | a count over what cannot be read is 0, a reading |
| SavedSearches | `AnyExportIsTheSameLoad` | a final backslash swallows the next line; one name, one stanza |
| | `TargetWritersNeedLeave` | a step dispatched by name runs the target's text, which nobody asks for side effects |
| | `ReplayableIsReplayed` | a range that is empty at noon is left out for all day |
| Eviction | `EvictionsExclude` | a waiter that is woken and an evictor that found the lock free both take it, on two loops |
| | `EvictionIsNeverFatal` | the second of two inside cannot release the lock; if it leaves because its run is over, the error swallows the cancellation, and the run waits for its evictor for ever |
| | `OneEvictionAtATime` | the eviction before a run takes no lock (`EvictionsExclude` is about those that do) |
| | `RunsAreTold` | a run that starts while the button waits is not told |
| | `DownloadsWereFetched` | readings by two routes or of fewer peers are compared all the same |
| Verdict | `BareGateIsTruth` | a bare metric is compared with 1 |
| Library | `RenamesKeepHistory` | of three renames that overlap, one removes as old what another put back |
| | `RefusedKeepsTheOld` | an upload that is refused has removed what it replaces |
| | `DeletedStaysOut` | the publish of an edit puts a deleted archive back |

Three properties of the passing runs name an exception the code makes:
`RecordsAreCounted` sets aside the batch the background loop was posting when
`close` cancelled it; `NothingIsForgotten` the groups whose create or destroy
lost its answer, or whose secret's removal was refused (nothing in the code looks
for them again); `LoadIsDealtOut` a mixed closed run with fewer users than
engines, which gives each engine one.

Observations no document of the code speaks of: the skew of a scheduled search
may end, and the search start, during a pause; a pause before T0 lengthens the
run; an eviction that failed still starts an epoch, and one that ends after its
run leaves an epoch in the manager's table; two edits of one scenario overwrite
each other; browser arrivals of the open model each open a context of their own.

## The proofs

`FleetLeaseProofs` proves `Spec => []TypeOK`, one lemma per group of actions.

Its second part proves `ReportFromHolder` and `HoldersAgree`. Neither is
inductive: whether a report that arrives is its holder's depends on what the
worker and the calls in flight believe. The inductive invariant `Fencing` adds
`Fenced` for every worker that lives and every call still in flight: its id was
issued, is below `nextId`, and a lease that carries that id is the lease of its
slot and held by its worker; and that leases and workers carry distinct ids.
Each handler is first reduced to what it does to the ids (`KeepsOwners`, or
`Issues` for a claim); the reduction shows that an id once fenced stays fenced,
because new ids only grow, and every other handler compares ids before it writes.
The theorems hold for every set of slots and workers, hints, clocks and bounds
that satisfy the assumptions named in `FleetLease`; the bounds limit the
behaviours, not the argument. Time plays no part: the fence holds whatever lapses.

Its third part proves what the start of a fleet promises and the
refinement. `ReleaseInv` ties a worker to the run row: whoever was told of the
release has the row's T0, and whoever is under load was told. From it follow
`StartsAtT0` and, step by step, `ReleaseIsWhole`: the only steps that set T0 are
`evaluate_release` in a handler or a tick, and both look at the leases they leave.
`ClaimingHoldsOne` needs `ClaimingInv`: of a worker that is still claiming nothing
is in flight but claims (`OnlyClaims`), so that no heartbeat of its own can bring a
lost lease back beside the one it was granted, and a repeated claim finds the live
lease in its name (`OneLive`) before it looks for an open slot. `LeasesImplementClaims` maps each
handler, tick and end of the supervisor to one action of `SlotClaims` or to a
stutter, with `Fencing` for the one case that needs it, a final report, which changes
the slot of the claim it names, and `FinishedOnce`: the run row is finished exactly
when the supervisor has written the result.

`FleetRowsProofs` proves both properties of the session model. What a session read
may be stale, so the invariant says what stays true of a reading: a run row that
has left provisioning does not return to it (`SeenOK`), an id a worker was given
stays on its lease until a tick loses the slot (`WorkerOK`, `Holds`), and a claim
that found a lease of its own names one it holds (`ClaimOK`). `ReadyFleetIsReleased`
needs no more of the other sessions: the one that writes the last ready re-reads
the leases after its own flush.

`RunControlProofs` has the handshake as its invariant: under load with the flag
set, the scheduler knows or a handler is about to tell it. `RunManagerProofs`
describes each run by itself (`RunOK`: where it is on its way, what the tables, the
process, the row and the cluster then hold), so a step of one run leaves the others
untouched; `InProcessBound`, the half of the limit that does hold, then follows from
the critical section that counts.

`ProgressProofs`: for the emitter and the drivers a conservation law (each record
is in one place; each group that exists is recorded, at hand, or excused); for the
publisher `RowOK`, which follows a promised row from the copy through what is
carried, what a push has read and kept, and what the pull is landing; for the
scheduler that elapsed time never runs ahead of the time loaded (`LoadedOK`), and
that the timetable is as long as its arrivals to within one interval for each new
start (`Accounts`), by division with remainder.

`SeriesAddsUp` is a conservation law per slot, which each action keeps by itself, and a
law about sums: the aggregate rows are the sum of the slots'. A sum over a set is a
fold, defined by recursion over the subsets of `Slots`, and what it computes is proved by
induction all the same: from the library's theorem that a set with a well-founded order
has a least element in every subset come `LeastOfSome` and `AllNats` (a set of numbers
with 0 and each successor is all of them), from these that the recursion has a solution
(`PartialSums`) and that what passes from a set without an element to the set holds of
every set (`AllSubsets`). `SumsAdd` is the law the rows need. With the same lemmas
`SharesMakeUpLoad` shows that the shares `slot_load` tells the slots add up to the load
the operator asked for, for any load and any slots: as many slots have a number below
the remainder as the remainder says (`SlotsInOrder`, `FirstSlots`).

`PartsProofs`: the invariant of the eviction lock (`LockOK`) says that it is taken only
with somebody inside, and that while nobody has ever waited for it there is at most one
inside, who has it taken, and nobody between the test and the taking. `UncontendedLockExcludes` and `LockIsLetGo` are parts of it. The
second needs no exclusion: with several inside, the first to leave frees the lock, the others
find it free and change nothing, and one who takes it meanwhile is inside. `ProvenanceIsHonest`
keeps a ledger (`Ledger`): from what was cached at the first reading, the cache has come
by what was fetched and dropped since, and what was fetched though it had been there was
dropped before; names tell the entries apart when every indexer is read by one route
(`NamesTell`), so the readings tell what the ledger says (`ReadingsTell`). `OneLoginPerSession`
counts: a user whose session has aged out, or whose tab is not logged in, is owed a
login (`LoginsCount`). `OneLoginPerRefusal` counts as well: a login is called for when
the current key has aged out or a request that used it was refused (`CalledFor`), each
call for one was paid by a fault, and once a login is accepted nothing calls for another
(`LoginsArePaid`). `SearchesAreSettled` follows each search (`Tally`): nothing of it is
on the target until its dispatch is answered (`Unsent`), it is filed when it is over or
was cut off, and a job whose search is over is the harvest's or was given up; and the
course of the run (`CourseOK`): only the drain's deadline cuts a search off, and after
the drain only those are in flight.

For the library the invariant says what a rename counts on (`CommitOK`): its copy is
there when the rows are committed, and no other rename still has to remove it. Two
renames that could break that meet in one name, one on its way from it and one to it;
such a name is in use until a third rename takes it (`MeetOK`), and three are what
`Tangled` names. `RemoteCopiesFollow` follows one request through the bucket
(`DeletedOK`, `RenamedOK`); a step of another writes its own names only
(`StepIsLocal`), and a boot imports only what the bucket has.

`StopIsEarned` says of the whole history of readings what the code keeps in one counter:
the invariant (`CountsBreaches`) is that the last readings, as many as the counter says,
were over the limit and the one before them was not, and that a guard once sustained has
stopped the run. `TruthStays` shows that what a reading said does not change when the
target goes on, `OneRead` that one more reading keeps the count; `BaselineOK` ties
`baseline` to the first count of skips, so that the value a poll computes is the one the
history calls for; `ReasonsOK` follows the guards the poll has still to ask about.

`VerdictIsEarned` has two halves. The invariant (`VerdictInv`) says that a summary is the
merge of its run's reports and that the verdict that stands is what its two summaries
still say, neither run deleted since. The other half is about the operators: a latency
that was measured is the greatest of those the workers saw, and they saw some
(`MeasuredIsSeen`, `MaxOfFinite`), and a summary that is valid lost no slot
(`ValidIsApplied`).

`SavedSearchesProofs` proves both properties of the saved searches from one invariant
(`SavedInv`): the file is a sequence of lines, the scenario is what some selection loads
from it, the step last launched is one of the scenario's, and a file that was exported is
what the writer makes of a list the target gave. `WritersNeedLeave` needs of the parser
only that it returns a sequence: what is bound to a step or taken from the file is one of
its searches, and is blocked or left out when it writes and nobody gave leave
(`StepsMayLaunch`); a step that only names a search of the target has no text of the file's,
and is dispatched by that name. It says no more than the code keeps:
`TargetWritersNeedLeave` does not hold. `ExportIsTheSameLoad` needs what the parser makes of what the writer
wrote. Lines are told apart by what they say so far (`Tells`): a value's lines, each but
the last going on, are read back as that value (`ValueIsRead`), a stanza's attributes are
told one after the other (`WrittenGrows`, `StanzaIsTold`) and are the search's
(`SearchIsBack`), and one stanza more is one search more (`OneMore`), by induction over
the stanzas (`AllAreRead`). `KeptAll` and `StanzasAreAll` are where distinct names are
used, `Clean` where no line ends in a backslash.

`FleetLoadProofs`, of the load going out: the invariant (`PlanKept`) says that each worker
runs the share it was launched with or its slot's share of some total that was asked for.
That the shares add up is arithmetic: the quotas of `_deal` add up to the total because as
many engines are ahead as there is a remainder (`DealAddsUp`), the even shares of one
group likewise (`ClosedBetween`, while some of its workers have heard of a change and some
have not), and rounded rates are within a half for each worker (`OpenBetween`,
`TwoRates`). `GroupIs` shows that the plan never raises a worker's share to one user but
where the property says so, and `OneFires` that each scheduled search falls to one slot.

Of the latencies coming back: the invariant (`SketchInv`) splits what was recorded into
what each worker still holds and what was shipped, and says that each sketch is the one of
its part (`Sketches`: buckets, count, sum and extremes), and that the parts add up.
`RecordedIs` is one value more, `MergeIs` one sketch added to another; both rest on sums
that change at one point (`SumRises`) and add up point by point (`SumAdds`). The bucket
arithmetic is shown from the definition of the powers of two (`PowersAre`): every value
has one shift that leaves its mantissa (`ShiftExists`), lies in its bucket, whose width is
at most its share of it (`BucketHolds`), and greater values are in no lower buckets
(`BucketsInOrder`). So the bucket a percentile is read from is the exact percentile's
(`BucketOfExact`), and keeping its midpoint between the extremes takes it no further away
(`BetweenIsNear`).

Assumptions. Each theorem assumes what its module names beside its constants and
nothing else. `PublisherAssumption` keeps names, versions and runs apart and says that
a run this instance has yet to make is not in the archive; `DriversAssumption` says that a
fleet's groups are distinct, `PlansAssumption` that a load has the types the
scenario schema gives it; `SearchJobsAssumption` and the one of `Eviction` that
the names for "nobody" and for the console's button are no search's and no run's, and
that settings and occasions are records of their types; `LibraryAssumption` that stories
are, that the absent and the empty directory are no versions, and that the scenario of
the run rows is in the library when a story starts; `GuardAssumption` that the lookback and the
streak are positive and situations records of their type; `VerdictAssumption` that a report
is a finite document whose latencies are natural numbers and that a gate's amount is a
number, `SeriesAssumption` that slots are numbers and there is one. `SavedSearchesAssumption` says that hours divide days
as they do, that files and lists are sequences, and that a search a target lists has no
blank lines at its end: `normalise_spl` strips them from what is dispatched, and the
parser from what is read. `FleetPlanAssumption` says that a scenario has a persona, each
persona engines and a weight, and that figures are natural numbers (the schema's bounds,
fractions of a rate left out); `HistogramAssumption` that the workers are finitely many and
the latencies below the top of the last octave. TLC evaluates all of them in the runs.

Three proofs failed for a reason: the properties were wrong. A row the boot pull
found can leave the copy while a later pull lands it: `BootRowsAreKept` says so now,
and `SkippedRowsAreKept` is a finding. Each time the timetable starts again at now
it leaves out a fraction of an interval, and with a ramp the intervals differ:
`ArrivalsAreAccounted` counts those starts and is about loads without a ramp.
`HistoryFollows` held of the two requests the run had, and not of three renames, a to
b, a to c and b to a: the last puts a back while another has still to remove it. It
names that case now, `RenamesKeepHistory` is a finding, and the run has three renames.
A fourth proof asked for a condition: `ExportIsTheSameLoad` did not hold of a saved search
called "default", whose stanza is everyone's defaults.

What stays with TLC is liveness (`ReleaseReaches`, `FleetFinishes`, `StopEndsRun`,
`RunEnds`, `ControlReachesWorkers`, `CopyCatchesUp`): fairness and ENABLED are beyond
TLAPS here. Every invariant and every action property the passing runs check, and the
refinement, are theorems; `UncontendedLockExcludes` is one besides, which TLC finds to hold
in the instance of `Parts.cfg`.

No module of this project declares a RECURSIVE operator.

## Not modelled

- Failures of the database inside the failure and cleanup handlers (`_finish`,
  `_finish_failed`, `_destroy_quietly`): a run whose cleanup cannot write stays
  in the tables or in flight until the next boot.
- A report with an empty summary, which the code neither merges nor counts; the
  time-dependent parts of a summary (windows, per-engine sections).
- The worker's own clock beside the control plane's: how long a partitioned
  worker goes on loading.
- The fence and the figures in one model: `Series` gives a slot another worker
  but has no lease ids; `FleetLease` has them and carries no figures.
- Which persona and step an iteration takes, parameter draws, and the corpus: a
  random choice over data. The YAML's validation and the lint's messages.
- Two live instances of the control plane over one bucket, and the restore of a
  document by upload: an earlier instance is what it left in the bucket.
- Built-in scenarios, the export of an archive, and the harvest of searches from
  a target beyond the entries it lists.
- A launch that races a rename of its scenario, and a removal of the old directory that
  fails in part (see `Library` above).
- Two requests of the evict button at once, and two loops that make the lock's queue at the
  same moment, one overwriting the other's: `Join` makes the queue and tests it in one step.
- Page actions other than loading a dashboard; resource figures.
- `list_run_ids` and `refs_for_run` of the drivers, which nothing calls.
- The system-under-test correlation, certificate trust, authentication, audit,
  console, CLI, schemas, tools and deployment: I/O, rendering or validation
  without an order of their own to get wrong. `PROJECT.json` says so for each.

## Plan

Done: all modules above. In order of importance:

1. A session model of SQLite for the watch's tick in `FleetRows`, to settle
   whether a tick can write "lost" over a report.
2. Calls of a finished run (`agent.py`'s refusals) and the stop before the
   manager knows the run, in `FleetRows` and `RunControl`.
3. Lease ids in `Series`; two live instances in `Publisher`; the dead-man's clock.

## Running

```
tlc -workers 2 -config FleetLeaseSafety.cfg MCFleetLease.tla
tlc -workers 2 -config Progress.cfg MCProgress.tla
tlc -workers 2 -config Parts.cfg MCParts.tla
tlapm FleetLeaseProofs.tla
tlapm FleetLoadProofs.tla
tlapm ProgressProofs.tla
tlapm PartsProofs.tla
```
