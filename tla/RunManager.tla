----------------------------- MODULE RunManager -----------------------------
(***************************************************************************)
(* Every run of a control plane, from create_run to its end, and across    *)
(* crashes: admission against the limit and the manager's tables           *)
(* (runner.py start, _start_fleet), the worker groups a fleet's supervisor *)
(* creates, records and destroys (fleet.py _supervise, _destroy_quietly),  *)
(* and what the next boot does with the rows it finds (app.py,             *)
(* reconcile_at_boot, reconcile_fleets_at_boot).  Launches are request     *)
(* handlers on a thread pool, so they interleave.  The rows and the        *)
(* cluster outlive the process; its tables, threads and refs do not.       *)
(***************************************************************************)
EXTENDS Integers, FiniteSets

CONSTANTS
    Runs,
    Fleet,      \* those of Runs launched on a fleet
    Groups,     \* worker groups of a fleet run's plan
    Max,        \* REG_MAX_CONCURRENT_RUNS
    MaxCrashes  \* bound: crashes

ASSUME ManagerAssumption ==
    /\ IsFiniteSet(Runs) /\ Fleet \subseteq Runs
    /\ IsFiniteSet(Groups) /\ Groups # {}
    /\ Max \in Nat \ {0} /\ MaxCrashes \in Nat

VARIABLES
    process,        \* down, or how far the boot has come
    row,            \* per run: state, error, and driver_refs_json as a set of groups
    stage,          \* per run: how far its launch, and then its thread, has come
    active, fleets, \* manager._active and manager._fleets
    held,           \* per run: the refs its supervisor holds
    cluster,        \* per run: the groups that exist
    crashes

tables == <<active, fleets>>
vars   == <<process, row, stage, tables, held, cluster, crashes>>

InFlight  == {"pending", "running"}
Launching == {"created", "counted", "planned"}
Enrolled  == {"registered", "running", "finished", "creating", "recording",
              "watching", "destroying", "clearing", "forgetting"}
Stages    == {"none", "over", "dead"} \cup Launching \cup Enrolled

Serving == process = "serving"
Moves(r, from, to) == stage[r] = from /\ stage' = [stage EXCEPT ![r] = to]
Ends(r, state, error) == row' = [row EXCEPT ![r].state = state, ![r].error = error]

-----------------------------------------------------------------------------
(* create_run and RunManager.start: the row is committed before the count.  *)

CreateRow(r) ==
    /\ Serving
    /\ Moves(r, "none", "created")
    /\ row' = [row EXCEPT ![r].state = "pending"]
    /\ UNCHANGED <<process, tables, held, cluster, crashes>>

\* Too many in flight, a scenario that does not lint, a plan that cannot be made.
Reject(r) ==
    /\ Moves(r, "created", "over") \/ Moves(r, "counted", "over")
    /\ Ends(r, "failed", "rejected")
    /\ UNCHANGED <<process, tables, held, cluster, crashes>>

\* In-process: counted and registered under one lock, then started.
HasRoom(r) == Cardinality(active) < Max

RegisterActive(r) ==
    /\ r \notin Fleet /\ HasRoom(r)
    /\ Moves(r, "created", "registered")
    /\ active' = active \cup {r}
    /\ UNCHANGED <<process, row, fleets, held, cluster, crashes>>

StartThread(r) ==
    /\ r \notin Fleet
    /\ Moves(r, "registered", "running")
    /\ UNCHANGED <<process, row, tables, held, cluster, crashes>>

\* A fleet: counted under the lock, planned and seeded outside it, registered
\* under it, and started last.
CountFleet(r) ==
    /\ r \in Fleet /\ Cardinality(active) + Cardinality(fleets) < Max
    /\ Moves(r, "created", "counted")
    /\ UNCHANGED <<process, row, tables, held, cluster, crashes>>

PlanFleet(r) ==
    /\ Moves(r, "counted", "planned")
    /\ UNCHANGED <<process, row, tables, held, cluster, crashes>>

StartsFirst(r) ==
    \/ /\ Moves(r, "planned", "creating")
       /\ UNCHANGED fleets
    \/ /\ stage[r] \in {"creating", "over"} /\ r \notin fleets
       /\ fleets' = fleets \cup {r}
       /\ UNCHANGED stage

Enlists(r) == Moves(r, "planned", "registered") /\ fleets' = fleets \cup {r}

RegisterFleet(r) ==
    /\ r \in Fleet /\ Enlists(r)
    /\ UNCHANGED <<process, row, active, held, cluster, crashes>>

StartSupervisor(r) ==
    /\ r \in Fleet
    /\ Moves(r, "registered", "creating")
    /\ UNCHANGED <<process, row, tables, held, cluster, crashes>>

-----------------------------------------------------------------------------
(* The threads. *)

\* The run thread says it is running, or a fleet's first worker does.
SetRunning(r) ==
    /\ stage[r] \in {"running", "watching"} /\ row[r].state = "pending"
    /\ row' = [row EXCEPT ![r].state = "running"]
    /\ UNCHANGED <<process, stage, tables, held, cluster, crashes>>

\* _finish, whatever happened.
FinishThread(r) ==
    /\ Moves(r, "running", "finished")
    /\ \E state \in {"completed", "failed"} : Ends(r, state, "none")
    /\ UNCHANGED <<process, tables, held, cluster, crashes>>

\* _thread_main's last finally.
PopActive(r) ==
    /\ Moves(r, "finished", "over")
    /\ active' = active \ {r}
    /\ UNCHANGED <<process, row, fleets, held, cluster, crashes>>

\* driver.create has returned; the ref is held and not yet on the row.
CreateGroup(r) ==
    /\ Moves(r, "creating", "recording")
    /\ \E g \in Groups \ held[r] :
        /\ cluster' = [cluster EXCEPT ![r] = @ \cup {g}]
        /\ held' = [held EXCEPT ![r] = @ \cup {g}]
    /\ UNCHANGED <<process, row, tables, crashes>>

RecordsAtTheEnd(r) ==
    IF held[r] = Groups THEN [row EXCEPT ![r].refs = held[r]] ELSE row
RecordedRefs(r) == [row EXCEPT ![r].refs = held[r]]

\* "Persisted as each group is created."
RecordRefs(r) ==
    /\ Moves(r, "recording", IF held[r] = Groups THEN "watching" ELSE "creating")
    /\ row' = RecordedRefs(r)
    /\ UNCHANGED <<process, tables, held, cluster, crashes>>

FinishFleet(r) ==
    /\ Moves(r, "watching", "destroying")
    /\ \E state \in {"completed", "failed"} : Ends(r, state, "none")
    /\ UNCHANGED <<process, tables, held, cluster, crashes>>

\* The driver, the target or the database fails: recorded on the run.
SupervisorFails(r) ==
    /\ stage[r] \in {"creating", "recording", "watching"}
    /\ stage' = [stage EXCEPT ![r] = "destroying"]
    /\ Ends(r, "failed", "supervisor")
    /\ UNCHANGED <<process, tables, held, cluster, crashes>>

\* _destroy_quietly: every group is tried ...
DestroyGroups(r) ==
    /\ Moves(r, "destroying", "clearing")
    /\ \E kept \in SUBSET held[r] :
        /\ cluster' = [cluster EXCEPT ![r] = @ \ (held[r] \ kept)]
        /\ held' = [held EXCEPT ![r] = kept]
    /\ UNCHANGED <<process, row, tables, crashes>>

\* ... and what could not be removed stays on the row.
ForgetsAll(r) == {}
Remaining(r) == held[r]

ClearRefs(r) ==
    /\ Moves(r, "clearing", "forgetting")
    /\ row' = [row EXCEPT ![r].refs = Remaining(r)]
    /\ held' = [held EXCEPT ![r] = {}]
    /\ UNCHANGED <<process, tables, cluster, crashes>>

Forget(r) ==
    /\ Moves(r, "forgetting", "over")
    /\ fleets' = fleets \ {r}
    /\ UNCHANGED <<process, row, active, held, cluster, crashes>>

-----------------------------------------------------------------------------
(* The process. *)

Crash ==
    /\ process # "down" /\ crashes < MaxCrashes
    /\ process' = "down" /\ crashes' = crashes + 1
    /\ stage' = [r \in Runs |-> IF stage[r] \in {"none", "over"} THEN stage[r] ELSE "dead"]
    /\ active' = {} /\ fleets' = {}
    /\ held' = [r \in Runs |-> {}]
    /\ UNCHANGED <<row, cluster>>

Restart ==
    /\ process = "down"
    /\ process' = "marking"
    /\ UNCHANGED <<row, stage, tables, held, cluster, crashes>>

MarkedState == "failed"
RunningOnly == {"running"}
Unfinished == InFlight

\* reconcile_at_boot: a row still in flight is of a run that no longer exists.
MarkRuns ==
    /\ process = "marking" /\ process' = "sweeping"
    /\ row' = [r \in Runs |-> IF row[r].state \in Unfinished
                              THEN [row[r] EXCEPT !.state = MarkedState,
                                                  !.error = "restarted"]
                              ELSE row[r]]
    /\ UNCHANGED <<stage, tables, held, cluster, crashes>>

\* reconcile_fleets_at_boot: rows in flight that hold refs; a driver that refuses
\* is logged and the refs are dropped all the same.
Swept == {r \in Runs : row[r].state \in InFlight /\ row[r].refs # {}}

SweepGroups ==
    /\ process = "sweeping" /\ process' = "serving"
    /\ \E left \in [Swept -> SUBSET Groups] :
        cluster' = [r \in Runs |-> IF r \in Swept
                                   THEN cluster[r] \ (row[r].refs \ left[r])
                                   ELSE cluster[r]]
    /\ row' = [r \in Runs |-> IF r \in Swept THEN [row[r] EXCEPT !.refs = {}]
                              ELSE row[r]]
    /\ UNCHANGED <<stage, tables, held, crashes>>

-----------------------------------------------------------------------------

Init ==
    /\ process = "serving"
    /\ row = [r \in Runs |-> [state |-> "none", error |-> "none", refs |-> {}]]
    /\ stage = [r \in Runs |-> "none"]
    /\ active = {} /\ fleets = {}
    /\ held = [r \in Runs |-> {}] /\ cluster = [r \in Runs |-> {}]
    /\ crashes = 0

LaunchStep(r) ==
    \/ CreateRow(r) \/ Reject(r) \/ RegisterActive(r) \/ StartThread(r)
    \/ CountFleet(r) \/ PlanFleet(r) \/ RegisterFleet(r) \/ StartSupervisor(r)

ThreadStep(r) ==
    \/ SetRunning(r) \/ FinishThread(r) \/ PopActive(r)
    \/ CreateGroup(r) \/ RecordRefs(r) \/ FinishFleet(r) \/ SupervisorFails(r)
    \/ DestroyGroups(r) \/ ClearRefs(r) \/ Forget(r)

Next ==
    \/ \E r \in Runs : LaunchStep(r) \/ ThreadStep(r)
    \/ Crash \/ Restart \/ MarkRuns \/ SweepGroups

Spec == Init /\ [][Next]_vars

-----------------------------------------------------------------------------
(* Correctness. *)

\* "A registration after that would leave a ghost entry holding a concurrency
\* slot for the process life" (runner.py _start_fleet): a run that is over, or was
\* never registered, holds no slot, and one that is under way holds its own.
NoGhosts ==
    \A r \in Runs : r \in active \cup fleets <=> stage[r] \in Enrolled

\* "A control plane that dies between two groups leaves nothing the boot sweep
\* cannot find" (fleet.py _supervise): whenever the process dies, the row knows
\* every group of the run but at most the one being created.
OneUnrecorded == \A r \in Runs : Cardinality(cluster[r] \ row[r].refs) <= 1

\* "Left alone it polls forever in the UI and refuses deletion" (runner.py
\* reconcile_at_boot): a control plane that serves has a handler or a thread at
\* work on every run whose row is in flight.
InFlightIsSupervised ==
    Serving => \A r \in Runs : row[r].state \in InFlight =>
        stage[r] \in Launching \cup Enrolled

\* "A finished run holds no refs ... only what could not be removed stays
\* recorded" (fleet.py _destroy_quietly): a run that ended in the process that
\* ran it records exactly the groups that are still there.
FinishedRecordsStrays ==
    \A r \in Runs : stage[r] = "over" => row[r].refs = cluster[r]

\* "Runs in flight at once, in-process and fleet together" (README.md,
\* REG_MAX_CONCURRENT_RUNS).
TogetherBound == Cardinality(active) + Cardinality(fleets) <= Max

\* "Destroy worker groups left behind by a control plane that died mid-run"
\* (fleet.py reconcile_fleets_at_boot): once the boot is over, a run the dead
\* process left in flight has no group that its row recorded.
LeftBehindAreSwept ==
    Serving => \A r \in Runs : row[r].error = "restarted" => row[r].refs = {}

=============================================================================
