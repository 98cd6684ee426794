-------------------------- MODULE RunManagerProofs --------------------------
(***************************************************************************)
(* What holds of RunManager for any number of runs, groups and crashes and *)
(* for any limit: its tables hold the runs under way and no others, and    *)
(* the worker groups of a run are those its row records, but for one.      *)
(***************************************************************************)
EXTENDS RunManager, FiniteSetTheorems, TLAPS

States  == {"none", "completed", "failed"} \cup InFlight
Errors  == {"none", "rejected", "supervisor", "restarted"}
RowSet  == [state : States, error : Errors, refs : SUBSET Groups]

TypeOK ==
    /\ process \in {"down", "marking", "sweeping", "serving"}
    /\ row \in [Runs -> RowSet]
    /\ stage \in [Runs -> Stages]
    /\ active \in SUBSET Runs /\ fleets \in SUBSET Runs
    /\ held \in [Runs -> SUBSET Groups]
    /\ cluster \in [Runs -> SUBSET Groups]
    /\ crashes \in Nat

-----------------------------------------------------------------------------
(* The inductive invariant, run by run. *)

ThreadOnly == {"running", "finished"}
FleetOnly  == {"counted", "planned", "creating", "recording", "watching",
               "destroying", "clearing", "forgetting"}

\* In-process runs and fleets go their own ways.
WayOK(r) ==
    /\ stage[r] \in ThreadOnly => r \notin Fleet
    /\ stage[r] \in FleetOnly => r \in Fleet

\* A run that is enrolled is in its own table, and no other run is in either.
TableOK(r) ==
    /\ r \in active <=> stage[r] \in Enrolled /\ r \notin Fleet
    /\ r \in fleets <=> stage[r] \in Enrolled /\ r \in Fleet

\* Nothing of a run that was under way survives the process but what it left.
ProcessOK(r) == ~Serving => stage[r] \in {"none", "over", "dead"}

\* Who has ended the row: the last stages of a run, and the boot.
Ended == {"none", "finished", "destroying", "clearing", "forgetting", "over"}

StateOK(r) ==
    /\ stage[r] \in Ended => row[r].state \notin InFlight
    /\ process = "sweeping" \/ (Serving /\ stage[r] = "dead")
            => row[r].state \notin InFlight

\* The groups that exist, those the supervisor holds and those on the row.
AtMostOne(S) == \A g, h \in S : g = h

Same(r)    == held[r] = cluster[r] /\ row[r].refs = cluster[r]
Nothing(r) == held[r] = {} /\ cluster[r] = {} /\ row[r].refs = {}
AllButOne(r) == AtMostOne(cluster[r] \ row[r].refs)

GroupsOK(r) ==
    /\ stage[r] \in {"none"} \cup Launching \cup {"registered"} \cup ThreadOnly
            => Nothing(r)
    /\ stage[r] \in {"creating", "watching"} => Same(r)
    /\ stage[r] \in {"recording", "destroying", "clearing"} => held[r] = cluster[r]
    /\ stage[r] \in {"forgetting", "over"} => held[r] = {} /\ row[r].refs = cluster[r]
    /\ stage[r] = "dead" => held[r] = {}
    /\ AllButOne(r)

RunOK(r) ==
    WayOK(r) /\ TableOK(r) /\ ProcessOK(r) /\ StateOK(r) /\ GroupsOK(r)

ManagerInv == TypeOK /\ \A r \in Runs : RunOK(r)

-----------------------------------------------------------------------------
(* The steps of one run leave every other run as it is. *)

Untouched(p) ==
    /\ row'[p] = row[p] /\ stage'[p] = stage[p]
    /\ held'[p] = held[p] /\ cluster'[p] = cluster[p]
    /\ p \in active' <=> p \in active
    /\ p \in fleets' <=> p \in fleets

\* A run that a step does not touch stays right.
LEMMA UntouchedOK ==
    ASSUME NEW p \in Runs, RunOK(p), Untouched(p), process' = process
    PROVE  RunOK(p)'
<1>1. WayOK(p)' /\ TableOK(p)' /\ ProcessOK(p)' /\ StateOK(p)'
  BY DEF RunOK, Untouched, WayOK, TableOK, ProcessOK, StateOK, Serving
<1>2. GroupsOK(p)'
  BY DEF RunOK, Untouched, GroupsOK, Nothing, Same, AllButOne, AtMostOne
<1> QED
  BY <1>1, <1>2 DEF RunOK

\* Ending a row writes its state and its error, and keeps its refs.
LEMMA EndsRow ==
    ASSUME TypeOK, NEW r \in Runs, NEW state \in States, NEW error \in Errors,
           Ends(r, state, error)
    PROVE  /\ row' \in [Runs -> RowSet]
           /\ row'[r].state = state /\ row'[r].refs = row[r].refs
           /\ \A p \in Runs \ {r} : row'[p] = row[p]
<1>1. row[r] \in RowSet
  BY DEF TypeOK
<1>2. row' = [row EXCEPT ![r] = [row[r] EXCEPT !.state = state, !.error = error]]
  BY <1>1 DEF Ends, TypeOK
<1>3. [row[r] EXCEPT !.state = state, !.error = error] \in RowSet
  BY <1>1 DEF RowSet
<1> QED
  BY <1>1, <1>2, <1>3 DEF TypeOK, RowSet

\* Every step of a launch keeps the invariant.
LEMMA LaunchKeeps ==
    ASSUME ManagerInv, NEW r \in Runs, LaunchStep(r)
    PROVE  ManagerInv'
<1> USE DEF ManagerInv, Moves, Ends, tables
<1>1. CASE CreateRow(r)
  <2>1. TypeOK'
    BY <1>1 DEF CreateRow, TypeOK, RowSet, States, Errors, Stages, Launching, Enrolled, InFlight
  <2>2. \A p \in Runs \ {r} : Untouched(p)
    BY <1>1 DEF CreateRow, TypeOK, Untouched
  <2>3. RunOK(r)'
    BY <1>1 DEF CreateRow, TypeOK, RunOK, WayOK, TableOK, ProcessOK, StateOK, GroupsOK,
       Nothing, Same, AllButOne, AtMostOne, Serving, InFlight, Launching, Enrolled,
       Ended, ThreadOnly, FleetOnly, RowSet
  <2> QED
    BY <1>1, <2>1, <2>2, <2>3, UntouchedOK DEF CreateRow
<1>2. CASE Reject(r)
  <2>1. /\ row' \in [Runs -> RowSet]
        /\ row'[r].state = "failed" /\ row'[r].refs = row[r].refs
        /\ \A p \in Runs \ {r} : row'[p] = row[p]
    BY <1>2, EndsRow DEF Reject, States, Errors
  <2>2. TypeOK'
    BY <1>2, <2>1 DEF Reject, TypeOK, Stages, Launching, Enrolled
  <2>3. \A p \in Runs \ {r} : Untouched(p)
    BY <1>2, <2>1 DEF Reject, TypeOK, Untouched
  <2>4. WayOK(r)' /\ TableOK(r)' /\ ProcessOK(r)' /\ StateOK(r)'
    BY <1>2, <2>1 DEF Reject, TypeOK, RunOK, WayOK, TableOK, ProcessOK, StateOK,
       Serving, InFlight, Launching, Enrolled, Ended, ThreadOnly, FleetOnly
  <2>5. GroupsOK(r)'
    BY <1>2, <2>1 DEF Reject, TypeOK, RunOK, GroupsOK, Nothing, Same, AllButOne,
       AtMostOne, Launching, ThreadOnly
  <2> QED
    BY <1>2, <2>2, <2>3, <2>4, <2>5, UntouchedOK DEF Reject, RunOK
<1>3. CASE RegisterActive(r)
  <2>1. TypeOK'
    BY <1>3 DEF RegisterActive, TypeOK, RowSet, States, Errors, Stages, Launching, Enrolled, InFlight
  <2>2. \A p \in Runs \ {r} : Untouched(p)
    BY <1>3 DEF RegisterActive, TypeOK, Untouched
  <2>3. RunOK(r)'
    BY <1>3 DEF RegisterActive, TypeOK, RunOK, WayOK, TableOK, ProcessOK, StateOK, GroupsOK,
       Nothing, Same, AllButOne, AtMostOne, Serving, InFlight, Launching, Enrolled,
       Ended, ThreadOnly, FleetOnly, RowSet
  <2> QED
    BY <1>3, <2>1, <2>2, <2>3, UntouchedOK DEF RegisterActive
<1>4. CASE StartThread(r)
  <2>1. TypeOK'
    BY <1>4 DEF StartThread, TypeOK, RowSet, States, Errors, Stages, Launching, Enrolled, InFlight
  <2>2. \A p \in Runs \ {r} : Untouched(p)
    BY <1>4 DEF StartThread, TypeOK, Untouched
  <2>3. RunOK(r)'
    BY <1>4 DEF StartThread, TypeOK, RunOK, WayOK, TableOK, ProcessOK, StateOK, GroupsOK,
       Nothing, Same, AllButOne, AtMostOne, Serving, InFlight, Launching, Enrolled,
       Ended, ThreadOnly, FleetOnly, RowSet
  <2> QED
    BY <1>4, <2>1, <2>2, <2>3, UntouchedOK DEF StartThread
<1>5. CASE CountFleet(r)
  <2>1. TypeOK'
    BY <1>5 DEF CountFleet, TypeOK, RowSet, States, Errors, Stages, Launching, Enrolled, InFlight
  <2>2. \A p \in Runs \ {r} : Untouched(p)
    BY <1>5 DEF CountFleet, TypeOK, Untouched
  <2>3. RunOK(r)'
    BY <1>5 DEF CountFleet, TypeOK, RunOK, WayOK, TableOK, ProcessOK, StateOK, GroupsOK,
       Nothing, Same, AllButOne, AtMostOne, Serving, InFlight, Launching, Enrolled,
       Ended, ThreadOnly, FleetOnly, RowSet
  <2> QED
    BY <1>5, <2>1, <2>2, <2>3, UntouchedOK DEF CountFleet
<1>6. CASE PlanFleet(r)
  <2>1. TypeOK'
    BY <1>6 DEF PlanFleet, TypeOK, RowSet, States, Errors, Stages, Launching, Enrolled, InFlight
  <2>2. \A p \in Runs \ {r} : Untouched(p)
    BY <1>6 DEF PlanFleet, TypeOK, Untouched
  <2>3. RunOK(r)'
    BY <1>6 DEF PlanFleet, TypeOK, RunOK, WayOK, TableOK, ProcessOK, StateOK, GroupsOK,
       Nothing, Same, AllButOne, AtMostOne, Serving, InFlight, Launching, Enrolled,
       Ended, ThreadOnly, FleetOnly, RowSet
  <2> QED
    BY <1>6, <2>1, <2>2, <2>3, UntouchedOK DEF PlanFleet
<1>7. CASE RegisterFleet(r)
  <2>1. TypeOK'
    BY <1>7 DEF RegisterFleet, Enlists, TypeOK, RowSet, States, Errors, Stages, Launching, Enrolled, InFlight
  <2>2. \A p \in Runs \ {r} : Untouched(p)
    BY <1>7 DEF RegisterFleet, Enlists, TypeOK, Untouched
  <2>3. RunOK(r)'
    BY <1>7 DEF RegisterFleet, Enlists, TypeOK, RunOK, WayOK, TableOK, ProcessOK, StateOK, GroupsOK,
       Nothing, Same, AllButOne, AtMostOne, Serving, InFlight, Launching, Enrolled,
       Ended, ThreadOnly, FleetOnly, RowSet
  <2> QED
    BY <1>7, <2>1, <2>2, <2>3, UntouchedOK DEF RegisterFleet
<1>8. CASE StartSupervisor(r)
  <2>1. TypeOK'
    BY <1>8 DEF StartSupervisor, TypeOK, RowSet, States, Errors, Stages, Launching, Enrolled, InFlight
  <2>2. \A p \in Runs \ {r} : Untouched(p)
    BY <1>8 DEF StartSupervisor, TypeOK, Untouched
  <2>3. RunOK(r)'
    BY <1>8 DEF StartSupervisor, TypeOK, RunOK, WayOK, TableOK, ProcessOK, StateOK, GroupsOK,
       Nothing, Same, AllButOne, AtMostOne, Serving, InFlight, Launching, Enrolled,
       Ended, ThreadOnly, FleetOnly, RowSet
  <2> QED
    BY <1>8, <2>1, <2>2, <2>3, UntouchedOK DEF StartSupervisor
<1> QED
  BY <1>1, <1>2, <1>3, <1>4, <1>5, <1>6, <1>7, <1>8 DEF LaunchStep

\* Every step of a run's thread or supervisor keeps the invariant.
LEMMA ThreadKeeps ==
    ASSUME ManagerInv, NEW r \in Runs, ThreadStep(r)
    PROVE  ManagerInv'
<1> USE DEF ManagerInv, Moves, Ends, tables
<1>1. CASE SetRunning(r)
  <2>1. TypeOK'
    BY <1>1 DEF SetRunning, TypeOK, RowSet, States, Errors, Stages, Launching, Enrolled, InFlight
  <2>2. \A p \in Runs \ {r} : Untouched(p)
    BY <1>1 DEF SetRunning, TypeOK, Untouched
  <2>3. RunOK(r)'
    BY <1>1 DEF SetRunning, TypeOK, RunOK, WayOK, TableOK, ProcessOK, StateOK, GroupsOK,
       Nothing, Same, AllButOne, AtMostOne, Serving, InFlight, Launching, Enrolled,
       Ended, ThreadOnly, FleetOnly, RowSet
  <2> QED
    BY <1>1, <2>1, <2>2, <2>3, UntouchedOK DEF SetRunning
<1>2. CASE FinishThread(r)
  <2>1. /\ row' \in [Runs -> RowSet]
        /\ row'[r].state \in {"completed", "failed"} /\ row'[r].refs = row[r].refs
        /\ \A p \in Runs \ {r} : row'[p] = row[p]
    BY <1>2, EndsRow DEF FinishThread, States, Errors
  <2>2. TypeOK'
    BY <1>2, <2>1 DEF FinishThread, TypeOK, Stages, Launching, Enrolled
  <2>3. \A p \in Runs \ {r} : Untouched(p)
    BY <1>2, <2>1 DEF FinishThread, TypeOK, Untouched
  <2>4. WayOK(r)' /\ TableOK(r)' /\ ProcessOK(r)' /\ StateOK(r)'
    BY <1>2, <2>1 DEF FinishThread, TypeOK, RunOK, WayOK, TableOK, ProcessOK, StateOK,
       Serving, InFlight, Launching, Enrolled, Ended, ThreadOnly, FleetOnly
  <2>5. GroupsOK(r)'
    BY <1>2, <2>1 DEF FinishThread, TypeOK, RunOK, GroupsOK, Nothing, Same, AllButOne,
       AtMostOne, Launching, ThreadOnly
  <2> QED
    BY <1>2, <2>2, <2>3, <2>4, <2>5, UntouchedOK DEF FinishThread, RunOK
<1>3. CASE PopActive(r)
  <2>1. TypeOK'
    BY <1>3 DEF PopActive, TypeOK, RowSet, States, Errors, Stages, Launching, Enrolled, InFlight
  <2>2. \A p \in Runs \ {r} : Untouched(p)
    BY <1>3 DEF PopActive, TypeOK, Untouched
  <2>3. RunOK(r)'
    BY <1>3 DEF PopActive, TypeOK, RunOK, WayOK, TableOK, ProcessOK, StateOK, GroupsOK,
       Nothing, Same, AllButOne, AtMostOne, Serving, InFlight, Launching, Enrolled,
       Ended, ThreadOnly, FleetOnly, RowSet
  <2> QED
    BY <1>3, <2>1, <2>2, <2>3, UntouchedOK DEF PopActive
<1>4. CASE CreateGroup(r)
  <2>1. TypeOK'
    BY <1>4 DEF CreateGroup, TypeOK, RowSet, States, Errors, Stages, Launching, Enrolled, InFlight
  <2>2. \A p \in Runs \ {r} : Untouched(p)
    BY <1>4 DEF CreateGroup, TypeOK, Untouched
  <2>3. RunOK(r)'
    BY <1>4 DEF CreateGroup, TypeOK, RunOK, WayOK, TableOK, ProcessOK, StateOK, GroupsOK,
       Nothing, Same, AllButOne, AtMostOne, Serving, InFlight, Launching, Enrolled,
       Ended, ThreadOnly, FleetOnly, RowSet
  <2> QED
    BY <1>4, <2>1, <2>2, <2>3, UntouchedOK DEF CreateGroup
<1>5. CASE RecordRefs(r)
  <2>1. TypeOK'
    BY <1>5 DEF RecordRefs, RecordedRefs, TypeOK, RowSet, States, Errors, Stages, Launching, Enrolled, InFlight
  <2>2. \A p \in Runs \ {r} : Untouched(p)
    BY <1>5 DEF RecordRefs, RecordedRefs, TypeOK, Untouched
  <2>3. RunOK(r)'
    BY <1>5 DEF RecordRefs, RecordedRefs, TypeOK, RunOK, WayOK, TableOK, ProcessOK, StateOK, GroupsOK,
       Nothing, Same, AllButOne, AtMostOne, Serving, InFlight, Launching, Enrolled,
       Ended, ThreadOnly, FleetOnly, RowSet
  <2> QED
    BY <1>5, <2>1, <2>2, <2>3, UntouchedOK DEF RecordRefs
<1>6. CASE FinishFleet(r)
  <2>1. /\ row' \in [Runs -> RowSet]
        /\ row'[r].state \in {"completed", "failed"} /\ row'[r].refs = row[r].refs
        /\ \A p \in Runs \ {r} : row'[p] = row[p]
    BY <1>6, EndsRow DEF FinishFleet, States, Errors
  <2>2. TypeOK'
    BY <1>6, <2>1 DEF FinishFleet, TypeOK, Stages, Launching, Enrolled
  <2>3. \A p \in Runs \ {r} : Untouched(p)
    BY <1>6, <2>1 DEF FinishFleet, TypeOK, Untouched
  <2>4. WayOK(r)' /\ TableOK(r)' /\ ProcessOK(r)' /\ StateOK(r)'
    BY <1>6, <2>1 DEF FinishFleet, TypeOK, RunOK, WayOK, TableOK, ProcessOK, StateOK,
       Serving, InFlight, Launching, Enrolled, Ended, ThreadOnly, FleetOnly
  <2>5. GroupsOK(r)'
    BY <1>6, <2>1 DEF FinishFleet, TypeOK, RunOK, GroupsOK, Nothing, Same, AllButOne,
       AtMostOne, Launching, ThreadOnly
  <2> QED
    BY <1>6, <2>2, <2>3, <2>4, <2>5, UntouchedOK DEF FinishFleet, RunOK
<1>7. CASE SupervisorFails(r)
  <2>1. /\ row' \in [Runs -> RowSet]
        /\ row'[r].state = "failed" /\ row'[r].refs = row[r].refs
        /\ \A p \in Runs \ {r} : row'[p] = row[p]
    BY <1>7, EndsRow DEF SupervisorFails, States, Errors
  <2>2. TypeOK'
    BY <1>7, <2>1 DEF SupervisorFails, TypeOK, Stages, Launching, Enrolled
  <2>3. \A p \in Runs \ {r} : Untouched(p)
    BY <1>7, <2>1 DEF SupervisorFails, TypeOK, Untouched
  <2>4. WayOK(r)' /\ TableOK(r)' /\ ProcessOK(r)' /\ StateOK(r)'
    BY <1>7, <2>1 DEF SupervisorFails, TypeOK, RunOK, WayOK, TableOK, ProcessOK, StateOK,
       Serving, InFlight, Launching, Enrolled, Ended, ThreadOnly, FleetOnly
  <2>5. GroupsOK(r)'
    BY <1>7, <2>1 DEF SupervisorFails, TypeOK, RunOK, GroupsOK, Nothing, Same, AllButOne,
       AtMostOne, Launching, ThreadOnly
  <2> QED
    BY <1>7, <2>2, <2>3, <2>4, <2>5, UntouchedOK DEF SupervisorFails, RunOK
<1>8. CASE DestroyGroups(r)
  <2>1. TypeOK'
    BY <1>8 DEF DestroyGroups, TypeOK, RowSet, States, Errors, Stages, Launching, Enrolled, InFlight
  <2>2. \A p \in Runs \ {r} : Untouched(p)
    BY <1>8 DEF DestroyGroups, TypeOK, Untouched
  <2>3. RunOK(r)'
    BY <1>8 DEF DestroyGroups, TypeOK, RunOK, WayOK, TableOK, ProcessOK, StateOK, GroupsOK,
       Nothing, Same, AllButOne, AtMostOne, Serving, InFlight, Launching, Enrolled,
       Ended, ThreadOnly, FleetOnly, RowSet
  <2> QED
    BY <1>8, <2>1, <2>2, <2>3, UntouchedOK DEF DestroyGroups
<1>9. CASE ClearRefs(r)
  <2>1. TypeOK'
    BY <1>9 DEF ClearRefs, Remaining, TypeOK, RowSet, States, Errors, Stages, Launching, Enrolled, InFlight
  <2>2. \A p \in Runs \ {r} : Untouched(p)
    BY <1>9 DEF ClearRefs, Remaining, TypeOK, Untouched
  <2>3. RunOK(r)'
    BY <1>9 DEF ClearRefs, Remaining, TypeOK, RunOK, WayOK, TableOK, ProcessOK, StateOK, GroupsOK,
       Nothing, Same, AllButOne, AtMostOne, Serving, InFlight, Launching, Enrolled,
       Ended, ThreadOnly, FleetOnly, RowSet
  <2> QED
    BY <1>9, <2>1, <2>2, <2>3, UntouchedOK DEF ClearRefs
<1>10. CASE Forget(r)
  <2>1. TypeOK'
    BY <1>10 DEF Forget, TypeOK, RowSet, States, Errors, Stages, Launching, Enrolled, InFlight
  <2>2. \A p \in Runs \ {r} : Untouched(p)
    BY <1>10 DEF Forget, TypeOK, Untouched
  <2>3. RunOK(r)'
    BY <1>10 DEF Forget, TypeOK, RunOK, WayOK, TableOK, ProcessOK, StateOK, GroupsOK,
       Nothing, Same, AllButOne, AtMostOne, Serving, InFlight, Launching, Enrolled,
       Ended, ThreadOnly, FleetOnly, RowSet
  <2> QED
    BY <1>10, <2>1, <2>2, <2>3, UntouchedOK DEF Forget
<1> QED
  BY <1>1, <1>2, <1>3, <1>4, <1>5, <1>6, <1>7, <1>8, <1>9, <1>10 DEF ThreadStep

-----------------------------------------------------------------------------
(* The steps of the process. *)

\* A crash leaves a run that was under way dead, with whatever its row recorded.
LEMMA CrashKeeps ==
    ASSUME ManagerInv, Crash
    PROVE  ManagerInv'
<1> USE DEF ManagerInv, Crash
<1>1. TypeOK'
  BY DEF TypeOK, Stages
<1>2. ASSUME NEW r \in Runs
      PROVE  RunOK(r)'
  <2>1. stage'[r] = IF stage[r] \in {"none", "over"} THEN stage[r] ELSE "dead"
    BY DEF TypeOK
  <2>2. WayOK(r)' /\ TableOK(r)' /\ ProcessOK(r)' /\ StateOK(r)'
    BY <2>1 DEF RunOK, WayOK, TableOK, ProcessOK, StateOK, Serving, Enrolled,
       ThreadOnly, FleetOnly, Ended
  <2>3. GroupsOK(r)'
    BY <2>1 DEF RunOK, GroupsOK, Nothing, Same, AllButOne, AtMostOne, Launching,
       ThreadOnly
  <2> QED
    BY <2>2, <2>3 DEF RunOK
<1> QED
  BY <1>1, <1>2

\* A process that starts finds no run under way.
LEMMA RestartKeeps ==
    ASSUME ManagerInv, Restart
    PROVE  ManagerInv'
<1> USE DEF ManagerInv, Restart, tables
<1>1. TypeOK'
  BY DEF TypeOK
<1>2. ASSUME NEW r \in Runs
      PROVE  RunOK(r)'
  <2>1. WayOK(r)' /\ TableOK(r)' /\ ProcessOK(r)' /\ StateOK(r)'
    BY DEF RunOK, WayOK, TableOK, ProcessOK, StateOK, Serving
  <2>2. GroupsOK(r)'
    BY DEF RunOK, GroupsOK, Nothing, Same, AllButOne, AtMostOne
  <2> QED
    BY <2>1, <2>2 DEF RunOK
<1> QED
  BY <1>1, <1>2

\* reconcile_at_boot ends every row that is in flight.
LEMMA MarkKeeps ==
    ASSUME ManagerInv, MarkRuns
    PROVE  ManagerInv'
<1> USE DEF ManagerInv
<1>1. /\ process = "marking" /\ process' = "sweeping"
      /\ UNCHANGED <<stage, active, fleets, held, cluster, crashes>>
  BY DEF MarkRuns, tables
<1>2. /\ row' \in [Runs -> RowSet]
      /\ \A r \in Runs : row'[r].state \notin InFlight /\ row'[r].refs = row[r].refs
  <2>1. ASSUME NEW r \in Runs
        PROVE  /\ row'[r] \in RowSet
               /\ row'[r].state \notin InFlight /\ row'[r].refs = row[r].refs
    <3>1. row[r] \in RowSet
      BY DEF TypeOK
    <3>2. CASE row[r].state \in InFlight
      BY <3>1, <3>2 DEF MarkRuns, RowSet, Unfinished, MarkedState, States, Errors,
         InFlight
    <3>3. CASE row[r].state \notin InFlight
      BY <3>1, <3>3 DEF MarkRuns, Unfinished
    <3> QED
      BY <3>2, <3>3
  <2>2. row' = [r \in Runs |-> row'[r]]
    BY DEF MarkRuns
  <2> QED
    BY <2>1, <2>2
<1>3. TypeOK'
  BY <1>1, <1>2 DEF TypeOK
<1>4. ASSUME NEW r \in Runs
      PROVE  RunOK(r)'
  <2>1. WayOK(r)' /\ TableOK(r)' /\ ProcessOK(r)' /\ StateOK(r)'
    BY <1>1, <1>2 DEF RunOK, WayOK, TableOK, ProcessOK, StateOK, Serving
  <2>2. GroupsOK(r)'
    BY <1>1, <1>2 DEF RunOK, GroupsOK, Nothing, Same, AllButOne, AtMostOne
  <2> QED
    BY <2>1, <2>2 DEF RunOK
<1> QED
  BY <1>3, <1>4

\* reconcile_fleets_at_boot comes second, and so finds no row left to sweep.
LEMMA SweepKeeps ==
    ASSUME ManagerInv, SweepGroups
    PROVE  ManagerInv'
<1> USE DEF ManagerInv
<1>1. Swept = {}
  BY DEF SweepGroups, Swept, RunOK, StateOK
<1>2. row' = row /\ cluster' = cluster
  BY <1>1 DEF SweepGroups, TypeOK
<1>3. process' = "serving" /\ process = "sweeping"
      /\ UNCHANGED <<stage, active, fleets, held, crashes>>
  BY DEF SweepGroups, tables
<1>4. TypeOK'
  BY <1>2, <1>3 DEF TypeOK
<1>5. ASSUME NEW r \in Runs
      PROVE  RunOK(r)'
  <2>1. WayOK(r)' /\ TableOK(r)' /\ ProcessOK(r)' /\ StateOK(r)'
    BY <1>2, <1>3 DEF RunOK, WayOK, TableOK, ProcessOK, StateOK, Serving
  <2>2. GroupsOK(r)'
    BY <1>2, <1>3 DEF RunOK, GroupsOK, Nothing, Same, AllButOne, AtMostOne
  <2> QED
    BY <2>1, <2>2 DEF RunOK
<1> QED
  BY <1>4, <1>5

-----------------------------------------------------------------------------
(* The theorems. *)

\* Nothing has happened yet.
LEMMA InitHolds == Init => ManagerInv
<1> SUFFICES ASSUME Init
             PROVE  ManagerInv
  OBVIOUS
<1>1. TypeOK
  BY ManagerAssumption DEF Init, TypeOK, RowSet, States, Errors, Stages
<1>2. ASSUME NEW r \in Runs
      PROVE  RunOK(r)
  BY DEF Init, RunOK, WayOK, TableOK, ProcessOK, StateOK, GroupsOK, Nothing, Same,
     AllButOne, AtMostOne, Serving, InFlight, Enrolled, Launching, ThreadOnly,
     FleetOnly
<1> QED
  BY <1>1, <1>2 DEF ManagerInv

\* Every step keeps the invariant.
LEMMA StepKeeps == ManagerInv /\ [Next]_vars => ManagerInv'
<1> SUFFICES ASSUME ManagerInv, [Next]_vars
             PROVE  ManagerInv'
  OBVIOUS
<1>1. CASE UNCHANGED vars
  BY <1>1 DEF vars, tables, ManagerInv, TypeOK, RunOK, WayOK, TableOK, ProcessOK,
     StateOK, GroupsOK, Nothing, Same, AllButOne, AtMostOne, Serving
<1>2. ASSUME NEW r \in Runs, LaunchStep(r) \/ ThreadStep(r)
      PROVE  ManagerInv'
  BY <1>2, LaunchKeeps, ThreadKeeps
<1>3. CASE Crash \/ Restart \/ MarkRuns \/ SweepGroups
  BY <1>3, CrashKeeps, RestartKeeps, MarkKeeps, SweepKeeps
<1> QED
  BY <1>1, <1>2, <1>3 DEF Next

\* Whatever is launched, fails or crashes, in whatever order, the invariant holds:
\* the tables of the run manager, its threads and the rows never come apart.
THEOREM ManagerHolds == Spec => []ManagerInv
BY InitHolds, StepKeeps, PTL DEF Spec

\* A set whose members are all one has at most one member.
LEMMA OneAtMost ==
    ASSUME NEW S, AtMostOne(S)
    PROVE  Cardinality(S) <= 1
<1>1. CASE S = {}
  BY <1>1, FS_EmptySet
<1>2. CASE S # {}
  <2>1. PICK g : g \in S
    BY <1>2
  <2>2. S = {g}
    BY <2>1 DEF AtMostOne
  <2>3. Cardinality({g}) = 1
    BY FS_Singleton
  <2> QED
    BY <2>2, <2>3
<1> QED
  BY <1>1, <1>2

\* The four properties the runs check are consequences of the invariant.
LEMMA ManagerImplies ==
    ManagerInv => NoGhosts /\ OneUnrecorded /\ InFlightIsSupervised
                  /\ FinishedRecordsStrays
<1> SUFFICES ASSUME ManagerInv
             PROVE  /\ NoGhosts /\ OneUnrecorded
                    /\ InFlightIsSupervised /\ FinishedRecordsStrays
  OBVIOUS
<1> USE DEF ManagerInv, RunOK
<1>1. NoGhosts
  BY DEF NoGhosts, TableOK
<1>2. OneUnrecorded
  BY OneAtMost DEF OneUnrecorded, GroupsOK, AllButOne
<1>3. InFlightIsSupervised
  BY DEF InFlightIsSupervised, StateOK, Ended, TypeOK, Stages
<1>4. FinishedRecordsStrays
  BY DEF FinishedRecordsStrays, GroupsOK
<1> QED
  BY <1>1, <1>2, <1>3, <1>4

\* A run that is over, or was never registered, holds no slot of the limit, and
\* one that is under way holds its own (runner.py _start_fleet): a launch that
\* registered after its thread had ended would break it.
THEOREM NoGhostsHolds == Spec => []NoGhosts
BY ManagerHolds, ManagerImplies, PTL

\* Whenever the process dies, the row knows every group of the run but at most
\* the one being created (fleet.py _supervise).
THEOREM OneUnrecordedHolds == Spec => []OneUnrecorded
BY ManagerHolds, ManagerImplies, PTL

\* A control plane that serves has a handler or a thread at work on every run
\* whose row is in flight, after any number of crashes (reconcile_at_boot).
THEOREM InFlightIsSupervisedHolds == Spec => []InFlightIsSupervised
BY ManagerHolds, ManagerImplies, PTL

\* A run that ended in the process that ran it records exactly the groups that
\* are still there (fleet.py _destroy_quietly).
THEOREM FinishedRecordsStraysHolds == Spec => []FinishedRecordsStrays
BY ManagerHolds, ManagerImplies, PTL

-----------------------------------------------------------------------------
(* The half of the limit that does hold. *)

InProcessBound == Cardinality(active) <= Max

\* A set of runs is finite, and a run added to it or taken from it counts for one.
LEMMA TableCounts ==
    ASSUME NEW S \in SUBSET Runs, NEW r \in Runs
    PROVE  /\ Cardinality(S) \in Nat /\ Cardinality(S \cup {r}) \in Nat
           /\ Cardinality(S \cup {r}) <= Cardinality(S) + 1
           /\ Cardinality(S \ {r}) \in Int
           /\ Cardinality(S \ {r}) <= Cardinality(S)
<1>1. IsFiniteSet(S)
  BY ManagerAssumption, FS_Subset
<1>2. Cardinality(S) \in Nat
  BY <1>1, FS_CardinalityType
<1>3. Cardinality(S \cup {r}) \in {Cardinality(S), Cardinality(S) + 1}
  BY <1>1, FS_AddElement
<1>4. Cardinality(S \ {r}) \in {Cardinality(S), Cardinality(S) - 1}
  BY <1>1, FS_RemoveElement
<1> QED
  BY <1>2, <1>3, <1>4

\* Counting and registering under one lock keeps the in-process runs within the
\* limit, whatever else is launched meanwhile (runner.py start).
THEOREM InProcessBoundHolds == Spec => []InProcessBound
<1>1. Init => InProcessBound
  BY ManagerAssumption, FS_EmptySet DEF Init, InProcessBound
<1>2. ManagerInv /\ InProcessBound /\ [Next]_vars => InProcessBound'
  <2> SUFFICES ASSUME ManagerInv, InProcessBound, [Next]_vars
               PROVE  InProcessBound'
    OBVIOUS
  <2>1. active \in SUBSET Runs
    BY DEF ManagerInv, TypeOK
  <2>2. CASE active' = active
    BY <2>2 DEF InProcessBound
  <2>3. ASSUME NEW r \in Runs, RegisterActive(r)
        PROVE  InProcessBound'
    <3>1. active' = active \cup {r} /\ Cardinality(active) < Max
      BY <2>3 DEF RegisterActive, HasRoom
    <3>2. /\ Cardinality(active) \in Nat /\ Cardinality(active \cup {r}) \in Nat
          /\ Cardinality(active \cup {r}) <= Cardinality(active) + 1
      BY <2>1, TableCounts
    <3> QED
      BY <3>1, <3>2, ManagerAssumption DEF InProcessBound
  <2>4. ASSUME NEW r \in Runs, PopActive(r)
        PROVE  InProcessBound'
    <3>1. active' = active \ {r} /\ Cardinality(active) <= Max
      BY <2>4 DEF PopActive, InProcessBound
    <3>2. /\ Cardinality(active) \in Nat /\ Cardinality(active \ {r}) \in Int
          /\ Cardinality(active \ {r}) <= Cardinality(active)
      BY <2>1, TableCounts
    <3> QED
      BY <3>1, <3>2, ManagerAssumption DEF InProcessBound
  <2>5. CASE Crash
    BY <2>5, FS_EmptySet, ManagerAssumption DEF Crash, InProcessBound
  <2>6. \/ active' = active \/ Crash
        \/ \E r \in Runs : RegisterActive(r) \/ PopActive(r)
    BY DEF Next, vars, tables, LaunchStep, ThreadStep, CreateRow, Reject, StartThread,
       CountFleet, PlanFleet, RegisterFleet, StartSupervisor, SetRunning,
       FinishThread, CreateGroup, RecordRefs, FinishFleet, SupervisorFails,
       DestroyGroups, ClearRefs, Forget, Restart, MarkRuns, SweepGroups
  <2> QED
    BY <2>2, <2>3, <2>4, <2>5, <2>6
<1> QED
  BY <1>1, <1>2, ManagerHolds, PTL DEF Spec

=============================================================================
