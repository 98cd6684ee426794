-------------------------- MODULE FleetLeaseProofs --------------------------
(***************************************************************************)
(* What holds of FleetLease for every number of slots, workers and faults  *)
(* and for every setting of the clocks: its types, the fence of a lease    *)
(* id, the start of the fleet, and that every step is one of SlotClaims.   *)
(***************************************************************************)
EXTENDS FleetLeaseRefines, TLAPS

USE DEF NoSlot, NoId, NoT0

\* The clocks' caps are natural numbers, whatever the thresholds.
LEMMA CapsAreNat == AgeCap \in Nat /\ ElapsedCap \in Nat /\ 0 \in 0..AgeCap
BY TimesAssumption DEF AgeCap, ElapsedCap, MaxOf

\* A lease row that is heard from stays a lease row.
LEMMA SeenType ==
    ASSUME NEW row \in LeaseSet, NEW st \in LeaseStates
    PROVE  Seen(row, st) \in LeaseSet
BY CapsAreNat DEF Seen, LeaseSet

\* Declaring leases lost keeps the table a lease table.
LEMMA LoseType ==
    ASSUME NEW rows \in [Slots -> LeaseSet], NEW S
    PROVE  Lose(rows, S) \in [Slots -> LeaseSet]
BY SeenType DEF Lose, LeaseStates

\* What a worker sends is a request, in its own name.
LEMMA RequestType ==
    ASSUME TypeOK, NEW w \in Workers, NEW kind \in Kinds(w)
    PROVE  Request(w, kind) \in RequestSet /\ Request(w, kind).w = w
BY DEF TypeOK, Request, RequestSet, WorkerSet, Kinds, MainCall, Reported, Phases

\* A worker that is gone, or has not begun, is a worker.
LEMMA GoneType == GoneWorker \in WorkerSet /\ NewWorker \in WorkerSet
BY DEF GoneWorker, NewWorker, WorkerSet, Phases

-----------------------------------------------------------------------------
(* Type correctness: one lemma per handler, then the other steps. *)

ServerTypeOK ==
    /\ lease \in [Slots -> LeaseSet]
    /\ fleetState \in FleetStates
    /\ runState \in {"pending", "running"} \cup Terminal
    /\ t0 \in Nat \cup {NoT0}
    /\ nextId \in Nat \ {0}

\* An answer heard or lost leaves every worker well typed.
LEMMA ToldType ==
    ASSUME worker \in [Workers -> WorkerSet], NEW w \in Workers,
           NEW heard \in BOOLEAN, NEW knows \in WorkerSet, Told(w, heard, knows)
    PROVE  worker' \in [Workers -> WorkerSet]
BY DEF Told

\* So does hearing a stop, or that the lease is superseded ...
LEMMA StopType ==
    ASSUME worker \in [Workers -> WorkerSet], NEW w \in Workers
    PROVE  /\ HeardStop(w) \in WorkerSet
           /\ [HeardStop(w) EXCEPT !.superseded = TRUE] \in WorkerSet
BY DEF HeardStop, WorkerSet

\* ... or hearing the release.
LEMMA ReleaseType ==
    ASSUME worker \in [Workers -> WorkerSet], NEW w \in Workers, NEW when \in Nat
    PROVE  HeardRelease(w, when) \in WorkerSet
BY DEF HeardRelease, WorkerSet

\* A restored lease is in one of the lease states.
LEMMA RestoredType ==
    ASSUME lease \in [Slots -> LeaseSet], NEW m, m.slot \in Slots
    PROVE  Restored(m) \in LeaseStates
BY DEF Restored, LeaseSet, LeaseStates

\* Moving one row keeps the table a lease table.
LEMMA RowType ==
    ASSUME lease \in [Slots -> LeaseSet], NEW s, NEW st,
           s \in Slots => st \in LeaseStates
    PROVE  [lease EXCEPT ![s] = Seen(@, st)] \in [Slots -> LeaseSet]
BY SeenType

\* evaluate_release leaves the run row well typed.
LEMMA EvaluateType ==
    ASSUME TypeOK, NEW rows, EvaluateRelease(rows)
    PROVE  t0' \in Nat \cup {NoT0} /\ fleetState' \in FleetStates
BY DEF TypeOK, EvaluateRelease, FleetStates

\* claim leaves the tables and the workers well typed.
LEMMA ClaimType ==
    ASSUME TypeOK, NEW w \in Workers, NEW heard \in BOOLEAN,
           ClaimAgain(w, heard) \/ ClaimFresh(w, heard) \/ ClaimRefused(w)
    PROVE  ServerTypeOK' /\ worker' \in [Workers -> WorkerSet]
<1>1. \A s \in Slots, id \in Nat : Granted(w, s, id) \in WorkerSet
  BY DEF TypeOK, Granted, WorkerSet, Phases
<1>2. CASE ClaimAgain(w, heard)
  <2>1. PICK s \in HeldBy(w) :
          /\ lease' = [lease EXCEPT ![s].age = 0]
          /\ Told(w, heard, Granted(w, s, lease[s].id))
    BY <1>2 DEF ClaimAgain
  <2>2. s \in Slots /\ lease[s].id \in Nat
    BY DEF HeldBy, TypeOK, LeaseSet
  <2>3. lease' \in [Slots -> LeaseSet]
    BY <2>1, <2>2, CapsAreNat DEF TypeOK, LeaseSet
  <2>4. worker' \in [Workers -> WorkerSet]
    BY <2>1, <2>2, <1>1, ToldType DEF TypeOK
  <2> QED
    BY <2>3, <2>4, <1>2 DEF ClaimAgain, ServerTypeOK, TypeOK, runRow
<1>3. CASE ClaimFresh(w, heard)
  <2>1. PICK s \in Claimable(w) :
          /\ lease' = [lease EXCEPT ![s] = [Seen(@, "claimed") EXCEPT
                                              !.id = FreshId(s), !.holder = w]]
          /\ Told(w, heard, Granted(w, s, FreshId(s)))
    BY <1>3 DEF ClaimFresh
  <2>2. s \in Slots
    BY HintAssumption DEF Claimable
  <2>3. FreshId(s) \in Nat /\ FreshId(s) = nextId
    BY DEF FreshId, TypeOK
  <2>4. [Seen(lease[s], "claimed") EXCEPT !.id = FreshId(s), !.holder = w] \in LeaseSet
    <3>1. Seen(lease[s], "claimed") \in LeaseSet
      BY <2>2, SeenType DEF TypeOK, LeaseStates
    <3> QED
      BY <3>1, <2>3 DEF LeaseSet
  <2>5. lease' \in [Slots -> LeaseSet]
    BY <2>1, <2>4 DEF TypeOK
  <2>6. worker' \in [Workers -> WorkerSet]
    BY <2>1, <2>2, <2>3, <1>1, ToldType DEF TypeOK
  <2>7. nextId' = nextId + 1 /\ fleetState' = fleetState /\ runState' = runState
        /\ t0' = t0
    BY <1>3 DEF ClaimFresh, runRow
  <2> QED
    BY <2>5, <2>6, <2>7 DEF ServerTypeOK, TypeOK
<1>4. CASE ClaimRefused(w)
  BY <1>4 DEF ClaimRefused, server, runRow, ServerTypeOK, TypeOK
<1> QED
  BY <1>2, <1>3, <1>4

\* So does mark_ready ...
LEMMA ReadyTypes ==
    ASSUME TypeOK, NEW m \in RequestSet, NEW heard \in BOOLEAN, Ready(m, heard)
    PROVE  ServerTypeOK' /\ worker' \in [Workers -> WorkerSet]
<1>1. m.w \in Workers
  BY DEF RequestSet
<1>2. CASE MarkReady(m, heard)
  <2>1. lease' \in [Slots -> LeaseSet]
    <3>1. m.slot \in Slots => ReadyAgain(lease[m.slot].state) \in LeaseStates
      BY DEF ReadyAgain, TypeOK, LeaseSet, LeaseStates
    <3>2. lease' = [lease EXCEPT ![m.slot] = Seen(@, ReadyAgain(lease[m.slot].state))]
      BY <1>2 DEF MarkReady, TypeOK
    <3> QED
      BY <3>1, <3>2, RowType DEF TypeOK
  <2>2. t0' \in Nat \cup {NoT0} /\ fleetState' \in FleetStates
    BY <1>2, EvaluateType DEF MarkReady
  <2>3. worker' \in [Workers -> WorkerSet]
    <3> DEFINE known == IF t0' # NoT0 THEN t0' ELSE worker[m.w].t0
               let   == worker[m.w].released \/ known # NoT0
               knows == [worker[m.w] EXCEPT !.phase = "waiting", !.t0 = known,
                                           !.released = let]
    <3>1. known \in Nat \cup {NoT0}
      BY <2>2, <1>1 DEF TypeOK, WorkerSet
    <3>2. knows \in WorkerSet
      <4>1. let \in BOOLEAN /\ worker[m.w] \in WorkerSet
        BY <1>1 DEF TypeOK
      <4> HIDE DEF let, known
      <4> QED
        BY <4>1, <3>1 DEF WorkerSet, Phases
    <3>3. Told(m.w, heard, knows)
      BY <1>2 DEF MarkReady
    <3> QED
      BY <3>2, <3>3, <1>1, ToldType DEF TypeOK
  <2> QED
    BY <2>1, <2>2, <2>3, <1>2 DEF MarkReady, ServerTypeOK, TypeOK
<1>3. CASE ReadySuperseded(m, heard)
  BY <1>1, <1>3, GoneType, ToldType
     DEF ReadySuperseded, server, runRow, ServerTypeOK, TypeOK
<1>4. CASE ReadyRefused
  BY <1>4 DEF ReadyRefused, server, runRow, ServerTypeOK, TypeOK
<1> QED
  BY <1>2, <1>3, <1>4 DEF Ready

\* ... heartbeat ...
LEMMA HeartbeatType ==
    ASSUME TypeOK, NEW m \in RequestSet, NEW heard \in BOOLEAN, Heartbeat(m, heard)
    PROVE  ServerTypeOK' /\ worker' \in [Workers -> WorkerSet]
<1>1. m.w \in Workers
  BY DEF RequestSet
<1>2. worker[m.w] \in WorkerSet /\ worker \in [Workers -> WorkerSet]
  BY <1>1 DEF TypeOK
<1>3. m.slot \in Slots => Restored(m) \in LeaseStates
  BY RestoredType DEF TypeOK
<1>4. lease \in [Slots -> LeaseSet]
  BY DEF TypeOK
<1>5. CASE BeatFenced(m, heard)
  BY <1>1, <1>2, <1>5, StopType, ToldType
     DEF BeatFenced, server, runRow, ServerTypeOK, TypeOK
<1>6. CASE BeatStops(m, heard)
  <2>1. lease' \in [Slots -> LeaseSet]
    BY <1>6, <1>4, CapsAreNat DEF BeatStops, LeaseSet
  <2>2. worker' \in [Workers -> WorkerSet]
    BY <1>1, <1>2, <1>6, StopType, ToldType DEF BeatStops
  <2> QED
    BY <2>1, <2>2, <1>6 DEF BeatStops, runRow, ServerTypeOK, TypeOK
<1>7. CASE BeatBeforeT0(m, heard)
  <2>1. lease' \in [Slots -> LeaseSet]
    BY <1>7, <1>3, <1>4, RowType DEF BeatBeforeT0
  <2>2. t0' \in Nat \cup {NoT0} /\ fleetState' \in FleetStates
    BY <1>7, EvaluateType DEF BeatBeforeT0, TypeOK
  <2>3. worker' \in [Workers -> WorkerSet]
    <3>1. (IF t0' = NoT0 THEN worker[m.w] ELSE HeardRelease(m.w, t0')) \in WorkerSet
      BY <2>2, <1>1, <1>2, ReleaseType
    <3> QED
      BY <3>1, <1>7, <1>1, <1>2, ToldType DEF BeatBeforeT0
  <2> QED
    BY <2>1, <2>2, <2>3, <1>7 DEF BeatBeforeT0, ServerTypeOK, TypeOK
<1>8. CASE BeatRepeatsT0(m, heard)
  <2>1. lease' \in [Slots -> LeaseSet]
    BY <1>8, <1>3, <1>4, RowType DEF BeatRepeatsT0
  <2>2. t0 \in Nat
    BY <1>8 DEF BeatRepeatsT0, TypeOK
  <2>3. worker' \in [Workers -> WorkerSet]
    BY <2>2, <1>8, <1>1, <1>2, ReleaseType, ToldType DEF BeatRepeatsT0
  <2> QED
    BY <2>1, <2>3, <1>8 DEF BeatRepeatsT0, runRow, ServerTypeOK, TypeOK
<1>9. CASE BeatUnderway(m, heard)
  <2>1. lease' \in [Slots -> LeaseSet]
    <3> DEFINE st == IF Restored(m) \in {"claimed", "ready"} THEN "running"
                     ELSE Restored(m)
    <3>1. m.slot \in Slots => st \in LeaseStates
      BY <1>3 DEF LeaseStates
    <3>2. lease' = [lease EXCEPT ![m.slot] = Seen(@, st)]
      BY <1>9 DEF BeatUnderway
    <3> HIDE DEF st
    <3> QED
      BY <3>1, <3>2, <1>4, RowType
  <2>2. /\ fleetState' \in FleetStates
        /\ runState' \in {"pending", "running"} \cup Terminal
    BY <1>9 DEF BeatUnderway, TypeOK, FleetStates
  <2> QED
    BY <2>1, <2>2, <1>9 DEF BeatUnderway, ServerTypeOK, TypeOK
<1>10. CASE BeatRefused
  BY <1>10 DEF BeatRefused, server, runRow, ServerTypeOK, TypeOK
<1> QED
  BY <1>5, <1>6, <1>7, <1>8, <1>9, <1>10 DEF Heartbeat

\* ... and final.
LEMMA FinalType ==
    ASSUME TypeOK, NEW m \in RequestSet, NEW heard \in BOOLEAN, Final(m, heard)
    PROVE  ServerTypeOK' /\ worker' \in [Workers -> WorkerSet]
<1>1. m.w \in Workers /\ m.outcome \in Outcomes \cup {"none"}
  BY DEF RequestSet
<1>2. worker \in [Workers -> WorkerSet]
  BY DEF TypeOK
<1>3. CASE Told(m.w, heard, GoneWorker) /\ UNCHANGED server
  BY <1>1, <1>2, <1>3, GoneType, ToldType DEF server, runRow, ServerTypeOK, TypeOK
<1>4. CASE /\ lease' = [lease EXCEPT ![m.slot] =
                [Seen(@, "done") EXCEPT !.report = [by |-> m.w, outcome |-> m.outcome]]]
           /\ Told(m.w, heard, GoneWorker)
           /\ UNCHANGED <<runRow, nextId>>
  <2>1. m.slot \in Slots =>
          [Seen(lease[m.slot], "done") EXCEPT
             !.report = [by |-> m.w, outcome |-> m.outcome]] \in LeaseSet
    <3>1. m.slot \in Slots => Seen(lease[m.slot], "done") \in LeaseSet
      BY SeenType DEF TypeOK, LeaseStates
    <3>2. [by |-> m.w, outcome |-> m.outcome] \in ReportSet
      BY <1>1 DEF ReportSet
    <3> QED
      BY <3>1, <3>2 DEF LeaseSet
  <2>2. lease' \in [Slots -> LeaseSet]
    BY <2>1, <1>4 DEF TypeOK
  <2>3. worker' \in [Workers -> WorkerSet]
    BY <1>1, <1>2, <1>4, GoneType, ToldType
  <2> QED
    BY <2>2, <2>3, <1>4 DEF runRow, ServerTypeOK, TypeOK
<1>5. CASE UNCHANGED <<server, worker>>
  BY <1>5 DEF server, runRow, ServerTypeOK, TypeOK
<1> QED
  BY <1>3, <1>4, <1>5 DEF Final

\* Every handler does, whatever request it is given.
LEMMA HandleType ==
    ASSUME TypeOK, NEW m \in RequestSet, NEW heard \in BOOLEAN, Handle(m, heard)
    PROVE  ServerTypeOK' /\ worker' \in [Workers -> WorkerSet]
<1>1. m.w \in Workers
  BY DEF RequestSet
<1> QED
  BY <1>1, ClaimType, ReadyTypes, HeartbeatType, FinalType DEF Handle, Claim

RestTypeOK ==
    /\ sup \in SupStates
    /\ stopRequested \in BOOLEAN
    /\ merged \subseteq Slots /\ lostSlots \subseteq Slots
    /\ elapsed \in 0..ElapsedCap
    /\ late \subseteq RequestSet
    /\ faults \in Nat

\* The count of faults stays a number.
LEMMA FaultType ==
    ASSUME TypeOK, Fault
    PROVE  faults' \in Nat
BY DEF TypeOK, Fault

\* A worker that moves on by itself changes nothing else.
LEMMA BecomesType ==
    ASSUME TypeOK, NEW w \in Workers, NEW knows \in WorkerSet, Becomes(w, knows),
           faults' \in Nat
    PROVE  TypeOK'
BY DEF TypeOK, Becomes, server, runRow, supervisor

\* No step of a worker leaves the types.
LEMMA WorkerStepType ==
    ASSUME TypeOK, NEW w \in Workers, WorkerStep(w)
    PROVE  TypeOK'
<1>0. worker[w] \in WorkerSet /\ faults \in Nat
  BY DEF TypeOK
<1>1. ASSUME NEW kind \in {"claim", "ready", "heartbeat", "final"}, Call(w, kind)
      PROVE  TypeOK'
  <2>1. PICK heard \in BOOLEAN :
          /\ Handle(Request(w, kind), heard)
          /\ IF heard THEN UNCHANGED faults ELSE Fault
    BY <1>1 DEF Call
  <2>2. Request(w, kind) \in RequestSet
    BY <1>1, RequestType DEF Call
  <2>3. ServerTypeOK' /\ worker' \in [Workers -> WorkerSet]
    BY <2>1, <2>2, HandleType
  <2>4. RestTypeOK'
    BY <1>1, <2>1, FaultType DEF Call, supervisor, RestTypeOK, TypeOK
  <2> QED
    BY <2>3, <2>4 DEF TypeOK, ServerTypeOK, RestTypeOK
<1>2. CASE Delay(w)
  <2>1. PICK kind \in Kinds(w) : late' = late \cup {Request(w, kind)}
    BY <1>2 DEF Delay
  <2>2. late' \subseteq RequestSet
    BY <2>1, RequestType DEF TypeOK
  <2>3. faults' \in Nat
    BY <1>2, FaultType DEF Delay
  <2>4. ServerTypeOK' /\ worker' \in [Workers -> WorkerSet]
    BY <1>2 DEF Delay, server, runRow, ServerTypeOK, TypeOK
  <2>5. RestTypeOK'
    BY <2>2, <2>3, <1>2 DEF Delay, RestTypeOK, TypeOK, supervisor
  <2> QED
    BY <2>4, <2>5 DEF TypeOK, ServerTypeOK, RestTypeOK
<1>3. CASE FailToStart(w)
  <2>1. PICK o \in Outcomes :
          Becomes(w, [worker[w] EXCEPT !.phase = "failing", !.outcome = o])
    BY <1>3 DEF FailToStart
  <2>2. [worker[w] EXCEPT !.phase = "failing", !.outcome = o] \in WorkerSet
    BY <1>0 DEF WorkerSet, Phases
  <2> QED
    BY <1>0, <1>3, <2>1, <2>2, BecomesType DEF FailToStart
<1>4. CASE WarmedUp(w)
  <2>1. [worker[w] EXCEPT !.phase = "ready"] \in WorkerSet
    BY <1>0 DEF WorkerSet, Phases
  <2> QED
    BY <1>0, <1>4, <2>1, BecomesType DEF WarmedUp
<1>5. CASE StartLoad(w)
  <2>1. [worker[w] EXCEPT !.phase = "running"] \in WorkerSet
    BY <1>0 DEF WorkerSet, Phases
  <2> QED
    BY <1>0, <1>5, <2>1, GoneType, BecomesType DEF StartLoad
<1>6. CASE FinishLoad(w)
  <2>1. PICK o \in Outcomes :
          Becomes(w, [worker[w] EXCEPT !.phase = "finishing", !.outcome = o])
    BY <1>6 DEF FinishLoad
  <2>2. [worker[w] EXCEPT !.phase = "finishing", !.outcome = o] \in WorkerSet
    BY <1>0 DEF WorkerSet, Phases
  <2> QED
    BY <1>0, <1>6, <2>1, <2>2, BecomesType DEF FinishLoad
<1>7. CASE WorkerStopped(w) \/ DeadMan(w)
  <2>1. HeardStop(w) \in WorkerSet
    BY StopType DEF TypeOK
  <2> QED
    BY <1>0, <1>7, <2>1, FaultType, BecomesType DEF WorkerStopped, DeadMan
<1>8. CASE WorkerDies(w) \/ GivesUp(w)
  BY <1>0, <1>8, GoneType, FaultType, BecomesType DEF WorkerDies, GivesUp
<1> QED
  BY <1>1, <1>2, <1>3, <1>4, <1>5, <1>6, <1>7, <1>8 DEF WorkerStep

\* Nor does a call its caller has given up on.
LEMMA DeliverLateType ==
    ASSUME TypeOK, DeliverLate
    PROVE  TypeOK'
<1>1. PICK m \in late : Handle(m, FALSE) /\ late' = late \ {m}
  BY DEF DeliverLate
<1>2. m \in RequestSet
  BY DEF TypeOK
<1>3. ServerTypeOK' /\ worker' \in [Workers -> WorkerSet]
  BY <1>1, <1>2, HandleType
<1>4. RestTypeOK'
  BY <1>1 DEF DeliverLate, RestTypeOK, TypeOK, supervisor
<1> QED
  BY <1>3, <1>4 DEF TypeOK, ServerTypeOK, RestTypeOK

\* Nor does a tick of the watch ...
LEMMA WatchTickType ==
    ASSUME TypeOK, WatchTick
    PROVE  TypeOK'
<1>1. Lapsed \in [Slots -> LeaseSet]
  BY LoseType DEF Lapsed, TypeOK
<1>2. ASSUME NEW rows \in [Slots -> LeaseSet], NEW when, Conclude(rows, when)
      PROVE  lease' \in [Slots -> LeaseSet] /\ sup' \in SupStates
  BY <1>2, LoseType DEF Conclude, TypeOK, SupStates
<1>3. \A S : Lose(Lapsed, S) \in [Slots -> LeaseSet]
  BY <1>1, LoseType
<1>4. lease' \in [Slots -> LeaseSet] /\ sup' \in SupStates
  <2>1. \E rows \in [Slots -> LeaseSet], when \in {t0, elapsed} : Conclude(rows, when)
    BY <1>1, <1>3 DEF WatchTick
  <2> QED
    BY <1>2, <2>1
<1>5. t0' \in Nat \cup {NoT0} /\ fleetState' \in FleetStates
  BY CapsAreNat DEF WatchTick, TypeOK, FleetStates
<1>6. /\ UNCHANGED <<runState, nextId, stopRequested, merged, lostSlots>>
      /\ UNCHANGED <<elapsed, worker, late, faults>>
  BY DEF WatchTick
<1>7. ServerTypeOK'
  BY <1>4, <1>5, <1>6 DEF TypeOK, ServerTypeOK
<1>8. RestTypeOK' /\ worker' \in [Workers -> WorkerSet]
  BY <1>4, <1>6 DEF TypeOK, RestTypeOK
<1> QED
  BY <1>7, <1>8 DEF TypeOK, ServerTypeOK, RestTypeOK

\* ... or any other step of the supervisor ...
LEMMA SuperviseType ==
    ASSUME TypeOK, Supervise
    PROVE  TypeOK'
<1>1. CASE StartWatch
  BY <1>1 DEF StartWatch, TypeOK, server, runRow, SupStates
<1>2. CASE WatchTick
  BY <1>2, WatchTickType
<1>3. CASE MergeReports
  <2>1. lease' \in [Slots -> LeaseSet]
    BY <1>3, LoseType DEF MergeReports, TypeOK
  <2> QED
    BY <1>3, <2>1 DEF MergeReports, TypeOK, runRow, SupStates
<1>4. CASE WriteResult
  <2>1. MergedOutcome \in Terminal
    BY DEF MergedOutcome, Terminal
  <2>2. runState' \in {"pending", "running"} \cup Terminal
    BY <1>4, <2>1 DEF WriteResult, Terminal
  <2> QED
    BY <1>4, <2>2 DEF WriteResult, TypeOK, FleetStates, SupStates
<1>5. CASE SupervisorFails
  BY <1>5 DEF SupervisorFails, TypeOK, FleetStates, SupStates, Terminal
<1>6. CASE DestroyAndForget
  BY <1>6, GoneType DEF DestroyAndForget, TypeOK, server, runRow, SupStates
<1> QED
  BY <1>1, <1>2, <1>3, <1>4, <1>5, <1>6 DEF Supervise

\* ... or the passing of time.
LEMMA PassType ==
    ASSUME TypeOK, Pass
    PROVE  TypeOK'
<1>1. \A row \in LeaseSet : Older(row) \in LeaseSet
  BY CapsAreNat DEF Older, LeaseSet
<1>2. lease' \in [Slots -> LeaseSet]
  BY <1>1 DEF Pass, TypeOK
<1>3. elapsed' \in 0..ElapsedCap
  BY CapsAreNat DEF Pass, TypeOK
<1> QED
  BY <1>2, <1>3 DEF Pass, TypeOK, runRow, supervisor

\* The type invariant is inductive ...
LEMMA TypeStep ==
    ASSUME TypeOK, [Next]_vars
    PROVE  TypeOK'
<1>1. CASE \E w \in Workers : WorkerStep(w)
  BY <1>1, WorkerStepType
<1>2. CASE DeliverLate
  BY <1>2, DeliverLateType
<1>3. CASE Stop
  BY <1>3 DEF Stop, TypeOK, FleetStates
<1>4. CASE Supervise
  BY <1>4, SuperviseType
<1>5. CASE Pass
  BY <1>5, PassType
<1>6. CASE UNCHANGED vars
  BY <1>6 DEF vars, runRow, supervisor, TypeOK
<1> QED
  BY <1>1, <1>2, <1>3, <1>4, <1>5, <1>6 DEF Next

\* ... and holds at the start.
LEMMA TypeInit ==
    ASSUME Init
    PROVE  TypeOK
<1>1. FreeLease \in LeaseSet
  BY CapsAreNat DEF FreeLease, NoReport, LeaseSet, ReportSet, LeaseStates
<1>2. 0 \in 0..ElapsedCap
  BY CapsAreNat
<1>3. ServerTypeOK
  BY <1>1 DEF Init, ServerTypeOK, FleetStates
<1>4. RestTypeOK /\ worker \in [Workers -> WorkerSet]
  BY <1>2, GoneType DEF Init, RestTypeOK, SupStates
<1> QED
  BY <1>3, <1>4 DEF TypeOK, ServerTypeOK, RestTypeOK

\* Every handler, worker step, tick of the watch and step of the clock keeps the
\* lease table, the run row and the workers within their types.
THEOREM TypeCorrect == Spec => []TypeOK
<1>1. Init => TypeOK
  BY TypeInit
<1>2. TypeOK /\ [Next]_vars => TypeOK'
  BY TypeStep
<1> QED
  BY <1>1, <1>2, PTL DEF Spec

-----------------------------------------------------------------------------
(* Why a lease id fences: for every number of slots, workers and faults, a *)
(* report is kept only from the worker its slot's lease was issued to.     *)
(*                                                                         *)
(* The invariant follows each id from the claim that issues it.  An id     *)
(* that was issued belongs to one slot and one worker for good: a lease    *)
(* that carries it has that slot's number and that holder, and a lease     *)
(* that no longer carries it never will again, since new ids only grow.    *)

\* id was issued to w for slot, and no lease says otherwise.
Fenced(rows, n, id, slot, w) ==
    /\ slot \in Slots /\ id # NoId /\ id < n
    /\ \A s \in Slots : rows[s].id = id => s = slot /\ rows[s].holder = w

LeasesIssued(rows, n) ==
    \A s \in Slots :
        /\ rows[s].id < n
        /\ rows[s].state \in Live => rows[s].id # NoId
        /\ \A r \in Slots : rows[r].id = rows[s].id /\ rows[s].id # NoId => r = s

WorkersFenced ==
    \A w \in Workers :
        IF Alive(w) THEN Fenced(lease, nextId, worker[w].id, worker[w].slot, w)
        ELSE worker[w].id = NoId

WorkersDistinct ==
    \A v, w \in Workers :
        worker[w].id # NoId /\ worker[v].id = worker[w].id => v = w

Speaks(m) == m.kind # "claim" => Fenced(lease, nextId, m.id, m.slot, m.w)

LateFenced == \A m \in late : Speaks(m)

Fencing ==
    /\ TypeOK
    /\ LeasesIssued(lease, nextId)
    /\ WorkersFenced
    /\ WorkersDistinct
    /\ LateFenced
    /\ ReportFromHolder

-----------------------------------------------------------------------------
(* What a step does to the ids: nothing, or one claim issues the next one. *)

SameOwner(s) == lease'[s].id = lease[s].id /\ lease'[s].holder = lease[s].holder

KeepsOwners == nextId' = nextId /\ \A s \in Slots : SameOwner(s)

Issues(s, w) ==
    /\ nextId' = nextId + 1
    /\ lease'[s].id = nextId /\ lease'[s].holder = w
    /\ \A r \in Slots \ {s} : SameOwner(r)

OwnersStep == KeepsOwners \/ \E s \in Slots, w \in Workers : Issues(s, w)

\* An id that is fenced stays fenced: new ids are larger than any issued.
LEMMA FencedKept ==
    ASSUME TypeOK, OwnersStep, NEW id \in Nat, NEW slot, NEW w,
           Fenced(lease, nextId, id, slot, w)
    PROVE  Fenced(lease', nextId', id, slot, w)
<1>1. id < nextId /\ nextId \in Nat /\ slot \in Slots /\ id # NoId
  BY DEF Fenced, TypeOK
<1>2. CASE KeepsOwners
  BY <1>2 DEF KeepsOwners, SameOwner, Fenced
<1>3. ASSUME NEW s \in Slots, NEW v \in Workers, Issues(s, v)
      PROVE  Fenced(lease', nextId', id, slot, w)
  <2>1. id < nextId' /\ id # nextId
    BY <1>1, <1>3 DEF Issues, Fenced
  <2> QED
    BY <1>1, <1>3, <2>1 DEF Issues, SameOwner, Fenced
<1> QED
  BY <1>2, <1>3 DEF OwnersStep

-----------------------------------------------------------------------------
(* The lease table.  Every step but a fresh claim and a report is quiet. *)

QuietRow(s) ==
    /\ SameOwner(s)
    /\ lease'[s].report = lease[s].report
    /\ lease'[s].state = "done" => lease[s].state = "done"
    /\ lease'[s].state \in Live => lease[s].id # NoId

Quiet == nextId' = nextId /\ \A s \in Slots : QuietRow(s)

LeaseEffect ==
    OwnersStep /\ LeasesIssued(lease', nextId') /\ ReportFromHolder'

\* A step that issues no id and adds no report keeps what leases promise.
LEMMA QuietEffect ==
    ASSUME LeasesIssued(lease, nextId), ReportFromHolder, Quiet
    PROVE  LeaseEffect
<1>1. OwnersStep
  BY DEF Quiet, QuietRow, OwnersStep, KeepsOwners
<1>2. LeasesIssued(lease', nextId')
  BY DEF Quiet, QuietRow, SameOwner, LeasesIssued
<1>3. ReportFromHolder'
  BY DEF Quiet, QuietRow, SameOwner, ReportFromHolder
<1> QED
  BY <1>1, <1>2, <1>3 DEF LeaseEffect

\* A request that speaks for its slot moves that slot's row and no other.
LEMMA SeenQuiet ==
    ASSUME TypeOK, LeasesIssued(lease, nextId), NEW s \in Slots, NEW st,
           lease' = [lease EXCEPT ![s] = Seen(@, st)],
           st = "done" => lease[s].state = "done", lease[s].id # NoId
    PROVE  \A r \in Slots : QuietRow(r)
<1>1. lease \in [Slots -> LeaseSet]
  BY DEF TypeOK
<1>2. QuietRow(s)
  BY <1>1 DEF Seen, QuietRow, SameOwner, LeaseSet
<1>3. ASSUME NEW r \in Slots \ {s} PROVE QuietRow(r)
  BY <1>1, <1>3 DEF QuietRow, SameOwner, LeasesIssued
<1> QED
  BY <1>2, <1>3

\* So does renewing a lease.
LEMMA AgeQuiet ==
    ASSUME TypeOK, LeasesIssued(lease, nextId), NEW s \in Slots,
           lease' = [lease EXCEPT ![s].age = 0]
    PROVE  \A r \in Slots : QuietRow(r)
BY DEF TypeOK, LeaseSet, QuietRow, SameOwner, LeasesIssued

\* Losing a lease changes its state and nothing of its owner or report.
LEMMA LoseQuiet ==
    ASSUME NEW rows \in [Slots -> LeaseSet], NEW S, NEW s \in Slots
    PROVE  /\ Lose(rows, S)[s].id = rows[s].id
           /\ Lose(rows, S)[s].holder = rows[s].holder
           /\ Lose(rows, S)[s].report = rows[s].report
           /\ Lose(rows, S)[s].state = IF s \in S THEN "lost" ELSE rows[s].state
BY DEF Lose, Seen, LeaseSet

-----------------------------------------------------------------------------
(* What a step does to a worker. *)

AliveNext(w) == worker'[w].phase \notin {"claiming", "gone"}

\* w is as it was, has given up what it held, or has heard of a lease of its own.
Keeps(w) ==
    /\ worker'[w].id = worker[w].id /\ worker'[w].slot = worker[w].slot
    /\ AliveNext(w) = Alive(w)
Drops(w) == worker'[w].id = NoId /\ ~AliveNext(w)
Gains(w) ==
    \E s \in Slots :
        /\ AliveNext(w) /\ worker'[w].slot = s
        /\ worker'[w].id = lease'[s].id /\ lease'[s].id # NoId
        /\ lease'[s].holder = w

Follows(w) == Keeps(w) \/ Drops(w) \/ Gains(w)

\* Workers stay fenced and distinct when each keeps its id, drops it, or takes
\* the one just issued.
LEMMA WorkersStep ==
    ASSUME Fencing, LeaseEffect, TypeOK', \A w \in Workers : Follows(w)
    PROVE  WorkersFenced' /\ WorkersDistinct'
<1> DEFINE FencedNext(w) == Fenced(lease', nextId', worker'[w].id, worker'[w].slot, w)
<1>1. ASSUME NEW w \in Workers
      PROVE  IF AliveNext(w) THEN FencedNext(w) ELSE worker'[w].id = NoId
  <2>1. CASE Keeps(w)
    <3>1. worker[w].id \in Nat
      BY DEF Fencing, TypeOK, WorkerSet
    <3>2. Alive(w) => Fenced(lease', nextId', worker[w].id, worker[w].slot, w)
      BY <3>1, FencedKept DEF Fencing, WorkersFenced, LeaseEffect
    <3>3. ~Alive(w) => worker[w].id = NoId
      BY DEF Fencing, WorkersFenced
    <3> QED
      BY <2>1, <3>2, <3>3 DEF Keeps
  <2>2. CASE Drops(w)
    BY <2>2 DEF Drops
  <2>3. CASE Gains(w)
    <3>1. PICK s \in Slots :
            /\ AliveNext(w) /\ worker'[w].slot = s
            /\ worker'[w].id = lease'[s].id /\ lease'[s].id # NoId
            /\ lease'[s].holder = w
      BY <2>3 DEF Gains
    <3> QED
      BY <3>1 DEF Fenced, LeaseEffect, LeasesIssued
  <2> QED
    BY <2>1, <2>2, <2>3 DEF Follows
<1>2. WorkersFenced'
  BY <1>1 DEF WorkersFenced, Alive, AliveNext
<1>3. ASSUME NEW v \in Workers, NEW w \in Workers,
             worker'[w].id # NoId, worker'[v].id = worker'[w].id
      PROVE  v = w
  <2>1. FencedNext(v) /\ FencedNext(w)
    BY <1>1, <1>3
  <2>2. CASE Gains(v) \/ Gains(w)
    BY <2>1, <2>2, <1>3 DEF Gains, Fenced
  <2>3. CASE Keeps(v) /\ Keeps(w)
    BY <2>3, <1>3 DEF Keeps, Fencing, WorkersDistinct
  <2> QED
    BY <2>2, <2>3, <1>3 DEF Follows, Drops
<1>4. WorkersDistinct'
  BY <1>3 DEF WorkersDistinct
<1> QED
  BY <1>2, <1>4

\* Calls in flight stay fenced: ids do not come back.
LEMMA LateStep ==
    ASSUME Fencing, LeaseEffect,
           \A m \in late' : m \in RequestSet /\ (m \in late \/ Speaks(m))
    PROVE  LateFenced'
<1>1. ASSUME NEW m \in late', m.kind # "claim"
      PROVE  Fenced(lease', nextId', m.id, m.slot, m.w)
  <2>1. m.id \in Nat
    BY DEF RequestSet
  <2>2. Fenced(lease, nextId, m.id, m.slot, m.w)
    BY <1>1 DEF Fencing, LateFenced, Speaks
  <2> QED
    BY <2>1, <2>2, FencedKept DEF Fencing, LeaseEffect
<1> QED
  BY <1>1 DEF LateFenced, Speaks

\* The three together: an effect on the leases and the workers keeps Fencing.
LEMMA FencingStep ==
    ASSUME Fencing, LeaseEffect, TypeOK', \A w \in Workers : Follows(w),
           \A m \in late' : m \in late \/ Speaks(m)
    PROVE  Fencing'
<1>1. \A m \in late' : m \in RequestSet
  BY DEF TypeOK
<1>2. WorkersFenced' /\ WorkersDistinct'
  BY WorkersStep
<1>3. LateFenced'
  BY <1>1, LateStep
<1>4. LeasesIssued(lease, nextId)' /\ ReportFromHolder'
  BY DEF LeaseEffect, LeasesIssued
<1> QED
  BY <1>2, <1>3, <1>4 DEF Fencing

-----------------------------------------------------------------------------
(* The handlers. *)

\* What a request is when its handler runs: it speaks for its slot if it is not
\* a claim, and an answer is heard only by a worker that waits for it.
Proper(m, heard) ==
    /\ Speaks(m)
    /\ heard => IF m.kind = "claim" THEN worker[m.w].phase = "claiming" ELSE Alive(m.w)

Effect == LeaseEffect /\ \A w \in Workers : Follows(w)

\* A worker that does not change follows.
LEMMA SameWorker ==
    ASSUME NEW w, worker'[w] = worker[w]
    PROVE  Follows(w)
BY DEF Follows, Keeps, AliveNext, Alive

\* The answer told to worker w is one it may hear.
LEMMA ToldFollows ==
    ASSUME worker \in [Workers -> WorkerSet], NEW w \in Workers,
           NEW heard \in BOOLEAN, NEW knows, Told(w, heard, knows),
           heard => \/ knows.id = worker[w].id /\ knows.slot = worker[w].slot
                       /\ (knows.phase \notin {"claiming", "gone"}) = Alive(w)
                    \/ knows.id = NoId /\ knows.phase = "gone"
    PROVE  \A v \in Workers : Follows(v)
<1>1. CASE ~heard
  BY <1>1, SameWorker DEF Told
<1>2. CASE heard
  <2>1. worker'[w] = knows
    BY <1>2 DEF Told
  <2>2. Follows(w)
    BY <2>1, <1>2 DEF Follows, Keeps, Drops, AliveNext
  <2>3. ASSUME NEW v \in Workers \ {w} PROVE Follows(v)
    BY <1>2, SameWorker DEF Told
  <2> QED
    BY <2>2, <2>3
<1> QED
  BY <1>1, <1>2

\* A worker that is told to go follows.
LEMMA GoneFollows ==
    ASSUME worker \in [Workers -> WorkerSet], NEW w \in Workers,
           NEW heard \in BOOLEAN, Told(w, heard, GoneWorker)
    PROVE  \A v \in Workers : Follows(v)
BY ToldFollows DEF GoneWorker, NewWorker

\* A handler that refuses has no effect on the leases.
LEMMA UnchangedEffect ==
    ASSUME Fencing, UNCHANGED server
    PROVE  LeaseEffect
<1>1. Quiet
  BY DEF server, Quiet, QuietRow, SameOwner, Fencing, LeasesIssued
<1> QED
  BY <1>1, QuietEffect DEF Fencing

\* A claim issues the next id, or repeats the one its holder has.
LEMMA ClaimEffect ==
    ASSUME Fencing, NEW m \in RequestSet, NEW heard \in BOOLEAN, Proper(m, heard),
           m.kind = "claim", Claim(m, heard)
    PROVE  Effect
<1> DEFINE w == m.w
<1>0. /\ w \in Workers /\ TypeOK /\ LeasesIssued(lease, nextId) /\ ReportFromHolder
      /\ worker \in [Workers -> WorkerSet] /\ lease \in [Slots -> LeaseSet]
  BY DEF RequestSet, Fencing, TypeOK
<1>1. ASSUME NEW s \in Slots, NEW id, id = lease'[s].id, id # NoId,
             lease'[s].holder = w, Told(w, heard, Granted(w, s, id))
      PROVE  \A v \in Workers : Follows(v)
  <2>1. CASE ~heard
    BY <2>1, <1>1, SameWorker DEF Told
  <2>2. CASE heard
    <3>1. worker'[w] = Granted(w, s, id)
      BY <2>2, <1>0, <1>1 DEF Told
    <3>2. Gains(w)
      BY <3>1, <1>0, <1>1 DEF Granted, WorkerSet, Gains, AliveNext
    <3>3. ASSUME NEW v \in Workers \ {w} PROVE Follows(v)
      BY <2>2, <1>1, SameWorker DEF Told
    <3> QED
      BY <3>2, <3>3 DEF Follows
  <2> QED
    BY <2>1, <2>2
<1>2. CASE ClaimAgain(w, heard)
  <2>1. PICK s \in HeldBy(w) :
          /\ lease' = [lease EXCEPT ![s].age = 0]
          /\ Told(w, heard, Granted(w, s, lease[s].id))
    BY <1>2 DEF ClaimAgain
  <2>2. s \in Slots /\ lease[s].holder = w /\ lease[s].id # NoId
    BY <1>0 DEF HeldBy, LeasesIssued
  <2>3. LeaseEffect
    BY <2>1, <2>2, <1>0, <1>2, AgeQuiet, QuietEffect DEF Quiet, ClaimAgain
  <2>4. lease'[s].id = lease[s].id /\ lease'[s].holder = lease[s].holder
    BY <2>1, <2>2, <1>0 DEF LeaseSet
  <2> QED
    BY <2>1, <2>2, <2>3, <2>4, <1>1 DEF Effect
<1>3. CASE ClaimFresh(w, heard)
  <2>1. PICK s \in Claimable(w) :
          /\ lease' = [lease EXCEPT ![s] = [Seen(@, "claimed") EXCEPT
                                              !.id = FreshId(s), !.holder = w]]
          /\ Told(w, heard, Granted(w, s, FreshId(s)))
    BY <1>3 DEF ClaimFresh
  <2>2. s \in Slots
    BY <1>0, HintAssumption DEF Claimable
  <2>3. nextId \in Nat \ {0} /\ nextId' = nextId + 1
    BY <1>0, <1>3 DEF TypeOK, ClaimFresh
  <2>4. /\ lease'[s].id = nextId /\ lease'[s].holder = w /\ lease'[s].state = "claimed"
        /\ \A r \in Slots \ {s} : lease'[r] = lease[r]
    BY <2>1, <2>2, <1>0 DEF FreshId, Seen, LeaseSet
  <2>5. OwnersStep
    BY <2>2, <2>3, <2>4, <1>0 DEF OwnersStep, Issues, SameOwner
  <2>6. LeasesIssued(lease', nextId')
    <3>1. \A r \in Slots : lease[r].id \in Nat
      BY <1>0 DEF LeaseSet
    <3> QED
      BY <3>1, <2>2, <2>3, <2>4, <1>0 DEF LeasesIssued
  <2>7. ReportFromHolder'
    BY <2>2, <2>4, <1>0 DEF ReportFromHolder
  <2>8. \A v \in Workers : Follows(v)
    BY <2>1, <2>2, <2>3, <2>4, <1>1 DEF FreshId
  <2> QED
    BY <2>5, <2>6, <2>7, <2>8 DEF Effect, LeaseEffect
<1>4. CASE ClaimRefused(w)
  BY <1>4, UnchangedEffect, SameWorker DEF ClaimRefused, Effect
<1> QED
  BY <1>2, <1>3, <1>4 DEF Claim

\* A request from the holder: its slot is in the table and its lease was issued.
LEMMA HolderSpeaks ==
    ASSUME NEW m, Speaks(m), m.kind # "claim", IsHolder(m)
    PROVE  m.slot \in Slots /\ lease[m.slot].id # NoId /\ lease[m.slot].holder = m.w
BY DEF Speaks, Fenced, IsHolder

\* mark_ready keeps owners and reports.
LEMMA ReadyEffect ==
    ASSUME Fencing, NEW m \in RequestSet, NEW heard \in BOOLEAN, Proper(m, heard),
           m.kind # "claim", Ready(m, heard)
    PROVE  Effect
<1>0. /\ m.w \in Workers /\ TypeOK /\ LeasesIssued(lease, nextId) /\ ReportFromHolder
      /\ worker \in [Workers -> WorkerSet] /\ lease \in [Slots -> LeaseSet]
      /\ Speaks(m) /\ (heard => Alive(m.w))
  BY DEF RequestSet, Fencing, TypeOK, Proper
<1>1. CASE MarkReady(m, heard)
  <2>1. m.slot \in Slots /\ lease[m.slot].id # NoId
    BY <1>0, <1>1, HolderSpeaks DEF MarkReady
  <2>2. ReadyAgain(lease[m.slot].state) = "done" => lease[m.slot].state = "done"
    BY DEF ReadyAgain
  <2>3. lease' = [lease EXCEPT ![m.slot] = Seen(@, ReadyAgain(lease[m.slot].state))]
    BY <1>0, <1>1 DEF MarkReady
  <2>4. LeaseEffect
    BY <1>0, <1>1, <2>1, <2>2, <2>3, SeenQuiet, QuietEffect DEF MarkReady, Quiet
  <2>5. \A v \in Workers : Follows(v)
    <3> DEFINE known == IF t0' # NoT0 THEN t0' ELSE worker[m.w].t0
               let   == worker[m.w].released \/ known # NoT0
               knows == [worker[m.w] EXCEPT !.phase = "waiting", !.t0 = known,
                                           !.released = let]
    <3>1. Told(m.w, heard, knows)
      BY <1>1 DEF MarkReady
    <3>2. /\ knows.id = worker[m.w].id /\ knows.slot = worker[m.w].slot
          /\ knows.phase = "waiting"
      <4> HIDE DEF known, let
      <4> QED
        BY <1>0 DEF WorkerSet
    <3> HIDE DEF knows
    <3>3. heard => (knows.phase \notin {"claiming", "gone"}) = Alive(m.w)
      BY <3>2, <1>0 DEF Alive
    <3> QED
      BY <1>0, <3>1, <3>2, <3>3, ToldFollows
  <2> QED
    BY <2>4, <2>5 DEF Effect
<1>2. CASE ReadySuperseded(m, heard)
  BY <1>0, <1>2, UnchangedEffect, GoneFollows DEF ReadySuperseded, Effect
<1>3. CASE ReadyRefused
  BY <1>3, UnchangedEffect, SameWorker DEF ReadyRefused, Effect
<1> QED
  BY <1>1, <1>2, <1>3 DEF Ready

\* final keeps owners, and the report it adds is from the holder.
LEMMA FinalEffect ==
    ASSUME Fencing, NEW m \in RequestSet, NEW heard \in BOOLEAN, Proper(m, heard),
           m.kind # "claim", Final(m, heard)
    PROVE  Effect
<1>0. /\ m.w \in Workers /\ TypeOK /\ LeasesIssued(lease, nextId) /\ ReportFromHolder
      /\ worker \in [Workers -> WorkerSet] /\ lease \in [Slots -> LeaseSet]
      /\ Speaks(m)
  BY DEF RequestSet, Fencing, TypeOK, Proper
<1>1. CASE /\ IsHolder(m)
           /\ lease' = [lease EXCEPT ![m.slot] =
                [Seen(@, "done") EXCEPT !.report = [by |-> m.w, outcome |-> m.outcome]]]
           /\ Told(m.w, heard, GoneWorker)
           /\ UNCHANGED <<runRow, nextId>>
  <2>1. m.slot \in Slots /\ lease[m.slot].id # NoId /\ lease[m.slot].holder = m.w
    BY <1>0, <1>1, HolderSpeaks
  <2>2. /\ lease'[m.slot].state = "done" /\ SameOwner(m.slot)
        /\ lease'[m.slot].report = [by |-> m.w, outcome |-> m.outcome]
        /\ \A r \in Slots \ {m.slot} : lease'[r] = lease[r]
    BY <1>0, <1>1, <2>1 DEF Seen, SameOwner, LeaseSet
  <2>3. lease'[m.slot].report # NoReport
    BY <1>0, <2>2, WorkersAssumption DEF NoReport
  <2>4. OwnersStep
    BY <1>1, <2>2 DEF OwnersStep, KeepsOwners, SameOwner
  <2>5. LeasesIssued(lease', nextId')
    BY <1>0, <1>1, <2>1, <2>2 DEF LeasesIssued, SameOwner, Live
  <2>6. ReportFromHolder'
    BY <1>0, <2>1, <2>2, <2>3 DEF ReportFromHolder, SameOwner
  <2> QED
    BY <1>0, <1>1, <2>4, <2>5, <2>6, GoneFollows DEF Effect, LeaseEffect
<1>2. CASE Told(m.w, heard, GoneWorker) /\ UNCHANGED server
  BY <1>0, <1>2, UnchangedEffect, GoneFollows DEF Effect
<1>3. CASE UNCHANGED <<server, worker>>
  BY <1>3, UnchangedEffect, SameWorker DEF Effect
<1> QED
  BY <1>1, <1>2, <1>3 DEF Final

\* heartbeat keeps owners and reports, and restores no lease that is done.
LEMMA HeartbeatEffect ==
    ASSUME Fencing, NEW m \in RequestSet, NEW heard \in BOOLEAN, Proper(m, heard),
           m.kind # "claim", Heartbeat(m, heard)
    PROVE  Effect
<1>0. /\ m.w \in Workers /\ TypeOK /\ LeasesIssued(lease, nextId) /\ ReportFromHolder
      /\ worker \in [Workers -> WorkerSet] /\ lease \in [Slots -> LeaseSet]
      /\ Speaks(m) /\ worker[m.w] \in WorkerSet
  BY DEF RequestSet, Fencing, TypeOK, Proper
<1>1. \A when : LET knows == HeardRelease(m.w, when) IN
        /\ knows.id = worker[m.w].id /\ knows.slot = worker[m.w].slot
        /\ knows.phase = worker[m.w].phase
  BY <1>0 DEF HeardRelease, WorkerSet
<1>2. /\ HeardStop(m.w).id = worker[m.w].id /\ HeardStop(m.w).slot = worker[m.w].slot
      /\ HeardStop(m.w).phase = worker[m.w].phase
      /\ HeardStop(m.w) \in WorkerSet
  BY <1>0, StopType DEF HeardStop, WorkerSet
<1>3. IsHolder(m) => m.slot \in Slots /\ lease[m.slot].id # NoId
  BY <1>0, HolderSpeaks
<1>4. Restored(m) = "done" => lease[m.slot].state = "done"
  BY DEF Restored
<1>5. ASSUME NEW knows, Told(m.w, heard, knows),
             knows.id = worker[m.w].id, knows.slot = worker[m.w].slot,
             knows.phase = worker[m.w].phase
      PROVE  \A v \in Workers : Follows(v)
  BY <1>0, <1>5, ToldFollows DEF Alive
<1>6. CASE BeatFenced(m, heard)
  <2>1. LET knows == [HeardStop(m.w) EXCEPT !.superseded = TRUE] IN
          /\ knows.id = worker[m.w].id /\ knows.slot = worker[m.w].slot
          /\ knows.phase = worker[m.w].phase
    BY <1>2 DEF WorkerSet
  <2> QED
    BY <1>5, <1>6, <2>1, UnchangedEffect DEF BeatFenced, Effect
<1>7. CASE BeatStops(m, heard)
  <2>1. LeaseEffect
    BY <1>0, <1>3, <1>7, AgeQuiet, QuietEffect DEF BeatStops, Quiet
  <2> QED
    BY <1>2, <1>5, <1>7, <2>1 DEF BeatStops, Effect
<1>8. CASE BeatBeforeT0(m, heard)
  <2>1. lease' = [lease EXCEPT ![m.slot] = Seen(@, Restored(m))]
    BY <1>8 DEF BeatBeforeT0
  <2>2. LeaseEffect
    BY <1>0, <1>3, <1>4, <1>8, <2>1, SeenQuiet, QuietEffect DEF BeatBeforeT0, Quiet
  <2>3. \A v \in Workers : Follows(v)
    BY <1>1, <1>5, <1>8 DEF BeatBeforeT0
  <2> QED
    BY <2>2, <2>3 DEF Effect
<1>9. CASE BeatRepeatsT0(m, heard)
  <2>1. lease' = [lease EXCEPT ![m.slot] = Seen(@, Restored(m))]
    BY <1>9 DEF BeatRepeatsT0
  <2>2. LeaseEffect
    BY <1>0, <1>3, <1>4, <1>9, <2>1, SeenQuiet, QuietEffect DEF BeatRepeatsT0, Quiet
  <2>3. \A v \in Workers : Follows(v)
    BY <1>1, <1>5, <1>9 DEF BeatRepeatsT0
  <2> QED
    BY <2>2, <2>3 DEF Effect
<1>10. CASE BeatUnderway(m, heard)
  <2> DEFINE st == IF Restored(m) \in {"claimed", "ready"} THEN "running"
                   ELSE Restored(m)
  <2>1. lease' = [lease EXCEPT ![m.slot] = Seen(@, st)]
    BY <1>10 DEF BeatUnderway
  <2>2. st = "done" => lease[m.slot].state = "done"
    BY <1>4
  <2> HIDE DEF st
  <2>3. LeaseEffect
    BY <1>0, <1>3, <1>10, <2>1, <2>2, SeenQuiet, QuietEffect DEF BeatUnderway, Quiet
  <2> QED
    BY <1>10, <2>3, SameWorker DEF BeatUnderway, Effect
<1>11. CASE BeatRefused
  BY <1>11, UnchangedEffect, SameWorker DEF BeatRefused, Effect
<1> QED
  BY <1>6, <1>7, <1>8, <1>9, <1>10, <1>11 DEF Heartbeat

\* Every handler has such an effect.
LEMMA HandleEffect ==
    ASSUME Fencing, NEW m \in RequestSet, NEW heard \in BOOLEAN, Proper(m, heard),
           Handle(m, heard)
    PROVE  Effect
BY ClaimEffect, ReadyEffect, HeartbeatEffect, FinalEffect DEF Handle

-----------------------------------------------------------------------------
(* The steps of the specification. *)

\* A worker that moves on by itself keeps its lease or is gone.
LEMMA BecomesEffect ==
    ASSUME Fencing, NEW w \in Workers, NEW knows, Becomes(w, knows),
           \/ knows.id = worker[w].id /\ knows.slot = worker[w].slot
              /\ (knows.phase \notin {"claiming", "gone"}) = Alive(w)
           \/ knows.id = NoId /\ knows.phase = "gone"
    PROVE  Effect /\ late' = late
<1>1. LeaseEffect /\ late' = late
  BY UnchangedEffect DEF Becomes
<1>2. Told(w, TRUE, knows) /\ worker \in [Workers -> WorkerSet]
  BY DEF Becomes, Told, Fencing, TypeOK
<1>3. \A v \in Workers : Follows(v)
  BY <1>2, ToldFollows
<1> QED
  BY <1>1, <1>3 DEF Effect

\* What a worker sends speaks for the lease it was issued.
LEMMA RequestSpeaks ==
    ASSUME Fencing, NEW w \in Workers, NEW kind \in Kinds(w)
    PROVE  Speaks(Request(w, kind)) /\ Proper(Request(w, kind), TRUE)
<1>1. kind = "claim" => worker[w].phase = "claiming"
  BY DEF Kinds, MainCall
<1>2. kind # "claim" => Alive(w)
  BY DEF Kinds, MainCall, Beating, Alive
<1>3. /\ Request(w, kind).kind = kind /\ Request(w, kind).w = w
      /\ Request(w, kind).id = worker[w].id /\ Request(w, kind).slot = worker[w].slot
  BY DEF Request
<1>4. Speaks(Request(w, kind))
  BY <1>2, <1>3 DEF Fencing, WorkersFenced, Speaks
<1> QED
  BY <1>1, <1>2, <1>3, <1>4 DEF Proper

\* Fencing survives every step of a worker ...
LEMMA WorkerStepFencing ==
    ASSUME Fencing, TypeOK', NEW w \in Workers, WorkerStep(w)
    PROVE  Fencing'
<1>0. worker[w] \in WorkerSet /\ TypeOK
  BY DEF Fencing, TypeOK
<1>1. ASSUME NEW kind \in {"claim", "ready", "heartbeat", "final"}, Call(w, kind)
      PROVE  Fencing'
  <2>1. PICK heard \in BOOLEAN : Handle(Request(w, kind), heard)
    BY <1>1 DEF Call
  <2>2. kind \in Kinds(w) /\ late' = late
    BY <1>1 DEF Call
  <2>3. Proper(Request(w, kind), heard) /\ Request(w, kind) \in RequestSet
    BY <1>0, <2>2, RequestSpeaks, RequestType DEF Proper
  <2>4. Effect
    BY <2>1, <2>3, HandleEffect
  <2> QED
    BY <2>2, <2>4, FencingStep DEF Effect
<1>2. CASE Delay(w)
  <2>1. PICK kind \in Kinds(w) : late' = late \cup {Request(w, kind)}
    BY <1>2 DEF Delay
  <2>2. \A m \in late' : m \in late \/ Speaks(m)
    BY <2>1, RequestSpeaks
  <2>3. LeaseEffect /\ \A v \in Workers : Follows(v)
    BY <1>2, UnchangedEffect, SameWorker DEF Delay
  <2> QED
    BY <2>2, <2>3, FencingStep
<1>3. CASE \/ FailToStart(w) \/ WarmedUp(w) \/ StartLoad(w) \/ FinishLoad(w)
           \/ WorkerStopped(w) \/ WorkerDies(w) \/ DeadMan(w) \/ GivesUp(w)
  <2>1. PICK knows :
          /\ Becomes(w, knows)
          /\ \/ knows.id = worker[w].id /\ knows.slot = worker[w].slot
                /\ (knows.phase \notin {"claiming", "gone"}) = Alive(w)
             \/ knows.id = NoId /\ knows.phase = "gone"
    <3> DEFINE Same(k) == k.id = worker[w].id /\ k.slot = worker[w].slot
                          /\ (k.phase \notin {"claiming", "gone"}) = Alive(w)
               Gone(k) == k.id = NoId /\ k.phase = "gone"
    <3>1. Gone(GoneWorker)
      BY DEF GoneWorker, NewWorker
    <3>2. Same(HeardStop(w))
      BY <1>0 DEF HeardStop, WorkerSet, Alive
    <3>3. Alive(w) => \A o : \A p \in {"failing", "ready", "running", "finishing"} :
             /\ Same([worker[w] EXCEPT !.phase = p, !.outcome = o])
             /\ Same([worker[w] EXCEPT !.phase = p])
      BY <1>0 DEF WorkerSet, Alive
    <3>4. CASE FailToStart(w) \/ WarmedUp(w) \/ StartLoad(w) \/ FinishLoad(w)
      <4>1. Alive(w)
        BY <3>4 DEF FailToStart, WarmedUp, StartLoad, FinishLoad, Alive
      <4> HIDE DEF Same, Gone
      <4>2. \E k : Becomes(w, k) /\ (Same(k) \/ Gone(k))
        BY <3>1, <3>3, <3>4, <4>1 DEF FailToStart, WarmedUp, StartLoad, FinishLoad
      <4> QED
        BY <4>2 DEF Same, Gone
    <3>5. CASE WorkerStopped(w) \/ DeadMan(w)
      BY <3>2, <3>5 DEF WorkerStopped, DeadMan
    <3>6. CASE WorkerDies(w) \/ GivesUp(w)
      BY <3>1, <3>6 DEF WorkerDies, GivesUp
    <3> QED
      BY <1>3, <3>4, <3>5, <3>6
  <2>2. Effect /\ late' = late
    BY <2>1, BecomesEffect
  <2> QED
    BY <2>2, FencingStep DEF Effect
<1> QED
  BY <1>1, <1>2, <1>3 DEF WorkerStep

\* ... every late delivery ...
LEMMA DeliverLateFencing ==
    ASSUME Fencing, TypeOK', DeliverLate
    PROVE  Fencing'
<1>1. PICK m \in late : Handle(m, FALSE) /\ late' = late \ {m}
  BY DEF DeliverLate
<1>2. m \in RequestSet /\ Proper(m, FALSE)
  BY DEF Fencing, TypeOK, LateFenced, Proper
<1>3. Effect
  BY <1>1, <1>2, HandleEffect
<1> QED
  BY <1>1, <1>3, FencingStep DEF Effect

\* The supervisor and the clock move states and ages, never ids or reports.
LEMMA LoseEffect ==
    ASSUME Fencing, nextId' = nextId,
           \A s \in Slots :
              /\ SameOwner(s) /\ lease'[s].report = lease[s].report
              /\ lease'[s].state \in {lease[s].state, "lost"}
    PROVE  LeaseEffect
<1>1. Quiet
  BY DEF Quiet, QuietRow, Fencing, LeasesIssued, Live
<1> QED
  BY <1>1, QuietEffect DEF Fencing

\* ... and every step of the supervisor, the operator and the clock.
LEMMA SupervisorFencing ==
    ASSUME Fencing, TypeOK', Stop \/ Supervise \/ Pass \/ UNCHANGED vars
    PROVE  Fencing'
<1>0. lease \in [Slots -> LeaseSet]
  BY DEF Fencing, TypeOK
<1> DEFINE OnlyLost(rows) == \A s \in Slots :
             /\ rows[s].id = lease[s].id /\ rows[s].holder = lease[s].holder
             /\ rows[s].report = lease[s].report
             /\ rows[s].state \in {lease[s].state, "lost"}
<1>1. ASSUME NEW rows \in [Slots -> LeaseSet], OnlyLost(rows), NEW S
      PROVE  OnlyLost(Lose(rows, S)) /\ Lose(rows, S) \in [Slots -> LeaseSet]
  BY <1>1, LoseQuiet, LoseType
<1>2. OnlyLost(lease)
  OBVIOUS
<1> HIDE DEF OnlyLost
<1>3. CASE WatchTick
  <2>1. Lapsed \in [Slots -> LeaseSet] /\ OnlyLost(Lapsed)
    BY <1>0, <1>1, <1>2 DEF Lapsed
  <2>2. \A S : Lose(Lapsed, S) \in [Slots -> LeaseSet] /\ OnlyLost(Lose(Lapsed, S))
    BY <2>1, <1>1
  <2>3. PICK rows \in [Slots -> LeaseSet] :
          OnlyLost(rows) /\ \E when : Conclude(rows, when)
    BY <1>3, <2>1, <2>2 DEF WatchTick
  <2>4. OnlyLost(lease')
    BY <1>1, <2>3 DEF Conclude
  <2>5. LeaseEffect
    BY <1>3, <2>4, LoseEffect DEF WatchTick, OnlyLost, SameOwner
  <2> QED
    BY <1>3, <2>5, SameWorker, FencingStep DEF WatchTick
<1>4. CASE MergeReports
  <2>1. OnlyLost(lease')
    BY <1>0, <1>1, <1>2, <1>4 DEF MergeReports
  <2>2. LeaseEffect
    BY <1>4, <2>1, LoseEffect DEF MergeReports, OnlyLost, SameOwner
  <2> QED
    BY <1>4, <2>2, SameWorker, FencingStep DEF MergeReports
<1>5. CASE Pass
  <2>1. LeaseEffect
    <3>1. \A s \in Slots : lease'[s].id = lease[s].id /\ lease'[s].holder = lease[s].holder
             /\ lease'[s].report = lease[s].report /\ lease'[s].state = lease[s].state
      BY <1>0, <1>5 DEF Pass, Older, LeaseSet
    <3> QED
      BY <3>1, <1>5, LoseEffect DEF Pass, SameOwner
  <2> QED
    BY <1>5, <2>1, SameWorker, FencingStep DEF Pass
<1>6. CASE DestroyAndForget
  <2>1. \A w \in Workers : Follows(w)
    BY <1>6 DEF DestroyAndForget, Follows, Drops, AliveNext, GoneWorker, NewWorker
  <2> QED
    BY <1>6, <2>1, UnchangedEffect, FencingStep DEF DestroyAndForget
<1>7. CASE Stop \/ StartWatch \/ WriteResult \/ SupervisorFails \/ UNCHANGED vars
  <2>1. UNCHANGED <<lease, nextId, worker, late>>
    BY <1>7 DEF Stop, StartWatch, WriteResult, SupervisorFails, vars, server
  <2>2. LeaseEffect
    BY <2>1, LoseEffect DEF SameOwner
  <2> QED
    BY <2>1, <2>2, SameWorker, FencingStep
<1> QED
  BY <1>3, <1>4, <1>5, <1>6, <1>7 DEF Supervise

\* Fencing is inductive ...
LEMMA FencingNext ==
    ASSUME Fencing, [Next]_vars
    PROVE  Fencing'
<1>1. TypeOK'
  BY TypeStep DEF Fencing
<1> QED
  BY <1>1, WorkerStepFencing, DeliverLateFencing, SupervisorFencing DEF Next

\* ... and holds at the start.
LEMMA FencingInit ==
    ASSUME Init
    PROVE  Fencing
<1>1. LeasesIssued(lease, nextId) /\ ReportFromHolder
  BY DEF Init, LeasesIssued, ReportFromHolder, FreeLease, Live
<1>2. \A w \in Workers : ~Alive(w) /\ worker[w].id = NoId
  BY DEF Init, NewWorker, Alive
<1>3. WorkersFenced /\ WorkersDistinct /\ LateFenced
  BY <1>2 DEF Init, WorkersFenced, WorkersDistinct, LateFenced
<1> QED
  BY <1>1, <1>3, TypeInit DEF Fencing

\* The fence: every lease id in a lease, in a worker or in a call under way belongs
\* to the one slot and the one worker it was issued to.
THEOREM FencingInvariant == Spec => []Fencing
<1>1. Init => Fencing
  BY FencingInit
<1>2. Fencing /\ [Next]_vars => Fencing'
  BY FencingNext
<1> QED
  BY <1>1, <1>2, PTL DEF Spec

\* A slot's report is its holder's, however often its lease changed hands and
\* whatever was retried, repeated or delivered late.
THEOREM ReportsAreTheHolders == Spec => []ReportFromHolder
<1>1. Fencing => ReportFromHolder
  BY DEF Fencing
<1> QED
  BY <1>1, FencingInvariant, PTL

\* No lease is believed by two workers, and a current one is believed rightly.
THEOREM HoldersDoAgree == Spec => []HoldersAgree
<1>1. Fencing => HoldersAgree
  BY DEF Fencing, HoldersAgree, WorkersDistinct, WorkersFenced, Fenced
<1> QED
  BY <1>1, FencingInvariant, PTL

-----------------------------------------------------------------------------
(* The start and the refinement: the fleet is released once, whole, and    *)
(* its workers load from that one T0; a worker that retries its claim      *)
(* holds one lease; and every step is a step of SlotClaims.                *)

-----------------------------------------------------------------------------
(* The release.  What a worker knows of T0 is the run's T0; a worker that   *)
(* is let go without a stop knows it; and one that loads was let go.        *)

Released(k, when) ==
    /\ k.t0 # NoT0 => k.t0 = when
    /\ k.released /\ ~k.stop => k.t0 # NoT0
    /\ k.phase = "running" => k.released

AllReleased == \A w \in Workers : Released(worker[w], t0)

ReleaseInv == TypeOK /\ AllReleased

\* What ReleaseIsWhole says of one step.
WholeRelease ==
    t0' # t0 => /\ t0 = NoT0
                /\ SomeReady(lease) \/ SomeReady(lease')
                /\ NonePending(lease')

T0Once == t0' # t0 => t0 = NoT0

\* A worker that does not change goes on knowing what it knew.
LEMMA ReleasedKept ==
    ASSUME NEW k, Released(k, t0), T0Once
    PROVE  Released(k, t0')
BY DEF Released, T0Once

\* A worker that hears an answer it may hear knows the run's T0 and no other.
LEMMA ToldReleased ==
    ASSUME ReleaseInv, NEW w \in Workers, NEW heard \in BOOLEAN, NEW knows,
           Told(w, heard, knows), Released(knows, t0'), T0Once
    PROVE  AllReleased'
<1>1. ASSUME NEW v \in Workers
      PROVE  Released(worker'[v], t0')
  <2>1. Released(worker[v], t0')
    BY ReleasedKept DEF ReleaseInv, AllReleased
  <2> QED
    BY <2>1 DEF Told, ReleaseInv, TypeOK
<1> QED
  BY <1>1 DEF AllReleased

\* Nothing changes for the workers.
LEMMA SameReleased ==
    ASSUME ReleaseInv, worker' = worker, T0Once
    PROVE  AllReleased'
BY ReleasedKept DEF ReleaseInv, AllReleased

\* What a worker may hear: a lease, a stop, the release, or that it must go.
LEMMA HeardReleased ==
    ASSUME ReleaseInv, NEW w \in Workers, T0Once
    PROVE  /\ Released(GoneWorker, t0')
           /\ Released(HeardStop(w), t0')
           /\ Released([HeardStop(w) EXCEPT !.superseded = TRUE], t0')
           /\ t0' # NoT0 => Released(HeardRelease(w, t0'), t0')
           /\ \A s \in Slots, id \in Nat : Released(Granted(w, s, id), t0')
<1>1. worker[w] \in WorkerSet /\ Released(worker[w], t0')
  BY ReleasedKept DEF ReleaseInv, TypeOK, AllReleased
<1>2. Released(GoneWorker, t0')
  BY DEF Released, GoneWorker, NewWorker
<1>3. Released(HeardStop(w), t0') /\ HeardStop(w) \in WorkerSet
  BY <1>1 DEF Released, HeardStop, WorkerSet
<1>4. Released([HeardStop(w) EXCEPT !.superseded = TRUE], t0')
  BY <1>3 DEF Released, WorkerSet
<1>5. t0' # NoT0 => Released(HeardRelease(w, t0'), t0')
  BY <1>1 DEF Released, HeardRelease, WorkerSet
<1>6. \A s \in Slots, id \in Nat : Released(Granted(w, s, id), t0')
  BY <1>1 DEF Released, Granted, WorkerSet
<1> QED
  BY <1>2, <1>3, <1>4, <1>5, <1>6

\* evaluate_release sets T0 once, with somebody ready and nobody on the way.
LEMMA EvaluateWhole ==
    ASSUME EvaluateRelease(lease')
    PROVE  WholeRelease /\ T0Once
BY DEF EvaluateRelease, Unreleased, WholeRelease, T0Once

\* claim does not release.
LEMMA ClaimReleases ==
    ASSUME ReleaseInv, NEW m \in RequestSet, NEW heard \in BOOLEAN, Claim(m, heard)
    PROVE  WholeRelease /\ AllReleased'
<1>1. m.w \in Workers /\ lease \in [Slots -> LeaseSet]
  BY DEF RequestSet, ReleaseInv, TypeOK
<1>2. t0' = t0 /\ WholeRelease /\ T0Once
  BY DEF Claim, ClaimAgain, ClaimFresh, ClaimRefused, runRow, server, WholeRelease, T0Once
<1>3. CASE ClaimAgain(m.w, heard)
  <2>1. PICK s \in HeldBy(m.w) : Told(m.w, heard, Granted(m.w, s, lease[s].id))
    BY <1>3 DEF ClaimAgain
  <2>2. s \in Slots /\ lease[s].id \in Nat
    BY <1>1 DEF HeldBy, LeaseSet
  <2> QED
    BY <1>1, <1>2, <2>1, <2>2, ToldReleased, HeardReleased
<1>4. CASE ClaimFresh(m.w, heard)
  <2>1. PICK s \in Claimable(m.w) : Told(m.w, heard, Granted(m.w, s, FreshId(s)))
    BY <1>4 DEF ClaimFresh
  <2>2. s \in Slots /\ FreshId(s) \in Nat
    BY <1>1, HintAssumption DEF Claimable, FreshId, ReleaseInv, TypeOK
  <2> QED
    BY <1>1, <1>2, <2>1, <2>2, ToldReleased, HeardReleased
<1>5. CASE ClaimRefused(m.w)
  BY <1>2, <1>5, SameReleased DEF ClaimRefused
<1> QED
  BY <1>2, <1>3, <1>4, <1>5 DEF Claim

\* mark_ready may, and its answer carries the T0 there is then.
LEMMA ReadyReleases ==
    ASSUME ReleaseInv, NEW m \in RequestSet, NEW heard \in BOOLEAN, Ready(m, heard)
    PROVE  WholeRelease /\ AllReleased'
<1>1. m.w \in Workers /\ worker[m.w] \in WorkerSet
  BY DEF RequestSet, ReleaseInv, TypeOK
<1>2. CASE MarkReady(m, heard)
  <2> DEFINE known == IF t0' # NoT0 THEN t0' ELSE worker[m.w].t0
             let   == worker[m.w].released \/ known # NoT0
             knows == [worker[m.w] EXCEPT !.phase = "waiting", !.t0 = known,
                                         !.released = let]
  <2>1. WholeRelease /\ T0Once
    BY <1>2, EvaluateWhole DEF MarkReady
  <2>2. Told(m.w, heard, knows)
    BY <1>2 DEF MarkReady
  <2>3. Released(worker[m.w], t0')
    BY <1>1, <2>1, ReleasedKept DEF ReleaseInv, AllReleased
  <2>4. /\ known # NoT0 => known = t0'
        /\ let => worker[m.w].released \/ known # NoT0
        /\ worker[m.w].t0 # NoT0 => known # NoT0
    BY <2>3 DEF Released
  <2>5. Released(knows, t0')
    <3>1. /\ knows.phase = "waiting" /\ knows.t0 = known /\ knows.released = let
          /\ knows.stop = worker[m.w].stop
      <4> HIDE DEF known, let
      <4> QED
        BY <1>1 DEF WorkerSet
    <3> HIDE DEF knows, known, let
    <3> QED
      BY <2>3, <2>4, <3>1 DEF Released
  <2> HIDE DEF knows
  <2> QED
    BY <1>1, <2>1, <2>2, <2>5, ToldReleased
<1>3. CASE ReadySuperseded(m, heard)
  <2>1. WholeRelease /\ T0Once
    BY <1>3 DEF ReadySuperseded, server, runRow, WholeRelease, T0Once
  <2> QED
    BY <1>1, <1>3, <2>1, ToldReleased, HeardReleased DEF ReadySuperseded
<1>4. CASE ReadyRefused
  <2>1. WholeRelease /\ T0Once
    BY <1>4 DEF ReadyRefused, server, runRow, WholeRelease, T0Once
  <2> QED
    BY <1>4, <2>1, SameReleased DEF ReadyRefused
<1> QED
  BY <1>2, <1>3, <1>4 DEF Ready

\* heartbeat may, when the lease it finds is ready, and repeats T0 afterwards.
LEMMA HeartbeatReleases ==
    ASSUME ReleaseInv, NEW m \in RequestSet, NEW heard \in BOOLEAN, Heartbeat(m, heard)
    PROVE  WholeRelease /\ AllReleased'
<1>1. m.w \in Workers /\ worker[m.w] \in WorkerSet
  BY DEF RequestSet, ReleaseInv, TypeOK
<1>2. CASE BeatBeforeT0(m, heard)
  <2>1. WholeRelease /\ T0Once
    BY <1>2, EvaluateWhole DEF BeatBeforeT0, WholeRelease, T0Once
  <2>2. CASE t0' = NoT0
    <3>1. Told(m.w, heard, worker[m.w])
      BY <1>2, <2>2 DEF BeatBeforeT0
    <3>2. Released(worker[m.w], t0')
      BY <1>1, <2>1, ReleasedKept DEF ReleaseInv, AllReleased
    <3> QED
      BY <1>1, <2>1, <3>1, <3>2, ToldReleased
  <2>3. CASE t0' # NoT0
    BY <1>1, <1>2, <2>1, <2>3, ToldReleased, HeardReleased DEF BeatBeforeT0
  <2> QED
    BY <2>1, <2>2, <2>3
<1>3. CASE ~BeatBeforeT0(m, heard)
  <2>1. t0' = t0
    BY <1>3 DEF Heartbeat, BeatFenced, BeatStops, BeatRepeatsT0, BeatUnderway,
       BeatRefused, server, runRow
  <2>2. WholeRelease /\ T0Once
    BY <2>1 DEF WholeRelease, T0Once
  <2>3. CASE BeatFenced(m, heard) \/ BeatStops(m, heard)
    BY <1>1, <2>2, <2>3, ToldReleased, HeardReleased DEF BeatFenced, BeatStops
  <2>4. CASE BeatRepeatsT0(m, heard)
    BY <1>1, <2>1, <2>2, <2>4, ToldReleased, HeardReleased DEF BeatRepeatsT0
  <2>5. CASE BeatUnderway(m, heard) \/ BeatRefused
    BY <2>2, <2>5, SameReleased DEF BeatUnderway, BeatRefused
  <2> QED
    BY <1>3, <2>2, <2>3, <2>4, <2>5 DEF Heartbeat
<1> QED
  BY <1>2, <1>3

\* final does not, so no handler releases a fleet by halves.
LEMMA HandleReleases ==
    ASSUME ReleaseInv, NEW m \in RequestSet, NEW heard \in BOOLEAN, Handle(m, heard)
    PROVE  WholeRelease /\ AllReleased'
<1>1. CASE Final(m, heard)
  <2>1. m.w \in Workers
    BY DEF RequestSet
  <2>2. WholeRelease /\ T0Once
    BY <1>1 DEF Final, server, runRow, WholeRelease, T0Once
  <2>3. Told(m.w, heard, GoneWorker) \/ worker' = worker
    BY <1>1 DEF Final
  <2> QED
    BY <2>1, <2>2, <2>3, ToldReleased, HeardReleased, SameReleased
<1> QED
  BY <1>1, ClaimReleases, ReadyReleases, HeartbeatReleases DEF Handle

\* A worker that moves on by itself begins to load only when it was let go.
LEMMA WorkerReleases ==
    ASSUME ReleaseInv, NEW w \in Workers, WorkerStep(w)
    PROVE  WholeRelease /\ AllReleased'
<1>1. worker[w] \in WorkerSet /\ Released(worker[w], t0)
  BY DEF ReleaseInv, TypeOK, AllReleased
<1>2. ASSUME NEW kind \in {"claim", "ready", "heartbeat", "final"}, Call(w, kind)
      PROVE  WholeRelease /\ AllReleased'
  <2>1. PICK heard \in BOOLEAN : Handle(Request(w, kind), heard)
    BY <1>2 DEF Call
  <2>2. Request(w, kind) \in RequestSet
    BY <1>2, RequestType DEF Call, ReleaseInv
  <2> QED
    BY <2>1, <2>2, HandleReleases
<1>3. CASE Delay(w)
  <2>1. WholeRelease /\ T0Once /\ worker' = worker
    BY <1>3 DEF Delay, server, runRow, WholeRelease, T0Once
  <2> QED
    BY <2>1, SameReleased
<1>4. ASSUME NEW knows, Becomes(w, knows), Released(knows, t0)
      PROVE  WholeRelease /\ AllReleased'
  <2>1. WholeRelease /\ T0Once /\ t0' = t0
    BY <1>4 DEF Becomes, server, runRow, WholeRelease, T0Once
  <2>2. Told(w, TRUE, knows)
    BY <1>4 DEF Becomes, Told
  <2> QED
    BY <1>4, <2>1, <2>2, ToldReleased
<1>5. CASE FailToStart(w) \/ WarmedUp(w) \/ FinishLoad(w)
  <2>1. \A o : \A p \in {"failing", "ready", "finishing"} :
          /\ Released([worker[w] EXCEPT !.phase = p, !.outcome = o], t0)
          /\ Released([worker[w] EXCEPT !.phase = p], t0)
    BY <1>1 DEF Released, WorkerSet
  <2> QED
    BY <1>4, <1>5, <2>1 DEF FailToStart, WarmedUp, FinishLoad
<1>6. Released(GoneWorker, t0) /\ Released(HeardStop(w), t0)
  BY <1>1 DEF Released, GoneWorker, NewWorker, HeardStop, WorkerSet
<1>7. CASE StartLoad(w)
  <2>1. Released([worker[w] EXCEPT !.phase = "running"], t0)
    BY <1>1, <1>7 DEF StartLoad, Released, WorkerSet
  <2> QED
    BY <1>4, <1>6, <1>7, <2>1 DEF StartLoad
<1>8. CASE WorkerStopped(w) \/ WorkerDies(w) \/ DeadMan(w) \/ GivesUp(w)
  BY <1>4, <1>6, <1>8 DEF WorkerStopped, WorkerDies, DeadMan, GivesUp
<1> QED
  BY <1>2, <1>3, <1>5, <1>7, <1>8 DEF WorkerStep

\* Which rows a tick of the watch declares lost.
LEMMA LapsedRows ==
    ASSUME TypeOK
    PROVE  /\ Lapsed \in [Slots -> LeaseSet]
           /\ \A s \in Slots :
                /\ Lapsed[s].id = lease[s].id /\ Lapsed[s].holder = lease[s].holder
                /\ Lapsed[s].report = lease[s].report
                /\ \/ Lapsed[s].state = lease[s].state
                   \/ lease[s].state \in Live /\ Lapsed[s].state = "lost"
BY LoseType, LoseQuiet DEF TypeOK, Lapsed, Silent

\* When the provisioning window closes somebody was ready, and every slot that
\* was not is lost with that tick.
LEMMA TickReleases ==
    ASSUME TypeOK, WatchTick
    PROVE  WholeRelease
<1> SUFFICES ASSUME t0' # t0
             PROVE  t0 = NoT0 /\ SomeReady(lease) /\ NonePending(lease')
  BY DEF WholeRelease
<1> DEFINE rows == Lose(Lapsed, PendingIn(Lapsed))
<1>1. PastProvisioning /\ SomeReady(Lapsed) /\ Conclude(rows, elapsed)
  BY DEF WatchTick
<1>2. Lapsed \in [Slots -> LeaseSet] /\ rows \in [Slots -> LeaseSet]
  BY LapsedRows, LoseType
<1>3. SomeReady(lease)
  BY <1>1, LapsedRows DEF SomeReady
<1>4. NonePending(rows)
  BY <1>2, LoseQuiet DEF NonePending, PendingIn, Pending
<1>5. \A S : NonePending(Lose(rows, S))
  BY <1>2, <1>4, LoseQuiet DEF NonePending, Pending
<1> HIDE DEF rows
<1> QED
  BY <1>1, <1>3, <1>4, <1>5 DEF PastProvisioning, Conclude

\* No step of the system releases a fleet by halves or twice, or lets a worker
\* know another T0 than the run's.
LEMMA ReleaseStep ==
    ASSUME ReleaseInv, [Next]_vars
    PROVE  WholeRelease /\ ReleaseInv'
<1>1. TypeOK'
  BY TypeStep DEF ReleaseInv
<1>2. CASE \E w \in Workers : WorkerStep(w)
  BY <1>1, <1>2, WorkerReleases DEF ReleaseInv
<1>3. CASE DeliverLate
  <2>1. PICK m \in late : Handle(m, FALSE)
    BY <1>3 DEF DeliverLate
  <2>2. m \in RequestSet
    BY DEF ReleaseInv, TypeOK
  <2> QED
    BY <1>1, <2>1, <2>2, HandleReleases DEF ReleaseInv
<1>4. CASE WatchTick
  <2>1. WholeRelease /\ worker' = worker
    BY <1>4, TickReleases DEF ReleaseInv, WatchTick
  <2>2. T0Once
    BY <2>1 DEF WholeRelease, T0Once
  <2> QED
    BY <1>1, <2>1, <2>2, SameReleased DEF ReleaseInv
<1>5. CASE \/ Stop \/ StartWatch \/ MergeReports \/ WriteResult \/ SupervisorFails
           \/ Pass \/ UNCHANGED vars
  <2>1. worker' = worker /\ t0' = t0
    BY <1>5 DEF Stop, StartWatch, MergeReports, WriteResult, SupervisorFails, Pass,
       server, runRow, vars
  <2> QED
    BY <1>1, <2>1, SameReleased DEF ReleaseInv, WholeRelease, T0Once
<1>6. CASE DestroyAndForget
  <2>1. t0' = t0 /\ \A w \in Workers : worker'[w] = GoneWorker
    BY <1>6 DEF DestroyAndForget, server, runRow
  <2>2. Released(GoneWorker, t0')
    BY DEF Released, GoneWorker, NewWorker
  <2> QED
    BY <1>1, <2>1, <2>2 DEF ReleaseInv, AllReleased, WholeRelease
<1> QED
  BY <1>2, <1>3, <1>4, <1>5, <1>6 DEF Next, Supervise

\* Nobody has been told anything before the release.
LEMMA ReleaseInit ==
    ASSUME Init
    PROVE  ReleaseInv
<1>1. \A w \in Workers : worker[w] = NewWorker
  BY DEF Init
<1>2. Released(NewWorker, t0)
  BY DEF Released, NewWorker
<1> QED
  BY <1>1, <1>2, TypeInit DEF ReleaseInv, AllReleased

\* What the workers know of T0 is the run's T0, in every state.
THEOREM ReleaseInvariant == Spec => []ReleaseInv
<1>1. Init => ReleaseInv
  BY ReleaseInit
<1>2. ReleaseInv /\ [Next]_vars => ReleaseInv'
  BY ReleaseStep
<1> QED
  BY <1>1, <1>2, PTL DEF Spec

\* T0 is set at most once, with somebody ready and nobody on the way, whether a
\* worker's call sets it or the end of the provisioning window (fleet.py
\* evaluate_release, _watch).
THEOREM ReleaseIsWholeHolds == Spec => ReleaseIsWhole
<1>1. ReleaseInv /\ [Next]_vars => [WholeRelease]_vars
  BY ReleaseStep
<1>2. ReleaseIsWhole <=> [][WholeRelease]_vars
  BY DEF ReleaseIsWhole, WholeRelease
<1> QED
  BY <1>1, <1>2, ReleaseInvariant, PTL DEF Spec

\* A worker generates load before it was told to stop only from the run's one T0,
\* however its release reached it (managed.py, fleet.py _heartbeat).
THEOREM StartsAtT0Holds == Spec => []StartsAtT0
<1>1. ReleaseInv => StartsAtT0
  BY DEF ReleaseInv, AllReleased, Released, StartsAtT0
<1> QED
  BY <1>1, ReleaseInvariant, PTL

-----------------------------------------------------------------------------
(* A retried claim.  A worker that has heard no grant has nothing but      *)
(* claims in flight, and a lease that was lost comes back only to a worker *)
(* that says its id; so its live leases are those a claim gave it, and a   *)
(* claim gives one only to a holder of none.                               *)

OneLive(w) ==
    \A r, s \in Slots :
        /\ lease[r].holder = w /\ lease[r].state \in Live
        /\ lease[s].holder = w /\ lease[s].state \in Live
        => r = s

OnlyClaims(w) == \A m \in late : m.w = w => m.kind = "claim"

ClaimingInv ==
    /\ Fencing
    /\ \A w \in Workers : worker[w].phase = "claiming" => OnlyClaims(w) /\ OneLive(w)

\* A call that is no claim moves only rows of the worker that sent it.
LEMMA OthersRows ==
    ASSUME Fencing, NEW m \in RequestSet, NEW heard \in BOOLEAN, Proper(m, heard),
           Handle(m, heard), m.kind # "claim"
    PROVE  \A s \in Slots : /\ lease'[s].holder = lease[s].holder
                            /\ lease[s].holder # m.w => lease'[s] = lease[s]
<1>1. lease \in [Slots -> LeaseSet] /\ Speaks(m)
  BY DEF Fencing, TypeOK, Proper
<1>2. IsHolder(m) => m.slot \in Slots /\ lease[m.slot].holder = m.w
  BY <1>1, HolderSpeaks
<1>3. CASE UNCHANGED lease
  BY <1>3
<1>4. ASSUME NEW st, IsHolder(m), lease' = [lease EXCEPT ![m.slot] = Seen(@, st)]
      PROVE  \A s \in Slots : /\ lease'[s].holder = lease[s].holder
                              /\ lease[s].holder # m.w => lease'[s] = lease[s]
  BY <1>1, <1>2, <1>4 DEF Seen, LeaseSet
<1>5. CASE Ready(m, heard)
  BY <1>3, <1>4, <1>5 DEF Ready, MarkReady, ReadySuperseded, ReadyRefused, server
<1>6. CASE Heartbeat(m, heard)
  <2>1. CASE BeatStops(m, heard)
    BY <1>1, <1>2, <2>1 DEF BeatStops, LeaseSet
  <2> QED
    BY <1>3, <1>4, <1>6, <2>1 DEF Heartbeat, BeatFenced, BeatBeforeT0, BeatRepeatsT0,
       BeatUnderway, BeatRefused, server
<1>7. CASE Final(m, heard)
  <2>1. CASE IsHolder(m) /\ lease' = [lease EXCEPT ![m.slot] =
                [Seen(@, "done") EXCEPT !.report = [by |-> m.w, outcome |-> m.outcome]]]
    BY <1>1, <1>2, <2>1 DEF Seen, LeaseSet
  <2> QED
    BY <1>3, <1>7, <2>1 DEF Final, server
<1> QED
  BY <1>5, <1>6, <1>7 DEF Handle

\* A handler leaves a worker that only claims with one live lease.
LEMMA HandleOneLive ==
    ASSUME Fencing, NEW m \in RequestSet, NEW heard \in BOOLEAN, Proper(m, heard),
           Handle(m, heard), NEW w \in Workers, OneLive(w), m.w = w => m.kind = "claim"
    PROVE  OneLive(w)'
<1>1. lease \in [Slots -> LeaseSet] /\ m.w \in Workers
  BY DEF Fencing, TypeOK, RequestSet
<1>2. CASE m.kind # "claim"
  BY <1>2, OthersRows DEF OneLive
<1>3. CASE m.kind = "claim"
  <2>1. CASE ClaimAgain(m.w, heard)
    BY <1>1, <2>1 DEF ClaimAgain, HeldBy, LeaseSet, OneLive
  <2>2. CASE ClaimFresh(m.w, heard)
    <3>1. PICK s \in Claimable(m.w) :
            lease' = [lease EXCEPT ![s] = [Seen(@, "claimed") EXCEPT
                                             !.id = FreshId(s), !.holder = m.w]]
      BY <2>2 DEF ClaimFresh
    <3>2. s \in Slots /\ HeldBy(m.w) = {}
      BY <1>1, <2>2, HintAssumption DEF ClaimFresh, Claimable
    <3>3. lease'[s].holder = m.w /\ \A r \in Slots \ {s} : lease'[r] = lease[r]
      BY <1>1, <3>1, <3>2 DEF Seen, LeaseSet
    <3> QED
      BY <3>2, <3>3 DEF OneLive, HeldBy
  <2>3. CASE ClaimRefused(m.w)
    BY <2>3 DEF ClaimRefused, server, OneLive
  <2> QED
    BY <1>3, <2>1, <2>2, <2>3 DEF Handle, Claim
<1> QED
  BY <1>2, <1>3

\* Declaring leases lost and the passing of time give nobody a live lease.
LEMMA QuietOneLive ==
    ASSUME NEW w, OneLive(w),
           \A s \in Slots : /\ lease'[s].holder = lease[s].holder
                            /\ lease'[s].state \in Live => lease[s].state \in Live
    PROVE  OneLive(w)'
BY DEF OneLive

\* A worker that has not heard its grant was waiting for it before.
LEMMA ClaimingBefore ==
    ASSUME Fencing, [Next]_vars, NEW w \in Workers, worker'[w].phase = "claiming"
    PROVE  worker[w].phase = "claiming"
<1>1. worker \in [Workers -> WorkerSet]
  BY DEF Fencing, TypeOK
<1>2. ASSUME NEW v \in Workers, NEW heard \in BOOLEAN, NEW knows, Told(v, heard, knows),
             knows.phase = "claiming" => worker[v].phase = "claiming"
      PROVE  worker[w].phase = "claiming"
  BY <1>1, <1>2 DEF Told
<1>3. ASSUME NEW v \in Workers
      PROVE  /\ \A s, id : Granted(v, s, id).phase # "claiming"
             /\ HeardStop(v).phase = worker[v].phase
             /\ [HeardStop(v) EXCEPT !.superseded = TRUE].phase = worker[v].phase
             /\ \A when : HeardRelease(v, when).phase = worker[v].phase
             /\ GoneWorker.phase # "claiming"
  <2>1. HeardStop(v) \in WorkerSet /\ worker[v] \in WorkerSet
    BY <1>1, StopType
  <2> QED
    BY <2>1 DEF Granted, HeardStop, HeardRelease, GoneWorker, NewWorker, WorkerSet
<1>4. ASSUME NEW m \in RequestSet, NEW heard \in BOOLEAN, Handle(m, heard)
      PROVE  worker[w].phase = "claiming"
  <2>0. m.w \in Workers
    BY DEF RequestSet
  <2>1. ASSUME NEW knows, Told(m.w, heard, knows),
               knows.phase = "claiming" => worker[m.w].phase = "claiming"
        PROVE  worker[w].phase = "claiming"
    BY <1>2, <2>0, <2>1
  <2>2. CASE worker' = worker
    BY <2>2
  <2>3. CASE Claim(m, heard)
    <3>1. worker' = worker \/ \E s, id : Told(m.w, heard, Granted(m.w, s, id))
      BY <2>3 DEF Claim, ClaimAgain, ClaimFresh, ClaimRefused
    <3> QED
      BY <1>3, <2>0, <2>1, <2>2, <3>1
  <2>4. CASE Ready(m, heard)
    <3>1. \/ worker' = worker
          \/ Told(m.w, heard, GoneWorker)
          \/ \E t, r : Told(m.w, heard, [worker[m.w] EXCEPT !.phase = "waiting",
                                              !.t0 = t, !.released = r])
      BY <2>4 DEF Ready, MarkReady, ReadySuperseded, ReadyRefused
    <3>2. ASSUME NEW t, NEW r,
                 Told(m.w, heard, [worker[m.w] EXCEPT !.phase = "waiting", !.t0 = t,
                                                      !.released = r])
          PROVE  worker[w].phase = "claiming"
      <4>1. [worker[m.w] EXCEPT !.phase = "waiting", !.t0 = t, !.released = r].phase
              = "waiting"
        BY <1>1, <2>0 DEF WorkerSet
      <4> QED
        BY <2>1, <3>2, <4>1
    <3> QED
      BY <1>3, <2>0, <2>1, <2>2, <3>1, <3>2
  <2>5. CASE Heartbeat(m, heard)
    <3>1. \/ worker' = worker
          \/ Told(m.w, heard, worker[m.w])
          \/ Told(m.w, heard, HeardStop(m.w))
          \/ Told(m.w, heard, [HeardStop(m.w) EXCEPT !.superseded = TRUE])
          \/ \E when : Told(m.w, heard, HeardRelease(m.w, when))
      BY <2>5 DEF Heartbeat, BeatFenced, BeatStops, BeatBeforeT0, BeatRepeatsT0,
         BeatUnderway, BeatRefused
    <3> QED
      BY <1>3, <2>0, <2>1, <2>2, <3>1
  <2>6. CASE Final(m, heard)
    BY <1>3, <2>0, <2>1, <2>2, <2>6 DEF Final
  <2> QED
    BY <1>4, <2>3, <2>4, <2>5, <2>6 DEF Handle
<1>5. ASSUME NEW v \in Workers, NEW kind \in {"claim", "ready", "heartbeat", "final"},
             Call(v, kind)
      PROVE  worker[w].phase = "claiming"
  <2>1. Request(v, kind) \in RequestSet
    BY <1>5, RequestType DEF Call, Fencing
  <2> QED
    BY <1>4, <1>5, <2>1 DEF Call
<1>6. CASE DeliverLate
  BY <1>4, <1>6 DEF DeliverLate, Fencing, TypeOK
<1>7. ASSUME NEW v \in Workers,
             \/ FailToStart(v) \/ WarmedUp(v) \/ StartLoad(v) \/ FinishLoad(v)
             \/ WorkerStopped(v) \/ WorkerDies(v) \/ DeadMan(v) \/ GivesUp(v)
      PROVE  worker[w].phase = "claiming"
  <2>1. ASSUME NEW knows, Becomes(v, knows),
               knows.phase = "claiming" => worker[v].phase = "claiming"
        PROVE  worker[w].phase = "claiming"
    BY <1>1, <2>1 DEF Becomes
  <2>2. \A o : \A p \in {"failing", "ready", "running", "finishing"} :
          /\ [worker[v] EXCEPT !.phase = p, !.outcome = o].phase # "claiming"
          /\ [worker[v] EXCEPT !.phase = p].phase # "claiming"
    BY <1>1 DEF WorkerSet
  <2>3. CASE FailToStart(v) \/ WarmedUp(v) \/ FinishLoad(v)
    <3>1. \E o : \E p \in {"failing", "ready", "finishing"} :
            \/ Becomes(v, [worker[v] EXCEPT !.phase = p, !.outcome = o])
            \/ Becomes(v, [worker[v] EXCEPT !.phase = p])
      BY <2>3 DEF FailToStart, WarmedUp, FinishLoad
    <3> QED
      BY <2>1, <2>2, <3>1
  <2>4. CASE StartLoad(v)
    <3>1. Becomes(v, GoneWorker) \/ Becomes(v, [worker[v] EXCEPT !.phase = "running"])
      BY <2>4 DEF StartLoad
    <3> QED
      BY <1>3, <2>1, <2>2, <3>1
  <2>5. CASE WorkerStopped(v) \/ WorkerDies(v) \/ DeadMan(v) \/ GivesUp(v)
    BY <1>3, <2>1, <2>5 DEF WorkerStopped, WorkerDies, DeadMan, GivesUp
  <2> QED
    BY <1>7, <2>3, <2>4, <2>5
<1>8. CASE \/ \E v \in Workers : Delay(v)
           \/ Stop \/ StartWatch \/ WatchTick \/ MergeReports \/ WriteResult
           \/ SupervisorFails \/ Pass \/ UNCHANGED vars
  BY <1>8 DEF Delay, Stop, StartWatch, WatchTick, MergeReports, WriteResult,
     SupervisorFails, Pass, vars
<1>9. CASE DestroyAndForget
  BY <1>3, <1>9 DEF DestroyAndForget
<1> QED
  BY <1>5, <1>6, <1>7, <1>8, <1>9 DEF Next, WorkerStep, Supervise

\* The rows and the calls in flight of a worker that only claims.
LEMMA ClaimingStep ==
    ASSUME ClaimingInv, [Next]_vars
    PROVE  ClaimingInv'
<1>1. Fencing' /\ Fencing /\ TypeOK /\ lease \in [Slots -> LeaseSet]
  BY FencingNext DEF ClaimingInv, Fencing, TypeOK
<1> SUFFICES ASSUME NEW w \in Workers, worker'[w].phase = "claiming"
             PROVE  OnlyClaims(w)' /\ OneLive(w)'
  BY <1>1 DEF ClaimingInv
<1>2. worker[w].phase = "claiming" /\ OnlyClaims(w) /\ OneLive(w)
  BY <1>1, ClaimingBefore DEF ClaimingInv
<1>3. ASSUME NEW v \in Workers, NEW kind \in Kinds(v)
      PROVE  Request(v, kind).w = v /\ Request(v, kind).kind = kind
             /\ (v = w => kind = "claim")
  BY <1>2 DEF Request, Kinds, MainCall, Beating, Alive
<1>4. ASSUME late' = late
      PROVE  OnlyClaims(w)'
  BY <1>2, <1>4 DEF OnlyClaims
<1>5. ASSUME NEW v \in Workers, NEW kind \in {"claim", "ready", "heartbeat", "final"},
             Call(v, kind)
      PROVE  OnlyClaims(w)' /\ OneLive(w)'
  <2>1. PICK heard \in BOOLEAN : Handle(Request(v, kind), heard)
    BY <1>5 DEF Call
  <2>2. kind \in Kinds(v) /\ late' = late
    BY <1>5 DEF Call
  <2>3. Proper(Request(v, kind), heard) /\ Request(v, kind) \in RequestSet
    BY <1>1, <2>2, RequestSpeaks, RequestType DEF Proper
  <2> QED
    BY <1>1, <1>2, <1>3, <1>4, <2>1, <2>2, <2>3, HandleOneLive
<1>6. CASE DeliverLate
  <2>1. PICK m \in late : Handle(m, FALSE) /\ late' = late \ {m}
    BY <1>6 DEF DeliverLate
  <2>2. m \in RequestSet /\ Proper(m, FALSE) /\ (m.w = w => m.kind = "claim")
    BY <1>1, <1>2 DEF Fencing, TypeOK, LateFenced, Proper, OnlyClaims
  <2>3. OneLive(w)'
    BY <1>1, <1>2, <2>1, <2>2, HandleOneLive
  <2> QED
    BY <1>2, <2>1, <2>3 DEF OnlyClaims
<1>7. ASSUME NEW v \in Workers, Delay(v)
      PROVE  OnlyClaims(w)' /\ OneLive(w)'
  <2>1. PICK kind \in Kinds(v) : late' = late \cup {Request(v, kind)}
    BY <1>7 DEF Delay
  <2>2. lease' = lease
    BY <1>7 DEF Delay, server
  <2> QED
    BY <1>2, <1>3, <2>1, <2>2, QuietOneLive DEF OnlyClaims
<1>8. CASE WatchTick
  <2>1. Lapsed \in [Slots -> LeaseSet]
        /\ \A s \in Slots : /\ Lapsed[s].holder = lease[s].holder
                            /\ Lapsed[s].state \in Live => lease[s].state \in Live
    BY <1>1, LapsedRows
  <2> DEFINE Fewer(rows) == \A s \in Slots :
               /\ rows[s].holder = lease[s].holder
               /\ rows[s].state \in Live => lease[s].state \in Live
  <2>2. ASSUME NEW rows \in [Slots -> LeaseSet], Fewer(rows), NEW S
        PROVE  Fewer(Lose(rows, S)) /\ Lose(rows, S) \in [Slots -> LeaseSet]
    BY <2>2, LoseQuiet, LoseType DEF Live
  <2>3. Fewer(Lapsed)
    BY <2>1
  <2> HIDE DEF Fewer
  <2>4. PICK rows \in [Slots -> LeaseSet] : Fewer(rows) /\ \E when : Conclude(rows, when)
    BY <1>8, <2>1, <2>2, <2>3 DEF WatchTick
  <2>5. Fewer(lease')
    BY <2>2, <2>4 DEF Conclude
  <2> QED
    BY <1>2, <1>4, <1>8, <2>5, QuietOneLive DEF WatchTick, Fewer
<1>9. CASE MergeReports
  <2>1. \A s \in Slots : /\ lease'[s].holder = lease[s].holder
                         /\ lease'[s].state \in Live => lease[s].state \in Live
    BY <1>1, <1>9, LoseQuiet DEF MergeReports, Live
  <2> QED
    BY <1>2, <1>4, <1>9, <2>1, QuietOneLive DEF MergeReports
<1>10. CASE Pass
  <2>1. \A s \in Slots : /\ lease'[s].holder = lease[s].holder
                         /\ lease'[s].state = lease[s].state
    BY <1>1, <1>10 DEF Pass, Older, LeaseSet
  <2> QED
    BY <1>2, <1>4, <1>10, <2>1, QuietOneLive DEF Pass
<1>11. CASE lease' = lease /\ late' = late
  BY <1>2, <1>4, <1>11, QuietOneLive
<1>12. ASSUME NEW v \in Workers, WorkerStep(v)
       PROVE  OnlyClaims(w)' /\ OneLive(w)'
  <2>1. CASE \/ FailToStart(v) \/ WarmedUp(v) \/ StartLoad(v) \/ FinishLoad(v)
             \/ WorkerStopped(v) \/ WorkerDies(v) \/ DeadMan(v) \/ GivesUp(v)
    <3>1. lease' = lease /\ late' = late
      BY <2>1 DEF FailToStart, WarmedUp, StartLoad, FinishLoad, WorkerStopped,
         WorkerDies, DeadMan, GivesUp, Becomes, server
    <3> QED
      BY <1>11, <3>1
  <2> QED
    BY <1>5, <1>7, <1>12, <2>1 DEF WorkerStep
<1>13. CASE \/ Stop \/ StartWatch \/ WriteResult \/ SupervisorFails \/ DestroyAndForget
            \/ UNCHANGED vars
  <2>1. lease' = lease /\ late' = late
    BY <1>13 DEF Stop, StartWatch, WriteResult, SupervisorFails, DestroyAndForget,
       server, vars
  <2> QED
    BY <1>11, <2>1
<1> QED
  BY <1>6, <1>8, <1>9, <1>10, <1>12, <1>13 DEF Next, Supervise

\* "A retried claim after a dropped response must not take a second slot"
\* (fleet.py claim): a worker that has not heard its grant yet, however often it
\* asked and however late its claims arrive, has at most one live lease.
THEOREM ClaimingHoldsOneHolds == Spec => []ClaimingHoldsOne
<1>1. Init => ClaimingInv
  <2> SUFFICES ASSUME Init
               PROVE  ClaimingInv
    OBVIOUS
  <2>1. \A w \in Workers : OnlyClaims(w) /\ OneLive(w)
    BY DEF Init, OnlyClaims, OneLive, FreeLease, Live
  <2> QED
    BY <2>1, FencingInit DEF ClaimingInv
<1>2. ClaimingInv /\ [Next]_vars => ClaimingInv'
  BY ClaimingStep
<1>3. ClaimingInv => ClaimingHoldsOne
  BY DEF ClaimingInv, ClaimingHoldsOne, OneLive
<1> QED
  BY <1>1, <1>2, <1>3, PTL DEF Spec

-----------------------------------------------------------------------------
(* The refinement.  Under the fence a step of FleetLease is a step of       *)
(* SlotClaims or leaves its variables alone.                                *)

\* The run row is finished exactly when the supervisor has written the result.
FinishedOnce == fleetState = "finished" <=> sup \in {"finished", "forgotten"}

RefineInv == Fencing /\ FinishedOnce

CountedNow(u) == u \in {"correlating", "finished", "forgotten"}

\* A row that is the same claim, with the same report or none.
RowKept(s) ==
    /\ SameOwner(s) /\ lease'[s].report = lease[s].report
    /\ lease'[s].state = "done" <=> lease[s].state = "done"

RowsKept == \A s \in Slots : RowKept(s)

\* Such rows are the same claims and the same reports.
LEMMA RowsKeptMaps ==
    ASSUME RowsKept
    PROVE  /\ [s \in Slots |-> HeldClaim(lease[s])]'
                = [s \in Slots |-> HeldClaim(lease[s])]
           /\ [s \in Slots |-> ReportedClaim(lease[s])]'
                = [s \in Slots |-> ReportedClaim(lease[s])]
<1>1. \A s \in Slots : /\ HeldClaim(lease'[s]) = HeldClaim(lease[s])
                       /\ ReportedClaim(lease'[s]) = ReportedClaim(lease[s])
  BY DEF RowsKept, RowKept, SameOwner, HeldClaim, ReportedClaim
<1> QED
  BY <1>1

\* Nothing SlotClaims speaks of has changed.
LEMMA StepStutters ==
    ASSUME RowsKept, nextId' = nextId, Stage(fleetState') = Stage(fleetState),
           t0' = t0, CountedNow(sup') = CountedNow(sup), merged' = merged
    PROVE  UNCHANGED Claims!claimVars
BY RowsKeptMaps DEF Claims!claimVars, CountedNow

\* The release is SlotClaims' one start.
LEMMA StepStarts ==
    ASSUME RowsKept, nextId' = nextId, t0 = NoT0, t0' \in Nat,
           fleetState = "provisioning", fleetState' = "releasing",
           CountedNow(sup') = CountedNow(sup), merged' = merged
    PROVE  Claims!StartTogether
BY RowsKeptMaps DEF Claims!StartTogether, Stage, CountedNow

\* A stop, and a window that closes on nobody, drain.
LEMMA StepDrains ==
    ASSUME RowsKept, nextId' = nextId, t0' = t0,
           fleetState \in {"provisioning", "releasing", "running"},
           fleetState' = "draining",
           CountedNow(sup') = CountedNow(sup), merged' = merged
    PROVE  Claims!Drain
BY RowsKeptMaps DEF Claims!Drain, Stage, CountedNow

\* The result is written.
LEMMA StepFinishes ==
    ASSUME RowsKept, nextId' = nextId, t0' = t0, fleetState # "finished",
           fleetState \in FleetStates, fleetState' = "finished",
           sup' = "finished", merged' = merged
    PROVE  Claims!FinishFleet
BY RowsKeptMaps DEF Claims!FinishFleet, Stage, FleetStates

\* A claim gives a slot out under the next id.
LEMMA StepTakes ==
    ASSUME TypeOK, NEW s \in Slots, NEW w \in Workers, nextId' = nextId + 1,
           fleetState \in {"provisioning", "releasing", "running"},
           fleetState' = fleetState, t0' = t0, sup' = sup, merged' = merged,
           lease[s].state # "done", lease'[s].state # "done",
           lease'[s].id = nextId, lease'[s].holder = w,
           \A r \in Slots \ {s} : lease'[r] = lease[r]
    PROVE  Claims!Take(s)
<1>1. nextId \in Nat
  BY DEF TypeOK
<1>2. [r \in Slots |-> HeldClaim(lease[r])]'
        = [[r \in Slots |-> HeldClaim(lease[r])] EXCEPT
              ![s] = [id |-> nextId' - 1, by |-> w]]
  <2>1. HeldClaim(lease'[s]) = [id |-> nextId' - 1, by |-> w]
    BY <1>1 DEF HeldClaim
  <2>2. \A r \in Slots \ {s} : HeldClaim(lease'[r]) = HeldClaim(lease[r])
    BY DEF HeldClaim
  <2> QED
    BY <2>1, <2>2
<1>3. [r \in Slots |-> ReportedClaim(lease[r])]'
        = [r \in Slots |-> ReportedClaim(lease[r])]
  <2>1. \A r \in Slots : ReportedClaim(lease'[r]) = ReportedClaim(lease[r])
    BY DEF ReportedClaim
  <2> QED
    BY <2>1
<1>4. [r \in Slots |-> ReportedClaim(lease[r])][s] = Claims!Unreported
  BY DEF ReportedClaim, Claims!Unreported
<1>5. nextId' - 1 > nextId - 1
  BY <1>1
<1> QED
  BY <1>2, <1>3, <1>4, <1>5 DEF Claims!Take, Stage

\* final records the report of the claim that is current.
LEMMA StepReports ==
    ASSUME RefineInv, NEW s \in Slots, nextId' = nextId, fleetState # "finished",
           fleetState' = fleetState, t0' = t0, sup' = sup, merged' = merged,
           lease[s].state # "done", lease'[s].state = "done", SameOwner(s),
           lease[s].id # NoId, lease'[s].report.by = lease[s].holder,
           \A r \in Slots \ {s} : lease'[r] = lease[r]
    PROVE  Claims!Report(s)
<1>1. \A r \in Slots : HeldClaim(lease'[r]) = HeldClaim(lease[r])
  BY DEF HeldClaim, SameOwner
<1>2. [r \in Slots |-> HeldClaim(lease[r])]' = [r \in Slots |-> HeldClaim(lease[r])]
  BY <1>1
<1>3. /\ ReportedClaim(lease[s]) = Claims!Unreported
      /\ ReportedClaim(lease'[s]) = HeldClaim(lease[s])
      /\ HeldClaim(lease[s]) # Claims!Unclaimed
      /\ HeldClaim(lease[s]) # Claims!Unreported
  BY DEF ReportedClaim, HeldClaim, SameOwner, Claims!Unreported, Claims!Unclaimed
<1>4. \A r \in Slots \ {s} : ReportedClaim(lease'[r]) = ReportedClaim(lease[r])
  BY DEF ReportedClaim
<1>5. [r \in Slots |-> ReportedClaim(lease[r])]'
        = [[r \in Slots |-> ReportedClaim(lease[r])] EXCEPT ![s] = HeldClaim(lease[s])]
  BY <1>3, <1>4
<1>6. Stage(fleetState) # "finished"
  BY DEF Stage, RefineInv, Fencing, TypeOK, FleetStates
<1> QED
  BY <1>2, <1>3, <1>5, <1>6 DEF Claims!Report

\* The reports are counted once, and one that cannot be read is as if it had not
\* come.
LEMMA StepCounts ==
    ASSUME RefineInv, MergeReports
    PROVE  Claims!Count
<1>1. lease \in [Slots -> LeaseSet] /\ ReportFromHolder
  BY DEF RefineInv, Fencing, TypeOK
<1> DEFINE bad == {s \in Slots : Unreadable(lease[s])}
<1>2. /\ lease' = Lose(lease, bad) /\ merged' = {s \in Slots : Readable(lease[s])}
      /\ sup = "merging" /\ sup' = "correlating"
      /\ nextId' = nextId /\ fleetState' = fleetState /\ t0' = t0
  BY DEF MergeReports, runRow
<1>3. \A s \in Slots : lease'[s].id = lease[s].id /\ lease'[s].holder = lease[s].holder
                       /\ lease'[s].report = lease[s].report
                       /\ lease'[s].state = IF s \in bad THEN "lost" ELSE lease[s].state
  BY <1>1, <1>2, LoseQuiet
<1>4. [s \in Slots |-> HeldClaim(lease[s])]' = [s \in Slots |-> HeldClaim(lease[s])]
  <2>1. \A s \in Slots : HeldClaim(lease'[s]) = HeldClaim(lease[s])
    BY <1>3 DEF HeldClaim
  <2> QED
    BY <2>1
<1>5. ASSUME NEW s \in Slots, Readable(lease[s])
      PROVE  /\ ReportedClaim(lease[s]) # Claims!Unreported
             /\ ReportedClaim(lease'[s]) = ReportedClaim(lease[s])
  <2>1. lease[s].report.by \in Workers
    BY <1>1, <1>5 DEF Readable, ReportFromHolder, LeaseSet, ReportSet
  <2>2. lease'[s].state = "done" /\ lease[s].state = "done"
    BY <1>3, <1>5 DEF Readable, Unreadable
  <2> QED
    BY <1>3, <2>1, <2>2, WorkersAssumption DEF ReportedClaim, Claims!Unreported
<1>6. ASSUME NEW s \in Slots, ~Readable(lease[s])
      PROVE  ReportedClaim(lease'[s]) = Claims!Unreported
  <2>1. lease'[s].state # "done"
    BY <1>3, <1>6 DEF Readable, Unreadable
  <2> QED
    BY <2>1 DEF ReportedClaim, Claims!Unreported
<1>7. merged' \subseteq
        {s \in Slots : [r \in Slots |-> ReportedClaim(lease[r])][s] # Claims!Unreported}
  BY <1>2, <1>5
<1>8. [s \in Slots |-> ReportedClaim(lease[s])]'
        = [s \in Slots |-> IF s \in merged' THEN [r \in Slots |-> ReportedClaim(lease[r])][s]
                           ELSE Claims!Unreported]
  BY <1>2, <1>5, <1>6
<1> HIDE DEF bad
<1> QED
  BY <1>2, <1>4, <1>7, <1>8 DEF Claims!Count

AbstractStep == [Claims!ClaimsNext]_Claims!claimVars

\* Each of them is a step of SlotClaims.
LEMMA AreSteps ==
    /\ \A s \in Slots : Claims!Take(s) \/ Claims!Report(s) => AbstractStep
    /\ Claims!StartTogether \/ Claims!Drain \/ Claims!Count \/ Claims!FinishFleet
         => AbstractStep
    /\ UNCHANGED Claims!claimVars => AbstractStep
BY DEF AbstractStep, Claims!ClaimsNext

\* A row that is heard from, and is done neither more nor less, is kept.
LEMMA SeenKept ==
    ASSUME lease \in [Slots -> LeaseSet], NEW s \in Slots, NEW st,
           lease' = [lease EXCEPT ![s] = Seen(@, st)],
           st = "done" <=> lease[s].state = "done"
    PROVE  RowsKept
BY DEF RowsKept, RowKept, SameOwner, Seen, LeaseSet

\* So is one whose age is reset.
LEMMA AgeKept ==
    ASSUME lease \in [Slots -> LeaseSet], NEW s \in Slots,
           lease' = [lease EXCEPT ![s].age = 0]
    PROVE  RowsKept
BY DEF RowsKept, RowKept, SameOwner, LeaseSet

\* And a table that does not change.
LEMMA SameKept ==
    ASSUME lease' = lease
    PROVE  RowsKept
BY DEF RowsKept, RowKept, SameOwner

\* A release is the abstract start, and no release is nothing.
LEMMA EvaluateRefines ==
    ASSUME TypeOK, RowsKept, EvaluateRelease(lease'), nextId' = nextId,
           sup' = sup, merged' = merged
    PROVE  AbstractStep
<1>1. CASE t0' = elapsed /\ fleetState' = "releasing" /\ Unreleased
  <2>1. elapsed \in Nat
    BY CapsAreNat DEF TypeOK
  <2> QED
    BY <1>1, <2>1, StepStarts, AreSteps DEF Unreleased
<1>2. CASE t0' = t0 /\ fleetState' = fleetState
  BY <1>2, StepStutters, AreSteps
<1> QED
  BY <1>1, <1>2 DEF EvaluateRelease

\* What a claim that is answered comes to.
LEMMA ClaimRefines ==
    ASSUME RefineInv, NEW m \in RequestSet, NEW heard \in BOOLEAN, Claim(m, heard),
           sup' = sup, merged' = merged
    PROVE  AbstractStep
<1>1. /\ m.w \in Workers /\ TypeOK /\ lease \in [Slots -> LeaseSet]
      /\ fleetState \in FleetStates
  BY DEF RequestSet, RefineInv, Fencing, TypeOK
<1>2. CASE ClaimAgain(m.w, heard)
  <2>1. PICK s \in HeldBy(m.w) : lease' = [lease EXCEPT ![s].age = 0]
    BY <1>2 DEF ClaimAgain
  <2>2. RowsKept
    BY <1>1, <2>1, AgeKept DEF HeldBy
  <2> QED
    BY <1>2, <2>2, StepStutters, AreSteps DEF ClaimAgain, runRow
<1>3. CASE AcceptsClaims /\ ClaimFresh(m.w, heard)
  <2>1. PICK s \in Claimable(m.w) :
          lease' = [lease EXCEPT ![s] = [Seen(@, "claimed") EXCEPT
                                           !.id = FreshId(s), !.holder = m.w]]
    BY <1>3 DEF ClaimFresh
  <2>2. s \in Slots /\ lease[s].state # "done"
    BY <1>1, HintAssumption DEF Claimable
  <2>3. /\ lease'[s].state = "claimed" /\ lease'[s].id = nextId
        /\ lease'[s].holder = m.w /\ \A r \in Slots \ {s} : lease'[r] = lease[r]
    BY <1>1, <2>1, <2>2 DEF Seen, FreshId, LeaseSet
  <2>4. fleetState \in {"provisioning", "releasing", "running"}
    BY <1>1, <1>3 DEF AcceptsClaims, RunOver, FleetStates
  <2>5. nextId' = nextId + 1 /\ fleetState' = fleetState /\ t0' = t0
    BY <1>3 DEF ClaimFresh, runRow
  <2> QED
    BY <1>1, <2>2, <2>3, <2>4, <2>5, StepTakes, AreSteps
<1>4. CASE ClaimRefused(m.w)
  BY <1>4, SameKept, StepStutters, AreSteps DEF ClaimRefused, server, runRow
<1> QED
  BY <1>2, <1>3, <1>4 DEF Claim

\* What a call that finds or has lost its lease comes to.
LEMMA ReadyRefines ==
    ASSUME RefineInv, NEW m \in RequestSet, NEW heard \in BOOLEAN, Ready(m, heard),
           Speaks(m), m.kind # "claim", sup' = sup, merged' = merged
    PROVE  AbstractStep
<1>1. TypeOK /\ lease \in [Slots -> LeaseSet]
  BY DEF RefineInv, Fencing, TypeOK
<1>2. CASE MarkReady(m, heard)
  <2>1. m.slot \in Slots
    BY <1>2, HolderSpeaks DEF MarkReady
  <2>2. lease' = [lease EXCEPT ![m.slot] = Seen(@, ReadyAgain(lease[m.slot].state))]
    BY <1>1, <1>2 DEF MarkReady
  <2>3. ReadyAgain(lease[m.slot].state) = "done" <=> lease[m.slot].state = "done"
    BY DEF ReadyAgain
  <2>4. RowsKept
    BY <1>1, <2>1, <2>2, <2>3, SeenKept
  <2> QED
    BY <1>1, <1>2, <2>4, EvaluateRefines DEF MarkReady
<1>3. CASE ReadySuperseded(m, heard) \/ ReadyRefused
  BY <1>3, SameKept, StepStutters, AreSteps
     DEF ReadySuperseded, ReadyRefused, server, runRow
<1> QED
  BY <1>2, <1>3 DEF Ready

\* A heartbeat renews a lease, and may release the fleet.
LEMMA HeartbeatRefines ==
    ASSUME RefineInv, NEW m \in RequestSet, NEW heard \in BOOLEAN, Heartbeat(m, heard),
           Speaks(m), m.kind # "claim", sup' = sup, merged' = merged
    PROVE  AbstractStep
<1>1. TypeOK /\ lease \in [Slots -> LeaseSet]
  BY DEF RefineInv, Fencing, TypeOK
<1>2. IsHolder(m) => m.slot \in Slots
  BY HolderSpeaks
<1>3. Restored(m) = "done" <=> lease[m.slot].state = "done"
  BY DEF Restored
<1>4. CASE BeatFenced(m, heard) \/ BeatRefused
  BY <1>4, SameKept, StepStutters, AreSteps DEF BeatFenced, BeatRefused, server, runRow
<1>5. CASE BeatStops(m, heard)
  BY <1>1, <1>2, <1>5, AgeKept, StepStutters, AreSteps DEF BeatStops, runRow
<1>6. CASE BeatBeforeT0(m, heard)
  <2>1. RowsKept
    BY <1>1, <1>2, <1>3, <1>6, SeenKept DEF BeatBeforeT0
  <2>2. CASE EvaluateRelease(lease')
    BY <1>1, <1>6, <2>1, <2>2, EvaluateRefines DEF BeatBeforeT0
  <2>3. CASE UNCHANGED <<t0, fleetState>>
    BY <1>6, <2>1, <2>3, StepStutters, AreSteps DEF BeatBeforeT0
  <2> QED
    BY <1>6, <2>2, <2>3 DEF BeatBeforeT0
<1>7. CASE BeatRepeatsT0(m, heard)
  <2>1. RowsKept
    BY <1>1, <1>2, <1>3, <1>7, SeenKept DEF BeatRepeatsT0
  <2> QED
    BY <1>7, <2>1, StepStutters, AreSteps DEF BeatRepeatsT0, runRow
<1>8. CASE BeatUnderway(m, heard)
  <2> DEFINE to == IF Restored(m) \in {"claimed", "ready"} THEN "running" ELSE Restored(m)
  <2>1. lease' = [lease EXCEPT ![m.slot] = Seen(@, to)]
    BY <1>8 DEF BeatUnderway
  <2>2. to = "done" <=> lease[m.slot].state = "done"
    BY <1>3
  <2>3. RowsKept
    <3> HIDE DEF to
    <3> QED
      BY <1>1, <1>2, <1>8, <2>1, <2>2, SeenKept DEF BeatUnderway
  <2>4. Stage(fleetState') = Stage(fleetState)
    BY <1>8 DEF BeatUnderway, Stage
  <2> QED
    BY <1>8, <2>3, <2>4, StepStutters, AreSteps DEF BeatUnderway
<1> QED
  BY <1>4, <1>5, <1>6, <1>7, <1>8 DEF Heartbeat

\* final is a report of the current claim, or nothing.
LEMMA FinalRefines ==
    ASSUME RefineInv, NEW m \in RequestSet, NEW heard \in BOOLEAN, Final(m, heard),
           Speaks(m), m.kind # "claim", sup' = sup, merged' = merged
    PROVE  AbstractStep
<1>1. TypeOK /\ lease \in [Slots -> LeaseSet]
  BY DEF RefineInv, Fencing, TypeOK
<1>2. CASE /\ fleetState # "finished" /\ IsHolder(m) /\ lease[m.slot].state # "done"
           /\ lease' = [lease EXCEPT ![m.slot] =
                [Seen(@, "done") EXCEPT !.report = [by |-> m.w, outcome |-> m.outcome]]]
           /\ UNCHANGED <<runRow, nextId>>
  <2>1. m.slot \in Slots /\ lease[m.slot].id # NoId /\ lease[m.slot].holder = m.w
    BY <1>2, HolderSpeaks
  <2>2. /\ lease'[m.slot].state = "done" /\ SameOwner(m.slot)
        /\ lease'[m.slot].report.by = m.w
        /\ \A r \in Slots \ {m.slot} : lease'[r] = lease[r]
    BY <1>1, <1>2, <2>1 DEF Seen, SameOwner, LeaseSet
  <2>3. nextId' = nextId /\ fleetState' = fleetState /\ t0' = t0
    BY <1>2 DEF runRow
  <2> QED
    BY <1>2, <2>1, <2>2, <2>3, StepReports, AreSteps
<1>3. CASE UNCHANGED server
  BY <1>3, SameKept, StepStutters, AreSteps DEF server, runRow
<1> QED
  BY <1>2, <1>3 DEF Final

\* So every handler takes a step of SlotClaims, whoever calls it and however late.
LEMMA HandleRefines ==
    ASSUME RefineInv, NEW m \in RequestSet, NEW heard \in BOOLEAN, Handle(m, heard),
           Speaks(m), sup' = sup, merged' = merged
    PROVE  AbstractStep
BY ClaimRefines, ReadyRefines, HeartbeatRefines, FinalRefines DEF Handle

\* A tick of the watch loses leases, and starts the fleet or drains it at most.
LEMMA TickRefines ==
    ASSUME RefineInv, WatchTick
    PROVE  AbstractStep
<1>1. /\ TypeOK /\ nextId' = nextId /\ merged' = merged /\ sup = "watching"
      /\ sup' \in {"watching", "merging"}
  BY DEF RefineInv, Fencing, WatchTick, Conclude
<1>2. CountedNow(sup') = CountedNow(sup)
  BY <1>1 DEF CountedNow
<1> DEFINE SameClaims(rows) == \A s \in Slots :
             /\ rows[s].id = lease[s].id /\ rows[s].holder = lease[s].holder
             /\ rows[s].report = lease[s].report
             /\ rows[s].state = "done" <=> lease[s].state = "done"
<1>3. Lapsed \in [Slots -> LeaseSet] /\ SameClaims(Lapsed)
  BY <1>1, LapsedRows DEF Live
<1>4. ASSUME NEW rows \in [Slots -> LeaseSet], SameClaims(rows), NEW S,
             \A s \in S \cap Slots : rows[s].state # "done"
      PROVE  Lose(rows, S) \in [Slots -> LeaseSet] /\ SameClaims(Lose(rows, S))
  BY <1>4, LoseQuiet, LoseType
<1>5. PICK rows \in {Lapsed, Lose(Lapsed, FreeIn(Lapsed)), Lose(Lapsed, PendingIn(Lapsed))} :
        \E when : Conclude(rows, when)
  BY DEF WatchTick
<1>6. \A s \in (FreeIn(Lapsed) \cup PendingIn(Lapsed)) \cap Slots :
         Lapsed[s].state # "done"
  BY DEF FreeIn, PendingIn, Pending
<1>7. /\ Lose(Lapsed, FreeIn(Lapsed)) \in [Slots -> LeaseSet]
      /\ SameClaims(Lose(Lapsed, FreeIn(Lapsed)))
  BY <1>3, <1>4, <1>6
<1>8. /\ Lose(Lapsed, PendingIn(Lapsed)) \in [Slots -> LeaseSet]
      /\ SameClaims(Lose(Lapsed, PendingIn(Lapsed)))
  BY <1>3, <1>4, <1>6
<1>9. rows \in [Slots -> LeaseSet] /\ SameClaims(rows)
  BY <1>3, <1>5, <1>7, <1>8
<1>10. \A s \in UnreportedIn(rows) \cap Slots : rows[s].state # "done"
  BY DEF UnreportedIn
<1>11. SameClaims(lease')
  BY <1>4, <1>5, <1>9, <1>10 DEF Conclude
<1>12. RowsKept
  BY <1>11 DEF RowsKept, RowKept, SameOwner
<1> HIDE DEF SameClaims
<1>13. CASE UNCHANGED <<t0, fleetState>>
  BY <1>1, <1>2, <1>12, <1>13, StepStutters, AreSteps
<1>14. CASE PastProvisioning /\ t0' = elapsed /\ fleetState' = "releasing"
  <2>1. elapsed \in Nat
    BY <1>1, CapsAreNat DEF TypeOK
  <2> QED
    BY <1>1, <1>2, <1>12, <1>14, <2>1, StepStarts, AreSteps DEF PastProvisioning
<1>15. CASE PastProvisioning /\ fleetState' = "draining" /\ t0' = t0
  BY <1>1, <1>2, <1>12, <1>15, StepDrains, AreSteps DEF PastProvisioning
<1> QED
  BY <1>13, <1>14, <1>15 DEF WatchTick

\* Every step of FleetLease is one of SlotClaims, or changes nothing there.
LEMMA NextRefines ==
    ASSUME RefineInv, [Next]_vars
    PROVE  AbstractStep
<1>1. /\ TypeOK /\ lease \in [Slots -> LeaseSet] /\ fleetState \in FleetStates
      /\ sup \in SupStates
  BY DEF RefineInv, Fencing, TypeOK
<1>2. ASSUME NEW w \in Workers, NEW kind \in {"claim", "ready", "heartbeat", "final"},
             Call(w, kind)
      PROVE  AbstractStep
  <2>1. PICK heard \in BOOLEAN : Handle(Request(w, kind), heard)
    BY <1>2 DEF Call
  <2>2. kind \in Kinds(w) /\ sup' = sup /\ merged' = merged
    BY <1>2 DEF Call, supervisor
  <2>3. Speaks(Request(w, kind)) /\ Request(w, kind) \in RequestSet
    BY <1>1, <2>2, RequestSpeaks, RequestType DEF RefineInv
  <2> QED
    BY <2>1, <2>2, <2>3, HandleRefines
<1>3. CASE DeliverLate
  <2>1. PICK m \in late : Handle(m, FALSE)
    BY <1>3 DEF DeliverLate
  <2>2. m \in RequestSet /\ Speaks(m)
    BY DEF RefineInv, Fencing, TypeOK, LateFenced
  <2> QED
    BY <1>3, <2>1, <2>2, HandleRefines DEF DeliverLate, supervisor
<1>4. CASE /\ lease' = lease /\ nextId' = nextId /\ fleetState' = fleetState
           /\ t0' = t0 /\ CountedNow(sup') = CountedNow(sup) /\ merged' = merged
  BY <1>4, SameKept, StepStutters, AreSteps
<1>5. ASSUME NEW w \in Workers, WorkerStep(w)
      PROVE  AbstractStep
  <2>1. CASE \/ Delay(w)
             \/ FailToStart(w) \/ WarmedUp(w) \/ StartLoad(w) \/ FinishLoad(w)
             \/ WorkerStopped(w) \/ WorkerDies(w) \/ DeadMan(w) \/ GivesUp(w)
    BY <1>4, <2>1 DEF Delay, FailToStart, WarmedUp, StartLoad, FinishLoad, WorkerStopped,
       WorkerDies, DeadMan, GivesUp, Becomes, server, runRow, supervisor
  <2> QED
    BY <1>2, <1>5, <2>1 DEF WorkerStep
<1>6. CASE Stop
  <2>1. RowsKept /\ nextId' = nextId /\ t0' = t0 /\ merged' = merged
        /\ CountedNow(sup') = CountedNow(sup)
    BY <1>6, SameKept DEF Stop
  <2>2. CASE fleetState \in {"draining", "finished"}
    BY <1>6, <2>1, <2>2, StepStutters, AreSteps DEF Stop
  <2>3. CASE fleetState \notin {"draining", "finished"}
    BY <1>1, <1>6, <2>1, <2>3, StepDrains, AreSteps DEF Stop, FleetStates
  <2> QED
    BY <2>2, <2>3
<1>7. CASE StartWatch \/ DestroyAndForget \/ UNCHANGED vars
  BY <1>4, <1>7 DEF StartWatch, DestroyAndForget, server, runRow, supervisor, vars,
     CountedNow
<1>8. CASE WriteResult \/ SupervisorFails
  <2>1. fleetState # "finished"
    BY <1>8 DEF WriteResult, SupervisorFails, RefineInv, FinishedOnce
  <2> QED
    BY <1>1, <1>8, <2>1, SameKept, StepFinishes, AreSteps DEF WriteResult, SupervisorFails
<1>9. CASE Pass
  <2>1. RowsKept
    BY <1>1, <1>9 DEF Pass, Older, LeaseSet, RowsKept, RowKept, SameOwner
  <2> QED
    BY <1>9, <2>1, StepStutters, AreSteps DEF Pass, runRow, supervisor
<1> QED
  BY <1>3, <1>5, <1>6, <1>7, <1>8, <1>9, TickRefines, StepCounts, AreSteps
     DEF Next, Supervise

\* The run row is finished by the supervisor and by nobody else.
LEMMA FinishedStep ==
    ASSUME RefineInv, [Next]_vars
    PROVE  FinishedOnce'
<1>1. ASSUME NEW m, NEW heard, Handle(m, heard), sup' = sup
      PROVE  FinishedOnce'
  BY <1>1 DEF Handle, Claim, ClaimAgain, ClaimFresh, ClaimRefused, Ready, MarkReady,
     ReadySuperseded, ReadyRefused, Heartbeat, BeatFenced, BeatStops, BeatBeforeT0,
     BeatRepeatsT0, BeatUnderway, BeatRefused, Final, EvaluateRelease, Unreleased,
     server, runRow, RefineInv, FinishedOnce
<1>2. CASE DeliverLate \/ \E w \in Workers : WorkerStep(w)
  <2>1. CASE DeliverLate
    BY <1>1, <2>1 DEF DeliverLate, supervisor
  <2>2. ASSUME NEW w \in Workers, WorkerStep(w)
        PROVE  FinishedOnce'
    BY <1>1, <2>2 DEF WorkerStep, Call, Delay, FailToStart, WarmedUp, StartLoad,
       FinishLoad, WorkerStopped, WorkerDies, DeadMan, GivesUp, Becomes, server, runRow,
       supervisor, RefineInv, FinishedOnce
  <2> QED
    BY <1>2, <2>1, <2>2
<1>3. CASE Stop \/ Supervise \/ Pass \/ UNCHANGED vars
  BY <1>3 DEF Stop, Supervise, StartWatch, WatchTick, PastProvisioning, Conclude,
     MergeReports, WriteResult, SupervisorFails, DestroyAndForget, Pass, server, runRow,
     supervisor, vars, RefineInv, FinishedOnce
<1> QED
  BY <1>2, <1>3 DEF Next

\* Before the first claim there is nothing to map.
LEMMA InitRefines ==
    ASSUME Init
    PROVE  RefineInv /\ Claims!ClaimsInit
<1>1. RefineInv
  BY FencingInit DEF Init, RefineInv, FinishedOnce
<1>2. \A s \in Slots : /\ HeldClaim(lease[s]) = Claims!Unclaimed
                       /\ ReportedClaim(lease[s]) = Claims!Unreported
  BY DEF Init, HeldClaim, ReportedClaim, FreeLease, Claims!Unclaimed, Claims!Unreported
<1>3. Claims!ClaimsInit
  BY <1>2 DEF Init, Claims!ClaimsInit, Stage
<1> QED
  BY <1>1, <1>3

\* The lease protocol implements SlotClaims: claims that lapse and come back,
\* answers lost and calls delivered late, a stop, a timeout or a failure at any
\* point never make a slot's report change or come from anybody but its current
\* claim, give an id out twice, start the fleet twice, move it back, or change what
\* the result rests on once it was counted (fleet.py).
THEOREM LeasesImplementClaims == Spec => ImplementsSlotClaims
<1>1. Init => RefineInv /\ Claims!ClaimsInit
  BY InitRefines
<1>2. RefineInv /\ [Next]_vars => RefineInv'
  BY FencingNext, FinishedStep DEF RefineInv
<1>3. RefineInv /\ [Next]_vars => [Claims!ClaimsNext]_Claims!claimVars
  BY NextRefines DEF AbstractStep
<1> QED
  BY <1>1, <1>2, <1>3, PTL DEF Spec, ImplementsSlotClaims, Claims!ClaimsSpec

=============================================================================
