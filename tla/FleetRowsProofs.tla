--------------------------- MODULE FleetRowsProofs ---------------------------
(***************************************************************************)
(* What holds of FleetRows for any number of slots, workers, handlers at   *)
(* work and silences: however the sessions overlap, two workers are not    *)
(* told of one slot and a fleet that is ready is released.                 *)
(***************************************************************************)
EXTENDS FleetRows, FiniteSetTheorems, TLAPS

RunSet    == [fleet : FleetStates, over : BOOLEAN, t0 : Nat]
LeaseSet  == [state : LeaseStates, id : Nat, holder : Workers \cup {"nobody"},
              report : Workers \cup {"nobody"}]
WorkerSet == [phase : Phases, slot : Slots \cup {NoSlot}, id : Nat,
              released : BOOLEAN, superseded : BOOLEAN]
CallSet   == [kind : Kinds, found : BOOLEAN, says : Phases, slot : Slots \cup {NoSlot},
              id : Nat, run : RunSet, seen : LeaseStates,
              held : SUBSET Slots, open : SUBSET Slots]

TypeOK ==
    /\ lease \in [Slots -> LeaseSet] /\ nextId \in Nat \ {0}
    /\ fleetState \in FleetStates /\ t0 \in Nat
    /\ worker \in [Workers -> WorkerSet]
    /\ req \in [Workers -> [Calls -> CallSet]]
    /\ tick \in [busy : BOOLEAN, run : RunSet, seen : [Slots -> LeaseStates]]
    /\ stop \in {"none", "committed"} \cup FleetStates
    /\ everLost \in SUBSET Slots

-----------------------------------------------------------------------------
(* The inductive invariant. *)

\* A lease has a holder with its id. A slot that no tick has declared lost is free or
\* has been claimed.
SlotOK(s) ==
    /\ lease[s].holder # "nobody" => lease[s].id # NoId
    /\ s \notin everLost => /\ lease[s].state # "lost"
                            /\ lease[s].id # NoId => lease[s].state # "free"

\* What a session or a worker knows of a slot is true until a tick declares it lost. A
\* worker has a slot once it has been told of one.
Holds(w, s, id) ==
    s \in Slots \ everLost => lease[s].id = id /\ lease[s].holder = w

WorkerOK(w) ==
    /\ worker[w].phase \notin {"claiming", "gone"} => worker[w].slot \in Slots
    /\ worker[w].id # NoId =>
        worker[w].slot \in Slots /\ Holds(w, worker[w].slot, worker[w].id)

ClaimOK(w) ==
    LET m == req[w]["main"] IN
    m.kind = "claim" /\ m.found /\ m.held # {} => Holds(w, MinOf(m.held), m.id)

\* Provisioning, once left, is never entered again; and what a handler has read of the
\* run was true.
Left(run) == run.fleet # "provisioning" \/ run.t0 # NoT0
SeenOK(run) == Left(run) => fleetState # "provisioning"

CallOK(w, c) ==
    /\ SeenOK(req[w][c].run)
    /\ req[w][c].kind \notin {"none", "claim"} =>
        req[w][c].slot \in Slots /\ worker[w].slot \in Slots

RowsInv ==
    /\ TypeOK
    /\ \A s \in Slots : SlotOK(s)
    /\ \A w \in Workers : WorkerOK(w) /\ ClaimOK(w)
    /\ SeenOK(Run)
    /\ \A w \in Workers, c \in Calls : CallOK(w, c)
    /\ ReadyFleetIsReleased

-----------------------------------------------------------------------------
(* The lowest of a set of slots. *)

\* A set of naturals that is not empty has a least element: initial segments are ordered
\* by inclusion, and inclusion of finite sets is well founded.
LEMMA MinExists ==
    ASSUME NEW S \in SUBSET Nat, S # {}
    PROVE  MinOf(S) \in S
<1> DEFINE Segments == {0 .. x : x \in S}
<1>1. \A x \in S : 0 .. x \in FiniteSubsetsOf(Nat)
  <2>1. \A x \in S : IsFiniteSet(0 .. x)
    BY FS_Interval
  <2> QED
    BY <2>1 DEF FiniteSubsetsOf
<1>2. Segments \subseteq FiniteSubsetsOf(Nat) /\ Segments # {}
  BY <1>1
<1>3. IsWellFoundedOn(StrictSubsetOrdering(Nat), FiniteSubsetsOf(Nat))
  BY FS_StrictSubsetOrderingWellFounded
<1>4. PICK least \in Segments :
        \A other \in Segments : <<other, least>> \notin StrictSubsetOrdering(Nat)
  <2> HIDE DEF Segments
  <2> QED
    BY <1>2, <1>3, WFMin
<1>5. PICK x \in S : least = 0 .. x
  BY <1>4
<1>6. \A y \in S : x <= y
  <2> SUFFICES ASSUME NEW y \in S, y < x PROVE FALSE
    OBVIOUS
  <2>1. 0 .. y \in Segments
    OBVIOUS
  <2>2. 0 .. y \subseteq 0 .. x /\ x \in 0 .. x /\ x \notin 0 .. y
    OBVIOUS
  <2>3. <<0 .. y, 0 .. x>> \in StrictSubsetOrdering(Nat)
    BY <2>2 DEF StrictSubsetOrdering
  <2> QED
    BY <1>4, <1>5, <2>1, <2>3
<1> QED
  BY <1>6 DEF MinOf

\* The lowest of some slots is one of them.
LEMMA MinSlot ==
    ASSUME NEW S \in SUBSET Slots, S # {}
    PROVE  MinOf(S) \in S /\ MinOf(S) \in Slots
BY MinExists, RowsAssumption

-----------------------------------------------------------------------------
(* What a session's step does to the calls and to the workers. *)

\* A call that a handler takes further changes, and no other.
Steps(w, c, m) ==
    /\ req' \in [Workers -> [Calls -> CallSet]]
    /\ req'[w][c] = m
    /\ \A v \in Workers, d \in Calls : v # w \/ d # c => req'[v][d] = req[v][d]

\* Replacing one call by another of its type.
LEMMA StepsCall ==
    ASSUME TypeOK, NEW w \in Workers, NEW c \in Calls, NEW m \in CallSet,
           req' = [req EXCEPT ![w][c] = m]
    PROVE  Steps(w, c, m)
<1>1. req[w] \in [Calls -> CallSet]
  BY DEF TypeOK
<1>2. req' = [req EXCEPT ![w] = [req[w] EXCEPT ![c] = m]]
  BY <1>1 DEF TypeOK
<1>3. [req[w] EXCEPT ![c] = m] \in [Calls -> CallSet]
  BY <1>1
<1>4. req' \in [Workers -> [Calls -> CallSet]]
  BY <1>2, <1>3 DEF TypeOK
<1>5. req'[w] = [req[w] EXCEPT ![c] = m]
  BY <1>2 DEF TypeOK
<1>6. req'[w][c] = m /\ \A d \in Calls \ {c} : req'[w][d] = req[w][d]
  BY <1>1, <1>5
<1>7. \A v \in Workers \ {w} : req'[v] = req[v]
  BY <1>2 DEF TypeOK
<1> QED
  BY <1>4, <1>6, <1>7 DEF Steps

\* No call is a call, about the run as it was at the beginning.
LEMMA NoCallIsCall == NoCall \in CallSet
BY DEF NoCall, CallSet, NoRun, RunSet, Kinds, Phases, LeaseStates, FleetStates, NoId, NoT0

\* One worker learns something; no other does.
Learns(w, knows) ==
    /\ worker' \in [Workers -> WorkerSet]
    /\ worker'[w] \in {worker[w], knows}
    /\ \A v \in Workers \ {w} : worker'[v] = worker[v]

\* An answer ends the call, and the worker that still waits for it learns what it says.
LEMMA AnswerSteps ==
    ASSUME TypeOK, NEW w \in Workers, NEW c \in Calls, NEW knows \in WorkerSet,
           Answered(w, c, knows)
    PROVE  Steps(w, c, NoCall) /\ Learns(w, knows)
<1>1. Steps(w, c, NoCall)
  BY NoCallIsCall, StepsCall DEF Answered
<1>2. Learns(w, knows)
  BY DEF Answered, Learns, TypeOK
<1> QED
  BY <1>1, <1>2

-----------------------------------------------------------------------------
(* What keeps each part of the invariant. *)

\* Nobody is given a slot, and a state changes to one that is not open, or on a slot that
\* is declared lost.
Kept ==
    /\ lease' \in [Slots -> LeaseSet]
    /\ everLost \subseteq everLost' /\ everLost' \subseteq Slots
    /\ \A s \in Slots :
        /\ lease'[s].id = lease[s].id /\ lease'[s].holder = lease[s].holder
        /\ lease'[s].state \in {lease[s].state} \cup (LeaseStates \ Open) \/ s \in everLost'

\* Then slots stay right,
LEMMA SlotsKeep ==
    ASSUME RowsInv, Kept
    PROVE  \A s \in Slots : SlotOK(s)'
BY DEF RowsInv, Kept, SlotOK, Open

\* what a worker knows stays true,
WorkerKept(v) ==
    /\ worker'[v].id = worker[v].id /\ worker'[v].slot = worker[v].slot
    /\ worker'[v].phase \in {worker[v].phase, "gone"} \/ worker[v].slot \in Slots

\* A worker whose claim, slot and phase go on holds what it held.
LEMMA WorkersKeep ==
    ASSUME RowsInv, Kept, NEW v \in Workers, WorkerKept(v)
    PROVE  WorkerOK(v)'
BY DEF RowsInv, Kept, WorkerKept, WorkerOK, Holds

\* and so does what a claim has found.
LEMMA ClaimsKeep ==
    ASSUME RowsInv, Kept, NEW v \in Workers,
           \/ req'[v]["main"] = req[v]["main"]
           \/ ~(req'[v]["main"].kind = "claim" /\ req'[v]["main"].found)
    PROVE  ClaimOK(v)'
BY DEF RowsInv, Kept, ClaimOK, Holds

\* The fleet does not come back to provisioning, and has left it once t0 is set.
Onward ==
    /\ fleetState # "provisioning" => fleetState' # "provisioning"
    /\ SeenOK(Run)'

\* Then what was read of the run stays true.
CallKept(v, c) ==
    \/ req'[v][c] = req[v][c] \/ req'[v][c] = NoCall
    \/ /\ req'[v][c].run \in {req[v][c].run, Run}
       /\ req'[v][c].kind \notin {"none", "claim"} =>
            req'[v][c].slot \in Slots /\ worker'[v].slot \in Slots

\* A handler at work whose reading of the run is old or fresh stays right.
LEMMA CallsKeep ==
    ASSUME RowsInv, Onward, NEW v \in Workers, NEW c \in Calls, CallKept(v, c),
           worker'[v].slot \in {worker[v].slot} \cup Slots
    PROVE  CallOK(v, c)'
<1>1. CallOK(v, c) /\ SeenOK(Run)
  BY DEF RowsInv
<1>2. SeenOK(NoCall.run) /\ NoCall.kind = "none"
  BY DEF SeenOK, Left, NoRun, NoCall
<1> QED
  BY <1>1, <1>2 DEF Onward, SeenOK, Left, CallOK, CallKept

\* All of it, for the steps that give nobody a slot.
LEMMA RowsKeep ==
    ASSUME RowsInv, TypeOK', Kept, Onward, ReadyFleetIsReleased',
           \A v \in Workers :
                /\ WorkerKept(v)
                /\ \/ req'[v]["main"] = req[v]["main"]
                   \/ ~(req'[v]["main"].kind = "claim" /\ req'[v]["main"].found),
           \A v \in Workers, c \in Calls : CallKept(v, c)
    PROVE  RowsInv'
<1>1. \A s \in Slots : SlotOK(s)'
  BY SlotsKeep
<1>2. \A v \in Workers : WorkerOK(v)' /\ ClaimOK(v)'
  BY WorkersKeep, ClaimsKeep
<1>3. \A v \in Workers, c \in Calls : CallOK(v, c)'
  BY CallsKeep DEF WorkerKept
<1> QED
  BY <1>1, <1>2, <1>3 DEF RowsInv, Onward

\* A step that leaves the rows alone.
LEMMA SameRowsKeep ==
    ASSUME RowsInv, UNCHANGED <<lease, fleetState, runState, t0, everLost>>
    PROVE  Kept /\ Onward /\ ReadyFleetIsReleased'
<1>1. Kept
  BY DEF RowsInv, TypeOK, Kept
<1>2. Onward
  BY DEF RowsInv, Onward, SeenOK, Run, RunOver, Left
<1>3. ReadyFleetIsReleased'
  BY DEF RowsInv, ReadyFleetIsReleased
<1> QED
  BY <1>1, <1>2, <1>3

-----------------------------------------------------------------------------
(* The steps. *)

\* A call arrives, with the run row as it is.
LEMMA ArriveKeeps ==
    ASSUME RowsInv, NEW w \in Workers, NEW c \in Calls, Arrive(w, c)
    PROVE  RowsInv'
<1> DEFINE m == [NoCall EXCEPT !.kind = Wants(w, c), !.says = Says(worker[w].phase),
                    !.slot = worker[w].slot, !.id = worker[w].id, !.run = Run]
<1>1. worker[w] \in WorkerSet /\ Run \in RunSet
  BY DEF RowsInv, TypeOK, Run, RunSet, RunOver
<1>2. Wants(w, c) \in Kinds /\ Says(worker[w].phase) \in Phases
  BY <1>1 DEF Wants, Kinds, Says, Phases, WorkerSet
<1>3. m \in CallSet
  BY <1>1, <1>2, NoCallIsCall DEF CallSet, WorkerSet
<1>4. m.found = FALSE /\ m.run = Run
  BY DEF NoCall
<1> HIDE DEF m
<1>5. Steps(w, c, m)
  BY <1>3, StepsCall DEF RowsInv, Arrive, m
<1>6. m.kind \notin {"none", "claim"} => m.slot \in Slots /\ worker'[w].slot \in Slots
  <2>1. m.kind = Wants(w, c) /\ m.slot = worker[w].slot
    BY NoCallIsCall DEF m, CallSet
  <2> QED
    BY <2>1, <1>1 DEF RowsInv, WorkerOK, Wants, Arrive
<1>7. TypeOK'
  BY <1>5 DEF RowsInv, TypeOK, Arrive, rows, runRow, watch, Steps
<1>8. Kept /\ Onward /\ ReadyFleetIsReleased'
  BY SameRowsKeep DEF Arrive, rows, runRow, watch
<1>9. \A v \in Workers : WorkerKept(v)
  BY DEF Arrive, WorkerKept
<1>10. \A v \in Workers, d \in Calls : CallKept(v, d)
  BY <1>4, <1>5, <1>6 DEF Steps, CallKept
<1> QED
  BY <1>4, <1>5, <1>7, <1>8, <1>9, <1>10, RowsKeep DEF Steps, Calls

\* A worker between its calls changes its phase only.
LEMMA PhaseKeeps ==
    ASSUME RowsInv, NEW w \in Workers, NEW to \in Phases,
           to = "gone" \/ worker[w].slot \in Slots,
           worker' = [worker EXCEPT ![w].phase = to],
           UNCHANGED <<rows, watch, stop, req>>
    PROVE  RowsInv'
<1>1. TypeOK'
  <2>1. TypeOK
    BY DEF RowsInv
  <2>2. worker' \in [Workers -> WorkerSet]
    BY <2>1 DEF TypeOK, WorkerSet
  <2>3. QED
    BY <2>1, <2>2 DEF TypeOK, rows, runRow, watch
<1>2. \A v \in Workers : WorkerKept(v)
  BY DEF RowsInv, TypeOK, WorkerSet, WorkerKept
<1>3. Kept /\ Onward /\ ReadyFleetIsReleased'
  BY SameRowsKeep DEF rows, runRow, watch
<1> QED
  BY <1>1, <1>2, <1>3, RowsKeep DEF CallKept

\* A handler finds the lease it was called about.
LEMMA FindLeaseKeeps ==
    ASSUME RowsInv, NEW w \in Workers, NEW c \in Calls, FindLease(w, c)
    PROVE  RowsInv'
<1> DEFINE m == [req[w][c] EXCEPT !.found = TRUE, !.seen = lease[req[w][c].slot].state]
<1>1. req[w][c] \in CallSet /\ CallOK(w, c)
  BY DEF RowsInv, TypeOK
<1>2. req[w][c].kind \notin {"none", "claim"}
  BY DEF FindLease, Asked
<1>3. req[w][c].slot \in Slots /\ lease[req[w][c].slot].state \in LeaseStates
  BY <1>1, <1>2 DEF CallOK, RowsInv, TypeOK, LeaseSet
<1>4. m \in CallSet
  BY <1>1, <1>3 DEF CallSet
<1>5. m.kind = req[w][c].kind /\ m.slot = req[w][c].slot /\ m.run = req[w][c].run
  BY <1>1 DEF CallSet
<1>6. req' = [req EXCEPT ![w][c] = m]
  BY DEF FindLease
<1> HIDE DEF m
<1>7. Steps(w, c, m)
  BY <1>4, <1>6, StepsCall DEF RowsInv
<1>8. TypeOK'
  BY <1>7 DEF RowsInv, TypeOK, FindLease, rows, runRow, watch, Steps
<1>9. Kept /\ Onward /\ ReadyFleetIsReleased'
  BY SameRowsKeep DEF FindLease, rows, runRow, watch
<1>10. \A v \in Workers : WorkerKept(v)
  BY DEF FindLease, WorkerKept
<1>11. \A v \in Workers, d \in Calls : CallKept(v, d)
  BY <1>1, <1>2, <1>3, <1>5, <1>7 DEF Steps, CallKept, CallOK, FindLease
<1> QED
  BY <1>2, <1>5, <1>7, <1>8, <1>9, <1>10, <1>11, RowsKeep DEF Steps, Calls

\* An answer about a row that stays as it is, which gives nobody a slot.
LEMMA AnswerKeeps ==
    ASSUME RowsInv, NEW w \in Workers, NEW c \in Calls, NEW knows \in WorkerSet,
           Answered(w, c, knows), TypeOK', Kept, Onward, ReadyFleetIsReleased',
           knows.id = worker[w].id, knows.slot = worker[w].slot,
           knows.phase \in {worker[w].phase, "gone"} \/ worker[w].slot \in Slots
    PROVE  RowsInv'
<1>1. Steps(w, c, NoCall)
  BY AnswerSteps DEF RowsInv
<1>2. \A v \in Workers : WorkerKept(v)
  BY DEF RowsInv, Answered, WorkerKept, TypeOK, WorkerSet
<1>3. \A v \in Workers, d \in Calls : CallKept(v, d)
  BY <1>1 DEF Steps, CallKept
<1>4. \A v \in Workers : \/ req'[v]["main"] = req[v]["main"]
                         \/ ~(req'[v]["main"].kind = "claim" /\ req'[v]["main"].found)
  BY <1>1 DEF Steps, Calls, NoCall
<1> QED
  BY <1>2, <1>3, <1>4, RowsKeep

\* A worker that is told it is superseded gives up.
LEMMA FindSupersededKeeps ==
    ASSUME RowsInv, NEW w \in Workers, NEW c \in Calls, FindSuperseded(w, c)
    PROVE  RowsInv'
<1> DEFINE knows == IF c = "beat"
                    THEN [worker[w] EXCEPT !.released = TRUE, !.superseded = TRUE]
                    ELSE [worker[w] EXCEPT !.phase = "gone"]
<1>1. worker[w] \in WorkerSet
  BY DEF RowsInv, TypeOK
<1>2. knows \in WorkerSet
  BY <1>1 DEF WorkerSet, Phases
<1>3. knows.id = worker[w].id /\ knows.slot = worker[w].slot
      /\ knows.phase \in {worker[w].phase, "gone"}
  BY <1>1 DEF WorkerSet
<1>4. Answered(w, c, knows)
  BY DEF FindSuperseded
<1> HIDE DEF knows
<1>5. Steps(w, c, NoCall) /\ Learns(w, knows)
  BY <1>2, <1>4, AnswerSteps DEF RowsInv
<1>6. TypeOK'
  BY <1>5 DEF RowsInv, TypeOK, FindSuperseded, rows, runRow, watch, Steps, Learns
<1>7. Kept /\ Onward /\ ReadyFleetIsReleased'
  BY SameRowsKeep DEF FindSuperseded, rows, runRow, watch
<1> QED
  BY <1>2, <1>3, <1>4, <1>6, <1>7, AnswerKeeps

\* A claim finds what its worker holds, and what is open.
LEMMA FindClaimableKeeps ==
    ASSUME RowsInv, NEW w \in Workers, FindClaimable(w)
    PROVE  RowsInv'
<1> DEFINE id == IF HeldBy(w) = {} THEN NoId ELSE lease[MinOf(HeldBy(w))].id
           m == [req[w]["main"] EXCEPT !.found = TRUE, !.held = HeldBy(w),
                                       !.open = OpenSlots, !.id = id]
<1>1. req[w]["main"] \in CallSet /\ CallOK(w, "main") /\ req[w]["main"].kind = "claim"
  BY DEF RowsInv, TypeOK, Calls, FindClaimable
<1>2. HeldBy(w) \in SUBSET Slots /\ OpenSlots \in SUBSET Slots
  BY DEF HeldBy, OpenSlots
<1>3. HeldBy(w) # {} => MinOf(HeldBy(w)) \in HeldBy(w)
  BY <1>2, MinSlot
<1>4. id \in Nat
  BY <1>2, <1>3 DEF RowsInv, TypeOK, LeaseSet, NoId
<1>5. m \in CallSet
  BY <1>1, <1>2, <1>4 DEF CallSet
<1>6. m.kind = "claim" /\ m.run = req[w]["main"].run /\ m.held = HeldBy(w) /\ m.id = id
  BY <1>1 DEF CallSet
<1>7. m.held # {} => lease[MinOf(m.held)].id = m.id /\ lease[MinOf(m.held)].holder = w
  BY <1>3, <1>6 DEF HeldBy
<1>8. req' = [req EXCEPT ![w]["main"] = m]
  BY DEF FindClaimable
<1> HIDE DEF m, id
<1>9. Steps(w, "main", m)
  BY <1>5, <1>8, StepsCall DEF RowsInv, Calls
<1>10. TypeOK'
  BY <1>9 DEF RowsInv, TypeOK, FindClaimable, rows, runRow, watch, Steps
<1>11. Kept /\ Onward /\ ReadyFleetIsReleased'
  BY SameRowsKeep DEF FindClaimable, rows, runRow, watch
<1>12. \A s \in Slots : SlotOK(s)'
  BY <1>11, SlotsKeep
<1>13. \A v \in Workers : WorkerOK(v)'
  BY <1>11, WorkersKeep DEF FindClaimable, WorkerKept
<1>14. \A v \in Workers, d \in Calls : CallOK(v, d)'
  <2>1. \A v \in Workers, d \in Calls : CallKept(v, d)
    BY <1>1, <1>6, <1>9 DEF Steps, CallKept
  <2> QED
    BY <1>11, <2>1, CallsKeep DEF FindClaimable
<1>15. \A v \in Workers \ {w} : ClaimOK(v)'
  BY <1>9, <1>11, ClaimsKeep DEF Steps, Calls
<1>16. ClaimOK(w)'
  <2>1. req'[w]["main"] = m /\ lease' = lease
    BY <1>9 DEF Steps, FindClaimable, rows
  <2> QED
    BY <1>7, <2>1 DEF ClaimOK, Holds
<1> QED
  BY <1>10, <1>11, <1>12, <1>13, <1>14, <1>15, <1>16 DEF RowsInv, Onward

\* A worker is told of a slot: one it holds, as the claim found it.
LEMMA HeldSlotKeeps ==
    ASSUME RowsInv, NEW w \in Workers, NEW m \in CallSet, m = req[w]["main"],
           m.kind = "claim", m.found, m.held # {},
           Answered(w, "main", Grant(w, MinOf(m.held), m.id)),
           UNCHANGED <<lease, nextId, runRow, watch, stop>>
    PROVE  RowsInv'
<1> DEFINE knows == Grant(w, MinOf(m.held), m.id)
<1>1. worker[w] \in WorkerSet /\ m.held \in SUBSET Slots /\ m.id \in Nat
  BY DEF RowsInv, TypeOK, CallSet
<1>2. MinOf(m.held) \in Slots
  BY <1>1, MinSlot
<1>3. knows \in WorkerSet
  BY <1>1, <1>2 DEF Grant, WorkerSet, Phases
<1>4. knows.id = m.id /\ knows.slot = MinOf(m.held)
  BY <1>1 DEF Grant, WorkerSet
<1> HIDE DEF knows
<1>5. Steps(w, "main", NoCall) /\ Learns(w, knows)
  BY <1>3, AnswerSteps DEF RowsInv, Calls, knows
<1>6. TypeOK'
  BY <1>5 DEF RowsInv, TypeOK, runRow, watch, Steps, Learns
<1>7. Kept /\ Onward /\ ReadyFleetIsReleased'
  BY SameRowsKeep DEF runRow, watch
<1>8. \A s \in Slots : SlotOK(s)'
  BY <1>7, SlotsKeep
<1>9. \A v \in Workers : ClaimOK(v)'
  BY <1>5, <1>7, ClaimsKeep DEF Steps, Calls, NoCall
<1>10. \A v \in Workers, d \in Calls : CallOK(v, d)'
  BY <1>2, <1>4, <1>5, <1>7, CallsKeep DEF Steps, CallKept, Learns
<1>11. \A v \in Workers : worker'[v] = worker[v] => WorkerOK(v)'
  BY <1>7, WorkersKeep DEF WorkerKept
<1>12. worker'[w] = knows => WorkerOK(w)'
  <2>1. Holds(w, MinOf(m.held), m.id)
    BY DEF RowsInv, ClaimOK
  <2> QED
    BY <1>2, <1>4, <2>1 DEF WorkerOK, Holds, watch
<1> QED
  BY <1>5, <1>6, <1>7, <1>8, <1>9, <1>10, <1>11, <1>12 DEF RowsInv, Onward, Learns

\* A slot still open, with a fresh id: if no tick has declared the slot lost it was free,
\* so that no other worker was told of it and no other claim has found it.
LEMMA OpenSlotKeeps ==
    ASSUME RowsInv, NEW w \in Workers, NEW s \in Slots, lease[s].state \in Open,
           lease' = [lease EXCEPT ![s] =
                        [@ EXCEPT !.state = "claimed", !.id = nextId, !.holder = w]],
           Answered(w, "main", Grant(w, s, nextId)), nextId' = nextId + 1,
           UNCHANGED <<runRow, watch, stop>>
    PROVE  RowsInv'
<1> DEFINE knows == Grant(w, s, nextId)
<1>1. worker[w] \in WorkerSet /\ lease[s] \in LeaseSet /\ nextId \in Nat \ {0}
  BY DEF RowsInv, TypeOK
<1>2. knows \in WorkerSet /\ knows.id = nextId /\ knows.slot = s
  BY <1>1 DEF Grant, WorkerSet, Phases
<1> HIDE DEF knows
<1>3. Steps(w, "main", NoCall) /\ Learns(w, knows)
  BY <1>2, AnswerSteps DEF RowsInv, Calls, knows
<1>4. /\ lease' \in [Slots -> LeaseSet]
      /\ lease'[s].state = "claimed" /\ lease'[s].id = nextId /\ lease'[s].holder = w
      /\ \A r \in Slots \ {s} : lease'[r] = lease[r]
  BY <1>1 DEF RowsInv, TypeOK, LeaseSet, LeaseStates
<1>5. TypeOK'
  BY <1>1, <1>3, <1>4 DEF RowsInv, TypeOK, runRow, watch, Steps, Learns
<1>6. everLost' = everLost
  BY DEF watch
<1>7. \A r \in Slots : SlotOK(r)'
  BY <1>1, <1>4, <1>6 DEF RowsInv, SlotOK, NoId
<1>8. s \notin everLost => lease[s].id = NoId /\ lease[s].holder = "nobody"
  BY DEF RowsInv, SlotOK, Open
<1>9. \A v \in Workers : worker'[v] = worker[v] => WorkerOK(v)'
  BY <1>4, <1>6, <1>8 DEF RowsInv, WorkerOK, Holds
<1>10. worker'[w] = knows => WorkerOK(w)'
  BY <1>2, <1>4 DEF WorkerOK, Holds
<1>11. \A v \in Workers : ClaimOK(v)'
  <2> SUFFICES ASSUME NEW v \in Workers, v # w PROVE ClaimOK(v)'
    BY <1>3 DEF Steps, Calls, NoCall, ClaimOK
  <2>1. req'[v]["main"] = req[v]["main"]
    BY <1>3 DEF Steps, Calls
  <2>2. v # "nobody"
    BY RowsAssumption
  <2> QED
    BY <1>4, <1>6, <1>8, <2>1, <2>2 DEF RowsInv, ClaimOK, Holds
<1>12. Onward
  BY DEF RowsInv, Onward, SeenOK, Run, RunOver, Left, runRow
<1>13. \A v \in Workers, d \in Calls : CallOK(v, d)'
  BY <1>2, <1>3, <1>12, CallsKeep DEF Steps, CallKept, Learns
<1>14. ReadyFleetIsReleased'
  BY <1>4 DEF ReadyFleetIsReleased
<1> QED
  BY <1>3, <1>5, <1>7, <1>9, <1>10, <1>11, <1>12, <1>13, <1>14 DEF RowsInv, Onward, Learns

\* Nothing to claim: the worker asks again later.
LEMMA NothingOpenKeeps ==
    ASSUME RowsInv, NEW w \in Workers, Answered(w, "main", worker[w]),
           UNCHANGED <<lease, nextId, runRow, watch, stop>>
    PROVE  RowsInv'
<1>1. worker[w] \in WorkerSet
  BY DEF RowsInv, TypeOK
<1>2. Steps(w, "main", NoCall) /\ Learns(w, worker[w])
  BY <1>1, AnswerSteps DEF RowsInv, Calls
<1>3. TypeOK'
  BY <1>2 DEF RowsInv, TypeOK, runRow, watch, Steps, Learns
<1>4. Kept /\ Onward /\ ReadyFleetIsReleased'
  BY SameRowsKeep DEF runRow, watch
<1> QED
  BY <1>1, <1>3, <1>4, AnswerKeeps DEF Calls

\* A claim is answered as before, granted by the conditional update, or finds nothing left.
LEMMA CommitClaimKeeps ==
    ASSUME RowsInv, NEW w \in Workers, CommitClaim(w)
    PROVE  RowsInv'
<1> DEFINE m == req[w]["main"]
<1>1. m \in CallSet /\ m.kind = "claim" /\ m.found
  BY DEF RowsInv, TypeOK, Calls, CommitClaim, Found
<1>2. CASE m.held # {}
  <2>1. /\ Answered(w, "main", Grant(w, MinOf(m.held), m.id))
        /\ UNCHANGED <<lease, nextId, runRow, watch, stop>>
    BY <1>2 DEF CommitClaim
  <2> QED
    BY <1>1, <1>2, <2>1, HeldSlotKeeps
<1>3. CASE m.held = {} /\ StillOpen(m.open) # {}
  <2> DEFINE s == MinOf(StillOpen(m.open))
  <2>1. /\ lease' = [lease EXCEPT ![s] =
                        [@ EXCEPT !.state = "claimed", !.id = nextId, !.holder = w]]
        /\ Answered(w, "main", Grant(w, s, nextId)) /\ nextId' = nextId + 1
        /\ UNCHANGED <<runRow, watch, stop>>
    BY <1>3 DEF CommitClaim
  <2>2. StillOpen(m.open) \in SUBSET Slots
    BY <1>1 DEF StillOpen, CallSet
  <2>3. s \in Slots /\ lease[s].state \in Open
    BY <1>3, <2>2, MinSlot DEF StillOpen
  <2> HIDE DEF s
  <2> QED
    BY <2>1, <2>3, OpenSlotKeeps
<1>4. CASE m.held = {} /\ StillOpen(m.open) = {}
  <2>1. Answered(w, "main", worker[w]) /\ UNCHANGED <<lease, nextId, runRow, watch, stop>>
    BY <1>4 DEF CommitClaim
  <2> QED
    BY <2>1, NothingOpenKeeps
<1> QED
  BY <1>2, <1>3, <1>4

-----------------------------------------------------------------------------
(* The writes. *)

\* A handler's write gives nobody a slot; and what it leaves is what evaluate_release sees.
LEMMA WriteKept ==
    ASSUME RowsInv, NEW m \in CallSet, NEW st \in LeaseStates,
           st \notin Open \/ st = m.seen, Write(m, st), UNCHANGED everLost
    PROVE  /\ Kept
           /\ \/ lease' = lease
              \/ \A s \in Slots : lease'[s].state = States(m, st)[s]
<1>1. CASE st = m.seen
  BY <1>1 DEF Write, RowsInv, TypeOK, Kept
<1>2. CASE st # m.seen
  <2>1. lease' = [lease EXCEPT ![m.slot].state = st]
    BY <1>2 DEF Write
  <2>2. lease' \in [Slots -> LeaseSet]
    <3>1. \A s \in Slots : [lease[s] EXCEPT !.state = st] \in LeaseSet
      <4>1. \A s \in Slots : lease[s] \in LeaseSet
        BY DEF RowsInv, TypeOK
      <4> QED
        BY <4>1 DEF LeaseSet
    <3> QED
      BY <2>1, <3>1 DEF RowsInv, TypeOK
  <2>3. \A s \in Slots : /\ lease'[s].id = lease[s].id /\ lease'[s].holder = lease[s].holder
                         /\ lease'[s].state = IF s = m.slot THEN st ELSE lease[s].state
    BY <2>1 DEF RowsInv, TypeOK, LeaseSet
  <2>4. Kept
    BY <1>2, <2>2, <2>3 DEF Kept, RowsInv, TypeOK
  <2> QED
    BY <2>3, <2>4 DEF States
<1> QED
  BY <1>1, <1>2

\* Whoever makes the last slot ready releases the fleet, or has read of a fleet that had
\* left provisioning.
LEMMA WriteReleases ==
    ASSUME RowsInv, NEW m \in CallSet, SeenOK(m.run), NEW st \in LeaseStates,
           \/ lease' = lease
           \/ \A s \in Slots : lease'[s].state = States(m, st)[s],
           Releases(m, st) => fleetState' = "releasing",
           ~Releases(m, st) => UNCHANGED fleetState
    PROVE  ReadyFleetIsReleased'
<1> SUFFICES ASSUME \A s \in Slots : lease'[s].state = "ready"
             PROVE  fleetState' # "provisioning"
  BY DEF ReadyFleetIsReleased
<1>1. CASE lease' = lease
  BY <1>1 DEF RowsInv, ReadyFleetIsReleased
<1>2. CASE \A s \in Slots : lease'[s].state = States(m, st)[s]
  <2>1. \A s \in Slots : States(m, st)[s] = "ready"
    BY <1>2
  <2>2. (\E s \in Slots : States(m, st)[s] = "ready")
        /\ (\A s \in Slots : States(m, st)[s] \notin Pending)
    BY <2>1, RowsAssumption DEF Pending
  <2> QED
    BY <2>2 DEF SeenOK, Left, Releases
<1> QED
  BY <1>1, <1>2

\* Setting t0 takes the fleet out of provisioning.
LEMMA SetT0Onward ==
    ASSUME RowsInv, NEW released \in BOOLEAN, SetT0(released)
    PROVE  Onward /\ t0' \in Nat /\ fleetState' \in FleetStates
BY DEF RowsInv, TypeOK, Onward, SeenOK, Left, Run, SetT0, FleetStates, NoT0

\* Ready: the worker's lease is ready, and if it is the last one the fleet is released.
LEMMA CommitReadyKeeps ==
    ASSUME RowsInv, NEW w \in Workers, CommitReady(w)
    PROVE  RowsInv'
<1> DEFINE m == req[w]["main"]
           st == ReadyAgain(m.seen)
           knows == [worker[w] EXCEPT !.phase = "waiting",
                        !.released = @ \/ Releases(m, st) \/ m.run.t0 # NoT0]
<1>1. m \in CallSet /\ SeenOK(m.run) /\ worker[w] \in WorkerSet
  BY DEF RowsInv, TypeOK, Calls, CallOK
<1>2. st \in LeaseStates /\ (st \notin Open \/ st = m.seen)
  BY <1>1 DEF CallSet, LeaseStates, ReadyAgain, Open
<1>3. Write(m, st) /\ SetT0(Releases(m, st)) /\ Answered(w, "main", knows)
      /\ UNCHANGED <<nextId, runState, watch, stop>>
  BY DEF CommitReady
<1>4. knows \in WorkerSet /\ knows.id = worker[w].id /\ knows.slot = worker[w].slot
  <2>1. (worker[w].released \/ Releases(m, st) \/ m.run.t0 # NoT0) \in BOOLEAN
    OBVIOUS
  <2> QED
    BY <1>1, <2>1 DEF WorkerSet, Phases
<1>5. knows.phase = "waiting"
  BY <1>1 DEF WorkerSet
<1> HIDE DEF knows, st, m
<1>6. Releases(m, st) \in BOOLEAN
  BY DEF Releases
<1>7. Onward /\ t0' \in Nat /\ fleetState' \in FleetStates
  BY <1>3, <1>6, SetT0Onward
<1>8. Kept /\ (lease' = lease \/ \A s \in Slots : lease'[s].state = States(m, st)[s])
  BY <1>1, <1>2, <1>3, WriteKept DEF watch
<1>9. ReadyFleetIsReleased'
  BY <1>1, <1>2, <1>3, <1>8, WriteReleases DEF SetT0
<1>10. Steps(w, "main", NoCall) /\ Learns(w, knows)
  BY <1>3, <1>4, AnswerSteps DEF RowsInv, Calls
<1>11. TypeOK'
  BY <1>3, <1>7, <1>8, <1>10 DEF RowsInv, TypeOK, Steps, Learns, watch, Kept
<1> QED
  <2>1. worker[w].slot \in Slots
    BY DEF CommitReady, Found, RowsInv, CallOK, Calls
  <2> QED
    BY <2>1, <1>3, <1>4, <1>5, <1>7, <1>8, <1>9, <1>11, <1>10, AnswerKeeps DEF Calls

\* An answered heartbeat changes, of its worker, whether it has heard the release.
LEMMA BeatAnswers ==
    ASSUME RowsInv, NEW w \in Workers, NEW knows \in WorkerSet, Answered(w, "beat", knows),
           knows.id = worker[w].id, knows.slot = worker[w].slot,
           knows.phase = worker[w].phase,
           Kept, Onward, ReadyFleetIsReleased', t0' \in Nat, fleetState' \in FleetStates,
           UNCHANGED <<nextId, watch, stop>>
    PROVE  RowsInv'
<1>1. Steps(w, "beat", NoCall) /\ Learns(w, knows)
  BY AnswerSteps DEF RowsInv, Calls
<1>2. TypeOK'
  BY <1>1 DEF RowsInv, TypeOK, Steps, Learns, watch, Kept
<1> QED
  BY <1>2, AnswerKeeps DEF Calls

\* A worker that is told something of the release is the same worker.
LEMMA HearingWorker ==
    ASSUME NEW knowing \in WorkerSet, NEW heard \in BOOLEAN
    PROVE  LET knows == [knowing EXCEPT !.released = heard] IN
           /\ knows \in WorkerSet
           /\ knows.id = knowing.id /\ knows.slot = knowing.slot
           /\ knows.phase = knowing.phase
BY DEF WorkerSet

\* What a heartbeat writes.
LEMMA CommitHeartbeatKeeps ==
    ASSUME RowsInv, NEW w \in Workers, CommitHeartbeat(w)
    PROVE  RowsInv'
<1> DEFINE m == req[w]["beat"]
<1>1. m \in CallSet /\ SeenOK(m.run) /\ worker[w] \in WorkerSet
  BY DEF RowsInv, TypeOK, Calls, CallOK
<1>2. UNCHANGED <<nextId, watch, stop>> /\ everLost' = everLost
  BY DEF CommitHeartbeat, watch
<1>3. Restored(m) \in LeaseStates /\ (Restored(m) \notin Open \/ Restored(m) = m.seen)
  BY <1>1 DEF CallSet, LeaseStates, Restored, Open
<1>4. t0 \in Nat /\ fleetState \in FleetStates
  BY DEF RowsInv, TypeOK
<1>5. \A released \in BOOLEAN :
        LET knows == HeardRelease(w, released) IN
        /\ knows \in WorkerSet /\ knows.id = worker[w].id /\ knows.slot = worker[w].slot
        /\ knows.phase = worker[w].phase
  <2> SUFFICES ASSUME NEW released \in BOOLEAN
               PROVE  LET knows == HeardRelease(w, released) IN
                      /\ knows \in WorkerSet /\ knows.id = worker[w].id
                      /\ knows.slot = worker[w].slot /\ knows.phase = worker[w].phase
    OBVIOUS
  <2> DEFINE heard == worker[w].released
                        \/ (released /\ worker[w].phase \in {"ready", "waiting"})
  <2>1. heard \in BOOLEAN /\ HeardRelease(w, released) = [worker[w] EXCEPT !.released = heard]
    BY <1>1 DEF HeardRelease, WorkerSet
  <2> HIDE DEF heard
  <2> QED
    BY <1>1, <2>1, HearingWorker
<1> HIDE DEF m
<1>6. CASE BeatStops(w, m)
  <2>1. Answered(w, "beat", [worker[w] EXCEPT !.released = TRUE])
        /\ UNCHANGED <<lease, runRow>>
    BY <1>6 DEF BeatStops
  <2>2. Kept /\ Onward /\ ReadyFleetIsReleased'
    BY <1>2, <2>1, SameRowsKeep DEF runRow
  <2> QED
    BY <1>1, <1>2, <1>4, <2>1, <2>2, BeatAnswers, HearingWorker DEF runRow
<1>7. CASE BeatBeforeT0(w, m)
  <2> DEFINE st == Restored(m)
             released == st = "ready" /\ Releases(m, st)
  <2>1. Write(m, st) /\ SetT0(released) /\ Answered(w, "beat", HeardRelease(w, released))
    BY <1>7 DEF BeatBeforeT0
  <2>2. released \in BOOLEAN
    OBVIOUS
  <2>3. Kept /\ (lease' = lease \/ \A s \in Slots : lease'[s].state = States(m, st)[s])
    BY <1>1, <1>2, <1>3, <2>1, WriteKept
  <2>4. Onward /\ t0' \in Nat /\ fleetState' \in FleetStates
    BY <2>1, <2>2, SetT0Onward
  <2>5. ReadyFleetIsReleased'
    <3>1. CASE st = "ready"
      <4>1. released <=> Releases(m, st)
        BY <3>1
      <4> QED
        BY <1>1, <1>3, <2>1, <2>3, <4>1, WriteReleases DEF SetT0
    <3>2. CASE st # "ready"
      <4>1. fleetState' = fleetState
        BY <2>1, <3>2 DEF SetT0
      <4>2. lease' = lease \/ \E s \in Slots : lease'[s].state # "ready"
        <5>1. CASE m.slot \in Slots
          BY <2>3, <3>2, <5>1 DEF States
        <5>2. CASE m.slot \notin Slots
          BY <2>1, <5>2 DEF Write, RowsInv, TypeOK
        <5> QED
          BY <5>1, <5>2
      <4> QED
        BY <4>1, <4>2 DEF RowsInv, ReadyFleetIsReleased
    <3> QED
      BY <3>1, <3>2
  <2> HIDE DEF released, st
  <2> QED
    BY <1>2, <1>5, <2>1, <2>2, <2>3, <2>4, <2>5, BeatAnswers
<1>8. fleetState # "provisioning" \/ m.run.t0 = NoT0
  BY <1>1 DEF SeenOK, Left
<1>9. CASE BeatRepeatsT0(w, m)
  <2>1. Write(m, Restored(m)) /\ UNCHANGED runRow
        /\ Answered(w, "beat", HeardRelease(w, TRUE)) /\ m.run.t0 # NoT0
    BY <1>9 DEF BeatRepeatsT0
  <2>2. Kept
    BY <1>1, <1>2, <1>3, <2>1, WriteKept
  <2>3. Onward /\ ReadyFleetIsReleased'
    BY <1>8, <2>1 DEF RowsInv, Onward, SeenOK, Left, Run, RunOver, runRow,
       ReadyFleetIsReleased
  <2> QED
    BY <1>2, <1>4, <1>5, <2>1, <2>2, <2>3, BeatAnswers DEF runRow
<1>10. CASE BeatUnderway(w, m)
  <2> DEFINE st == IF Restored(m) \in {"claimed", "ready"} THEN "running" ELSE Restored(m)
  <2>1. Write(m, st) /\ UNCHANGED t0 /\ Answered(w, "beat", worker[w]) /\ m.run.t0 # NoT0
    BY <1>10 DEF BeatUnderway
  <2>2. st \in LeaseStates /\ (st \notin Open \/ st = m.seen)
    BY <1>3 DEF LeaseStates, Open
  <2>3. Kept
    BY <1>1, <1>2, <2>1, <2>2, WriteKept
  <2>4. fleetState' \in {fleetState, "running"}
    BY <1>10 DEF BeatUnderway
  <2>5. Onward /\ ReadyFleetIsReleased'
    BY <1>8, <2>1, <2>4 DEF RowsInv, Onward, SeenOK, Left, Run, ReadyFleetIsReleased
  <2> QED
    BY <1>1, <1>2, <1>4, <2>1, <2>3, <2>4, <2>5, BeatAnswers DEF FleetStates
<1> QED
  BY <1>6, <1>7, <1>9, <1>10 DEF CommitHeartbeat, m

\* The final report: the lease is done, and the worker goes.
LEMMA CommitFinalKeeps ==
    ASSUME RowsInv, NEW w \in Workers, CommitFinal(w)
    PROVE  RowsInv'
<1> DEFINE m == req[w]["main"]
           knows == [worker[w] EXCEPT !.phase = "gone"]
<1>1. m \in CallSet /\ worker[w] \in WorkerSet
  BY DEF RowsInv, TypeOK, Calls
<1>2. knows \in WorkerSet /\ knows.id = worker[w].id /\ knows.slot = worker[w].slot
      /\ knows.phase = "gone"
  BY <1>1 DEF WorkerSet, Phases
<1>3. Answered(w, "main", knows) /\ UNCHANGED <<nextId, runRow, watch, stop>>
  BY DEF CommitFinal
<1> HIDE DEF knows
<1> DEFINE reported(s) == [lease[s] EXCEPT !.state = "done", !.report = w]
<1>4. lease' = lease \/ lease' = [lease EXCEPT ![m.slot] = reported(m.slot)]
  BY DEF CommitFinal
<1>5. \A s \in Slots : /\ reported(s) \in LeaseSet
                      /\ reported(s).id = lease[s].id /\ reported(s).holder = lease[s].holder
                      /\ reported(s).state = "done"
  <2>1. \A s \in Slots : lease[s] \in LeaseSet
    BY DEF RowsInv, TypeOK
  <2> QED
    BY <2>1 DEF LeaseSet, LeaseStates
<1> HIDE DEF m, reported
<1>6. /\ lease' \in [Slots -> LeaseSet]
      /\ \A s \in Slots :
            \/ lease'[s] = lease[s]
            \/ /\ lease'[s].id = lease[s].id /\ lease'[s].holder = lease[s].holder
               /\ lease'[s].state = "done"
  BY <1>4, <1>5 DEF RowsInv, TypeOK
<1>7. Kept
  BY <1>3, <1>6 DEF Kept, RowsInv, TypeOK, LeaseStates, Open, watch
<1>8. Onward /\ ReadyFleetIsReleased'
  <2>1. (\A s \in Slots : lease'[s].state = "ready")
            => \A s \in Slots : lease[s].state = "ready"
    BY <1>6
  <2> QED
    BY <1>3, <2>1 DEF RowsInv, Onward, SeenOK, Left, Run, RunOver, runRow,
       ReadyFleetIsReleased
<1>9. Steps(w, "main", NoCall) /\ Learns(w, knows)
  BY <1>2, <1>3, AnswerSteps DEF RowsInv, Calls
<1>10. TypeOK'
  BY <1>3, <1>6, <1>9 DEF RowsInv, TypeOK, Steps, Learns, watch, runRow
<1> QED
  BY <1>2, <1>3, <1>7, <1>8, <1>10, AnswerKeeps DEF Calls

\* The operator's stop takes the fleet to draining, or leaves it as it is.
LEMMA StopKeeps ==
    ASSUME RowsInv, StopReads \/ StopCommits
    PROVE  RowsInv'
<1>1. UNCHANGED <<lease, nextId, runState, t0, watch, worker, req>>
      /\ fleetState' \in {fleetState, "draining"}
      /\ stop' \in {"none", "committed"} \cup FleetStates
  BY DEF StopReads, StopCommits, rows, runRow, RowsInv, TypeOK
<1>2. TypeOK'
  BY <1>1 DEF RowsInv, TypeOK, watch, FleetStates
<1>3. Kept
  BY <1>1 DEF RowsInv, TypeOK, Kept, watch
<1>4. Onward /\ ReadyFleetIsReleased'
  BY <1>1 DEF RowsInv, Onward, SeenOK, Left, Run, ReadyFleetIsReleased
<1> QED
  BY <1>1, <1>2, <1>3, <1>4, RowsKeep DEF CallKept, WorkerKept

\* A tick reads the run and every lease.
LEMMA TickReadsKeeps ==
    ASSUME RowsInv, TickReads
    PROVE  RowsInv'
<1>1. Run \in RunSet /\ [s \in Slots |-> lease[s].state] \in [Slots -> LeaseStates]
  BY DEF RowsInv, TypeOK, Run, RunSet, RunOver, LeaseSet
<1>2. TypeOK'
  BY <1>1 DEF RowsInv, TypeOK, TickReads, rows, runRow
<1>3. Kept /\ Onward /\ ReadyFleetIsReleased'
  BY SameRowsKeep DEF TickReads, rows, runRow
<1> QED
  BY <1>2, <1>3, RowsKeep DEF TickReads, CallKept, WorkerKept

\* What a tick changes, of what it has read, it declares lost.
LEMMA TickKeeps ==
    ASSUME RowsInv, Tick
    PROVE  RowsInv'
<1>1. PICK late \in BOOLEAN, overrun \in BOOLEAN,
           silent \in SUBSET Within(tick.seen, Live) : TickCommits(silent, late, overrun)
  BY DEF Tick
<1> DEFINE draining == tick.run.fleet = "draining"
           heard    == Lose(tick.seen, silent)
           forced   == late /\ tick.run.t0 = NoT0 /\ tick.run.fleet = "provisioning"
           release  == forced /\ Within(heard, {"ready"}) # {}
           givesUp  == forced /\ ~release
           present  == IF forced THEN Lose(heard, Within(heard, Pending)) ELSE heard
           open     == IF draining \/ givesUp THEN Lose(present, Within(present, {"free"}))
                       ELSE present
           settled  == Within(open, {"done", "lost"}) = Slots
           final    == IF overrun /\ ~settled THEN Lose(open, Slots \ Within(open, {"done"}))
                       ELSE open
           changed  == {s \in Slots : final[s] # tick.seen[s]}
<1>2. /\ lease' = [s \in Slots |-> IF s \in changed
                        THEN [lease[s] EXCEPT !.state = final[s]] ELSE lease[s]]
      /\ t0' = IF release THEN t0 + 1 ELSE t0
      /\ fleetState' = CASE release -> "releasing" [] givesUp -> "draining"
                         [] OTHER -> fleetState
      /\ everLost' = everLost \cup changed
      /\ tick' = NoTick
      /\ UNCHANGED <<nextId, runState, stop, worker, req>>
  BY <1>1 DEF TickCommits
<1>3. \A s \in Slots : final[s] \in {tick.seen[s], "lost"}
  <2>1. \A s \in Slots : heard[s] \in {tick.seen[s], "lost"}
    BY DEF Lose
  <2>2. \A s \in Slots : present[s] \in {heard[s], "lost"}
    BY DEF Lose
  <2>3. \A s \in Slots : open[s] \in {present[s], "lost"}
    BY DEF Lose
  <2>4. \A s \in Slots : final[s] \in {open[s], "lost"}
    <3> HIDE DEF open
    <3> QED
      BY DEF Lose
  <2> HIDE DEF final, open, present, heard
  <2> QED
    BY <2>1, <2>2, <2>3, <2>4
<1> HIDE DEF final
<1>4. \A s \in changed : final[s] = "lost"
  BY <1>3
<1>5. changed \in SUBSET Slots
  OBVIOUS
<1> HIDE DEF changed
<1>6. \A s \in Slots : [lease[s] EXCEPT !.state = "lost"] \in LeaseSet
                       /\ [lease[s] EXCEPT !.state = "lost"].state = "lost"
                       /\ [lease[s] EXCEPT !.state = "lost"].id = lease[s].id
                       /\ [lease[s] EXCEPT !.state = "lost"].holder = lease[s].holder
  <2>1. \A s \in Slots : lease[s] \in LeaseSet
    BY DEF RowsInv, TypeOK
  <2> QED
    BY <2>1 DEF LeaseSet, LeaseStates
<1>7. /\ lease' \in [Slots -> LeaseSet]
      /\ \A s \in Slots :
            \/ lease'[s] = lease[s] /\ s \notin changed
            \/ /\ lease'[s].id = lease[s].id /\ lease'[s].holder = lease[s].holder
               /\ lease'[s].state = "lost" /\ s \in changed
  <2>1. \A s \in changed : [lease[s] EXCEPT !.state = final[s]]
                             = [lease[s] EXCEPT !.state = "lost"]
    BY <1>4
  <2> QED
    BY <1>2, <1>5, <1>6, <2>1 DEF RowsInv, TypeOK
<1>8. Kept
  BY <1>2, <1>5, <1>7 DEF RowsInv, TypeOK, Kept
<1>9. fleetState' \in {fleetState, "releasing", "draining"} /\ t0' \in Nat
      /\ (t0' # t0 => fleetState' = "releasing")
  <2>1. t0 \in Nat
    BY DEF RowsInv, TypeOK
  <2>0. ~(release /\ givesUp)
    OBVIOUS
  <2> HIDE DEF release, givesUp
  <2>2. CASE release
    <3>1. fleetState' = CASE release -> "releasing" [] givesUp -> "draining"
                          [] OTHER -> fleetState
      BY <1>2
    <3>2. fleetState' = "releasing"
      BY <2>0, <2>2, <3>1
    <3>3. t0' = t0 + 1
      BY <1>2, <2>2
    <3> QED
      BY <2>1, <3>2, <3>3
  <2>3. CASE ~release
    <3>1. t0' = t0 /\ fleetState' \in {fleetState, "draining"}
      BY <1>2, <2>3
    <3> QED
      BY <2>1, <3>1
  <2> QED
    BY <2>2, <2>3
<1>10. Onward
  BY <1>9 DEF RowsInv, TypeOK, Onward, SeenOK, Left, Run
<1>11. ReadyFleetIsReleased'
  <2>1. (\A s \in Slots : lease'[s].state = "ready")
            => \A s \in Slots : lease[s].state = "ready"
    BY <1>7
  <2> QED
    BY <1>9, <2>1 DEF RowsInv, ReadyFleetIsReleased
<1>12. NoTick \in [busy : BOOLEAN, run : RunSet, seen : [Slots -> LeaseStates]]
  BY DEF NoTick, NoRun, RunSet, FleetStates, LeaseStates, NoT0
<1>13. TypeOK'
  BY <1>2, <1>8, <1>9, <1>12 DEF RowsInv, TypeOK, Kept, FleetStates
<1> QED
  BY <1>2, <1>8, <1>10, <1>11, <1>13, RowsKeep DEF CallKept, WorkerKept

\* The result ends the run.
LEMMA WriteResultKeeps ==
    ASSUME RowsInv, WriteResult
    PROVE  RowsInv'
<1>1. TypeOK'
  BY DEF RowsInv, TypeOK, WriteResult, FleetStates
<1>2. Kept
  BY DEF RowsInv, TypeOK, Kept, WriteResult
<1>3. Onward /\ ReadyFleetIsReleased'
  BY DEF RowsInv, Onward, SeenOK, Left, Run, WriteResult, ReadyFleetIsReleased
<1> QED
  BY <1>1, <1>2, <1>3, RowsKeep DEF WriteResult, CallKept, WorkerKept

-----------------------------------------------------------------------------

\* A fleet begins with free slots, new workers and nothing read.
LEMMA RowsInit ==
    ASSUME Init
    PROVE  RowsInv
<1>1. NoTick \in [busy : BOOLEAN, run : RunSet, seen : [Slots -> LeaseStates]]
  BY DEF NoTick, NoRun, RunSet, FleetStates, LeaseStates, NoT0
<1>2. FreeLease \in LeaseSet /\ NewWorker \in WorkerSet
  BY DEF FreeLease, LeaseSet, LeaseStates, NoId, NewWorker, WorkerSet, Phases
<1>3. TypeOK
  BY <1>1, <1>2, NoCallIsCall DEF Init, TypeOK, FleetStates, NoT0
<1>4. \A s \in Slots : SlotOK(s)
  BY DEF Init, SlotOK, FreeLease
<1>5. \A w \in Workers : WorkerOK(w) /\ ClaimOK(w)
  BY DEF Init, WorkerOK, ClaimOK, NewWorker, NoCall, Calls, NoId
<1>6. SeenOK(Run)
  BY DEF Init, SeenOK, Left, Run
<1>7. \A w \in Workers, c \in Calls : CallOK(w, c)
  BY DEF Init, CallOK, SeenOK, Left, NoCall, NoRun
<1>8. ReadyFleetIsReleased
  BY RowsAssumption DEF Init, ReadyFleetIsReleased, FreeLease
<1> QED
  BY <1>3, <1>4, <1>5, <1>6, <1>7, <1>8 DEF RowsInv

\* Every step keeps the invariant.
LEMMA RowsNext ==
    ASSUME RowsInv, [Next]_vars
    PROVE  RowsInv'
<1>1. ASSUME NEW w \in Workers, Handler(w) PROVE RowsInv'
  BY <1>1, ArriveKeeps, FindLeaseKeeps, FindSupersededKeeps, FindClaimableKeeps,
     CommitClaimKeeps, CommitReadyKeeps, CommitHeartbeatKeeps, CommitFinalKeeps
     DEF Handler
<1>2. ASSUME NEW w \in Workers, WorkerStep(w) PROVE RowsInv'
  <2>1. CASE GivesUp(w)
    BY <2>1, PhaseKeeps DEF GivesUp, Phases
  <2>2. CASE WarmedUp(w) \/ FailToStart(w) \/ FinishLoad(w) \/ StartLoad(w)
    <3>1. \E to \in Phases : worker' = [worker EXCEPT ![w].phase = to]
      BY <2>2 DEF WarmedUp, FailToStart, FinishLoad, StartLoad, Becomes, Phases
    <3>2. worker[w].slot \in Slots
      BY <2>2 DEF WarmedUp, FailToStart, FinishLoad, StartLoad, Becomes, RowsInv, WorkerOK
    <3>3. UNCHANGED <<rows, watch, stop, req>>
      BY <2>2 DEF WarmedUp, FailToStart, FinishLoad, StartLoad, Becomes
    <3> QED
      BY <3>1, <3>2, <3>3, PhaseKeeps
  <2> QED
    BY <1>2, <2>1, <2>2 DEF WorkerStep
<1>3. CASE UNCHANGED vars
  <2>1. TypeOK'
    BY <1>3 DEF RowsInv, TypeOK, vars, rows, runRow, watch
  <2>2. Kept /\ Onward /\ ReadyFleetIsReleased'
    BY <1>3, SameRowsKeep DEF vars, rows, runRow, watch
  <2> QED
    BY <1>3, <2>1, <2>2, RowsKeep DEF vars, CallKept, WorkerKept
<1> QED
  BY <1>1, <1>2, <1>3, StopKeeps, TickReadsKeeps, TickKeeps, WriteResultKeeps DEF Next

\* However the sessions of the handlers, of the watch and of the operator overlap, the
\* rows and what each session has read of them stay as the invariant says.
THEOREM RowsHold == Spec => []RowsInv
BY RowsInit, RowsNext, PTL DEF Spec

\* However claims interleave, for any number of workers and slots, a worker told of a
\* slot that no tick has declared lost is the one whose lease it is (fleet.py claim).
THEOREM ClaimsAreExclusiveHolds == Spec => []ClaimsAreExclusive
<1>1. RowsInv => ClaimsAreExclusive
  BY DEF RowsInv, WorkerOK, Holds, ClaimsAreExclusive
<1> QED
  BY <1>1, RowsHold, PTL

\* Whichever handlers make the last slots ready at the same moment, one of them releases
\* the fleet (fleet.py evaluate_release).
THEOREM ReadyFleetIsReleasedHolds == Spec => []ReadyFleetIsReleased
<1>1. RowsInv => ReadyFleetIsReleased
  BY DEF RowsInv
<1> QED
  BY <1>1, RowsHold, PTL

=============================================================================
