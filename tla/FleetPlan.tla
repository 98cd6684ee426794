------------------------------- MODULE FleetPlan -------------------------------
(***************************************************************************)
(* How a run's load is dealt out over its workers (fleet.plan, slot_load,  *)
(* runcontrol.set_load and the scheduler's share of the crons): groups of  *)
(* one engine each, slots within a group, and a new total that every slot  *)
(* hears of with its own next heartbeat, replacements included.            *)
(* Rates are in ten-thousandths of an arrival a minute, the code's         *)
(* rounding.                                                               *)
(***************************************************************************)
EXTENDS Integers, Sequences, FiniteSets, SequencesExt, FiniteSetsExt

CONSTANTS
    Orders,     \* the runs explored: [personas, model, users, rate, crons] of the scenario,
                \*   [asksUsers, asksRate, paced, workers] of the run (0: not given), and
                \*   `changes`, the bound on how many other totals it is changed to
    Density,    \* users one worker carries, per engine
    Totals,     \* the totals an operator changes the load to
    NoOrder

Sum0(f, S) == MapThenSumSet(LAMBDA k : f[k], S)
AllEngines == {"api", "browser"}
Position(e) == IF e = "api" THEN 1 ELSE 2  \* the order of sorted()

ASSUME FleetPlanAssumption ==
    /\ \A e \in AllEngines : Density[e] \in Nat \ {0}
    /\ Totals \subseteq Nat
    /\ \A o \in Orders :
          /\ DOMAIN o.personas # {} /\ IsFiniteSet(DOMAIN o.personas)
          /\ \A i \in DOMAIN o.personas :
                /\ o.personas[i].weight \in Nat \ {0}
                /\ o.personas[i].engines # {} /\ o.personas[i].engines \subseteq AllEngines
          /\ o.model \in {"closed", "open", "schedule"}
          /\ {o.users, o.rate, o.asksUsers, o.asksRate, o.workers} \subseteq Nat
          /\ \A e \in AllEngines : o.crons[e] \in Nat

-----------------------------------------------------------------------------
(* plan *)

IsUsed(o, e) == \E i \in DOMAIN o.personas : e \in o.personas[i].engines
EnginesOf(o) ==
    (IF IsUsed(o, "api") THEN <<"api">> ELSE <<>>) \o (IF IsUsed(o, "browser") THEN <<"browser">> ELSE <<>>)

\* What the run asks for decides the model, except that a schedule stays one.
ModelOf(o) ==
    IF o.asksRate > 0 THEN "open"
    ELSE IF o.asksUsers > 0 \/ o.paced THEN IF o.model = "schedule" THEN "schedule" ELSE "closed"
    ELSE o.model
Given(asked, default) == IF asked > 0 THEN asked ELSE default
UsersOf(o) == Given(o.asksUsers, Given(o.users, 1))
RateOf(o) == Given(o.asksRate, o.rate)

\* A persona of two engines gives each half its weight: in halves, to stay integer.
WeightFor(p, e) == IF e \in p.engines THEN (2 * p.weight) \div Cardinality(p.engines) ELSE 0
WeightsOf(o) == [e \in AllEngines |->
    Sum0([i \in DOMAIN o.personas |-> WeightFor(o.personas[i], e)], DOMAIN o.personas)]

SplitEvenly(total, n) == [i \in 1..n |-> (total \div n) + (IF i <= total % n THEN 1 ELSE 0)]

\* Largest remainder, the later engine first among equals.
DealFloor(total, w, e) == (total * w[e]) \div Sum0(w, DOMAIN w)
IsAhead(total, w, d, e) ==
    LET frac(k) == (total * w[k]) % Sum0(w, DOMAIN w)
    IN  frac(d) > frac(e) \/ (frac(d) = frac(e) /\ Position(d) > Position(e))
RemainderOf(total, w) == total - Sum0([k \in DOMAIN w |-> DealFloor(total, w, k)], DOMAIN w)
DealRounded(total, w) == [e \in DOMAIN w |-> (2 * total * w[e] + Sum0(w, DOMAIN w)) \div (2 * Sum0(w, DOMAIN w))]
Deal(total, w) == [e \in DOMAIN w |->
    DealFloor(total, w, e) +
        (IF Cardinality({d \in DOMAIN w : IsAhead(total, w, d, e)}) < RemainderOf(total, w) THEN 1 ELSE 0)]

Ceiling(a, b) == (a + b - 1) \div b
Rounded(a, b) == (2 * a + b) \div (2 * b)
AtLeastOne(n) == IF n < 1 THEN 1 ELSE n

\* The engines' shares: all of it when there is one.
Mixed(o) == Len(EnginesOf(o)) > 1
UsersFor(o, e) == AtLeastOne(IF Mixed(o) THEN Deal(UsersOf(o), WeightsOf(o))[e] ELSE UsersOf(o))
\* The rate of a group of n workers, per worker.
RateFor(o, e, n) ==
    IF Mixed(o) THEN Rounded(RateOf(o) * WeightsOf(o)[e], Sum0(WeightsOf(o), AllEngines) * n)
    ELSE Rounded(RateOf(o), n)
PerMinute == 600000  \* one arrival a second
WorkersFor(o, e) ==
    LET asked == IF Mixed(o) THEN AtLeastOne(Deal(o.workers, WeightsOf(o))[e]) ELSE o.workers
        n == IF o.workers > 0 THEN asked
             ELSE CASE ModelOf(o) = "closed" -> Ceiling(UsersFor(o, e), Density[e])
                    [] ModelOf(o) = "open" -> AtLeastOne(Ceiling(RateFor(o, e, 1), Density[e] * PerMinute))
                    [] OTHER -> 1
    IN  IF ModelOf(o) = "closed" /\ n > UsersFor(o, e) THEN UsersFor(o, e) ELSE n

\* The slots of one group.
GroupSlots(o, e) ==
    LET n == WorkersFor(o, e) IN
    [i \in 1..n |-> [engine |-> e, groupSlot |-> i - 1, groupWorkers |-> n,
        share |-> CASE ModelOf(o) = "closed" -> AtLeastOne(SplitEvenly(UsersFor(o, e), n)[i])
                    [] ModelOf(o) = "open" -> RateFor(o, e, n)
                    [] OTHER -> 0]]
PlanOf(o) == FlattenSeq([i \in DOMAIN EnginesOf(o) |-> GroupSlots(o, EnginesOf(o)[i])])

-----------------------------------------------------------------------------
(* The run. *)

VARIABLES
    order,    \* the run and its scenario
    slots,    \* the leases' share_json, by slot
    override, \* run.load_override, or -1
    applied,  \* what each slot's worker runs
    asked     \* history: the totals of the run so far

planVars == <<order, slots, override, applied, asked>>

\* launch: a lease per slot.
Launch(o) ==
    /\ order = NoOrder
    /\ order' = o /\ slots' = PlanOf(o)
    /\ applied' = [i \in DOMAIN PlanOf(o) |-> PlanOf(o)[i].share]
    /\ asked' = {IF ModelOf(o) = "open" THEN RateOf(o) ELSE UsersOf(o)}
    /\ UNCHANGED override

\* set_load: refused where there is no one figure, and beyond what the workers carry.
HasOneFigure == ~Mixed(order) /\ ModelOf(order) # "schedule"
Carried == Len(slots) * Density[slots[1].engine]
ChangeLoad(total) ==
    /\ order # NoOrder /\ HasOneFigure
    /\ ModelOf(order) = "closed" => total <= Carried
    /\ Cardinality(asked \cup {total}) <= 1 + order.changes
    /\ override' = total /\ asked' = asked \cup {total}
    /\ UNCHANGED <<order, slots, applied>>

\* slot_load, in the heartbeat's reply; the scheduler takes it.
SlotLoad(i) ==
    LET n == slots[i].groupWorkers IN
    IF ModelOf(order) = "closed" THEN SplitEvenly(override, n)[slots[i].groupSlot + 1] ELSE Rounded(override, n)
HearLoad(i) ==
    /\ order # NoOrder /\ i \in DOMAIN slots /\ override # -1
    /\ applied' = [applied EXCEPT ![i] = SlotLoad(i)]
    /\ UNCHANGED <<order, slots, override, asked>>

\* A replacement claims the slot: its share is the launched one until its first heartbeat.
ReplaceWorker(i) ==
    /\ order # NoOrder /\ i \in DOMAIN slots
    /\ applied' = [applied EXCEPT ![i] = slots[i].share]
    /\ UNCHANGED <<order, slots, override, asked>>

\* _run_schedule: the steps with a cron of the group's scenario this slot fires.
Fires(i) ==
    LET s == slots[i] IN
    {k \in 1..order.crons[s.engine] :
        s.groupWorkers > 1 => (k - 1) % s.groupWorkers = s.groupSlot % s.groupWorkers}

PlanInit ==
    /\ order = NoOrder /\ slots = <<>> /\ applied = <<>> /\ override = -1 /\ asked = {}
PlanNext ==
    \/ \E o \in Orders : Launch(o)
    \/ \E total \in Totals : ChangeLoad(total)
    \/ \E i \in DOMAIN slots : HearLoad(i) \/ ReplaceWorker(i)
PlanSpec == PlanInit /\ [][PlanNext]_planVars

-----------------------------------------------------------------------------
Total == Sum0(applied, DOMAIN applied)
\* Less than a unit of the rounding per worker.
Slack == IF ModelOf(order) = "open" THEN Len(slots) ELSE 0

\* While slots hear of a change one by one and replacements start from the launched share,
\* the fleet's load stays between the totals asked for, and is the one asked for when there
\* was no change; every scheduled search fires on exactly one worker (fleet.py:180-184,
\* 563-566; scheduler.py:776-778). A mixed closed run with fewer users than engines is
\* given one each.
LoadIsDealtOut ==
    order # NoOrder =>
        IF ModelOf(order) = "schedule"
        THEN \A e \in ToSet(EnginesOf(order)) : \A k \in 1..order.crons[e] :
                Cardinality({i \in DOMAIN slots : slots[i].engine = e /\ k \in Fires(i)}) = 1
        ELSE \/ ModelOf(order) = "closed" /\ \E e \in ToSet(EnginesOf(order)) :
                    Deal(UsersOf(order), WeightsOf(order))[e] = 0 /\ Mixed(order)
             \/ Total \in (Min(asked) - Slack)..(Max(asked) + Slack)
=============================================================================
