------------------------------ MODULE Scheduler ------------------------------
(***************************************************************************)
(* The worker's scheduler (scheduler.py): when work starts, how a run is   *)
(* paused, stopped and drained, and what its outcome is.                   *)
(*                                                                         *)
(* One event loop runs the load's own loop (closed, open or by schedule)   *)
(* and a task per virtual user or arrival.  An action is what runs between *)
(* two awaits.  Time is counted in small units; a sleeper wakes at its     *)
(* time or, under load, up to plan.late units after it.  What a search     *)
(* takes, whether it fails, and whether a measured ceiling is exceeded are *)
(* free choices.                                                           *)
(***************************************************************************)
EXTENDS Integers, FiniteSets, Sequences, FiniteSetsExt

CONSTANTS
    Plans,        \* the loads to try, each with the controls a behaviour may use (a bound)
    Tasks,        \* 1..n: room for virtual users, and max_in_flight for arrivals
    TickS, Minute, MaxPause, Catchup, DrainBudget,
    MinSamples, RefusedFor, RefusedCount,
    LagLimit,     \* abort_if.generator_drift_ms
    Horizon       \* bound: the clock

ASSUME SchedulerAssumption ==
    /\ Tasks \subseteq Nat \ {0} /\ IsFiniteSet(Tasks)
    /\ \A n \in {TickS, Minute, MinSamples, RefusedCount} : n \in Nat \ {0}
    /\ \A n \in {MaxPause, Catchup, DrainBudget, RefusedFor, LagLimit, Horizon} : n \in Nat

VARIABLES
    phase,     \* new, waiting for T0, load, drain, or done
    plan,      \* the effective load
    now, t0,
    ctl,       \* the stop event and what it was set for; fatal; invalid
    pause,     \* since: of the pause in progress, or -1; total: of those over
    wanted,    \* the live load override, or -1
    loop,      \* the load's loop: where it sleeps, until when, and its timetable
    missed,    \* arrivals shed and skipped
    task,      \* per virtual user or arrival: where it is
    retiring,
    samples, refusals, maxLag,
    budget,    \* stops, pauses and load changes still to come: a bound of the model
    loaded     \* history: units of load time that were not paused

schedulerVars == <<phase, plan, now, t0, ctl, pause, wanted, loop, missed, task, retiring,
                   samples, refusals, maxLag, budget, loaded>>

None == -1
NoTask == [at |-> "free", step |-> 0, due |-> 0, wake |-> 0, until |-> 0]
NoPlan == [model |-> "none", late |-> 0]
NoLoop == [at |-> "turn", wake |-> 0, due |-> 0, idle |-> TRUE, fresh |-> TRUE,
           anchor |-> 0, arrived |-> 0, again |-> 0]

-----------------------------------------------------------------------------
(* The load: the ramp, and what the environment overrides. *)

\* A stage is [to, over]; `to` is None for one that holds the level it finds.
Named(stages) == {i \in DOMAIN stages : stages[i].to # None}
LevelBefore(stages, final, i) ==
    LET earlier == {j \in Named(stages) : j < i}
    IN  IF earlier # {} THEN stages[Max(earlier)].to
        ELSE IF Named(stages) = {} THEN final ELSE 0
LevelAfter(stages, final, i) ==
    IF stages[i].to # None THEN stages[i].to ELSE LevelBefore(stages, final, i)
FinalLevel(stages, final) ==
    IF stages = <<>> THEN final ELSE LevelAfter(stages, final, Len(stages))
StageStart(stages, i) == FoldSet(LAMBDA j, n : n + stages[j].over, 0, 1..(i - 1))
RampLength(stages) == StageStart(stages, Len(stages) + 1)

\* Ramp.target_at, to the nearest unit: on the leg that holds `elapsed`, a share of the climb.
RampAt(stages, final, elapsed) ==
    LET on == {i \in DOMAIN stages : /\ StageStart(stages, i) <= elapsed
                                     /\ elapsed < StageStart(stages, i + 1)}
    IN  IF on = {} THEN FinalLevel(stages, final)
        ELSE LET i == Max(on)
                 from == LevelBefore(stages, final, i)
                 to == LevelAfter(stages, final, i)
             IN  from + ((to - from) * (elapsed - StageStart(stages, i)) + stages[i].over \div 2)
                        \div stages[i].over

\* The same shape, climbing to another plateau.
Scaled(stages, declared, desired) ==
    IF declared <= 0 \/ desired = declared THEN stages
    ELSE [i \in DOMAIN stages |->
             [stages[i] EXCEPT !.to = IF @ = None THEN None ELSE (@ * desired) \div declared]]

\* _effective_load: the environment's rate makes the load open, its virtual users or
\* pacing make it closed; the schedule is never overridden.
EffectiveLoad(load, env) ==
    CASE load.model = "schedule" -> load
      [] load.model # "schedule" /\ env.rate > 0 ->
            [load EXCEPT !.model = "open", !.rate = env.rate, !.pacing = 0,
                 !.ramp = IF load.model = "open" THEN Scaled(@, load.rate, env.rate) ELSE <<>>]
      [] load.model # "schedule" /\ env.rate = 0 /\ (env.users > 0 \/ env.pacing > 0) ->
            [load EXCEPT !.model = "closed", !.rate = 0,
                 !.users = IF env.users > 0 THEN env.users ELSE @,
                 !.pacing = IF env.pacing > 0 THEN env.pacing ELSE @,
                 !.ramp = IF load.model # "closed" THEN <<>>
                          ELSE IF env.users > 0 THEN Scaled(@, load.users, env.users) ELSE @]
      [] OTHER -> load

\* _effective_duration; a load with none of the three is refused.
EffectiveDuration(load, env) ==
    IF env.duration > 0 THEN env.duration
    ELSE IF load.duration > 0 THEN load.duration ELSE RampLength(load.ramp)

\* The load a run is built with.
Effective(p) ==
    LET load == EffectiveLoad(p.scenario, p.env)
    IN  [load EXCEPT !.duration = EffectiveDuration(load, p.env)]

Loads == [model : {"closed", "open", "schedule"}, users : Nat, rate : Nat,
          ramp : Seq([to : Int, over : Nat]), pacing : Nat, think : Nat, lead : Nat,
          poisson : BOOLEAN, fault : BOOLEAN, refusals : BOOLEAN, skew : Nat, crons : Nat,
          duration : Nat, late : Nat, steps : Nat]

ASSUME PlansAssumption == \A p \in Plans : Effective(p) \in Loads

Plateau(load) == IF load.model = "closed" THEN load.users ELSE load.rate

-----------------------------------------------------------------------------
(* Control: pause, resume, a live load and a stop reach the loop as callbacks. *)

Paused == pause.since # None
PausedBefore == pause.total
PausedFor == pause.total + IF Paused THEN now - pause.since ELSE 0
Elapsed == now - t0 - PausedFor
Over == Elapsed >= plan.duration
TargetLoad == IF wanted # None THEN wanted ELSE RampAt(plan.ramp, Plateau(plan), Elapsed)

\* request_stop: the first reason is kept; once the drain has begun there is none.
Stop(c, why) == IF c.stop THEN c ELSE [c EXCEPT !.stop = TRUE, !.why = why]
Fail(c) == [Stop(c, "asked") EXCEPT !.fatal = TRUE]
Invalidate(c) == [Stop(c, "asked") EXCEPT !.invalid = TRUE]

Alive == phase \in {"waiting", "load", "drain"}

RequestStop ==
    /\ Alive /\ ~ctl.stop /\ budget.stops > 0
    /\ ctl' = Stop(ctl, "asked")
    /\ budget' = [budget EXCEPT !.stops = @ - 1]
    /\ UNCHANGED <<phase, plan, now, t0, pause, wanted, loop, missed, task, retiring, samples,
                   refusals, maxLag, loaded>>

ApplyPause ==
    /\ Alive /\ ~Paused /\ ~ctl.stop /\ budget.pauses > 0
    /\ pause' = [pause EXCEPT !.since = now]
    /\ budget' = [budget EXCEPT !.pauses = @ - 1]
    /\ UNCHANGED <<phase, plan, now, t0, ctl, wanted, loop, missed, task, retiring, samples,
                   refusals, maxLag, loaded>>

ApplyResume ==
    /\ Alive /\ Paused
    /\ pause' = [since |-> None, total |-> PausedFor]
    /\ UNCHANGED <<phase, plan, now, t0, ctl, wanted, loop, missed, task, retiring, samples,
                   refusals, maxLag, budget, loaded>>

\* set_load refuses the schedule model.
ApplyLoad ==
    /\ Alive /\ plan.model # "schedule" /\ budget.changes > 0
    /\ \E load \in 0..Plateau(plan) : wanted' = load
    /\ budget' = [budget EXCEPT !.changes = @ - 1]
    /\ UNCHANGED <<phase, plan, now, t0, ctl, pause, loop, missed, task, retiring, samples,
                   refusals, maxLag, loaded>>

\* _wait_unpaused, in whichever task is waiting: past the budget the run is stopped.
Waits == loop.at = "held" \/ \E u \in Tasks : task[u].at \in {"held", "gap"}
PauseRunsOut ==
    /\ phase = "load" /\ Paused /\ ~ctl.stop /\ Waits
    /\ MaxPause > 0 /\ PausedFor > MaxPause
    /\ ctl' = Stop(ctl, "asked")
    /\ UNCHANGED <<phase, plan, now, t0, pause, wanted, loop, missed, task, retiring, samples,
                   refusals, maxLag, budget, loaded>>

-----------------------------------------------------------------------------
(* A virtual user or an arrival: its iterations and the searches in them. *)

Live == {u \in Tasks : task[u].at # "free"}
Active == Live \ retiring
Arrivals == plan.model # "closed"

Search(r, k) == [r EXCEPT !.at = "step", !.step = k]

\* The top of _virtual_user's loop, with the control `c` as it is by then.
AtTop(r, c) ==
    IF c.stop THEN NoTask
    ELSE IF Paused THEN [r EXCEPT !.at = "held", !.step = 0]
    ELSE IF Over THEN NoTask ELSE Search([r EXCEPT !.wake = 0], 1)

\* Paced: the next iteration is due on the timetable, however late that is by now.
NextDue(r) ==
    LET due == r.due + plan.pacing IN IF due < now - Catchup THEN now ELSE due
Paces(r, c) ==
    LET due == NextDue(r)
    IN  IF due > now THEN {[r EXCEPT !.at = "rest", !.step = 0, !.due = due, !.wake = due]}
        ELSE {AtTop([r EXCEPT !.due = due], c)}
Thinks(r, c) ==
    {IF t = 0 THEN AtTop([r EXCEPT !.due = now], c)
     ELSE [r EXCEPT !.at = "rest", !.step = 0, !.wake = now + t] : t \in 0..plan.think}

\* What follows the last step, or a step that raised, or a stop between two.
IterationEnds(u, c) ==
    IF Arrivals \/ u \in retiring THEN {NoTask}
    ELSE IF plan.pacing > 0 THEN Paces(task[u], c) ELSE Thinks(task[u], c)

\* _run_iteration after a step: held while paused, over when stopped, or the next step.
AfterStep(u, c) ==
    IF task[u].step = plan.steps THEN IterationEnds(u, c)
    ELSE IF Paused /\ ~c.stop THEN {[task[u] EXCEPT !.at = "gap"]}
    ELSE IF c.stop THEN IterationEnds(u, c) ELSE {Search(task[u], task[u].step + 1)}

Becomes(u, r) ==
    /\ task' = [task EXCEPT ![u] = r]
    /\ retiring' = IF r.at = "free" THEN retiring \ {u} ELSE retiring

\* _note_auth: only a success breaks the streak of refusals.
NoteAuth(streak, outcome) ==
    CASE outcome = "ok" -> [since |-> None, count |-> 0]
      [] outcome = "refused" ->
            [since |-> IF streak.since = None THEN now ELSE streak.since,
             count |-> Min({streak.count + 1, RefusedCount})]
      [] OTHER -> streak
RefusedTooLong(streak) ==
    streak.count >= RefusedCount /\ now - streak.since >= RefusedFor

\* The engine answers: _run_step files the record. An engine that raises is fatal.
StepEnds(u) ==
    /\ phase \in {"load", "drain"} /\ task[u].at = "step"
    /\ \E outcome \in {"ok", "failed", "refused"} \cup (IF plan.fault THEN {"raised"} ELSE {}) :
          /\ outcome = "refused" => plan.refusals
          /\ refusals' = NoteAuth(refusals, outcome)
          /\ samples' = IF outcome = "raised" THEN samples ELSE Min({samples + 1, MinSamples})
          /\ LET c == IF outcome = "raised" THEN Fail(ctl)
                      ELSE IF outcome = "refused" /\ RefusedTooLong(refusals')
                      THEN Stop(ctl, "ceiling") ELSE ctl
             IN  /\ ctl' = c
                 /\ \E r \in (IF outcome = "raised" THEN IterationEnds(u, c) ELSE AfterStep(u, c)) :
                       Becomes(u, r)
    /\ UNCHANGED <<phase, plan, now, t0, pause, wanted, loop, missed, maxLag, budget, loaded>>

\* A user is let go from a pause, at the top of its loop or between two steps.
ResumeAtTop(r) == AtTop([r EXCEPT !.due = now, !.until = now], ctl)
LetGo(u) ==
    /\ task[u].at \in {"held", "gap"} /\ (~Paused \/ ctl.stop)
    /\ \E r \in (IF task[u].at = "held" THEN {ResumeAtTop(task[u])}
                 ELSE IF ctl.stop THEN IterationEnds(u, ctl)
                 ELSE {[Search(task[u], task[u].step + 1) EXCEPT !.until = now]}) : Becomes(u, r)
    /\ UNCHANGED <<phase, plan, now, t0, ctl, pause, wanted, loop, missed, samples, refusals,
                   maxLag, budget, loaded>>

\* _sleep_or_stop is over: a user's pacing or thinking, or an arrival's skew. An arrival
\* starts its first step without asking whether the run is paused.
Wakes(u) ==
    /\ task[u].at \in {"rest", "skew"} /\ (now >= task[u].wake \/ ctl.stop)
    /\ Becomes(u, IF task[u].at = "rest"
                  THEN AtTop(IF plan.pacing > 0 THEN task[u]
                             ELSE [task[u] EXCEPT !.due = now], ctl)
                  ELSE IF ctl.stop THEN NoTask ELSE Search(task[u], 1))
    /\ UNCHANGED <<phase, plan, now, t0, ctl, pause, wanted, loop, missed, samples, refusals,
                   maxLag, budget, loaded>>

-----------------------------------------------------------------------------
(* Guards. *)

\* _check_guards: the loop's lag spoils the result, a ceiling ends the run; ceilings are
\* not looked at before MinSamples executions.
Judged(c, lag) ==
    IF lag > LagLimit THEN {Invalidate(c)}
    ELSE {c} \cup IF samples >= MinSamples THEN {Stop(c, "ceiling")} ELSE {}
Lagging(lag) == Max({maxLag, lag})

\* The loop breaks off and _drain begins: stop is set, with no reason.
Leaving(c) == c.stop \/ Over
Leaves(c) ==
    /\ ctl' = [c EXCEPT !.stop = TRUE] /\ phase' = "drain"
    /\ loop' = [NoLoop EXCEPT !.wake = now + DrainBudget]
    /\ UNCHANGED <<missed, task, retiring>>

\* The loop meets a pause: it is held, and nothing of its timetable counts meanwhile.
IsHeld(c) ==
    /\ ctl' = c /\ loop' = [loop EXCEPT !.at = "held", !.wake = now]
    /\ UNCHANGED <<phase, missed, task, retiring>>

-----------------------------------------------------------------------------
(* _run_closed: a population that follows the ramp. *)

Newest(S, n) == CHOOSE T \in SUBSET S : Cardinality(T) = n /\ \A x \in T, y \in S \ T : x > y
Oldest(S, n) == CHOOSE T \in SUBSET S : Cardinality(T) = n /\ \A x \in T, y \in S \ T : x < y
Fewest(a, b) == IF a < b THEN a ELSE b
AtLeast0(n) == IF n > 0 THEN n ELSE 0

\* Growth counts everyone who is still there, those asked to retire too; it is they who
\* are not counted when the population shrinks.
Lacking(target) == AtLeast0(target - Cardinality(Live))
Grown(target) == Oldest(Tasks \ Live, Fewest(Lacking(target), Cardinality(Tasks \ Live)))
Excess(target) ==
    LET active == Active \cup Grown(target)
    IN  Newest(active, AtLeast0(Cardinality(active) - target))

\* A tick is due one period after the last was due, or now if that has passed.
NextTick(due) == Max({now, due + TickS})

ClosedTurn ==
    /\ phase = "load" /\ plan.model = "closed" /\ loop.at = "turn"
    /\ now >= loop.wake \/ ctl.stop
    /\ maxLag' = IF loop.fresh THEN maxLag ELSE Lagging(now - loop.due)
    /\ \E c \in (IF loop.fresh THEN {ctl} ELSE Judged(ctl, maxLag')) :
          IF Leaving(c) THEN Leaves(c)
          ELSE IF Paused THEN IsHeld(c)
          ELSE /\ task' = [u \in Tasks |-> IF u \in Grown(TargetLoad)
                                            THEN AtTop([NoTask EXCEPT !.due = now], c)
                                            ELSE task[u]]
               /\ retiring' = retiring \cup Excess(TargetLoad)
               /\ loop' = [loop EXCEPT !.wake = now + TickS, !.fresh = FALSE,
                                       !.due = IF loop.fresh THEN now + TickS ELSE NextTick(@)]
               /\ ctl' = c /\ UNCHANGED <<phase, missed>>
    /\ UNCHANGED <<plan, now, t0, pause, wanted, samples, refusals, budget, loaded>>

\* The loop is let go from a pause: the closed loop's tick and the arrivals' timetable
\* start again at now, and the cron minute moves by as long as it was held.
LoopLetGo ==
    /\ phase = "load" /\ loop.at = "held" /\ (~Paused \/ ctl.stop)
    /\ loop' = [loop EXCEPT !.at = "turn", !.wake = now, !.fresh = TRUE, !.idle = TRUE,
                            !.due = IF plan.model = "schedule" THEN @ + now - loop.wake ELSE @]
    /\ UNCHANGED <<phase, plan, now, t0, ctl, pause, wanted, missed, task, retiring, samples,
                   refusals, maxLag, budget, loaded>>

-----------------------------------------------------------------------------
(* _run_open: arrivals on a timetable that does not wait for the target. *)

Spacing(rate) == Max({1, Minute \div rate})
Gaps(rate) == IF plan.poisson THEN 1..(2 * Spacing(rate)) ELSE {Spacing(rate)}
HasRoom == Cardinality(Live) < Cardinality(Tasks)
Sleeps(until) == Fewest(until, now + TickS)

\* Far behind, the timetable starts again at now and what was due till then is skipped.
TooFarBehind(next) == next < now - Catchup
SkippedToo(next, rate) ==
    IF TooFarBehind(next) THEN (now - next) \div Spacing(rate) + 1 ELSE 0
Skipped(next, rate) == IF TooFarBehind(next) THEN (now - next) \div Spacing(rate) ELSE 0

\* An arrival is issued, or shed when max_in_flight are: never kept waiting.
Arrive(due, rate, c) ==
    /\ maxLag' = IF HasRoom THEN Lagging(now - due) ELSE maxLag
    /\ task' = IF HasRoom
               THEN [task EXCEPT ![Min(Tasks \ Live)] = Search([NoTask EXCEPT !.due = due], 1)]
               ELSE task
    /\ \E gap \in Gaps(rate) :
          LET next == due + gap
              skipped == Skipped(next, rate)
          IN  /\ missed' = [missed EXCEPT !.shed = @ + IF HasRoom THEN 0 ELSE 1,
                                          !.skipped = @ + skipped]
              /\ loop' = [loop EXCEPT !.wake = now, !.fresh = FALSE, !.idle = FALSE,
                             !.due = IF TooFarBehind(next) THEN now ELSE next,
                             !.anchor = IF loop.idle THEN now ELSE @,
                             !.arrived = (IF loop.idle THEN 0 ELSE @) + 1 + skipped,
                             !.again = (IF loop.idle THEN 0 ELSE @)
                                       + IF TooFarBehind(next) THEN 1 ELSE 0]
    /\ ctl' = c /\ UNCHANGED <<phase, retiring>>

\* A rate of zero leaves nothing to be late against.
OpenTurn ==
    /\ phase = "load" /\ plan.model = "open" /\ loop.at = "turn" /\ now >= loop.wake
    /\ \E c \in (IF loop.fresh THEN {ctl} ELSE Judged(ctl, maxLag)) :
          LET due == IF loop.idle THEN now ELSE loop.due
          IN  IF c.stop \/ (~Paused /\ Over) THEN Leaves(c) /\ UNCHANGED maxLag
              ELSE IF Paused THEN IsHeld(c) /\ UNCHANGED maxLag
              ELSE IF TargetLoad > 0 /\ due <= now THEN Arrive(due, TargetLoad, c)
              ELSE /\ loop' = IF TargetLoad > 0
                              THEN [loop EXCEPT !.wake = Sleeps(due), !.fresh = FALSE]
                              ELSE [loop EXCEPT !.wake = now + TickS, !.fresh = FALSE, !.idle = TRUE]
                   /\ ctl' = c /\ UNCHANGED <<phase, missed, task, retiring, maxLag>>
    /\ UNCHANGED <<plan, now, t0, pause, wanted, samples, refusals, budget, loaded>>

-----------------------------------------------------------------------------
(* _run_schedule: the saved searches whose cron matches the minute that is due. *)

\* Each search that fires starts after a skew of its own, as long as there is room.
Fire(firing) ==
    LET started == Oldest(Tasks \ Live, Fewest(firing, Cardinality(Tasks \ Live)))
    IN  /\ \E skew \in [started -> 0..plan.skew] :
              task' = [u \in Tasks |->
                         IF u \notin started THEN task[u]
                         ELSE LET r == [NoTask EXCEPT !.due = loop.due + skew[u]]
                              IN  IF skew[u] = 0 THEN Search(r, plan.steps)
                                  ELSE [r EXCEPT !.at = "skew", !.wake = now + skew[u]]]
        /\ missed' = [missed EXCEPT !.shed = @ + firing - Cardinality(started)]

ScheduleTurn ==
    /\ phase = "load" /\ plan.model = "schedule" /\ loop.at = "turn" /\ now >= loop.wake
    /\ \E c \in (IF loop.fresh THEN {ctl} ELSE Judged(ctl, maxLag)) :
          IF c.stop \/ (~Paused /\ Over) THEN Leaves(c) /\ UNCHANGED maxLag
          ELSE IF Paused THEN IsHeld(c) /\ UNCHANGED maxLag
          ELSE /\ IF now < loop.due
                  THEN /\ loop' = [loop EXCEPT !.wake = Sleeps(loop.due), !.fresh = FALSE]
                       /\ UNCHANGED <<maxLag, task, missed>>
                  ELSE /\ maxLag' = Lagging(now - loop.due)
                       /\ \E firing \in 0..plan.crons : Fire(firing)
                       /\ loop' = [loop EXCEPT !.wake = now, !.fresh = FALSE, !.due = @ + Minute]
               /\ ctl' = c /\ UNCHANGED <<phase, retiring>>
    /\ UNCHANGED <<plan, now, t0, pause, wanted, samples, refusals, budget, loaded>>

-----------------------------------------------------------------------------
(* The run: its construction, the shared start, the clock, the drain. *)

\* __init__: the load is settled. A pause may come from now on.
Build(p) ==
    /\ phase = "new"
    /\ phase' = "waiting"
    /\ plan' = Effective(p)
    /\ loop' = [NoLoop EXCEPT !.wake = Effective(p).lead]
    /\ budget' = p.budget
    /\ UNCHANGED <<now, t0, ctl, pause, wanted, missed, task, retiring, samples, refusals,
                   maxLag, loaded>>

\* A pause in progress counts from the start.
Reanchored == [pause EXCEPT !.since = IF Paused THEN now ELSE @]

\* The fleet's T0 has come, or a stop ended the wait. The schedule's first minute is the
\* next whole one.
StartLoad ==
    /\ phase = "waiting" /\ (now >= loop.wake \/ ctl.stop)
    /\ phase' = "load" /\ t0' = now /\ pause' = Reanchored
    /\ \E first \in (IF plan.model = "schedule" THEN 1..Minute ELSE {0}) :
          loop' = [NoLoop EXCEPT !.wake = now, !.due = now + first]
    /\ UNCHANGED <<plan, now, ctl, wanted, missed, task, retiring, samples, refusals, maxLag,
                   budget, loaded>>

\* Time goes by while nobody is overdue by more than plan.late, a bound.
InTime(wake) == now < wake + IF phase = "load" THEN plan.late ELSE 0
Pass ==
    /\ phase \in {"waiting", "load", "drain"} /\ now < Horizon
    /\ loop.at = "turn" => InTime(loop.wake)
    /\ \A u \in Tasks :
          /\ task[u].at \in {"rest", "skew"} => InTime(task[u].wake) /\ ~ctl.stop
          /\ task[u].at \in {"held", "gap"} => Paused /\ ~ctl.stop
    /\ loop.at = "held" => Paused /\ ~ctl.stop
    /\ Paused /\ Waits /\ MaxPause > 0 => PausedFor <= MaxPause + TickS
    /\ now' = now + 1
    /\ loaded' = IF phase = "load" /\ ~Paused THEN loaded + 1 ELSE loaded
    /\ UNCHANGED <<phase, plan, t0, ctl, pause, wanted, loop, missed, task, retiring, samples,
                   refusals, maxLag, budget>>

\* _drain: one deadline for all; what is left then is cancelled.
AllHaveEnded == Live = {}
DrainIsOver == Live = {} \/ now >= loop.wake
DrainEnds ==
    /\ phase = "drain" /\ DrainIsOver
    /\ phase' = "done" /\ task' = [u \in Tasks |-> NoTask] /\ retiring' = {}
    /\ UNCHANGED <<plan, now, t0, ctl, pause, wanted, loop, missed, samples, refusals, maxLag,
                   budget, loaded>>

\* _summarise: arrivals that were never issued spoil the result too.
Valid == ~ctl.fatal /\ ~ctl.invalid /\ missed.shed = 0 /\ missed.skipped = 0
Outcome ==
    CASE ctl.fatal -> "failed"
      [] ~ctl.fatal /\ ~Valid -> "aborted"
      [] Valid -> [none |-> "completed", asked |-> "stopped", ceiling |-> "aborted"][ctl.why]

SchedulerInit ==
    /\ phase = "new" /\ plan = NoPlan /\ now = 0 /\ t0 = 0
    /\ ctl = [stop |-> FALSE, why |-> "none", fatal |-> FALSE, invalid |-> FALSE]
    /\ pause = [since |-> None, total |-> 0] /\ wanted = None
    /\ loop = NoLoop /\ missed = [shed |-> 0, skipped |-> 0]
    /\ task = [u \in Tasks |-> NoTask] /\ retiring = {}
    /\ samples = 0 /\ refusals = [since |-> None, count |-> 0] /\ maxLag = 0
    /\ budget = [stops |-> 0, pauses |-> 0, changes |-> 0] /\ loaded = 0

Control == RequestStop \/ ApplyPause \/ ApplyResume \/ ApplyLoad
Turn == ClosedTurn \/ OpenTurn \/ ScheduleTurn
TaskStep(u) == StepEnds(u) \/ LetGo(u) \/ Wakes(u)

SchedulerNext ==
    \/ \E p \in Plans : Build(p)
    \/ StartLoad \/ Turn \/ LoopLetGo \/ PauseRunsOut \/ Pass \/ DrainEnds
    \/ Control
    \/ \E u \in Tasks : TaskStep(u)

\* The event loop serves what is ready and time goes on. Nothing says that a search ends, nor
\* that a pause or a stop ever comes.
SchedulerFairness ==
    /\ WF_schedulerVars(StartLoad) /\ WF_schedulerVars(Turn) /\ WF_schedulerVars(LoopLetGo)
    /\ WF_schedulerVars(PauseRunsOut) /\ WF_schedulerVars(Pass) /\ WF_schedulerVars(DrainEnds)
    /\ \A u \in Tasks : WF_schedulerVars(LetGo(u)) /\ WF_schedulerVars(Wakes(u))

SchedulerSpec == SchedulerInit /\ [][SchedulerNext]_schedulerVars /\ SchedulerFairness

-----------------------------------------------------------------------------

Completed == phase = "done" /\ Outcome = "completed"

\* A completed run was under load for the whole of its duration, however often it was
\* paused, before its start too: paused time comes off nothing (README 1019-1021).
DeliversItsDuration == Completed => loaded >= plan.duration

\* Every arrival the open model's timetable held since it last had nothing to be late for was
\* issued, shed or counted as skipped: none is counted twice, and of those due less than one
\* is left out each time it starts again at now, for the part of an interval it is late
\* (_run_open).
ArrivalsAreAccounted ==
    /\ phase = "load" /\ plan.model = "open" /\ plan.ramp = <<>> /\ ~plan.poisson
    /\ ~loop.idle /\ wanted = None
    => LET gap == Spacing(plan.rate)
           span == loop.due - loop.anchor
       IN  gap * loop.arrived <= span /\ span < gap * (loop.arrived + loop.again + 1)

\* A run that is built ends: a pause nobody ends runs out, and searches that do not end
\* are cut off by one drain deadline, however many they are.
RunEnds == phase = "waiting" ~> phase = "done"

(* What the comments say and TLC refutes (README, "Findings"). *)

\* No search carries a lateness that its user spent held by a pause: its intended start is
\* not before the user was let go (README 1021-1023).
PauseIsNotLateness ==
    \A u \in Tasks : task[u].at = "step" /\ task[u].step = 1 => task[u].due >= task[u].until

\* With every sleeper woken at most plan.late after its time, no tick is more than that late:
\* the lag says how late the loop was, as scheduler.py:642-645 has it.
LagIsLateness == maxLag <= plan.late
=============================================================================
