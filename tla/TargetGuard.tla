----------------------------- MODULE TargetGuard -----------------------------
(***************************************************************************)
(* The abort_if guards that watch the target (targetguard.py TargetGuard,  *)
(* started and stopped by LoadRunner.run): a poll takes one reading of     *)
(* each guard asked for, over a window longer than the poll interval, and  *)
(* two consecutive readings over a guard's limit stop the run.  Time is    *)
(* counted in poll intervals, and "past" says what the target did in each  *)
(* of them, the last one before the run included; the searches it skipped  *)
(* are counted from the first of them on.                                  *)
(***************************************************************************)
EXTENDS Integers, Sequences, FiniteSetsExt

CONSTANTS
    Lookback,       \* LOOKBACK_S in poll intervals: 6
    BreachSamples,  \* BREACH_SAMPLES: 2
    MaxPolls,       \* bound: polls after the first
    Situations,     \* what is explored
    NoValue

GuardNames == {"sut_cpu_pct", "skipped_searches_delta"}
Interval == [cpu : Nat, skipped : Nat]
AnySituation ==
    [asks : SUBSET GuardNames, client : BOOLEAN, readable : SUBSET GuardNames,
     limits : [GuardNames -> Int], busy : Interval, does : SUBSET Interval, faults : Nat]

ASSUME GuardAssumption ==
    /\ {Lookback, BreachSamples} \subseteq Nat \ {0} /\ MaxPolls \in Nat
    /\ NoValue \notin Int
    /\ Situations \subseteq AnySituation

VARIABLES
    situation,  \* the scenario's guards, what the account can read, faults left; <<>> at first
    past,       \* per poll interval, the host's top CPU and the searches skipped by its end
    asking,     \* the guards this poll has still to ask about
    guards,     \* _states: per guard its GuardState
    baseline,   \* _baseline_skipped
    guarding,   \* the background task: "new", "polling", "asleep", "none", "over"
    stopFor,    \* the guard of the first request_stop, or "none"
    readAt      \* history: per guard, the length of "past" at each reading

guardVars == <<situation, past, asking, guards, baseline, guarding, stopFor, readAt>>

Unread == [live |-> FALSE, readings |-> 0, peak |-> 0, breaches |-> 0, reason |-> FALSE]
IfAsked(g) == IF g \in situation.asks THEN <<g>> ELSE <<>>
Wanted == IfAsked("sut_cpu_pct") \o IfAsked("skipped_searches_delta")

-----------------------------------------------------------------------------

\* The window of a poll taken when "past" had n intervals.
Window(n) == {i \in 1..n : i > n - Lookback}

\* The rows of the two searches: the first has none without events to read, the second
\* counts what it can read.
Busiest(n) == Max({past[i].cpu : i \in Window(n)})
SkippedBefore(n) == IF n > Lookback THEN past[n - Lookback].skipped ELSE 0
Skips(n) == past[n].skipped - SkippedBefore(n)
Rows(g) ==
    CASE g \in situation.readable -> IF g = "sut_cpu_pct" THEN Busiest(Len(past)) ELSE Skips(Len(past))
      [] g = "sut_cpu_pct" -> NoValue
      [] OTHER -> 0

\* _mark_unavailable: the first reason, while there has been no reading.
Unavailable(s) == IF s.live THEN s ELSE [s EXCEPT !.reason = TRUE]

\* _record, then _breach or the reset of the count.
BreachesOfAll(s, over) == IF over THEN s.breaches + 1 ELSE s.breaches
Breaches(s, over) == IF over THEN s.breaches + 1 ELSE 0
Recorded(s, value, over) ==
    [s EXCEPT !.live = TRUE, !.reason = FALSE, !.readings = @ + 1,
              !.peak = Max({@, value}), !.breaches = Breaches(s, over)]

-----------------------------------------------------------------------------

\* The scenario and its target (__post_init__).
ChooseGuards(s) ==
    /\ guarding = "new" /\ situation = <<>>
    /\ situation' = s /\ guards' = [g \in s.asks |-> Unread] /\ past' = <<s.busy>>
    /\ UNCHANGED <<asking, baseline, guarding, stopFor, readAt>>

\* start(): nothing to watch, nothing to watch with, or a first poll taken inline.
StartGuard ==
    /\ guarding = "new" /\ situation # <<>>
    /\ IF situation.asks = {} \/ ~situation.client
       THEN /\ guarding' = "none" /\ guards' = [g \in situation.asks |-> Unavailable(guards[g])]
            /\ UNCHANGED asking
       ELSE /\ guarding' = "polling" /\ asking' = Wanted /\ UNCHANGED guards
    /\ UNCHANGED <<situation, past, baseline, stopFor, readAt>>

\* _poll_cpu and _poll_skipped, from the answer of the search on.
PollFails(g) ==
    /\ situation.faults > 0 /\ situation' = [situation EXCEPT !.faults = @ - 1]
    /\ guards' = [guards EXCEPT ![g] = Unavailable(@)]
    /\ UNCHANGED <<baseline, stopFor, readAt>>

PollIsEmpty(g) ==
    /\ Rows(g) = NoValue
    /\ guards' = [guards EXCEPT ![g] = Unavailable(@)]
    /\ UNCHANGED <<situation, baseline, stopFor, readAt>>

PollIsBaseline(g) ==
    /\ g = "skipped_searches_delta" /\ baseline = NoValue
    /\ baseline' = Rows(g)
    /\ guards' = [guards EXCEPT ![g] = [Recorded(@, 0, FALSE) EXCEPT !.breaches = guards[g].breaches]]
    /\ readAt' = [readAt EXCEPT ![g] = Append(@, Len(past))]
    /\ UNCHANGED <<situation, stopFor>>

PollReads(g) ==
    LET value == IF g = "sut_cpu_pct" THEN Rows(g) ELSE Max({0, Rows(g) - baseline})
        over == value > situation.limits[g]
    IN  /\ Rows(g) # NoValue /\ (g = "sut_cpu_pct" \/ baseline # NoValue)
        /\ guards' = [guards EXCEPT ![g] = Recorded(@, value, over)]
        /\ stopFor' = IF over /\ guards'[g].breaches >= BreachSamples /\ stopFor = "none"
                      THEN g ELSE stopFor
        /\ readAt' = [readAt EXCEPT ![g] = Append(@, Len(past))]
        /\ UNCHANGED <<situation, baseline>>

PollOnce ==
    /\ guarding = "polling" /\ asking # <<>>
    /\ LET g == Head(asking) IN PollFails(g) \/ PollIsEmpty(g) \/ PollIsBaseline(g) \/ PollReads(g)
    /\ asking' = Tail(asking)
    /\ UNCHANGED <<past, guarding>>

\* The poll is over: the background task sleeps for an interval, in which the target does
\* what it does, and polls again. Nothing here looks at whether the run was asked to stop.
GuardSleeps ==
    /\ guarding = "polling" /\ asking = <<>>
    /\ guarding' = "asleep"
    /\ UNCHANGED <<situation, past, asking, guards, baseline, stopFor, readAt>>
GuardWakes(does) ==
    /\ guarding = "asleep" /\ Len(past) <= MaxPolls
    /\ past' = Append(past, [does EXCEPT !.skipped = @ + past[Len(past)].skipped])
    /\ asking' = Wanted /\ guarding' = "polling"
    /\ UNCHANGED <<situation, guards, baseline, stopFor, readAt>>

\* The load ends, stopped by a guard or for a reason of its own, and stop() cancels the task
\* where it is; the first poll is part of start(), which the run awaits.
StopGuard ==
    /\ guarding \in {"polling", "asleep", "none"} /\ (guarding = "polling" => Len(past) > 1)
    /\ guarding' = "over" /\ asking' = <<>>
    /\ UNCHANGED <<situation, past, guards, baseline, stopFor, readAt>>

GuardInit ==
    /\ situation = <<>> /\ past = <<>> /\ asking = <<>> /\ guards = <<>> /\ baseline = NoValue
    /\ guarding = "new" /\ stopFor = "none" /\ readAt = [g \in GuardNames |-> <<>>]

GuardNext ==
    \/ \E s \in Situations : ChooseGuards(s)
    \/ StartGuard \/ PollOnce \/ GuardSleeps \/ StopGuard
    \/ situation # <<>> /\ \E does \in situation.does : GuardWakes(does)

GuardSpec == GuardInit /\ [][GuardNext]_guardVars

-----------------------------------------------------------------------------

\* What the readings of a guard ought to have said, from what the target did.
Truth(g, k) ==
    LET n == readAt[g][k]
    IN  IF g = "sut_cpu_pct" THEN Busiest(n)
        ELSE IF g \in situation.readable THEN Max({0, Skips(n) - Skips(readAt[g][1])}) ELSE 0
\* The first count of skips is the baseline, which is over nothing.
Over(g, k) == Truth(g, k) > situation.limits[g] /\ (g = "sut_cpu_pct" \/ k > 1)
Sustained(g) ==
    \E k \in BreachSamples..Len(readAt[g]) : \A j \in k - BreachSamples + 1..k : Over(g, j)
Unevaluated == {g \in DOMAIN guards : ~guards[g].live}

\* A run is stopped exactly when some guard it asked for read over its limit twice running,
\* failed polls aside and a quiet reading starting the count again, whatever the target did
\* before the run; and the result names as unevaluated, with a reason, exactly the guards
\* that never produced a reading (_breach, _mark_unavailable, status, guard_notes).
StopIsEarned ==
    /\ stopFor # "none" => Sustained(stopFor)
    /\ \A g \in DOMAIN guards : Sustained(g) => stopFor # "none"
    /\ Unevaluated = {g \in DOMAIN guards : readAt[g] = <<>>}
    /\ guarding = "over" => \A g \in Unevaluated : guards[g].reason

\* "One scraped sample is not evidence: two consecutive readings are required"
\* (targetguard.py:17-20). Does not hold: the windows of consecutive polls overlap, so one
\* busy interval is read by all of them.
SpikeIsNotEvidence ==
    stopFor = "sut_cpu_pct" =>
        \E i \in 2..Len(past) : /\ past[i].cpu > situation.limits["sut_cpu_pct"]
                                /\ past[i - 1].cpu > situation.limits["sut_cpu_pct"]

\* "...but an unevaluable guard is never silent" (targetguard.py:27). Does not hold: a count
\* over an index the account cannot read is 0, which is a reading.
BlindGuardIsReported ==
    guarding = "over" => \A g \in DOMAIN guards : g \notin situation.readable => g \in Unevaluated

\* The guard on skipped searches stops a run over what was skipped during it, "counted as a
\* delta from the run's own baseline" (targetguard.py:73-76). Does not hold either way: the
\* baseline's searches leave the window while the run's enter it.
SkipsAreTheRuns ==
    \A k \in 1..Len(readAt["skipped_searches_delta"]) :
        k = Len(readAt["skipped_searches_delta"]) /\ "skipped_searches_delta" \in situation.readable =>
            Truth("skipped_searches_delta", k) =
                past[readAt["skipped_searches_delta"][k]].skipped
                    - past[readAt["skipped_searches_delta"][1]].skipped
=============================================================================
