-------------------------------- MODULE Verdict --------------------------------
(***************************************************************************)
(* From the workers' final reports to a verdict: the merge of the reports  *)
(* into one summary (fleet.merge_summaries), the promotion of a run to a   *)
(* baseline (routes/baselines.py) and the comparison of two runs against   *)
(* gates (compare.py), as the pipeline that trusts the answer sees it.     *)
(***************************************************************************)
EXTENDS Integers, FiniteSets, FiniteSetsExt

CONSTANTS
    RunIds,      \* runs of one scenario
    SlotIds,     \* the slots of each
    StepIds,     \* the scenario's steps
    Endings,     \* what the slots of a run may end with: each [valid, outcome, steps], steps a set
                 \*   of [step, executions, errors, latencies], the latencies of the successes; or Lost
    Gates,       \* [metric, step, form, amount], form "at most", "baseline plus %",
                 \*   "baseline plus" or "bare"; step may be Whole
    Lost,        \* no readable final report
    Whole,       \* no step: the run
    Unknown      \* None

ASSUME VerdictAssumption ==
    /\ IsFiniteSet(SlotIds) /\ SlotIds # {}
    /\ Unknown \notin Endings
    /\ \A reports \in Endings : \A s \in SlotIds : reports[s] # Lost =>
          /\ IsFiniteSet(reports[s].steps)
          /\ \A e \in reports[s].steps :
                /\ e.step \in StepIds /\ e.errors \in 0..e.executions
                /\ e.latencies \subseteq Nat /\ IsFiniteSet(e.latencies)
    /\ \A g \in Gates : g.metric \in {"max", "error_rate", "executions", "valid"} /\ g.amount \in Int

-----------------------------------------------------------------------------
(* merge_summaries *)

Reporting(reports) == {s \in SlotIds : reports[s] # Lost}
LostSlots(reports) == SlotIds \ Reporting(reports)

\* What the workers say of a step, or of all of them.
Entries(reports, step) ==
    UNION {{<<s, e>> : e \in {x \in reports[s].steps : step \in {Whole, x.step}}} : s \in Reporting(reports)}

\* Counts add, latencies are put together; a step nobody ran is not listed.
Merged(reports, step) ==
    LET es == Entries(reports, step) IN
    [executions |-> MapThenSumSet(LAMBDA p : p[2].executions, es),
     errors |-> MapThenSumSet(LAMBDA p : p[2].errors, es),
     latencies |-> UNION {p[2].latencies : p \in es}]
StepsOf(reports) == {p[2].step : p \in Entries(reports, Whole)}

Outcome(reports) ==
    LET outcomes == {reports[s].outcome : s \in Reporting(reports)} IN
    CASE "failed" \in outcomes -> "failed"
      [] "failed" \notin outcomes /\ "aborted" \in outcomes -> "aborted"
      [] outcomes \cap {"failed", "aborted"} = {} /\ "stopped" \in outcomes -> "stopped"
      [] OTHER -> "completed"

AllValid(reports) == \A s \in Reporting(reports) : reports[s].valid
IsValid(reports) ==
    AllValid(reports) /\ LostSlots(reports) = {} /\ Reporting(reports) # {}

MergeSummaries(reports) ==
    [valid |-> IsValid(reports), outcome |-> Outcome(reports),
     whole |-> Merged(reports, Whole),
     steps |-> [t \in StepsOf(reports) |-> Merged(reports, t)]]

-----------------------------------------------------------------------------
(* compare.py *)

\* A statistic of no successes is None.
ZeroOfNone(latencies) == IF latencies = {} THEN 0 ELSE Max(latencies)
Statistic(latencies) == IF latencies = {} THEN Unknown ELSE Max(latencies)

\* metric_value: of the whole run or of one step. Rates in percent, times in milliseconds.
SectionOf(summary, step) == IF step = Whole THEN summary.whole ELSE summary.steps[step]
Measured(summary, gate) ==
    CASE gate.metric = "valid" -> IF gate.step = Whole THEN IF summary.valid THEN 1 ELSE 0 ELSE Unknown
      [] gate.step # Whole /\ gate.step \notin DOMAIN summary.steps -> Unknown
      [] OTHER ->
        LET section == SectionOf(summary, gate.step) IN
        CASE gate.metric = "max" -> Statistic(section.latencies)
          [] gate.metric = "error_rate" ->
                IF section.executions = 0 THEN 0 ELSE (100 * section.errors) \div section.executions
          [] OTHER -> section.executions

IsRelative(gate) == gate.form \in {"baseline plus %", "baseline plus"}

\* The limit of a gate; Unknown when the baseline has nothing to relate it to.
LimitOf(gate, baseline) ==
    IF ~IsRelative(gate) THEN gate.amount
    ELSE IF baseline = Unknown \/ Measured(baseline, gate) = Unknown THEN Unknown
    ELSE IF gate.form = "baseline plus" THEN Measured(baseline, gate) + gate.amount
    ELSE (Measured(baseline, gate) * (100 + gate.amount)) \div 100

Meets(gate, candidate, baseline) ==
    LET actual == Measured(candidate, gate)
        limit == LimitOf(gate, baseline)
    IN  /\ actual # Unknown /\ limit # Unknown
        /\ IF gate.form = "bare" THEN actual = 1 ELSE actual <= limit

\* compare_runs: an invalid run on either side blocks the comparison.
Blocked(candidate, baseline, allow) ==
    ~allow /\ (~candidate.valid \/ (baseline # Unknown /\ ~baseline.valid))
CompareRuns(candidate, baseline, gates, allow) ==
    IF Blocked(candidate, baseline, allow) THEN "blocked"
    ELSE IF \A g \in gates : Meets(g, candidate, baseline) THEN "ok" ELSE "failed"

-----------------------------------------------------------------------------

VARIABLES
    reportsOf,  \* the leases' final reports of each run, or Unknown while it runs
    summaryOf,  \* summary_json, or Unknown
    labelled,   \* the run the baseline label points at, or Unknown
    verdict     \* the last comparison: [candidate, baseline, gates, allow, says]

verdictVars == <<reportsOf, summaryOf, labelled, verdict>>

\* The merge at the end of a fleet run; an unreadable report makes its slot a lost one.
FinishRun(r, reports) ==
    /\ reportsOf[r] = Unknown
    /\ reportsOf' = [reportsOf EXCEPT ![r] = reports]
    /\ summaryOf' = [summaryOf EXCEPT ![r] = MergeSummaries(reports)]
    /\ UNCHANGED <<labelled, verdict>>

\* create_baseline, replacing whatever held the label.
Promote(r) ==
    /\ summaryOf[r] # Unknown /\ summaryOf[r].valid
    /\ labelled' = r
    /\ UNCHANGED <<reportsOf, summaryOf, verdict>>

\* delete_run refuses a run a label points at; the label is deleted first.
DeleteBaseline ==
    /\ labelled # Unknown /\ labelled' = Unknown
    /\ UNCHANGED <<reportsOf, summaryOf, verdict>>
DeleteRun(r) ==
    /\ summaryOf[r] # Unknown /\ labelled # r
    /\ reportsOf' = [reportsOf EXCEPT ![r] = Unknown]
    /\ summaryOf' = [summaryOf EXCEPT ![r] = Unknown]
    /\ verdict' = IF verdict # Unknown /\ r \in {verdict.candidate, verdict.baseline}
                  THEN Unknown ELSE verdict
    /\ UNCHANGED labelled

\* The compare route: against a label, a run, or nothing; 409 without a summary.
Compare(r, base, gates, allow) ==
    /\ summaryOf[r] # Unknown
    /\ base \in {Unknown} \cup {b \in RunIds : summaryOf[b] # Unknown}
    /\ verdict' = [candidate |-> r, baseline |-> base, gates |-> gates, allow |-> allow,
                   says |-> CompareRuns(summaryOf[r], IF base = Unknown THEN Unknown ELSE summaryOf[base],
                                        gates, allow)]
    /\ UNCHANGED <<reportsOf, summaryOf, labelled>>

VerdictInit ==
    /\ reportsOf = [r \in RunIds |-> Unknown] /\ summaryOf = [r \in RunIds |-> Unknown]
    /\ labelled = Unknown /\ verdict = Unknown
VerdictNext ==
    \/ \E r \in RunIds : \/ \E reports \in Endings : FinishRun(r, reports)
                         \/ Promote(r) \/ DeleteRun(r)
                         \/ \E base \in {labelled, Unknown} \cup (RunIds \ {r}), g \in Gates,
                             allow \in BOOLEAN : Compare(r, base, {g}, allow)
    \/ DeleteBaseline
VerdictSpec == VerdictInit /\ [][VerdictNext]_verdictVars

-----------------------------------------------------------------------------
\* What the workers of a run saw themselves, whatever was merged.
Seen(r, step) == UNION {p[2].latencies : p \in Entries(reportsOf[r], step)}
Applied(r) == \A s \in SlotIds : reportsOf[r][s] # Lost /\ reportsOf[r][s].valid

\* A comparison that says ok judged the configured workload: every slot of the candidate, and
\* of the baseline, reported and measured the target; and each latency gate was met by
\* searches that did succeed, against successes of the baseline, never by the absence of a
\* measurement (compare.py:9-17, fleet.py:851-856, histogram.py:178-184).
VerdictIsEarned ==
    verdict # Unknown /\ verdict.says = "ok" =>
        LET r == verdict.candidate
            base == verdict.baseline
        IN  /\ verdict.allow \/ (Applied(r) /\ (base # Unknown => Applied(base)))
            /\ \A g \in verdict.gates : g.metric = "max" =>
                 /\ Seen(r, g.step) # {}
                 /\ g.form = "at most" => \A v \in Seen(r, g.step) : v <= g.amount
                 /\ IsRelative(g) => \A v \in Seen(r, g.step) : \E w \in Seen(base, g.step) :
                       100 * v <= (IF g.form = "baseline plus" THEN 100 * (w + g.amount) ELSE w * (100 + g.amount))

(* What a comment says and TLC refutes (README, "Findings"). *)

\* A bare metric name is a truthiness gate (compare.py:111): it compares with 1.
BareGateIsTruth ==
    verdict # Unknown /\ ~verdict.allow /\ verdict.says = "failed" =>
        \A g \in verdict.gates : g.form = "bare" => Measured(summaryOf[verdict.candidate], g) \in {0, Unknown}
=============================================================================
