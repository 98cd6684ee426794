------------------------------ MODULE MCParts ------------------------------
(***************************************************************************)
(* The components whose steps must be safe in any order, for TLC: searches *)
(* on the target, browser pages, target guards, histograms and saved       *)
(* searches of a worker; evictions, the dealing out of load, verdicts and  *)
(* the scenario library of the control plane.  They share no state, so one *)
(* run serves them all: the first step chooses a part, the others keep     *)
(* their initial states, and a behaviour of this module is one of the      *)
(* chosen component with its own settings and bounds.                      *)
(***************************************************************************)
EXTENDS SearchJobs, BrowserPages, TargetGuard, Histogram, SavedSearches, Eviction, FleetPlan,
        Verdict, Library, TLC

VARIABLE part

-----------------------------------------------------------------------------
(* SearchJobs: sessions with ids and a harvest, a token without ids, and a search that is
   dispatched without a job; the session survives two faults without a harvest. *)

AllSettings ==
    {[token |-> FALSE, ids |-> TRUE, harvest |-> TRUE, oneshot |-> {}, faults |-> 1],
     [token |-> TRUE, ids |-> FALSE, harvest |-> TRUE, oneshot |-> {}, faults |-> 1],
     [token |-> FALSE, ids |-> TRUE, harvest |-> FALSE, oneshot |-> {"s1"}, faults |-> 2]}

-----------------------------------------------------------------------------
(* BrowserPages: a user who comes back, with either thing to wait for; two users at once; no
   password. *)

Outing(users, loads, waits, secret, expiries, mishaps) ==
    [users |-> users, loads |-> loads, waits |-> waits, secret |-> secret,
     expiries |-> expiries, faults |-> mishaps]
AllVisits ==
    {Outing({"u1"}, 2, "all_panels", TRUE, 1, 1), Outing({"u1"}, 2, "first_result", TRUE, 2, 1),
     Outing({"u1", "u2"}, 1, "first_result", TRUE, 1, 0),
     Outing({"u1"}, 1, "first_result", FALSE, 0, 0)}

-----------------------------------------------------------------------------
(* TargetGuard: both guards, either or neither readable, on a target that was quiet or busy
   before the run, then is quiet, spikes or skips searches; no client; no guard. *)

Does(cpu, skipped) == [cpu |-> cpu, skipped |-> skipped]
Guarded(asks, client, readable, before) ==
    [asks |-> asks, client |-> client, readable |-> readable, busy |-> before, faults |-> 1,
     limits |-> [g \in GuardNames |-> IF g = "sut_cpu_pct" THEN 5 ELSE 1],
     does |-> {Does(1, 0), Does(9, 0), Does(1, 2)}]
AllSituations ==
    {Guarded(GuardNames, TRUE, r, b) : r \in SUBSET GuardNames, b \in {Does(1, 0), Does(9, 2)}}
    \cup {Guarded(GuardNames, FALSE, {}, Does(1, 0)), Guarded({}, TRUE, {}, Does(1, 0))}

-----------------------------------------------------------------------------
(* SavedSearches: a search beside one that writes, is scheduled by each kind of cron line,
   has each kind of range, or breaks its lines; files written by hand; every way to select. *)

Line(text, tail) == [text |-> text, tail |-> tail]
Off(n, unit) == [op |-> "off", n |-> n, unit |-> unit]
Snap(unit) == [op |-> "snap", n |-> 0, unit |-> unit]
Field(star, from, to, step) == [star |-> star, from |-> from, to |-> to, step |-> step]
Star == {Field(TRUE, 0, 0, 1)}
Cron(minute, day, weekday) == {[minute |-> minute, day |-> day, weekday |-> weekday]}
Hourly == [name |-> "a", spl |-> <<Line("error", 0)>>, earliest |-> <<Off(-1, OneHour)>>,
           latest |-> Now, cron |-> Cron(Star, Star, Star), scheduled |-> TRUE,
           disabled |-> FALSE, skip |-> FALSE, weight |-> 0]
Other == [Hourly EXCEPT !.name = "b"]
Others ==
    {[Other EXCEPT !.spl = <<Line("x", 0), Line("y", 0), Line("z", 0)>>, !.weight = 5,
                   !.cron = Cron({Field(TRUE, 0, 0, 2), Field(FALSE, 3, 3, 1)},
                                 {Field(FALSE, 1, 1, 2)}, {Field(FALSE, 1, 2, 1)})],
     [Other EXCEPT !.spl = <<Line("x", 0), Line("collect", 0)>>,
                   !.earliest = <<Off(-1, OneDay), Snap(OneDay)>>, !.latest = <<Snap(OneDay)>>,
                   !.cron = Cron({Field(FALSE, 1, 1, 1)}, Star, {Field(FALSE, 3, 3, 1)})],
     [Other EXCEPT !.earliest = RealTime], [Other EXCEPT !.disabled = TRUE],
     [Other EXCEPT !.scheduled = FALSE, !.cron = {}], [Other EXCEPT !.skip = TRUE],
     [Other EXCEPT !.earliest = AllTime, !.latest = <<>>],
     [Other EXCEPT !.earliest = <<Off(-7, OneMinute)>>, !.latest = <<Off(-1, 1)>>],
     [Other EXCEPT !.earliest = <<Snap(OneHour)>>],
     [Other EXCEPT !.earliest = <<Off(-1, OneHour), Snap(OneMinute)>>,
                   !.latest = <<Off(-2, OneMinute)>>],
     [Other EXCEPT !.spl = <<>>], [Other EXCEPT !.spl = <<Line("x", 1)>>],
     [Other EXCEPT !.spl = <<Line("x", 1), Line("collect", 0)>>]}
AllExports ==
    {<<o, Hourly>> : o \in Others}
    \cup {<<Hourly>>, <<Hourly, [Hourly EXCEPT !.spl = <<Line("other", 0)>>]>>}
ByHand ==
    {<<Attr("disabled", TRUE, 0), Stanza("a"), Attr("search", "error", 0),
       Attr("disabled", FALSE, 0), Blank,
       Stanza("b"), More("bare", 0), Attr("search", "x", 1), More("collect", 0)>>,
     <<Stanza("b"), Attr("search", "x", 0), Attr("search", "collect", 0)>>}
TextsThere == {<<Line("error", 0)>>, <<Line("x", 0), Line("collect", 0)>>}
Select(writes, from, steps) ==
    [exclude |-> {}, only_enabled |-> TRUE, only_scheduled |-> FALSE, allow_realtime |-> FALSE,
     allow_side_effects |-> writes, as_saved |-> FALSE, from |-> from, steps |-> steps]
AllSelections ==
    {Select(w, f, s) : w \in BOOLEAN, f \in BOOLEAN,
        s \in {<<>>, <<[saved |-> "b", dispatch |-> "spl"]>>,
               <<[saved |-> "b", dispatch |-> "saved"]>>}}
    \cup {[Select(FALSE, TRUE, <<>>) EXCEPT !.only_scheduled = TRUE],
          [Select(FALSE, TRUE, <<>>) EXCEPT !.only_enabled = FALSE, !.as_saved = TRUE],
          [Select(FALSE, TRUE, <<>>) EXCEPT !.exclude = {"a"}, !.allow_realtime = TRUE]}

-----------------------------------------------------------------------------
(* Eviction: an in-process and a fleet run beside the button, a run that evicts first, alone
   or with the button, and one that only watches the cache. *)

Pressed == [runs |-> {"r1", "r2"}, peers |-> {"i1"}, cold |-> FALSE, cached |-> {},
            evictions |-> 3, churn |-> 0, readable |-> FALSE]
Colded == [runs |-> {"r1"}, peers |-> {"i1", "i2"}, cold |-> TRUE, cached |-> {<<"i1", "b1">>},
           evictions |-> 1, churn |-> 1, readable |-> TRUE]
AllOccasions ==
    {Pressed, Colded, [Colded EXCEPT !.evictions = 2, !.churn = 0, !.readable = FALSE],
     [Colded EXCEPT !.cold = FALSE, !.evictions = 0, !.churn = 2]}

-----------------------------------------------------------------------------
(* FleetPlan: one persona or two, of one engine or both, in every model, from nobody to more
   than the workers asked for; a manual split and manual asks. *)

Api(w) == [weight |-> w, engines |-> {"api"}]
Web(w) == [weight |-> w, engines |-> {"browser"}]
Both(w) == [weight |-> w, engines |-> {"api", "browser"}]
Casts == {<<Api(1)>>, <<Api(2), Web(1)>>, <<Both(1), Api(1)>>}
Asked(personas, model, users, workers) ==
    [personas |-> personas, model |-> model, users |-> users, rate |-> 20001 * users,
     crons |-> [api |-> 5, browser |-> 2], asksUsers |-> 0, asksRate |-> 0, paced |-> FALSE,
     workers |-> workers, changes |-> 2]
AllOrders ==
    {Asked(p, m, n, k) : p \in Casts, m \in {"closed", "open", "schedule"}, n \in 0..7, k \in 0..3}
    \cup {[Asked(p, m, 3, 0) EXCEPT !.asksUsers = u, !.asksRate = r, !.paced = TRUE] :
            p \in Casts, m \in {"closed", "open", "schedule"}, u \in {0, 5}, r \in {0, 2000000}}
Dense == [api |-> 3, browser |-> 1]

-----------------------------------------------------------------------------
(* Verdict: reports of two slots that agree, differ, abort or are lost, and each kind of gate. *)

Entry(step, executions, errors, latencies) ==
    [step |-> step, executions |-> executions, errors |-> errors, latencies |-> latencies]
Says(valid, outcome, steps) == [valid |-> valid, outcome |-> outcome, steps |-> steps]
Fast == Says(TRUE, "completed", {Entry("s1", 2, 0, {10, 20}), Entry("s2", 2, 2, {})})
Slow == Says(TRUE, "completed", {Entry("s1", 1, 0, {30}), Entry("s2", 3, 1, {20})})
Broken == Says(TRUE, "aborted", {Entry("s1", 2, 2, {})})
Cut == Says(FALSE, "stopped", {Entry("s1", 2, 0, {10})})
AllEndings ==
    {(0 :> a) @@ (1 :> b) : <<a, b>> \in {<<Fast, Slow>>, <<Fast, Fast>>, <<Slow, Broken>>,
        <<Broken, Broken>>, <<Fast, Cut>>, <<Slow, Lost>>, <<Lost, Lost>>}}
Gate(metric, step, form, amount) ==
    [metric |-> metric, step |-> step, form |-> form, amount |-> amount]
AllGates ==
    {Gate("max", Whole, "at most", 25), Gate("max", "s2", "at most", 25),
     Gate("max", "s1", "baseline plus %", 50), Gate("max", "s2", "baseline plus", 5),
     Gate("valid", Whole, "bare", 1), Gate("error_rate", Whole, "at most", 50),
     Gate("executions", Whole, "bare", 1)}

-----------------------------------------------------------------------------
(* Library: every pair of requests, one after the other or overlapping, over a scenario that
   is published; archives that must be refused; three renames of one name. *)

Member(type, escapes, bytes, yaml, at) ==
    [type |-> type, escapes |-> escapes, bytes |-> bytes, yaml |-> yaml, at |-> at]
File(at) == Member("file", FALSE, 1, TRUE, at)
Archive(format, members) == [format |-> format, members |-> members]
Good == Archive("tar", <<File("top")>>)
AllArchives ==
    {Good, Archive("zip", <<File("root"), Member("file", FALSE, 2, FALSE, "root")>>),
     Archive("other", <<>>),
     Archive("tar", <<File("root"), Member("link", FALSE, 0, FALSE, "root")>>),
     Archive("zip", <<File("root"), Member("file", TRUE, 1, FALSE, "root")>>),
     Archive("tar", <<File("a"), File("b")>>),
     Archive("tar", <<Member("file", FALSE, 3, TRUE, "root")>>),
     Archive("tar", <<Member("dir", FALSE, 0, FALSE, "a")>>)}
Renaming(from, to) ==
    [kind |-> "rename", name |-> from, to |-> to, what |-> "v0", flag |-> FALSE, live |-> FALSE,
     archive |-> Good]
Calling(kind, name, what) ==
    [kind |-> kind, name |-> name, to |-> "b", what |-> what, flag |-> FALSE, live |-> FALSE,
     archive |-> Good]
Story(requests, overlap) ==
    [tree |-> [n \in ScenarioNames |-> IF n = "a" THEN "v0" ELSE NoCopy],
     bucket |-> [n \in ScenarioNames |-> IF n = "a" THEN "v0" ELSE NoCopy],
     requests |-> requests, writes |-> TRUE, overlap |-> overlap, faults |-> 2, crashes |-> 1]
Rename == Calling("rename", "a", "v0")
Upload == [Calling("upload", "a", "v2") EXCEPT !.flag = TRUE]
Callers ==
    {Calling("edit", "a", "v1"), Calling("edit", "a", "bad"), Rename, Calling("duplicate", "a", "v0"),
     Calling("create", "b", "v1"), Calling("create", "b", "bad"),
     Upload, [Upload EXCEPT !.what = "bad"],
     Calling("delete", "a", NoCopy), [Calling("delete", "a", NoCopy) EXCEPT !.flag = TRUE],
     Calling("publish", "a", NoCopy)}
AllStories ==
    {Story(<<q, r>>, o) : q \in Callers, r \in Callers, o \in BOOLEAN}
    \cup {[Story(<<Rename>>, FALSE) EXCEPT !.writes = FALSE],
          Story(<<[Rename EXCEPT !.live = TRUE]>>, FALSE)}
    \cup {Story(<<[Upload EXCEPT !.archive = a, !.flag = f]>>, FALSE) :
            a \in AllArchives, f \in BOOLEAN}
    \cup {[Story(<<Renaming("a", "b"), Renaming("a", n), Renaming("b", "a")>>, o)
              EXCEPT !.faults = 1] : n \in {"b", "c"}, o \in BOOLEAN}

-----------------------------------------------------------------------------

workerVars == <<searchVars, browserVars, guardVars, histogramVars, savedVars>>
controlVars == <<evictionVars, planVars, verdictVars, libraryVars>>

MCInit ==
    /\ part = "none"
    /\ SearchJobsInit /\ BrowserInit /\ GuardInit /\ HistogramInit /\ SavedInit
    /\ EvictionInit /\ PlanInit /\ VerdictInit /\ LibraryInit

Host(p) == part = "none" /\ part' = p /\ UNCHANGED <<workerVars, controlVars>>

WorkerPart ==
    \/ /\ part = "searches" /\ SearchJobsNext
       /\ UNCHANGED <<browserVars, guardVars, histogramVars, savedVars>>
    \/ /\ part = "browser" /\ BrowserNext
       /\ UNCHANGED <<searchVars, guardVars, histogramVars, savedVars>>
    \/ /\ part = "guard" /\ GuardNext
       /\ UNCHANGED <<searchVars, browserVars, histogramVars, savedVars>>
    \/ /\ part = "histogram" /\ HistogramNext
       /\ UNCHANGED <<searchVars, browserVars, guardVars, savedVars>>
    \/ /\ part = "saved" /\ SavedNext
       /\ UNCHANGED <<searchVars, browserVars, guardVars, histogramVars>>

ControlPart ==
    \/ part = "eviction" /\ EvictionNext /\ UNCHANGED <<planVars, verdictVars, libraryVars>>
    \/ part = "plan" /\ PlanNext /\ UNCHANGED <<evictionVars, verdictVars, libraryVars>>
    \/ part = "verdict" /\ VerdictNext /\ UNCHANGED <<evictionVars, planVars, libraryVars>>
    \/ part = "library" /\ LibraryNext /\ UNCHANGED <<evictionVars, planVars, verdictVars>>

MCNext ==
    \/ \E p \in {"searches", "browser", "guard", "histogram", "saved", "eviction", "plan",
                 "verdict", "library"} : Host(p)
    \/ WorkerPart /\ UNCHANGED <<part, controlVars>>
    \/ ControlPart /\ UNCHANGED <<part, workerVars>>

MCSpec == MCInit /\ [][MCNext]_<<part, workerVars, controlVars>>
=============================================================================
