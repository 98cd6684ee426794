----------------------------- MODULE SavedSearches -----------------------------
(***************************************************************************)
(* Saved searches as load (savedsearches.py, scenario.py, timepolicy.py):   *)
(* a target's searches are exported to a savedsearches.conf, the file is    *)
(* read back when a scenario loads, searches are selected and bound to      *)
(* steps, the scenario is linted, and a step's time window is computed at   *)
(* each dispatch.  A search's text is a sequence of lines, a line an atom   *)
(* and the number of backslashes it ends with.                              *)
(***************************************************************************)
EXTENDS Integers, Sequences, SequencesExt, FiniteSets

CONSTANTS
    Exports,        \* the entries a target lists over REST, as sequences of searches
    HandWritten,    \* files an operator wrote: sequences of lines
    Selections,       \* scenarios: SearchSource, and the steps written out by hand
    WritingLines,   \* the lines of SPL with a command that writes (SIDE_EFFECT_COMMANDS)
    TargetTexts,    \* what a search may say on the target by the time it is dispatched by name
    OneMinute, OneHour, OneDay,      \* in the model's ticks
    Moments, Jitters,       \* when steps are launched, and the jitters drawn
    NoName, NoFile, NoScenario

IsSequence(s) == Len(s) \in Nat /\ s = [i \in 1..Len(s) |-> s[i]]

\* The keys of a stanza that are read.
StanzaKeys == {"search", "earliest", "latest", "cron", "enableSched", "disabled", "regulator.skip",
               "regulator.weight"}

\* A search of an entry a target lists: its text stripped of blank lines at the end.
IsListed(s) ==
    /\ s = [name |-> s.name, spl |-> s.spl, earliest |-> s.earliest, latest |-> s.latest, cron |-> s.cron,
            scheduled |-> s.scheduled, disabled |-> s.disabled, skip |-> s.skip, weight |-> s.weight]
    /\ {s.scheduled, s.disabled, s.skip} \subseteq BOOLEAN
    /\ IsSequence(s.spl)
    /\ \A j \in 1..Len(s.spl) : s.spl[j] = [text |-> s.spl[j].text, tail |-> s.spl[j].tail]
    /\ Len(s.spl) > 1 => s.spl[Len(s.spl)] # [text |-> "", tail |-> 0]

ASSUME SavedSearchesAssumption ==
    /\ {OneMinute, OneHour, OneDay} \subseteq Nat \ {0} /\ OneHour % OneMinute = 0 /\ OneDay % (2 * OneHour) = 0
    /\ Moments \subseteq Nat /\ Jitters \subseteq Nat
    /\ \A e \in Exports : IsSequence(e) /\ \A i \in 1..Len(e) : IsListed(e[i])
    /\ \A l \in HandWritten : IsSequence(l)
    /\ \A src \in Selections : IsSequence(src.steps)
    /\ NoName \notin StanzaKeys

VARIABLES
    origin,      \* the exported entries; empty for a file written by hand
    conf,        \* savedsearches.conf, as lines
    scenario,    \* the loaded scenario
    launched         \* the last dispatch

savedVars == <<origin, conf, scenario, launched>>

Overlaid(f, g) == [x \in DOMAIN f \cup DOMAIN g |-> IF x \in DOMAIN g THEN g[x] ELSE f[x]]
One(v) == <<[text |-> v, tail |-> 0]>>
NoKeys == [k \in {} |-> One(0)]

\* What a sequence has at some places, in order.
KeptAt(s, places) ==
    LET kept[n \in 0..Len(s)] ==
          IF n = 0 THEN <<>> ELSE IF n \in places THEN Append(kept[n - 1], s[n]) ELSE kept[n - 1]
    IN  kept[Len(s)]
\* The places of the searches of one name.
ByName(ss, n) == {i \in 1..Len(ss) : ss[i].name = n}

-----------------------------------------------------------------------------
(* The .conf grammar. *)

Stanza(n) == [kind |-> "stanza", name |-> n, text |-> "[]", tail |-> 0]
\* A line of a value: "attr" holds its key, "more" continues.
Attr(k, t, b) == [kind |-> "attr", name |-> k, text |-> t, tail |-> b]
More(t, b) == [kind |-> "more", name |-> NoName, text |-> t, tail |-> b]
Blank == More("", 0)

\* render_conf: each line of a value but its last gets a backslash.
AsWritten(value, i) == value[i].tail
Continued(value, i) == value[i].tail + (IF i < Len(value) THEN 1 ELSE 0)
RenderValue(k, value) ==
    [i \in 1..Len(value) |->
        IF i = 1 THEN Attr(k, value[i].text, Continued(value, i))
        ELSE More(value[i].text, Continued(value, i))]
RenderStanza(name, stanza) ==
    <<Stanza(name)>> \o FlattenSeq([i \in 1..Len(stanza) |-> RenderValue(stanza[i][1], stanza[i][2])]) \o <<Blank>>

\* parse_conf: exactly one backslash continues; what a swallowed line says is not kept.
Swallow(l) == [text |-> IF l.kind = "more" THEN l.text ELSE "swallowed", tail |-> 0]
ContinuesAt(l) == l.tail = 1
PartOf(l) == [text |-> l.text, tail |-> IF ContinuesAt(l) THEN 0 ELSE l.tail]
\* value.strip(): blank lines at the end of a value go.
Stripped(value) ==
    IF Len(value) > 1 /\ Last(value) = [text |-> "", tail |-> 0] THEN Front(value) ELSE value
Closed(r) ==
    IF r.key = NoName THEN [r EXCEPT !.open = FALSE]
    ELSE [r EXCEPT !.open = FALSE,
                   !.stanzas[r.at] = Overlaid(@, [k \in {r.key} |-> Stripped(r.value)])]
ReadLine(r, l) ==
    CASE r.open -> LET grown == [r EXCEPT !.value = Append(@, Swallow(l))]
                   IN  IF ContinuesAt(l) THEN grown ELSE Closed(grown)
      [] ~r.open /\ l.kind = "stanza" ->
            [r EXCEPT !.at = l.name,
                      !.order = IF l.name \in DOMAIN r.stanzas THEN @ ELSE Append(@, l.name),
                      !.stanzas = Overlaid([n \in {l.name} |-> NoKeys], @)]
      [] OTHER -> LET fresh == [r EXCEPT !.key = l.name, !.value = <<PartOf(l)>>, !.open = TRUE]
                  IN  IF ContinuesAt(l) THEN fresh ELSE Closed(fresh)
ParseConf(lines) ==
    LET r0 == [stanzas |-> [n \in {"default"} |-> NoKeys], order |-> <<>>, at |-> "default",
               key |-> NoName, value |-> <<>>, open |-> FALSE]
        r  == FoldLeft(ReadLine, r0, lines)
        r1 == IF r.open THEN Closed(r) ELSE r
    IN  [i \in 1..Len(r1.order) |->
            <<r1.order[i], Overlaid(r1.stanzas["default"], r1.stanzas[r1.order[i]])>>]

-----------------------------------------------------------------------------
(* Searches. *)

Get(attrs, k, otherwise) == IF k \in DOMAIN attrs THEN attrs[k][1].text ELSE otherwise
FromStanza(name, attrs) ==
    [name |-> name,
     spl |-> IF "search" \in DOMAIN attrs THEN attrs["search"] ELSE <<>>,
     earliest |-> Get(attrs, "earliest", <<>>), latest |-> Get(attrs, "latest", <<>>),
     cron |-> Get(attrs, "cron", {}),
     scheduled |-> Get(attrs, "enableSched", FALSE), disabled |-> Get(attrs, "disabled", FALSE),
     skip |-> Get(attrs, "regulator.skip", FALSE), weight |-> Get(attrs, "regulator.weight", 0)]
ParseSavedSearches(lines) ==
    LET c == ParseConf(lines) IN [i \in 1..Len(c) |-> FromStanza(c[i][1], c[i][2])]

\* to_stanza: what is empty is left out, enableSched never is; annotations last.
GivenAttr(k, v, is) == IF is THEN <<<<k, v>>>> ELSE <<>>
ToStanza(s) ==
    <<<<"search", s.spl>>>> \o GivenAttr("earliest", One(s.earliest), s.earliest # <<>>)
    \o GivenAttr("latest", One(s.latest), s.latest # <<>>) \o GivenAttr("cron", One(s.cron), s.cron # {})
    \o <<<<"enableSched", One(s.scheduled)>>>> \o GivenAttr("disabled", One(TRUE), s.disabled)
    \o GivenAttr("regulator.skip", One(TRUE), s.skip) \o GivenAttr("regulator.weight", One(s.weight), s.weight # 0)
\* The stanzas are a dictionary: of searches with one name, the first one's place and the last
\* one's text.
Firsts(ss) == KeptAt(ss, {i \in 1..Len(ss) : \A j \in 1..(i - 1) : ss[j].name # ss[i].name})
LastOf(ss, n) == CHOOSE i \in ByName(ss, n) : \A j \in ByName(ss, n) : j <= i
Stanzas(ss) == [k \in 1..Len(Firsts(ss)) |-> ss[LastOf(ss, Firsts(ss)[k].name)]]
RenderSavedSearches(ss) ==
    FlattenSeq([i \in 1..Len(Stanzas(ss)) |-> RenderStanza(Stanzas(ss)[i].name, ToStanza(Stanzas(ss)[i]))])

Writes(spl) == \E i \in 1..Len(spl) : spl[i].text \in WritingLines
Special(op) == <<[op |-> op, n |-> 0, unit |-> OneMinute]>>
RealTime == Special("rt")
IsRealtime(s) == RealTime \in {s.earliest, s.latest}

\* select_searches, in the order of its checks.
Selected(s, src) ==
    /\ ~s.skip /\ s.name \notin src.exclude /\ s.spl # <<>>
    /\ src.only_enabled => ~s.disabled
    /\ src.only_scheduled => s.scheduled /\ s.cron # {}
    /\ IsRealtime(s) => src.allow_realtime
    /\ Writes(s.spl) => src.allow_side_effects

-----------------------------------------------------------------------------
(* Time: a modifier is a sequence of offsets and snaps; Splunk's calendar   *)
(* units longer than a day are left out.                                    *)

Floor(t, unit) == (t \div unit) * unit
Apply(t, m) == IF m.op = "off" THEN t + m.n * m.unit ELSE IF m.op = "snap" THEN Floor(t, m.unit) ELSE t
EvaluateRelative(modifier, now) == FoldLeft(Apply, now, modifier)

Now == Special("now")
AllTime == Special("all")
\* The fixed moment windows are derived at: a noon.
Reference == 8 * OneDay + OneDay \div 2

Derived(ok, all, window, offset) == [ok |-> ok, all |-> all, window |-> window, offset |-> offset]
DeriveWindow(earliest, latest) ==
    LET l     == IF latest \in {<<>>, AllTime} THEN Now ELSE latest
        end   == EvaluateRelative(l, Reference)
        start == EvaluateRelative(earliest, Reference)
    IN  CASE earliest \in {<<>>, AllTime} -> Derived(TRUE, TRUE, 0, 0)
          [] RealTime \in {earliest, l} -> Derived(FALSE, FALSE, 0, 0)
          [] earliest \notin {<<>>, AllTime, RealTime} /\ l # RealTime ->
                Derived(end > start, FALSE, end - start, IF Reference > end THEN Reference - end ELSE 0)

\* _policy_from_saved; "none" when the range cannot be replayed.
PolicyFromSaved(s, src) ==
    LET d == DeriveWindow(s.earliest, s.latest)
        policy(mode) == [mode |-> mode, window |-> d.window, offset |-> d.offset]
    IN  IF src.as_saved \/ d.all THEN policy("relative")
        ELSE IF d.ok THEN policy("rolling") ELSE policy("none")

\* resolve_window: only the end is aligned, downwards; the start follows from it.
EarliestOf(latest, window) == latest - window
RollingWindow(policy, now, jitter) ==
    LET latest == Floor(now - policy.offset - jitter, OneMinute)
    IN  [latest |-> latest, earliest |-> EarliestOf(latest, policy.window)]
\* A relative range is the target's to evaluate; this is only the record of it.
RecordedWindow(s, now) ==
    IF IsRealtime(s) THEN [latest |-> now, earliest |-> 0]
    ELSE [latest |-> IF s.latest = AllTime THEN now ELSE EvaluateRelative(s.latest, now),
          earliest |-> IF s.earliest \in {<<>>, AllTime} THEN 0 ELSE EvaluateRelative(s.earliest, now)]
ResolveWindow(step, now, jitter) ==
    IF step.policy.mode = "relative" THEN RecordedWindow(step.search, now)
    ELSE RollingWindow(step.policy, now, jitter)

-----------------------------------------------------------------------------
(* Cron, over a calendar with short hours and months: a field is a set of   *)
(* parts [star, from, to, step]; weekday 3 is another name for weekday 0.   *)

MinutesOf == 0..3
FieldValues(parts, low, high) ==
    UNION {LET from == IF p.star THEN low ELSE p.from
               to == IF p.star \/ (p.from = p.to /\ p.step > 1) THEN high ELSE p.to
           IN  {v \in from..to : (v - from) % p.step = 0} : p \in parts}
Wild(parts) == \E p \in parts : p.star /\ p.step = 1
WeekdayValues(parts) == LET v == FieldValues(parts, 0, 3) IN {x % 3 : x \in v}
\* Cron.matches: when both days are restricted, either is enough.
CronMatches(c, day, minute) ==
    LET dayOk == (day % 4) + 1 \in FieldValues(c.day, 1, 4)
        weekdayOk == day % 3 \in WeekdayValues(c.weekday)
    IN  /\ minute \in FieldValues(c.minute, 0, 3)
        /\ \/ Wild(c.day) /\ (Wild(c.weekday) \/ weekdayOk)
           \/ ~Wild(c.day) /\ (dayOk \/ (~Wild(c.weekday) /\ weekdayOk))
\* firings_per_day over a fortnight of two short weeks.
FiringsPerDay(cron) ==
    LET c == CHOOSE c \in cron : TRUE
    IN  Cardinality({at \in (1..6) \X MinutesOf : CronMatches(c, at[1], at[2])})

-----------------------------------------------------------------------------
(* bind_saved_searches and lint. *)

\* The weight of a search in a sampled persona: its own, else its frequency (next to nothing
\* when it never fires), else one a day: six in these two weeks.
WeightOf(s) ==
    IF s.weight # 0 THEN s.weight
    ELSE IF s.cron = {} THEN 6 ELSE FiringsPerDay(s.cron)
StepFrom(s, src, explicit) ==
    [saved |-> s.name, dispatch |-> "spl", spl |-> s.spl, policy |-> PolicyFromSaved(s, src),
     cron |-> s.cron, weight |-> IF explicit THEN s.weight ELSE WeightOf(s), search |-> s]

\* A step whose search only the target has: nothing is bound, and the range is the scenario's,
\* a day up to now.
HeldByTarget(st) ==
    [saved |-> st.saved, dispatch |-> st.dispatch, spl |-> <<>>, cron |-> {}, weight |-> 0,
     search |-> NoName, policy |-> [mode |-> "rolling", window |-> OneDay, offset |-> 0]]

\* Of a step written out by hand: the stanza it names is taken as it is, selected or not; one
\* that names none is kept as it was written.
BoundExplicit(st, ss, src) ==
    IF ByName(ss, st.saved) = {} THEN HeldByTarget(st)
    ELSE [StepFrom(ss[CHOOSE i \in ByName(ss, st.saved) : TRUE], src, TRUE)
             EXCEPT !.dispatch = st.dispatch]
UnreadableOnly(st, ss, src) ==
    \/ st.dispatch # "saved" /\ ByName(ss, st.saved) = {}
    \/ \E i \in ByName(ss, st.saved) : PolicyFromSaved(ss[i], src).mode = "none"
ExplicitProblem(st, ss, src) ==
    \/ st.dispatch # "saved" /\ ByName(ss, st.saved) = {}
    \/ \E i \in ByName(ss, st.saved) :
          \/ Writes(ss[i].spl) /\ ~src.allow_side_effects
          \/ st.dispatch # "saved" /\ ss[i].spl = <<>>
          \/ PolicyFromSaved(ss[i], src).mode = "none"

\* Of a persona with steps_from: the selected ones whose range can be replayed.
TakenFrom(ss, src) ==
    KeptAt(ss, {i \in 1..Len(ss) : Selected(ss[i], src) /\ PolicyFromSaved(ss[i], src).mode # "none"})
BoundSaved(ss, src) ==
    IF src.from THEN [i \in 1..Len(TakenFrom(ss, src)) |-> StepFrom(TakenFrom(ss, src)[i], src, FALSE)]
    ELSE <<>>
LoadScenario(lines, src) ==
    LET ss == ParseSavedSearches(lines)
    IN  [source |-> src,
         steps |-> [i \in 1..Len(src.steps) |-> BoundExplicit(src.steps[i], ss, src)]
                   \o BoundSaved(ss, src),
         blocked |-> \/ \E i \in 1..Len(src.steps) : ExplicitProblem(src.steps[i], ss, src)
                     \/ src.from /\ \A i \in 1..Len(ss) : ~Selected(ss[i], src)]

-----------------------------------------------------------------------------
(* Actions. *)

Nothing == [at |-> 0]
Export(entries) ==
    /\ conf = NoFile /\ origin' = entries /\ conf' = RenderSavedSearches(entries)
    /\ UNCHANGED <<scenario, launched>>
WriteByHand(lines) ==
    /\ conf = NoFile /\ conf' = lines /\ origin' = <<>> /\ UNCHANGED <<scenario, launched>>
Load(src) ==
    /\ conf # NoFile /\ scenario = NoScenario /\ scenario' = LoadScenario(conf, src)
    /\ UNCHANGED <<origin, conf, launched>>
\* A step dispatched by name runs what the target's search says by then, the others what the
\* file said.
TextsOf(step) == IF step.dispatch = "saved" THEN TargetTexts ELSE {step.spl}
\* A run starts only when nothing blocks; each dispatch computes its window.
DispatchStep(i, now, jitter) ==
    /\ scenario # NoScenario /\ ~scenario.blocked /\ launched = Nothing
    /\ i \in 1..Len(scenario.steps)
    /\ \E text \in TextsOf(scenario.steps[i]) :
          launched' = [at |-> now, jitter |-> jitter, step |-> scenario.steps[i], text |-> text,
                       window |-> ResolveWindow(scenario.steps[i], now, jitter)]
    /\ UNCHANGED <<origin, conf, scenario>>

SavedInit == origin = <<>> /\ conf = NoFile /\ scenario = NoScenario /\ launched = Nothing
SavedNext ==
    \/ \E e \in Exports : Export(e)
    \/ \E l \in HandWritten : WriteByHand(l)
    \/ \E src \in Selections : Load(src)
    \/ \E i \in 1..3, now \in Moments, jitter \in Jitters : DispatchStep(i, now, jitter)
SavedSpec == SavedInit /\ [][SavedNext]_savedVars

-----------------------------------------------------------------------------
Plain(entries) ==
    /\ \A i \in 1..Len(entries) : \A j \in 1..Len(entries[i].spl) : entries[i].spl[j].tail = 0
    /\ \A i, j \in 1..Len(entries) : entries[i].name = entries[j].name => i = j
    /\ \A i \in 1..Len(entries) : entries[i].name # "default"
SameLoad ==
    (scenario # NoScenario /\ scenario.source.from /\ origin # <<>>) =>
        LET taken == TakenFrom(origin, scenario.source)
            tail  == SubSeq(scenario.steps, Len(scenario.steps) - Len(taken) + 1, Len(scenario.steps))
        IN  /\ Len(scenario.steps) >= Len(taken)
            /\ [i \in 1..Len(taken) |-> StepFrom(taken[i], scenario.source, FALSE)] = tail

\* Searches pulled off a target, written to a file and loaded from it are the load the target
\* has: the same searches are left out, and each of the others has the text, the range, the
\* schedule, the weight and the flags it had, when no line of a search ends in a backslash, no
\* two have one name and none is called "default", the stanza of everyone's defaults
\* (savedsearches.py:16-17, 105-110, 119-121).
ExportIsTheSameLoad == Plain(origin) => SameLoad

\* Without that condition it is not: one backslash at the end of a value swallows the line
\* that follows, and before a line break it ends the value; and of two apps' searches with one
\* name only one is written.
AnyExportIsTheSameLoad == SameLoad

\* Unless the scenario says so, no search is launched that writes in the file, whether it was
\* selected or named by a step, and what writes all the same is the target's own search,
\* dispatched by name (savedsearches.py:22-24; scenario.py:846-865).
WritersNeedLeave ==
    launched # Nothing /\ ~scenario.source.allow_side_effects =>
        /\ ~Writes(launched.step.spl)
        /\ Writes(launched.text) => launched.step.dispatch = "saved"

(* What the comments say and TLC refutes (README, "Findings"). *)

\* No search that writes is launched unless the scenario says so (savedsearches.py:22-24;
\* README.md:912-916): what the target's search says is asked by nobody.
TargetWritersNeedLeave ==
    launched # Nothing /\ ~scenario.source.allow_side_effects => ~Writes(launched.text)

\* A search with a range that is not empty at the moment of dispatch is not left out for its
\* range (scenario.py:884-892).  It is: windows are derived at a fixed noon, where "@h" to now
\* is empty.
ReplayableIsReplayed ==
    (scenario # NoScenario /\ scenario.source.from /\ origin # <<>>) =>
        \A i \in 1..Len(origin) : LET s == origin[i] IN
            (Selected(s, scenario.source) /\ ~IsRealtime(s) /\ s.earliest # AllTime
               /\ \A now \in Moments : EvaluateRelative(s.earliest, now) < EvaluateRelative(s.latest, now))
                => \E j \in 1..Len(scenario.steps) : scenario.steps[j].saved = s.name
=============================================================================
