---------------------------- MODULE ProgressProofs ----------------------------
(***************************************************************************)
(* What holds of the telemetry emitter for any number of records and of    *)
(* attempts, of the drivers for any groups, refusals and losses, of the    *)
(* shared copy for any rows and order of its threads, of the scheduler for *)
(* any load, pauses and lateness, and of the statistics stream for any     *)
(* number of slots, executions and lost heartbeats.  Each component has    *)
(* its invariant first, then a lemma per step, then the theorem.           *)
(***************************************************************************)
EXTENDS Scheduler, Series, Publisher, Emitter, Drivers, FiniteSetTheorems, FunctionTheorems,
        WellFoundedInduction, TLAPS

-----------------------------------------------------------------------------
(* Emitter: every record is in one place. *)

PostSet == [size : Nat, tries : Nat, at : {"idle", "post", "backoff"}]
Tellings == {"new", "load", "summary", "last", "close", "rest", "last-rest", "closed"}

EmitterType ==
    /\ queue \in Nat /\ sent \in Nat /\ dropped \in Nat /\ emitted \in Nat /\ cut \in Nat
    /\ post \in [Flushers -> PostSet] /\ telling \in Tellings /\ looping \in BOOLEAN

\* A record emitted is queued, in a batch, sent, dropped or cut off. Once the background
\* task is cancelled it holds nothing, and once the last flush has begun nothing is queued.
EmitterInv ==
    /\ EmitterType
    /\ emitted = sent + dropped + cut + queue + post["loop"].size + post["run"].size
    /\ \A f \in Flushers : post[f].at = "idle" => post[f] = Resting
    /\ telling \in {"rest", "last-rest", "closed"} => ~looping /\ post["loop"] = Resting
    /\ telling \in {"last-rest", "closed"} => queue = 0
    /\ telling = "closed" => post["run"] = Resting

\* A flusher takes the queue, and the records in it.
LEMMA TakesQueue ==
    ASSUME EmitterInv, NEW f \in Flushers, post[f].at = "idle", Takes(f)
    PROVE  /\ post' \in [Flushers -> PostSet] /\ queue' = 0
           /\ post'[f].size = queue /\ post'[f].at = "post"
           /\ \A g \in Flushers \ {f} : post'[g] = post[g]
<1>1. [size |-> queue, tries |-> 0, at |-> "post"] \in PostSet
  BY DEF EmitterInv, EmitterType, PostSet
<1> QED
  BY <1>1 DEF EmitterInv, EmitterType, Takes, Emptied

\* Every step of the emitter, of the collector and of the run keeps count.
LEMMA EmitterKeeps ==
    ASSUME EmitterInv, [EmitterNext]_emitterVars
    PROVE  EmitterInv'
<1> USE DEF EmitterInv, EmitterType
<1>1. Resting \in PostSet /\ Resting.size = 0 /\ Resting.at = "idle"
  BY DEF Resting, PostSet
<1>2. "loop" \in Flushers /\ "run" \in Flushers
      /\ \A f \in Flushers : f = "loop" \/ f = "run"
  BY DEF Flushers
<1>3. post["loop"] \in PostSet /\ post["run"] \in PostSet
  BY <1>2
<1>4. CASE StartEmitter
  BY <1>3, <1>4 DEF StartEmitter, Tellings
<1>5. CASE Emit
  BY <1>3, <1>5 DEF Emit, Tellings, PostSet
<1>6. CASE EmitSummary
  BY <1>3, <1>6 DEF EmitSummary, Tellings, PostSet
<1>7. CASE RunFails
  BY <1>3, <1>7 DEF RunFails, Tellings
<1>8. CASE Closes
  BY <1>3, <1>2, <1>8 DEF Closes, Tellings, RunIdle
<1>9. CASE LoopFlushes
  BY <1>2, <1>9, TakesQueue DEF LoopFlushes, Resting
<1>10. ASSUME NEW from, NEW to \in {"summary", "close", "last-rest"},
             to # "last-rest" => from \in {"load", "last"}, to = "last-rest" => from = "rest",
             RunFlushes(from, to)
      PROVE  EmitterInv'
  <2>1. CASE queue > 0
    <3>1. /\ post' \in [Flushers -> PostSet] /\ queue' = 0
          /\ post'["run"].size = queue /\ post'["run"].at = "post"
          /\ post'["loop"] = post["loop"] /\ post["run"] = Resting
      BY <1>2, <1>10, <2>1, TakesQueue DEF RunFlushes, RunIdle
    <3>2. telling' = to /\ telling = from
          /\ UNCHANGED <<looping, sent, dropped, reported, emitted, cut>>
      BY <1>10 DEF RunFlushes
    <3>3. emitted' = sent' + dropped' + cut' + queue' + post'["loop"].size + post'["run"].size
      BY <1>3, <1>1, <3>1, <3>2 DEF PostSet
    <3> QED
      BY <1>2, <1>10, <3>1, <3>2, <3>3 DEF Tellings
  <2>2. CASE queue = 0
    BY <1>2, <1>10, <2>2 DEF RunFlushes, RunIdle, Tellings
  <2> QED
    BY <2>1, <2>2
<1>11. CASE CancelLoop
  <2>1. post' \in [Flushers -> PostSet] /\ post'["loop"] = Resting /\ post'["run"] = post["run"]
        /\ post["run"] = Resting
    BY <1>1, <1>2, <1>11 DEF CancelLoop, RunIdle
  <2>2. telling' = "rest" /\ looping' = FALSE /\ cut' = cut + post["loop"].size
        /\ UNCHANGED <<queue, sent, dropped, reported, emitted>>
    BY <1>11 DEF CancelLoop, CutOff
  <2>3. emitted' = sent' + dropped' + cut' + queue' + post'["loop"].size + post'["run"].size
    BY <1>3, <1>1, <2>1, <2>2 DEF PostSet
  <2> QED
    <3>1. cut' \in Nat
      BY <1>3, <2>2 DEF PostSet
    <3>2. \A f \in Flushers : post'[f].at = "idle" => post'[f] = Resting
      BY <1>2, <2>1
    <3> QED
      BY <2>1, <2>2, <2>3, <3>1, <3>2 DEF Tellings
<1>12. ASSUME NEW f \in Flushers, Answered(f) PROVE EmitterInv'
  BY <1>1, <1>2, <1>12 DEF Answered, PostSet
<1>13. ASSUME NEW f \in Flushers, Retries(f) PROVE EmitterInv'
  BY <1>2, <1>13 DEF Retries, PostSet, Resting
<1>14. CASE UNCHANGED emitterVars
  BY <1>14 DEF emitterVars
<1> QED
  BY <1>4, <1>5, <1>6, <1>7, <1>8, <1>9, <1>10, <1>11, <1>12, <1>13, <1>14 DEF EmitterNext

\* The emitter begins with nothing to count.
LEMMA EmitterBegins == EmitterInit => EmitterInv
<1>1. Resting \in PostSet /\ Resting.size = 0
  BY DEF Resting, PostSet
<1>2. "loop" \in Flushers /\ "run" \in Flushers
  BY DEF Flushers
<1> SUFFICES ASSUME EmitterInit PROVE EmitterInv
  OBVIOUS
<1>3. EmitterType
  BY <1>1 DEF EmitterInit, EmitterType, Tellings
<1>4. post["loop"] = Resting /\ post["run"] = Resting /\ \A f \in Flushers : post[f] = Resting
  BY <1>2 DEF EmitterInit
<1> QED
  BY <1>1, <1>3, <1>4 DEF EmitterInit, EmitterInv

\* For any number of records, attempts and answers of the collector: once the emitter is
\* closed every record was sent, dropped, or cut off with the batch the background task was
\* posting (hec.py _flush, close).
THEOREM RecordsAreCountedHolds == EmitterSpec => []RecordsAreCounted
<1>1. EmitterInv => RecordsAreCounted
  BY DEF EmitterInv, EmitterType, RecordsAreCounted, Flushers, Resting
<1> QED
  BY <1>1, EmitterBegins, EmitterKeeps, PTL DEF EmitterSpec

-----------------------------------------------------------------------------
(* Drivers: whatever exists at the backend is on a list. *)

Workloads == {"none", "up", "drained", "gone"}
Secrets   == {"none", "there", "owned", "gone"}
Doings == {"idle", "create", "service", "adopt", "record", "undo", "failed", "watch", "stop",
           "destroy", "destroyJob", "destroySecrets", "over"}
Launches == {"create", "service", "adopt", "record", "undo"}
Removals == {"destroy", "destroyJob", "destroySecrets"}

DriversType ==
    /\ doing \in Doings
    /\ todoGroups \in Seq(GroupNames) /\ refs \in Seq(GroupNames) /\ remaining \in Seq(GroupNames)
    /\ workload \in [GroupNames -> Workloads] /\ secret \in [GroupNames -> Secrets]
    /\ excused \in SUBSET GroupNames
    /\ doing # "idle" => fleet \in FleetSituations

\* A sequence without repetitions.
Distinct(s) == \A i, j \in 1..Len(s) : s[i] = s[j] => i = j

\* Something of a group is at the backend, and no answer about it was lost.
Exists(g) == workload[g] \in {"up", "drained"} \/ secret[g] \in {"there", "owned"}
Untouched(g)  == workload[g] = "none" /\ secret[g] = "none"
Counts(g) == g \notin excused /\ Exists(g)

\* Only the group that is being launched may exist without being recorded, and only a group
\* that is still to be destroyed, or could not be, once the fleet ends. A group to be launched
\* has nothing at the backend, and of one whose job or secret was removed the rest is known.
LaunchOK ==
    doing \in Launches =>
        /\ todoGroups # <<>> /\ Distinct(todoGroups)
        /\ \A g \in GroupNames : Counts(g) => g \in ToSet(refs) \/ g = This
        /\ \A g \in ToSet(todoGroups) : g = This \/ Untouched(g)
        /\ doing = "create" => Untouched(This)
        /\ doing = "service" => workload[This] = "none"
        /\ doing = "undo" => workload[This] = "none" \/ This \in excused

RecordedOK ==
    /\ doing \in {"failed", "watch", "stop"} => \A g \in GroupNames : Counts(g) => g \in ToSet(refs)
    /\ doing = "stop" => ToSet(todoGroups) \subseteq ToSet(refs)

RemovalOK ==
    doing \in Removals =>
        /\ \A g \in GroupNames : Counts(g) => g \in ToSet(todoGroups) \cup ToSet(remaining)
        /\ doing # "destroy" => todoGroups # <<>>
        /\ doing = "destroyJob" => fleet.kind = "k8s" /\ (secret[This] \notin {"there", "owned"} \/ This \in excused)
        /\ doing = "destroySecrets" => workload[This] = "gone"

KindOK ==
    /\ doing # "idle" /\ fleet.kind = "fake" =>
        /\ \A g \in GroupNames : secret[g] = "none"
        /\ doing \notin {"service", "adopt", "undo", "destroyJob", "destroySecrets"}
    /\ doing = "idle" => \A g \in GroupNames : workload[g] = "none" /\ secret[g] = "none"

DriversInv == DriversType /\ LaunchOK /\ RecordedOK /\ RemovalOK /\ KindOK /\ NothingIsForgotten

\* The elements of a sequence are those at its places.
LEMMA Listed ==
    ASSUME NEW S, NEW s \in Seq(S)
    PROVE  \A x : x \in ToSet(s) <=> \E i \in 1 .. Len(s) : x = s[i]
BY DEF ToSet

\* The first of a sequence, and the others.
LEMMA HeadAndTail ==
    ASSUME NEW S, NEW s \in Seq(S), s # <<>>
    PROVE  /\ Head(s) \in S /\ Tail(s) \in Seq(S)
           /\ ToSet(s) = {Head(s)} \cup ToSet(Tail(s))
           /\ Distinct(s) => Distinct(Tail(s)) /\ Head(s) \notin ToSet(Tail(s))
           /\ Len(s) # 1 => Tail(s) # <<>>
<1>1. /\ Len(s) \in Nat /\ Len(s) >= 1 /\ Head(s) = s[1] /\ Head(s) \in S
      /\ Tail(s) \in Seq(S) /\ Len(Tail(s)) = Len(s) - 1
      /\ \A i \in 1 .. Len(Tail(s)) : Tail(s)[i] = s[i + 1]
  OBVIOUS
<1>2. /\ \A x : x \in ToSet(s) <=> \E i \in 1 .. Len(s) : x = s[i]
      /\ \A x : x \in ToSet(Tail(s)) <=> \E i \in 1 .. Len(Tail(s)) : x = Tail(s)[i]
  BY <1>1, Listed
<1>3. \A x : x \in ToSet(s) <=> x = Head(s) \/ x \in ToSet(Tail(s))
  <2>1. ASSUME NEW i \in 1 .. Len(s) PROVE s[i] = Head(s) \/ s[i] \in ToSet(Tail(s))
    <3>1. i = 1 \/ (i - 1 \in 1 .. Len(Tail(s)) /\ Tail(s)[i - 1] = s[i])
      BY <1>1
    <3> QED
      BY <1>1, <1>2, <3>1
  <2>2. ASSUME NEW i \in 1 .. Len(Tail(s)) PROVE Tail(s)[i] \in ToSet(s)
    <3>1. i + 1 \in 1 .. Len(s) /\ Tail(s)[i] = s[i + 1]
      BY <1>1
    <3> QED
      BY <1>2, <3>1
  <2>3. Head(s) \in ToSet(s)
    <3>1. 1 \in 1 .. Len(s) /\ Head(s) = s[1]
      BY <1>1
    <3> QED
      BY <1>2, <3>1
  <2>4. \A x : x \in ToSet(Tail(s)) => x \in ToSet(s)
    BY <1>2, <2>2
  <2> QED
    BY <1>2, <2>1, <2>3, <2>4
<1>4. Distinct(s) => Distinct(Tail(s)) /\ Head(s) \notin ToSet(Tail(s))
  BY <1>1, <1>2 DEF Distinct
<1>5. ToSet(s) = {Head(s)} \cup ToSet(Tail(s))
  BY <1>3
<1>6. Len(s) # 1 => Tail(s) # <<>>
  <2> SUFFICES ASSUME Tail(s) = <<>> PROVE Len(s) = 1
    OBVIOUS
  <2>1. Len(<<>>) = 0
    OBVIOUS
  <2>2. Len(Tail(s)) = 0
    BY <2>1, Zenon
  <2> QED
    BY <1>1, <2>2
<1> QED
  BY <1>1, <1>4, <1>5, <1>6

\* One more at the end of a sequence.
LEMMA OneMore ==
    ASSUME NEW S, NEW s \in Seq(S), NEW x \in S
    PROVE  Append(s, x) \in Seq(S) /\ ToSet(Append(s, x)) = ToSet(s) \cup {x}
<1>1. /\ Append(s, x) \in Seq(S) /\ Len(Append(s, x)) = Len(s) + 1 /\ Len(s) \in Nat
      /\ Append(s, x)[Len(s) + 1] = x
      /\ \A i \in 1 .. Len(s) : Append(s, x)[i] = s[i]
  OBVIOUS
<1>2. ToSet(s) = {s[i] : i \in 1 .. Len(s)}
      /\ ToSet(Append(s, x)) = {Append(s, x)[i] : i \in 1 .. Len(Append(s, x))}
  BY <1>1 DEF ToSet
<1>3. \A y : y \in ToSet(Append(s, x)) <=> y \in ToSet(s) \/ y = x
  <2>1. \A i \in 1 .. Len(Append(s, x)) : i \in 1 .. Len(s) \/ i = Len(s) + 1
    BY <1>1
  <2>2. \A i \in 1 .. Len(s) : i \in 1 .. Len(Append(s, x))
    BY <1>1
  <2>3. Len(s) + 1 \in 1 .. Len(Append(s, x))
    BY <1>1
  <2> QED
    BY <1>1, <1>2, <2>1, <2>2, <2>3
<1> QED
  BY <1>1, <1>3

\* Nothing is on an empty list.
LEMMA EmptyList == ToSet(<<>>) = {} /\ \A S : <<>> \in Seq(S)
BY DEF ToSet

\* What a step does to the backend it does to one group, which it may excuse.
OnlyThis ==
    /\ workload' \in [GroupNames -> Workloads] /\ secret' \in [GroupNames -> Secrets]
    /\ excused' \in SUBSET GroupNames /\ excused \subseteq excused'
    /\ \A g \in GroupNames : g # This => workload'[g] = workload[g] /\ secret'[g] = secret[g]
    /\ fleet' \in FleetSituations /\ fleet'.kind = fleet.kind

\* A call that is refused, or of which the answer is lost, leaves a situation.
LEMMA OneLess ==
    ASSUME fleet \in FleetSituations
    PROVE  /\ fleet.refusals > 0 => LET f == [fleet EXCEPT !.refusals = @ - 1] IN
                f \in FleetSituations /\ f.kind = fleet.kind
           /\ fleet.losses > 0 => LET f == [fleet EXCEPT !.losses = @ - 1] IN
                f \in FleetSituations /\ f.kind = fleet.kind
BY DEF FleetSituations

\* Giving the group at hand a secret, or another state of its workload.
LEMMA SecretOfThis ==
    ASSUME DriversType, This \in GroupNames, NEW s \in Secrets, SecretIs(s)
    PROVE  /\ secret' \in [GroupNames -> Secrets] /\ secret'[This] = s
           /\ \A g \in GroupNames : g # This => secret'[g] = secret[g]
BY DEF DriversType, SecretIs

\* The same of its workload.
LEMMA WorkloadOfThis ==
    ASSUME DriversType, This \in GroupNames, NEW s \in Workloads, WorkloadIs(s)
    PROVE  /\ workload' \in [GroupNames -> Workloads] /\ workload'[This] = s
           /\ \A g \in GroupNames : g # This => workload'[g] = workload[g]
BY DEF DriversType, WorkloadIs

\* The group at hand is the first on the list, and is not on it again.
LEMMA AtHand ==
    ASSUME DriversType, todoGroups # <<>>
    PROVE  /\ This \in GroupNames /\ This \in ToSet(todoGroups)
           /\ ToSet(todoGroups) \subseteq GroupNames
           /\ Tail(todoGroups) \in Seq(GroupNames)
           /\ ToSet(todoGroups) = {This} \cup ToSet(Tail(todoGroups))
           /\ Distinct(todoGroups) =>
                Distinct(Tail(todoGroups)) /\ This \notin ToSet(Tail(todoGroups))
           /\ Len(todoGroups) # 1 => Tail(todoGroups) # <<>>
<1>1. todoGroups \in Seq(GroupNames)
  BY DEF DriversType
<1>2. \A x \in ToSet(todoGroups) : x \in GroupNames
  BY <1>1, Listed
<1> QED
  BY <1>1, <1>2, HeadAndTail DEF This

\* What the invariant asks of a step that goes on with a launch, of the group at hand.
LEMMA LaunchGoesOn ==
    ASSUME DriversInv, doing \in Launches, OnlyThis, UNCHANGED <<todoGroups, refs, remaining>>,
           doing' \in Launches \ {"create"},
           doing' = "service" => workload'[This] = "none",
           doing' = "undo" => workload'[This] = "none" \/ This \in excused',
           fleet.kind # "fake" \/ (secret' = secret /\ doing' = "record")
    PROVE  DriversInv'
<1>1. todoGroups # <<>> /\ DriversType
  BY DEF DriversInv, LaunchOK
<1>2. This \in GroupNames /\ ToSet(todoGroups) \subseteq GroupNames
  BY <1>1, AtHand
<1>3. DriversType'
  BY DEF DriversInv, DriversType, OnlyThis, Launches, Doings
<1>4. This' = This /\ ToSet(todoGroups)' = ToSet(todoGroups) /\ ToSet(refs)' = ToSet(refs)
      /\ Distinct(todoGroups)' = Distinct(todoGroups)
  BY DEF ToSet, Distinct, This
<1>5. \A g \in GroupNames \ {This} : (Untouched(g) => Untouched(g)') /\ (Counts(g)' => Counts(g))
  BY DEF OnlyThis, Exists, Counts, Untouched
<1>6. LaunchOK'
  BY <1>1, <1>2, <1>4, <1>5 DEF DriversInv, LaunchOK
<1>7. RecordedOK' /\ RemovalOK' /\ NothingIsForgotten'
  BY DEF RecordedOK, RemovalOK, NothingIsForgotten, Launches, Removals
<1>8. KindOK'
  BY <1>1 DEF DriversInv, KindOK, OnlyThis, Launches
<1> QED
  BY <1>3, <1>6, <1>7, <1>8 DEF DriversInv

\* And of one that ends it without the group at hand.
LEMMA LaunchFails ==
    ASSUME DriversInv, doing \in Launches, OnlyThis, UNCHANGED <<todoGroups, refs, remaining>>,
           doing' = "failed", fleet.kind # "fake",
           ~Exists(This)' \/ This \in excused'
    PROVE  DriversInv'
<1>1. todoGroups # <<>> /\ DriversType
  BY DEF DriversInv, LaunchOK
<1>2. This \in GroupNames
  BY <1>1, AtHand
<1>3. DriversType'
  BY DEF DriversInv, DriversType, OnlyThis, Launches, Doings
<1>4. \A g \in GroupNames \ {This} : Counts(g)' => Counts(g)
  BY DEF OnlyThis, Exists, Counts
<1>5. RecordedOK'
  <2>1. \A g \in GroupNames : Counts(g)' => g # This
    BY DEF Counts, Exists, This
  <2>2. \A g \in GroupNames : Counts(g)' => g \in ToSet(refs)
    BY <1>4, <2>1 DEF DriversInv, LaunchOK
  <2> QED
    BY <2>2 DEF RecordedOK, ToSet
<1>6. LaunchOK' /\ RemovalOK' /\ NothingIsForgotten' /\ KindOK'
  BY DEF LaunchOK, RemovalOK, NothingIsForgotten, KindOK, Launches, Removals, OnlyThis
<1> QED
  BY <1>3, <1>5, <1>6 DEF DriversInv

\* The steps of a launch: the secret, the workload, a removal of the secret, its owner.
LEMMA CreateSecretKeeps ==
    ASSUME DriversInv, CreateSecret
    PROVE  DriversInv'
<1>1. doing \in Launches /\ doing = "create" /\ fleet.kind # "fake"
      /\ UNCHANGED <<todoGroups, refs, remaining>>
  BY DEF CreateSecret, Launches, Projects
<1>2. DriversType /\ This \in GroupNames /\ fleet \in FleetSituations /\ Untouched(This)
  BY <1>1, AtHand DEF DriversInv, DriversType, LaunchOK
<1>3. workload[This] = "none" /\ ~Exists(This)
  BY <1>2 DEF Untouched, Exists
<1>4. CASE Done(SecretIs("there") /\ UNCHANGED workload) /\ doing' = "service"
  <2>1. OnlyThis /\ workload'[This] = "none"
    BY <1>2, <1>3, <1>4, SecretOfThis DEF Done, OnlyThis, Secrets, DriversType
  <2> QED
    BY <1>1, <1>4, <2>1, LaunchGoesOn DEF Launches
<1>5. CASE Raises(SecretIs("there") /\ UNCHANGED workload) /\ doing' = "failed"
  <2>1. OnlyThis
    BY <1>2, <1>5, SecretOfThis, OneLess DEF Raises, OnlyThis, Secrets, DriversType, backend
  <2>2. ~Exists(This)' \/ This \in excused'
    BY <1>1, <1>3, <1>5 DEF Raises, Exists, backend, This
  <2> QED
    BY <1>1, <1>5, <2>1, <2>2, LaunchFails
<1> QED
  BY <1>4, <1>5 DEF CreateSecret

\* The workload is created, or refused, or created with its answer lost.
LEMMA CreateWorkloadKeeps ==
    ASSUME DriversInv, CreateWorkload
    PROVE  DriversInv'
<1>1. doing \in Launches /\ doing \in {"create", "service"} /\ UNCHANGED <<todoGroups, refs, remaining>>
  BY DEF CreateWorkload, Launches
<1>2. DriversType /\ This \in GroupNames /\ fleet \in FleetSituations
  BY <1>1, AtHand DEF DriversInv, DriversType, LaunchOK
<1>3. doing = "create" => fleet.kind = "fake"
  BY DEF CreateWorkload, Projects
<1>4. CASE /\ Done(WorkloadIs("up") /\ UNCHANGED secret)
           /\ doing' = IF fleet.kind = "k8s" THEN "adopt" ELSE "record"
  <2>1. OnlyThis /\ secret' = secret
    BY <1>2, <1>4, WorkloadOfThis DEF Done, OnlyThis, Workloads, DriversType
  <2> QED
    BY <1>1, <1>4, <2>1, LaunchGoesOn DEF Launches
<1>5. CASE /\ fleet.kind # "fake" /\ Raises(WorkloadIs("up") /\ UNCHANGED secret)
           /\ doing' = AfterFailedCreate
  <2>1. OnlyThis
    BY <1>2, <1>5, WorkloadOfThis, OneLess DEF Raises, OnlyThis, Workloads, DriversType, backend
  <2>2. doing = "service" /\ doing' = "undo" /\ workload[This] = "none"
    BY <1>1, <1>3, <1>5 DEF AfterFailedCreate, Projects, DriversInv, LaunchOK
  <2>3. workload'[This] = "none" \/ This \in excused'
    BY <1>5, <2>2 DEF Raises, backend
  <2> QED
    BY <1>1, <1>5, <2>1, <2>2, <2>3, LaunchGoesOn DEF Launches
<1> QED
  BY <1>4, <1>5 DEF CreateWorkload

\* After a create that failed the secret is removed, quietly.
LEMMA UndoSecretKeeps ==
    ASSUME DriversInv, UndoSecret
    PROVE  DriversInv'
<1>1. doing \in Launches /\ doing = "undo" /\ doing' = "failed" /\ fleet.kind # "fake"
      /\ UNCHANGED <<todoGroups, refs, remaining, workload>>
  BY DEF UndoSecret, Launches, DriversInv, KindOK
<1>2. DriversType /\ This \in GroupNames /\ fleet \in FleetSituations
      /\ (workload[This] = "none" \/ This \in excused)
  BY <1>1, AtHand DEF DriversInv, DriversType, LaunchOK
<1>3. Quietly(SecretIs("gone"))
  BY DEF UndoSecret
<1>4. OnlyThis
  BY <1>1, <1>2, <1>3, SecretOfThis, OneLess DEF Quietly, OnlyThis, Secrets, DriversType
<1>5. ~Exists(This)' \/ This \in excused'
  <2>1. CASE SecretIs("gone") /\ UNCHANGED <<fleet, excused>>
    <3>1. secret'[This] = "gone"
      BY <1>2, <2>1, SecretOfThis DEF Secrets
    <3> QED
      BY <1>1, <1>2, <2>1, <3>1 DEF Exists, This
  <2>2. CASE excused' = excused \cup {This}
    BY <1>1, <2>2 DEF This
  <2> QED
    BY <1>3, <2>1, <2>2 DEF Quietly
<1> QED
  BY <1>1, <1>4, <1>5, LaunchFails

\* The secret gets the workload as its owner, unless that is refused.
LEMMA AdoptSecretKeeps ==
    ASSUME DriversInv, AdoptSecret
    PROVE  DriversInv'
<1>1. doing \in Launches /\ doing = "adopt" /\ doing' = "record" /\ fleet.kind # "fake"
      /\ UNCHANGED <<todoGroups, refs, remaining, workload, excused>>
  BY DEF AdoptSecret, Launches, DriversInv, KindOK
<1>2. DriversType /\ This \in GroupNames /\ fleet \in FleetSituations
  BY <1>1, AtHand DEF DriversInv, DriversType, LaunchOK
<1>3. OnlyThis
  BY <1>1, <1>2, SecretOfThis, OneLess DEF AdoptSecret, OnlyThis, Secrets, DriversType
<1> QED
  BY <1>1, <1>3, LaunchGoesOn DEF Launches

\* The reference is recorded, and the next group launched or the workers watched.
LEMMA RecordRefKeeps ==
    ASSUME DriversInv, RecordRef
    PROVE  DriversInv'
<1>1. /\ doing = "record" /\ doing \in Launches
      /\ refs' = Append(refs, This) /\ todoGroups' = Tail(todoGroups)
      /\ doing' = IF Len(todoGroups) = 1 THEN "watch" ELSE "create"
      /\ UNCHANGED <<fleet, remaining, workload, secret, excused>>
  BY DEF RecordRef, Recorded, NextGroup, backend, Launches
<1>2. DriversType /\ todoGroups # <<>>
  BY <1>1 DEF DriversInv, LaunchOK
<1>3. /\ This \in GroupNames /\ ToSet(todoGroups) \subseteq GroupNames
      /\ Tail(todoGroups) \in Seq(GroupNames)
      /\ ToSet(todoGroups) = {This} \cup ToSet(Tail(todoGroups))
      /\ Distinct(Tail(todoGroups)) /\ This \notin ToSet(Tail(todoGroups))
      /\ Len(todoGroups) # 1 => Tail(todoGroups) # <<>>
  BY <1>1, <1>2, AtHand DEF DriversInv, LaunchOK
<1>4. Append(refs, This) \in Seq(GroupNames)
      /\ ToSet(Append(refs, This)) = ToSet(refs) \cup {This}
  BY <1>2, <1>3, OneMore DEF DriversType
<1>5. DriversType'
  BY <1>1, <1>2, <1>3, <1>4 DEF DriversType, Doings
<1>6. \A g \in GroupNames : Counts(g) => g \in ToSet(Append(refs, This))
  BY <1>1, <1>4 DEF DriversInv, LaunchOK
<1>7. \A g \in GroupNames : Counts(g)' = Counts(g) /\ Untouched(g)' = Untouched(g)
  BY <1>1 DEF Counts, Exists, Untouched
<1>8. ToSet(refs)' = ToSet(Append(refs, This)) /\ ToSet(todoGroups)' = ToSet(Tail(todoGroups))
      /\ Distinct(todoGroups)' = Distinct(Tail(todoGroups))
  BY <1>1 DEF ToSet, Distinct
<1>9. RecordedOK'
  BY <1>1, <1>6, <1>7, <1>8 DEF RecordedOK
<1>10. LaunchOK'
  <2> SUFFICES ASSUME doing' = "create" PROVE LaunchOK'
    BY <1>1 DEF LaunchOK, Launches
  <2>1. Tail(todoGroups) # <<>>
    BY <1>1, <1>3
  <2>2. \A g \in ToSet(Tail(todoGroups)) : Untouched(g)
    BY <1>1, <1>3 DEF DriversInv, LaunchOK
  <2>3. Tail(todoGroups) \in Seq(GroupNames) /\ Head(Tail(todoGroups)) \in ToSet(Tail(todoGroups))
    <3>1. Tail(todoGroups) \in Seq(GroupNames)
      BY <1>3, HeadAndTail
    <3>2. ToSet(Tail(todoGroups)) = {Head(Tail(todoGroups))} \cup ToSet(Tail(Tail(todoGroups)))
      BY <2>1, <3>1, HeadAndTail
    <3>3. QED
      BY <3>1, <3>2
  <2>4. This' \in ToSet(todoGroups)'
    BY <1>1, <1>8, <2>3 DEF This
  <2>5. \A g \in ToSet(todoGroups)' : Untouched(g)'
    BY <1>3, <1>7, <1>8, <2>2
  <2>6. Untouched(This)'
    BY <2>4, <2>5 DEF Untouched
  <2> QED
    BY <1>1, <1>3, <1>6, <1>7, <1>8, <2>1, <2>5, <2>6 DEF LaunchOK
<1>11. RemovalOK' /\ NothingIsForgotten' /\ KindOK'
  BY <1>1 DEF RemovalOK, NothingIsForgotten, Removals, DriversInv, KindOK
<1> QED
  BY <1>5, <1>9, <1>10, <1>11 DEF DriversInv

\* The workers are asked to drain, or the fleet ends: what is recorded is gone through.
LEMMA DrainBeginsKeeps ==
    ASSUME DriversInv, DrainBegins
    PROVE  DriversInv'
<1>1. doing = "watch" /\ doing' = "stop" /\ todoGroups' = refs
      /\ UNCHANGED <<fleet, refs, remaining, workload, secret, excused>>
  BY DEF DrainBegins, backend
<1>2. DriversType'
  BY <1>1 DEF DriversInv, DriversType, Doings
<1>3. RecordedOK'
  BY <1>1 DEF DriversInv, RecordedOK, Counts, Exists, ToSet
<1>4. LaunchOK' /\ RemovalOK' /\ NothingIsForgotten' /\ KindOK'
  BY <1>1 DEF DriversInv, LaunchOK, RemovalOK, NothingIsForgotten, KindOK, Launches, Removals
<1> QED
  BY <1>2, <1>3, <1>4 DEF DriversInv

\* The launch or the watch is over, or every group was told to drain: the removal begins.
LEMMA FleetEndsKeeps ==
    ASSUME DriversInv, FleetEnds
    PROVE  DriversInv'
<1>1. doing \in {"failed", "watch", "stop"} /\ doing' = "destroy"
      /\ todoGroups' = refs /\ remaining' = <<>>
      /\ UNCHANGED <<fleet, refs, workload, secret, excused>>
  BY DEF FleetEnds, backend
<1>2. DriversType'
  BY <1>1, EmptyList DEF DriversInv, DriversType, Doings
<1>3. RemovalOK'
  <2>1. \A g \in GroupNames : Counts(g)' => g \in ToSet(refs)
    BY <1>1 DEF DriversInv, RecordedOK, Counts, Exists
  <2>2. ToSet(todoGroups)' = ToSet(refs)
    BY <1>1 DEF ToSet
  <2> QED
    BY <1>1, <2>1, <2>2 DEF RemovalOK
<1>4. LaunchOK' /\ RecordedOK' /\ NothingIsForgotten' /\ KindOK'
  BY <1>1 DEF DriversInv, LaunchOK, RecordedOK, NothingIsForgotten, KindOK, Launches
<1> QED
  BY <1>2, <1>3, <1>4 DEF DriversInv

\* A workload that goes takes with it the secret it owns.
LEMMA GoesAwayThis ==
    ASSUME DriversType, This \in GroupNames, GoesAway
    PROVE  /\ workload' \in [GroupNames -> Workloads] /\ secret' \in [GroupNames -> Secrets]
           /\ workload'[This] = "gone"
           /\ secret'[This] = IF secret[This] = "owned" THEN "gone" ELSE secret[This]
           /\ \A g \in GroupNames : g # This => workload'[g] = workload[g] /\ secret'[g] = secret[g]
<1>1. /\ workload' \in [GroupNames -> Workloads] /\ workload'[This] = "gone"
      /\ \A g \in GroupNames : g # This => workload'[g] = workload[g]
  BY WorkloadOfThis DEF GoesAway, Workloads
<1>2. CASE secret[This] = "owned"
  <2>1. SecretIs("gone")
    BY <1>2 DEF GoesAway, Collect
  <2> QED
    BY <1>1, <1>2, <2>1, SecretOfThis DEF Secrets
<1>3. CASE secret[This] # "owned"
  <2>1. secret' = secret
    BY <1>3 DEF GoesAway, Collect
  <2> QED
    BY <1>1, <1>3, <2>1 DEF DriversType
<1> QED
  BY <1>2, <1>3

\* A call of the driver that touches one group leaves the situation one.
LEMMA CallOnThis ==
    ASSUME DriversType, This \in GroupNames, fleet \in FleetSituations, NEW effect \in BOOLEAN,
           effect =>
              /\ workload' \in [GroupNames -> Workloads] /\ secret' \in [GroupNames -> Secrets]
              /\ \A g \in GroupNames :
                    g # This => workload'[g] = workload[g] /\ secret'[g] = secret[g],
           Done(effect) \/ Raises(effect)
    PROVE  OnlyThis /\ (effect \/ UNCHANGED backend)
BY OneLess DEF Done, Raises, OnlyThis, DriversType, backend

\* A group is told to drain, or cannot be told.
LEMMA StopGroupKeeps ==
    ASSUME DriversInv, StopGroup
    PROVE  DriversInv'
<1>1. doing = "stop" /\ todoGroups # <<>> /\ todoGroups' = Tail(todoGroups)
      /\ UNCHANGED <<doing, refs, remaining>>
  BY DEF StopGroup, NextGroup
<1>2. /\ DriversType /\ fleet \in FleetSituations /\ This \in GroupNames
      /\ This \in ToSet(refs) /\ ToSet(Tail(todoGroups)) \subseteq ToSet(refs)
      /\ Tail(todoGroups) \in Seq(GroupNames)
  BY <1>1, AtHand DEF DriversInv, DriversType, RecordedOK
<1> DEFINE drained == WorkloadIs("drained") /\ UNCHANGED secret
           effect == IF fleet.kind = "k8s" THEN GoesAway ELSE drained
<1>3. drained => /\ workload' \in [GroupNames -> Workloads] /\ secret' \in [GroupNames -> Secrets]
                 /\ \A g \in GroupNames :
                       g # This => workload'[g] = workload[g] /\ secret'[g] = secret[g]
  BY <1>2, WorkloadOfThis DEF Workloads, DriversType
<1>4. effect => /\ workload' \in [GroupNames -> Workloads] /\ secret' \in [GroupNames -> Secrets]
                /\ \A g \in GroupNames :
                      g # This => workload'[g] = workload[g] /\ secret'[g] = secret[g]
  BY <1>2, <1>3, GoesAwayThis
<1>5. Done(effect) \/ Raises(effect)
  BY DEF StopGroup
<1>6. fleet.kind = "fake" => secret' = secret
  <2> SUFFICES ASSUME fleet.kind = "fake" PROVE secret' = secret
    OBVIOUS
  <2> QED
    BY <1>5 DEF Done, Raises, backend
<1>7. OnlyThis
  <2>1. effect \in BOOLEAN
    BY DEF GoesAway, WorkloadIs
  <2> HIDE DEF effect
  <2> QED
    BY <1>2, <1>4, <1>5, <2>1, CallOnThis
<1>8. DriversType'
  BY <1>1, <1>2, <1>7 DEF DriversInv, DriversType, OnlyThis
<1>9. RecordedOK'
  <2>1. \A g \in GroupNames : Counts(g)' => g \in ToSet(refs)
    BY <1>1, <1>2, <1>7 DEF DriversInv, RecordedOK, OnlyThis, Counts, Exists
  <2>2. ToSet(refs)' = ToSet(refs) /\ ToSet(todoGroups)' = ToSet(Tail(todoGroups))
    BY <1>1 DEF ToSet
  <2> QED
    BY <1>2, <2>1, <2>2 DEF RecordedOK
<1>10. LaunchOK' /\ RemovalOK' /\ NothingIsForgotten' /\ KindOK'
  BY <1>1, <1>6, <1>7 DEF DriversInv, LaunchOK, RemovalOK, NothingIsForgotten, KindOK,
     Launches, Removals, OnlyThis
<1> QED
  BY <1>8, <1>9, <1>10 DEF DriversInv

\* A removal that goes on with the group at hand.
LEMMA RemovalGoesOn ==
    ASSUME DriversInv, doing \in Removals, todoGroups # <<>>, OnlyThis,
           UNCHANGED <<todoGroups, refs, remaining>>,
           doing' \in {"destroyJob", "destroySecrets"}, fleet.kind # "fake",
           doing' = "destroyJob" =>
              fleet.kind = "k8s" /\ (secret'[This] \notin {"there", "owned"} \/ This \in excused'),
           doing' = "destroySecrets" => workload'[This] = "gone"
    PROVE  DriversInv'
<1>1. DriversType /\ This \in GroupNames /\ This \in ToSet(todoGroups)
  BY AtHand DEF DriversInv
<1>2. DriversType'
  BY DEF DriversInv, DriversType, OnlyThis, Doings
<1>3. ToSet(todoGroups)' = ToSet(todoGroups) /\ ToSet(remaining)' = ToSet(remaining) /\ This' = This
  BY DEF ToSet, This
<1>4. \A g \in GroupNames \ {This} : Counts(g)' => Counts(g)
  BY DEF OnlyThis, Exists, Counts
<1>5. \A g \in GroupNames : Counts(g)' => g \in ToSet(todoGroups) \cup ToSet(remaining)
  BY <1>1, <1>4 DEF DriversInv, RemovalOK
<1>6. RemovalOK'
  BY <1>3, <1>5 DEF RemovalOK, OnlyThis
<1>7. LaunchOK' /\ RecordedOK' /\ NothingIsForgotten' /\ KindOK'
  BY DEF LaunchOK, RecordedOK, NothingIsForgotten, KindOK, Launches, OnlyThis
<1> QED
  BY <1>2, <1>6, <1>7 DEF DriversInv

\* Nothing of the group at hand is left, or it is excused.
WillNotCount ==
    \/ workload'[This] \notin {"up", "drained"} /\ secret'[This] \notin {"there", "owned"}
    \/ This \in excused'

\* And one that is through with it: it is removed, or it remains on the other list.
LEMMA RemovalIsDone ==
    ASSUME DriversInv, doing \in Removals, todoGroups # <<>>, OnlyThis,
           todoGroups' = Tail(todoGroups), refs' = refs, doing' = "destroy",
           \/ remaining' = remaining /\ WillNotCount
           \/ remaining' = Append(remaining, This),
           fleet.kind = "fake" => secret' = secret
    PROVE  DriversInv'
<1>1. /\ DriversType /\ This \in GroupNames /\ Tail(todoGroups) \in Seq(GroupNames)
      /\ ToSet(todoGroups) = {This} \cup ToSet(Tail(todoGroups))
  BY AtHand DEF DriversInv
<1>2. /\ Append(remaining, This) \in Seq(GroupNames)
      /\ ToSet(Append(remaining, This)) = ToSet(remaining) \cup {This}
  BY <1>1, OneMore DEF DriversType
<1>3. remaining' \in Seq(GroupNames)
  BY <1>1, <1>2 DEF DriversType
<1>4. DriversType'
  BY <1>1, <1>3 DEF DriversInv, DriversType, OnlyThis, Doings, Removals
<1>5. ToSet(todoGroups)' = ToSet(Tail(todoGroups))
  BY DEF ToSet
<1>6. \A g \in GroupNames \ {This} : Counts(g)' => Counts(g)
  BY DEF OnlyThis, Exists, Counts
<1>7. \A g \in GroupNames \ {This} :
         Counts(g)' => g \in ToSet(Tail(todoGroups)) \cup ToSet(remaining)
  BY <1>1, <1>6 DEF DriversInv, RemovalOK
<1>8. \A g \in GroupNames : Counts(g)' => g \in ToSet(Tail(todoGroups)) \cup ToSet(remaining)'
  <2>1. CASE remaining' = remaining /\ WillNotCount
    <3>1. \A g \in GroupNames : Counts(g)' => g # This
      BY <2>1 DEF Counts, Exists, WillNotCount
    <3>2. ToSet(remaining)' = ToSet(remaining)
      BY <2>1 DEF ToSet
    <3> QED
      BY <1>7, <3>1, <3>2
  <2>2. CASE remaining' = Append(remaining, This)
    <3>1. ToSet(remaining)' = ToSet(remaining) \cup {This}
      BY <1>2, <2>2 DEF ToSet
    <3> QED
      BY <1>7, <3>1
  <2> QED
    BY <2>1, <2>2
<1>9. RemovalOK'
  BY <1>5, <1>8 DEF RemovalOK
<1>10. LaunchOK' /\ RecordedOK' /\ NothingIsForgotten' /\ KindOK'
  BY DEF DriversInv, LaunchOK, RecordedOK, NothingIsForgotten, KindOK, Launches, Removals, OnlyThis
<1> QED
  BY <1>4, <1>9, <1>10 DEF DriversInv

\* Kubernetes removes the secret first, or finds it gone.
LEMMA DestroySecretKeeps ==
    ASSUME DriversInv, DestroySecret
    PROVE  DriversInv'
<1>1. /\ doing = "destroy" /\ doing \in Removals /\ todoGroups # <<>> /\ fleet.kind = "k8s"
      /\ doing' = "destroyJob" /\ UNCHANGED <<todoGroups, refs, remaining, workload>>
  BY DEF DestroySecret, Removals
<1>2. DriversType /\ This \in GroupNames /\ fleet \in FleetSituations
  BY <1>1, AtHand DEF DriversInv, DriversType
<1>3. OnlyThis /\ (secret'[This] \notin {"there", "owned"} \/ This \in excused')
  <2>1. CASE NothingToRemove
    BY <1>1, <1>2, <2>1 DEF DestroySecret, NothingToRemove, OnlyThis, DriversType
  <2>2. CASE ~NothingToRemove
    <3>1. Quietly(SecretIs("gone"))
      BY <2>2 DEF DestroySecret
    <3> QED
      BY <1>1, <1>2, <3>1, SecretOfThis, OneLess DEF Quietly, OnlyThis, Secrets, DriversType
  <2> QED
    BY <2>1, <2>2
<1> QED
  BY <1>1, <1>3, RemovalGoesOn

\* The workload is removed and the secret it owns with it, or the group remains.
LEMMA DestroyWorkloadKeeps ==
    ASSUME DriversInv, DestroyWorkload
    PROVE  DriversInv'
<1>1. /\ doing \in {"destroy", "destroyJob"} /\ doing \in Removals /\ todoGroups # <<>>
      /\ (doing = "destroyJob" <=> fleet.kind = "k8s") /\ refs' = refs
  BY DEF DestroyWorkload, Removals
<1>2. /\ DriversType /\ This \in GroupNames /\ fleet \in FleetSituations
      /\ fleet.kind \in {"swarm", "k8s", "fake"}
  BY <1>1, AtHand DEF DriversInv, DriversType, FleetSituations
<1>3. CASE /\ Done(GoesAway)
           /\ IF fleet.kind = "swarm"
                THEN doing' = "destroySecrets" /\ UNCHANGED <<todoGroups, remaining>>
                ELSE doing' = "destroy" /\ Drops
  <2>1. OnlyThis /\ workload'[This] = "gone" /\ UNCHANGED <<fleet, excused>>
        /\ secret'[This] = IF secret[This] = "owned" THEN "gone" ELSE secret[This]
    BY <1>2, <1>3, GoesAwayThis DEF Done, OnlyThis, DriversType
  <2>2. CASE fleet.kind = "swarm"
    BY <1>1, <1>3, <2>1, <2>2, RemovalGoesOn
  <2>3. CASE fleet.kind # "swarm"
    <3>1. doing' = "destroy" /\ todoGroups' = Tail(todoGroups) /\ remaining' = remaining
      BY <1>3, <2>3 DEF Drops, NextGroup
    <3>2. secret[This] \notin {"there", "owned"} \/ This \in excused
      <4>1. CASE fleet.kind = "k8s"
        BY <1>1, <4>1 DEF DriversInv, RemovalOK, Removals
      <4>2. CASE fleet.kind = "fake"
        BY <1>1, <1>2, <4>2 DEF DriversInv, KindOK
      <4> QED
        BY <1>2, <2>3, <4>1, <4>2
    <3>3. WillNotCount
      BY <2>1, <3>2 DEF WillNotCount
    <3>4. fleet.kind = "fake" => secret' = secret
      <4> SUFFICES ASSUME fleet.kind = "fake" PROVE secret' = secret
        OBVIOUS
      <4>1. secret[This] = "none"
        BY <1>1, <1>2 DEF DriversInv, KindOK
      <4> QED
        BY <1>3, <4>1 DEF Done, GoesAway, Collect
    <3> QED
      BY <1>1, <2>1, <3>1, <3>3, <3>4, RemovalIsDone
  <2> QED
    BY <2>2, <2>3
<1>4. CASE fleet.kind # "fake" /\ Raises(GoesAway) /\ doing' = "destroy" /\ Remains
  <2>1. OnlyThis
    <3>1. GoesAway \in BOOLEAN
      BY DEF GoesAway, WorkloadIs
    <3> QED
      BY <1>2, <1>4, <3>1, GoesAwayThis, CallOnThis
  <2> QED
    BY <1>1, <1>4, <2>1, RemovalIsDone DEF Remains, NextGroup
<1> QED
  BY <1>3, <1>4 DEF DestroyWorkload

\* Swarm removes the secrets of a service that is gone.
LEMMA DestroySwarmSecretKeeps ==
    ASSUME DriversInv, DestroySwarmSecret
    PROVE  DriversInv'
<1>1. /\ doing = "destroySecrets" /\ doing \in Removals /\ doing' = "destroy" /\ refs' = refs
      /\ workload' = workload /\ todoGroups' = Tail(todoGroups) /\ remaining' = remaining
      /\ Quietly(SecretIs("gone"))
  BY DEF DestroySwarmSecret, Drops, NextGroup, Removals
<1>2. todoGroups # <<>> /\ workload[This] = "gone" /\ fleet.kind # "fake"
  BY <1>1 DEF DriversInv, RemovalOK, KindOK, Removals
<1>3. DriversType /\ This \in GroupNames /\ fleet \in FleetSituations
  BY <1>1, <1>2, AtHand DEF DriversInv, DriversType
<1>4. OnlyThis
  BY <1>1, <1>3, SecretOfThis, OneLess DEF Quietly, OnlyThis, Secrets, DriversType
<1>5. workload'[This] = "gone" /\ (secret'[This] = "gone" \/ This \in excused')
  BY <1>1, <1>2, <1>3, SecretOfThis DEF Quietly, Secrets
<1> QED
  BY <1>1, <1>2, <1>4, <1>5, RemovalIsDone DEF WillNotCount

\* What could not be removed stays on record.
LEMMA ClearDriverRefsKeeps ==
    ASSUME DriversInv, ClearDriverRefs
    PROVE  DriversInv'
<1>1. /\ doing = "destroy" /\ todoGroups = <<>> /\ refs' = remaining /\ doing' = "over"
      /\ UNCHANGED <<fleet, todoGroups, remaining, workload, secret, excused>>
  BY DEF ClearDriverRefs, backend
<1>2. DriversType'
  BY <1>1 DEF DriversInv, DriversType, Doings
<1>3. \A g \in GroupNames : Counts(g) => g \in ToSet(remaining)
  BY <1>1, EmptyList DEF DriversInv, RemovalOK, Removals
<1>4. ToSet(refs)' = ToSet(remaining)
  BY <1>1 DEF ToSet
<1>5. NothingIsForgotten'
  BY <1>1, <1>3, <1>4 DEF NothingIsForgotten, Counts, Exists
<1>6. LaunchOK' /\ RecordedOK' /\ RemovalOK' /\ KindOK'
  BY <1>1 DEF DriversInv, LaunchOK, RecordedOK, RemovalOK, KindOK, Launches, Removals
<1> QED
  BY <1>2, <1>5, <1>6 DEF DriversInv

\* A fleet begins with nothing at the backend, and no engine twice.
LEMMA ChooseFleetKeeps ==
    ASSUME DriversInv, NEW f \in FleetLaunches, ChooseFleet(f)
    PROVE  DriversInv'
<1>1. /\ doing = "idle" /\ fleet' = f /\ todoGroups' = f.groups /\ doing' = "create"
      /\ UNCHANGED <<refs, remaining, workload, secret, excused>>
  BY DEF ChooseFleet, backend
<1>2. f \in FleetSituations /\ f.groups \in Seq(GroupNames) /\ f.groups # <<>>
      /\ Distinct(f.groups)
  BY DriversAssumption DEF FleetSituations, Distinct
<1>3. DriversType'
  BY <1>1, <1>2 DEF DriversInv, DriversType, Doings
<1>4. \A g \in GroupNames : Untouched(g)' /\ ~Exists(g)
  BY <1>1 DEF DriversInv, KindOK, Untouched, Exists
<1>5. \A g \in GroupNames : ~Counts(g)'
  BY <1>1, <1>4 DEF Counts, Exists
<1>6. ToSet(f.groups) \subseteq GroupNames /\ Head(f.groups) \in GroupNames
      /\ ToSet(todoGroups)' = ToSet(f.groups) /\ Distinct(todoGroups)' = Distinct(f.groups)
      /\ This' = Head(f.groups)
  <2>1. \A x \in ToSet(f.groups) : x \in GroupNames
    BY <1>2, Listed
  <2> QED
    BY <1>1, <1>2, <2>1, HeadAndTail DEF ToSet, Distinct, This
<1>7. LaunchOK'
  <2>1. \A g \in ToSet(todoGroups)' : Untouched(g)'
    BY <1>4, <1>6
  <2>2. Untouched(This)'
    BY <1>4, <1>6 DEF Untouched
  <2> QED
    BY <1>1, <1>2, <1>5, <1>6, <2>1, <2>2 DEF LaunchOK
<1>8. RecordedOK' /\ RemovalOK' /\ NothingIsForgotten' /\ KindOK'
  BY <1>1 DEF DriversInv, RecordedOK, RemovalOK, NothingIsForgotten, KindOK, Removals
<1> QED
  BY <1>3, <1>7, <1>8 DEF DriversInv

\* The supervisor begins with no fleet, and nothing at the backend.
LEMMA DriversBegin == DriversInit => DriversInv
BY EmptyList DEF DriversInit, DriversInv, DriversType, LaunchOK, RecordedOK, RemovalOK, KindOK,
   NothingIsForgotten, Doings, Workloads, Secrets, Launches, Removals

\* Every step of the supervisor and of a driver keeps the invariant.
LEMMA DriversKeep ==
    ASSUME DriversInv, [DriversNext]_driverVars
    PROVE  DriversInv'
<1>1. CASE UNCHANGED driverVars
  <2>1. /\ This' = This /\ ToSet(todoGroups)' = ToSet(todoGroups) /\ ToSet(refs)' = ToSet(refs)
        /\ ToSet(remaining)' = ToSet(remaining) /\ Distinct(todoGroups)' = Distinct(todoGroups)
    BY <1>1 DEF driverVars, This, ToSet, Distinct
  <2>2. DriversType'
    BY <1>1 DEF driverVars, DriversInv, DriversType
  <2>3. LaunchOK' /\ RecordedOK'
    BY <1>1, <2>1 DEF driverVars, DriversInv, LaunchOK, RecordedOK, Counts, Exists, Untouched
  <2>4. RemovalOK' /\ KindOK' /\ NothingIsForgotten'
    BY <1>1, <2>1 DEF driverVars, DriversInv, RemovalOK, KindOK, NothingIsForgotten, Counts, Exists
  <2> QED
    BY <2>2, <2>3, <2>4 DEF DriversInv
<1> QED
  BY <1>1, ChooseFleetKeeps, CreateSecretKeeps, CreateWorkloadKeeps, UndoSecretKeeps,
     AdoptSecretKeeps, RecordRefKeeps, DrainBeginsKeeps, StopGroupKeeps, FleetEndsKeeps,
     DestroySecretKeeps, DestroyWorkloadKeeps, DestroySwarmSecretKeeps, ClearDriverRefsKeeps
     DEF DriversNext

\* For any fleet of distinct groups, any number of refusals and of lost answers: once the run
\* is over, a group of which something is left at the backend is on the row, unless an answer
\* about it was lost or the removal of its secret refused (fleet.py _destroy_quietly).
THEOREM NothingIsForgottenHolds == DriversSpec => []NothingIsForgotten
<1>1. DriversInv => NothingIsForgotten
  BY DEF DriversInv
<1> QED
  BY <1>1, DriversBegin, DriversKeep, PTL DEF DriversSpec

-----------------------------------------------------------------------------
(* Publisher: a row the boot pull found is on its way into every document. *)

Pushers == {"publisher", "push"}
KeptRows ==
    {f \in UNION {[D -> Versions \cup Uids \cup {Missing404}] : D \in SUBSET Names} :
        \A k \in DOMAIN f : f[k] \in {Missing404} \cup IF k \in Labels THEN Uids ELSE Versions}
Places == {"idle", "get", "apply", "runs", "mark", "commit", "archive", "document", "keep",
           "again", "keepAgain", "put", "note"}
ThreadStates == [at : Places, doc : Documents \cup {Missing404}, kept : {<<>>} \cup KeptRows,
                 marks : SUBSET Uids, todo : SUBSET Uids]

PublisherType ==
    /\ source \in Situations \cup {Missing404} /\ serving \in BOOLEAN
    /\ source = Missing404 => ~serving /\ thread["pull"].at = "idle"
    /\ config \in Documents /\ carried \in Documents
    /\ copy \in Documents \cup {Missing404} /\ archive \in SUBSET Uids
    /\ history \in [Uids -> {"none", "ended", "settled"}]
    /\ thread \in [Threads -> ThreadStates]
    /\ promised \in SUBSET Names

\* The pull holds the database from its first row to its commit, and is over unless the
\* instance boots or its button was pressed; the others begin when it serves.
ThreadsOK ==
    /\ thread["pull"].at \in {"idle", "get", "apply", "runs", "mark", "commit"}
    /\ thread["pull"].at \in {"runs", "mark", "commit"} => writer = "pull"
    /\ serving /\ "pull" \notin pressed => thread["pull"].at = "idle"
    /\ \A t \in Pushers : /\ thread[t].at \notin {"get", "apply", "runs", "mark"}
                          /\ thread[t].at # "idle" => serving
                          /\ thread[t].at \in {"keep", "keepAgain", "put"} =>
                                thread[t].doc \in Documents /\ thread[t].kept \in KeptRows

\* A baseline points at a run that is here.
ConfigOK == \A l \in Labels : config[l] # Missing404 => Has(config[l])

\* Before anything is served there is only the copy as it was pulled.
BootOK ==
    ~serving => /\ thread["pull"].at \in {"apply", "runs", "mark", "commit"} =>
                      thread["pull"].doc = copy
                /\ thread["pull"].at # "commit" => promised = {}

\* The copy has the row, and so has every document that may replace it.
InCopy(k) ==
    /\ k \in NamedRows(copy)
    /\ \A t \in Pushers : thread[t].at \in {"keep", "keepAgain", "put"} =>
                              k \in NamedRows(thread[t].doc)

\* A row the boot found and the instance does not have is carried, and in the copy, in what
\* a pull has read of it and in what is kept; without a pull by the button it is in the copy.
RowOK(k) ==
    /\ ~HasIt(k) => /\ carried[k] # Missing404 /\ InCopy(k)
                    /\ thread["pull"].at \in {"apply", "runs", "mark"} =>
                          k \in NamedRows(thread["pull"].doc)
                    /\ \A t \in Pushers : thread[t].at \in {"keep", "keepAgain"} =>
                          (k \in DOMAIN thread[t].kept => thread[t].kept[k] # Missing404)
    /\ "pull" \notin pressed => InCopy(k)

PublisherInv ==
    /\ PublisherType /\ ThreadsOK /\ ConfigOK /\ BootOK
    /\ \A k \in promised : RowOK(k)

\* A thread at rest, and one that goes on to another place.
LEMMA RestingThread ==
    AtRest \in ThreadStates /\ AtRest.at = "idle"
BY DEF AtRest, ThreadStates, Places

\* A thread that goes on to another place keeps what it holds, and the others are as they were.
LEMMA ThreadGoes ==
    ASSUME PublisherType, NEW t \in Threads, NEW at \in Places, Goes(t, at)
    PROVE  /\ thread' \in [Threads -> ThreadStates] /\ thread'[t].at = at
           /\ thread'[t].doc = thread[t].doc /\ thread'[t].kept = thread[t].kept
           /\ thread'[t].marks = thread[t].marks
           /\ \A u \in Threads \ {t} : thread'[u] = thread[u]
<1>1. \A r \in ThreadStates : LET q == [r EXCEPT !.at = at] IN
         q \in ThreadStates /\ q.at = at /\ q.doc = r.doc /\ q.kept = r.kept /\ q.marks = r.marks
  BY DEF ThreadStates
<1>2. thread[t] \in ThreadStates /\ thread' = [thread EXCEPT ![t] = [thread[t] EXCEPT !.at = at]]
  BY DEF PublisherType, Goes
<1> QED
  BY <1>1, <1>2 DEF PublisherType

\* A thread that stops is idle, and does not let go of the pull's lock.
LEMMA ThreadStops ==
    ASSUME PublisherType, NEW t \in Threads, Stops(t)
    PROVE  /\ thread' \in [Threads -> ThreadStates] /\ thread'[t].at = "idle"
           /\ \A u \in Threads \ {t} : thread'[u] = thread[u]
           /\ t # "pull" /\ writer = "pull" => writer' = "pull"
BY RestingThread DEF PublisherType, Stops

\* A step that leaves the configuration, the runs and the pull alone lands no row and loses none.
LEMMA HasItStays ==
    ASSUME UNCHANGED <<config, history>>, thread'["pull"] = thread["pull"], NEW k \in Names
    PROVE  HasIt(k)' = HasIt(k)
<1>1. Pulled' = Pulled
  BY DEF Pulled, Rows, Lands, Has
<1> QED
  BY <1>1 DEF HasIt

\* A document in the making is one that was in the making before.
SamePushers ==
    \A t \in Pushers :
        /\ thread'[t].at \in {"keep", "keepAgain", "put"} =>
              thread[t].at \in {"keep", "keepAgain", "put"} /\ thread'[t].doc = thread[t].doc
              /\ thread'[t].kept = thread[t].kept
        /\ thread'[t].at \in {"keep", "keepAgain"} => thread[t].at \in {"keep", "keepAgain"}
SamePull ==
    thread'["pull"].at \in {"apply", "runs", "mark"} =>
        thread["pull"].at \in {"apply", "runs", "mark"}
        /\ thread'["pull"].doc = thread["pull"].doc

\* A row stays what it was when a step adds no document.
LEMMA RowStays ==
    ASSUME NEW k \in Names, RowOK(k), UNCHANGED <<copy, carried>>, pressed \subseteq pressed',
           HasIt(k) => HasIt(k)', SamePushers, SamePull
    PROVE  RowOK(k)'
<1>1. InCopy(k) => InCopy(k)'
  BY DEF InCopy, SamePushers, NamedRows, Rows
<1>2. \A t \in Pushers : thread'[t].at \in {"keep", "keepAgain"} => thread'[t].kept = thread[t].kept
  BY DEF SamePushers
<1> QED
  BY <1>1, <1>2 DEF RowOK, SamePushers, SamePull, NamedRows, Rows

\* A fault used up, an edit made: the situation is still one.
LEMMA SituationStays ==
    ASSUME source \in Situations
    PROVE  /\ source.faults > 0 => [source EXCEPT !.faults = @ - 1] \in Situations
           /\ source.edits > 0 => [source EXCEPT !.edits = @ - 1] \in Situations
           /\ source.rebuilds > 0 => [source EXCEPT !.rebuilds = @ - 1] \in Situations
           /\ \A u : [source EXCEPT !.ours = @ \ {u}] \in Situations
<1>1. \A r \in Situations : r.faults > 0 => [r EXCEPT !.faults = @ - 1] \in Situations
  BY DEF Situations
<1>2. \A r \in Situations : r.edits > 0 => [r EXCEPT !.edits = @ - 1] \in Situations
  BY DEF Situations
<1>3. \A r \in Situations : r.rebuilds > 0 => [r EXCEPT !.rebuilds = @ - 1] \in Situations
  BY DEF Situations
<1>4. \A r \in Situations : \A u : [r EXCEPT !.ours = @ \ {u}] \in Situations
  BY DEF Situations
<1> QED
  BY <1>1, <1>2, <1>3, <1>4

\* What a put that raised may have left is what was there, or what was put.
LEMMA LeavesOneOfTwo ==
    ASSUME source \in Situations, NEW old, NEW new, NEW x \in MayLeave(old, new)
    PROVE  x \in {old, new}
BY DEF MayLeave

\* A situation is never nothing.
LEMMA SituationIsOne == Missing404 \notin Situations
BY PublisherAssumption

\* A pusher that makes no document, and is serving, keeps the invariant.
LEMMA PusherMoves ==
    ASSUME PublisherInv, NEW t \in Pushers, serving, source' \in Situations,
           UNCHANGED <<serving, config, history, carried, promised, copy>>,
           archive' \in SUBSET Uids,
           thread' \in [Threads -> ThreadStates],
           thread'[t].at \in {"idle", "archive", "document", "again", "commit", "note"},
           \A u \in Threads \ {t} : thread'[u] = thread[u],
           pressed \subseteq pressed', "pull" \in pressed' => "pull" \in pressed,
           writer = "pull" => writer' = "pull"
    PROVE  PublisherInv'
<1>1. thread'["pull"] = thread["pull"] /\ "pull" \in Threads /\ Pushers \subseteq Threads
      /\ \A u \in Pushers : u = t \/ thread'[u] = thread[u]
  BY DEF Pushers, Threads
<1>2. PublisherType'
  BY SituationIsOne DEF PublisherInv, PublisherType
<1>3. ThreadsOK'
  BY <1>1 DEF PublisherInv, ThreadsOK
<1>4. ConfigOK' /\ BootOK'
  BY DEF PublisherInv, ConfigOK, BootOK, Has
<1>5. SamePushers /\ SamePull
  BY <1>1 DEF SamePushers, SamePull
<1>6. \A k \in promised : RowOK(k)'
  BY <1>1, <1>5, RowStays, HasItStays DEF PublisherInv, PublisherType
<1> QED
  BY <1>2, <1>3, <1>4, <1>6 DEF PublisherInv

\* The steps of a push that read and write neither the rows nor the copy: it starts, archives
\* a run, flushes its marks, notes what it put, and commits.
LEMMA StartPushKeeps ==
    ASSUME PublisherInv, source # Missing404, NEW t \in Pushers, StartPush(t),
           pressed \subseteq pressed', "pull" \in pressed' => "pull" \in pressed
    PROVE  PublisherInv'
<1> DEFINE ripe == {u \in Uids : history[u] \in Ripe(t) /\ u \notin archivedAt}
           begun == [AtRest EXCEPT !.at = "archive", !.todo = ripe]
<1>1. begun \in ThreadStates /\ begun.at = "archive"
  BY DEF AtRest, ThreadStates, Places
<1>2. t \in Threads
  BY DEF Pushers, Threads
<1>3. /\ serving /\ thread' = [thread EXCEPT ![t] = begun]
      /\ UNCHANGED <<source, serving, config, history, carried, promised, copy, archive, writer>>
  BY DEF StartPush
<1> HIDE DEF begun
<1>4. /\ thread' \in [Threads -> ThreadStates] /\ thread'[t].at = "archive"
      /\ \A u \in Threads \ {t} : thread'[u] = thread[u]
  BY <1>1, <1>2, <1>3 DEF PublisherInv, PublisherType
<1> QED
  BY <1>3, <1>4, PusherMoves DEF PublisherInv, PublisherType

\* A push puts the archive of a run, or fails, and then may have put it.
LEMMA ArchiveRunKeeps ==
    ASSUME PublisherInv, source # Missing404, NEW t \in Pushers, NEW u \in Uids, ArchiveRun(t, u)
    PROVE  PublisherInv'
<1>1. /\ t \in Threads /\ serving /\ source \in Situations /\ archive \in SUBSET Uids
      /\ thread \in [Threads -> ThreadStates]
      /\ UNCHANGED <<serving, config, history, carried, promised, copy, pressed>>
  BY DEF Pushers, Threads, PublisherInv, ThreadsOK, PublisherType, ArchiveRun
<1>2. CASE /\ archive' = archive \cup {u}
           /\ thread' = [thread EXCEPT ![t].todo = @ \ {u}, ![t].marks = @ \cup {u}]
           /\ UNCHANGED <<source, writer>>
  <2>1. \A r \in ThreadStates : LET q == [r EXCEPT !.todo = @ \ {u}, !.marks = @ \cup {u}] IN
           q \in ThreadStates /\ q.at = r.at
    BY DEF ThreadStates
  <2>2. /\ thread' \in [Threads -> ThreadStates] /\ thread'[t].at = thread[t].at
        /\ \A v \in Threads \ {t} : thread'[v] = thread[v]
    BY <1>1, <1>2, <2>1
  <2>3. thread[t].at = "archive"
    BY DEF ArchiveRun
  <2> QED
    BY <1>1, <1>2, <2>2, <2>3, PusherMoves
<1>3. CASE Fails(t) /\ archive' \in MayLeave(archive, archive \cup {u})
  <2>1. source' \in Situations /\ Stops(t) /\ t # "pull"
    BY <1>1, <1>3, SituationStays DEF Fails, Pushers
  <2>2. archive' \in SUBSET Uids
    BY <1>1, <1>3, LeavesOneOfTwo
  <2> QED
    BY <1>1, <1>3, <2>1, <2>2, ThreadStops, PusherMoves DEF PublisherInv
<1> QED
  BY <1>2, <1>3 DEF ArchiveRun

\* A push flushes its marks: it goes on with the lock, or fails because a run is gone.
LEMMA FlushMarksKeeps ==
    ASSUME PublisherInv, source # Missing404, NEW t \in Pushers, FlushMarks(t)
    PROVE  PublisherInv'
<1>1. /\ t \in Threads /\ serving /\ source' \in Situations /\ archive' \in SUBSET Uids
      /\ t # "pull" /\ "document" \in Places
      /\ UNCHANGED <<serving, config, history, carried, promised, copy, pressed>>
  BY DEF Pushers, Threads, PublisherInv, ThreadsOK, PublisherType, FlushMarks, sharedState, Places
<1>2. (Goes(t, "document") /\ (writer' = writer \/ writer = Missing404)) \/ Stops(t)
  BY DEF FlushMarks
<1>3. writer = "pull" => writer # Missing404
  BY PublisherAssumption DEF Threads
<1>4. CASE Goes(t, "document") /\ (writer' = writer \/ writer = Missing404)
  BY <1>1, <1>3, <1>4, ThreadGoes, PusherMoves DEF PublisherInv
<1>5. CASE Stops(t)
  BY <1>1, <1>5, ThreadStops, PusherMoves DEF PublisherInv
<1> QED
  BY <1>2, <1>4, <1>5

\* A push notes the document it put as the one that is in the copy.
LEMMA NoteSyncedKeeps ==
    ASSUME PublisherInv, source # Missing404, NEW t \in Pushers, NoteSynced(t)
    PROVE  PublisherInv'
<1>1. /\ t \in Threads /\ serving /\ source' \in Situations /\ archive' \in SUBSET Uids
      /\ "commit" \in Places /\ Goes(t, "commit")
      /\ UNCHANGED <<serving, config, history, carried, promised, copy, pressed, writer>>
  BY DEF Pushers, Threads, PublisherInv, ThreadsOK, PublisherType, NoteSynced, sharedState, Places
<1> QED
  BY <1>1, ThreadGoes, PusherMoves DEF PublisherInv

\* A push commits its marks.
LEMMA CommitPushKeeps ==
    ASSUME PublisherInv, source # Missing404, NEW t \in Pushers, CommitPush(t)
    PROVE  PublisherInv'
<1>1. /\ t \in Threads /\ serving /\ source' \in Situations /\ archive' \in SUBSET Uids
      /\ t # "pull" /\ Stops(t)
      /\ UNCHANGED <<serving, config, history, carried, promised, copy, pressed>>
  BY DEF Pushers, Threads, PublisherInv, ThreadsOK, PublisherType, CommitPush
<1> QED
  BY <1>1, ThreadStops, PusherMoves DEF PublisherInv

\* What is exported is the configuration, since a baseline points at a run that is here; what
\* is carried is laid under it, and kept where the configuration has no row.
LEMMA DocumentIsBoth ==
    ASSUME PublisherType, ConfigOK
    PROVE  LET d == LaidOver(Exported, carried) IN
           /\ d \in Documents /\ ToKeep \in KeptRows
           /\ \A k \in Names : d[k] = IF config[k] # Missing404 THEN config[k] ELSE carried[k]
           /\ \A k \in DOMAIN ToKeep :
                 ToKeep[k] = IF config[k] # Missing404 THEN Missing404 ELSE carried[k]
<1> DEFINE D == UNION {S \in Sections : \E j \in S : carried[j] # Missing404}
<1>1. config \in Documents /\ carried \in Documents
  BY DEF PublisherType
<1>2. Exported \in Documents /\ \A k \in Names : Exported[k] = config[k]
  BY <1>1 DEF Exported, ConfigOK, Documents
<1>3. D \in SUBSET Names
  BY DEF Sections, Names
<1>4. ToKeep = [k \in D |-> IF Exported[k] # Missing404 THEN Missing404 ELSE carried[k]]
  BY DEF ToKeep
<1> HIDE DEF D
<1>5. ToKeep = [k \in D |-> IF config[k] # Missing404 THEN Missing404 ELSE carried[k]]
  BY <1>2, <1>3, <1>4
<1>6. \A k \in D : carried[k] \in {Missing404} \cup IF k \in Labels THEN Uids ELSE Versions
  BY <1>1, <1>3 DEF Documents
<1>7. ToKeep \in [D -> Versions \cup Uids \cup {Missing404}] /\ DOMAIN ToKeep = D
      /\ \A k \in D : ToKeep[k] = IF config[k] # Missing404 THEN Missing404 ELSE carried[k]
  BY <1>5, <1>6
<1>8. ToKeep \in KeptRows
  BY <1>3, <1>6, <1>7 DEF KeptRows
<1>9. LaidOver(Exported, carried) =
         [k \in Names |-> IF config[k] # Missing404 THEN config[k] ELSE carried[k]]
  BY <1>2 DEF LaidOver
<1>10. LaidOver(Exported, carried) \in Documents
  BY <1>1, <1>9 DEF Documents
<1> QED
  BY <1>7, <1>8, <1>9, <1>10

\* A push reads the document: what is promised is in it, in what it will carry, or pulled meanwhile.
LEMMA ReadDocumentKeeps ==
    ASSUME PublisherInv, source # Missing404, NEW t \in Pushers, ReadDocument(t)
    PROVE  PublisherInv'
<1> DEFINE d == LaidOver(Exported, carried)
           at == IF thread[t].at = "again" THEN "keepAgain" ELSE "keep"
           read == [thread[t] EXCEPT !.at = at, !.doc = d, !.kept = ToKeep]
<1>1. /\ t \in Threads /\ t # "pull" /\ serving
      /\ UNCHANGED <<source, serving, config, history, carried, promised, copy, archive, pressed, writer>>
      /\ thread' = [thread EXCEPT ![t] = read]
  BY DEF Pushers, Threads, PublisherInv, ThreadsOK, PublisherType, ReadDocument, sharedState
<1>2. /\ d \in Documents /\ ToKeep \in KeptRows
      /\ \A k \in Names : d[k] = IF config[k] # Missing404 THEN config[k] ELSE carried[k]
      /\ \A k \in DOMAIN ToKeep :
            ToKeep[k] = IF config[k] # Missing404 THEN Missing404 ELSE carried[k]
  BY DocumentIsBoth DEF PublisherInv
<1> HIDE DEF d
<1>3. read \in ThreadStates /\ read.at \in {"keep", "keepAgain"} /\ read.doc = d /\ read.kept = ToKeep
  <2>1. thread[t] \in ThreadStates /\ at \in Places /\ at \in {"keep", "keepAgain"}
    BY <1>1 DEF PublisherInv, PublisherType, Places
  <2> HIDE DEF at
  <2>2. LET q == [thread[t] EXCEPT !.at = at, !.doc = d, !.kept = ToKeep] IN
           q \in ThreadStates /\ q.at = at /\ q.doc = d /\ q.kept = ToKeep
    BY <1>2, <2>1 DEF ThreadStates
  <2> QED
    BY <2>1, <2>2
<1> HIDE DEF read
<1>4. /\ thread' \in [Threads -> ThreadStates] /\ thread'[t] = read
      /\ \A u \in Threads \ {t} : thread'[u] = thread[u]
  BY <1>1, <1>3 DEF PublisherInv, PublisherType
<1>5. thread'["pull"] = thread["pull"] /\ \A u \in Pushers : u = t \/ thread'[u] = thread[u]
  BY <1>1, <1>4 DEF Pushers, Threads
<1>6. PublisherType'
  BY <1>1, <1>4, <1>5 DEF PublisherInv, PublisherType
<1>7. ThreadsOK'
  BY <1>1, <1>2, <1>3, <1>4, <1>5 DEF PublisherInv, ThreadsOK
<1>8. ConfigOK' /\ BootOK'
  BY <1>1 DEF PublisherInv, ConfigOK, BootOK, Has
<1>9. ASSUME NEW k \in promised PROVE RowOK(k)'
  <2>1. RowOK(k) /\ k \in Names /\ HasIt(k)' = HasIt(k)
    BY <1>1, <1>5, HasItStays DEF PublisherInv, PublisherType
  <2>2. ~HasIt(k) => config[k] = Missing404 /\ carried[k] # Missing404
    BY <2>1 DEF HasIt, RowOK
  <2>3. "pull" \notin pressed /\ HasIt(k) => config[k] # Missing404
    BY <1>1 DEF PublisherInv, ThreadsOK, HasIt
  <2>4. ~HasIt(k) \/ "pull" \notin pressed => d[k] # Missing404
    BY <1>2, <2>1, <2>2, <2>3
  <2>5. d[k] # Missing404 /\ InCopy(k) => InCopy(k)'
    <3>1. NamedRows(copy)' = NamedRows(copy)
      BY <1>1 DEF NamedRows, Rows
    <3>2. d[k] # Missing404 => k \in NamedRows(d)
      BY <1>2, <2>1, PublisherAssumption DEF NamedRows, Rows
    <3> QED
      BY <1>3, <1>4, <1>5, <3>1, <3>2 DEF InCopy
  <2>6. ~HasIt(k) => \A u \in Pushers : thread'[u].at \in {"keep", "keepAgain"} =>
            (k \in DOMAIN thread'[u].kept => thread'[u].kept[k] # Missing404)
    BY <1>2, <1>3, <1>4, <1>5, <2>1, <2>2 DEF RowOK
  <2> QED
    BY <1>1, <1>5, <2>1, <2>2, <2>4, <2>5, <2>6 DEF RowOK
<1> QED
  BY <1>1, <1>6, <1>7, <1>8, <1>9 DEF PublisherInv

\* What is kept of the carried rows is what it was when it was read, less what is here by now.
LEMMA KeepCarriedKeeps ==
    ASSUME PublisherInv, source # Missing404, NEW t \in Pushers, KeepCarried(t)
    PROVE  PublisherInv'
<1> DEFINE kept == thread[t].kept
           at == IF t = "push" \/ thread[t].at = "keepAgain" THEN "put"
                 ELSE IF Changed(thread[t].doc) THEN "again" ELSE "commit"
<1>1. /\ t \in Threads /\ t # "pull" /\ serving /\ thread[t].at \in {"keep", "keepAgain"}
      /\ UNCHANGED <<source, serving, config, history, promised, copy, archive, pressed, writer>>
      /\ carried' = [k \in Names |-> IF k \in DOMAIN kept THEN kept[k] ELSE carried[k]]
      /\ Goes(t, at) /\ at \in Places /\ at \in {"put", "again", "commit"}
  BY DEF Pushers, Threads, PublisherInv, ThreadsOK, PublisherType, KeepCarried, sharedState, Places
<1>2. kept \in KeptRows /\ thread[t].doc \in Documents /\ carried \in Documents
  BY <1>1 DEF PublisherInv, ThreadsOK, PublisherType
<1> HIDE DEF kept, at
<1>3. /\ thread' \in [Threads -> ThreadStates] /\ thread'[t].at = at
      /\ thread'[t].doc = thread[t].doc /\ thread'[t].kept = thread[t].kept
      /\ \A u \in Threads \ {t} : thread'[u] = thread[u]
  BY <1>1, ThreadGoes DEF PublisherInv
<1>4. thread'["pull"] = thread["pull"] /\ \A u \in Pushers : u = t \/ thread'[u] = thread[u]
  BY <1>1, <1>3 DEF Pushers, Threads
<1>5. carried' \in Documents
  BY <1>1, <1>2 DEF Documents, KeptRows
<1>6. PublisherType'
  BY <1>1, <1>3, <1>4, <1>5 DEF PublisherInv, PublisherType
<1>7. ThreadsOK'
  BY <1>1, <1>2, <1>3, <1>4 DEF PublisherInv, ThreadsOK, kept
<1>8. ConfigOK' /\ BootOK'
  BY <1>1 DEF PublisherInv, ConfigOK, BootOK, Has
<1>9. ASSUME NEW k \in promised PROVE RowOK(k)'
  <2>1. RowOK(k) /\ k \in Names /\ HasIt(k)' = HasIt(k)
    BY <1>1, <1>4, HasItStays DEF PublisherInv, PublisherType
  <2>2. InCopy(k) => InCopy(k)'
    BY <1>1, <1>3, <1>4 DEF InCopy, NamedRows, Rows
  <2>3. ~HasIt(k) => carried'[k] # Missing404
    BY <1>1, <2>1 DEF RowOK, kept
  <2>4. ~HasIt(k) => \A u \in Pushers : thread'[u].at \in {"keep", "keepAgain"} =>
            (k \in DOMAIN thread'[u].kept => thread'[u].kept[k] # Missing404)
    BY <1>1, <1>3, <1>4, <2>1 DEF RowOK
  <2> QED
    BY <1>1, <1>4, <2>1, <2>2, <2>3, <2>4 DEF RowOK, NamedRows, Rows
<1> QED
  BY <1>1, <1>6, <1>7, <1>8, <1>9 DEF PublisherInv

\* The document read becomes the copy, also where the put raised: it has every row that must be there.
LEMMA PutDocumentKeeps ==
    ASSUME PublisherInv, source # Missing404, NEW t \in Pushers, PutDocument(t)
    PROVE  PublisherInv'
<1>1. /\ t \in Threads /\ t # "pull" /\ serving /\ thread[t].at = "put" /\ source \in Situations
      /\ UNCHANGED <<serving, config, history, promised, carried, archive, pressed>>
  BY DEF Pushers, Threads, PublisherInv, ThreadsOK, PublisherType, PutDocument
<1>2. ASSUME copy' = thread[t].doc, source' \in Situations, thread' \in [Threads -> ThreadStates],
             thread'[t].at \in {"note", "idle"}, \A u \in Threads \ {t} : thread'[u] = thread[u],
             writer = "pull" => writer' = "pull"
      PROVE  PublisherInv'
  <2>1. thread[t].doc \in Documents
    BY <1>1 DEF PublisherInv, ThreadsOK
  <2>2. thread'["pull"] = thread["pull"] /\ \A u \in Pushers : u = t \/ thread'[u] = thread[u]
    BY <1>1, <1>2 DEF Pushers, Threads
  <2>3. PublisherType'
    BY <1>1, <1>2, <2>1, <2>2, SituationIsOne DEF PublisherInv, PublisherType
  <2>4. ThreadsOK'
    BY <1>1, <1>2, <2>2 DEF PublisherInv, ThreadsOK
  <2>5. ConfigOK' /\ BootOK'
    BY <1>1 DEF PublisherInv, ConfigOK, BootOK, Has
  <2>6. ASSUME NEW k \in promised PROVE RowOK(k)'
    <3>1. RowOK(k) /\ k \in Names /\ HasIt(k)' = HasIt(k)
      BY <1>1, <2>2, HasItStays DEF PublisherInv, PublisherType
    <3>2. InCopy(k) => InCopy(k)'
      <4>1. NamedRows(copy)' = NamedRows(thread[t].doc)
        BY <1>2 DEF NamedRows, Rows
      <4> QED
        BY <1>1, <1>2, <2>2, <4>1 DEF InCopy
    <3>3. \A u \in Pushers : thread'[u].at \in {"keep", "keepAgain"} => thread'[u] = thread[u]
      BY <1>2, <2>2
    <3> QED
      BY <1>1, <2>2, <3>1, <3>2, <3>3 DEF RowOK, NamedRows, Rows
  <2> QED
    BY <1>1, <2>3, <2>4, <2>5, <2>6 DEF PublisherInv
<1>3. CASE copy' = thread[t].doc /\ Goes(t, "note") /\ UNCHANGED <<source, writer>>
  <2>1. "note" \in Places
    BY DEF Places
  <2> QED
    BY <1>1, <1>2, <1>3, <2>1, ThreadGoes DEF PublisherInv
<1>4. CASE Fails(t) /\ copy' \in MayLeave(copy, thread[t].doc)
  <2>1. source' \in Situations /\ Stops(t) /\ copy' \in {copy, thread[t].doc}
    BY <1>1, <1>4, SituationStays, LeavesOneOfTwo DEF Fails
  <2>2. /\ thread' \in [Threads -> ThreadStates] /\ thread'[t].at = "idle"
        /\ \A u \in Threads \ {t} : thread'[u] = thread[u]
        /\ writer = "pull" => writer' = "pull"
    BY <1>1, <2>1, ThreadStops DEF PublisherInv
  <2>3. CASE copy' = thread[t].doc
    BY <1>2, <2>1, <2>2, <2>3
  <2>4. CASE copy' = copy
    BY <1>1, <2>1, <2>2, <2>4, PusherMoves DEF PublisherInv, PublisherType
  <2> QED
    BY <2>1, <2>3, <2>4
<1> QED
  BY <1>3, <1>4 DEF PutDocument

\* A pull that has not come to its marks: what it reads of the copy is the copy.
LEMMA PullMoves ==
    ASSUME PublisherInv, source' \in Situations, serving' \in BOOLEAN, serving => serving',
           UNCHANGED <<config, history, carried, promised, copy, archive, pressed>>,
           thread' \in [Threads -> ThreadStates],
           \A u \in Threads \ {"pull"} : thread'[u] = thread[u],
           thread["pull"].at \in {"get", "apply", "runs"},
           thread'["pull"].at \in {"idle", "apply", "runs", "mark"},
           thread'["pull"].at # "idle" =>
              /\ serving' = serving
              /\ \/ thread["pull"].at # "get" /\ thread'["pull"].doc = thread["pull"].doc
                 \/ thread'["pull"].doc = copy,
           thread'["pull"].at \in {"runs", "mark"} => writer' = "pull"
    PROVE  PublisherInv'
<1>1. "pull" \in Threads /\ Pushers \subseteq Threads \ {"pull"}
      /\ \A u \in Pushers : thread'[u] = thread[u]
  BY DEF Pushers, Threads
<1>2. PublisherType'
  BY SituationIsOne DEF PublisherInv, PublisherType
<1>3. ThreadsOK'
  BY <1>1 DEF PublisherInv, ThreadsOK
<1>4. ConfigOK' /\ BootOK'
  BY DEF PublisherInv, ConfigOK, BootOK, Has
<1>5. ASSUME NEW k \in promised PROVE RowOK(k)'
  <2>1. RowOK(k) /\ (HasIt(k) <=> config[k] # Missing404) /\ (HasIt(k)' <=> config[k] # Missing404)
    BY DEF PublisherInv, HasIt
  <2>2. InCopy(k)' <=> InCopy(k)
    BY <1>1 DEF InCopy, NamedRows, Rows
  <2>3. ~HasIt(k) /\ thread'["pull"].at \in {"apply", "runs", "mark"} =>
           k \in NamedRows(thread'["pull"].doc)
    BY <2>1 DEF RowOK, InCopy
  <2> QED
    BY <1>1, <2>1, <2>2, <2>3 DEF RowOK, NamedRows, Rows
<1> QED
  BY <1>2, <1>3, <1>4, <1>5 DEF PublisherInv

\* The pull reads the copy, takes the database, and imports the runs.
LEMMA PullGetKeeps ==
    ASSUME PublisherInv, source # Missing404, PullGet
    PROVE  PublisherInv'
<1>1. /\ thread["pull"].at = "get" /\ source \in Situations /\ "pull" \in Threads
      /\ copy \in Documents \cup {Missing404} /\ thread \in [Threads -> ThreadStates]
      /\ serving \in BOOLEAN
      /\ UNCHANGED <<config, history, carried, promised, copy, archive>>
  BY DEF PullGet, PublisherInv, PublisherType, Threads
<1>2. CASE /\ thread' = [thread EXCEPT !["pull"] = [AtRest EXCEPT !.at = "apply", !.doc = copy]]
           /\ UNCHANGED <<source, writer, serving, pressed>>
  <2> DEFINE got == [AtRest EXCEPT !.at = "apply", !.doc = copy]
  <2>1. got \in ThreadStates /\ got.at = "apply" /\ got.doc = copy
    BY <1>1 DEF AtRest, ThreadStates, Places
  <2> HIDE DEF got
  <2>2. thread' = [thread EXCEPT !["pull"] = got]
    BY <1>2 DEF got
  <2>3. /\ thread' \in [Threads -> ThreadStates] /\ thread'["pull"] = got
        /\ \A u \in Threads \ {"pull"} : thread'[u] = thread[u]
    BY <1>1, <2>1, <2>2
  <2> QED
    BY <1>1, <1>2, <2>1, <2>3, PullMoves
<1>3. CASE Fails("pull") /\ serving' = TRUE
  <2>1. source' \in Situations /\ Stops("pull") /\ pressed' = pressed
    BY <1>1, <1>3, SituationStays DEF Fails, PullGet
  <2>2. /\ thread' \in [Threads -> ThreadStates] /\ thread'["pull"].at = "idle"
        /\ \A u \in Threads \ {"pull"} : thread'[u] = thread[u]
    BY <1>1, <2>1, ThreadStops DEF PublisherInv
  <2> QED
    BY <1>1, <1>3, <2>1, <2>2, PullMoves
<1> QED
  BY <1>2, <1>3 DEF PullGet

\* The pull takes the write lock.
LEMMA PullApplyKeeps ==
    ASSUME PublisherInv, source # Missing404, PullApply
    PROVE  PublisherInv'
<1>1. /\ thread["pull"].at = "apply" /\ source' \in Situations /\ "pull" \in Threads
      /\ serving' \in BOOLEAN /\ serving' = serving /\ writer' = "pull"
      /\ "runs" \in Places /\ Goes("pull", "runs")
      /\ UNCHANGED <<config, history, carried, promised, copy, archive, pressed>>
  BY DEF PullApply, PublisherInv, PublisherType, Threads, sharedState, Places
<1>2. /\ thread' \in [Threads -> ThreadStates] /\ thread'["pull"].at = "runs"
      /\ thread'["pull"].doc = thread["pull"].doc
      /\ \A u \in Threads \ {"pull"} : thread'[u] = thread[u]
  BY <1>1, ThreadGoes DEF PublisherInv
<1> QED
  BY <1>1, <1>2, PullMoves

\* The pull imports the archived runs that are not here, or none.
LEMMA PullRunsKeeps ==
    ASSUME PublisherInv, source # Missing404, PullRuns
    PROVE  PublisherInv'
<1>1. /\ thread["pull"].at = "runs" /\ source \in Situations /\ "pull" \in Threads
      /\ thread \in [Threads -> ThreadStates] /\ archive \in SUBSET Uids
      /\ serving' \in BOOLEAN /\ serving' = serving /\ writer' = "pull" /\ "mark" \in Places
      /\ UNCHANGED <<config, history, carried, promised, copy, archive, pressed>>
  BY DEF PullRuns, PublisherInv, PublisherType, ThreadsOK, Threads, Places
<1>2. source' \in Situations
  BY <1>1, SituationStays DEF PullRuns
<1>3. /\ thread' \in [Threads -> ThreadStates] /\ thread'["pull"].at = "mark"
      /\ thread'["pull"].doc = thread["pull"].doc
      /\ \A u \in Threads \ {"pull"} : thread'[u] = thread[u]
  <2> DEFINE marks == {u \in archive : ~Has(u)}
  <2>1. CASE thread' = [thread EXCEPT !["pull"].at = "mark", !["pull"].marks = marks]
    <3>1. marks \in SUBSET Uids
      BY <1>1
    <3> HIDE DEF marks
    <3>2. \A r \in ThreadStates : LET q == [r EXCEPT !.at = "mark", !.marks = marks] IN
             q \in ThreadStates /\ q.at = "mark" /\ q.doc = r.doc
      BY <1>1, <3>1 DEF ThreadStates
    <3> QED
      BY <1>1, <2>1, <3>2
  <2>2. CASE Goes("pull", "mark")
    BY <1>1, <2>2, ThreadGoes DEF PublisherInv
  <2> QED
    BY <2>1, <2>2 DEF PullRuns
<1> QED
  BY <1>1, <1>2, <1>3, PullMoves

\* What a pull lands is a configuration, and each of its baselines points at a run that is
\* here or comes with it; a row the instance has stays.
LEMMA PulledIsOne ==
    ASSUME PublisherType, ConfigOK
    PROVE  /\ Pulled \in Documents
           /\ \A k \in Names : config[k] # Missing404 => Pulled[k] # Missing404
           /\ \A l \in Labels : Pulled[l] # Missing404 =>
                 Pulled[l] \in Uids /\ (Has(Pulled[l]) \/ Pulled[l] \in thread["pull"].marks)
<1> DEFINE doc == Rows(thread["pull"].doc)
<1>1. thread["pull"] \in ThreadStates /\ config \in Documents
  BY DEF PublisherType, Threads
<1>2. doc \in Documents
  BY <1>1 DEF ThreadStates, Rows, Blank, Documents
<1>3. Pulled = [k \in Names |-> IF Lands(k, doc[k]) THEN doc[k] ELSE config[k]]
  BY DEF Pulled
<1> HIDE DEF doc
<1>4. Pulled \in Documents
  BY <1>1, <1>2, <1>3 DEF Documents
<1>5. \A k \in Names : config[k] # Missing404 => Pulled[k] # Missing404
  BY <1>3 DEF Lands
<1>6. ASSUME NEW l \in Labels, Pulled[l] # Missing404
      PROVE  Pulled[l] \in Uids /\ (Has(Pulled[l]) \/ Pulled[l] \in thread["pull"].marks)
  <2>1. l \in Names
    BY DEF Names
  <2>2. Pulled[l] \in Uids
    BY <1>4, <1>6, <2>1 DEF Documents
  <2>3. CASE Lands(l, doc[l])
    BY <1>3, <2>1, <2>2, <2>3 DEF Lands
  <2>4. CASE ~Lands(l, doc[l])
    BY <1>3, <1>6, <2>1, <2>2, <2>4 DEF ConfigOK
  <2> QED
    BY <2>3, <2>4
<1> QED
  BY <1>4, <1>5, <1>6

\* The marks of a pull: a row it leaves over is carried from here on.
LEMMA PullMarkKeeps ==
    ASSUME PublisherInv, source # Missing404, PullMark
    PROVE  PublisherInv'
<1> DEFINE doc == thread["pull"].doc
<1>1. /\ thread["pull"].at = "mark" /\ source' \in Situations /\ "pull" \in Threads /\ writer = "pull"
      /\ serving \in BOOLEAN /\ Goes("pull", "commit") /\ "commit" \in Places
      /\ carried' = LeftOverRows(doc, Pulled)
      /\ promised' = IF serving THEN promised ELSE NamedRows(doc)
      /\ UNCHANGED <<serving, config, history, copy, archive, pressed, writer>>
  BY DEF PullMark, PublisherInv, PublisherType, ThreadsOK, Threads, sharedState, Places
<1>2. /\ thread' \in [Threads -> ThreadStates] /\ thread'["pull"].at = "commit"
      /\ thread'["pull"].doc = doc /\ thread'["pull"].marks = thread["pull"].marks
      /\ \A u \in Threads \ {"pull"} : thread'[u] = thread[u]
  BY <1>1, ThreadGoes DEF PublisherInv
<1>3. \A u \in Pushers : thread'[u] = thread[u]
  BY <1>2 DEF Pushers, Threads
<1>4. Rows(doc) \in Documents /\ NamedRows(doc) \in SUBSET Names
  BY <1>1 DEF PublisherInv, PublisherType, ThreadStates, Rows, Blank, Documents, NamedRows
<1>5. /\ Pulled' = Pulled
      /\ \A k \in Names : config[k] # Missing404 => Pulled[k] # Missing404
  <2>1. Pulled' = Pulled
    BY <1>1, <1>2 DEF Pulled, Rows, Lands, Has
  <2> QED
    BY <2>1, PulledIsOne DEF PublisherInv
<1> HIDE DEF doc
<1>6. carried' \in Documents
        /\ \A k \in Names : carried'[k] = IF Pulled[k] = Missing404 THEN Rows(doc)[k] ELSE Missing404
  BY <1>1, <1>4 DEF LeftOverRows, Documents
<1>7. PublisherType'
  BY <1>1, <1>2, <1>4, <1>6, SituationIsOne DEF PublisherInv, PublisherType
<1>8. ThreadsOK'
  BY <1>1, <1>2, <1>3 DEF PublisherInv, ThreadsOK
<1>9. ConfigOK' /\ BootOK'
  BY <1>1, <1>2 DEF PublisherInv, ConfigOK, BootOK, Has, doc
<1>10. ASSUME NEW k \in promised' PROVE RowOK(k)'
  <2>1. k \in Names /\ (HasIt(k)' <=> Pulled[k] # Missing404)
    BY <1>1, <1>2, <1>4, <1>5 DEF HasIt, PublisherInv, PublisherType
  <2>2. CASE serving
    <3>1. RowOK(k) /\ "pull" \in pressed /\ (HasIt(k) <=> config[k] # Missing404)
      BY <1>1, <2>2 DEF PublisherInv, ThreadsOK, HasIt
    <3>2. InCopy(k)' <=> InCopy(k)
      BY <1>1, <1>3 DEF InCopy, NamedRows, Rows
    <3>3. ~HasIt(k)' => k \in NamedRows(doc)
      BY <1>1, <1>5, <2>1, <3>1 DEF RowOK, doc
    <3>4. ~HasIt(k)' => carried'[k] # Missing404
      BY <1>6, <2>1, <3>3 DEF NamedRows
    <3> QED
      BY <1>1, <1>2, <1>3, <1>5, <2>1, <3>1, <3>2, <3>4 DEF RowOK
  <2>3. CASE ~serving
    <3>1. doc = copy /\ k \in NamedRows(doc) /\ \A u \in Pushers : thread'[u].at = "idle"
      BY <1>1, <1>3, <2>3 DEF PublisherInv, BootOK, ThreadsOK, doc
    <3>2. InCopy(k)'
      BY <1>1, <3>1 DEF InCopy, NamedRows, Rows
    <3>3. ~HasIt(k)' => carried'[k] # Missing404
      BY <1>6, <2>1, <3>1 DEF NamedRows
    <3> QED
      BY <1>2, <3>1, <3>2, <3>3 DEF RowOK
  <2> QED
    BY <2>2, <2>3
<1> QED
  BY <1>7, <1>8, <1>9, <1>10 DEF PublisherInv

\* The pull commits: what would land has landed.
LEMMA PullCommitKeeps ==
    ASSUME PublisherInv, source # Missing404, PullCommit
    PROVE  PublisherInv'
<1>1. /\ thread["pull"].at = "commit" /\ source' \in Situations /\ "pull" \in Threads
      /\ config' = Pulled /\ serving' = TRUE /\ Stops("pull")
      /\ history' = [u \in Uids |-> IF u \in thread["pull"].marks THEN "settled" ELSE history[u]]
      /\ UNCHANGED <<copy, archive, carried, promised, pressed>>
  BY DEF PullCommit, PublisherInv, PublisherType, Threads
<1>2. /\ thread' \in [Threads -> ThreadStates] /\ thread'["pull"].at = "idle"
      /\ \A u \in Threads \ {"pull"} : thread'[u] = thread[u]
  BY <1>1, ThreadStops DEF PublisherInv
<1>3. \A u \in Pushers : thread'[u] = thread[u]
  BY <1>2 DEF Pushers, Threads
<1>4. /\ Pulled \in Documents
      /\ \A k \in Names : config[k] # Missing404 => Pulled[k] # Missing404
      /\ \A l \in Labels : Pulled[l] # Missing404 =>
            Pulled[l] \in Uids /\ (Has(Pulled[l]) \/ Pulled[l] \in thread["pull"].marks)
  BY PulledIsOne DEF PublisherInv
<1>5. PublisherType'
  BY <1>1, <1>2, <1>4, SituationIsOne DEF PublisherInv, PublisherType
<1>6. ThreadsOK' /\ BootOK'
  BY <1>1, <1>2, <1>3 DEF PublisherInv, ThreadsOK, BootOK
<1>7. ConfigOK'
  BY <1>1, <1>4 DEF ConfigOK, Has
<1>8. \A k \in promised : RowOK(k)'
  <2>1. ASSUME NEW k \in promised PROVE RowOK(k)'
    <3>1. k \in Names /\ RowOK(k) /\ (HasIt(k)' <=> HasIt(k))
      BY <1>1, <1>2, <1>4 DEF PublisherInv, PublisherType, HasIt
    <3>2. SamePushers /\ SamePull
      BY <1>2, <1>3 DEF SamePushers, SamePull
    <3> QED
      BY <1>1, <3>1, <3>2, RowStays
  <2> QED
    BY <2>1
<1> QED
  BY <1>1, <1>5, <1>6, <1>7, <1>8 DEF PublisherInv

\* A step of the operator or of a run, that no pull is in the middle of, keeps the rows that
\* are still promised.
LEMMA RowsStayPut ==
    ASSUME PublisherInv, UNCHANGED <<copy, carried, thread, pressed>>, promised' \subseteq promised,
           thread["pull"].at # "commit",
           \A k \in promised' : config[k] # Missing404 => config'[k] # Missing404
    PROVE  \A k \in promised' : RowOK(k)'
<1>1. SamePushers /\ SamePull
  BY DEF SamePushers, SamePull
<1>2. ASSUME NEW k \in promised' PROVE RowOK(k)'
  <2>1. k \in Names /\ RowOK(k) /\ (HasIt(k) => HasIt(k)')
    BY DEF PublisherInv, PublisherType, HasIt
  <2> QED
    BY <1>1, <2>1, RowStays
<1> QED
  BY <1>2

\* Nobody writes while the pull does.
LEMMA PullHoldsTheDatabase ==
    ASSUME PublisherInv, writer = Missing404
    PROVE  thread["pull"].at \notin {"runs", "mark", "commit"}
BY PublisherAssumption DEF PublisherInv, ThreadsOK, Threads

\* An edit of the operator, who takes off the list what is removed.
LEMMA EditConfigKeeps ==
    ASSUME PublisherInv, source # Missing404, NEW k \in Names,
           NEW v \in Versions \cup Uids \cup {Missing404}, EditConfig(k, v)
    PROVE  PublisherInv'
<1>1. /\ serving /\ writer = Missing404 /\ source \in Situations /\ config \in Documents
      /\ source.edits > 0 /\ source' = [source EXCEPT !.edits = @ - 1]
      /\ config' = [config EXCEPT ![k] = v]
      /\ promised' = IF v = Missing404 THEN promised \ {k} ELSE promised
      /\ UNCHANGED <<serving, history, copy, archive, carried, writer, thread, pressed>>
      /\ IF k \in TargetNames THEN v \in Versions \cup {Missing404}
         ELSE v = Missing404 \/ (v \in Uids /\ Has(v))
  BY DEF EditConfig, Edit, PublisherInv, PublisherType
<1>2. source' \in Situations /\ thread["pull"].at # "commit"
  BY <1>1, SituationStays, PullHoldsTheDatabase
<1>3. k \in Labels <=> k \notin TargetNames
  BY PublisherAssumption DEF Names
<1>4. config' \in Documents /\ config'[k] = v /\ \A j \in Names \ {k} : config'[j] = config[j]
  BY <1>1, <1>3 DEF Documents
<1>5. PublisherType'
  BY <1>1, <1>2, <1>4, SituationIsOne DEF PublisherInv, PublisherType
<1>6. ThreadsOK' /\ BootOK'
  BY <1>1 DEF PublisherInv, ThreadsOK, BootOK
<1>7. ConfigOK'
  BY <1>1, <1>3, <1>4 DEF PublisherInv, ConfigOK, Has, Names
<1>8. \A j \in promised' : RowOK(j)'
  <2>1. \A j \in promised' : config[j] # Missing404 => config'[j] # Missing404
    BY <1>1, <1>4 DEF PublisherInv, PublisherType
  <2> QED
    BY <1>1, <1>2, <2>1, RowsStayPut
<1> QED
  BY <1>5, <1>6, <1>7, <1>8 DEF PublisherInv

\* A run is over, or settled; one is forgotten, and its baselines with it when that commits.
LEMMA RunIsOverKeeps ==
    ASSUME PublisherInv, source # Missing404, NEW u \in Uids, RunIsOver(u)
    PROVE  PublisherInv'
<1>1. /\ serving /\ writer = Missing404 /\ source' \in Situations
      /\ history' \in [Uids -> {"none", "ended", "settled"}]
      /\ \A w \in Uids : Has(w) => Has(w)'
      /\ UNCHANGED <<serving, config, copy, archive, carried, writer, thread, promised, pressed>>
  BY SituationStays DEF RunIsOver, Has, PublisherInv, PublisherType
<1>2. thread["pull"].at # "commit"
  BY <1>1, PullHoldsTheDatabase
<1>3. PublisherType'
  BY <1>1, SituationIsOne DEF PublisherInv, PublisherType
<1>4. ThreadsOK' /\ BootOK'
  BY <1>1 DEF PublisherInv, ThreadsOK, BootOK
<1>5. ConfigOK'
  <2>1. \A l \in Labels : config[l] # Missing404 => config[l] \in Uids
    BY DEF PublisherInv, PublisherType, Documents, Names
  <2> QED
    BY <1>1, <2>1 DEF PublisherInv, ConfigOK
<1>6. \A k \in promised' : RowOK(k)'
  BY <1>1, <1>2, RowsStayPut
<1> QED
  BY <1>3, <1>4, <1>5, <1>6 DEF PublisherInv

\* The delete of a run: its archive goes first.
LEMMA ForgetRunKeeps ==
    ASSUME PublisherInv, source # Missing404, NEW u \in Uids, ForgetRun(u)
    PROVE  PublisherInv'
<1>1. /\ writer = Missing404 /\ source' \in Situations /\ archive' \in SUBSET Uids
      /\ UNCHANGED <<serving, config, history, copy, carried, writer, thread, promised, pressed>>
  BY SituationStays DEF ForgetRun, Edit, PublisherInv, PublisherType
<1>2. thread["pull"].at # "commit"
  BY <1>1, PullHoldsTheDatabase
<1>3. PublisherType'
  BY <1>1, SituationIsOne DEF PublisherInv, PublisherType
<1>4. ThreadsOK' /\ BootOK' /\ ConfigOK'
  BY <1>1 DEF PublisherInv, ThreadsOK, BootOK, ConfigOK, Has
<1>5. \A k \in promised' : RowOK(k)'
  BY <1>1, <1>2, RowsStayPut
<1> QED
  BY <1>3, <1>4, <1>5 DEF PublisherInv

\* The delete of a run commits, and the baselines that name it go with it.
LEMMA DeleteCommitsKeeps ==
    ASSUME PublisherInv, source # Missing404, DeleteCommits
    PROVE  PublisherInv'
<1>1. /\ writer = Missing404 /\ config \in Documents
      /\ history' = [history EXCEPT ![deleting] = "none"]
      /\ config' = [k \in Names |->
            IF k \in Labels /\ config[k] = deleting THEN Missing404 ELSE config[k]]
      /\ promised' = promised \ {l \in Labels : config[l] = deleting}
      /\ UNCHANGED <<source, serving, copy, archive, carried, writer, thread, pressed>>
  BY DEF DeleteCommits, PublisherInv, PublisherType
<1>2. thread["pull"].at # "commit"
  BY <1>1, PullHoldsTheDatabase
<1>3. config' \in Documents
  BY <1>1 DEF Documents
<1>4. PublisherType'
  BY <1>1, <1>3 DEF PublisherInv, PublisherType
<1>5. ThreadsOK' /\ BootOK'
  BY <1>1 DEF PublisherInv, ThreadsOK, BootOK
<1>6. ConfigOK'
  <2>1. history \in [Uids -> {"none", "ended", "settled"}]
        /\ \A l \in Labels : config[l] # Missing404 => config[l] \in Uids
    BY DEF PublisherInv, PublisherType, Documents, Names
  <2> QED
    BY <1>1, <2>1 DEF PublisherInv, ConfigOK, Has, Names
<1>7. \A k \in promised' : RowOK(k)'
  <2>1. \A k \in promised' : config[k] # Missing404 => config'[k] # Missing404
    BY <1>1 DEF PublisherInv, PublisherType
  <2> QED
    BY <1>1, <1>2, <2>1, RowsStayPut
<1> QED
  BY <1>4, <1>5, <1>6, <1>7 DEF PublisherInv

\* The button starts a pull.
LEMMA PressPullKeeps ==
    ASSUME PublisherInv, source # Missing404, PressPull
    PROVE  PublisherInv'
<1>1. /\ serving /\ pressed' = pressed \cup {"pull"} /\ thread["pull"].at = "idle"
      /\ "pull" \in Threads /\ "get" \in Places /\ Goes("pull", "get")
      /\ UNCHANGED <<source, serving, config, history, copy, archive, carried, writer, promised>>
  BY DEF PressPull, Threads, Places
<1>2. /\ thread' \in [Threads -> ThreadStates] /\ thread'["pull"].at = "get"
      /\ \A u \in Threads \ {"pull"} : thread'[u] = thread[u]
  BY <1>1, ThreadGoes DEF PublisherInv
<1>3. \A u \in Pushers : thread'[u] = thread[u]
  BY <1>2 DEF Pushers, Threads
<1>4. PublisherType'
  BY <1>1, <1>2 DEF PublisherInv, PublisherType
<1>5. ThreadsOK' /\ BootOK' /\ ConfigOK'
  BY <1>1, <1>2, <1>3 DEF PublisherInv, ThreadsOK, BootOK, ConfigOK, Has
<1>6. ASSUME NEW k \in promised PROVE RowOK(k)'
  <2>1. SamePushers /\ SamePull
    BY <1>2, <1>3 DEF SamePushers, SamePull
  <2>2. k \in Names /\ RowOK(k) /\ (HasIt(k) => HasIt(k)')
    BY <1>1 DEF PublisherInv, PublisherType, HasIt
  <2> QED
    BY <1>1, <2>1, <2>2, RowStays
<1> QED
  BY <1>1, <1>4, <1>5, <1>6 DEF PublisherInv

\* The instance boots again: nothing is promised until its pull has read the copy.
LEMMA BootAgainKeeps ==
    ASSUME PublisherInv, source # Missing404, NEW keeps \in BOOLEAN, BootAgain(keeps)
    PROVE  PublisherInv'
<1> DEFINE pulling == [AtRest EXCEPT !.at = "get"]
<1>1. pulling \in ThreadStates /\ pulling.at = "get"
  BY DEF AtRest, ThreadStates, Places
<1>2. /\ serving' = FALSE /\ carried' = Blank /\ promised' = {}
      /\ thread' = [t \in Threads |-> IF t = "pull" THEN pulling ELSE AtRest]
      /\ source' \in Situations /\ UNCHANGED <<copy, archive>>
      /\ \/ UNCHANGED <<config, history>>
         \/ config' = Blank /\ history' = [u \in Uids |-> "none"]
  BY SituationStays DEF BootAgain, PublisherInv, PublisherType
<1> HIDE DEF pulling
<1>3. Blank \in Documents /\ \A l \in Labels : Blank[l] = Missing404
  BY DEF Blank, Documents, Names
<1>4. /\ thread' \in [Threads -> ThreadStates] /\ thread'["pull"].at = "get"
      /\ \A t \in Pushers : thread'[t].at = "idle"
  BY <1>1, <1>2, RestingThread DEF Threads, Pushers
<1>5. PublisherType'
  BY <1>2, <1>3, <1>4, SituationIsOne DEF PublisherInv, PublisherType
<1>6. ThreadsOK' /\ BootOK'
  BY <1>2, <1>4 DEF ThreadsOK, BootOK
<1>7. ConfigOK'
  BY <1>2, <1>3 DEF PublisherInv, ConfigOK, Has
<1> QED
  BY <1>2, <1>5, <1>6, <1>7 DEF PublisherInv

\* The first boot.
LEMMA OpenSourceKeeps ==
    ASSUME PublisherInv, NEW s \in Sources, OpenSource(s)
    PROVE  PublisherInv'
<1>1. /\ source = Missing404 /\ source' = s /\ s \in Situations /\ copy' = s.copy
      /\ archive' = s.archive /\ "pull" \in Threads /\ "get" \in Places /\ Goes("pull", "get")
      /\ UNCHANGED <<serving, config, history, carried, writer, promised, pressed>>
  BY PublisherAssumption DEF OpenSource, Threads, Places
<1>2. s.copy \in Documents \cup {Missing404} /\ s.archive \in SUBSET Uids
  BY <1>1 DEF Situations
<1>3. ~serving /\ thread["pull"].at = "idle" /\ promised = {}
      /\ \A t \in Pushers : thread[t].at = "idle"
  BY <1>1 DEF PublisherInv, PublisherType, BootOK, ThreadsOK
<1>4. /\ thread' \in [Threads -> ThreadStates] /\ thread'["pull"].at = "get"
      /\ \A u \in Threads \ {"pull"} : thread'[u] = thread[u]
  BY <1>1, ThreadGoes DEF PublisherInv
<1>5. \A u \in Pushers : thread'[u] = thread[u]
  BY <1>4 DEF Pushers, Threads
<1>6. PublisherType'
  BY <1>1, <1>2, <1>4, SituationIsOne DEF PublisherInv, PublisherType
<1>7. ThreadsOK' /\ BootOK' /\ ConfigOK'
  BY <1>1, <1>3, <1>4, <1>5 DEF PublisherInv, ThreadsOK, BootOK, ConfigOK, Has
<1> QED
  BY <1>1, <1>3, <1>6, <1>7 DEF PublisherInv

\* The instance is not there yet.
LEMMA PublisherBegins == PublisherInit => PublisherInv
<1> SUFFICES ASSUME PublisherInit PROVE PublisherInv
  OBVIOUS
<1>1. Blank \in Documents /\ \A l \in Labels : Blank[l] = Missing404
  BY DEF Blank, Documents, Names
<1>2. /\ thread \in [Threads -> ThreadStates] /\ \A t \in Threads : thread[t].at = "idle"
      /\ "pull" \in Threads /\ Pushers \subseteq Threads
  BY RestingThread DEF PublisherInit, Threads, Pushers
<1>3. PublisherType
  BY <1>1, <1>2 DEF PublisherInit, PublisherType
<1>4. ThreadsOK /\ BootOK /\ ConfigOK
  BY <1>1, <1>2 DEF PublisherInit, ThreadsOK, BootOK, ConfigOK
<1> QED
  BY <1>3, <1>4 DEF PublisherInit, PublisherInv

\* Every step of the three threads, of the operator and of the instance keeps the invariant.
LEMMA PublisherKeeps ==
    ASSUME PublisherInv, [PublisherNext]_publisherVars
    PROVE  PublisherInv'
<1>1. CASE UNCHANGED publisherVars
  <2>1. PublisherType' /\ ThreadsOK' /\ ConfigOK' /\ BootOK'
    BY <1>1 DEF publisherVars, PublisherInv, PublisherType, ThreadsOK, ConfigOK, BootOK, Has
  <2>2. ASSUME NEW k \in promised PROVE RowOK(k)'
    <3>1. SamePushers /\ SamePull
      BY <1>1 DEF publisherVars, SamePushers, SamePull
    <3>2. k \in Names /\ RowOK(k) /\ HasIt(k)' = HasIt(k)
      BY <1>1, HasItStays DEF publisherVars, PublisherInv, PublisherType
    <3> QED
      BY <1>1, <3>1, <3>2, RowStays DEF publisherVars
  <2> QED
    BY <1>1, <2>1, <2>2 DEF publisherVars, PublisherInv
<1>2. CASE \E s \in Sources : OpenSource(s)
  BY <1>2, OpenSourceKeeps
<1>3. CASE source # Missing404 /\ PullSteps
  BY <1>3, PullGetKeeps, PullApplyKeeps, PullRunsKeeps, PullMarkKeeps, PullCommitKeeps DEF PullSteps
<1>4. CASE source # Missing404 /\ DeleteCommits
  BY <1>4, DeleteCommitsKeeps
<1>5. CASE source # Missing404 /\ TickComes
  <2>1. StartPush("publisher") /\ pressed' = pressed /\ "publisher" \in Pushers
    BY <1>5 DEF TickComes, Pushers
  <2> QED
    BY <1>5, <2>1, StartPushKeeps
<1>6. ASSUME source # Missing404, NEW t \in Pushers, PushSteps(t) PROVE PublisherInv'
  BY <1>6, ArchiveRunKeeps, FlushMarksKeeps, ReadDocumentKeeps, KeepCarriedKeeps,
     PutDocumentKeeps, NoteSyncedKeeps, CommitPushKeeps DEF PushSteps
<1>7. CASE source # Missing404 /\ Operator
  <2>1. CASE PressPush
    <3>1. StartPush("push") /\ pressed' = pressed \cup {"push"} /\ "push" \in Pushers
      BY <2>1 DEF PressPush, Pushers
    <3>2. pressed \subseteq pressed' /\ ("pull" \in pressed' => "pull" \in pressed)
      BY <3>1
    <3> QED
      BY <1>7, <3>1, <3>2, StartPushKeeps
  <2> QED
    BY <1>7, <2>1, EditConfigKeeps, RunIsOverKeeps, ForgetRunKeeps, PressPullKeeps, BootAgainKeeps
       DEF Operator
<1> QED
  BY <1>1, <1>2, <1>3, <1>4, <1>5, <1>6, <1>7 DEF PublisherNext, Pushers

\* For any configuration, runs, faults, edits, deletes, rebuilds and order of the three
\* threads: a row the boot pull found is in the shared copy until the operator removes it,
\* unless a pull by the button has landed it (configsource.py pull, document, push_config).
THEOREM BootRowsAreKeptHolds == PublisherSpec => []BootRowsAreKept
<1>1. PublisherInv => BootRowsAreKept
  BY DEF PublisherInv, RowOK, InCopy, BootRowsAreKept
<1> QED
  BY <1>1, PublisherBegins, PublisherKeeps, PTL DEF PublisherSpec

-----------------------------------------------------------------------------
(* Scheduler: the time under load, and the arrivals of its timetable. *)

Phases == {"new", "waiting", "load", "drain", "done"}
Controls == [stop : BOOLEAN, why : {"none", "asked", "ceiling"}, fatal : BOOLEAN, invalid : BOOLEAN]
Loops == [at : {"turn", "held"}, wake : Int, due : Int, idle : BOOLEAN, fresh : BOOLEAN,
          anchor : Int, arrived : Nat, again : Nat]

SchedulerType ==
    /\ phase \in Phases /\ now \in Nat /\ t0 \in Nat /\ loaded \in Nat
    /\ ctl \in Controls /\ wanted \in Nat \cup {None}
    /\ pause \in [since : Nat \cup {None}, total : Nat] /\ (Paused => pause.since <= now)
    /\ phase # "new" => plan \in Loads /\ (plan.ramp = <<>> => loop \in Loops)

\* The time that was not paused counts as loaded from the start, so that the run is over no
\* sooner than it was loaded; once it drains that is why, or a stop is.
LoadedOK ==
    /\ phase \in {"new", "waiting"} => loaded = 0
    /\ phase = "load" => Elapsed <= loaded
    /\ phase \in {"new", "waiting", "load"} /\ ctl.stop => ctl.why # "none"
    /\ phase \in {"drain", "done"} => ctl.stop /\ (ctl.why = "none" => plan.duration <= loaded)

SchedulerInv == SchedulerType /\ LoadedOK /\ ArrivalsAreAccounted

\* The larger of two numbers.
LEMMA LargerOfTwo ==
    ASSUME NEW a \in Int, NEW b \in Int
    PROVE  Max({a, b}) \in {a, b} /\ Max({a, b}) >= a /\ Max({a, b}) >= b
<1>1. \E x \in {a, b} : \A y \in {a, b} : x >= y
  <2>1. CASE a >= b
    BY <2>1
  <2>2. CASE b >= a
    BY <2>2
  <2> QED
    BY <2>1, <2>2
<1> QED
  BY <1>1 DEF Max

\* A measured ceiling, a lag or a fault stops a run for a reason.
LEMMA ControlsAreKept ==
    ASSUME NEW c \in Controls
    PROVE  /\ \A why \in {"asked", "ceiling"} :
                 Stop(c, why) \in Controls /\ (c.stop => Stop(c, why) = c)
                 /\ Stop(c, why).stop /\ (~c.stop => Stop(c, why).why = why)
           /\ Fail(c) \in Controls /\ Fail(c).stop /\ Fail(c).why = Stop(c, "asked").why
           /\ Invalidate(c) \in Controls /\ Invalidate(c).stop
           /\ Invalidate(c).why = Stop(c, "asked").why
BY DEF Stop, Fail, Invalidate, Controls

\* A control that was judged is one, and has a reason if it stops.
LEMMA JudgedIsOne ==
    ASSUME NEW c \in Controls, c.stop => c.why # "none", NEW lag, NEW j \in Judged(c, lag)
    PROVE  j \in Controls /\ (j.stop => j.why # "none")
<1>1. j \in {c, Invalidate(c), Stop(c, "ceiling")}
  BY DEF Judged
<1> QED
  BY <1>1, ControlsAreKept

\* The timetable is the one it was, or there is none.
SameTimetable ==
    phase' = "load" /\ ~loop'.idle =>
        /\ phase = "load" /\ ~loop.idle /\ loop'.due = loop.due /\ loop'.anchor = loop.anchor
        /\ loop'.arrived = loop.arrived /\ loop'.again = loop.again

\* The count of arrivals is what it was while the timetable is.
LEMMA CountStays ==
    ASSUME ArrivalsAreAccounted, UNCHANGED <<plan, wanted>>, SameTimetable
    PROVE  ArrivalsAreAccounted'
BY DEF ArrivalsAreAccounted, SameTimetable, Spacing

\* A step of a task or a stop changes nothing but why the run ends, and that only at first.
LEMMA ControlStays ==
    ASSUME SchedulerInv, UNCHANGED <<phase, plan, now, t0, pause, wanted, loaded, loop>>,
           ctl' \in Controls,
           phase \in {"new", "waiting", "load"} /\ ctl'.stop => ctl'.why # "none",
           ctl.stop => ctl'.stop /\ ctl'.why = ctl.why
    PROVE  SchedulerInv'
<1>1. ArrivalsAreAccounted'
  BY CountStays DEF SchedulerInv, SameTimetable
<1>2. SchedulerType'
  BY DEF SchedulerInv, SchedulerType, Paused
<1>3. LoadedOK'
  BY DEF SchedulerInv, LoadedOK, Elapsed, PausedFor, Paused
<1> QED
  BY <1>1, <1>2, <1>3 DEF SchedulerInv

\* A search ends: a fault or a ceiling may be a first reason to stop.
LEMMA StepEndsKeeps ==
    ASSUME SchedulerInv, NEW u \in Tasks, StepEnds(u)
    PROVE  SchedulerInv'
<1>1. /\ UNCHANGED <<phase, plan, now, t0, pause, wanted, loaded, loop>>
      /\ ctl' \in {ctl, Fail(ctl), Stop(ctl, "ceiling")}
  BY DEF StepEnds
<1>2. ctl \in Controls /\ (phase \in {"new", "waiting", "load"} /\ ctl.stop => ctl.why # "none")
  BY DEF SchedulerInv, SchedulerType, LoadedOK
<1>3. /\ ctl' \in Controls /\ (ctl.stop => ctl'.stop /\ ctl'.why = ctl.why)
      /\ (~ctl.stop /\ ctl'.stop => ctl'.why # "none")
  BY <1>1, <1>2, ControlsAreKept
<1> QED
  BY <1>1, <1>2, <1>3, ControlStays

\* A user is let go, or wakes.
LEMMA TaskGoesOnKeeps ==
    ASSUME SchedulerInv, NEW u \in Tasks, LetGo(u) \/ Wakes(u)
    PROVE  SchedulerInv'
<1>1. UNCHANGED <<phase, plan, now, t0, pause, wanted, loaded, loop, ctl>>
  BY DEF LetGo, Wakes
<1> QED
  BY <1>1, ControlStays DEF SchedulerInv, SchedulerType, LoadedOK

\* A stop is asked for, or a pause outlasts its budget: one reason to stop, the first.
LEMMA StopKeeps ==
    ASSUME SchedulerInv, RequestStop \/ PauseRunsOut
    PROVE  SchedulerInv'
<1>1. /\ UNCHANGED <<phase, plan, now, t0, pause, wanted, loaded, loop>>
      /\ ~ctl.stop /\ ctl' = Stop(ctl, "asked")
  BY DEF RequestStop, PauseRunsOut
<1>2. ctl \in Controls
  BY DEF SchedulerInv, SchedulerType
<1>3. ctl' \in Controls /\ ctl'.why # "none"
  BY <1>1, <1>2, ControlsAreKept
<1> QED
  BY <1>1, <1>3, ControlStays

\* Of a pause only the length counts, and it counts from its beginning to its end.
LEMMA PauseKeeps ==
    ASSUME SchedulerInv, ApplyPause \/ ApplyResume
    PROVE  SchedulerInv'
<1>1. /\ UNCHANGED <<phase, plan, now, t0, ctl, wanted, loaded, loop>>
      /\ \/ ~Paused /\ pause' = [pause EXCEPT !.since = now]
         \/ Paused /\ pause' = [since |-> None, total |-> PausedFor]
  BY DEF ApplyPause, ApplyResume
<1>2. /\ pause \in [since : Nat \cup {None}, total : Nat] /\ now \in Nat /\ None \notin Nat
      /\ (Paused => pause.since <= now /\ pause.since \in Nat)
  BY DEF SchedulerInv, SchedulerType, Paused, None
<1>3. /\ pause' \in [since : Nat \cup {None}, total : Nat] /\ (Paused' => pause'.since <= now)
      /\ PausedFor' = PausedFor
  <2>1. CASE ~Paused /\ pause' = [pause EXCEPT !.since = now]
    <3>1. pause'.since = now /\ pause'.total = pause.total
          /\ pause' \in [since : Nat \cup {None}, total : Nat]
      BY <1>2, <2>1
    <3> QED
      BY <1>1, <1>2, <2>1, <3>1 DEF PausedFor, Paused
  <2>2. CASE Paused /\ pause' = [since |-> None, total |-> PausedFor]
    <3>1. PausedFor = pause.total + (now - pause.since) /\ PausedFor \in Nat
      BY <1>2, <2>2 DEF PausedFor
    <3>2. pause'.since = None /\ pause'.total = PausedFor
      BY <2>2
    <3>3. ~Paused' /\ PausedFor' = PausedFor
      BY <3>1, <3>2 DEF Paused, PausedFor
    <3> QED
      BY <2>2, <3>1, <3>3
  <2> QED
    BY <1>1, <2>1, <2>2
<1>4. SchedulerType'
  BY <1>1, <1>3 DEF SchedulerInv, SchedulerType
<1>5. LoadedOK'
  <2>1. Elapsed' = Elapsed
    BY <1>1, <1>3 DEF Elapsed
  <2> QED
    BY <1>1, <2>1 DEF SchedulerInv, LoadedOK
<1>6. ArrivalsAreAccounted'
  BY <1>1, CountStays DEF SchedulerInv, SameTimetable
<1> QED
  BY <1>4, <1>5, <1>6 DEF SchedulerInv

\* Of a load only its plateau bounds what an operator may ask for; then there is no timetable
\* of the plan's own to count against.
LEMMA ApplyLoadKeeps ==
    ASSUME SchedulerInv, ApplyLoad
    PROVE  SchedulerInv'
<1>1. /\ UNCHANGED <<phase, plan, now, t0, pause, ctl, loop, loaded>> /\ phase # "new"
      /\ \E load \in 0..Plateau(plan) : wanted' = load
  BY DEF ApplyLoad, Alive
<1>2. plan \in Loads /\ Plateau(plan) \in Nat
  BY <1>1 DEF SchedulerInv, SchedulerType, Loads, Plateau
<1>3. wanted' \in Nat /\ wanted' # None
  BY <1>1, <1>2 DEF None
<1>4. SchedulerType'
  BY <1>1, <1>3 DEF SchedulerInv, SchedulerType, Paused
<1>5. LoadedOK'
  BY <1>1 DEF SchedulerInv, LoadedOK, Elapsed, PausedFor, Paused
<1>6. ArrivalsAreAccounted'
  BY <1>1, <1>3 DEF ArrivalsAreAccounted
<1> QED
  BY <1>4, <1>5, <1>6 DEF SchedulerInv

\* A loop that starts, or waits for its drain, has no timetable yet.
LEMMA NewLoop ==
    /\ \A wake \in Int : [NoLoop EXCEPT !.wake = wake] \in Loops
    /\ \A wake, due \in Int : LET new == [NoLoop EXCEPT !.wake = wake, !.due = due]
                             IN  new \in Loops /\ new.idle
<1>1. NoLoop \in Loops /\ NoLoop.idle
  BY DEF NoLoop, Loops
<1> QED
  BY <1>1 DEF Loops

\* A load is built before anything has run.
LEMMA BuildKeeps ==
    ASSUME SchedulerInv, NEW p \in Plans, Build(p)
    PROVE  SchedulerInv'
<1> DEFINE started == [NoLoop EXCEPT !.wake = Effective(p).lead]
<1>1. /\ phase = "new" /\ phase' = "waiting" /\ plan' = Effective(p) /\ loop' = started
      /\ UNCHANGED <<now, t0, ctl, pause, wanted, loaded>>
  BY DEF Build
<1>2. Effective(p) \in Loads /\ Effective(p).lead \in Nat
  BY PlansAssumption DEF Loads
<1>3. started \in Loops
  <2>1. Effective(p).lead \in Int
    BY <1>2
  <2> QED
    BY <2>1, NewLoop, Zenon
<1> HIDE DEF started
<1>4. SchedulerType'
  BY <1>1, <1>2, <1>3 DEF SchedulerInv, SchedulerType, Phases, Paused
<1>5. LoadedOK'
  BY <1>1 DEF SchedulerInv, LoadedOK
<1>6. ArrivalsAreAccounted'
  BY <1>1 DEF ArrivalsAreAccounted
<1> QED
  BY <1>4, <1>5, <1>6 DEF SchedulerInv

\* When the load starts nothing of a pause has passed yet, and there is no timetable.
LEMMA StartLoadKeeps ==
    ASSUME SchedulerInv, StartLoad
    PROVE  SchedulerInv'
<1> DEFINE starting(first) == [NoLoop EXCEPT !.wake = now, !.due = now + first]
<1> HIDE DEF starting
<1>1. /\ phase = "waiting" /\ phase' = "load" /\ t0' = now /\ pause' = Reanchored
      /\ UNCHANGED <<plan, now, ctl, wanted, loaded>>
      /\ \E first \in 0..Minute : loop' = starting(first)
  <2>1. \E first \in (IF plan.model = "schedule" THEN 1..Minute ELSE {0}) :
           loop' = starting(first)
    BY DEF StartLoad, starting
  <2>2. (IF plan.model = "schedule" THEN 1..Minute ELSE {0}) \subseteq 0..Minute
    BY SchedulerAssumption
  <2> QED
    BY <2>1, <2>2 DEF StartLoad
<1>2. /\ pause \in [since : Nat \cup {None}, total : Nat] /\ now \in Nat /\ loaded = 0
      /\ Minute \in Nat
  BY <1>1, SchedulerAssumption DEF SchedulerInv, SchedulerType, LoadedOK
<1>3. /\ pause' \in [since : Nat \cup {None}, total : Nat] /\ pause'.total = pause.total
      /\ (Paused' => pause'.since = now)
  BY <1>1, <1>2 DEF Reanchored, Paused
<1>4. loop' \in Loops /\ loop'.idle
  <2>1. PICK first \in 0..Minute : loop' = starting(first)
    BY <1>1
  <2>2. now \in Int /\ now + first \in Int
    BY <1>2, <2>1
  <2> QED
    BY <2>1, <2>2, NewLoop, Zenon DEF starting
<1>5. Elapsed' <= loaded'
  <2>1. /\ t0' = now /\ now' = now /\ now \in Nat /\ loaded' = 0 /\ pause'.total \in Nat
        /\ (Paused' => pause'.since = now)
    BY <1>1, <1>2, <1>3
  <2>2. CASE Paused'
    <3>1. Elapsed' = now - now - (pause'.total + (now - now))
      BY <2>1, <2>2 DEF Elapsed, PausedFor
    <3> QED
      BY <2>1, <3>1
  <2>3. CASE ~Paused'
    <3>1. Elapsed' = now - now - pause'.total
      BY <2>1, <2>3 DEF Elapsed, PausedFor
    <3> QED
      BY <2>1, <3>1
  <2> QED
    BY <2>2, <2>3
<1>6. SchedulerType'
  BY <1>1, <1>2, <1>3, <1>4 DEF SchedulerInv, SchedulerType, Phases
<1>7. LoadedOK'
  BY <1>1, <1>5 DEF SchedulerInv, LoadedOK
<1>8. ArrivalsAreAccounted'
  BY <1>4 DEF ArrivalsAreAccounted
<1> QED
  BY <1>6, <1>7, <1>8 DEF SchedulerInv

\* After a pause the timetable starts anew.
LEMMA LoopLetGoKeeps ==
    ASSUME SchedulerInv, LoopLetGo
    PROVE  SchedulerInv'
<1> DEFINE next == IF plan.model = "schedule" THEN loop.due + now - loop.wake ELSE loop.due
<1>1. /\ UNCHANGED <<phase, plan, now, t0, pause, ctl, wanted, loaded>> /\ phase = "load"
      /\ loop' = [loop EXCEPT !.at = "turn", !.wake = now, !.fresh = TRUE, !.idle = TRUE,
                              !.due = next]
  BY DEF LoopLetGo
<1>2. plan.ramp = <<>> => loop' \in Loops /\ loop'.idle
  <2> SUFFICES ASSUME plan.ramp = <<>> PROVE loop' \in Loops /\ loop'.idle
    OBVIOUS
  <2>1. loop \in Loops /\ now \in Int
    BY <1>1 DEF SchedulerInv, SchedulerType
  <2>2. next \in Int
    BY <2>1 DEF Loops
  <2> HIDE DEF next
  <2> QED
    BY <1>1, <2>1, <2>2 DEF Loops
<1> HIDE DEF next
<1>3. SchedulerType'
  BY <1>1, <1>2 DEF SchedulerInv, SchedulerType, Paused
<1>4. LoadedOK'
  BY <1>1 DEF SchedulerInv, LoadedOK, Elapsed, PausedFor, Paused
<1>5. ArrivalsAreAccounted'
  BY <1>1, <1>2 DEF ArrivalsAreAccounted
<1> QED
  BY <1>3, <1>4, <1>5 DEF SchedulerInv

\* Time goes by: under load it counts unless the run is paused.
LEMMA PassKeeps ==
    ASSUME SchedulerInv, Pass
    PROVE  SchedulerInv'
<1>1. /\ UNCHANGED <<phase, plan, t0, pause, ctl, wanted, loop>> /\ now' = now + 1
      /\ phase \in {"waiting", "load", "drain"}
      /\ loaded' = IF phase = "load" /\ ~Paused THEN loaded + 1 ELSE loaded
  BY DEF Pass
<1>2. /\ pause \in [since : Nat \cup {None}, total : Nat] /\ now \in Nat /\ loaded \in Nat
      /\ t0 \in Nat /\ (Paused => pause.since \in Nat) /\ (phase # "new" => plan.duration \in Nat)
  BY DEF SchedulerInv, SchedulerType, Paused, Loads
<1>3. SchedulerType'
  BY <1>1, <1>2 DEF SchedulerInv, SchedulerType, Paused
<1>4. phase = "load" => Elapsed' <= loaded'
  <2>1. CASE Paused
    <3>1. PausedFor' = PausedFor + 1 /\ PausedFor \in Int
      BY <1>1, <1>2, <2>1 DEF PausedFor, Paused
    <3> QED
      BY <1>1, <1>2, <2>1, <3>1 DEF Elapsed, SchedulerInv, LoadedOK
  <2>2. CASE ~Paused
    <3>1. PausedFor' = PausedFor /\ PausedFor \in Int
      BY <1>1, <1>2, <2>2 DEF PausedFor, Paused
    <3> QED
      BY <1>1, <1>2, <2>2, <3>1 DEF Elapsed, SchedulerInv, LoadedOK
  <2> QED
    BY <2>1, <2>2
<1>5. LoadedOK'
  BY <1>1, <1>2, <1>4 DEF SchedulerInv, LoadedOK
<1>6. ArrivalsAreAccounted'
  BY <1>1, CountStays DEF SchedulerInv, SameTimetable
<1> QED
  BY <1>3, <1>5, <1>6 DEF SchedulerInv

\* The drain ends.
LEMMA DrainEndsKeeps ==
    ASSUME SchedulerInv, DrainEnds
    PROVE  SchedulerInv'
<1>1. /\ UNCHANGED <<plan, now, t0, pause, ctl, wanted, loop, loaded>>
      /\ phase = "drain" /\ phase' = "done"
  BY DEF DrainEnds
<1>2. SchedulerType'
  BY <1>1 DEF SchedulerInv, SchedulerType, Paused, Phases
<1>3. LoadedOK'
  BY <1>1 DEF SchedulerInv, LoadedOK
<1>4. ArrivalsAreAccounted'
  BY <1>1 DEF ArrivalsAreAccounted
<1> QED
  BY <1>2, <1>3, <1>4 DEF SchedulerInv

\* The loop breaks off for a stop, or because the run was loaded for all of its duration.
LEMMA LeavesKeeps ==
    ASSUME SchedulerInv, phase = "load", NEW c \in Controls, c.stop => c.why # "none",
           c.stop \/ Over, Leaves(c), UNCHANGED <<plan, now, t0, pause, wanted, loaded>>
    PROVE  SchedulerInv'
<1> DEFINE left == [NoLoop EXCEPT !.wake = now + DrainBudget]
<1>1. ctl' = [c EXCEPT !.stop = TRUE] /\ phase' = "drain" /\ loop' = left
  BY DEF Leaves
<1>2. now \in Nat /\ DrainBudget \in Nat
  BY SchedulerAssumption DEF SchedulerInv, SchedulerType
<1>3. left \in Loops
  <2>1. now + DrainBudget \in Int
    BY <1>2
  <2> QED
    BY <2>1, NewLoop, Zenon
<1> HIDE DEF left
<1>4. ctl' \in Controls /\ ctl'.stop /\ ctl'.why = c.why
  BY <1>1 DEF Controls
<1>5. SchedulerType'
  BY <1>1, <1>3, <1>4 DEF SchedulerInv, SchedulerType, Paused, Phases
<1>6. ~c.stop => plan.duration <= loaded
  <2>1. /\ pause \in [since : Nat \cup {None}, total : Nat] /\ now \in Nat /\ loaded \in Nat
        /\ t0 \in Nat /\ (Paused => pause.since \in Nat) /\ plan.duration \in Nat
    BY DEF SchedulerInv, SchedulerType, Paused, Loads
  <2>2. Elapsed \in Int /\ Elapsed <= loaded
    BY <2>1 DEF SchedulerInv, LoadedOK, Elapsed, PausedFor
  <2> QED
    BY <2>1, <2>2 DEF Over
<1>7. LoadedOK'
  BY <1>1, <1>4, <1>6 DEF LoadedOK
<1>8. ArrivalsAreAccounted'
  BY <1>1 DEF ArrivalsAreAccounted
<1> QED
  BY <1>5, <1>7, <1>8 DEF SchedulerInv

\* The loop goes on: what it counts is right, and nothing else of the run has changed but a
\* reason to stop.
LEMMA LoopGoesOn ==
    ASSUME SchedulerInv, phase = "load", UNCHANGED <<phase, plan, now, t0, pause, wanted, loaded>>,
           ctl' \in Controls, ctl'.stop => ctl'.why # "none",
           plan.ramp = <<>> => loop' \in Loops, ArrivalsAreAccounted'
    PROVE  SchedulerInv'
<1>1. SchedulerType'
  BY DEF SchedulerInv, SchedulerType, Paused
<1>2. LoadedOK'
  BY DEF SchedulerInv, LoadedOK, Elapsed, PausedFor, Paused
<1> QED
  BY <1>1, <1>2 DEF SchedulerInv

\* What a loop has of the control when it wakes.
LEMMA JudgedAtTurn ==
    ASSUME SchedulerInv, phase = "load", NEW lag,
           NEW c \in (IF loop.fresh THEN {ctl} ELSE Judged(ctl, lag))
    PROVE  c \in Controls /\ (c.stop => c.why # "none")
<1>1. ctl \in Controls /\ (ctl.stop => ctl.why # "none")
  BY DEF SchedulerInv, SchedulerType, LoadedOK
<1> QED
  BY <1>1, JudgedIsOne

\* The loop is held by a pause.
LEMMA IsHeldKeeps ==
    ASSUME SchedulerInv, phase = "load", NEW c \in Controls, c.stop => c.why # "none",
           IsHeld(c), UNCHANGED <<plan, now, t0, pause, wanted, loaded>>
    PROVE  SchedulerInv'
<1>1. ctl' = c /\ phase' = phase /\ loop' = [loop EXCEPT !.at = "held", !.wake = now]
  BY DEF IsHeld
<1>2. plan.ramp = <<>> => loop \in Loops /\ now \in Int
  BY DEF SchedulerInv, SchedulerType
<1>3. plan.ramp = <<>> => loop' \in Loops
  BY <1>1, <1>2 DEF Loops
<1>4. ArrivalsAreAccounted'
  <2> SUFFICES ASSUME plan.ramp = <<>> PROVE ArrivalsAreAccounted'
    BY DEF ArrivalsAreAccounted
  <2>1. SameTimetable
    BY <1>1, <1>2 DEF SameTimetable, Loops
  <2> QED
    BY <2>1, CountStays DEF SchedulerInv
<1> QED
  BY <1>1, <1>3, <1>4, LoopGoesOn

\* The closed loop's turn.
LEMMA ClosedTurnKeeps ==
    ASSUME SchedulerInv, ClosedTurn
    PROVE  SchedulerInv'
<1> DEFINE due == IF loop.fresh THEN now + TickS ELSE NextTick(loop.due)
           next == [loop EXCEPT !.wake = now + TickS, !.fresh = FALSE, !.due = due]
<1>1. /\ phase = "load" /\ plan.model = "closed"
      /\ UNCHANGED <<plan, now, t0, pause, wanted, loaded>>
  BY DEF ClosedTurn
<1>2. PICK c \in (IF loop.fresh THEN {ctl} ELSE Judged(ctl, maxLag')) :
         \/ Leaving(c) /\ Leaves(c)
         \/ IsHeld(c)
         \/ ctl' = c /\ phase' = phase /\ loop' = next
  BY DEF ClosedTurn
<1>3. c \in Controls /\ (c.stop => c.why # "none")
  BY <1>1, JudgedAtTurn
<1>4. CASE Leaving(c) /\ Leaves(c)
  BY <1>1, <1>3, <1>4, LeavesKeeps DEF Leaving
<1>5. CASE IsHeld(c)
  BY <1>1, <1>3, <1>5, IsHeldKeeps
<1>6. CASE ctl' = c /\ phase' = phase /\ loop' = next
  <2>1. plan.ramp = <<>> => loop' \in Loops
    <3> SUFFICES ASSUME plan.ramp = <<>> PROVE next \in Loops
      BY <1>6
    <3>1. loop \in Loops /\ now \in Int /\ now + TickS \in Int /\ loop.due + TickS \in Int
      <4>1. SchedulerType
        BY <1>1 DEF SchedulerInv
      <4>2. loop \in Loops /\ now \in Int
        BY <1>1, <4>1 DEF SchedulerType
      <4>3. loop.due \in Int /\ TickS \in Int
        BY <4>2, SchedulerAssumption DEF Loops
      <4>4. QED
        BY <4>2, <4>3
    <3>2. due \in Int
      BY <3>1, LargerOfTwo DEF NextTick
    <3> HIDE DEF due
    <3> QED
      BY <3>1, <3>2 DEF Loops
  <2>2. ArrivalsAreAccounted'
    BY <1>1 DEF ArrivalsAreAccounted
  <2> QED
    BY <1>1, <1>3, <1>6, <2>1, <2>2, LoopGoesOn
<1> QED
  BY <1>2, <1>4, <1>5, <1>6

\* The schedule's turn.
LEMMA ScheduleTurnKeeps ==
    ASSUME SchedulerInv, ScheduleTurn
    PROVE  SchedulerInv'
<1> DEFINE until == Sleeps(loop.due)
           later == loop.due + Minute
           asleep == [loop EXCEPT !.wake = until, !.fresh = FALSE]
           next == [loop EXCEPT !.wake = now, !.fresh = FALSE, !.due = later]
<1>1. /\ phase = "load" /\ plan.model = "schedule"
      /\ UNCHANGED <<plan, now, t0, pause, wanted, loaded>>
  BY DEF ScheduleTurn
<1>2. PICK c \in (IF loop.fresh THEN {ctl} ELSE Judged(ctl, maxLag)) :
         \/ (c.stop \/ Over) /\ Leaves(c)
         \/ IsHeld(c)
         \/ ctl' = c /\ phase' = phase /\ loop' \in {asleep, next}
  BY DEF ScheduleTurn
<1>3. c \in Controls /\ (c.stop => c.why # "none")
  BY <1>1, JudgedAtTurn
<1>4. CASE (c.stop \/ Over) /\ Leaves(c)
  BY <1>1, <1>3, <1>4, LeavesKeeps
<1>5. CASE IsHeld(c)
  BY <1>1, <1>3, <1>5, IsHeldKeeps
<1>6. CASE ctl' = c /\ phase' = phase /\ loop' \in {asleep, next}
  <2>1. plan.ramp = <<>> => loop' \in Loops
    <3> SUFFICES ASSUME plan.ramp = <<>> PROVE asleep \in Loops /\ next \in Loops
      BY <1>6
    <3>1. loop \in Loops /\ now \in Int /\ TickS \in Int /\ Minute \in Int
      BY <1>1, SchedulerAssumption DEF SchedulerInv, SchedulerType
    <3>2. until \in Int /\ later \in Int
      BY <3>1 DEF Sleeps, Fewest, Loops
    <3> HIDE DEF until, later
    <3> QED
      BY <3>1, <3>2 DEF Loops
  <2>2. ArrivalsAreAccounted'
    BY <1>1 DEF ArrivalsAreAccounted
  <2> QED
    BY <1>1, <1>3, <1>6, <2>1, <2>2, LoopGoesOn
<1> QED
  BY <1>2, <1>4, <1>5, <1>6

\* Division rounds down.
LEMMA DivisionRoundsDown ==
    ASSUME NEW x \in Nat, NEW g \in Nat \ {0}
    PROVE  /\ x \div g \in Nat
           /\ g * (x \div g) <= x /\ x < g * (x \div g) + g
<1>1. x = g * (x \div g) + (x % g) /\ x % g \in 0..(g - 1) /\ x \div g \in Int
  OBVIOUS
<1>2. x \div g >= 0
  OBVIOUS
<1> QED
  BY <1>1, <1>2

\* Arrivals are at least a unit apart.
LEMMA SpacingIsWhole ==
    ASSUME NEW rate \in Nat \ {0}
    PROVE  Spacing(rate) \in Nat \ {0}
<1>1. Minute \div rate \in Int
  BY DivisionRoundsDown, SchedulerAssumption
<1> QED
  BY <1>1, LargerOfTwo DEF Spacing

\* Without a ramp the target is the plan's rate, unless an operator set another.
LEMMA TargetWithoutRamp ==
    ASSUME SchedulerInv, phase = "load", plan.ramp = <<>>
    PROVE  /\ TargetLoad \in Nat
           /\ wanted = None => TargetLoad = Plateau(plan)
<1>1. Plateau(plan) \in Nat /\ wanted \in Nat \cup {None}
  BY DEF SchedulerInv, SchedulerType, Loads, Plateau
<1>2. RampAt(<<>>, Plateau(plan), Elapsed) = Plateau(plan)
  <2>1. DOMAIN <<>> = {}
    OBVIOUS
  <2> QED
    BY <2>1 DEF RampAt, FinalLevel
<1> QED
  BY <1>1, <1>2 DEF TargetLoad

\* What the count of arrivals must be, for a timetable that is `span` long.
Accounts(gap, span, arrived, again) ==
    gap * arrived <= span /\ span < gap * (arrived + again + 1)

\* One more arrival is one more interval.
LEMMA OneMoreArrival ==
    ASSUME NEW gap \in Nat \ {0}, NEW span \in Int, NEW arrived \in Nat, NEW again \in Nat,
           Accounts(gap, span, arrived, again)
    PROVE  Accounts(gap, span + gap, arrived + 1, again)
BY DEF Accounts

\* A timetable that starts again at now, `behind` after the arrival that was next, leaves out
\* the part of an interval that the skipped arrivals do not fill.
LEMMA StartsAgain ==
    ASSUME NEW gap \in Nat \ {0}, NEW span \in Int, NEW arrived \in Nat, NEW again \in Nat,
           NEW behind \in Nat, Accounts(gap, span, arrived, again)
    PROVE  Accounts(gap, span + gap + behind, arrived + 1 + behind \div gap, again + 1)
<1> DEFINE skipped == behind \div gap
<1>1. skipped \in Nat /\ gap * skipped <= behind /\ behind < gap * skipped + gap
  BY DivisionRoundsDown
<1> HIDE DEF skipped
<1>2. gap * (arrived + 1 + skipped) = gap * arrived + gap + gap * skipped
  BY <1>1
<1>3. gap * (arrived + 1 + skipped + (again + 1) + 1)
        = gap * (arrived + again + 1) + gap + gap * skipped + gap
  BY <1>1
<1>4. gap * arrived \in Int /\ gap * (arrived + again + 1) \in Int /\ gap * skipped \in Int
  BY <1>1
<1>5. gap * (arrived + 1 + skipped) <= span + gap + behind
  BY <1>1, <1>2, <1>4 DEF Accounts
<1>6. span + gap + behind < gap * (arrived + 1 + skipped + (again + 1) + 1)
  BY <1>1, <1>3, <1>4 DEF Accounts
<1> QED
  BY <1>5, <1>6 DEF Accounts, skipped

\* An arrival counts for the interval before it, and the skipped ones for theirs.
LEMMA ArriveKeeps ==
    ASSUME SchedulerInv, phase = "load", plan.model = "open", TargetLoad > 0,
           NEW c \in Controls, c.stop => c.why # "none",
           Arrive(IF loop.idle THEN now ELSE loop.due, TargetLoad, c),
           (IF loop.idle THEN now ELSE loop.due) <= now,
           UNCHANGED <<plan, now, t0, pause, wanted, loaded>>
    PROVE  SchedulerInv'
<1> DEFINE due == IF loop.idle THEN now ELSE loop.due
           first == IF loop.idle THEN now ELSE loop.anchor
           before == IF loop.idle THEN 0 ELSE loop.arrived
           again == IF loop.idle THEN 0 ELSE loop.again
           tooLate(gap) == TooFarBehind(due + gap)
           shift(gap) == IF tooLate(gap) THEN now ELSE due + gap
           count(gap) == before + 1 + Skipped(due + gap, TargetLoad)
           anew(gap) == again + IF tooLate(gap) THEN 1 ELSE 0
           next(d, n, a) == [loop EXCEPT !.wake = now, !.fresh = FALSE, !.idle = FALSE, !.due = d,
                                         !.anchor = first, !.arrived = n, !.again = a]
<1>1. ctl' = c /\ phase' = phase
  BY DEF Arrive
<1>2. CASE plan.ramp # <<>>
  <2>1. ArrivalsAreAccounted'
    BY <1>2 DEF ArrivalsAreAccounted
  <2> QED
    BY <1>1, <1>2, <2>1, LoopGoesOn
<1>3. CASE plan.ramp = <<>>
  <2>1. PICK gap \in Gaps(TargetLoad) : loop' = next(shift(gap), count(gap), anew(gap))
    BY DEF Arrive
  <2>2. /\ loop \in Loops /\ now \in Nat /\ TargetLoad \in Nat \ {0} /\ Catchup \in Nat
        /\ plan \in Loads /\ (wanted = None => TargetLoad = plan.rate)
    BY <1>3, TargetWithoutRamp, SchedulerAssumption DEF SchedulerInv, SchedulerType, Plateau
  <2>3. Spacing(TargetLoad) \in Nat \ {0}
    BY <2>2, SpacingIsWhole
  <2> HIDE DEF TargetLoad
  <2>4. /\ due \in Int /\ due <= now /\ first \in Int /\ before \in Nat /\ again \in Nat
        /\ gap \in Nat \ {0}
    <3>1. due \in Int /\ first \in Int /\ before \in Nat /\ again \in Nat
      BY <2>2 DEF Loops
    <3>2. gap \in Nat \ {0}
      BY <2>1, <2>3 DEF Gaps
    <3> QED
      BY <3>1, <3>2
  <2> DEFINE behind == now - (due + gap)
  <2>5. tooLate(gap) => behind \in Nat
    BY <2>2, <2>4 DEF TooFarBehind
  <2>6. Skipped(due + gap, TargetLoad)
          = IF tooLate(gap) THEN behind \div Spacing(TargetLoad) ELSE 0
    BY DEF Skipped
  <2>7. tooLate(gap) => behind \div Spacing(TargetLoad) \in Nat
    BY <2>3, <2>5, DivisionRoundsDown
  <2> HIDE DEF behind, due, first, before, again
  <2>8. shift(gap) \in Int /\ count(gap) \in Nat /\ anew(gap) \in Nat
    BY <2>2, <2>4, <2>6, <2>7
  <2> HIDE DEF shift, count, anew
  <2>9. /\ loop' \in Loops /\ loop'.due = shift(gap) /\ loop'.anchor = first
        /\ loop'.arrived = count(gap) /\ loop'.again = anew(gap)
    <3>1. \A d \in Int, n, a \in Nat : next(d, n, a) \in Loops
      <4> SUFFICES ASSUME NEW d \in Int, NEW n \in Nat, NEW a \in Nat
                   PROVE  next(d, n, a) \in Loops
        OBVIOUS
      <4>1. loop \in Loops /\ now \in Int
        BY <2>2
      <4> QED
        BY <2>4, <4>1 DEF Loops
    <3>2. \A d, n, a : /\ next(d, n, a).due = d /\ next(d, n, a).anchor = first
                       /\ next(d, n, a).arrived = n /\ next(d, n, a).again = a
      BY <2>2 DEF Loops
    <3> HIDE DEF next
    <3> QED
      BY <2>1, <2>8, <3>1, <3>2
  <2> HIDE DEF next
  <2>10. ArrivalsAreAccounted'
    <3> SUFFICES ASSUME wanted = None, ~plan.poisson
                 PROVE  Accounts(Spacing(plan.rate), shift(gap) - first, count(gap), anew(gap))
      BY <2>9 DEF ArrivalsAreAccounted, Accounts
    <3>1. gap = Spacing(TargetLoad) /\ Spacing(TargetLoad) = Spacing(plan.rate)
      BY <2>1, <2>2 DEF Gaps
    <3>2. Accounts(gap, due - first, before, again)
      BY <1>3, <2>2, <2>4, <3>1 DEF Accounts, SchedulerInv, ArrivalsAreAccounted, due, first,
         before, again
    <3>3. CASE tooLate(gap)
      <4>1. Accounts(gap, due - first + gap + behind, before + 1 + behind \div gap, again + 1)
        BY <2>4, <2>5, <3>2, <3>3, StartsAgain
      <4>2. /\ shift(gap) = now /\ count(gap) = before + 1 + behind \div gap
            /\ anew(gap) = again + 1
        BY <2>6, <3>1, <3>3 DEF shift, count, anew
      <4>3. shift(gap) - first = due - first + gap + behind
        BY <2>2, <2>4, <4>2 DEF behind
      <4> QED
        BY <3>1, <4>1, <4>2, <4>3
    <3>4. CASE ~tooLate(gap)
      <4>1. Accounts(gap, due - first + gap, before + 1, again)
        BY <2>4, <3>2, OneMoreArrival
      <4>2. shift(gap) = due + gap /\ count(gap) = before + 1 /\ anew(gap) = again
        BY <2>4, <2>6, <3>4 DEF shift, count, anew
      <4>3. shift(gap) - first = due - first + gap
        BY <2>4, <4>2
      <4> QED
        BY <3>1, <4>1, <4>2, <4>3
    <3> QED
      BY <3>3, <3>4
  <2> QED
    BY <1>1, <2>9, <2>10, LoopGoesOn
<1> QED
  BY <1>2, <1>3

\* The open loop's turn.
LEMMA OpenTurnKeeps ==
    ASSUME SchedulerInv, OpenTurn
    PROVE  SchedulerInv'
<1> DEFINE due == IF loop.idle THEN now ELSE loop.due
           asleep == [loop EXCEPT !.wake = Sleeps(due), !.fresh = FALSE]
           idling == [loop EXCEPT !.wake = now + TickS, !.fresh = FALSE, !.idle = TRUE]
<1>1. /\ phase = "load" /\ plan.model = "open"
      /\ UNCHANGED <<plan, now, t0, pause, wanted, loaded>>
  BY DEF OpenTurn
<1>2. PICK c \in (IF loop.fresh THEN {ctl} ELSE Judged(ctl, maxLag)) :
         \/ (c.stop \/ Over) /\ Leaves(c)
         \/ IsHeld(c)
         \/ TargetLoad > 0 /\ due <= now /\ Arrive(due, TargetLoad, c)
         \/ ctl' = c /\ phase' = phase /\ loop' \in {asleep, idling}
  BY DEF OpenTurn
<1>3. c \in Controls /\ (c.stop => c.why # "none")
  BY <1>1, JudgedAtTurn
<1>4. CASE (c.stop \/ Over) /\ Leaves(c)
  BY <1>1, <1>3, <1>4, LeavesKeeps
<1>5. CASE IsHeld(c)
  BY <1>1, <1>3, <1>5, IsHeldKeeps
<1>6. CASE TargetLoad > 0 /\ due <= now /\ Arrive(due, TargetLoad, c)
  BY <1>1, <1>3, <1>6, ArriveKeeps
<1>7. CASE ctl' = c /\ phase' = phase /\ loop' \in {asleep, idling}
  <2>1. plan.ramp = <<>> =>
           /\ loop' \in Loops
           /\ ~loop'.idle => /\ ~loop.idle /\ loop'.due = loop.due /\ loop'.anchor = loop.anchor
                             /\ loop'.arrived = loop.arrived /\ loop'.again = loop.again
    <3> DEFINE wake == Sleeps(due)
    <3> SUFFICES ASSUME plan.ramp = <<>>
                 PROVE  /\ loop' \in Loops
                        /\ ~loop'.idle =>
                              /\ ~loop.idle /\ loop'.due = loop.due /\ loop'.anchor = loop.anchor
                              /\ loop'.arrived = loop.arrived /\ loop'.again = loop.again
      OBVIOUS
    <3>1. loop \in Loops /\ now \in Int /\ TickS \in Int
      BY <1>1, SchedulerAssumption DEF SchedulerInv, SchedulerType
    <3>2. wake \in Int /\ now + TickS \in Int
      BY <3>1 DEF Sleeps, Fewest, Loops
    <3> HIDE DEF wake
    <3>3. CASE loop' = [loop EXCEPT !.wake = wake, !.fresh = FALSE]
      BY <3>1, <3>2, <3>3 DEF Loops
    <3>4. CASE loop' = idling
      BY <3>1, <3>2, <3>4 DEF Loops
    <3> QED
      BY <1>7, <3>3, <3>4 DEF wake
  <2>2. ArrivalsAreAccounted'
    <3> SUFFICES ASSUME plan.ramp = <<>> PROVE ArrivalsAreAccounted'
      BY <1>1 DEF ArrivalsAreAccounted
    <3>1. SameTimetable
      BY <1>1, <1>7, <2>1 DEF SameTimetable
    <3> QED
      BY <1>1, <3>1, CountStays DEF SchedulerInv
  <2> QED
    BY <1>1, <1>3, <1>7, <2>1, <2>2, LoopGoesOn
<1> QED
  BY <1>2, <1>4, <1>5, <1>6, <1>7

\* A run starts with nothing loaded and no reason to stop.
LEMMA SchedulerBegins == SchedulerInit => SchedulerInv
BY DEF SchedulerInit, SchedulerInv, SchedulerType, LoadedOK, ArrivalsAreAccounted, Phases, Controls,
   NoPlan, Paused, None

\* Every step keeps the invariant, and one that changes nothing does.
LEMMA SchedulerKeeps == SchedulerInv /\ [SchedulerNext]_schedulerVars => SchedulerInv'
<1> SUFFICES ASSUME SchedulerInv, [SchedulerNext]_schedulerVars PROVE SchedulerInv'
  OBVIOUS
<1>1. CASE \E p \in Plans : Build(p)
  BY <1>1, BuildKeeps
<1>2. CASE Turn
  BY <1>2, ClosedTurnKeeps, OpenTurnKeeps, ScheduleTurnKeeps DEF Turn
<1>3. CASE Control
  BY <1>3, StopKeeps, PauseKeeps, ApplyLoadKeeps DEF Control
<1>4. CASE \E u \in Tasks : TaskStep(u)
  BY <1>4, StepEndsKeeps, TaskGoesOnKeeps DEF TaskStep
<1>5. CASE UNCHANGED schedulerVars
  <2>1. UNCHANGED <<phase, plan, now, t0, pause, wanted, loaded, loop, ctl>>
    BY <1>5 DEF schedulerVars
  <2> QED
    BY <2>1, ControlStays DEF SchedulerInv, SchedulerType, LoadedOK
<1> QED
  BY <1>1, <1>2, <1>3, <1>4, <1>5, StartLoadKeeps, LoopLetGoKeeps, StopKeeps, PassKeeps,
     DrainEndsKeeps DEF SchedulerNext

\* For any loads, task limit, pauses, stops, live loads and lateness: a completed run was under
\* load for the whole of its duration, paused time taken off nothing (scheduler.py _drain,
\* apply_pause, README 1019-1021).
THEOREM DeliversItsDurationHolds == SchedulerSpec => []DeliversItsDuration
<1>1. SchedulerInv => DeliversItsDuration
  <2> SUFFICES ASSUME SchedulerInv, Completed PROVE loaded >= plan.duration
    BY DEF DeliversItsDuration
  <2>1. ctl.why \in {"none", "asked", "ceiling"} /\ phase = "done" /\ Outcome = "completed"
    BY DEF SchedulerInv, SchedulerType, Controls, Completed
  <2>2. ctl.why = "none"
    BY <2>1 DEF Outcome, Valid
  <2>3. plan.duration \in Nat /\ loaded \in Nat
    BY <2>1 DEF SchedulerInv, SchedulerType, Loads
  <2> QED
    BY <2>1, <2>2, <2>3 DEF SchedulerInv, LoadedOK
<1> QED
  BY <1>1, SchedulerBegins, SchedulerKeeps, PTL DEF SchedulerSpec

\* For any rate, catch-up limit and lateness of the loop: without a ramp, jitter or a live load,
\* every arrival the timetable held is issued, shed or skipped and none is counted twice; each
\* new start at now leaves out less than one (scheduler.py _run_open).
THEOREM ArrivalsAreAccountedHolds == SchedulerSpec => []ArrivalsAreAccounted
<1>1. SchedulerInv => ArrivalsAreAccounted
  BY DEF SchedulerInv
<1> QED
  BY <1>1, SchedulerBegins, SchedulerKeeps, PTL DEF SchedulerSpec

-----------------------------------------------------------------------------
(* Series: the sums of a function over the slots. *)

\* A set of numbers that is not empty has a least one.
LEMMA LeastOfSome ==
    ASSUME NEW T \in SUBSET Nat, T # {} PROVE \E n \in T : \A m \in T : n <= m
<1> DEFINE less == {ss \in Nat \X Nat : ss[1] < ss[2]}
<1>1. less = OpToRel(<, Nat)
  BY DEF OpToRel
<1>2. IsWellFoundedOn(less, Nat)
  BY <1>1, NatLessThanWellFounded
<1> HIDE DEF less
<1>3. PICK n \in T : \A m \in T : ~(<<m, n>> \in less)
  BY <1>2, WFMin
<1>4. ASSUME NEW m \in T PROVE n <= m
  <2>1. m \in Nat /\ n \in Nat /\ ~(<<m, n>> \in less)
    BY <1>3
  <2>2. ~(m < n)
    BY <2>1 DEF less
  <2>3. QED
    BY <2>1, <2>2
<1>5. QED
  BY <1>4

\* What holds of 0, and of the next whenever it holds of a number, holds of all.
LEMMA AllNats ==
    ASSUME NEW T \in SUBSET Nat, 0 \in T, \A n \in T : n + 1 \in T PROVE T = Nat
<1>1. SUFFICES ASSUME Nat \ T # {} PROVE FALSE
  OBVIOUS
<1>2. PICK n \in Nat \ T : \A m \in Nat \ T : n <= m
  BY <1>1, LeastOfSome
<1>3. n # 0 /\ n - 1 \in Nat /\ n - 1 \in T
  BY <1>2
<1>4. QED
  BY <1>2, <1>3

\* The sums of f over the subsets of Slots, taken an element at a time.
First(T) == CHOOSE x \in T : TRUE
SumsUp(g, f, T) == g[T] = IF T = {} THEN 0 ELSE f[First(T)] + g[T \ {First(T)}]
Partial(f) ==
    CHOOSE g : g = [T \in SUBSET Slots |-> IF T = {} THEN 0 ELSE f[First(T)] + g[T \ {First(T)}]]

\* A set without its first has fewer elements.
LEMMA RestIsSmaller ==
    ASSUME NEW n \in Nat, NEW T \in SUBSET Slots, T # {}, Cardinality(T) <= n + 1
    PROVE  /\ First(T) \in T /\ T \ {First(T)} \in SUBSET Slots
           /\ Cardinality(T \ {First(T)}) <= n /\ Cardinality(T \ {First(T)}) < Cardinality(T)
<1>1. First(T) \in T
  BY DEF First
<1>2. IsFiniteSet(T)
  BY FS_Subset, SeriesAssumption
<1>3. Cardinality(T \ {First(T)}) = Cardinality(T) - 1 /\ Cardinality(T) \in Nat
  BY <1>1, <1>2, FS_RemoveElement, FS_CardinalityType
<1>4. QED
  BY <1>1, <1>3

\* There are such sums: each set's is its first element's plus the rest's.
LEMMA PartialSums ==
    ASSUME NEW f PROVE \A T \in SUBSET Slots : SumsUp(Partial(f), f, T)
<1> DEFINE Next(g) == [T \in SUBSET Slots |-> IF T = {} THEN 0 ELSE f[First(T)] + g[T \ {First(T)}]]
           UpTo(g, n) == \A T \in SUBSET Slots : Cardinality(T) <= n => SumsUp(g, f, T)
           Good == {n \in Nat : \E g : UpTo(g, n)}
<1>1. 0 \in Good
  <2> DEFINE g == [T \in SUBSET Slots |-> 0]
  <2>1. ASSUME NEW T \in SUBSET Slots, Cardinality(T) <= 0 PROVE SumsUp(g, f, T)
    <3>1. IsFiniteSet(T)
      BY FS_Subset, SeriesAssumption
    <3>2. Cardinality(T) \in Nat
      BY <3>1, FS_CardinalityType
    <3>3. T = {}
      BY <2>1, <3>1, <3>2, FS_EmptySet
    <3>4. QED
      BY <3>3 DEF SumsUp
  <2> HIDE DEF g
  <2>2. UpTo(g, 0)
    BY <2>1
  <2>3. QED
    BY <2>2
<1>2. ASSUME NEW n \in Good PROVE n + 1 \in Good
  <2>1. PICK g : UpTo(g, n)
    OBVIOUS
  <2> DEFINE h == [T \in SUBSET Slots |-> IF Cardinality(T) <= n THEN g[T]
                                          ELSE f[First(T)] + g[T \ {First(T)}]]
  <2>2. ASSUME NEW T \in SUBSET Slots, Cardinality(T) <= n + 1 PROVE SumsUp(h, f, T)
    <3>1. CASE T = {}
      <4>1. Cardinality(T) <= n /\ SumsUp(g, f, T)
        BY <2>1, <3>1, FS_EmptySet
      <4>2. QED
        BY <3>1, <4>1 DEF SumsUp
    <3>2. CASE T # {}
      <4>1. /\ T \ {First(T)} \in SUBSET Slots /\ Cardinality(T \ {First(T)}) <= n
        BY <2>2, <3>2, RestIsSmaller
      <4>2. h[T \ {First(T)}] = g[T \ {First(T)}]
        BY <4>1
      <4>3. Cardinality(T) <= n => g[T] = f[First(T)] + g[T \ {First(T)}]
        BY <2>1, <3>2 DEF SumsUp
      <4>4. h[T] = f[First(T)] + g[T \ {First(T)}]
        BY <4>3
      <4>5. QED
        BY <3>2, <4>2, <4>4 DEF SumsUp
    <3>3. QED
      BY <3>1, <3>2
  <2> HIDE DEF h
  <2>3. UpTo(h, n + 1)
    BY <2>2
  <2>4. QED
    BY <2>3
<1>3. Good = Nat
  <2> HIDE DEF Good
  <2>1. Good \in SUBSET Nat
    BY DEF Good
  <2>2. QED
    BY <1>1, <1>2, <2>1, AllNats
<1>4. Cardinality(Slots) \in Nat
  BY FS_CardinalityType, SeriesAssumption
<1>5. PICK g : UpTo(g, Cardinality(Slots))
  BY <1>3, <1>4
<1>6. ASSUME NEW T \in SUBSET Slots PROVE SumsUp(g, f, T)
  <2>1. Cardinality(T) <= Cardinality(Slots)
    BY FS_Subset, SeriesAssumption
  <2>2. QED
    BY <1>5, <2>1
<1> DEFINE k == [T \in SUBSET Slots |-> g[T]]
<1>7. k = [T \in SUBSET Slots |-> IF T = {} THEN 0 ELSE f[First(T)] + k[T \ {First(T)}]]
  <2>1. ASSUME NEW T \in SUBSET Slots
        PROVE  k[T] = IF T = {} THEN 0 ELSE f[First(T)] + k[T \ {First(T)}]
    BY <1>6 DEF SumsUp
  <2>2. QED
    BY <2>1
<1> HIDE DEF k
<1>8. Partial(f) = [T \in SUBSET Slots |-> IF T = {} THEN 0 ELSE f[First(T)] + Partial(f)[T \ {First(T)}]]
  BY <1>7 DEF Partial
<1>9. QED
  BY <1>8 DEF SumsUp

\* The sum over the slots is the last of them.
LEMMA SumIsPartial == ASSUME NEW f PROVE SumOver(f) = Partial(f)[Slots]
  BY Zenon DEF SumOver, MapThenSumSet, MapThenFoldSet, Partial, First

\* What holds of the empty set, and of a set when it holds of all but its first, holds of all.
LEMMA AllSubsets ==
    ASSUME NEW W \in SUBSET SUBSET Slots, {} \in W,
           \A T \in SUBSET Slots : T # {} /\ T \ {First(T)} \in W => T \in W
    PROVE  W = SUBSET Slots
<1>1. SUFFICES ASSUME NEW T0 \in SUBSET Slots, T0 \notin W PROVE FALSE
  OBVIOUS
<1> DEFINE Sizes == {Cardinality(T) : T \in (SUBSET Slots) \ W}
<1>2. Sizes \in SUBSET Nat
  <2>1. \A T \in SUBSET Slots : IsFiniteSet(T)
    BY FS_Subset, SeriesAssumption
  <2>2. \A T \in SUBSET Slots : Cardinality(T) \in Nat
    BY <2>1, FS_CardinalityType
  <2>3. QED
    BY <2>2
<1>3. Sizes # {}
  BY <1>1
<1>4. PICK n \in Sizes : \A m \in Sizes : n <= m
  <2> HIDE DEF Sizes
  <2> QED
    BY <1>2, <1>3, LeastOfSome
<1>5. PICK T \in (SUBSET Slots) \ W : n = Cardinality(T)
  OBVIOUS
<1>6. T # {}
  OBVIOUS
<1>7. n \in Nat
  BY <1>2
<1>8. /\ T \ {First(T)} \in SUBSET Slots /\ Cardinality(T \ {First(T)}) < n
  BY <1>5, <1>6, <1>7, RestIsSmaller
<1>9. T \ {First(T)} \notin W
  BY <1>5, <1>6
<1>10. Cardinality(T \ {First(T)}) \in Nat
  BY <1>8, FS_Subset, FS_CardinalityType, SeriesAssumption
<1>11. n <= Cardinality(T \ {First(T)})
  BY <1>4, <1>8, <1>9
<1>12. QED
  BY <1>7, <1>8, <1>10, <1>11

\* A sum of integers is one.
LEMMA SumIsInt ==
    ASSUME NEW f \in [Slots -> Int] PROVE \A T \in SUBSET Slots : Partial(f)[T] \in Int
<1> DEFINE W == {T \in SUBSET Slots : Partial(f)[T] \in Int}
<1>1. {} \in W
  <2>1. SumsUp(Partial(f), f, {})
    BY PartialSums
  <2>2. QED
    BY <2>1 DEF SumsUp
<1>2. ASSUME NEW T \in SUBSET Slots, T # {}, T \ {First(T)} \in W PROVE T \in W
  <2>1. First(T) \in Slots
    BY <1>2 DEF First
  <2>2. Partial(f)[T] = f[First(T)] + Partial(f)[T \ {First(T)}]
    BY <1>2, PartialSums DEF SumsUp
  <2>3. QED
    BY <1>2, <2>1, <2>2
<1>3. W = SUBSET Slots
  <2> HIDE DEF W
  <2>1. W \in SUBSET SUBSET Slots
    BY DEF W
  <2>2. QED
    BY <1>1, <1>2, <2>1, AllSubsets
<1>4. QED
  BY <1>3

\* Two functions' sums add up to the sum of what they add up to.
LEMMA SumsAdd ==
    ASSUME NEW f \in [Slots -> Int], NEW g \in [Slots -> Int], NEW h \in [Slots -> Int],
           \A s \in Slots : h[s] = f[s] + g[s]
    PROVE  SumOver(h) = SumOver(f) + SumOver(g) /\ SumOver(h) \in Int
<1> DEFINE W == {T \in SUBSET Slots : Partial(h)[T] = Partial(f)[T] + Partial(g)[T]}
<1>1. {} \in W
  <2>1. Partial(f)[{}] = 0 /\ Partial(g)[{}] = 0 /\ Partial(h)[{}] = 0
    BY PartialSums DEF SumsUp
  <2>2. QED
    BY <2>1
<1>2. ASSUME NEW T \in SUBSET Slots, T # {}, T \ {First(T)} \in W PROVE T \in W
  <2>1. First(T) \in Slots
    BY <1>2 DEF First
  <2>2. /\ Partial(f)[T] = f[First(T)] + Partial(f)[T \ {First(T)}]
        /\ Partial(g)[T] = g[First(T)] + Partial(g)[T \ {First(T)}]
        /\ Partial(h)[T] = h[First(T)] + Partial(h)[T \ {First(T)}]
    BY <1>2, PartialSums DEF SumsUp
  <2>3. /\ Partial(f)[T \ {First(T)}] \in Int /\ Partial(g)[T \ {First(T)}] \in Int
    BY SumIsInt
  <2>4. QED
    BY <1>2, <2>1, <2>2, <2>3
<1>3. W = SUBSET Slots
  <2> HIDE DEF W
  <2>1. W \in SUBSET SUBSET Slots
    BY DEF W
  <2>2. QED
    BY <1>1, <1>2, <2>1, AllSubsets
<1>4. Partial(h)[Slots] = Partial(f)[Slots] + Partial(g)[Slots] /\ Partial(h)[Slots] \in Int
  BY <1>3, SumIsInt
<1>5. QED
  BY <1>4, SumIsPartial

\* Nothing adds up to nothing.
LEMMA SumOfZeros == ASSUME NEW f \in [Slots -> {0}] PROVE SumOver(f) = 0
<1> DEFINE W == {T \in SUBSET Slots : Partial(f)[T] = 0}
<1>1. {} \in W
  <2>1. SumsUp(Partial(f), f, {})
    BY PartialSums
  <2>2. QED
    BY <2>1 DEF SumsUp
<1>2. ASSUME NEW T \in SUBSET Slots, T # {}, T \ {First(T)} \in W PROVE T \in W
  <2>1. First(T) \in Slots
    BY <1>2 DEF First
  <2>2. Partial(f)[T] = f[First(T)] + Partial(f)[T \ {First(T)}]
    BY <1>2, PartialSums DEF SumsUp
  <2>3. QED
    BY <1>2, <2>1, <2>2
<1>3. W = SUBSET Slots
  <2> HIDE DEF W
  <2>1. W \in SUBSET SUBSET Slots
    BY DEF W
  <2>2. QED
    BY <1>1, <1>2, <2>1, AllSubsets
<1>4. QED
  BY <1>3, SumIsPartial

\* How many slots come before one.
Before == [s \in Slots |-> Cardinality({r \in Slots : r < s})]

\* No two slots have as many before them, and every number below theirs is some slot's.
LEMMA SlotsInOrder ==
    /\ Cardinality(Slots) \in Nat /\ Cardinality(Slots) > 0
    /\ Before \in Bijection(Slots, 0..(Cardinality(Slots) - 1))
<1> DEFINE n == Cardinality(Slots)
<1>1. IsFiniteSet(Slots) /\ n \in Nat /\ n > 0
  BY FS_CardinalityType, FS_EmptySet, SeriesAssumption
<1>2. ASSUME NEW s \in Slots PROVE Before[s] \in 0..(n - 1)
  <2> DEFINE below == {r \in Slots : r < s}
  <2>1. IsFiniteSet(Slots \ {s}) /\ Cardinality(Slots \ {s}) = n - 1
    BY <1>1, FS_RemoveElement
  <2>2. s \in Nat /\ ~(s < s)
    BY SeriesAssumption
  <2>3. below \in SUBSET (Slots \ {s})
    BY <2>2
  <2>4. IsFiniteSet(below) /\ Cardinality(below) <= n - 1
    BY <2>1, <2>3, FS_Subset
  <2>5. Cardinality(below) \in Nat
    BY <2>4, FS_CardinalityType
  <2>6. QED
    BY <1>1, <2>4, <2>5 DEF Before
<1>3. ASSUME NEW s \in Slots, NEW t \in Slots, s < t PROVE Before[s] < Before[t]
  <2> DEFINE lower == {r \in Slots : r < s}
             upper == {r \in Slots : r < t}
  <2>1. s \in Nat /\ t \in Nat /\ \A r \in Slots : r \in Nat
    BY SeriesAssumption
  <2>2. upper \in SUBSET Slots /\ lower \in SUBSET upper /\ s \in upper /\ s \notin lower
    <3>1. \A r \in Slots : r < s => r < t
      BY <1>3, <2>1
    <3>2. s < t /\ ~(s < s)
      BY <1>3, <2>1
    <3>3. QED
      BY <3>1, <3>2
  <2>3. IsFiniteSet(upper)
    BY <1>1, <2>2, FS_Subset
  <2>4. Cardinality(lower) <= Cardinality(upper) /\ Cardinality(lower) # Cardinality(upper) /\ IsFiniteSet(lower)
    BY <2>2, <2>3, FS_Subset
  <2>5. Cardinality(lower) \in Nat /\ Cardinality(upper) \in Nat
    BY <2>3, <2>4, FS_CardinalityType
  <2>6. QED
    BY <2>4, <2>5 DEF Before
<1>4. Before \in Injection(Slots, 0..(n - 1))
  <2>1. Before \in [Slots -> 0..(n - 1)]
    BY <1>2 DEF Before
  <2>2. ASSUME NEW s \in Slots, NEW t \in Slots, Before[s] = Before[t] PROVE s = t
    <3>1. s \in Nat /\ t \in Nat /\ Before[s] \in Int /\ Before[t] \in Int
      BY <1>2, SeriesAssumption
    <3>2. ~(s < t) /\ ~(t < s)
      BY <1>3, <2>2, <3>1
    <3>3. QED
      BY <3>1, <3>2
  <2>3. QED
    BY <2>1, <2>2 DEF Injection, IsInjective
<1>5. IsFiniteSet(0..(n - 1)) /\ Cardinality(0..(n - 1)) = n
  <2>1. PICK b \in Int : b = n - 1
    BY <1>1
  <2>2. IsFiniteSet(0..b) /\ Cardinality(0..b) = IF 0 > b THEN 0 ELSE b - 0 + 1
    BY FS_Interval
  <2>3. QED
    BY <1>1, <2>1, <2>2
<1>6. Before \in Surjection(Slots, 0..(n - 1))
  BY <1>4, <1>5, FS_Injection
<1>7. QED
  BY <1>1, <1>4, <1>6 DEF Bijection

\* As many slots come before the m-th as its number says.
LEMMA FirstSlots ==
    ASSUME NEW m \in 0..Cardinality(Slots)
    PROVE  Cardinality({s \in Slots : Before[s] < m}) = m
<1> DEFINE n == Cardinality(Slots)
           lowest == {s \in Slots : Before[s] < m}
           f == [s \in lowest |-> Before[s]]
<1>1. /\ n \in Nat /\ Before \in [Slots -> 0..(n - 1)]
      /\ \A s, t \in Slots : Before[s] = Before[t] => s = t
      /\ \A k \in 0..(n - 1) : \E s \in Slots : Before[s] = k
  BY SlotsInOrder DEF Bijection, Injection, IsInjective, Surjection
<1>2. m \in Int /\ 0 <= m /\ m <= n
  BY <1>1
<1>3. f \in [lowest -> 0..(m - 1)]
  BY <1>1, <1>2
<1>4. \A s, t \in lowest : f[s] = f[t] => s = t
  BY <1>1
<1>5. \A k \in 0..(m - 1) : \E s \in lowest : f[s] = k
  BY <1>1, <1>2
<1>6. f \in Bijection(lowest, 0..(m - 1))
  <2> HIDE DEF f, lowest
  <2> QED
    BY <1>3, <1>4, <1>5 DEF Bijection, Injection, IsInjective, Surjection
<1>7. ExistsBijection(lowest, 0..(m - 1))
  BY <1>6 DEF ExistsBijection
<1>8. IsFiniteSet(lowest)
  BY FS_Subset, SeriesAssumption
<1>9. Cardinality(0..(m - 1)) = m
  BY <1>2, FS_Interval
<1>10. QED
  BY <1>7, <1>8, <1>9, FS_Bijection

\* The sum of one number, once per slot.
LEMMA SumOfSame ==
    ASSUME NEW q \in Int, NEW f \in [Slots -> {q}] PROVE SumOver(f) = q * Cardinality(Slots)
<1> DEFINE W == {T \in SUBSET Slots : Partial(f)[T] = q * Cardinality(T)}
<1>1. {} \in W
  BY PartialSums, FS_EmptySet DEF SumsUp
<1>2. ASSUME NEW T \in SUBSET Slots, T # {}, T \ {First(T)} \in W PROVE T \in W
  <2>1. First(T) \in T
    BY <1>2 DEF First
  <2>2. Partial(f)[T] = f[First(T)] + Partial(f)[T \ {First(T)}]
    BY <1>2, PartialSums DEF SumsUp
  <2>3. IsFiniteSet(T)
    BY FS_Subset, SeriesAssumption
  <2>4. Cardinality(T) \in Nat /\ Cardinality(T \ {First(T)}) = Cardinality(T) - 1
    BY <2>1, <2>3, FS_RemoveElement, FS_CardinalityType
  <2>5. f[First(T)] = q
    BY <2>1
  <2>6. Partial(f)[T] = q + q * (Cardinality(T) - 1)
    BY <1>2, <2>2, <2>4, <2>5
  <2>7. q + q * (Cardinality(T) - 1) = q * Cardinality(T)
    BY <2>4
  <2>8. QED
    BY <2>6, <2>7
<1>3. W = SUBSET Slots
  <2> HIDE DEF W
  <2>1. W \in SUBSET SUBSET Slots
    BY DEF W
  <2>2. QED
    BY <1>1, <1>2, <2>1, AllSubsets
<1>4. QED
  BY <1>3, SumIsPartial

\* A sum of ones and zeros counts the ones.
LEMMA SumOfOnes ==
    ASSUME NEW f \in [Slots -> {0, 1}] PROVE SumOver(f) = Cardinality({s \in Slots : f[s] = 1})
<1> DEFINE Ones(T) == {s \in T : f[s] = 1}
           W == {T \in SUBSET Slots : Partial(f)[T] = Cardinality(Ones(T))}
<1>1. {} \in W
  <2>1. Ones({}) = {}
    OBVIOUS
  <2>2. QED
    BY <2>1, PartialSums, FS_EmptySet DEF SumsUp
<1>2. ASSUME NEW T \in SUBSET Slots, T # {}, T \ {First(T)} \in W PROVE T \in W
  <2> DEFINE x == First(T)
  <2>1. x \in T
    BY <1>2 DEF First
  <2>2. Partial(f)[T] = f[x] + Partial(f)[T \ {x}]
    BY <1>2, PartialSums DEF SumsUp
  <2>3. Partial(f)[T \ {x}] = Cardinality(Ones(T \ {x}))
    BY <1>2
  <2>4. IsFiniteSet(Ones(T \ {x}))
    BY FS_Subset, SeriesAssumption
  <2>5. Cardinality(Ones(T \ {x})) \in Nat
    BY <2>4, FS_CardinalityType
  <2> HIDE DEF x
  <2>6. CASE f[x] = 1
    <3>1. Ones(T) = Ones(T \ {x}) \cup {x} /\ x \notin Ones(T \ {x})
      BY <2>1, <2>6
    <3>2. Cardinality(Ones(T)) = Cardinality(Ones(T \ {x})) + 1
      BY <2>4, <3>1, FS_AddElement
    <3>3. QED
      BY <2>2, <2>3, <2>5, <2>6, <3>2
  <2>7. CASE f[x] = 0
    <3>1. Ones(T) = Ones(T \ {x})
      BY <2>1, <2>7
    <3>2. Partial(f)[T] = Cardinality(Ones(T \ {x}))
      <4> HIDE DEF Ones
      <4> QED
        BY <2>2, <2>3, <2>5, <2>7
    <3>3. QED
      BY <3>1, <3>2
  <2>8. QED
    BY <2>1, <2>6, <2>7
<1>3. W = SUBSET Slots
  <2> HIDE DEF W
  <2>1. W \in SUBSET SUBSET Slots
    BY DEF W
  <2>2. QED
    BY <1>1, <1>2, <2>1, AllSubsets
<1>4. QED
  BY <1>3, SumIsPartial

\* What division and remainder say of a number.
LEMMA DivMod ==
    ASSUME NEW a \in Nat, NEW b \in Nat, b > 0, NEW q, NEW m, q = a \div b, m = a % b
    PROVE  q \in Int /\ m \in 0..(b - 1) /\ a = b * q + m
<1>1. q \in Int /\ m \in 0..(b - 1)
  OBVIOUS
<1>2. a = b * q + m
  BY SMTT(30)
<1>3. QED
  BY <1>1, <1>2

\* The shares the slots are told of make up the load asked for, whatever the slots are.
THEOREM SharesMakeUpLoad ==
    ASSUME NEW load \in Nat PROVE SumOver([s \in Slots |-> ShareOf(load, s)]) = load
<1> DEFINE n == Cardinality(Slots)
           q == load \div n
           m == load % n
           each == [s \in Slots |-> q]
           over == [s \in Slots |-> IF Before[s] < m THEN 1 ELSE 0]
           share == [s \in Slots |-> ShareOf(load, s)]
<1>1. n \in Nat /\ n > 0
  BY SlotsInOrder
<1>2. q \in Int /\ m \in 0..(n - 1) /\ load = n * q + m
  <2> SUFFICES ASSUME NEW b \in Nat, b > 0, b = n, NEW d, d = q, NEW r, r = m
               PROVE  d \in Int /\ r \in 0..(b - 1) /\ load = b * d + r
    BY <1>1
  <2>1. d = load \div b /\ r = load % b
    OBVIOUS
  <2> HIDE DEF q, m, n
  <2>2. QED
    BY <2>1, DivMod
<1>3. \A s \in Slots : ShareOf(load, s) = q + IF Before[s] < m THEN 1 ELSE 0
  BY DEF ShareOf, Before
<1>4. each \in [Slots -> {q}] /\ over \in [Slots -> {0, 1}]
  OBVIOUS
<1>5. SumOver(each) = q * n
  <2> HIDE DEF each, q
  <2> QED
    BY <1>2, <1>4, SumOfSame
<1>6. SumOver(over) = Cardinality({s \in Slots : over[s] = 1})
  <2> HIDE DEF over
  <2> QED
    BY <1>4, SumOfOnes
<1>7. {s \in Slots : over[s] = 1} = {s \in Slots : Before[s] < m}
  OBVIOUS
<1>8. Cardinality({s \in Slots : Before[s] < m}) = m
  <2>1. m \in 0..n
    BY <1>1, <1>2
  <2> HIDE DEF m
  <2>2. QED
    BY <2>1, FirstSlots
<1> HIDE DEF q, m, n
<1>9. /\ each \in [Slots -> Int] /\ over \in [Slots -> Int] /\ share \in [Slots -> Int]
      /\ \A s \in Slots : share[s] = each[s] + over[s]
  BY <1>2, <1>3
<1>10. SumOver(share) = SumOver(each) + SumOver(over)
  <2> HIDE DEF each, over, share
  <2> QED
    BY <1>9, SumsAdd
<1>11. q * n + m = load
  BY <1>1, <1>2
<1>12. QED
  BY <1>5, <1>6, <1>7, <1>8, <1>10, <1>11

-----------------------------------------------------------------------------
(* Series: every execution is in one place. *)

Flags == BOOLEAN
WorkerSet == [at : {"starting", "running", "absent"}, interval : Int, paused : Flags, load : Int, epoch : Int]
BeatPlaces == {"none", "asked", "release", "continue"}
BeatSet == [at : BeatPlaces, size : Int, ready : BOOLEAN, paused : Flags,
            load : Int, epoch : Int]
PerSlot == [Slots -> Int]

StreamSet == [at : {"new", "on", "off"}, fleet : BOOLEAN, records : Int, changes : Int, faults : Int]

SeriesType ==
    /\ stream \in StreamSet
    /\ wanting \in [paused : Flags, load : Int, epoch : Int]
    /\ worker \in [Slots -> WorkerSet] /\ beat \in [Slots -> BeatSet]
    /\ late \in PerSlot /\ pending \in PerSlot /\ recorded \in PerSlot /\ astray \in PerSlot
    /\ rows \in [all : Int, slot : PerSlot]

\* Nothing happens before the stream is on, and an answer carries no figures.
SeriesInv ==
    /\ SeriesType
    /\ SeriesAddsUp
    /\ stream.at = "new" => /\ worker = [s \in Slots |-> Fresh]
                            /\ \A s \in Slots : beat[s].at = "none"
    /\ \A s \in Slots : beat[s].at # "asked" => beat[s].size = 0

\* A slot's share is an integer.
LEMMA SharesAreInts ==
    ASSUME NEW load \in Int, NEW s \in Slots PROVE ShareOf(load, s) \in Int
<1>1. Cardinality(Slots) \in Nat /\ Cardinality(Slots) # 0
  BY FS_CardinalityType, FS_EmptySet, SeriesAssumption
<1> DEFINE n == Cardinality(Slots)
           before == Cardinality({r \in Slots : r < s})
<1>2. load \div n \in Int
  BY <1>1
<1>3. (IF before < load % n THEN 1 ELSE 0) \in Int
  OBVIOUS
<1> HIDE DEF n, before
<1>4. load \div n + (IF before < load % n THEN 1 ELSE 0) \in Int
  BY <1>2, <1>3
<1>5. QED
  BY <1>4 DEF ShareOf, n, before

\* Initially nothing was recorded.
LEMMA SeriesStarts == SeriesInit => SeriesInv
<1> SUFFICES ASSUME SeriesInit PROVE SeriesInv
  OBVIOUS
<1>1. SeriesType
  BY DEF SeriesInit, SeriesType, StreamSet, Flags, Fresh, Silent, Flags, NoLoad, WorkerSet, BeatPlaces, BeatSet, PerSlot
<1>2. SumOver(rows.slot) = 0
  BY SumOfZeros DEF SeriesInit
<1>3. QED
  BY <1>1, <1>2 DEF SeriesInit, SeriesInv, SeriesAddsUp, Fresh, Silent

\* An execution is in the worker's interval, once.
LEMMA Records == ASSUME SeriesInv, NEW s \in Slots, RecordStep(s) PROVE SeriesInv'
<1>1. worker'[s].interval = worker[s].interval + 1 /\ \A r \in Slots \ {s} : worker'[r] = worker[r]
  BY DEF RecordStep, SeriesInv, SeriesType, WorkerSet
<1>2. SeriesType'
  BY DEF RecordStep, SeriesInv, SeriesType, WorkerSet, PerSlot
<1>3. SeriesAddsUp'
  BY <1>1 DEF RecordStep, SeriesInv, SeriesType, SeriesAddsUp, PerSlot, WorkerSet, BeatPlaces, BeatSet
<1>4. QED
  BY <1>2, <1>3 DEF RecordStep, SeriesInv, Running


\* What the operator wants moves no figures.
LEMMA LoadChanges ==
    ASSUME SeriesInv, ChangeWanted
    PROVE  SeriesInv'
<1>1. SeriesType'
  <2> DEFINE WantingSet == [paused : Flags, load : Int, epoch : Int]
  <2>1. wanting \in WantingSet /\ stream \in StreamSet
    BY DEF SeriesInv, SeriesType
  <2>2. (~wanting.paused) \in Flags
    BY DEF Flags
  <2>3. wanting' \in WantingSet
    <3>1. CASE wanting' = [wanting EXCEPT !.paused = ~@]
      BY <2>1, <2>2, <3>1
    <3>2. CASE \E load \in 1..(Cardinality(Slots) + 1) : wanting' = [wanting EXCEPT !.load = load]
      BY <2>1, <3>2
    <3>3. CASE wanting' = [wanting EXCEPT !.epoch = @ + 1]
      BY <2>1, <3>3
    <3>4. QED
      BY <3>1, <3>2, <3>3 DEF ChangeWanted
  <2>4. stream' \in StreamSet
    BY <2>1 DEF ChangeWanted, StreamSet
  <2>5. QED
    BY <2>3, <2>4 DEF ChangeWanted, SeriesInv, SeriesType
<1>2. SeriesAddsUp'
  BY DEF ChangeWanted, SeriesInv, SeriesAddsUp
<1>3. QED
  BY <1>1, <1>2 DEF ChangeWanted, SeriesInv, SeriesType, StreamSet

\* What a step makes of a beat is one: a question, a release, an answer.
Question(n, p) == [Silent EXCEPT !.at = "asked", !.size = n, !.ready = p]
Release(b, n, e) == [b EXCEPT !.at = "release", !.size = n, !.epoch = e]
Continue(b, n, e, p, l) == [b EXCEPT !.at = "continue", !.size = n, !.epoch = e, !.paused = p, !.load = l]

LEMMA QuestionIsBeat ==
    ASSUME NEW n \in Int, NEW p \in BOOLEAN
    PROVE  Question(n, p) \in BeatSet /\ Question(n, p).at = "asked" /\ Question(n, p).size = n
<1>1. Silent \in BeatSet
  BY DEF Silent, Flags, BeatPlaces, BeatSet, NoLoad
<1>2. ASSUME NEW b \in BeatSet, NEW a \in BeatPlaces
      PROVE  LET c == [b EXCEPT !.at = a, !.size = n, !.ready = p]
             IN  c \in BeatSet /\ c.at = a /\ c.size = n
  BY DEF BeatSet
<1>3. "asked" \in BeatPlaces
  BY DEF BeatPlaces
<1>4. QED
  BY Zenon, <1>1, <1>2, <1>3 DEF Question

LEMMA ReleaseIsBeat ==
    ASSUME NEW b \in BeatSet, NEW n \in Int, NEW e \in Int
    PROVE  /\ Release(b, n, e) \in BeatSet /\ Release(b, n, e).at = "release"
           /\ Release(b, n, e).size = n
<1>1. ASSUME NEW a \in BeatPlaces
      PROVE  LET c == [b EXCEPT !.at = a, !.size = n, !.epoch = e]
             IN  c \in BeatSet /\ c.at = a /\ c.size = n
  BY DEF BeatSet
<1>2. "release" \in BeatPlaces
  BY DEF BeatPlaces
<1>3. QED
  BY Zenon, <1>1, <1>2 DEF Release

LEMMA ContinueIsBeat ==
    ASSUME NEW b \in BeatSet, NEW n \in Int, NEW e \in Int, NEW p \in Flags, NEW l \in Int
    PROVE  /\ Continue(b, n, e, p, l) \in BeatSet /\ Continue(b, n, e, p, l).at = "continue"
           /\ Continue(b, n, e, p, l).size = n
<1>1. ASSUME NEW a \in BeatPlaces
      PROVE  LET c == [b EXCEPT !.at = a, !.size = n, !.epoch = e, !.paused = p, !.load = l]
             IN  c \in BeatSet /\ c.at = a /\ c.size = n
  BY DEF BeatSet
<1>2. "continue" \in BeatPlaces
  BY DEF BeatPlaces
<1>3. QED
  BY Zenon, <1>1, <1>2 DEF Continue

\* take_interval: what the worker held travels with the heartbeat.
LEMMA BeatIsSent ==
    ASSUME SeriesInv, NEW s \in Slots, SendBeat(s)
    PROVE  SeriesInv'
<1>1. /\ worker'[s].interval = 0 /\ beat'[s].size = worker[s].interval /\ beat[s].size = 0
      /\ beat'[s].at = "asked"
      /\ \A r \in Slots \ {s} : worker'[r] = worker[r] /\ beat'[r] = beat[r]
  BY DEF SendBeat, LeftOver, Silent, SeriesInv, SeriesType, WorkerSet, BeatPlaces, BeatSet, PerSlot
<1>2. SeriesType'
  <2>1. worker[s].interval \in Int /\ (worker[s].at = "starting") \in BOOLEAN
    BY DEF SeriesInv, SeriesType, WorkerSet
  <2>2. beat' = [beat EXCEPT ![s] = Question(worker[s].interval, worker[s].at = "starting")]
    BY DEF SendBeat, Question
  <2>3. beat' \in [Slots -> BeatSet]
    BY <2>1, <2>2, QuestionIsBeat DEF SeriesInv, SeriesType
  <2>4. worker' \in [Slots -> WorkerSet]
    BY DEF SendBeat, LeftOver, SeriesInv, SeriesType, WorkerSet
  <2>5. QED
    BY <2>3, <2>4 DEF SendBeat, SeriesInv, SeriesType
<1>3. SeriesAddsUp'
  BY <1>1 DEF SendBeat, SeriesInv, SeriesType, WorkerSet, BeatPlaces, BeatSet, PerSlot, SeriesAddsUp
<1>4. QED
  BY <1>1, <1>2, <1>3 DEF SendBeat, SeriesInv


\* The handler keeps what the heartbeat brought, and its answer brings nothing.
LEMMA BeatArriving ==
    ASSUME SeriesInv, NEW s \in Slots, BeatArrives(s)
    PROVE  SeriesInv'
<1>1. Reply(s) \in BeatSet /\ Reply(s).size = 0 /\ Reply(s).at # "none"
  <2>1. wanting.load # NoLoad => ShareOf(wanting.load, s) \in Int
    BY SharesAreInts DEF SeriesInv, SeriesType
  <2>2. beat[s] \in BeatSet /\ wanting \in [paused : Flags, load : Int, epoch : Int]
    BY DEF SeriesInv, SeriesType
  <2>3. CASE beat[s].ready
    <3>1. PICK e \in Int : e = wanting.epoch
      BY <2>2
    <3>2. PICK b \in BeatSet : b = beat[s]
      BY <2>2
    <3>3. Reply(s) = Release(b, 0, e)
      BY <2>3, <3>1, <3>2 DEF Reply, Release
    <3>4. Release(b, 0, e) \in BeatSet /\ Release(b, 0, e).at = "release" /\ Release(b, 0, e).size = 0
      BY ReleaseIsBeat
    <3>5. QED
      BY <3>3, <3>4
  <2>4. CASE ~beat[s].ready
    <3>1. PICK load \in Int : load = IF wanting.load = NoLoad THEN NoLoad ELSE ShareOf(wanting.load, s)
      BY <2>1 DEF NoLoad
    <3>2. PICK e \in Int : e = wanting.epoch
      BY <2>2
    <3>3. PICK p \in Flags : p = wanting.paused
      BY <2>2
    <3>4. PICK b \in BeatSet : b = beat[s]
      BY <2>2
    <3>5. Reply(s) = Continue(b, 0, e, p, load)
      BY <2>4, <3>1, <3>2, <3>3, <3>4 DEF Reply, Continue
    <3>6. /\ Continue(b, 0, e, p, load) \in BeatSet
          /\ Continue(b, 0, e, p, load).at = "continue" /\ Continue(b, 0, e, p, load).size = 0
      BY ContinueIsBeat
    <3>7. QED
      BY <3>5, <3>6
  <2>5. QED
    BY <2>3, <2>4
<1>2. /\ beat' = [beat EXCEPT ![s] = Reply(s)] /\ pending' = [pending EXCEPT ![s] = @ + beat[s].size]
      /\ UNCHANGED <<stream, wanting, worker, late, rows, recorded, astray>> /\ stream.at = "on"
  BY DEF BeatArrives, Absorb
<1>3. /\ beat'[s].size = 0 /\ \A r \in Slots \ {s} : beat'[r] = beat[r]
      /\ pending'[s] = pending[s] + beat[s].size /\ \A r \in Slots \ {s} : pending'[r] = pending[r]
  BY <1>1, <1>2 DEF SeriesInv, SeriesType, PerSlot
<1>4. SeriesType'
  BY <1>1, <1>2 DEF SeriesInv, SeriesType, BeatSet, PerSlot
<1>5. SeriesAddsUp'
  BY <1>2, <1>3 DEF SeriesInv, SeriesType, SeriesAddsUp, BeatSet, WorkerSet, PerSlot
<1>6. QED
  BY <1>2, <1>3, <1>4, <1>5 DEF SeriesInv


\* The answer changes what the worker was told, not what it holds.
LEMMA BeatIsHeeded ==
    ASSUME SeriesInv, NEW s \in Slots, BeatAnswered(s)
    PROVE  SeriesInv'
<1>1. Heeds(worker[s], beat[s]) \in WorkerSet /\ Heeds(worker[s], beat[s]).interval = worker[s].interval
  <2> DEFINE w == worker[s]
             told == [w EXCEPT !.epoch = IF beat[s].epoch > @ THEN beat[s].epoch ELSE @]
  <2>1. w \in WorkerSet /\ beat[s] \in BeatSet
    BY DEF SeriesInv, SeriesType
  <2>2. told \in WorkerSet /\ told.interval = w.interval
    BY <2>1 DEF WorkerSet, BeatPlaces, BeatSet
  <2>3. Heeds(w, beat[s]) =
          IF beat[s].at = "release" THEN [told EXCEPT !.at = "running"]
          ELSE [told EXCEPT !.paused = beat[s].paused,
                            !.load = IF beat[s].load = NoLoad THEN @ ELSE beat[s].load]
    BY DEF Heeds
  <2> HIDE DEF told, w
  <2>4. Heeds(w, beat[s]) \in WorkerSet /\ Heeds(w, beat[s]).interval = told.interval
    BY <2>1, <2>2, <2>3 DEF WorkerSet, BeatPlaces, BeatSet
  <2>5. QED
    BY <2>2, <2>4 DEF w
<1>2. /\ worker' = [worker EXCEPT ![s] = Heeds(worker[s], beat[s])] /\ beat' = [beat EXCEPT ![s] = Silent]
      /\ UNCHANGED <<stream, wanting, late, pending, rows, recorded, astray>> /\ stream.at = "on"
      /\ beat[s].size = 0
  BY DEF BeatAnswered, SeriesInv
<1>3. /\ worker'[s].interval = worker[s].interval /\ beat'[s].size = 0
      /\ \A r \in Slots \ {s} : worker'[r] = worker[r] /\ beat'[r] = beat[r]
  BY <1>1, <1>2 DEF SeriesInv, SeriesType, Silent
<1>4. SeriesType'
  BY <1>1, <1>2 DEF SeriesInv, SeriesType, BeatPlaces, BeatSet, Silent, Flags, NoLoad
<1>5. SeriesAddsUp'
  BY <1>2, <1>3 DEF SeriesInv, SeriesType, SeriesAddsUp, BeatSet, WorkerSet, PerSlot
<1>6. QED
  BY <1>2, <1>3, <1>4, <1>5 DEF SeriesInv


\* What a lost heartbeat held is lost, or still under way.
LEMMA BeatIsMissed ==
    ASSUME SeriesInv, NEW s \in Slots, BeatMissed(s)
    PROVE  SeriesInv'
<1>1. /\ beat' = [beat EXCEPT ![s] = Silent] /\ stream'.at = stream.at /\ stream' \in StreamSet
      /\ UNCHANGED <<wanting, worker, pending, rows, recorded>> /\ beat[s].at # "none"
      /\ \/ late' = [late EXCEPT ![s] = @ + beat[s].size] /\ UNCHANGED astray
         \/ astray' = [astray EXCEPT ![s] = @ + beat[s].size] /\ UNCHANGED late
  <2>1. stream'.at = stream.at /\ stream' \in StreamSet
    BY DEF BeatMissed, Mishap, SeriesInv, SeriesType, StreamSet
  <2>2. QED
    BY <2>1 DEF BeatMissed
<1>2. /\ beat'[s].size = 0 /\ beat'[s].at = "none" /\ \A r \in Slots \ {s} : beat'[r] = beat[r]
  BY <1>1 DEF SeriesInv, SeriesType, Silent
<1>3. SeriesType'
  BY <1>1 DEF SeriesInv, SeriesType, BeatPlaces, BeatSet, Silent, Flags, NoLoad, PerSlot
<1>4. \/ late'[s] = late[s] + beat[s].size /\ (\A r \in Slots \ {s} : late'[r] = late[r]) /\ UNCHANGED astray
      \/ astray'[s] = astray[s] + beat[s].size /\ (\A r \in Slots \ {s} : astray'[r] = astray[r]) /\ UNCHANGED late
  BY <1>1 DEF SeriesInv, SeriesType, PerSlot
<1>5. SeriesAddsUp'
  BY <1>1, <1>2, <1>4 DEF SeriesInv, SeriesType, SeriesAddsUp, BeatSet, WorkerSet, PerSlot
<1>6. QED
  BY <1>1, <1>2, <1>3, <1>5 DEF SeriesInv


\* A heartbeat that arrives late is kept like any other.
LEMMA LateBeatArrives ==
    ASSUME SeriesInv, NEW s \in Slots, LateArrives(s)
    PROVE  SeriesInv'
<1>1. SeriesType'
  BY DEF LateArrives, Absorb, SeriesInv, SeriesType, PerSlot
<1>2. SeriesAddsUp'
  BY DEF LateArrives, Absorb, SeriesInv, SeriesType, SeriesAddsUp, BeatSet, WorkerSet, PerSlot
<1>3. QED
  BY <1>1, <1>2 DEF LateArrives, SeriesInv


\* What a worker held when it died is lost.
LEMMA WorkerIsReplaced ==
    ASSUME SeriesInv, NEW s \in Slots, WorkerReplaced(s)
    PROVE  SeriesInv'
<1>1. /\ worker'[s].interval = 0 /\ beat'[s].size = 0
      /\ \A r \in Slots \ {s} : worker'[r] = worker[r] /\ beat'[r] = beat[r]
      /\ astray'[s] = astray[s] + (worker[s].interval + beat[s].size)
      /\ \A r \in Slots \ {s} : astray'[r] = astray[r]
  BY DEF WorkerReplaced, SeriesInv, SeriesType, Fresh, Silent, PerSlot, WorkerSet, BeatPlaces, BeatSet
<1>2. SeriesType'
  <2>1. Fresh \in WorkerSet /\ Silent \in BeatSet
    BY DEF Fresh, Silent, Flags, NoLoad, WorkerSet, BeatPlaces, BeatSet
  <2>2. stream' \in StreamSet
    BY DEF WorkerReplaced, Mishap, SeriesInv, SeriesType, StreamSet
  <2>3. worker[s].interval \in Int /\ beat[s].size \in Int
    BY DEF SeriesInv, SeriesType, WorkerSet, BeatPlaces, BeatSet
  <2>4. QED
    BY <2>1, <2>2, <2>3 DEF WorkerReplaced, SeriesInv, SeriesType, PerSlot
<1>3. SeriesAddsUp'
  BY <1>1 DEF WorkerReplaced, SeriesInv, SeriesType, SeriesAddsUp, BeatSet, WorkerSet, PerSlot
<1>4. stream'.at = stream.at /\ stream.at = "on"
  BY DEF WorkerReplaced, Mishap, SeriesInv, SeriesType, StreamSet
<1>5. QED
  BY <1>1, <1>2, <1>3, <1>4 DEF SeriesInv, WorkerReplaced

\* A sample adds what it took to the aggregate row and to the slots'.
LEMMA SampleAddsUp ==
    ASSUME SeriesInv, NEW taken \in PerSlot, Sampled(taken)
    PROVE  /\ rows' \in [all : Int, slot : PerSlot] /\ rows'.all = SumOver(rows'.slot)
           /\ \A s \in Slots : rows'.slot[s] = rows.slot[s] + taken[s]
<1> DEFINE slot == [s \in Slots |-> rows.slot[s] + taken[s]]
<1>1. rows.slot \in [Slots -> Int] /\ taken \in [Slots -> Int] /\ rows.all \in Int
  BY DEF SeriesInv, SeriesType, PerSlot
<1>2. slot \in [Slots -> Int] /\ \A s \in Slots : slot[s] = rows.slot[s] + taken[s]
  BY <1>1
<1>3. rows' = [all |-> rows.all + SumOver(taken), slot |-> slot]
  BY DEF Sampled
<1> HIDE DEF slot
<1>4. SumOver(slot) = SumOver(rows.slot) + SumOver(taken)
  BY <1>1, <1>2, SumsAdd
<1>5. SumOver(taken) \in Int
  BY <1>1, SumIsInt, SumIsPartial
<1>6. rows.all = SumOver(rows.slot)
  BY DEF SeriesInv, SeriesAddsUp
<1>7. rows'.all = SumOver(slot) /\ rows'.slot = slot
  BY <1>3, <1>4, <1>6
<1>8. rows' \in [all : Int, slot : PerSlot]
  BY <1>1, <1>2, <1>3, <1>5 DEF PerSlot
<1>9. QED
  BY <1>2, <1>7, <1>8


\* _watch: what was pending is in the rows.
LEMMA WatchTakesSample ==
    ASSUME SeriesInv, WatchSamples
    PROVE  SeriesInv'
<1>1. pending \in PerSlot /\ Sampled(pending) /\ pending' = TakeIntervals
      /\ UNCHANGED <<stream, wanting, worker, beat, late, recorded, astray>> /\ stream.at = "on"
  BY DEF WatchSamples, SeriesInv, SeriesType
<1>2. /\ rows' \in [all : Int, slot : PerSlot] /\ rows'.all = SumOver(rows'.slot)
      /\ \A s \in Slots : rows'.slot[s] = rows.slot[s] + pending[s]
  BY <1>1, SampleAddsUp
<1>3. pending' \in PerSlot /\ \A s \in Slots : pending'[s] = 0
  BY <1>1 DEF TakeIntervals, PerSlot
<1>4. SeriesType'
  BY <1>1, <1>2, <1>3 DEF SeriesInv, SeriesType
<1>5. SeriesAddsUp'
  <2>1. SumOver(rows.slot)' = SumOver(rows'.slot)
    OBVIOUS
  <2>2. QED
    BY <1>1, <1>2, <1>3, <2>1 DEF SeriesInv, SeriesType, SeriesAddsUp, BeatSet, WorkerSet, PerSlot
<1>6. QED
  BY <1>1, <1>4, <1>5 DEF SeriesInv


\* _publish_loop: the interval is in the rows, or lost with the write that failed.
LEMMA RunTakesSample ==
    ASSUME SeriesInv, NEW s \in Slots, PublishSample(s)
    PROVE  SeriesInv'
<1> DEFINE taken == [r \in Slots |-> IF r = s THEN worker[s].interval ELSE 0]
<1>1. /\ stream'.at = stream.at /\ stream.at = "on" /\ stream' \in StreamSet
      /\ worker' = [worker EXCEPT ![s].interval = 0]
      /\ UNCHANGED <<wanting, beat, late, pending, recorded>>
      /\ \/ Sampled(taken) /\ UNCHANGED astray
         \/ astray' = [astray EXCEPT ![s] = @ + worker[s].interval] /\ UNCHANGED rows
  <2>1. stream'.at = stream.at /\ stream' \in StreamSet
    BY DEF PublishSample, Mishap, SeriesInv, SeriesType, StreamSet
  <2>2. QED
    BY <2>1 DEF PublishSample, LeftOver
<1>2. taken \in PerSlot /\ taken[s] = worker[s].interval /\ \A r \in Slots \ {s} : taken[r] = 0
  BY DEF SeriesInv, SeriesType, WorkerSet, PerSlot
<1>3. worker'[s].interval = 0 /\ \A r \in Slots \ {s} : worker'[r] = worker[r]
  BY <1>1 DEF SeriesInv, SeriesType, WorkerSet
<1>4. worker' \in [Slots -> WorkerSet]
  BY <1>1 DEF SeriesInv, SeriesType, WorkerSet
<1> HIDE DEF taken
<1>5. CASE Sampled(taken) /\ UNCHANGED astray
  <2>1. /\ rows' \in [all : Int, slot : PerSlot] /\ rows'.all = SumOver(rows'.slot)
        /\ \A r \in Slots : rows'.slot[r] = rows.slot[r] + taken[r]
    BY <1>2, <1>5, SampleAddsUp
  <2>2. SeriesType'
    BY <1>1, <1>4, <1>5, <2>1 DEF SeriesInv, SeriesType
  <2>3. SumOver(rows.slot)' = SumOver(rows'.slot)
    OBVIOUS
  <2>4. SeriesAddsUp'
    BY <1>1, <1>2, <1>3, <1>5, <2>1, <2>3 DEF SeriesInv, SeriesType, SeriesAddsUp, BeatSet, WorkerSet, PerSlot
  <2>5. QED
    BY <1>1, <2>2, <2>4 DEF SeriesInv
<1>6. CASE astray' = [astray EXCEPT ![s] = @ + worker[s].interval] /\ UNCHANGED rows
  <2>1. astray'[s] = astray[s] + worker[s].interval /\ \A r \in Slots \ {s} : astray'[r] = astray[r]
    BY <1>6 DEF SeriesInv, SeriesType, PerSlot
  <2>2. SeriesType'
    BY <1>1, <1>4, <1>6 DEF SeriesInv, SeriesType, WorkerSet, PerSlot
  <2>3. SeriesAddsUp'
    BY <1>1, <1>3, <1>6, <2>1 DEF SeriesInv, SeriesType, SeriesAddsUp, BeatSet, WorkerSet, PerSlot
  <2>4. QED
    BY <1>1, <2>2, <2>3 DEF SeriesInv
<1>7. QED
  BY <1>1, <1>5, <1>6


\* A run starts with nothing recorded.
LEMMA StreamOpens ==
    ASSUME SeriesInv, NEW x \in Streams, OpenStream(x)
    PROVE  SeriesInv'
<1>1. /\ stream.at = "new" /\ stream'.at = "on" /\ stream' \in StreamSet
      /\ worker' = IF x.fleet THEN worker
                   ELSE [s \in Slots |-> [Fresh EXCEPT !.at = IF s = Min(Slots) THEN "running" ELSE "absent"]]
      /\ UNCHANGED <<wanting, beat, late, pending, rows, recorded, astray>>
  BY SeriesAssumption DEF OpenStream, StreamSet
<1>2. \A s \in Slots : worker[s].interval = 0
  BY <1>1 DEF SeriesInv, Fresh
<1>3. worker' \in [Slots -> WorkerSet] /\ \A s \in Slots : worker'[s].interval = 0
  BY <1>1, <1>2 DEF SeriesInv, SeriesType, Fresh, Flags, WorkerSet, NoLoad
<1>4. SeriesType'
  BY <1>1, <1>3 DEF SeriesInv, SeriesType
<1>5. SeriesAddsUp'
  BY <1>1, <1>2, <1>3 DEF SeriesInv, SeriesType, SeriesAddsUp, PerSlot
<1>6. QED
  BY <1>1, <1>4, <1>5 DEF SeriesInv

\* Every step keeps the invariant.
LEMMA SeriesKeeps == SeriesInv /\ [SeriesNext]_seriesVars => SeriesInv'
<1> SUFFICES ASSUME SeriesInv, [SeriesNext]_seriesVars PROVE SeriesInv'
  OBVIOUS
<1>1. CASE \E x \in Streams : OpenStream(x)
  BY <1>1, StreamOpens
<1>2. CASE ChangeWanted
  BY <1>2, LoadChanges
<1>3. CASE WatchSamples
  BY <1>3, WatchTakesSample
<1>4. CASE CloseStream
  BY <1>4 DEF CloseStream, SeriesInv, SeriesType, StreamSet, SeriesAddsUp
<1>5. ASSUME NEW s \in Slots, \/ BeatStep(s) \/ RecordStep(s) \/ BeatMissed(s) \/ LateArrives(s)
                              \/ WorkerReplaced(s) \/ PublishSample(s)
      PROVE  SeriesInv'
  BY <1>5, BeatIsSent, BeatArriving, BeatIsHeeded, Records, BeatIsMissed, LateBeatArrives,
     WorkerIsReplaced, RunTakesSample DEF BeatStep
<1>6. CASE UNCHANGED seriesVars
  BY <1>6 DEF seriesVars, SeriesInv, SeriesType, SeriesAddsUp
<1>7. QED
  BY <1>1, <1>2, <1>3, <1>4, <1>5, <1>6 DEF SeriesNext

\* Every execution recorded is in one sample, waits for one, or was lost, once; and the
\* aggregate rows add up to the slots', for any number of slots, executions and losses.
THEOREM SeriesAddsUpHolds == SeriesSpec => []SeriesAddsUp
<1>1. SeriesInv => SeriesAddsUp
  BY DEF SeriesInv
<1>2. QED
  BY <1>1, SeriesStarts, SeriesKeeps, PTL DEF SeriesSpec
=============================================================================
