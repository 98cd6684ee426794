-------------------------------- MODULE Series --------------------------------
(***************************************************************************)
(* The live side of a run: the figures since the last sample that travel   *)
(* from the load to the time series, and the pause, load and cache epoch   *)
(* that travel back (results.py, managed.py heartbeats, fleet.py heartbeat *)
(* and _watch, runner.py _publish_loop, samples.py).                       *)
(*                                                                         *)
(* A fleet's workers take their interval, send it with a heartbeat and     *)
(* never send it again; the supervisor keeps what arrives until its next   *)
(* sample.  An in-process run samples its own interval.  A document is the *)
(* number of executions in it.  An action is what happens between two      *)
(* awaits, or one handler.                                                 *)
(***************************************************************************)
EXTENDS Integers, FiniteSets, FiniteSetsExt

CONSTANTS
    Slots,        \* 0..n-1
    Streams       \* bounds: [fleet, records, changes, faults]

ASSUME SeriesAssumption ==
    /\ IsFiniteSet(Slots) /\ Slots # {} /\ Slots \subseteq Nat
    /\ \A x \in Streams : /\ x.fleet \in BOOLEAN
                          /\ x.records \in Nat /\ x.changes \in Nat /\ x.faults \in Nat

VARIABLES
    stream,     \* whether it is a fleet's, and on; what may still be recorded, changed and lost
    wanting,    \* the run row and the manager: pause, load and epoch
    worker,     \* per slot: its phase, its interval, what it was told
    beat,       \* per slot: the heartbeat it waits for
    late,       \* per slot: a heartbeat it gave up on that may yet arrive
    pending,    \* FleetRun._intervals
    rows,       \* sampled executions, in the aggregate rows and in each slot's
    recorded, astray  \* history, per slot: executions; those no sample will show

seriesVars == <<stream, wanting, worker, beat, late, pending, rows, recorded, astray>>

NoLoad == -1
Fresh == [at |-> "starting", interval |-> 0, paused |-> FALSE, load |-> NoLoad, epoch |-> 0]
Silent == [at |-> "none", size |-> 0, ready |-> FALSE, paused |-> FALSE, load |-> NoLoad, epoch |-> 0]

Mishap == stream.faults > 0 /\ stream' = [stream EXCEPT !.faults = @ - 1]
Running(s) == stream.at = "on" /\ worker[s].at = "running"

-----------------------------------------------------------------------------
(* The load, and what the operator and the evictions want of it. *)

\* RunStats.record: in the totals and in the interval at once.
RecordStep(s) ==
    /\ Running(s) /\ ~worker[s].paused /\ recorded[s] < stream.records
    /\ worker' = [worker EXCEPT ![s].interval = @ + 1]
    /\ recorded' = [recorded EXCEPT ![s] = @ + 1]
    /\ UNCHANGED <<stream, wanting, beat, late, pending, rows, astray>>

\* slot_load: the run's load dealt evenly, what is left over to the lowest slots.
ShareOf(load, s) ==
    LET n == Cardinality(Slots)
        before == Cardinality({r \in Slots : r < s})
    IN  load \div n + IF before < load % n THEN 1 ELSE 0

ChangeWanted ==
    /\ stream.at = "on" /\ stream.fleet /\ stream.changes > 0
    /\ stream' = [stream EXCEPT !.changes = @ - 1]
    /\ \/ wanting' = [wanting EXCEPT !.paused = ~@]
       \/ \E load \in 1..(Cardinality(Slots) + 1) : wanting' = [wanting EXCEPT !.load = load]
       \/ wanting' = [wanting EXCEPT !.epoch = @ + 1]
    /\ UNCHANGED <<worker, beat, late, pending, rows, recorded, astray>>

-----------------------------------------------------------------------------
(* A heartbeat. *)

\* take_interval: the figures since the last one, and a fresh interval.
AllOfIt(n) == n
LeftOver(n) == 0

SendBeat(s) ==
    /\ stream.at = "on" /\ stream.fleet /\ worker[s].at \in {"starting", "running"} /\ beat[s].at = "none"
    /\ beat' = [beat EXCEPT ![s] = [Silent EXCEPT !.at = "asked", !.size = worker[s].interval,
                                                  !.ready = worker[s].at = "starting"]]
    /\ worker' = [worker EXCEPT ![s].interval = LeftOver(@)]
    /\ UNCHANGED <<stream, wanting, late, pending, rows, recorded, astray>>

\* absorb, and the reply: what the run row and the manager say at that moment. One who is
\* not yet running is told to start, and nothing of a pause or a load.
Absorb(s, n) == pending' = [pending EXCEPT ![s] = @ + n]
Reply(s) ==
    IF beat[s].ready THEN [beat[s] EXCEPT !.at = "release", !.size = 0, !.epoch = wanting.epoch]
    ELSE [beat[s] EXCEPT !.at = "continue", !.size = 0, !.epoch = wanting.epoch,
                !.paused = wanting.paused,
                !.load = IF wanting.load = NoLoad THEN NoLoad ELSE ShareOf(wanting.load, s)]
BeatArrives(s) ==
    /\ stream.at = "on" /\ beat[s].at = "asked"
    /\ Absorb(s, beat[s].size)
    /\ beat' = [beat EXCEPT ![s] = Reply(s)]
    /\ UNCHANGED <<stream, wanting, worker, late, rows, recorded, astray>>

HeedsOnlyLoad(w, reply) ==
    IF reply.at = "release" THEN [w EXCEPT !.at = "running"]
    ELSE [w EXCEPT !.load = IF reply.load = NoLoad THEN @ ELSE reply.load]

\* The reply is applied; pause and load are states, not commands.
Heeds(w, reply) ==
    LET told == [w EXCEPT !.epoch = IF reply.epoch > @ THEN reply.epoch ELSE @]
    IN  IF reply.at = "release" THEN [told EXCEPT !.at = "running"]
        ELSE [told EXCEPT !.paused = reply.paused,
                          !.load = IF reply.load = NoLoad THEN @ ELSE reply.load]
BeatAnswered(s) ==
    /\ stream.at = "on" /\ beat[s].at \in {"release", "continue"}
    /\ worker' = [worker EXCEPT ![s] = Heeds(@, beat[s])]
    /\ beat' = [beat EXCEPT ![s] = Silent]
    /\ UNCHANGED <<stream, wanting, late, pending, rows, recorded, astray>>

\* The request is lost, or its answer is, or it takes too long and arrives later.
BeatMissed(s) ==
    /\ beat[s].at # "none" /\ Mishap
    /\ beat' = [beat EXCEPT ![s] = Silent]
    /\ \/ /\ beat[s].at = "asked" /\ late' = [late EXCEPT ![s] = @ + beat[s].size]
          /\ UNCHANGED astray
       \/ astray' = [astray EXCEPT ![s] = @ + beat[s].size] /\ UNCHANGED late
    /\ UNCHANGED <<wanting, worker, pending, rows, recorded>>
LateArrives(s) ==
    /\ stream.at = "on" /\ late[s] > 0
    /\ Absorb(s, late[s]) /\ late' = [late EXCEPT ![s] = 0]
    /\ UNCHANGED <<stream, wanting, worker, beat, rows, recorded, astray>>

\* The worker's process dies; the slot is claimed by a new one.
WorkerReplaced(s) ==
    /\ stream.at = "on" /\ stream.fleet /\ Mishap
    /\ worker' = [worker EXCEPT ![s] = Fresh]
    /\ beat' = [beat EXCEPT ![s] = Silent]
    /\ astray' = [astray EXCEPT ![s] = @ + worker[s].interval + beat[s].size]
    /\ UNCHANGED <<wanting, late, pending, rows, recorded>>

-----------------------------------------------------------------------------
(* Samples. *)

SumOver(f) == MapThenSumSet(LAMBDA s : f[s], Slots)
Sampled(taken) == rows' = [all |-> rows.all + SumOver(taken),
                           slot |-> [s \in Slots |-> rows.slot[s] + taken[s]]]

\* A tick of the watch: an aggregate row, and one for each slot that sent something.
TakeIntervals == [s \in Slots |-> 0]
WatchSamples ==
    /\ stream.at = "on" /\ stream.fleet /\ \E s \in Slots : pending[s] > 0
    /\ Sampled(pending) /\ pending' = TakeIntervals
    /\ UNCHANGED <<stream, wanting, worker, beat, late, recorded, astray>>

\* _publish_loop of an in-process run: the interval is taken before the row is written, and
\* gone if it cannot be.
PublishSample(s) ==
    /\ stream.at = "on" /\ ~stream.fleet /\ worker[s].interval > 0
    /\ worker' = [worker EXCEPT ![s].interval = LeftOver(@)]
    /\ \/ Sampled([r \in Slots |-> IF r = s THEN worker[s].interval ELSE 0])
          /\ UNCHANGED <<stream, astray>>
       \/ Mishap /\ astray' = [astray EXCEPT ![s] = @ + worker[s].interval] /\ UNCHANGED rows
    /\ UNCHANGED <<wanting, beat, late, pending, recorded>>

-----------------------------------------------------------------------------

SeriesInit ==
    /\ stream = [at |-> "new", fleet |-> FALSE, records |-> 0, changes |-> 0, faults |-> 0]
    /\ wanting = [paused |-> FALSE, load |-> NoLoad, epoch |-> 0]
    /\ worker = [s \in Slots |-> Fresh] /\ beat = [s \in Slots |-> Silent]
    /\ late = [s \in Slots |-> 0] /\ pending = [s \in Slots |-> 0]
    /\ rows = [all |-> 0, slot |-> [s \in Slots |-> 0]]
    /\ recorded = [s \in Slots |-> 0] /\ astray = [s \in Slots |-> 0]

\* A fleet's workers wait for their release; an in-process run is one that runs at once.
OpenStream(x) ==
    /\ stream.at = "new"
    /\ stream' = [at |-> "on", fleet |-> x.fleet, records |-> x.records, changes |-> x.changes,
                  faults |-> x.faults]
    /\ worker' = IF x.fleet THEN worker
                 ELSE [s \in Slots |-> [Fresh EXCEPT !.at = IF s = Min(Slots) THEN "running" ELSE "absent"]]
    /\ UNCHANGED <<wanting, beat, late, pending, rows, recorded, astray>>

\* The run ends; what was not sampled by then is not.
CloseStream ==
    /\ stream.at = "on" /\ stream' = [stream EXCEPT !.at = "off"]
    /\ UNCHANGED <<wanting, worker, beat, late, pending, rows, recorded, astray>>

BeatStep(s) == SendBeat(s) \/ BeatArrives(s) \/ BeatAnswered(s)
SeriesNext ==
    \/ \E x \in Streams : OpenStream(x)
    \/ ChangeWanted \/ WatchSamples \/ CloseStream
    \/ \E s \in Slots : BeatStep(s) \/ RecordStep(s) \/ BeatMissed(s) \/ LateArrives(s)
                        \/ WorkerReplaced(s) \/ PublishSample(s)

\* A worker keeps sending heartbeats and the handlers answer them.
SeriesFairness == \A s \in Slots : WF_seriesVars(BeatStep(s))
SeriesSpec == SeriesInit /\ [][SeriesNext]_seriesVars /\ SeriesFairness

-----------------------------------------------------------------------------

\* No execution is in two samples: each is in one, waits for one, or was lost with a
\* heartbeat or a failed write, once; and the aggregate rows add up to the slots'.
SeriesAddsUp ==
    /\ \A s \in Slots : recorded[s] = rows.slot[s] + pending[s] + beat[s].size + late[s]
                                      + worker[s].interval + astray[s]
    /\ rows.all = SumOver(rows.slot)

InStep ==
    /\ \A s \in Slots : Running(s) =>
          /\ worker[s].paused = wanting.paused /\ worker[s].epoch = wanting.epoch
          /\ wanting.load # NoLoad => worker[s].load = ShareOf(wanting.load, s)
    /\ wanting.load # NoLoad => SumOver([s \in Slots |-> ShareOf(wanting.load, s)]) = wanting.load

\* Every worker that runs hears in the end of a pause, a load or an epoch, whatever answers
\* were lost and whoever holds the slot by then; and the shares make up the load.
ControlReachesWorkers == []<>InStep

=============================================================================
