------------------------------- MODULE Eviction -------------------------------
(***************************************************************************)
(* The SmartStore cache of one target: who evicts it (the button, a run    *)
(* before it starts, a run on its clock), under which lock, which cache    *)
(* epochs a run is told of, and what its summary says of the cache         *)
(* (cachelock.py, smartstore.py, runner.py, fleet.py, routes/targets.py).  *)
(*                                                                         *)
(* The button runs on the server's event loop and every run on a loop in   *)
(* a thread of its own; an action is what one of them does between two     *)
(* awaits, or inside the manager's lock, and at the eviction lock, which   *)
(* those threads share, what it does between two calls.  A bucket is       *)
(* cached by a search at any time, and may be dropped by the indexer.      *)
(* Which indexes an eviction is restricted to is left out: here it is all  *)
(* of them.  The button is one request at a time.                          *)
(***************************************************************************)
EXTENDS Integers, Sequences, FiniteSets

CONSTANTS
    InProcess, Fleets,  \* runs on this target
    Peers,              \* its indexers; every one holds a copy of every bucket
    Buckets,
    Occasions           \* bounds: [runs, peers, cold, cached, evictions, churn, readable]: the
                        \* runs that start, the target's indexers, whether a run evicts before
                        \* it starts, what is cached at first, the evictions begun, the buckets
                        \* fetched or dropped, and whether the cache can be read

Runs == InProcess \cup Fleets
Evictors == Runs \cup {"button"}
Unbound == "nobody"

AnyOccasion == [runs : SUBSET Runs, peers : SUBSET Peers, cold : BOOLEAN,
                cached : SUBSET (Peers \X Buckets), evictions : Nat, churn : Nat, readable : BOOLEAN]

ASSUME EvictionAssumption ==
    /\ IsFiniteSet(Runs) /\ InProcess \cap Fleets = {} /\ {"button", Unbound} \cap Runs = {}
    /\ IsFiniteSet(Peers) /\ IsFiniteSet(Buckets) /\ Occasions \subseteq AnyOccasion

VARIABLES
    cached,     \* <<peer, bucket>> that are local
    evictor,    \* per evictor: where it is in evict_all, and the epoch it marks
    evictLock,  \* the asyncio.Lock: whether it is taken, whose loop it is bound to, its queue
    ride,       \* per run: how far it is, its readings, its stats' epoch, its summary
    epochs,     \* _epochs: how many epochs were marked, per run
    told,       \* the runs the button found in flight
    left,       \* the occasion: what of it is still to come
    fetched, dropped  \* history, per run: buckets fetched, and lost, between its readings

evictionVars == <<cached, evictor, evictLock, ride, epochs, told, left, fetched, dropped>>

NoReading == [route |-> "none", answered |-> {}, ids |-> {}]
Rested == [at |-> "idle", todo |-> {}, run |-> "none", listed |-> {},
           locked |-> FALSE, mark |-> 0]
NewRide == [at |-> "new", before |-> NoReading, after |-> NoReading, epoch |-> 0]

InFlightRuns == {r \in Runs : ride[r].at \notin {"new", "gone"}}
InLoad == {r \in Runs : ride[r].at = "load"}

-----------------------------------------------------------------------------
(* The cache itself. *)

Fetch ==
    /\ left.churn > 0 /\ left' = [left EXCEPT !.churn = @ - 1]
    /\ \E entry \in (left.peers \X Buckets) \ cached :
          /\ cached' = cached \cup {entry}
          /\ fetched' = [r \in Runs |-> fetched[r] \cup IF r \in InLoad THEN {entry} ELSE {}]
    /\ UNCHANGED <<evictor, evictLock, ride, epochs, told, dropped>>

IsDropped(entry) ==
    /\ cached' = cached \ {entry}
    /\ dropped' = [r \in Runs |-> dropped[r] \cup IF r \in InLoad THEN {entry} \cap cached ELSE {}]

MakesRoom ==
    /\ left.churn > 0 /\ left' = [left EXCEPT !.churn = @ - 1]
    /\ \E entry \in cached : IsDropped(entry)
    /\ UNCHANGED <<evictor, evictLock, ride, epochs, told, fetched>>

\* cache_state: through the search head, or else from each indexer directly; from those that
\* answer. A bucket is named with its indexer if there are several, as each route names it.
NameOf(route, several, entry) ==
    IF several THEN <<route, entry[1], entry[2]>> ELSE <<"plain", "any", entry[2]>>
Reading(route, answered) ==
    LET several == IF route = "search" THEN Cardinality(answered) > 1 ELSE Cardinality(left.peers) > 1
    IN  [route |-> route, answered |-> answered,
         ids |-> {NameOf(route, several, entry) : entry \in {x \in cached : x[1] \in answered}}]
Readings ==
    IF left.readable
    THEN {Reading(route, answered) : route \in {"search", "direct"}, answered \in SUBSET left.peers}
    ELSE {NoReading}

\* delta: the sets of what is local, not their sizes.
AddedNet(old, new) ==
    IF Cardinality(new) > Cardinality(old) THEN Cardinality(new) - Cardinality(old) ELSE 0
Added(old, new) == Cardinality(new \ old)
Downloads(before, after) == Added(before.ids, after.ids)
EvictedDuring(before, after) == Added(after.ids, before.ids)
Provenance(before, after) ==
    CASE before.answered = {} \/ after.answered = {} -> "unknown"
      [] before.answered # {} /\ after.answered # {} /\ Downloads(before, after) = 0 ->
            IF EvictedDuring(before, after) > 0 THEN "churning" ELSE "warm"
      [] OTHER -> IF before.ids = {} THEN "cold" ELSE "mixed"

-----------------------------------------------------------------------------
(* evict_all: on one indexer after another, list, ask for each, list again. *)

GoesAt(e, state) == evictor' = [evictor EXCEPT ![e] = state]
Begins(state) == [state EXCEPT !.at = "list", !.todo = left.peers]

List(e) ==
    /\ evictor[e].at = "list"
    /\ IF evictor[e].todo = {} THEN GoesAt(e, [evictor[e] EXCEPT !.at = "done"])
       ELSE LET peer == CHOOSE p \in evictor[e].todo : TRUE
                entries == {entry \in cached : entry[1] = peer}
                next == [evictor[e] EXCEPT !.todo = @ \ {peer}]
            IN  \/ GoesAt(e, next)   \* nothing is listed, or the listing failed
                \/ /\ entries # {}
                   /\ GoesAt(e, [next EXCEPT !.at = "ask", !.listed = entries])
    /\ UNCHANGED <<cached, evictLock, ride, epochs, told, left, fetched, dropped>>

\* evict_one: refused, accepted and declined, or accepted and gone.
Ask(e) ==
    /\ evictor[e].at = "ask"
    /\ \E entry \in evictor[e].listed :
          /\ GoesAt(e, [evictor[e] EXCEPT !.listed = @ \ {entry}])
          /\ IsDropped(entry) \/ UNCHANGED <<cached, dropped>>
    /\ UNCHANGED <<evictLock, ride, epochs, told, left, fetched>>

\* The cache is listed again, only to count what is gone.
Confirm(e) ==
    /\ evictor[e].at = "ask" /\ evictor[e].listed = {}
    /\ GoesAt(e, [evictor[e] EXCEPT !.at = "list"])
    /\ UNCHANGED <<cached, evictLock, ride, epochs, told, left, fetched, dropped>>

-----------------------------------------------------------------------------
(* The lock: an asyncio.Lock, shared by the loops of several threads.  It is made for one: *)
(* nothing keeps two threads from both finding it free, the queue's test being a call.     *)

\* Inside `async with`, whatever the lock says by now.
Inside == {e \in Evictors : evictor[e].locked}

Enters(e) ==
    /\ evictLock' = [evictLock EXCEPT !.taken = TRUE]
    /\ GoesAt(e, Begins([evictor[e] EXCEPT !.locked = TRUE]))
\* Inside, and yet the lock is not taken: to let it go is a RuntimeError then.
Robbed(e) == evictor[e].locked /\ ~evictLock.taken
Released == IF evictLock.taken
            THEN [taken |-> FALSE, bound |-> evictLock.bound,
                  queue |-> IF evictLock.queue = "waiting" THEN "woken" ELSE evictLock.queue]
            ELSE evictLock

\* The test: while there is no queue, whoever finds the lock free has it.
Unqueued == evictLock.queue \in {"none", "empty"}
Free == ~evictLock.taken /\ Unqueued
Acquire(e) ==
    /\ evictor[e].at = "acquire"
    /\ \/ Free /\ evictLock.queue = "none" /\ Enters(e)
       \/ /\ Free /\ evictLock.queue = "empty" /\ GoesAt(e, [evictor[e] EXCEPT !.at = "take"])
          /\ UNCHANGED evictLock
       \/ ~Free /\ GoesAt(e, [evictor[e] EXCEPT !.at = "join"]) /\ UNCHANGED evictLock
    /\ UNCHANGED <<cached, ride, epochs, told, left, fetched, dropped>>

\* The first who has to wait makes the queue, and the lock is its loop's from then on; to wait
\* for it in another is a RuntimeError.  Whether it is still taken nobody asks again.
Join(e) ==
    /\ evictor[e].at = "join"
    /\ \/ /\ evictLock.queue = "none" /\ evictLock' = [evictLock EXCEPT !.queue = "empty"]
          /\ UNCHANGED evictor
       \/ /\ evictLock.queue # "none" /\ evictLock.bound \in {Unbound, e}
          /\ evictLock' = [evictLock EXCEPT !.bound = e, !.queue = "waiting"]
          /\ GoesAt(e, [evictor[e] EXCEPT !.at = "wait"])
       \/ /\ evictLock.queue # "none" /\ evictLock.bound \notin {Unbound, e}
          /\ GoesAt(e, [evictor[e] EXCEPT !.at = IF e = "button" THEN "idle" ELSE "mark"])
          /\ UNCHANGED evictLock
    /\ UNCHANGED <<cached, ride, epochs, told, left, fetched, dropped>>

Woken(e) ==
    /\ evictor[e].at = "wait" /\ evictLock.queue = "woken"
    /\ evictLock' = [evictLock EXCEPT !.queue = "empty"]
    /\ GoesAt(e, [evictor[e] EXCEPT !.at = "take"])
    /\ UNCHANGED <<cached, ride, epochs, told, left, fetched, dropped>>

\* Found free, or woken, some time ago.
Take(e) ==
    /\ evictor[e].at = "take" /\ Enters(e)
    /\ UNCHANGED <<cached, ride, epochs, told, left, fetched, dropped>>

\* An eviction is over, or out of time: the lock is let go, and a run's loop counts it as an
\* epoch either way. The button counts one only when it has a result.
Finishes(e, to) ==
    /\ evictLock' = Released
    /\ GoesAt(e, [evictor[e] EXCEPT !.at = to, !.locked = FALSE])
Ends(e) ==
    /\ evictor[e].at = "done" /\ evictor[e].locked
    /\ Finishes(e, IF e = "button" /\ (told = {} \/ Robbed(e)) THEN "idle" ELSE "mark")
    /\ UNCHANGED <<cached, ride, epochs, told, left, fetched, dropped>>
OutOfTime(e) ==
    /\ evictor[e].at \in {"list", "ask"} /\ evictor[e].locked
    /\ Finishes(e, IF e = "button" THEN "idle" ELSE "mark")
    /\ UNCHANGED <<cached, ride, epochs, told, left, fetched, dropped>>

-----------------------------------------------------------------------------
(* mark_cache_epoch: recorded under the manager's lock, then told to the run's stats. *)

Advances(stats, n) == n > stats.epoch
SetEpoch(stats, n) == IF Advances(stats, n) THEN [stats EXCEPT !.epoch = n] ELSE stats

\* Which runs `e` marks: the button, one by one, those it found in flight.
Marks(e) == IF e = "button" THEN told ELSE {e}
AfterMark(e, rest) == IF e = "button" /\ rest # {} THEN "mark" ELSE "idle"

Mark(e) ==
    /\ evictor[e].at = "mark" /\ evictor[e].mark = 0
    /\ \E r \in Marks(e) :
          IF r \in InFlightRuns
          THEN /\ epochs' = [epochs EXCEPT ![r] = @ + 1]
               /\ GoesAt(e, [evictor[e] EXCEPT !.at = "mark", !.run = r, !.mark = epochs[r] + 1])
               /\ UNCHANGED told
          ELSE /\ told' = told \ {r} /\ UNCHANGED epochs
               /\ GoesAt(e, [evictor[e] EXCEPT !.at = AfterMark(e, told \ {r})])
    /\ UNCHANGED <<cached, evictLock, ride, left, fetched, dropped>>

\* A fleet's workers are told by the reply to a heartbeat instead.
TellStats(e) ==
    LET r == evictor[e].run
        n == evictor[e].mark
    IN  /\ n > 0
        /\ ride' = IF r \in InProcess THEN [ride EXCEPT ![r] = SetEpoch(@, n)] ELSE ride
        /\ told' = told \ {r}
        /\ GoesAt(e, [evictor[e] EXCEPT !.mark = 0, !.at = AfterMark(e, told \ {r})])
        /\ UNCHANGED <<cached, evictLock, epochs, left, fetched, dropped>>

-----------------------------------------------------------------------------
(* The button, and a run from its start to its summary. *)

\* evict_target_cache: refused while the lock is held; without a cache there is nothing to do.
Press ==
    /\ evictor["button"].at = "idle" /\ left.evictions > 0 /\ ~evictLock.taken
    /\ told' = InFlightRuns
    /\ left' = [left EXCEPT !.evictions = @ - 1]
    /\ GoesAt("button", [Rested EXCEPT !.at = "acquire"])
    /\ UNCHANGED <<cached, evictLock, ride, epochs, fetched, dropped>>

\* A run may evict before it starts, without the lock; then it reads the cache.
StartRide(r) ==
    /\ ride[r].at = "new" /\ r \in left.runs /\ ride' = [ride EXCEPT ![r].at = "setup"]
    /\ \/ UNCHANGED <<evictor, left>>
       \/ /\ left.cold /\ left.evictions > 0 /\ left' = [left EXCEPT !.evictions = @ - 1]
          /\ GoesAt(r, Begins(Rested))
    /\ UNCHANGED <<cached, evictLock, epochs, told, fetched, dropped>>

Ready(r) == evictor[r].at = "idle" \/ (evictor[r].at = "done" /\ ~evictor[r].locked)
ReadBefore(r) ==
    /\ ride[r].at = "setup" /\ Ready(r)
    /\ \E reading \in Readings : ride' = [ride EXCEPT ![r].at = "load", ![r].before = reading]
    /\ GoesAt(r, Rested)
    /\ UNCHANGED <<cached, evictLock, epochs, told, left, fetched, dropped>>

\* _evict_loop's clock.
Due(r) ==
    /\ ride[r].at \in {"load", "stuck"} /\ evictor[r].at = "idle" /\ left.evictions > 0
    /\ left' = [left EXCEPT !.evictions = @ - 1]
    /\ GoesAt(r, [Rested EXCEPT !.at = "acquire"])
    /\ UNCHANGED <<cached, evictLock, ride, epochs, told, fetched, dropped>>

\* The load is over: the run's evictor is cancelled where it awaits, and the cache read again.
\* One that is cancelled in an eviction lets the lock go, one that waits leaves the queue.
Awaits(r) == evictor[r].at \in {"idle", "wait", "list", "ask", "done"}
LeavesQueue(r) == IF evictor[r].at = "wait" THEN [evictLock EXCEPT !.queue = "empty"] ELSE evictLock
Leaves(r) == IF evictor[r].locked THEN Released ELSE LeavesQueue(r)
ReadAfter(r) ==
    /\ ride[r].at = "load" /\ Awaits(r) /\ ~Robbed(r)
    /\ GoesAt(r, Rested) /\ evictLock' = Leaves(r)
    /\ \E reading \in Readings : ride' = [ride EXCEPT ![r].at = "sum", ![r].after = reading]
    /\ UNCHANGED <<cached, epochs, told, left, fetched, dropped>>

\* The lock cannot be let go: that error takes the place of the cancellation and is noted like
\* any other, so the loop goes on, and the run waits for it.
CancelIsLost(r) ==
    /\ ride[r].at = "load" /\ Awaits(r) /\ Robbed(r)
    /\ GoesAt(r, [evictor[r] EXCEPT !.at = "mark", !.locked = FALSE])
    /\ ride' = [ride EXCEPT ![r].at = "stuck"]
    /\ UNCHANGED <<cached, evictLock, epochs, told, left, fetched, dropped>>

\* _finish, or the fleet's result: the epochs are taken into the summary.
Summarise(r) ==
    /\ ride[r].at = "sum"
    /\ ride' = [ride EXCEPT ![r].at = "summed"]
    /\ epochs' = [epochs EXCEPT ![r] = 0]
    /\ UNCHANGED <<cached, evictor, evictLock, told, left, fetched, dropped>>

\* The entry leaves _active, or _fleets.
Gone(r) ==
    /\ ride[r].at = "summed" /\ ride' = [ride EXCEPT ![r] = [NewRide EXCEPT !.at = "gone"]]
    /\ fetched' = [fetched EXCEPT ![r] = {}] /\ dropped' = [dropped EXCEPT ![r] = {}]
    /\ UNCHANGED <<cached, evictor, evictLock, epochs, told, left>>

EvictionInit ==
    /\ cached = {} /\ evictor = [e \in Evictors |-> Rested]
    /\ evictLock = [taken |-> FALSE, bound |-> Unbound, queue |-> "none"]
    /\ ride = [r \in Runs |-> NewRide] /\ epochs = [r \in Runs |-> 0] /\ told = {}
    /\ left = [runs |-> {}, peers |-> {}, cold |-> FALSE, cached |-> {}, evictions |-> 0,
                churn |-> 0, readable |-> FALSE]
    /\ fetched = [r \in Runs |-> {}] /\ dropped = [r \in Runs |-> {}]

Choose(o) ==
    /\ left.runs = {} /\ left' = o /\ cached' = o.cached
    /\ UNCHANGED <<evictor, evictLock, ride, epochs, told, fetched, dropped>>

EvictorStep(e) ==
    \/ List(e) \/ Ask(e) \/ Confirm(e) \/ Acquire(e) \/ Join(e) \/ Woken(e) \/ Take(e)
    \/ Ends(e) \/ OutOfTime(e) \/ Mark(e) \/ TellStats(e)
RideStep(r) ==
    \/ StartRide(r) \/ ReadBefore(r) \/ Due(r) \/ ReadAfter(r) \/ CancelIsLost(r)
    \/ Summarise(r) \/ Gone(r)

EvictionNext ==
    \/ \E o \in Occasions : Choose(o)
    \/ Fetch \/ MakesRoom \/ Press
    \/ \E e \in Evictors : EvictorStep(e)
    \/ \E r \in Runs : RideStep(r)

EvictionSpec == EvictionInit /\ [][EvictionNext]_evictionVars

-----------------------------------------------------------------------------

\* Until somebody has had to wait for the lock, it does what it is for: the evictions that
\* take it exclude one another, from whichever loops they come (evict_lock, runner.py:556,
\* fleet.py:1213, routes/targets.py:415).
UncontendedLockExcludes ==
    evictLock.queue = "none" => \A e, f \in Inside : e = f

\* The lock is never left taken with nobody inside, however evictions end, in time or not, in
\* whatever order those that share it let it go, and whatever a run's end cancels (the
\* `async with` of runner.py:556, cancelled from 475).
LockIsLetGo == evictLock.taken => Inside # {}

Told(r) == Provenance(ride[r].before, ride[r].after)
Summed == {r \in Runs : ride[r].at \in {"sum", "summed"}}
Alike(r) == ride[r].before.route = ride[r].after.route
            /\ ride[r].before.answered = left.peers /\ ride[r].after.answered = left.peers

\* From two readings of every indexer by one route: a run called cold or mixed did fetch a
\* bucket, one called churning did lose one, and what a run called warm or churning fetched
\* it had lost, or lost again, before its end (CacheDelta, delta).
ProvenanceIsHonest ==
    \A r \in Summed : Alike(r) =>
        /\ Told(r) \in {"cold", "mixed"} => fetched[r] # {}
        /\ Told(r) = "churning" => dropped[r] # {}
        /\ Told(r) \in {"warm", "churning"} => fetched[r] \subseteq dropped[r]

(* What the comments say and TLC refutes (README, "Findings"). *)

\* The same of any two readings: a download is a bucket that was remote before and local
\* afterwards (smartstore.py:230-231).
DownloadsWereFetched ==
    \A r \in Summed : Told(r) \in {"cold", "mixed"} => fetched[r] # {}

\* The lock keeps a run's periodic evictions clear of the button and of other runs
\* (runner.py:544-545).
EvictionsExclude == \A e, f \in Inside : e = f

\* An eviction that fails is noted, and the run goes on to its end (runner.py:562).
EvictionIsNeverFatal == \A r \in Runs : ride[r].at # "stuck"

\* One eviction at a time, the one before a run included (cachelock.py:3-4).
OneEvictionAtATime ==
    \A e, f \in Evictors : {evictor[e].at, evictor[f].at} \subseteq {"list", "ask"} => e = f

\* A run in flight during an eviction of the button is told (routes/targets.py:375).
RunsAreTold ==
    \A r \in Runs : evictor["button"].at = "ask" /\ ride[r].at = "load" => r \in told
=============================================================================
