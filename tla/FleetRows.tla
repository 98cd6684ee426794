----------------------------- MODULE FleetRows -----------------------------
(***************************************************************************)
(* The rows of one fleet run under concurrent handlers.  FleetLease.tla    *)
(* takes a request for one step; here a handler reads the run row, then    *)
(* its own lease, and commits later (routes/agent.py, fleet.py, db.py).    *)
(* What a session has read it keeps: a commit writes the attributes that   *)
(* differ from what the session read, over whatever the row says by then.  *)
(* From its first write on a session holds the database's write lock, so   *)
(* a write, the reads that follow it and the commit are one step; a claim  *)
(* is one conditional update.  The watch's ticks and the operator's stop   *)
(* are sessions like any other.                                            *)
(*                                                                         *)
(* A lease may fall silent, or a deadline pass, before any tick; calls are *)
(* neither lost nor repeated.                                              *)
(***************************************************************************)
EXTENDS Integers, FiniteSets

CONSTANTS
    Slots, Workers,
    MaxIds,         \* bound: lease ids issued
    MaxLapses,      \* bound: leases that fall silent
    MaxInFlight     \* bound: handlers at work at once

NoSlot == -1
NoId   == 0
NoT0   == 0
Live   == {"claimed", "ready", "running"}
Pending  == {"free", "claimed"}
Open     == {"free", "lost"}
Underway == {"running", "finishing"}
LeaseStates == {"free", "claimed", "ready", "running", "done", "lost"}
FleetStates == {"provisioning", "releasing", "running", "draining", "finished"}
Phases == {"claiming", "starting", "ready", "waiting", "running", "finishing", "gone"}
Kinds  == {"none", "claim", "ready", "heartbeat", "final"}
Calls  == {"main", "beat"}

ASSUME RowsAssumption ==
    /\ Slots \subseteq Nat /\ IsFiniteSet(Slots) /\ Slots # {}
    /\ "nobody" \notin Workers
    /\ MaxIds \in Nat /\ MaxLapses \in Nat /\ MaxInFlight \in Nat

VARIABLES
    lease, nextId,              \* worker_leases, and the next fresh lease id
    fleetState, runState, t0,   \* the run row; t0 is which release set it
    sup, tick,                  \* the supervisor, and what its tick has read
    stop,                       \* the fleet state the operator's stop has read
    worker,                     \* what each worker knows
    req,                        \* its call and its heartbeat, being handled
    lapses, everLost            \* silences so far; slots a tick declared lost

runRow == <<fleetState, runState, t0>>
rows   == <<lease, nextId, runRow>>
watch  == <<sup, tick, lapses, everLost>>
vars   == <<rows, watch, stop, worker, req>>

FreeLease == [state |-> "free", id |-> NoId, holder |-> "nobody", report |-> "nobody"]
NewWorker == [phase |-> "claiming", slot |-> NoSlot, id |-> NoId,
              released |-> FALSE, superseded |-> FALSE]
NoRun  == [fleet |-> "provisioning", over |-> FALSE, t0 |-> NoT0]
NoCall == [kind |-> "none", found |-> FALSE, says |-> "gone", slot |-> NoSlot,
           id |-> NoId, run |-> NoRun, seen |-> "free", held |-> {}, open |-> {}]
NoTick == [busy |-> FALSE, run |-> NoRun, seen |-> [s \in Slots |-> "free"]]

RunOver == fleetState = "finished" \/ runState \in {"completed", "failed"}
Run == [fleet |-> fleetState, over |-> RunOver, t0 |-> t0]
MinOf(S) == CHOOSE s \in S : \A r \in S : s <= r

-----------------------------------------------------------------------------
(* A call arrives: the handler reads the run row.                           *)

Wants(w, c) ==
    IF c = "beat"
    THEN IF worker[w].phase \notin {"claiming", "gone"} /\ ~worker[w].superseded
         THEN "heartbeat" ELSE "none"
    ELSE CASE worker[w].phase = "claiming"  -> "claim"
           [] worker[w].phase = "ready"     -> "ready"
           [] worker[w].phase = "finishing" -> "final"
           [] OTHER -> "none"

Accepted(kind) ==
    CASE kind = "claim" -> ~RunOver /\ fleetState # "draining"
      [] kind = "ready" -> ~RunOver
      [] OTHER -> fleetState # "finished"

InFlight == {p \in Workers \X Calls : req[p[1]][p[2]] # NoCall}

\* The state a heartbeat carries.
Says(p) == IF p = "waiting" THEN "ready" ELSE p

Arrive(w, c) ==
    /\ req[w][c] = NoCall /\ Cardinality(InFlight) < MaxInFlight
    /\ Wants(w, c) # "none" /\ Accepted(Wants(w, c))
    /\ req' = [req EXCEPT ![w][c] = [NoCall EXCEPT
                    !.kind = Wants(w, c), !.says = Says(worker[w].phase),
                    !.slot = worker[w].slot, !.id = worker[w].id, !.run = Run]]
    /\ UNCHANGED <<rows, watch, stop, worker>>

\* A refused call is repeated until the worker gives up.
GivesUp(w) ==
    /\ req[w]["main"] = NoCall
    /\ Wants(w, "main") # "none" /\ ~Accepted(Wants(w, "main"))
    /\ worker' = [worker EXCEPT ![w].phase = "gone"]
    /\ UNCHANGED <<rows, watch, stop, req>>

-----------------------------------------------------------------------------
(* The handler reads the lease, or every lease when it claims.              *)

Asked(w, c) == req[w][c].kind # "none" /\ ~req[w][c].found

Answered(w, c, knows) ==
    /\ req' = [req EXCEPT ![w][c] = NoCall]
    /\ worker' = IF worker[w].phase = "gone" THEN worker
                 ELSE [worker EXCEPT ![w] = knows]

HeldBy(w) == {s \in Slots : lease[s].holder = w /\ lease[s].state \in Live}
OpenSlots == {s \in Slots : lease[s].state \in Open}

FindClaimable(w) ==
    /\ Asked(w, "main") /\ req[w]["main"].kind = "claim"
    /\ req' = [req EXCEPT ![w]["main"] =
                [@ EXCEPT !.found = TRUE, !.held = HeldBy(w), !.open = OpenSlots,
                          !.id = IF HeldBy(w) = {} THEN NoId ELSE lease[MinOf(HeldBy(w))].id]]
    /\ UNCHANGED <<rows, watch, stop, worker>>

FindLease(w, c) ==
    /\ Asked(w, c) /\ req[w][c].kind # "claim"
    /\ LET m == req[w][c] IN
        /\ lease[m.slot].id = m.id
        /\ req' = [req EXCEPT ![w][c] =
                    [@ EXCEPT !.found = TRUE, !.seen = lease[m.slot].state]]
    /\ UNCHANGED <<rows, watch, stop, worker>>

\* Superseded: a heartbeat stops the worker, any other call ends it.
FindSuperseded(w, c) ==
    /\ Asked(w, c) /\ req[w][c].kind # "claim"
    /\ lease[req[w][c].slot].id # req[w][c].id
    /\ Answered(w, c, IF c = "beat"
                      THEN [worker[w] EXCEPT !.released = TRUE, !.superseded = TRUE]
                      ELSE [worker[w] EXCEPT !.phase = "gone"])
    /\ UNCHANGED <<rows, watch, stop>>

-----------------------------------------------------------------------------
(* The handler writes, reads what it still has to, and commits.             *)

Found(w, c, kind) == req[w][c].found /\ req[w][c].kind = kind

\* An attribute the session leaves as it read it is not written.
Write(m, st) ==
    lease' = IF st = m.seen THEN lease ELSE [lease EXCEPT ![m.slot].state = st]

\* evaluate_release: the run as it was read, this session's lease as the session
\* has it, the others as they are in the database.
BeforeFlush(m, st) == [s \in Slots |-> lease[s].state]
States(m, st) == [s \in Slots |-> IF s = m.slot THEN st ELSE lease[s].state]

Releases(m, st) ==
    /\ m.run.t0 = NoT0 /\ m.run.fleet = "provisioning"
    /\ \E s \in Slots : States(m, st)[s] = "ready"
    /\ \A s \in Slots : States(m, st)[s] \notin Pending

SetT0(released) ==
    IF released THEN t0' = t0 + 1 /\ fleetState' = "releasing"
    ELSE UNCHANGED <<t0, fleetState>>

AnyOpen(S) == S
StillOpen(S) == {s \in S : lease[s].state \in Open}

Grant(w, s, id) == [worker[w] EXCEPT !.phase = "starting", !.slot = s, !.id = id]

\* The conditional update, slot after slot, until one is still open.
CommitClaim(w) ==
    /\ Found(w, "main", "claim")
    /\ LET m == req[w]["main"] IN
        \/ /\ m.held # {}
           /\ Answered(w, "main", Grant(w, MinOf(m.held), m.id))
           /\ UNCHANGED <<lease, nextId>>
        \/ /\ m.held = {} /\ StillOpen(m.open) # {} /\ nextId <= MaxIds
           /\ LET s == MinOf(StillOpen(m.open)) IN
               /\ lease' = [lease EXCEPT ![s] =
                    [@ EXCEPT !.state = "claimed", !.id = nextId, !.holder = w]]
               /\ Answered(w, "main", Grant(w, s, nextId))
           /\ nextId' = nextId + 1
        \/ /\ m.held = {} /\ StillOpen(m.open) = {}
           /\ Answered(w, "main", worker[w])
           /\ UNCHANGED <<lease, nextId>>
    /\ UNCHANGED <<runRow, watch, stop>>

ReadyAgain(st) == IF st \in {"claimed", "ready", "lost"} THEN "ready" ELSE st

CommitReady(w) ==
    /\ Found(w, "main", "ready")
    /\ LET m == req[w]["main"]
           st == ReadyAgain(m.seen) IN
        /\ Write(m, st)
        /\ SetT0(Releases(m, st))
        /\ Answered(w, "main", [worker[w] EXCEPT
                !.phase = "waiting",
                !.released = @ \/ Releases(m, st) \/ m.run.t0 # NoT0])
    /\ UNCHANGED <<nextId, runState, watch, stop>>

Restored(m) ==
    IF m.seen # "lost" THEN m.seen
    ELSE IF m.says = "starting" THEN "claimed" ELSE "ready"

HeardRelease(w, released) ==
    [worker[w] EXCEPT !.released = @ \/ (released /\ worker[w].phase \in {"ready", "waiting"})]

BeatStops(w, m) ==
    /\ m.run.fleet = "draining" \/ m.run.over
    /\ Answered(w, "beat", [worker[w] EXCEPT !.released = TRUE])
    /\ UNCHANGED <<lease, runRow>>

BeatBeforeT0(w, m) ==
    /\ m.run.fleet # "draining" /\ ~m.run.over /\ m.run.t0 = NoT0
    /\ LET st == Restored(m)
           released == st = "ready" /\ Releases(m, st) IN
        /\ Write(m, st)
        /\ SetT0(released)
        /\ Answered(w, "beat", HeardRelease(w, released))
    /\ UNCHANGED runState

BeatRepeatsT0(w, m) ==
    /\ m.run.fleet # "draining" /\ ~m.run.over /\ m.run.t0 # NoT0
    /\ m.says \notin Underway /\ m.seen # "done"
    /\ Write(m, Restored(m))
    /\ Answered(w, "beat", HeardRelease(w, TRUE))
    /\ UNCHANGED runRow

BeatUnderway(w, m) ==
    /\ m.run.fleet # "draining" /\ ~m.run.over /\ m.run.t0 # NoT0
    /\ m.says \in Underway \/ m.seen = "done"
    /\ Write(m, IF Restored(m) \in {"claimed", "ready"} THEN "running" ELSE Restored(m))
    /\ IF m.run.fleet = "releasing" /\ m.says \in Underway
       THEN fleetState' = "running" /\ runState' = "running"
       ELSE UNCHANGED <<fleetState, runState>>
    /\ Answered(w, "beat", worker[w])
    /\ UNCHANGED t0

CommitHeartbeat(w) ==
    /\ Found(w, "beat", "heartbeat")
    /\ LET m == req[w]["beat"] IN
        BeatStops(w, m) \/ BeatBeforeT0(w, m) \/ BeatRepeatsT0(w, m) \/ BeatUnderway(w, m)
    /\ UNCHANGED <<nextId, watch, stop>>

CommitFinal(w) ==
    /\ Found(w, "main", "final")
    /\ LET m == req[w]["main"] IN
        lease' = IF m.seen = "done" THEN lease
                 ELSE [lease EXCEPT ![m.slot] = [@ EXCEPT !.state = "done", !.report = w]]
    /\ Answered(w, "main", [worker[w] EXCEPT !.phase = "gone"])
    /\ UNCHANGED <<nextId, runRow, watch, stop>>

-----------------------------------------------------------------------------
(* The worker between its calls.                                            *)

Becomes(w, from, to) ==
    /\ worker[w].phase = from
    /\ worker' = [worker EXCEPT ![w].phase = to]
    /\ UNCHANGED <<rows, watch, stop, req>>

WarmedUp(w)    == Becomes(w, "starting", "ready")
FailToStart(w) == Becomes(w, "starting", "finishing")
FinishLoad(w)  == Becomes(w, "running", "finishing")
StartLoad(w) ==
    /\ worker[w].released
    /\ Becomes(w, "waiting", IF worker[w].superseded THEN "gone" ELSE "running")

-----------------------------------------------------------------------------
(* The operator's stop, in a session of its own.                            *)

StopReads ==
    /\ stop = "none" /\ ~RunOver
    /\ stop' = fleetState
    /\ UNCHANGED <<rows, watch, worker, req>>

StopCommits ==
    /\ stop \notin {"none", "committed"}
    /\ fleetState' = IF stop \in {"finished", "draining"} THEN fleetState ELSE "draining"
    /\ stop' = "committed"
    /\ UNCHANGED <<lease, nextId, runState, t0, watch, worker, req>>

-----------------------------------------------------------------------------
(* The watch: a tick reads the run and every lease, and works on that.      *)

TickReads ==
    /\ sup = "watching" /\ ~tick.busy
    /\ tick' = [busy |-> TRUE, run |-> Run, seen |-> [s \in Slots |-> lease[s].state]]
    /\ UNCHANGED <<rows, sup, lapses, everLost, stop, worker, req>>

Lose(states, S) == [s \in Slots |-> IF s \in S THEN "lost" ELSE states[s]]
Within(states, S) == {s \in Slots : states[s] \in S}

\* silent: leases not heard from; late, overrun: which deadlines have passed.
TickCommits(silent, late, overrun) ==
    LET draining == tick.run.fleet = "draining"
        heard    == Lose(tick.seen, silent)
        forced   == late /\ tick.run.t0 = NoT0 /\ tick.run.fleet = "provisioning"
        release  == forced /\ Within(heard, {"ready"}) # {}
        givesUp  == forced /\ ~release
        present  == IF forced THEN Lose(heard, Within(heard, Pending)) ELSE heard
        open     == IF draining \/ givesUp THEN Lose(present, Within(present, {"free"}))
                    ELSE present
        settled  == Within(open, {"done", "lost"}) = Slots
        final    == IF overrun /\ ~settled THEN Lose(open, Slots \ Within(open, {"done"}))
                    ELSE open
        changed  == {s \in Slots : final[s] # tick.seen[s]}
    IN  /\ tick.busy
        /\ lease' = [s \in Slots |-> IF s \in changed
                        THEN [lease[s] EXCEPT !.state = final[s]] ELSE lease[s]]
        /\ t0' = IF release THEN t0 + 1 ELSE t0
        /\ fleetState' = CASE release -> "releasing" [] givesUp -> "draining"
                           [] OTHER -> fleetState
        /\ sup' = IF settled \/ overrun THEN "merging" ELSE sup
        /\ everLost' = everLost \cup changed
        /\ lapses' = lapses + Cardinality(silent)
        /\ lapses' <= MaxLapses
        /\ tick' = NoTick
        /\ UNCHANGED <<nextId, runState, stop, worker, req>>

Tick ==
    \E late, overrun \in BOOLEAN, silent \in SUBSET Within(tick.seen, Live) :
        TickCommits(silent, late, overrun)

\* The reports are merged and the result is written.
WriteResult ==
    /\ sup = "merging"
    /\ sup' = "finished"
    /\ runState' = IF \E s \in Slots : lease[s].state = "done" THEN "completed" ELSE "failed"
    /\ fleetState' = "finished"
    /\ UNCHANGED <<lease, nextId, t0, tick, lapses, everLost, stop, worker, req>>

-----------------------------------------------------------------------------

Init ==
    /\ lease = [s \in Slots |-> FreeLease] /\ nextId = 1
    /\ fleetState = "provisioning" /\ runState = "pending" /\ t0 = NoT0
    /\ sup = "watching" /\ tick = NoTick /\ stop = "none"
    /\ worker = [w \in Workers |-> NewWorker]
    /\ req = [w \in Workers |-> [c \in Calls |-> NoCall]]
    /\ lapses = 0 /\ everLost = {}

Handler(w) ==
    \/ \E c \in Calls : Arrive(w, c) \/ FindLease(w, c) \/ FindSuperseded(w, c)
    \/ FindClaimable(w) \/ CommitClaim(w)
    \/ CommitReady(w) \/ CommitHeartbeat(w) \/ CommitFinal(w)

WorkerStep(w) ==
    WarmedUp(w) \/ FailToStart(w) \/ StartLoad(w) \/ FinishLoad(w) \/ GivesUp(w)

Next ==
    \/ \E w \in Workers : Handler(w) \/ WorkerStep(w)
    \/ StopReads \/ StopCommits
    \/ TickReads \/ Tick \/ WriteResult

Spec == Init /\ [][Next]_vars

-----------------------------------------------------------------------------
(* Correctness. *)

\* "Two workers claiming at the same instant cannot both be told they hold the
\* same slot" (fleet.py claim): however claims interleave, a worker told of a
\* slot that no tick has ever declared lost is the one whose lease it is.
ClaimsAreExclusive ==
    \A w \in Workers : worker[w].id # NoId /\ worker[w].slot \notin everLost =>
        /\ lease[worker[w].slot].id = worker[w].id
        /\ lease[worker[w].slot].holder = w

\* The workers that become ready at the same moment do not each leave the release
\* to the other: a fleet with every slot ready has left provisioning.
ReadyFleetIsReleased ==
    (\A s \in Slots : lease[s].state = "ready") => fleetState # "provisioning"

\* "A claimed or ready worker hears `stop' on its next heartbeat and reports"
\* (fleet.py _watch): a run that is draining goes on draining until it is over.
StopSticks == [][fleetState = "draining" => fleetState' \in {"draining", "finished"}]_vars

=============================================================================
