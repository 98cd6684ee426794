----------------------------- MODULE RunControl -----------------------------
(***************************************************************************)
(* One in-process run and the requests that steer it: create_run and the   *)
(* run's own thread (runner.py) on one side, stop, pause and resume        *)
(* handlers on the server's thread pool (routes/runs.py, runcontrol.py) on *)
(* the other.  They share the run row, the manager's entry and the         *)
(* scheduler; nothing makes a handler's read and its commit one step.      *)
(*                                                                         *)
(* A step is what runs between two reads or writes of the shared state; a  *)
(* commit writes the attributes its handler changed and no others.         *)
(***************************************************************************)
EXTENDS Integers

CONSTANT Requests   \* concurrent handlers of stop, pause and resume

Terminal == {"completed", "stopped", "aborted", "failed"}
Stages == {"created", "prepared", "rejected", "registered", "starting", "probing", "building",
           "reading", "pausing", "checking", "loading", "finishing", "popping", "gone"}
Executing == {"registered", "starting", "probing", "building", "reading", "pausing",
              "checking", "loading", "finishing"}

VARIABLES
    state, paused,  \* the run row: state, and whether paused_at is set
    stage,          \* the launch, and then the run thread
    entry,          \* the run's entry in manager._active
    stopFlag,       \* entry.stop_requested
    sched,          \* entry.scheduler: built, paused, stopping
    sawPause,       \* the paused_at the thread read off the row
    req             \* what each handler has read and has still to do

vars == <<state, paused, stage, entry, stopFlag, sched, sawPause, req>>
row == <<state, paused>>

NoScheduler == [built |-> FALSE, paused |-> FALSE, stopping |-> FALSE]
Idle == [step |-> "idle", kind |-> "none", saw |-> "none"]

-----------------------------------------------------------------------------
(* create_run and RunManager.start. *)

\* The row's commit comes before the count of runs in flight and the entry.
Prepare ==
    /\ stage = "created"
    /\ stage' = "prepared" /\ state' = "pending"
    /\ UNCHANGED <<paused, entry, stopFlag, sched, sawPause, req>>

\* The scenario does not lint, or too many runs are in flight.
Reject ==
    /\ stage \in {"created", "prepared"}
    /\ stage' = "rejected" /\ state' = "failed"
    /\ UNCHANGED <<paused, entry, stopFlag, sched, sawPause, req>>

Register ==
    /\ stage = "prepared"
    /\ stage' = "registered" /\ entry' = TRUE
    /\ UNCHANGED <<row, stopFlag, sched, sawPause, req>>

-----------------------------------------------------------------------------
(* The run thread: _thread_main, _execute and _finish. *)

Thread(from, to) == stage = from /\ stage' = to

EngineStarts ==
    /\ Thread("registered", "starting")
    /\ UNCHANGED <<row, entry, stopFlag, sched, sawPause, req>>

SetRunning ==
    /\ Thread("starting", "probing")
    /\ state' = "running"
    /\ UNCHANGED <<paused, entry, stopFlag, sched, sawPause, req>>

\* The engine does not start, the scenario does not match, the target or the
\* database fails: recorded on the run, whatever it was doing.
ExecuteFails ==
    /\ stage \in Executing
    /\ stage' = "popping" /\ state' = "failed"
    /\ UNCHANGED <<paused, entry, stopFlag, sched, sawPause, req>>

Probe ==
    /\ Thread("probing", "building")
    /\ UNCHANGED <<row, entry, stopFlag, sched, sawPause, req>>

PublishScheduler ==
    /\ Thread("building", "reading")
    /\ sched' = [sched EXCEPT !.built = TRUE]
    /\ UNCHANGED <<row, entry, stopFlag, sawPause, req>>

ReadPause ==
    /\ Thread("reading", "pausing")
    /\ sawPause' = paused
    /\ UNCHANGED <<row, entry, stopFlag, sched, req>>

ApplyPause == [sched EXCEPT !.paused = @ \/ (sawPause /\ ~sched.stopping)]

HonourPause ==
    /\ Thread("pausing", "checking")
    /\ sched' = ApplyPause
    /\ UNCHANGED <<row, entry, stopFlag, sawPause, req>>

StopIgnored == FALSE
StopAsked == stopFlag

HonourStop ==
    /\ Thread("checking", "loading")
    /\ sched' = [sched EXCEPT !.stopping = @ \/ StopAsked]
    /\ UNCHANGED <<row, entry, stopFlag, sawPause, req>>

\* A stop wakes a paused run; a run that is neither paused nor stopped ends when
\* its duration is up.
EndsUnpaused == ~sched.paused
MayEnd == sched.stopping \/ ~sched.paused

EndLoad ==
    /\ MayEnd
    /\ Thread("loading", "finishing")
    /\ UNCHANGED <<row, entry, stopFlag, sched, sawPause, req>>

\* Ended by a stop, a guard, an exception, or by the pause budget.
LoadCutShort ==
    /\ stage = "loading" /\ ~sched.stopping
    /\ sched' = [sched EXCEPT !.stopping = TRUE]
    /\ UNCHANGED <<row, stage, entry, stopFlag, sawPause, req>>

SummaryOutcomes ==
    IF sched.stopping THEN {"stopped", "aborted", "failed"}
    ELSE {"completed", "aborted", "failed"}

Finish ==
    /\ Thread("finishing", "popping")
    /\ state' \in SummaryOutcomes
    /\ UNCHANGED <<paused, entry, stopFlag, sched, sawPause, req>>

Pop ==
    /\ Thread("popping", "gone")
    /\ entry' = FALSE
    /\ UNCHANGED <<row, stopFlag, sched, sawPause, req>>

-----------------------------------------------------------------------------
(* The handlers.  `saw' is the state the first SELECT returned. *)

Goes(q, to) == req' = [req EXCEPT ![q] = to]
At(q, kind, step) == req[q].kind = kind /\ req[q].step = step
Onward(q, step) == Goes(q, [req[q] EXCEPT !.step = step])

\* A request on a run that is over is answered at once; so is a pause of a
\* paused run and a resume of one that is not.
Arrive(q, kind) ==
    /\ req[q] = Idle
    /\ state \notin Terminal
    /\ kind = "pause" => ~paused
    /\ kind = "resume" => paused
    /\ Goes(q, [step |-> "lookup", kind |-> kind, saw |-> state])
    /\ UNCHANGED <<row, stage, entry, stopFlag, sched, sawPause>>

\* request_stop: the flag first, then the scheduler if there is one.
StopFinds(q) ==
    /\ At(q, "stop", "lookup") /\ entry
    /\ stopFlag' = TRUE
    /\ Onward(q, "tell")
    /\ UNCHANGED <<row, stage, entry, sched, sawPause>>

StopTells(q) ==
    /\ At(q, "stop", "tell")
    /\ sched' = [sched EXCEPT !.stopping = @ \/ sched.built]
    /\ Goes(q, Idle)
    /\ UNCHANGED <<row, stage, entry, stopFlag, sawPause>>

StopMisses(q) ==
    /\ At(q, "stop", "lookup") /\ ~entry
    /\ Onward(q, "reread")
    /\ UNCHANGED <<row, stage, entry, stopFlag, sched, sawPause>>

\* Not in flight in this process: read the row again before deciding.
DecidesOnFirstRead(q) == req[q].saw \in Terminal
AlreadyOver(q) == state \in Terminal

StopRereads(q) ==
    /\ At(q, "stop", "reread")
    /\ IF AlreadyOver(q) THEN Goes(q, Idle) ELSE Onward(q, "commit")
    /\ UNCHANGED <<row, stage, entry, stopFlag, sched, sawPause>>

StopCommits(q) ==
    /\ At(q, "stop", "commit")
    /\ state' = "stopped"
    /\ Goes(q, Idle)
    /\ UNCHANGED <<paused, stage, entry, stopFlag, sched, sawPause>>

\* _require_running refuses a run that has no entry.
ControlRefused(q) ==
    /\ req[q].kind \in {"pause", "resume"} /\ req[q].step = "lookup" /\ ~entry
    /\ Goes(q, Idle)
    /\ UNCHANGED <<row, stage, entry, stopFlag, sched, sawPause>>

\* The scheduler is told if it exists; the row is written either way.
PauseTells(q) ==
    /\ At(q, "pause", "lookup") /\ entry
    /\ sched' = [sched EXCEPT !.paused = @ \/ (sched.built /\ ~sched.stopping)]
    /\ Onward(q, "commit")
    /\ UNCHANGED <<row, stage, entry, stopFlag, sawPause>>

ResumeTells(q) ==
    /\ At(q, "resume", "lookup") /\ entry
    /\ sched' = [sched EXCEPT !.paused = @ /\ ~sched.built]
    /\ Onward(q, "commit")
    /\ UNCHANGED <<row, stage, entry, stopFlag, sawPause>>

ControlCommits(q) ==
    /\ req[q].kind \in {"pause", "resume"} /\ req[q].step = "commit"
    /\ paused' = (req[q].kind = "pause")
    /\ Goes(q, Idle)
    /\ UNCHANGED <<state, stage, entry, stopFlag, sched, sawPause>>

-----------------------------------------------------------------------------

Init ==
    /\ state = "pending" /\ paused = FALSE
    /\ stage = "created" /\ entry = FALSE /\ stopFlag = FALSE
    /\ sched = NoScheduler /\ sawPause = FALSE
    /\ req = [q \in Requests |-> Idle]

Launch == Prepare \/ Reject \/ Register

RunThread ==
    \/ EngineStarts \/ SetRunning \/ Probe \/ PublishScheduler \/ ReadPause
    \/ HonourPause \/ HonourStop \/ Finish \/ Pop

Handler(q) ==
    \/ StopFinds(q) \/ StopTells(q) \/ StopMisses(q) \/ StopRereads(q)
    \/ StopCommits(q) \/ ControlRefused(q) \/ PauseTells(q) \/ ResumeTells(q)
    \/ ControlCommits(q)

Next ==
    \/ Launch \/ RunThread \/ ExecuteFails \/ EndLoad \/ LoadCutShort
    \/ \E q \in Requests :
        \/ \E kind \in {"stop", "pause", "resume"} : Arrive(q, kind)
        \/ Handler(q)

Spec == Init /\ [][Next]_vars

\* The launch, the thread and every handler run to their end; a load ends by
\* itself only when it is not paused, and a stop ends it either way.
FairSpec ==
    /\ Spec
    /\ WF_vars(Launch) /\ WF_vars(RunThread) /\ WF_vars(EndLoad)
    /\ \A q \in Requests : WF_vars(Handler(q))

-----------------------------------------------------------------------------
(* Correctness. *)

\* The stop handshake: once a stop that found the run has been answered and the
\* thread generates load, the scheduler knows.  The handler sets the flag and
\* then looks for the scheduler, the thread publishes the scheduler and then
\* looks at the flag, so one of the two always sees the other.
StopReachesLoad ==
    stage = "loading" /\ stopFlag /\ (\A q \in Requests : ~At(q, "stop", "tell"))
        => sched.stopping

\* "Stamping `stopped' over a completed run gave a valid summary a false error
\* banner" (routes/runs.py stop_run): the outcome the run thread wrote is not
\* changed by a stop that was pressed while the run showed as running.
OutcomeIsKept ==
    [][state' # state /\ stage \in {"popping", "gone"}
        => \E q \in Requests : At(q, "stop", "commit") /\ req[q].saw = "pending"]_vars

\* "A paused run must wake to stop, not wait for a resume" (scheduler.py
\* request_stop): a stop that found the run in flight ends it.
StopEndsRun == stopFlag ~> state \in Terminal

SettledLoad ==
    /\ stage = "loading" /\ ~sched.stopping
    /\ \A q \in Requests : req[q] = Idle

\* "A control that arrives in that gap is recorded on the run and applied by the
\* runner as soon as the scheduler is built" (runcontrol.py _require_running): a
\* run under load with no handler at work is paused exactly when its row says so.
ControlIsApplied == SettledLoad => (sched.paused <=> paused)

=============================================================================
