----------------------------- MODULE MCProgress -----------------------------
(***************************************************************************)
(* The components whose loops must make progress, for TLC: the scheduler,  *)
(* the statistics stream, the configuration publisher, the telemetry       *)
(* emitter and the drivers.  They share no state, so one run serves them   *)
(* all: the first step chooses a part, the others keep their initial       *)
(* states, and a behaviour of this module is one of the chosen component   *)
(* with its own plans, bounds and fairness.                                *)
(***************************************************************************)
EXTENDS Scheduler, Series, Publisher, Emitter, Drivers, TLC

VARIABLE part

-----------------------------------------------------------------------------
(* Scheduler: a ramp that rises, falls and is changed by hand; a paced user who is paused and
   stopped; a load whose engine fails and refuses; the open model late and early, random and
   changed; the schedule model with skew. *)

Idle == [model |-> "closed", users |-> 0, rate |-> 0, ramp |-> <<>>, pacing |-> 0, think |-> 0,
         lead |-> 0, poisson |-> FALSE, fault |-> FALSE, refusals |-> FALSE, skew |-> 0, crons |-> 0,
         duration |-> 2, late |-> 0, steps |-> 2]
AsWritten == [users |-> 0, rate |-> 0, pacing |-> 0, duration |-> 0]
Plan(scenario, env, stops, pauses, changes) ==
    [scenario |-> scenario, env |-> env,
     budget |-> [stops |-> stops, pauses |-> pauses, changes |-> changes]]
To(users) == [to |-> users, over |-> 1]

AllPlans ==
    {Plan([Idle EXCEPT !.users = 2, !.ramp = <<To(2), To(1)>>, !.think = 1, !.duration = 0],
          AsWritten, 0, 0, 1),
     Plan([Idle EXCEPT !.users = 1, !.lead = 1], [AsWritten EXCEPT !.pacing = 1, !.duration = 3],
          1, 1, 0),
     Plan([Idle EXCEPT !.users = 1, !.ramp = <<To(None)>>, !.fault = TRUE, !.refusals = TRUE],
          AsWritten, 0, 1, 0),
     Plan([Idle EXCEPT !.model = "open", !.rate = 1, !.late = 5, !.duration = 13, !.steps = 1],
          [AsWritten EXCEPT !.rate = 2], 0, 0, 0),
     Plan([Idle EXCEPT !.model = "open", !.rate = 2, !.poisson = TRUE, !.steps = 1],
          AsWritten, 0, 1, 1),
     Plan([Idle EXCEPT !.model = "schedule", !.skew = 1, !.crons = 2], AsWritten, 1, 1, 0)}

-----------------------------------------------------------------------------
(* Series: a fleet with a step and a change of load, one that is paused and loaded, and an
   in-process run. *)

AllStreams ==
    {[fleet |-> TRUE, records |-> 1, changes |-> 1, faults |-> 1],
     [fleet |-> TRUE, records |-> 0, changes |-> 2, faults |-> 1],
     [fleet |-> FALSE, records |-> 3, changes |-> 0, faults |-> 1]}

-----------------------------------------------------------------------------
(* Publisher: a copy with a target and a baseline on it, or none; a run that is archived or
   not; a rebuild, and the buttons of another operator. *)

Shared == [copy |-> [k \in Names |-> IF k = "t1" THEN "v1" ELSE "u2"], archive |-> {},
           ours |-> {"u1"}, writes |-> TRUE, remote |-> TRUE, edits |-> 1, faults |-> 1, rebuilds |-> 1,
           buttons |-> {}]
Archived == [Shared EXCEPT !.archive = {"u2"}, !.edits = 2, !.rebuilds = 0]
PulledAgain == {[Archived EXCEPT !.edits = 0, !.ours = {}, !.buttons = {"pull"}]}
AllSources ==
    {Shared, [Archived EXCEPT !.remote = FALSE],
     [Shared EXCEPT !.copy = Missing404, !.rebuilds = 0, !.edits = 2]}
    \cup {[Archived EXCEPT !.edits = 1, !.faults = 0, !.buttons = {b}] : b \in {"pull", "push"}}
    \cup PulledAgain

-----------------------------------------------------------------------------
(* Drivers: each of them, for one engine or two. *)

AllLaunches ==
    {[kind |-> k, groups |-> g, refusals |-> 2, losses |-> 1] :
        k \in {"swarm", "k8s", "fake"}, g \in {<<"api">>, <<"api", "browser">>}}

-----------------------------------------------------------------------------

MCInit ==
    /\ part = "none"
    /\ SchedulerInit /\ SeriesInit /\ PublisherInit /\ EmitterInit /\ DriversInit

Host(p) ==
    /\ part = "none" /\ part' = p
    /\ UNCHANGED <<schedulerVars, seriesVars, publisherVars, emitterVars, driverVars>>

MCNext ==
    \/ \E p \in {"scheduler", "series", "publisher", "emitter", "drivers"} : Host(p)
    \/ /\ part = "scheduler" /\ SchedulerNext
       /\ UNCHANGED <<part, seriesVars, publisherVars, emitterVars, driverVars>>
    \/ /\ part = "series" /\ SeriesNext
       /\ UNCHANGED <<part, schedulerVars, publisherVars, emitterVars, driverVars>>
    \/ /\ part = "publisher" /\ PublisherNext
       /\ UNCHANGED <<part, schedulerVars, seriesVars, emitterVars, driverVars>>
    \/ /\ part = "emitter" /\ EmitterNext
       /\ UNCHANGED <<part, schedulerVars, seriesVars, publisherVars, driverVars>>
    \/ /\ part = "drivers" /\ DriversNext
       /\ UNCHANGED <<part, schedulerVars, seriesVars, publisherVars, emitterVars>>

mcVars == <<part, schedulerVars, seriesVars, publisherVars, emitterVars, driverVars>>

MCSpec ==
    /\ MCInit /\ [][MCNext]_mcVars
    /\ SchedulerFairness /\ SeriesFairness /\ PublisherFairness
=============================================================================
