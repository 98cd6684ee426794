-------------------------------- MODULE Drivers --------------------------------
(***************************************************************************)
(* The execution drivers (drivers/): how the supervisor of one fleet run   *)
(* launches its groups of workers, asks them to drain and removes them, as *)
(* calls on a Swarm (through Portainer), a Kubernetes cluster or local     *)
(* processes.  A call may be refused, or take effect and lose its answer;  *)
(* the driver cannot tell the two apart.                                   *)
(***************************************************************************)
EXTENDS Naturals, Sequences, SequencesExt

CONSTANTS
    FleetLaunches,       \* the situations explored: [kind, groups, refusals, losses], where groups
                   \*   is the order of launch and the numbers are bounds
    NoFleet

GroupNames == {"api", "browser"}

FleetSituations == [kind : {"swarm", "k8s", "fake"}, groups : Seq(GroupNames) \ {<<>>},
               refusals : Nat, losses : Nat]

\* A fleet has a group for each engine its workers use, and no engine twice.
ASSUME DriversAssumption ==
    /\ FleetLaunches \subseteq FleetSituations
    /\ \A f \in FleetLaunches :
        \A i, j \in 1..Len(f.groups) : f.groups[i] = f.groups[j] => i = j

VARIABLES
    fleet,        \* the situation
    todoGroups,   \* groups the supervisor has still to launch, stop or destroy
    doing,        \* what it is doing: the step of a driver call
    refs,         \* FleetRun.refs and the row's driver_refs_json
    remaining,    \* _destroy_quietly's list
    workload,     \* at the backend, per group: the service, job or process group
    secret,       \* and the secret with the run token
    excused       \* history: groups with an answer lost, or a secret whose removal was refused

driverVars == <<fleet, todoGroups, doing, refs, remaining, workload, secret, excused>>
backend == <<workload, secret>>

This == Head(todoGroups)
NextGroup == todoGroups' = Tail(todoGroups)

\* One call: it happens; it is refused; or it happens and the driver sees an error.
Done(effect) == effect /\ UNCHANGED <<fleet, excused>>
Raises(effect) ==
    \/ /\ fleet.refusals > 0 /\ fleet' = [fleet EXCEPT !.refusals = @ - 1]
       /\ UNCHANGED <<backend, excused>>
    \/ /\ fleet.losses > 0 /\ fleet' = [fleet EXCEPT !.losses = @ - 1]
       /\ effect /\ excused' = excused \cup {This}
\* A removal the driver only logs: refused, the secret stays.
Quietly(effect) ==
    \/ effect /\ UNCHANGED <<fleet, excused>>
    \/ /\ fleet.refusals > 0 /\ fleet' = [fleet EXCEPT !.refusals = @ - 1]
       /\ UNCHANGED secret /\ excused' = excused \cup {This}

SecretIs(s) == secret' = [secret EXCEPT ![This] = s]
WorkloadIs(s) == workload' = [workload EXCEPT ![This] = s]
Projects == fleet.kind # "fake"

-----------------------------------------------------------------------------
(* create: the secret, then the workload, then (Kubernetes) the secret's owner. *)

CreateSecret ==
    /\ doing = "create" /\ Projects
    /\ \/ Done(SecretIs("there") /\ UNCHANGED workload) /\ doing' = "service"
       \/ Raises(SecretIs("there") /\ UNCHANGED workload) /\ doing' = "failed"
    /\ UNCHANGED <<todoGroups, refs, remaining>>

\* A workload that was refused takes its secret with it.
AfterFailedCreate == IF Projects THEN "undo" ELSE "failed"
CreateWorkload ==
    /\ doing \in {"create", "service"} /\ (doing = "service" <=> Projects)
    /\ \/ Done(WorkloadIs("up") /\ UNCHANGED secret)
          /\ doing' = IF fleet.kind = "k8s" THEN "adopt" ELSE "record"
       \/ fleet.kind # "fake" /\ Raises(WorkloadIs("up") /\ UNCHANGED secret)
          /\ doing' = AfterFailedCreate
    /\ UNCHANGED <<todoGroups, refs, remaining>>

UndoSecret ==
    /\ doing = "undo" /\ doing' = "failed"
    /\ Quietly(SecretIs("gone")) /\ UNCHANGED workload
    /\ UNCHANGED <<todoGroups, refs, remaining>>

\* _adopt_secret: with its owner set the cluster collects the secret with the job.
AdoptSecret ==
    /\ doing = "adopt"
    /\ \/ SecretIs("owned") /\ UNCHANGED fleet
       \/ /\ fleet.refusals > 0 /\ fleet' = [fleet EXCEPT !.refusals = @ - 1]
          /\ UNCHANGED secret
    /\ doing' = "record"
    /\ UNCHANGED <<todoGroups, refs, remaining, workload, excused>>

\* The reference is recorded before the next group is launched.
Recorded == Append(refs, This)
RecordRef ==
    /\ doing = "record"
    /\ refs' = Recorded /\ NextGroup
    /\ doing' = IF Len(todoGroups) = 1 THEN "watch" ELSE "create"
    /\ UNCHANGED <<fleet, remaining, backend, excused>>

-----------------------------------------------------------------------------
(* The watch: workers exit by themselves; a stop asks each group to drain. *)

DrainBegins ==
    /\ doing = "watch" /\ doing' = "stop" /\ todoGroups' = refs
    /\ UNCHANGED <<fleet, refs, remaining, backend, excused>>

\* Collected: a job that goes takes the secret it owns.
Collect == IF secret[This] = "owned" THEN SecretIs("gone") ELSE UNCHANGED secret
GoesAway == WorkloadIs("gone") /\ Collect

\* Swarm: replicas to zero. Kubernetes: the job is deleted, its pods given the grace.
\* Local processes are told to terminate.
StopGroup ==
    /\ doing = "stop" /\ todoGroups # <<>> /\ NextGroup
    /\ \/ Done(IF fleet.kind = "k8s" THEN GoesAway ELSE WorkloadIs("drained") /\ UNCHANGED secret)
       \/ fleet.kind # "fake" /\ Raises(
             IF fleet.kind = "k8s" THEN GoesAway ELSE WorkloadIs("drained") /\ UNCHANGED secret)
    /\ UNCHANGED <<doing, refs, remaining>>

-----------------------------------------------------------------------------
(* The end, by success or failure: _destroy_quietly. *)

FleetEnds ==
    /\ doing \in {"failed", "watch"} \/ (doing = "stop" /\ todoGroups = <<>>)
    /\ todoGroups' = refs /\ remaining' = <<>>
    /\ doing' = "destroy"
    /\ UNCHANGED <<fleet, refs, backend, excused>>

\* Kubernetes removes the secret first, whether or not the job is there (a stop has often
\* deleted it); Swarm the service, then its secrets; a workload that is gone is a success.
Drops == NextGroup /\ UNCHANGED remaining
Remains == NextGroup /\ remaining' = Append(remaining, This)

SecretGoneWithJob == workload[This] = "gone"
NothingToRemove == secret[This] \notin {"there", "owned"}
DestroySecret ==
    /\ doing = "destroy" /\ todoGroups # <<>> /\ fleet.kind = "k8s"
    /\ IF NothingToRemove THEN UNCHANGED <<fleet, secret, excused>> ELSE Quietly(SecretIs("gone"))
    /\ doing' = "destroyJob"
    /\ UNCHANGED <<todoGroups, refs, remaining, workload>>

DestroyWorkload ==
    /\ doing \in {"destroy", "destroyJob"} /\ (doing = "destroyJob" <=> fleet.kind = "k8s")
    /\ todoGroups # <<>>
    /\ \/ /\ Done(GoesAway)
          /\ IF fleet.kind = "swarm" THEN doing' = "destroySecrets" /\ UNCHANGED <<todoGroups, remaining>>
             ELSE doing' = "destroy" /\ Drops
       \/ fleet.kind # "fake" /\ Raises(GoesAway) /\ doing' = "destroy" /\ Remains
    /\ UNCHANGED refs

DestroySwarmSecret ==
    /\ doing = "destroySecrets" /\ doing' = "destroy"
    /\ Quietly(SecretIs("gone")) /\ UNCHANGED workload
    /\ Drops /\ UNCHANGED refs

ClearDriverRefs ==
    /\ doing = "destroy" /\ todoGroups = <<>>
    /\ refs' = remaining /\ doing' = "over"
    /\ UNCHANGED <<fleet, todoGroups, remaining, backend, excused>>

ChooseFleet(f) ==
    /\ doing = "idle" /\ fleet' = f /\ todoGroups' = f.groups /\ doing' = "create"
    /\ UNCHANGED <<refs, remaining, backend, excused>>

DriversInit ==
    /\ fleet = NoFleet /\ todoGroups = <<>> /\ doing = "idle"
    /\ refs = <<>> /\ remaining = <<>> /\ excused = {}
    /\ workload = [g \in GroupNames |-> "none"] /\ secret = [g \in GroupNames |-> "none"]

DriversNext ==
    \/ \E f \in FleetLaunches : ChooseFleet(f)
    \/ CreateSecret \/ CreateWorkload \/ UndoSecret \/ AdoptSecret \/ RecordRef
    \/ DrainBegins \/ StopGroup \/ FleetEnds
    \/ DestroySecret \/ DestroyWorkload \/ DestroySwarmSecret \/ ClearDriverRefs
DriversSpec == DriversInit /\ [][DriversNext]_driverVars

-----------------------------------------------------------------------------
\* When the run is over, nothing of it is left at the backend that the row does not record,
\* neither workers nor the token they authenticate with, whichever calls were refused, at
\* whichever group (fleet.py:1095-1097, 1416-1417; k8s.py:322-324). Excused are the groups
\* with an answer lost, and a secret whose removal was refused.
NothingIsForgotten ==
    doing = "over" => \A g \in GroupNames \ excused :
        workload[g] \in {"up", "drained"} \/ secret[g] \in {"there", "owned"}
            => g \in ToSet(refs)
=============================================================================
