------------------------------ MODULE Machine ------------------------------
(***************************************************************************)
(* The KinkMachine controller: every KinkMachine is four pods (etcd and    *)
(* the Kubernetes control plane) and the cluster's etcd Service.           *)
(*                                                                         *)
(* Source: src/controllers/infrastructure/kinkmachine_controller.go and    *)
(* src/controllers/infrastructure/templates/.                              *)
(*                                                                         *)
(* One KinkMachine.  Of its pods the model keeps, for each template, the   *)
(* set of the states its pods are in: whatever their number, the code asks *)
(* no more.  Pods of other machines, which the controller tells apart by   *)
(* their owner, are left out.                                              *)
(***************************************************************************)
EXTENDS Informer, FiniteSets

CONSTANTS
  Roles,       \* the roles of getControlPlanePodTemplates, one template for each
  NoMachine,   \* the KinkMachine is deleted
  MaxLag,      \* bound: watch events in flight, per kind
  MaxEvents,   \* bound: what users, kubelets and other controllers do
  MaxFaults    \* bound: failing calls and restarts of the process

ASSUME MachineBoundsAssumption ==
  MaxLag \in Nat /\ MaxEvents \in Nat /\ MaxFaults \in Nat

AllRoles == {"etcd", "apiserver", "controller-manager", "scheduler"}

\* The controller-manager's template differs from etcd's in nothing kept here.
ASSUME RolesAssumption ==
  Roles \in {AllRoles, AllRoles \ {"controller-manager"}}

\* The role a template puts in its pod's label; scheduler.go was made from
\* apiserver.go.
Label(template) == IF template = "scheduler" THEN "apiserver" ELSE template

\* status.ready.
KinkMachine == [ready : BOOLEAN]

ASSUME NoMachineAssumption == NoMachine \notin KinkMachine

\* A pod runs, or does not: status.phase.  For each template, the states its
\* pods are in; with no pod, none.
States == {"running", "waiting"}
Pods == [Roles -> SUBSET States]

\* The etcd Service has one name for the whole cluster: the first machine to
\* create it owns it.
Services == {"none", "mine", "other"}

VARIABLES
  machine,   \* stream of the KinkMachine
  pods,      \* stream of the machine's pods
  service,   \* stream of the etcd Service
  cluster,   \* the cache shows the Cluster the machine's label names
  queued,    \* the work queue holds the machine's request
  pc,        \* what the running pass does next; "idle" when none runs
  pass,      \* the local variables of the running pass
  events,    \* MaxEvents minus what users and others did
  faults     \* MaxFaults minus the faults so far

vars == <<machine, pods, service, cluster, queued, pc, pass, events, faults>>
Objects == <<machine, pods, service, cluster>>
Bounds == <<events, faults>>

\* The local variables: the templates still to create a pod from; ghosts: whether
\* the KinkMachine of the pass is outdated, and whether the pods it listed were
\* then the stored ones and nobody else touched them since.
Pass == [create : SUBSET Roles, stale : BOOLEAN, clean : BOOLEAN]
NoPass == [create |-> {}, stale |-> FALSE, clean |-> FALSE]

Init ==
  /\ machine = <<[ready |-> FALSE]>>
  /\ pods = <<[t \in Roles |-> {}]>>
  /\ service \in {<<"none">>, <<"other">>}
  /\ cluster \in BOOLEAN
  /\ queued = TRUE
  /\ pc = "idle"
  /\ pass = NoPass
  /\ events = MaxEvents
  /\ faults = MaxFaults

-----------------------------------------------------------------------------
(* Reconcile.                                                              *)

Return(requeue) ==
  /\ pc' = "idle"
  /\ pass' = NoPass
  /\ queued' = (queued \/ requeue)

GetNothing ==
  /\ pc = "idle" /\ queued
  /\ Cached(machine) = NoMachine
  /\ queued' = FALSE
  /\ UNCHANGED <<Objects, pc, pass, Bounds>>

\* Get of the Cluster fails: the request goes back to the queue.
GetNoCluster ==
  /\ pc = "idle" /\ queued
  /\ Cached(machine) # NoMachine
  /\ ~cluster
  /\ UNCHANGED vars

\* The roles podMap has a pod for, whatever the pod does.
\* (Bug: pods that do not run do not count.)
FoundRunning(content) == {Label(t) : t \in {u \in Roles : "running" \in content[u]}}

Found(content) == {Label(t) : t \in {u \in Roles : content[u] # {}}}

\* Both objects are read, and lookupOrSetupPods lists the pods.
Begin ==
  /\ pc = "idle" /\ queued
  /\ Cached(machine) # NoMachine
  /\ cluster
  /\ queued' = FALSE
  /\ pc' = "pods"
  /\ pass' = [create |-> Roles \ Found(Cached(pods)),
              stale |-> Lagging(machine), clean |-> ~Lagging(pods)]
  /\ UNCHANGED <<Objects, Bounds>>

\* The API server stores a new pod; nothing runs yet.
StorePod(t) ==
  /\ Room(pods, MaxLag)
  /\ pods' = Append(pods, [Stored(pods) EXCEPT ![t] = @ \cup {"waiting"}])

\* The templates come in the order of a Go map: any.
CreatePod(t) ==
  /\ pc = "pods" /\ t \in pass.create
  /\ StorePod(t)
  /\ pass' = [pass EXCEPT !.create = @ \ {t}]
  /\ UNCHANGED <<machine, service, cluster, queued, pc, Bounds>>

\* A Create that fails, after the pod was stored or before, ends the pass.
\* (Bug: the loop is left, and the pass goes on.)
PodFailsGoesOn(t) ==
  /\ pc = "pods" /\ t \in pass.create
  /\ faults > 0 /\ faults' = faults - 1
  /\ pc' = "status"
  /\ UNCHANGED <<Objects, queued, pass, events>>

PodFails(t) ==
  /\ pc = "pods" /\ t \in pass.create
  /\ faults > 0 /\ faults' = faults - 1
  /\ StorePod(t) \/ UNCHANGED pods
  /\ Return(TRUE)
  /\ UNCHANGED <<machine, service, cluster, events>>

PodsDone == pc = "pods" /\ pass.create = {}

\* lookupOrSetupServices: a Service the machine does not own is not seen, and
\* that Create then says AlreadyExists is ignored.
SetupService ==
  /\ PodsDone
  /\ IF Cached(service) # "mine" /\ Stored(service) = "none"
     THEN Room(service, MaxLag) /\ service' = Write(service, "mine")
     ELSE UNCHANGED service
  /\ pc' = "status"
  /\ UNCHANGED <<machine, pods, cluster, queued, pass, Bounds>>

\* Any other failure is ignored as well.
ServiceFails ==
  /\ PodsDone
  /\ faults > 0 /\ faults' = faults - 1
  /\ pc' = "status"
  /\ UNCHANGED <<Objects, queued, pass, events>>

\* Ready is what no pod in the list denies.
\* (Bug: one pod that runs is enough.)
SomeRuns(content) == \E t \in Roles : "running" \in content[t]

AllRun(content) == \A t \in Roles : "waiting" \notin content[t]

\* updateMachineStatus.
UpdateStatus ==
  /\ pc = "status" /\ ~pass.stale
  /\ Room(machine, MaxLag)
  /\ machine' = Write(machine, [ready |-> AllRun(Cached(pods))])
  /\ Return(FALSE)
  /\ UNCHANGED <<pods, service, cluster, Bounds>>

\* A conflict or NotFound, when the KinkMachine is not the one the pass got; or
\* any other failure.
UpdateFails ==
  /\ pc = "status"
  /\ \/ pass.stale /\ UNCHANGED faults
     \/ faults > 0 /\ faults' = faults - 1
  /\ Return(TRUE)
  /\ UNCHANGED <<Objects, events>>

-----------------------------------------------------------------------------
(* The process.                                                            *)

\* The process ends; the next one lists everything, and enqueues what it lists
\* and the owners of the pods it lists.
Crash ==
  /\ faults > 0 /\ faults' = faults - 1
  /\ machine' = Relist(machine)
  /\ pods' = Relist(pods)
  /\ service' = Relist(service)
  /\ queued' = (Stored(machine) # NoMachine \/ \E t \in Roles : Stored(pods)[t] # {})
  /\ pc' = "idle" /\ pass' = NoPass
  /\ UNCHANGED <<cluster, events>>

\* SetupWithManager: For KinkMachine.
DeliverMachine ==
  /\ Lagging(machine)
  /\ machine' = Deliver(machine)
  /\ queued' = TRUE
  /\ UNCHANGED <<pods, service, cluster, pc, pass, Bounds>>

\* Owns Pod.
\* (Bug: it does not.)
DeliverPodsUnowned ==
  /\ Lagging(pods)
  /\ pods' = Deliver(pods)
  /\ UNCHANGED <<machine, service, cluster, queued, pc, pass, Bounds>>

DeliverPods ==
  /\ Lagging(pods)
  /\ pods' = Deliver(pods)
  /\ queued' = TRUE
  /\ UNCHANGED <<machine, service, cluster, pc, pass, Bounds>>

\* Services are listed, and so cached, but not watched for.
DeliverService ==
  /\ Lagging(service)
  /\ service' = Deliver(service)
  /\ UNCHANGED <<machine, pods, cluster, queued, pc, pass, Bounds>>

-----------------------------------------------------------------------------
(* Everybody else: users, the KinkControlPlane controller, Cluster API,    *)
(* kubelets, and the garbage collector.                                    *)

Event == events > 0 /\ events' = events - 1

\* A write of the KinkMachine by someone else, which outdates the pass.
WriteMachine(object) ==
  /\ Event
  /\ Stored(machine) # NoMachine
  /\ Room(machine, MaxLag)
  /\ machine' = Append(machine, object)
  /\ pass' = [pass EXCEPT !.stale = (pc # "idle")]
  /\ UNCHANGED <<pods, service, cluster, queued, pc, faults>>

EditMachine == WriteMachine(Stored(machine))
DeleteMachine == WriteMachine(NoMachine)

ChangeCluster ==
  /\ Event
  /\ cluster' = ~cluster
  /\ UNCHANGED <<machine, pods, service, queued, pc, pass, faults>>

\* Another machine creates the Service, or it is deleted, for one when the
\* machine that owns it is.
ChangeService ==
  /\ Event
  /\ Room(service, MaxLag)
  /\ service' = Write(service, IF Stored(service) = "none" THEN "other" ELSE "none")
  /\ UNCHANGED <<machine, pods, cluster, queued, pc, pass, faults>>

\* Someone else changes the pods of a template.
WritePods(t, states) ==
  /\ states # Stored(pods)[t]
  /\ Room(pods, MaxLag)
  /\ pods' = Append(pods, [Stored(pods) EXCEPT ![t] = states])
  /\ pass' = [pass EXCEPT !.clean = FALSE]
  /\ UNCHANGED <<machine, service, cluster, queued, pc, faults>>

\* A pod leaves a state; whether another one stays in it, its number would tell.
Left(t, state) == {Stored(pods)[t], Stored(pods)[t] \ {state}}

\* A pod comes to run,
RunPod(t) ==
  /\ "waiting" \in Stored(pods)[t]
  /\ \E left \in Left(t, "waiting") : WritePods(t, left \cup {"running"})
  /\ UNCHANGED events

\* fails,
StopPod(t) ==
  /\ Event
  /\ "running" \in Stored(pods)[t]
  /\ \E left \in Left(t, "running") : WritePods(t, left \cup {"waiting"})

\* or is deleted.
LosePod(t) ==
  /\ Event
  /\ \E state \in Stored(pods)[t] : \E left \in Left(t, state) : WritePods(t, left)

\* The garbage collector deletes what the machine leaves behind; the pods of a
\* template at once, as they are not counted.
Collect ==
  /\ Stored(machine) = NoMachine
  /\ \/ /\ \E t \in Roles : WritePods(t, {})
        /\ UNCHANGED events
     \/ /\ Stored(service) = "mine"
        /\ Room(service, MaxLag)
        /\ service' = Write(service, "none")
        /\ UNCHANGED <<machine, pods, cluster, queued, pc, pass, Bounds>>

-----------------------------------------------------------------------------
Reconcile ==
  \/ GetNothing \/ GetNoCluster \/ Begin
  \/ \E t \in Roles : CreatePod(t) \/ PodFails(t)
  \/ SetupService \/ ServiceFails
  \/ UpdateStatus \/ UpdateFails

Environment ==
  \/ EditMachine \/ DeleteMachine \/ ChangeCluster \/ ChangeService
  \/ \E t \in Roles : RunPod(t) \/ StopPod(t) \/ LosePod(t)
  \/ Collect

Next ==
  \/ Reconcile
  \/ Crash \/ DeliverMachine \/ DeliverPods \/ DeliverService
  \/ Environment

Spec == Init /\ [][Next]_vars

\* The one worker goes on while there is work, watch events arrive, and the
\* garbage collector works.  No pod has to run.
FairSpec ==
  /\ Spec
  /\ WF_vars(Reconcile) /\ WF_vars(Collect)
  /\ WF_vars(DeliverMachine) /\ WF_vars(DeliverPods) /\ WF_vars(DeliverService)

-----------------------------------------------------------------------------
(* Correctness.                                                            *)

\* The types of the variables; only a pass in the pod loop has pods to create.
TypeOK ==
  /\ machine \in Streams(KinkMachine \cup {NoMachine})
  /\ pods \in Streams(Pods)
  /\ service \in Streams(Services)
  /\ cluster \in BOOLEAN
  /\ queued \in BOOLEAN
  /\ pc \in {"idle", "pods", "status"}
  /\ pass \in Pass
  /\ pc # "pods" => pass.create = {}
  /\ events \in 0..MaxEvents
  /\ faults \in 0..MaxFaults

\* The pods with a role in their label.
Labelled(content, role) == {t \in Roles : Label(t) = role /\ content[t] # {}}

\* OneEachWhenClean: as long as the pass listed the stored pods and nobody else
\* interferes, it creates no second pod for a role whose pods carry its label;
\* that of the apiserver may follow the pod of the mislabelled scheduler the same
\* pass created.
OneEachWhenClean ==
  [][\A t \in Roles \ {"scheduler"} :
       CreatePod(t) /\ pass.clean =>
         Labelled(Stored(pods), t) \subseteq {"scheduler"}]_vars

\* The pods and the Service the machine needs; the pod of the scheduler stands
\* for that of the apiserver.
Provided ==
  /\ \A role \in {Label(t) : t \in Roles} : Labelled(Stored(pods), role) # {}
  /\ Stored(service) # "none"

\* Provisioned: when users and faults are done, every role that is found gets a
\* pod and the cluster an etcd Service, though nothing watches for the Service; of
\* a machine that is deleted nothing is left, whatever a pass that had begun
\* still created.
Provisioned ==
  <>[]cluster =>
    <>[](IF Stored(machine) = NoMachine
         THEN (\A t \in Roles : Stored(pods)[t] = {}) /\ Stored(service) # "mine"
         ELSE Provided)

\* A pod of a role other than the scheduler's does not run.
SomeDown == \E t \in Roles \ {"scheduler"} : "waiting" \in Stored(pods)[t]

Reported == Stored(machine) # NoMachine /\ Stored(machine).ready

\* DownReported: when, from some time on, always some pod (not always the same)
\* does not run, the machine is reported not ready, and stays so.
DownReported ==
  <>[](cluster /\ Stored(machine) # NoMachine /\ SomeDown) => <>[]~Reported

\* ReadyIsServing: kinkmachine_types.go:52-53 has Ready denote that the API server
\* is ready to receive requests; at the least, and as long as no pod that runs
\* ever stops, its pod runs.
ReadyIsServing == Reported => "running" \in Stored(pods)["apiserver"]

\* ApiServerProvisioned: README.md:52 has the resources synchronized until the
\* desired state is reached; a machine gets a pod of the apiserver.
ApiServerProvisioned ==
  <>[](cluster /\ Stored(machine) # NoMachine) => <>(Stored(pods)["apiserver"] # {})
=============================================================================
