-------------------------------- MODULE Kink --------------------------------
(***************************************************************************)
(* The three controllers together, in one process and over one set of      *)
(* informer caches: the KinkCluster controller opens the gate of the       *)
(* KinkControlPlane controller (module ControlPlane), which creates the    *)
(* KinkMachines of the KinkMachine controller, whose "ready" it counts.    *)
(*                                                                         *)
(* Source: src/controllers/infrastructure/ and src/main.go.                *)
(*                                                                         *)
(* Of ControlPlane's environment the Cluster and the machines' status are  *)
(* now written by those who write them.  A pass of the KinkMachine         *)
(* controller is coarser than in module Machine: its pods are one set of   *)
(* states, and it creates at least the scheduler's pod, which no pass      *)
(* finds (Machine!Label).                                                  *)
(***************************************************************************)
EXTENDS ControlPlane

CONSTANT NoKinkCluster   \* there is no KinkCluster

\* The Cluster is new: nothing has marked its infrastructure ready.
ASSUME NewClusterAssumption == \A c \in Clusters \ {NoCluster} : ~c.infra

ASSUME NoTaskAssumption == Absent \notin Machines

VARIABLES
  kinkCluster,   \* stream of the KinkCluster
  clusterQueued, \* the KinkCluster controller's work queue holds its request
  readied,       \* ghost: a KinkCluster was stored as ready
  pods,          \* stream of the pods, by machine: the states they are in
  queue,         \* the KinkMachine controller's work queue
  task           \* the local variables of its pass

\* status.ready, and whether spec.controlPlaneEndpoint is set.
KinkCluster == [ready : BOOLEAN, endpoint : BOOLEAN]
NewKinkCluster(endpoint) == [ready |-> FALSE, endpoint |-> endpoint]

ASSUME NoKinkClusterAssumption == NoKinkCluster \notin KinkCluster

\* A pod runs or does not.
PodContents == [Machines -> SUBSET {"running", "waiting"}]

\* Between its writes a pass keeps the KinkMachine it got, or Absent if none runs,
\* and, a ghost, whether the stored machine is another by now.
Task == [machine : Machines \cup {Absent}, stale : BOOLEAN]
NoTask == [machine |-> Absent, stale |-> FALSE]

controlPlane == vars
infrastructure == <<kinkCluster, clusterQueued, readied, pods, queue, task>>
kinkVars == <<controlPlane, infrastructure>>

\* The KinkCluster is new, its endpoint given from the start or not, or still to be
\* created.
KinkInit ==
  /\ Init
  /\ kinkCluster \in {<<k>> : k \in {NewKinkCluster(e) : e \in BOOLEAN} \cup {NoKinkCluster}}
  /\ clusterQueued = (Cached(kinkCluster) # NoKinkCluster)
  /\ readied = FALSE
  /\ pods = <<[m \in Machines |-> {}]>>
  /\ queue = {}
  /\ task = NoTask

-----------------------------------------------------------------------------
(* The KinkCluster controller.                                             *)

\* Get of the KinkCluster says NotFound: nothing to do.
GetNoKinkCluster ==
  /\ clusterQueued
  /\ Cached(kinkCluster) = NoKinkCluster
  /\ clusterQueued' = FALSE
  /\ UNCHANGED <<controlPlane, kinkCluster, readied, pods, queue, task>>

\* The pass gets the KinkCluster the cache shows and stores it as ready.
SetReady ==
  /\ clusterQueued
  /\ Cached(kinkCluster) # NoKinkCluster
  /\ ~Lagging(kinkCluster)
  /\ kinkCluster' = Write(kinkCluster, [Cached(kinkCluster) EXCEPT !.ready = TRUE])
  /\ clusterQueued' = FALSE
  /\ readied' = TRUE
  /\ UNCHANGED <<controlPlane, pods, queue, task>>

\* (Bug: a pass that fails is not queued again.)
SetReadyFailsForGood ==
  /\ clusterQueued
  /\ Cached(kinkCluster) # NoKinkCluster
  /\ \/ Lagging(kinkCluster) /\ UNCHANGED faults
     \/ faults > 0 /\ faults' = faults - 1
  /\ clusterQueued' = FALSE
  /\ UNCHANGED <<Objects, queued, pc, pass, Ghosts, born, events, kinkCluster, readied,
                 pods, queue, task>>

\* A conflict, NotFound if it is deleted by now, or any other failure: the pass is
\* queued again.
SetReadyFails ==
  /\ clusterQueued
  /\ Cached(kinkCluster) # NoKinkCluster
  /\ \/ Lagging(kinkCluster) /\ UNCHANGED faults
     \/ faults > 0 /\ faults' = faults - 1
  /\ UNCHANGED <<Objects, queued, pc, pass, Ghosts, born, events, infrastructure>>

DeliverKinkCluster ==
  /\ Lagging(kinkCluster)
  /\ kinkCluster' = Deliver(kinkCluster)
  /\ clusterQueued' = TRUE
  /\ UNCHANGED <<controlPlane, readied, pods, queue, task>>

-----------------------------------------------------------------------------
(* The KinkMachine controller.                                             *)

\* Some version of the machine after the cached one is on its way.
Outdated(m) == \E i \in 1..Len(machines) : machines[i][m] # Cached(machines)[m]

MachineGone(m) ==
  /\ task = NoTask /\ m \in queue
  /\ Cached(machines)[m] = Absent
  /\ queue' = queue \ {m}
  /\ UNCHANGED <<controlPlane, kinkCluster, clusterQueued, readied, pods, task>>

\* New pods of a machine are stored, with an event even if others wait already;
\* none runs yet.
StorePods(m) ==
  /\ Room(pods, MaxLag)
  /\ pods' = Append(pods, [Stored(pods) EXCEPT ![m] = @ \cup {"waiting"}])

\* Without a Cluster the request goes back to the queue.
Takes(m) ==
  /\ task = NoTask /\ m \in queue
  /\ Cached(machines)[m] # Absent
  /\ Cached(cluster) # NoCluster

\* The first half of a pass, up to the pods it creates.
SetupPods(m) ==
  /\ Takes(m)
  /\ StorePods(m)
  /\ queue' = queue \ {m}
  /\ task' = [machine |-> m, stale |-> Outdated(m)]
  /\ UNCHANGED <<controlPlane, kinkCluster, clusterQueued, readied>>

\* A Create fails, after a pod was stored or before: the machine stays queued.
SetupFails(m) ==
  /\ Takes(m)
  /\ faults > 0 /\ faults' = faults - 1
  /\ StorePods(m) \/ UNCHANGED pods
  /\ UNCHANGED <<Objects, queued, pc, pass, Ghosts, born, events, kinkCluster,
                 clusterQueued, readied, queue, task>>

\* (Bug: one pod that runs is enough.)
SomeRuns(states) == "running" \in states
AllRun(states) == "waiting" \notin states

\* updateMachineStatus, unless the machine is not the one the pass got.
UpdateMachine(m) ==
  /\ task.machine = m /\ ~task.stale
  /\ Room(machines, MaxLag)
  /\ LET ready == AllRun(Cached(pods)[m])
         owner == Stored(machines)[m].owner
     IN /\ machines' = Write(machines, [Stored(machines) EXCEPT ![m].ready = ready])
        /\ witnessed' = witnessed \cup {u \in {owner} : ready}
  /\ task' = NoTask
  /\ UNCHANGED <<kcp, cluster, queued, pc, pass, swallowed, Bounds, kinkCluster,
                 clusterQueued, readied, pods, queue>>

\* A conflict, or any other failure: the machine is queued again.
UpdateMachineFails(m) ==
  /\ task.machine = m
  /\ \/ task.stale /\ UNCHANGED faults
     \/ faults > 0 /\ faults' = faults - 1
  /\ queue' = queue \cup {m}
  /\ task' = NoTask
  /\ UNCHANGED <<Objects, queued, pc, pass, Ghosts, born, events, kinkCluster,
                 clusterQueued, readied, pods>>

\* Owns Pod: the machine that the event is about.  One that leaves the states as they
\* were is about a machine with more than one pod that waits.
EventOf(m) ==
  IF Cached(pods') = Cached(pods) THEN "waiting" \in Cached(pods)[m]
                                  ELSE Cached(pods')[m] # Cached(pods)[m]

DeliverPods ==
  /\ Lagging(pods)
  /\ pods' = Deliver(pods)
  /\ \E m \in Machines : EventOf(m) /\ queue' = queue \cup {m}
  /\ UNCHANGED <<controlPlane, kinkCluster, clusterQueued, readied, task>>

-----------------------------------------------------------------------------
(* The steps of ControlPlane, and what the others notice of them.          *)

\* The write of a machine by another controller, a user or the collector
\* outdates the pass that works for it.
Outdate ==
  task' = [task EXCEPT !.stale =
             @ \/ (task # NoTask /\ Stored(machines')[task.machine]
                                     # Stored(machines)[task.machine])]

\* A name is used again only when nothing of the earlier machine is left.
Unused(m) == Stored(pods)[m] = {} /\ m \notin queue /\ task.machine # m

OneOfPass ==
  /\ Reconcile /\ ~Panic
  /\ \A m \in Machines : CreateMachine(m) => Unused(m)
  /\ Outdate
  /\ UNCHANGED <<kinkCluster, clusterQueued, readied, pods, queue>>

\* The machines have one informer, and both controllers watch it.
DeliverMachinesToBoth ==
  /\ DeliverMachines
  /\ queue' = queue \cup {m \in Machines : Cached(machines)[m] # Cached(machines')[m]}
  /\ UNCHANGED <<kinkCluster, clusterQueued, readied, pods, task>>

DeliverTheRest ==
  /\ DeliverKcp \/ DeliverCluster \/ Resync
  /\ UNCHANGED infrastructure

\* The process ends with all its passes; the next one lists and enqueues
\* everything there is.
ProcessEnds ==
  /\ Panic \/ Crash
  /\ kinkCluster' = Relist(kinkCluster)
  /\ clusterQueued' = (Stored(kinkCluster) # NoKinkCluster)
  /\ pods' = Relist(pods)
  /\ queue' = Live(Stored(machines)) \cup {m \in Machines : Stored(pods)[m] # {}}
  /\ task' = NoTask
  /\ UNCHANGED readied

-----------------------------------------------------------------------------
(* Everybody else.                                                         *)

\* Users edit the KinkControlPlane or delete a machine; orphans are collected.
Users ==
  /\ \/ \E r \in Replicas : CreateKcp(r) \/ ScaleKcp(r)
     \/ DeleteKcp
     \/ \E m \in Machines : LoseMachine(m) \/ Collect(m)
  /\ Outdate
  /\ UNCHANGED <<kinkCluster, clusterQueued, readied, pods, queue>>

\* The user deletes the KinkCluster, and creates it, perhaps anew;
DeleteKinkCluster ==
  /\ events > 0 /\ events' = events - 1
  /\ Stored(kinkCluster) # NoKinkCluster
  /\ Room(kinkCluster, MaxLag)
  /\ kinkCluster' = Write(kinkCluster, NoKinkCluster)
  /\ UNCHANGED <<Objects, queued, pc, pass, Ghosts, born, faults, clusterQueued, readied,
                 pods, queue, task>>

CreateKinkCluster ==
  /\ Stored(kinkCluster) = NoKinkCluster
  /\ Room(kinkCluster, MaxLag)
  /\ \E e \in BOOLEAN : kinkCluster' = Write(kinkCluster, NewKinkCluster(e))
  /\ UNCHANGED <<controlPlane, clusterQueued, readied, pods, queue, task>>

\* and gives it its endpoint: no controller does.
SetEndpoint ==
  /\ Stored(kinkCluster) # NoKinkCluster /\ ~Stored(kinkCluster).endpoint
  /\ Room(kinkCluster, MaxLag)
  /\ kinkCluster' = Write(kinkCluster, [Stored(kinkCluster) EXCEPT !.endpoint = TRUE])
  /\ UNCHANGED <<controlPlane, clusterQueued, readied, pods, queue, task>>

\* Cluster API marks the Cluster when its KinkCluster is ready, and copies the
\* endpoint; it takes nothing back.
CopyInfrastructure ==
  LET c == Stored(cluster)
      k == Stored(kinkCluster)
      copied == [c EXCEPT !.infra = TRUE, !.endpoint = @ \/ k.endpoint]
  IN /\ c # NoCluster /\ k # NoKinkCluster /\ k.ready
     /\ c # copied
     /\ Room(cluster, MaxLag)
     /\ cluster' = Write(cluster, copied)
     /\ UNCHANGED <<kcp, machines, queued, pc, pass, Ghosts, Bounds, infrastructure>>

WritePods(m, states) ==
  /\ Room(pods, MaxLag)
  /\ pods' = Append(pods, [Stored(pods) EXCEPT ![m] = states])
  /\ UNCHANGED <<controlPlane, kinkCluster, clusterQueued, readied, queue, task>>

\* A pod comes to run; whether others still wait, their number would tell.
RunPod(m) ==
  /\ "waiting" \in Stored(pods)[m]
  /\ WritePods(m, {"running"}) \/ WritePods(m, {"running", "waiting"})

\* The garbage collector deletes the pods of a machine that is gone.
CollectPods(m) ==
  /\ Stored(machines)[m] = Absent /\ Stored(pods)[m] # {}
  /\ WritePods(m, {})

-----------------------------------------------------------------------------
MachinePass(m) ==
  \/ MachineGone(m) \/ SetupPods(m) \/ SetupFails(m)
  \/ UpdateMachine(m) \/ UpdateMachineFails(m)

KinkNext ==
  \/ GetNoKinkCluster \/ SetReady \/ SetReadyFails \/ DeliverKinkCluster
  \/ \E m \in Machines : MachinePass(m) \/ RunPod(m) \/ CollectPods(m)
  \/ DeliverPods
  \/ OneOfPass \/ DeliverMachinesToBoth \/ DeliverTheRest \/ ProcessEnds
  \/ Users \/ DeleteKinkCluster \/ CreateKinkCluster \/ SetEndpoint \/ CopyInfrastructure

KinkSpec == KinkInit /\ [][KinkNext]_kinkVars

\* Each controller has a worker, which takes the requests of its queue in turn,
\* however often a stream that is full (MaxLag) has it wait; informers deliver;
\* Cluster API and the garbage collector work.  No pod has to run, and no user to
\* do anything.
KinkFairness ==
  /\ SF_kinkVars(OneOfPass \/ (Panic /\ ProcessEnds))
  /\ WF_kinkVars(GetNoKinkCluster \/ SetReady \/ SetReadyFails)
  /\ \A m \in Machines : SF_kinkVars(MachinePass(m))
  /\ WF_kinkVars(DeliverKcp /\ DeliverTheRest)
  /\ WF_kinkVars(DeliverCluster /\ DeliverTheRest)
  /\ WF_kinkVars(DeliverMachinesToBoth)
  /\ WF_kinkVars(DeliverPods) /\ WF_kinkVars(DeliverKinkCluster)
  /\ WF_kinkVars(CopyInfrastructure)
  /\ \A m \in Machines : WF_kinkVars(Collect(m) /\ Users) /\ WF_kinkVars(CollectPods(m))

KinkFairSpec == KinkSpec /\ KinkFairness

-----------------------------------------------------------------------------
(* Correctness.                                                            *)

\* The types of the variables; a pass of the KinkMachine controller is stale
\* only while it works for a machine.
KinkTypeOK ==
  /\ TypeOK
  /\ kinkCluster \in Streams(KinkCluster \cup {NoKinkCluster})
  /\ clusterQueued \in BOOLEAN
  /\ readied \in BOOLEAN
  /\ pods \in Streams(PodContents)
  /\ queue \subseteq Machines
  /\ task \in Task
  /\ task.machine = Absent => task = NoTask

\* InfraFirst: nothing of a cluster's control plane exists before a KinkCluster of
\* it was ready, the Cluster was marked and its endpoint is known, and no restart,
\* edit, deletion or stale cache undoes that: three controllers hand on what none of
\* them sees whole.
InfraFirst ==
  \/ Live(Stored(machines)) = {} /\ \A m \in Machines : Stored(pods)[m] = {}
  \/ readied /\ Stored(cluster).infra /\ Stored(cluster).endpoint

\* A KinkControlPlane asks for machines.
Asked == Stored(kcp) # NoKcp /\ Want(Stored(kcp).replicas) > 0

\* There is a KinkCluster, and an endpoint.
EndpointGiven ==
  /\ Stored(kinkCluster) # NoKinkCluster
  /\ Stored(kinkCluster).endpoint \/ Stored(cluster).endpoint

\* Starts: a KinkControlPlane that asks for machines in a cluster with an endpoint
\* comes to have one with pods, again whenever it is lost, unless a failed write
\* was swallowed: the gate opens, through the KinkCluster controller and Cluster
\* API, and wakes the KinkControlPlane controller, whose machine wakes the
\* KinkMachine controller.
Starts ==
  <>[](Asked /\ EndpointGiven /\ ~swallowed) =>
    []<>(\E m \in Live(Stored(machines)) : Stored(pods)[m] # {})

\* No machine runs whole.
AllDown ==
  /\ Asked
  /\ \A m \in Live(Stored(machines)) : "waiting" \in Stored(pods)[m]

\* DownPropagates: when, from some time on, every machine always has some pod that
\* does not run, the KinkControlPlane is reported not ready, and stays so, though
\* each controller counts what its cache shows of what the other one reported.
DownPropagates == <>[]AllDown => <>[](Stored(kcp) # NoKcp /\ ~Stored(kcp).status.ready)
=============================================================================
