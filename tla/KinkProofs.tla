----------------------------- MODULE KinkProofs -----------------------------
(***************************************************************************)
(* Theorems of module Kink, for any number of machines and all bounds.     *)
(*                                                                         *)
(* The invariant: KinkTypeOK; TaskCurrent, by which a pass of the          *)
(* KinkMachine controller that nothing outdated works for a machine there  *)
(* is; and Gated, that whatever any cache shows or any pass holds of a     *)
(* control plane came after the infrastructure was ready.  To these comes  *)
(* ControlPlaneInv, the invariant of ControlPlane, which none of the other *)
(* controllers breaks.                                                     *)
(***************************************************************************)
EXTENDS Kink, ControlPlaneProofs

\* A pass that nothing outdated works for a machine that is stored.
TaskCurrent ==
  task.machine # Absent /\ ~task.stale => Stored(machines)[task.machine] # Absent

\* The infrastructure was ready, and the Cluster says so.
Provided == Open(Stored(cluster)) /\ readied

\* Nothing of a control plane is stored, on its way, or in the hands of a pass.
Nothing ==
  /\ \A c \in Along(machines), m \in Machines : c[m] = Absent
  /\ \A p \in Along(pods), m \in Machines : p[m] = {}
  /\ pc = "idle" /\ task.machine = Absent

\* A KinkCluster that is ready was stored as ready, and so was that of a Cluster that
\* is marked; a gate that was ever open still is.
Marked ==
  /\ Stored(kinkCluster) # NoKinkCluster /\ Stored(kinkCluster).ready => readied
  /\ \A c \in Along(cluster) :
       /\ c # NoCluster /\ c.infra => readied
       /\ Open(c) => Open(Stored(cluster))

Gated == Marked /\ (Nothing \/ Provided)

-----------------------------------------------------------------------------
(* Types.                                                                  *)

LEMMA NoTaskType == NoTask \in Task /\ NoTask.machine = Absent /\ NoTask.stale = FALSE
  BY DEF NoTask, Task

\* What the caches show and the API server stores.
LEMMA KinkReads ==
  ASSUME KinkTypeOK
  PROVE  /\ Cached(kinkCluster) \in KinkCluster \cup {NoKinkCluster}
         /\ Stored(kinkCluster) \in KinkCluster \cup {NoKinkCluster}
         /\ Cached(pods) \in PodContents /\ Stored(pods) \in PodContents
         /\ Cached(kinkCluster) \in Along(kinkCluster)
         /\ Stored(kinkCluster) \in Along(kinkCluster)
         /\ Cached(pods) \in Along(pods) /\ Stored(pods) \in Along(pods)
         /\ Cached(machines) \in Along(machines) /\ Stored(machines) \in Along(machines)
         /\ Cached(cluster) \in Along(cluster) /\ Stored(cluster) \in Along(cluster)
         /\ Along(cluster) \subseteq Cluster \cup {NoCluster}
<1>1. /\ kinkCluster \in Streams(KinkCluster \cup {NoKinkCluster})
      /\ pods \in Streams(PodContents) /\ machines \in Streams(Contents) /\ cluster \in Streams(Cluster \cup {NoCluster})
  BY DEF KinkTypeOK, TypeOK, MachineStreams, ClusterStreams
<1>2. /\ Cached(kinkCluster) \in KinkCluster \cup {NoKinkCluster}
      /\ Stored(kinkCluster) \in KinkCluster \cup {NoKinkCluster}
  BY <1>1, StreamReads
<1>3. Cached(pods) \in PodContents /\ Stored(pods) \in PodContents
  BY <1>1, StreamReads
<1>4. Stored(machines) \in Contents /\ Stored(cluster) \in Cluster \cup {NoCluster}
  BY <1>1, StreamReads
<1>5. Cached(kinkCluster) \in Along(kinkCluster) /\ Stored(kinkCluster) \in Along(kinkCluster)
  BY <1>1, <1>2, StreamAlong
<1>6. Cached(pods) \in Along(pods) /\ Stored(pods) \in Along(pods)
  BY <1>1, <1>3, StreamAlong
<1>7. Cached(machines) \in Along(machines) /\ Stored(machines) \in Along(machines)
  BY <1>1, <1>4, StreamAlong
<1>8. /\ Cached(cluster) \in Along(cluster) /\ Stored(cluster) \in Along(cluster)
      /\ Along(cluster) \subseteq Cluster \cup {NoCluster}
  BY <1>1, <1>4, StreamAlong
<1> QED
  BY <1>2, <1>3, <1>5, <1>6, <1>7, <1>8

\* A write of the pods of one machine.
LEMMA PodWrites ==
  ASSUME KinkTypeOK, NEW m \in Machines, NEW states \in SUBSET {"running", "waiting"}
  PROVE  /\ [Stored(pods) EXCEPT ![m] = states] \in PodContents
         /\ Append(pods, [Stored(pods) EXCEPT ![m] = states]) \in Streams(PodContents)
<1>1. [Stored(pods) EXCEPT ![m] = states] \in PodContents
  BY KinkReads DEF PodContents
<1> QED
  BY <1>1, StreamAppend DEF KinkTypeOK

LEMMA StorePodsType ==
  ASSUME KinkTypeOK, NEW m \in Machines, StorePods(m)
  PROVE  pods' \in Streams(PodContents)
<1>1. Stored(pods)[m] \cup {"waiting"} \in SUBSET {"running", "waiting"}
  BY KinkReads DEF PodContents
<1> QED
  BY <1>1, PodWrites DEF StorePods

LEMMA WritePodsType ==
  ASSUME KinkTypeOK, NEW m \in Machines, NEW states \in SUBSET {"running", "waiting"},
         WritePods(m, states)
  PROVE  KinkTypeOK'
<1>1. pods' \in Streams(PodContents)
  BY PodWrites DEF WritePods
<1>2. TypeOK'
  BY DEF WritePods, controlPlane, vars, KinkTypeOK, TypeOK
<1> QED
  BY <1>1, <1>2 DEF WritePods, KinkTypeOK

\* A write that outdates a pass leaves a task.
LEMMA OutdateType ==
  ASSUME KinkTypeOK, Outdate
  PROVE  /\ task' \in Task /\ task'.machine = task.machine
         /\ task'.machine = Absent => task' = NoTask
         /\ task.machine # Absent /\ ~task'.stale =>
              ~task.stale /\ Stored(machines')[task.machine] = Stored(machines)[task.machine]
<1>1. task \in Task /\ (task.machine = Absent => task = NoTask)
  BY DEF KinkTypeOK
<1> DEFINE changed == task # NoTask /\ Stored(machines')[task.machine]
                                         # Stored(machines)[task.machine]
<1>2. changed \in BOOLEAN /\ (task = NoTask => ~changed)
  OBVIOUS
<1>3. task' = [task EXCEPT !.stale = @ \/ changed]
  BY DEF Outdate
<1>4. task.machine # Absent => task # NoTask
  BY NoTaskType
<1>5. task.machine # Absent /\ ~changed =>
        Stored(machines')[task.machine] = Stored(machines)[task.machine]
  BY <1>4
<1> HIDE DEF changed
<1>6. /\ task' \in Task /\ task'.machine = task.machine
      /\ task'.stale = (task.stale \/ changed)
  BY <1>1, <1>2, <1>3 DEF Task
<1>7. task'.machine = Absent => task' = NoTask
  BY <1>1, <1>2, <1>3, <1>6, NoTaskType DEF NoTask
<1> QED
  BY <1>5, <1>6, <1>7

LEMMA NewKinkClusterType ==
  \A e \in BOOLEAN : NewKinkCluster(e) \in KinkCluster /\ ~NewKinkCluster(e).ready
  BY DEF NewKinkCluster, KinkCluster

LEMMA KinkInitType == KinkInit => KinkTypeOK
<1> SUFFICES ASSUME KinkInit PROVE KinkTypeOK
  OBVIOUS
<1>1. TypeOK
  BY InitType DEF KinkInit
<1>2. PICK k \in {NewKinkCluster(e) : e \in BOOLEAN} \cup {NoKinkCluster} : kinkCluster = <<k>>
  BY DEF KinkInit
<1>3. kinkCluster \in Streams(KinkCluster \cup {NoKinkCluster})
  <2>1. k \in KinkCluster \cup {NoKinkCluster}
    BY NewKinkClusterType
  <2> QED
    BY <1>2, <2>1 DEF Streams
<1>4. pods \in Streams(PodContents)
  <2>1. [m \in Machines |-> {}] \in PodContents
    BY DEF PodContents
  <2> QED
    BY <2>1 DEF KinkInit, Streams
<1> QED
  BY <1>1, <1>3, <1>4, NoTaskType DEF KinkInit, KinkTypeOK

\* What a write of the KinkCluster writes.
LEMMA KinkClusterWritten ==
  ASSUME KinkTypeOK,
         SetReady \/ DeleteKinkCluster \/ CreateKinkCluster \/ SetEndpoint
  PROVE  \E k \in KinkCluster \cup {NoKinkCluster} :
           /\ kinkCluster' = Write(kinkCluster, k)
           /\ ~SetReady /\ k # NoKinkCluster /\ k.ready =>
                Stored(kinkCluster) # NoKinkCluster /\ Stored(kinkCluster).ready
<1>1. CASE SetReady
  <2>1. Cached(kinkCluster) \in KinkCluster
    BY <1>1, KinkReads DEF SetReady
  <2>2. [Cached(kinkCluster) EXCEPT !.ready = TRUE] \in KinkCluster
    BY <2>1 DEF KinkCluster
  <2> QED
    BY <1>1, <2>2 DEF SetReady
<1>2. CASE DeleteKinkCluster
  BY <1>2 DEF DeleteKinkCluster
<1>3. CASE CreateKinkCluster
  <2>1. PICK e \in BOOLEAN : kinkCluster' = Write(kinkCluster, NewKinkCluster(e))
    BY <1>3 DEF CreateKinkCluster
  <2> QED
    BY <2>1, NewKinkClusterType
<1>4. CASE SetEndpoint
  <2>1. Stored(kinkCluster) \in KinkCluster /\ Stored(kinkCluster) # NoKinkCluster
    BY <1>4, KinkReads DEF SetEndpoint
  <2> DEFINE k == [Stored(kinkCluster) EXCEPT !.endpoint = TRUE]
  <2>2. k \in KinkCluster /\ k.ready = Stored(kinkCluster).ready
    BY <2>1 DEF KinkCluster
  <2>3. kinkCluster' = Write(kinkCluster, k)
    BY <1>4 DEF SetEndpoint
  <2> HIDE DEF k
  <2> QED
    BY <2>1, <2>2, <2>3
<1> QED
  BY <1>1, <1>2, <1>3, <1>4

\* The steps of the KinkCluster controller, of its events and of its users.
ClusterSide ==
  \/ GetNoKinkCluster \/ SetReady \/ SetReadyFails \/ DeliverKinkCluster
  \/ DeleteKinkCluster \/ CreateKinkCluster \/ SetEndpoint

LEMMA ClusterSideType ==
  ASSUME KinkTypeOK, ClusterSide \/ CopyInfrastructure
  PROVE  KinkTypeOK'
<1>a. /\ kinkCluster \in Streams(KinkCluster \cup {NoKinkCluster})
      /\ cluster \in ClusterStreams
  BY DEF KinkTypeOK, TypeOK
<1>b. Stored(kinkCluster) \in KinkCluster \cup {NoKinkCluster}
  BY KinkReads
<1>1. CASE SetReady \/ DeleteKinkCluster \/ CreateKinkCluster \/ SetEndpoint
  <2>1. kinkCluster' \in Streams(KinkCluster \cup {NoKinkCluster})
    BY <1>1, <1>a, KinkClusterWritten, StreamWrite
  <2>2. DeleteKinkCluster => events' \in 0..MaxEvents
    BY BoundsAssumption DEF DeleteKinkCluster, KinkTypeOK, TypeOK
  <2> QED
    BY <1>1, <2>1, <2>2
    DEF SetReady, DeleteKinkCluster, CreateKinkCluster, SetEndpoint, controlPlane, vars,
        Objects, Ghosts, KinkTypeOK, TypeOK
<1>2. CASE SetReadyFails
  <2>1. faults' \in 0..MaxFaults
    BY <1>2, BoundsAssumption DEF SetReadyFails, KinkTypeOK, TypeOK
  <2> QED
    BY <1>2, <2>1
    DEF SetReadyFails, Objects, Ghosts, infrastructure, KinkTypeOK, TypeOK
<1>3. CASE DeliverKinkCluster
  <2>1. kinkCluster' \in Streams(KinkCluster \cup {NoKinkCluster})
    BY <1>3, <1>a, StreamDeliver DEF DeliverKinkCluster
  <2> QED
    BY <1>3, <2>1 DEF DeliverKinkCluster, controlPlane, vars, KinkTypeOK, TypeOK
<1>4. CASE GetNoKinkCluster
  BY <1>4 DEF GetNoKinkCluster, controlPlane, vars, KinkTypeOK, TypeOK
<1>5. CASE CopyInfrastructure
  <2>1. Stored(cluster) \in Cluster
    BY <1>5, Reads DEF CopyInfrastructure, KinkTypeOK
  <2> DEFINE e == Stored(cluster).endpoint \/ Stored(kinkCluster).endpoint
  <2>2. e \in BOOLEAN
    BY <1>b, <1>5, <2>1 DEF CopyInfrastructure, Cluster, KinkCluster
  <2>3. cluster' = Write(cluster, [Stored(cluster) EXCEPT !.infra = TRUE, !.endpoint = e])
    BY <1>5 DEF CopyInfrastructure
  <2> HIDE DEF e
  <2>4. [Stored(cluster) EXCEPT !.infra = TRUE, !.endpoint = e] \in Cluster \cup {NoCluster}
    BY <2>1, <2>2 DEF Cluster
  <2>5. cluster' \in ClusterStreams
    BY <1>a, <2>3, <2>4, StreamWrite DEF ClusterStreams
  <2> QED
    BY <1>5, <2>5
    DEF CopyInfrastructure, Ghosts, Bounds, infrastructure, KinkTypeOK, TypeOK
<1> QED
  BY <1>1, <1>2, <1>3, <1>4, <1>5 DEF ClusterSide

\* The KinkMachine controller writes the "ready" of a machine that is stored.
LEMMA MachineUpdates ==
  ASSUME KinkTypeOK, TaskCurrent, NEW m \in Machines, UpdateMachine(m)
  PROVE  /\ m \in Live(Stored(machines))
         /\ \E x \in KinkMachine :
              /\ x.owner = Stored(machines)[m].owner
              /\ machines' = Write(machines, [Stored(machines) EXCEPT ![m] = x])
              /\ witnessed' = witnessed \cup {u \in {x.owner} : x.ready}
<1>1. Stored(machines) \in Contents
  BY Reads DEF KinkTypeOK
<1>2. Stored(machines)[m] # Absent /\ Stored(machines)[m] \in KinkMachine
  BY <1>1, NoTaskAssumption DEF UpdateMachine, TaskCurrent, Contents
<1> DEFINE ready == AllRun(Cached(pods)[m])
           x == [Stored(machines)[m] EXCEPT !.ready = ready]
<1>3. x \in KinkMachine /\ x.owner = Stored(machines)[m].owner /\ x.ready = ready
  BY <1>2 DEF KinkMachine, AllRun
<1>4. /\ machines' = Write(machines, [Stored(machines) EXCEPT ![m].ready = ready])
      /\ witnessed' = witnessed \cup {u \in {Stored(machines)[m].owner} : ready}
  BY DEF UpdateMachine
<1>5. [Stored(machines) EXCEPT ![m].ready = ready] = [Stored(machines) EXCEPT ![m] = x]
  BY <1>1 DEF Contents
<1> HIDE DEF x, ready
<1> QED
  BY <1>2, <1>3, <1>4, <1>5 DEF Live

\* The steps of the KinkMachine controller and of the pods.
LEMMA MachineSideType ==
  ASSUME KinkTypeOK, TaskCurrent, NEW m \in Machines,
         MachinePass(m) \/ RunPod(m) \/ CollectPods(m)
  PROVE  KinkTypeOK'
<1>1. CASE MachineGone(m)
  BY <1>1 DEF MachineGone, controlPlane, vars, KinkTypeOK, TypeOK
<1>2. CASE SetupPods(m)
  <2>1. pods' \in Streams(PodContents)
    BY <1>2, StorePodsType DEF SetupPods
  <2>2. task' \in Task /\ task'.machine # Absent
    BY <1>2, NoTaskAssumption DEF SetupPods, Task, Outdated
  <2> QED
    BY <1>2, <2>1, <2>2 DEF SetupPods, controlPlane, vars, KinkTypeOK, TypeOK
<1>3. CASE SetupFails(m)
  <2>1. pods' \in Streams(PodContents)
    BY <1>3, StorePodsType DEF SetupFails, KinkTypeOK
  <2>2. faults' \in 0..MaxFaults
    BY <1>3, BoundsAssumption DEF SetupFails, KinkTypeOK, TypeOK
  <2> QED
    BY <1>3, <2>1, <2>2 DEF SetupFails, Objects, Ghosts, KinkTypeOK, TypeOK
<1>4. CASE UpdateMachine(m)
  <2>1. PICK x \in KinkMachine :
          /\ machines' = Write(machines, [Stored(machines) EXCEPT ![m] = x])
          /\ witnessed' = witnessed \cup {u \in {x.owner} : x.ready}
    BY <1>4, MachineUpdates
  <2>2. machines' \in MachineStreams
    BY <2>1, MachineWrites DEF KinkTypeOK
  <2>3. witnessed' \subseteq Uids
    BY <2>1 DEF KinkMachine, KinkTypeOK, TypeOK
  <2> QED
    BY <1>4, <2>2, <2>3, NoTaskType DEF UpdateMachine, Bounds, KinkTypeOK, TypeOK
<1>5. CASE UpdateMachineFails(m)
  <2>1. faults' \in 0..MaxFaults
    BY <1>5, BoundsAssumption DEF UpdateMachineFails, KinkTypeOK, TypeOK
  <2> QED
    BY <1>5, <2>1, NoTaskType
    DEF UpdateMachineFails, Objects, Ghosts, KinkTypeOK, TypeOK
<1>6. CASE RunPod(m)
  BY <1>6, WritePodsType DEF RunPod
<1>7. CASE CollectPods(m)
  BY <1>7, WritePodsType DEF CollectPods
<1> QED
  BY <1>1, <1>2, <1>3, <1>4, <1>5, <1>6, <1>7 DEF MachinePass

\* The steps that ControlPlane knows.
LEMMA KnownSteps ==
  ASSUME OneOfPass \/ DeliverMachinesToBoth \/ DeliverTheRest \/ ProcessEnds \/ Users
  PROVE  Next
BY DEF OneOfPass, DeliverMachinesToBoth, DeliverTheRest, ProcessEnds, Users, Next,
       Environment, Reconcile

LEMMA KinkStepType == KinkTypeOK /\ TaskCurrent /\ [KinkNext]_kinkVars => KinkTypeOK'
<1> SUFFICES ASSUME KinkTypeOK, TaskCurrent, [KinkNext]_kinkVars PROVE KinkTypeOK'
  OBVIOUS
<1>a. Next => TypeOK'
  BY StepType DEF KinkTypeOK
<1>1. CASE OneOfPass \/ Users
  <2>1. TypeOK'
    BY <1>1, <1>a, KnownSteps
  <2>2. task' \in Task /\ (task'.machine = Absent => task' = NoTask)
    BY <1>1, OutdateType DEF OneOfPass, Users
  <2> QED
    BY <1>1, <2>1, <2>2 DEF OneOfPass, Users, KinkTypeOK
<1>2. CASE DeliverMachinesToBoth \/ DeliverTheRest
  <2>1. TypeOK'
    BY <1>2, <1>a, KnownSteps
  <2> QED
    BY <1>2, <2>1 DEF DeliverMachinesToBoth, DeliverTheRest, infrastructure, KinkTypeOK
<1>3. CASE ProcessEnds
  <2>1. TypeOK'
    BY <1>3, <1>a, KnownSteps
  <2>2. /\ kinkCluster' \in Streams(KinkCluster \cup {NoKinkCluster})
        /\ pods' \in Streams(PodContents)
    BY <1>3, StreamRelist DEF ProcessEnds, KinkTypeOK
  <2> QED
    BY <1>3, <2>1, <2>2, NoTaskType DEF ProcessEnds, Live, KinkTypeOK
<1>4. CASE DeliverPods
  <2>1. pods' \in Streams(PodContents)
    BY <1>4, StreamDeliver DEF DeliverPods, KinkTypeOK
  <2> QED
    BY <1>4, <2>1 DEF DeliverPods, controlPlane, vars, KinkTypeOK, TypeOK
<1>5. CASE UNCHANGED kinkVars
  BY <1>5 DEF kinkVars, controlPlane, infrastructure, vars, KinkTypeOK, TypeOK
<1> QED
  BY <1>1, <1>2, <1>3, <1>4, <1>5, ClusterSideType, MachineSideType DEF KinkNext, ClusterSide

-----------------------------------------------------------------------------
(* The pass of the KinkMachine controller.                                 *)

LEMMA TaskCurrentStep ==
  KinkTypeOK /\ TaskCurrent /\ [KinkNext]_kinkVars => TaskCurrent'
<1> SUFFICES ASSUME KinkTypeOK, TaskCurrent, [KinkNext]_kinkVars PROVE TaskCurrent'
  OBVIOUS
<1>a. machines \in Streams(Contents)
  BY DEF KinkTypeOK, TypeOK, MachineStreams
<1>1. CASE OneOfPass \/ Users
  <2>1. Outdate
    BY <1>1 DEF OneOfPass, Users
  <2> QED
    BY <2>1, OutdateType DEF TaskCurrent
<1>2. CASE DeliverMachinesToBoth
  <2>1. Stored(machines') = Stored(machines) /\ task' = task
    <3>1. Stored(machines') = Stored(machines)
      BY <1>2, <1>a, StreamDeliver DEF DeliverMachinesToBoth, DeliverMachines
    <3> QED
      BY <1>2, <3>1 DEF DeliverMachinesToBoth
  <2> QED
    BY <2>1 DEF TaskCurrent
<1>3. ASSUME NEW m \in Machines, SetupPods(m) PROVE TaskCurrent'
  <2>1. task'.machine = m /\ task'.stale = Outdated(m) /\ machines' = machines
    BY <1>3 DEF SetupPods, controlPlane, vars
  <2>2. Len(machines) \in 1..Len(machines)
    BY <1>a DEF Streams
  <2>3. ~Outdated(m) => Stored(machines)[m] = Cached(machines)[m]
    BY <2>2 DEF Outdated, Stored
  <2>4. Cached(machines)[m] # Absent
    BY <1>3 DEF SetupPods, Takes
  <2> QED
    BY <2>1, <2>3, <2>4 DEF TaskCurrent
<1>4. CASE task' = NoTask
  BY <1>4, NoTaskType DEF TaskCurrent
<1>5. CASE UNCHANGED <<machines, task>>
  BY <1>5 DEF TaskCurrent
<1>6. ASSUME NEW m \in Machines, MachinePass(m) \/ RunPod(m) \/ CollectPods(m)
      PROVE  TaskCurrent'
  BY <1>3, <1>4, <1>5, <1>6
  DEF MachinePass, MachineGone, SetupFails, UpdateMachine, UpdateMachineFails, RunPod,
      CollectPods, WritePods, controlPlane, Objects, vars
<1>7. CASE ClusterSide
  BY <1>5, <1>7
  DEF ClusterSide, GetNoKinkCluster, SetReady, SetReadyFails, DeliverKinkCluster,
      DeleteKinkCluster, CreateKinkCluster, SetEndpoint, controlPlane, infrastructure,
      Objects, vars
<1>8. CASE CopyInfrastructure
  BY <1>5, <1>8 DEF CopyInfrastructure, infrastructure
<1>9. CASE DeliverPods \/ UNCHANGED kinkVars
  BY <1>5, <1>9 DEF DeliverPods, kinkVars, controlPlane, infrastructure, vars
<1>10. CASE DeliverTheRest
  BY <1>5, <1>10 DEF DeliverTheRest, infrastructure, DeliverKcp, DeliverCluster, Resync, Objects
<1>11. CASE ProcessEnds
  BY <1>4, <1>11 DEF ProcessEnds
<1> QED
  BY <1>1, <1>2, <1>6, <1>7, <1>8, <1>9, <1>10, <1>11 DEF KinkNext, ClusterSide

-----------------------------------------------------------------------------
(* The gate.                                                               *)

\* What was ready once was ready for good, and what is ready now was stored so.
LEMMA ReadyStays ==
  ASSUME KinkTypeOK, Marked, [KinkNext]_kinkVars
  PROVE  /\ readied => readied'
         /\ Stored(kinkCluster') # NoKinkCluster /\ Stored(kinkCluster').ready => readied'
<1>a. kinkCluster \in Streams(KinkCluster \cup {NoKinkCluster})
  BY DEF KinkTypeOK
<1>b. Stored(kinkCluster) # NoKinkCluster /\ Stored(kinkCluster).ready => readied
  BY DEF Marked
<1>1. CASE SetReady
  BY <1>1 DEF SetReady
<1>2. CASE DeleteKinkCluster \/ CreateKinkCluster \/ SetEndpoint
  <2>1. readied' = readied
    BY <1>2 DEF DeleteKinkCluster, CreateKinkCluster, SetEndpoint
  <2>2. CASE SetReady
    BY <1>1, <2>2
  <2>3. CASE ~SetReady
    <3>1. PICK k \in KinkCluster \cup {NoKinkCluster} :
            /\ kinkCluster' = Write(kinkCluster, k)
            /\ k # NoKinkCluster /\ k.ready =>
                 Stored(kinkCluster) # NoKinkCluster /\ Stored(kinkCluster).ready
      BY <1>2, <2>3, KinkClusterWritten
    <3>2. Stored(kinkCluster') = k
      BY <1>a, <3>1, StreamWrite
    <3> QED
      BY <1>b, <2>1, <3>1, <3>2
  <2> QED
    BY <2>2, <2>3
<1>3. CASE Stored(kinkCluster') = Stored(kinkCluster) /\ readied' = readied
  BY <1>b, <1>3
<1>4. CASE DeliverKinkCluster
  <2>1. Stored(kinkCluster') = Stored(kinkCluster) /\ readied' = readied
    BY <1>4, <1>a, StreamDeliver DEF DeliverKinkCluster
  <2> QED
    BY <1>3, <2>1
<1>5. CASE ProcessEnds
  <2>1. Stored(kinkCluster') = Stored(kinkCluster) /\ readied' = readied
    BY <1>5, <1>a, StreamRelist DEF ProcessEnds
  <2> QED
    BY <1>3, <2>1
<1>6. ASSUME NEW m \in Machines, MachinePass(m) \/ RunPod(m) \/ CollectPods(m)
      PROVE  UNCHANGED <<kinkCluster, readied>>
  BY <1>6
  DEF MachinePass, MachineGone, SetupPods, SetupFails, UpdateMachine, UpdateMachineFails,
      RunPod, CollectPods, WritePods
<1>7. CASE GetNoKinkCluster \/ SetReadyFails \/ CopyInfrastructure \/ DeliverTheRest
             \/ UNCHANGED kinkVars
  <2>1. UNCHANGED <<kinkCluster, readied>>
    BY <1>7 DEF GetNoKinkCluster, SetReadyFails, CopyInfrastructure, DeliverTheRest, kinkVars,
                infrastructure
  <2> QED
    BY <1>3, <2>1
<1>8. CASE DeliverPods \/ OneOfPass \/ DeliverMachinesToBoth \/ Users
  <2>1. UNCHANGED <<kinkCluster, readied>>
    BY <1>8 DEF DeliverPods, OneOfPass, DeliverMachinesToBoth, Users
  <2> QED
    BY <1>3, <2>1
<1> QED
  BY <1>1, <1>2, <1>3, <1>4, <1>5, <1>6, <1>7, <1>8 DEF KinkNext

\* Cluster API's write of the Cluster, or none: what a step does to its stream.
LEMMA ClusterSteps ==
  ASSUME KinkTypeOK, [KinkNext]_kinkVars
  PROVE  \/ Stored(cluster') = Stored(cluster) /\ Along(cluster') \subseteq Along(cluster)
         \/ CopyInfrastructure
<1>a. cluster \in Streams(Cluster \cup {NoCluster})
  BY DEF KinkTypeOK, TypeOK, ClusterStreams
<1>b. Stored(cluster) \in Cluster \cup {NoCluster} /\ Stored(cluster) \in Along(cluster)
  BY KinkReads, Reads DEF KinkTypeOK
<1>1. CASE UNCHANGED cluster
  BY <1>1
<1>2. CASE DeliverCluster
  BY <1>2, <1>a, <1>b, StreamDeliver, StreamAlong DEF DeliverCluster
<1>3. CASE ProcessEnds
  <2>1. cluster' = Relist(cluster)
    BY <1>3 DEF ProcessEnds, Panic, Crash, Restart
  <2> QED
    BY <1>a, <1>b, <2>1, StreamRelist, StreamAlong
<1>4. CASE OneOfPass
  BY <1>1, <1>4
  DEF OneOfPass, Reconcile, GetNothing, GetNoCluster, WaitForCluster, Begin, EnsurePki,
      PkiFails, ListMachines, CreateMachine, CreateFails, DeleteMachine, DeleteFails,
      UpdateStatus, UpdateFails, Objects, vars
<1>5. CASE Users
  BY <1>1, <1>5
  DEF Users, CreateKcp, ScaleKcp, DeleteKcp, WriteKcp, LoseMachine, Collect, RemoveMachine
<1>6. ASSUME NEW m \in Machines, MachinePass(m) \/ RunPod(m) \/ CollectPods(m)
      PROVE  UNCHANGED cluster
  BY <1>6
  DEF MachinePass, MachineGone, SetupPods, SetupFails, UpdateMachine, UpdateMachineFails,
      RunPod, CollectPods, WritePods, controlPlane, vars, Objects
<1>7. CASE ClusterSide \/ DeliverPods \/ UNCHANGED kinkVars
  BY <1>1, <1>7
  DEF ClusterSide, GetNoKinkCluster, SetReady, SetReadyFails, DeliverKinkCluster,
      DeleteKinkCluster, CreateKinkCluster, SetEndpoint, DeliverPods, kinkVars,
      controlPlane, vars, Objects
<1>8. CASE DeliverMachinesToBoth \/ DeliverKcp \/ Resync
  BY <1>1, <1>8 DEF DeliverMachinesToBoth, DeliverMachines, DeliverKcp, Resync, Objects
<1> QED
  BY <1>1, <1>2, <1>3, <1>4, <1>5, <1>6, <1>7, <1>8 
  DEF KinkNext, DeliverTheRest, ClusterSide

LEMMA MarkedStep ==
  ASSUME KinkTypeOK, Marked, [KinkNext]_kinkVars
  PROVE  Marked' /\ (Open(Stored(cluster)) => Open(Stored(cluster')))
<1>a. /\ readied => readied'
      /\ Stored(kinkCluster') # NoKinkCluster /\ Stored(kinkCluster').ready => readied'
  BY ReadyStays
<1>1. CASE Stored(cluster') = Stored(cluster) /\ Along(cluster') \subseteq Along(cluster)
  BY <1>1, <1>a DEF Marked
<1>2. CASE CopyInfrastructure
  <2>1. /\ Stored(cluster) \in Cluster /\ Stored(kinkCluster) \in KinkCluster
        /\ Stored(kinkCluster) # NoKinkCluster
    BY <1>2, Reads, KinkReads DEF CopyInfrastructure, KinkTypeOK
  <2> DEFINE e == Stored(cluster).endpoint \/ Stored(kinkCluster).endpoint
             c == [Stored(cluster) EXCEPT !.infra = TRUE, !.endpoint = e]
  <2>2. /\ c \in Cluster /\ c \in Cluster \cup {NoCluster}
        /\ (Open(Stored(cluster)) => Open(c))
    BY <2>1, NoClusterAssumption DEF Cluster, KinkCluster, Open
  <2>3. cluster' = Write(cluster, c) /\ readied
    BY <1>2 DEF CopyInfrastructure, Marked
  <2> HIDE DEF c
  <2>4. cluster \in Streams(Cluster \cup {NoCluster})
    BY DEF KinkTypeOK, TypeOK, ClusterStreams
  <2>5. Stored(cluster') = c /\ Along(cluster') \subseteq Along(cluster) \cup {c}
    BY <2>2, <2>3, <2>4, StreamWrite, StreamAlong
  <2> QED
    BY <1>a, <2>2, <2>3, <2>5 DEF Marked
<1> QED
  BY <1>1, <1>2, ClusterSteps

\* A pass that passes the gate finds what the KinkCluster controller and Cluster
\* API did; without it, nothing comes from nothing.
LEMMA NothingStep ==
  ASSUME KinkTypeOK, Marked, Nothing, [KinkNext]_kinkVars
  PROVE  Nothing' \/ Provided
<1>a. pods \in Streams(PodContents) /\ machines \in Streams(Contents)
  BY DEF KinkTypeOK, TypeOK, MachineStreams
<1>b. Stored(machines) \in Contents /\ Stored(pods) \in PodContents
  BY KinkReads, Reads DEF KinkTypeOK
<1>c. \A m \in Machines : /\ Stored(machines)[m] = Absent /\ Cached(machines)[m] = Absent
                          /\ Stored(pods)[m] = {} /\ task.machine # m
  BY KinkReads, NoTaskAssumption DEF Nothing
<1>1. CASE /\ Along(machines') \subseteq Along(machines)
           /\ Along(pods') \subseteq Along(pods)
           /\ pc' = "idle" /\ task'.machine = Absent
  BY <1>1 DEF Nothing
<1>2. CASE OneOfPass
  <2>1. pods' = pods /\ task'.machine = Absent
    BY <1>2, OutdateType DEF OneOfPass, Nothing
  <2>2. CASE GetNothing \/ GetNoCluster \/ WaitForCluster
    <3>1. machines' = machines /\ pc' = "idle"
      BY <2>2 DEF GetNothing, GetNoCluster, WaitForCluster, Objects, vars, Nothing
    <3> QED
      BY <1>1, <2>1, <3>1
  <2>3. CASE Begin
    <3>1. Open(Cached(cluster)) /\ Cached(cluster) \in Along(cluster)
      BY <2>3, KinkReads DEF Begin
    <3> QED
      BY <3>1 DEF Marked, Open, Provided
  <2> QED
    BY <1>2, <2>2, <2>3
    DEF OneOfPass, Reconcile, Nothing, EnsurePki, PkiFails, ListMachines, CreateMachine,
        CreateFails, DeleteMachine, DeleteFails, UpdateStatus, UpdateFails, Scaled
<1>3. CASE Users
  <2>1. ~\E m \in Machines : LoseMachine(m) \/ Collect(m)
    BY <1>c DEF LoseMachine, Collect, RemoveMachine, Live
  <2>2. machines' = machines /\ pc' = pc
    BY <1>3, <2>1 DEF Users, CreateKcp, ScaleKcp, DeleteKcp, WriteKcp
  <2>3. pods' = pods /\ task'.machine = Absent
    BY <1>3, OutdateType DEF Users, Nothing
  <2> QED
    BY <1>1, <2>2, <2>3 DEF Nothing
<1>4. CASE ProcessEnds
  <2>1. /\ machines' = Relist(machines) /\ pods' = Relist(pods)
        /\ pc' = "idle" /\ task' = NoTask
    BY <1>4 DEF ProcessEnds, Panic, Crash, Restart
  <2>2. Along(Relist(machines)) = {Stored(machines)} /\ Along(Relist(pods)) = {Stored(pods)}
    BY <1>a, <1>b, StreamAlong
  <2> QED
    BY <1>1, <2>1, <2>2, KinkReads, NoTaskType
<1>5. CASE DeliverMachinesToBoth
  <2>1. Lagging(machines) /\ machines' = Deliver(machines) /\ pods' = pods
        /\ pc' = pc /\ task' = task
    BY <1>5 DEF DeliverMachinesToBoth, DeliverMachines
  <2>2. Along(machines') \subseteq Along(machines)
    BY <1>a, <1>b, <2>1, StreamAlong
  <2> QED
    BY <1>1, <2>1, <2>2 DEF Nothing
<1>6. CASE DeliverPods
  <2>1. Lagging(pods) /\ pods' = Deliver(pods) /\ machines' = machines
        /\ pc' = pc /\ task' = task
    BY <1>6 DEF DeliverPods, controlPlane, vars
  <2>2. Along(pods') \subseteq Along(pods)
    BY <1>a, <1>b, <2>1, StreamAlong
  <2> QED
    BY <1>1, <2>1, <2>2 DEF Nothing
<1>7. ASSUME NEW m \in Machines, MachinePass(m) \/ RunPod(m) \/ CollectPods(m)
      PROVE  Nothing'
  <2>1. MachineGone(m)
    BY <1>7, <1>c
    DEF MachinePass, SetupPods, SetupFails, Takes, UpdateMachine, UpdateMachineFails,
        RunPod, CollectPods
  <2>2. UNCHANGED <<machines, pods, pc, task>>
    BY <2>1 DEF MachineGone, controlPlane, vars
  <2> QED
    BY <1>1, <2>2 DEF Nothing
<1>8. CASE ClusterSide \/ CopyInfrastructure \/ DeliverTheRest \/ UNCHANGED kinkVars
  <2>1. UNCHANGED <<machines, pods, pc, task>>
    BY <1>8
    DEF ClusterSide, GetNoKinkCluster, SetReady, SetReadyFails, DeliverKinkCluster,
        DeleteKinkCluster, CreateKinkCluster, SetEndpoint, CopyInfrastructure, DeliverTheRest, DeliverKcp, DeliverCluster, Resync, kinkVars, controlPlane,
        infrastructure, vars, Objects
  <2> QED
    BY <1>1, <2>1 DEF Nothing
<1> QED
  BY <1>2, <1>3, <1>4, <1>5, <1>6, <1>7, <1>8 DEF KinkNext, ClusterSide

LEMMA GatedStep == KinkTypeOK /\ Gated /\ [KinkNext]_kinkVars => Gated'
<1> SUFFICES ASSUME KinkTypeOK, Marked, Nothing \/ Provided, [KinkNext]_kinkVars
             PROVE  Marked' /\ (Nothing' \/ Provided')
  BY DEF Gated
<1>1. /\ Marked' /\ (Open(Stored(cluster)) => Open(Stored(cluster')))
      /\ readied => readied'
  BY MarkedStep, ReadyStays
<1>2. Provided => Provided'
  BY <1>1 DEF Provided
<1>3. Nothing => Nothing' \/ Provided
  BY NothingStep
<1> QED
  BY <1>1, <1>2, <1>3

LEMMA InitGated == KinkInit => Gated
<1> SUFFICES ASSUME KinkInit PROVE Gated
  OBVIOUS
<1>a. \A x : Along(<<x>>) = {x}
  <2> TAKE x
  <2>1. Len(<<x>>) = 1 /\ <<x>>[1] = x /\ 1..1 = {1}
    OBVIOUS
  <2> QED
    BY <2>1 DEF Along
<1>1. PICK c \in Clusters : cluster = <<c>>
  BY DEF KinkInit, Init
<1>2. Marked
  <2>1. PICK k \in {NewKinkCluster(e) : e \in BOOLEAN} \cup {NoKinkCluster} : kinkCluster = <<k>>
    BY DEF KinkInit
  <2>2. Stored(kinkCluster) = k /\ (k # NoKinkCluster => ~k.ready)
    BY <2>1, NewKinkClusterType DEF Stored
  <2> QED
    BY <1>a, <1>1, <2>2, NewClusterAssumption DEF Marked, Open
<1>3. Along(machines) = {[m \in Machines |-> Absent]} /\ Along(pods) = {[m \in Machines |-> {}]}
  BY <1>a DEF KinkInit, Init
<1>4. Nothing
  BY <1>3, NoTaskType DEF KinkInit, Init, Nothing
<1> QED
  BY <1>2, <1>4 DEF Gated

-----------------------------------------------------------------------------
(* The theorems.                                                           *)

KinkInv == KinkTypeOK /\ TaskCurrent /\ Gated

LEMMA SpecKinkInv == KinkSpec => []KinkInv
<1>1. KinkInit => KinkInv
  <2>1. KinkInit => TaskCurrent
    BY NoTaskType DEF KinkInit, TaskCurrent
  <2> QED
    BY <2>1, KinkInitType, InitGated DEF KinkInv
<1>2. KinkInv /\ [KinkNext]_kinkVars => KinkInv'
  <2> SUFFICES ASSUME KinkInv, [KinkNext]_kinkVars PROVE KinkInv'
    OBVIOUS
  <2>1. KinkTypeOK' /\ TaskCurrent' /\ Gated'
    BY KinkStepType, TaskCurrentStep, GatedStep DEF KinkInv
  <2> QED
    BY <2>1 DEF KinkInv
<1> QED
  BY <1>1, <1>2, PTL DEF KinkSpec

\* KinkTypeOK: the types of the variables of the composition hold in every state.
THEOREM KinkTypeCorrect == KinkSpec => []KinkTypeOK
<1>1. KinkInv => KinkTypeOK
  BY DEF KinkInv
<1> QED
  BY <1>1, SpecKinkInv, PTL

\* InfraFirst: no machine and no pod before the KinkCluster was ready and Cluster
\* API has said so, whatever is stale, fails, restarts or is deleted.
THEOREM InfrastructureFirst == KinkSpec => []InfraFirst
<1>1. KinkInv => InfraFirst
  <2> SUFFICES ASSUME KinkInv PROVE InfraFirst
    OBVIOUS
  <2>1. CASE Provided
    BY <2>1 DEF Provided, Open, InfraFirst
  <2>2. CASE Nothing
    <3>1. Stored(machines) \in Along(machines) /\ Stored(pods) \in Along(pods)
      BY KinkReads DEF KinkInv
    <3> QED
      BY <2>2, <3>1 DEF Nothing, InfraFirst, Live
  <2> QED
    BY <2>1, <2>2 DEF KinkInv, Gated
<1> QED
  BY <1>1, SpecKinkInv, PTL

-----------------------------------------------------------------------------
(* The KinkControlPlane controller among the others: what was proved of it *)
(* with an environment that may do anything at any time is so here too,    *)
(* where the others are the other controllers.                             *)

ControlPlaneInv == PromiseInv /\ LoopsBounded /\ ReadyWitnessed

\* A step that leaves alone what the KinkControlPlane controller sees.
Aside == UNCHANGED <<Objects, queued, pc, pass, Ghosts, born>>

LEMMA KinkSteps ==
  ASSUME [KinkNext]_kinkVars
  PROVE  Next \/ Aside \/ CopyInfrastructure \/ \E m \in Machines : UpdateMachine(m)
<1> USE DEF Objects, Ghosts, Bounds, controlPlane, infrastructure, vars, Aside
<1>1. ASSUME NEW m \in Machines, MachinePass(m) \/ RunPod(m) \/ CollectPods(m)
      PROVE  Aside \/ UpdateMachine(m)
  BY <1>1 DEF MachinePass, MachineGone, SetupPods, SetupFails, UpdateMachineFails, RunPod,
     CollectPods, WritePods
<1>2. CASE ClusterSide \/ DeliverPods \/ UNCHANGED kinkVars
  BY <1>2 DEF ClusterSide, GetNoKinkCluster, SetReady, SetReadyFails, DeliverKinkCluster,
     DeleteKinkCluster, CreateKinkCluster, SetEndpoint, DeliverPods, kinkVars
<1> QED
  BY <1>1, <1>2, KnownSteps DEF KinkNext, ClusterSide

LEMMA AsideStep ==
  ASSUME ControlPlaneInv, TypeOK', Aside
  PROVE  ControlPlaneInv' /\ UNCHANGED Abstract!vars /\ StatusStep
<1> USE DEF Objects, Ghosts
<1>1. UNCHANGED <<kcp, cluster, machines, queued, pc, pass, swallowed, witnessed, born>>
  BY DEF Aside
<1>2. Settled' = Settled /\ LetThrough' = LetThrough
  BY <1>1 DEF Settled, LetThrough
<1>3. PassCurrent' /\ LoopsIntact' /\ LoopsBounded'
  BY <1>1 DEF ControlPlaneInv, PromiseInv, PassCurrent, LoopsIntact, LoopsBounded
<1>4. AllCredited' /\ AllBorn' /\ ReadyWitnessed'
  BY <1>1 DEF ControlPlaneInv, PromiseInv, AllCredited, AllBorn, ReadyWitnessed
<1>5. SettledReplicas' /\ SettledStatus'
  BY <1>1, <1>2
  DEF ControlPlaneInv, PromiseInv, SettledReplicas, SettledStatus, Engaged, Scale
<1>6. UNCHANGED Abstract!vars /\ StatusStep
  BY <1>1, <1>2 DEF Abstract!vars, StatusStep
<1> QED
  BY <1>3, <1>4, <1>5, <1>6 DEF ControlPlaneInv, PromiseInv

\* Cluster API changes the Cluster, of which an event is on its way then.
LEMMA CopyStep ==
  ASSUME ControlPlaneInv, TypeOK', CopyInfrastructure
  PROVE  ControlPlaneInv' /\ Abstract!Stir /\ StatusStep
<1>1. UNCHANGED <<kcp, machines, queued, pc, pass, swallowed, witnessed, born>>
  BY DEF CopyInfrastructure, Ghosts, Bounds
<1>2. Settled' = FALSE
  <2>1. \E c : c # Stored(cluster) /\ cluster' = Append(cluster, c)
    BY DEF CopyInfrastructure, Write
  <2>2. Len(cluster') > 1
    BY <2>1 DEF ControlPlaneInv, PromiseInv, TypeOK, ClusterStreams, Streams
  <2> QED
    BY <2>2 DEF Settled, Lagging
<1>3. PassCurrent' /\ LoopsIntact' /\ LoopsBounded'
  BY <1>1 DEF ControlPlaneInv, PromiseInv, PassCurrent, LoopsIntact, LoopsBounded
<1>4. AllCredited' /\ AllBorn' /\ ReadyWitnessed'
  BY <1>1 DEF ControlPlaneInv, PromiseInv, AllCredited, AllBorn, ReadyWitnessed
<1>5. SettledReplicas' /\ SettledStatus'
  BY <1>2 DEF SettledReplicas, SettledStatus
<1>6. Abstract!Stir /\ StatusStep
  BY <1>1, <1>2 DEF Abstract!Stir, StatusStep, LetThrough, ControlPlaneInv, PromiseInv, TypeOK
<1> QED
  BY <1>3, <1>4, <1>5, <1>6 DEF ControlPlaneInv, PromiseInv

\* The KinkMachine controller turns a machine's "ready", or writes what is there.
LEMMA UpdateMachineStep ==
  ASSUME KinkTypeOK, TaskCurrent, ControlPlaneInv, TypeOK',
         NEW m \in Machines, UpdateMachine(m)
  PROVE  /\ ControlPlaneInv'
         /\ UNCHANGED Abstract!vars \/ Abstract!Turn(m)
         /\ StatusStep
<1>1. UNCHANGED <<kcp, cluster, queued, pc, pass, swallowed, born>>
  BY DEF UpdateMachine, Bounds
<1>2. Stored(machines) \in Contents /\ m \in Live(Stored(machines))
  BY Reads, MachineUpdates DEF KinkTypeOK
<1>3. PICK x \in KinkMachine :
        /\ x.owner = Stored(machines)[m].owner
        /\ machines' = Write(machines, [Stored(machines) EXCEPT ![m] = x])
        /\ witnessed' = witnessed \cup {u \in {x.owner} : x.ready}
  BY MachineUpdates
<1>4. Stored(machines)[m] \in KinkMachine
  BY <1>2 DEF Live, Contents
<1>5. AllCredited'
  BY <1>3, CreditedWrite DEF AllCredited, ControlPlaneInv, PromiseInv
<1>6. Live(Stored(machines')) = Live(Stored(machines))
  <2>1. x # Absent
    BY <1>3, NoObjectAssumption
  <2>2. Live(Stored(machines')) = Live(Stored(machines)) \cup {m}
    BY <1>3, <2>1, LiveAfterWrite DEF KinkTypeOK
  <2> QED
    BY <1>2, <2>2
<1>7. StatusStep
  BY <1>1 DEF StatusStep
<1>8. CASE x = Stored(machines)[m]
  <2>1. machines' = machines
    BY <1>2, <1>3, <1>8 DEF Write, Contents
  <2>2. Stored(machines) \in Credited(witnessed)
    BY StreamReads DEF AllCredited, ControlPlaneInv, PromiseInv
  <2>3. witnessed' = witnessed
    BY <1>2, <1>3, <1>8, <2>2 DEF Credited
  <2> QED
    BY <1>1, <2>1, <2>3, AsideStep DEF Aside, Objects, Ghosts
<1>9. CASE x # Stored(machines)[m]
  <2>1. /\ Stored(machines') = [Stored(machines) EXCEPT ![m] = x]
        /\ Lagging(machines')
    <3> DEFINE c == [Stored(machines) EXCEPT ![m] = x]
    <3>1. c \in Contents /\ c # Stored(machines)
      BY <1>2, <1>9 DEF Contents
    <3> QED
      BY <1>3, <3>1, StreamWrite DEF KinkTypeOK, TypeOK, MachineStreams
  <2>2. Settled' = FALSE
    BY <2>1 DEF Settled
  <2>3. PassCurrent' /\ AllBorn'
    BY <1>1 DEF ControlPlaneInv, PromiseInv, PassCurrent, AllBorn
  <2>4. LoopsIntact'
    BY <2>1 DEF LoopsIntact
  <2>5. LoopsBounded'
    BY <1>1, <1>6 DEF ControlPlaneInv, LoopsBounded
  <2>6. ReadyWitnessed'
    BY <1>1, <1>3 DEF ControlPlaneInv, ReadyWitnessed
  <2>7. SettledReplicas' /\ SettledStatus'
    BY <2>2 DEF SettledReplicas, SettledStatus
  <2>8. x = [Stored(machines)[m] EXCEPT !.ready = ~@]
    BY <1>3, <1>4, <1>9 DEF KinkMachine
  <2>9. Stored(machines') = [Stored(machines) EXCEPT ![m].ready = ~@]
    BY <1>2, <2>1, <2>8 DEF Contents
  <2>10. witnessed' = witnessed \cup {Stored(machines)[m].owner}
    <3>1. Stored(machines) \in Credited(witnessed)
      BY StreamReads DEF AllCredited, ControlPlaneInv, PromiseInv
    <3>2. x.ready \/ Stored(machines)[m].ready
      BY <1>4, <2>8 DEF KinkMachine
    <3> QED
      BY <1>2, <1>3, <3>1, <3>2 DEF Credited
  <2>11. LetThrough' = LetThrough
    BY <1>1 DEF LetThrough
  <2>12. Abstract!Turn(m)
    BY <1>1, <1>2, <2>2, <2>9, <2>10, <2>11, SameWords DEF Abstract!Turn, Abstract!Stirred
  <2> QED
    BY <1>5, <1>7, <2>3, <2>4, <2>5, <2>6, <2>7, <2>12
    DEF ControlPlaneInv, PromiseInv
<1> QED
  BY <1>8, <1>9

LEMMA AmongOthersStep ==
  ASSUME KinkInv, KinkInv', ControlPlaneInv, [KinkNext]_kinkVars
  PROVE  ControlPlaneInv' /\ [Abstract!Next]_(Abstract!vars) /\ StatusStep
<1>1. TypeOK /\ TypeOK' /\ KinkTypeOK /\ TaskCurrent
  BY DEF KinkInv, KinkTypeOK
<1>2. CASE Next
  <2>1. PromiseInv' /\ LoopsBounded' /\ ReadyWitnessed'
    BY <1>1, <1>2, PromiseInvStep, LoopsBoundedStep, ReadyWitnessedStep
    DEF ControlPlaneInv, PromiseInv
  <2>2. AtRestKept'
    BY <2>1, RestKept
  <2>3. [Abstract!Next]_(Abstract!vars)
    BY <1>2, <2>2, AbstractStep DEF ControlPlaneInv
  <2>4. StatusStep
    BY <1>1, <1>2, StatusStepHolds DEF ControlPlaneInv, PromiseInv
  <2> QED
    BY <2>1, <2>3, <2>4 DEF ControlPlaneInv
<1>3. CASE Aside
  BY <1>1, <1>3, AsideStep
<1>4. CASE CopyInfrastructure
  BY <1>1, <1>4, CopyStep DEF Abstract!Next
<1>5. ASSUME NEW m \in Machines, UpdateMachine(m)
      PROVE  ControlPlaneInv' /\ [Abstract!Next]_(Abstract!vars) /\ StatusStep
  BY <1>1, <1>5, UpdateMachineStep DEF Abstract!Next
<1> QED
  BY <1>2, <1>3, <1>4, <1>5, KinkSteps

LEMMA InitControlPlane == KinkInit => ControlPlaneInv /\ Abstract!Init
  BY InitPromise, InitWitnessed, AbstractInit
  DEF KinkInit, Init, LoopsBounded, ControlPlaneInv

LEMMA SpecControlPlaneInv == KinkSpec => []ControlPlaneInv
<1>1. KinkInv /\ KinkInv' /\ ControlPlaneInv /\ [KinkNext]_kinkVars => ControlPlaneInv'
  BY AmongOthersStep
<1> QED
  BY <1>1, InitControlPlane, SpecKinkInv, PTL DEF KinkSpec

\* KeepsItsPromise: with the other controllers, the pods and Cluster API around it
\* the KinkControlPlane controller still is the one of ReplicaControl.
THEOREM KinkKeepsItsPromise == KinkSpec => KeepsItsPromise
<1>1. KinkInv /\ KinkInv' /\ ControlPlaneInv /\ [KinkNext]_kinkVars
        => [Abstract!Next]_(Abstract!vars)
  BY AmongOthersStep
<1> QED
  BY <1>1, InitControlPlane, SpecKinkInv, SpecControlPlaneInv, PTL
  DEF KinkSpec, KeepsItsPromise, Abstract!Spec

\* SettledReplicas, SettledStatus and ReadyWitnessed hold in the composition, where
\* "ready" is what the KinkMachine controller read from its cache of the pods.
THEOREM KinkRestsWhenDone ==
  KinkSpec => [](SettledReplicas /\ SettledStatus /\ ReadyWitnessed)
<1>1. ControlPlaneInv => SettledReplicas /\ SettledStatus /\ ReadyWitnessed
  BY DEF ControlPlaneInv, PromiseInv
<1> QED
  BY <1>1, SpecControlPlaneInv, PTL

\* StatusOfCurrentSpec holds in the composition.
THEOREM KinkStatusIsCurrent == KinkSpec => StatusOfCurrentSpec
<1>1. KinkInv /\ KinkInv' /\ ControlPlaneInv /\ [KinkNext]_kinkVars => [StatusStep]_vars
  BY AmongOthersStep
<1> QED
  BY <1>1, SpecKinkInv, SpecControlPlaneInv, PTL DEF KinkSpec, StatusOfCurrentSpec

\* CloserWhenClean holds in the composition: the KinkMachine controller never
\* makes a pass overshoot.
THEOREM KinkMovesCloser == KinkSpec => CloserWhenClean
<1>1. ControlPlaneInv => [Closer]_vars
  BY CloserStep DEF ControlPlaneInv, PromiseInv
<1> QED
  BY <1>1, SpecControlPlaneInv, PTL DEF CloserWhenClean, Closer
=============================================================================
