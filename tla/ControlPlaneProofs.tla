------------------------- MODULE ControlPlaneProofs -------------------------
(***************************************************************************)
(* Theorems about ControlPlane, for every value of its constants; the last *)
(* is that it implements ReplicaControl.                                   *)
(***************************************************************************)
EXTENDS ControlPlane, InformerProofs, FiniteSetTheorems

Kcps == KinkControlPlane \cup {NoKcp}

-----------------------------------------------------------------------------
(* Lemmas about the operators of ControlPlane.                             *)

\* Sets of machines are finite.
LEMMA LiveFinite ==
  ASSUME NEW c \in Contents
  PROVE  /\ Live(c) \subseteq Machines
         /\ IsFiniteSet(Live(c))
         /\ Cardinality(Live(c)) \in Nat
<1>1. Live(c) \subseteq Machines
  BY DEF Live
<1>2. IsFiniteSet(Live(c))
  BY <1>1, MachinesAssumption, FS_Subset
<1> QED
  BY <1>1, <1>2, FS_CardinalityType

\* What a nil, a positive and a negative spec.replicas ask for is an integer.
LEMMA WantType ==
  ASSUME NEW r \in Replicas
  PROVE  Want(r) \in Int
BY ReplicasAssumption DEF Want

\* The counts of the two loops are natural numbers, and both are zero only
\* when the machines are as many as wanted.
LEMMA LoopCounts ==
  ASSUME NEW n \in Nat, NEW want \in Int
  PROVE  /\ Missing(n, want) \in Nat
         /\ Surplus(n, want) \in Nat
         /\ want >= 0 /\ Missing(n, want) = 0 /\ Surplus(n, want) = 0 => n = want
BY DEF Missing, Surplus

\* A status that is written has the right type and says what is so.
LEMMA ObservedAccurate ==
  ASSUME NEW c \in Contents, NEW uid \in Uids
  PROVE  /\ Observed(c, uid) \in Status
         /\ Accurate(Observed(c, uid), c, uid)
<1> DEFINE own == Owned(c, uid)
           up == Ready(c, uid)
<1>1. own \subseteq Live(c) /\ up \subseteq own
  BY DEF Owned, Ready
<1>2. IsFiniteSet(own) /\ IsFiniteSet(up)
  BY <1>1, LiveFinite, FS_Subset
<1>3. Cardinality(own) \in Nat /\ Cardinality(up) \in Nat
  BY <1>2, FS_CardinalityType
<1>4. Cardinality(up) <= Cardinality(own)
  BY <1>1, <1>2, FS_Subset
<1>5. Cardinality(up) = 0 <=> up = {}
  BY <1>2, FS_EmptySet
<1> HIDE DEF own, up
<1>6. Observed(c, uid) = [readyReplicas |-> Cardinality(up),
                          unavailableReplicas |-> Cardinality(own) - Cardinality(up),
                          ready |-> Cardinality(up) > 0]
  BY DEF Observed, own, up
<1>7. Observed(c, uid) \in Status
  BY <1>3, <1>4, <1>6 DEF Status
<1>8. Cardinality(up) + (Cardinality(own) - Cardinality(up)) = Cardinality(own)
  BY <1>3
<1>9. Cardinality(up) > 0 <=> up # {}
  BY <1>3, <1>5
<1>10. Accurate(Observed(c, uid), c, uid)
  <2> DEFINE seen == Observed(c, uid)
  <2>1. /\ seen.readyReplicas = Cardinality(up)
        /\ seen.unavailableReplicas = Cardinality(own) - Cardinality(up)
        /\ seen.ready = (Cardinality(up) > 0)
    BY <1>6
  <2> HIDE DEF seen
  <2>2. seen.readyReplicas + seen.unavailableReplicas = Cardinality(own)
    BY <1>8, <2>1
  <2>3. seen.ready <=> up # {}
    BY <1>9, <2>1
  <2> QED
    BY <2>1, <2>2, <2>3 DEF Accurate, own, up, seen
<1> QED
  BY <1>7, <1>10

-----------------------------------------------------------------------------
(* Type correctness.                                                       *)

\* What the types say of the contents that are read.
LEMMA Reads ==
  ASSUME TypeOK
  PROVE  /\ Cached(kcp) \in Kcps /\ Stored(kcp) \in Kcps
         /\ Cached(cluster) \in Cluster \cup {NoCluster}
         /\ Stored(cluster) \in Cluster \cup {NoCluster}
         /\ Cached(machines) \in Contents /\ Stored(machines) \in Contents
         /\ pc # "idle" => pass.kcp \in KinkControlPlane
<1>1. Cached(kcp) \in Kcps /\ Stored(kcp) \in Kcps
  BY StreamReads DEF TypeOK, KcpStreams, Kcps
<1>2. /\ Cached(cluster) \in Cluster \cup {NoCluster}
      /\ Stored(cluster) \in Cluster \cup {NoCluster}
  BY StreamReads DEF TypeOK, ClusterStreams
<1>3. Cached(machines) \in Contents /\ Stored(machines) \in Contents
  BY StreamReads DEF TypeOK, MachineStreams
<1>4. pc # "idle" => pass.kcp \in KinkControlPlane
  BY DEF TypeOK, Pass
<1> QED
  BY <1>1, <1>2, <1>3, <1>4

LEMMA NoPassType == NoPass \in Pass /\ NoPass.kcp = NoKcp
BY DEF NoPass, Pass

LEMMA KcpWrites ==
  ASSUME TypeOK, NEW k \in Kcps
  PROVE  Write(kcp, k) \in KcpStreams
BY StreamWrite DEF TypeOK, KcpStreams, Kcps

LEMMA MachineWrites ==
  ASSUME TypeOK, NEW m \in Machines, NEW x \in KinkMachine \cup {Absent}
  PROVE  Write(machines, [Stored(machines) EXCEPT ![m] = x]) \in MachineStreams
<1>1. [Stored(machines) EXCEPT ![m] = x] \in Contents
  BY Reads DEF Contents
<1> QED
  BY <1>1, StreamWrite DEF TypeOK, MachineStreams

LEMMA RestartType ==
  ASSUME TypeOK, Restart, faults' \in 0..MaxFaults
  PROVE  TypeOK'
<1>1. kcp' \in KcpStreams
  BY StreamRelist DEF TypeOK, Restart, KcpStreams
<1>2. cluster' \in ClusterStreams
  BY StreamRelist DEF TypeOK, Restart, ClusterStreams
<1>3. machines' \in MachineStreams
  BY StreamRelist DEF TypeOK, Restart, MachineStreams
<1>4. queued' \in BOOLEAN
  BY DEF Restart, Listed
<1> QED
  BY <1>1, <1>2, <1>3, <1>4, NoPassType DEF TypeOK, Restart, Ghosts

LEMMA WriteKcpType ==
  ASSUME TypeOK, NEW k \in Kcps, WriteKcp(k), born' \in Uids
  PROVE  TypeOK'
<1>1. kcp' \in KcpStreams
  BY KcpWrites DEF WriteKcp
<1>2. pass' \in Pass /\ pass'.kcp = pass.kcp
  BY DEF TypeOK, WriteKcp, Pass
<1>3. events' \in 0..MaxEvents
  BY BoundsAssumption DEF TypeOK, WriteKcp
<1> QED
  BY <1>1, <1>2, <1>3 DEF TypeOK, WriteKcp, Ghosts

LEMMA RemoveMachineType ==
  ASSUME TypeOK, NEW m \in Machines, RemoveMachine(m), events' \in 0..MaxEvents
  PROVE  TypeOK'
<1>1. machines' \in MachineStreams
  BY MachineWrites DEF RemoveMachine
<1>2. pass' \in Pass /\ pass'.kcp = pass.kcp
  BY DEF TypeOK, RemoveMachine, Pass
<1> QED
  BY <1>1, <1>2 DEF TypeOK, RemoveMachine, Ghosts

LEMMA InitType == Init => TypeOK
<1> SUFFICES ASSUME Init PROVE TypeOK
  OBVIOUS
<1>1. kcp \in KcpStreams
  <2>1. NewStatus \in Status
    BY DEF NewStatus, Status
  <2>2. \E k \in Kcps : kcp = <<k>>
    BY <2>1 DEF Init, Kcps, KinkControlPlane, Uids
  <2> QED
    BY <2>2 DEF KcpStreams, Streams, Kcps
<1>2. cluster \in ClusterStreams
  <2>1. PICK c \in Clusters : cluster = <<c>>
    BY DEF Init
  <2>2. c \in Cluster \cup {NoCluster}
    BY NoClusterAssumption
  <2> QED
    BY <2>1, <2>2 DEF ClusterStreams, Streams
<1>3. machines \in MachineStreams
  <2>1. [m \in Machines |-> Absent] \in Contents
    BY DEF Contents
  <2> QED
    BY <2>1 DEF Init, MachineStreams, Streams
<1>4. queued \in BOOLEAN
  BY DEF Init, Listed
<1>5. events \in 0..MaxEvents /\ faults \in 0..MaxFaults
  BY BoundsAssumption DEF Init
<1>6. /\ pc = "idle" /\ pass = NoPass
      /\ swallowed = FALSE /\ witnessed = {} /\ born \in Uids
  BY DEF Init, Uids
<1>7. pass \in Pass /\ pass.kcp = NoKcp
  BY <1>6, NoPassType
<1> QED
  BY <1>1, <1>2, <1>3, <1>4, <1>5, <1>6, <1>7 DEF TypeOK

LEMMA StepType == TypeOK /\ [Next]_vars => TypeOK'
<1> SUFFICES ASSUME TypeOK, [Next]_vars PROVE TypeOK'
  OBVIOUS
<1> USE DEF Objects, Ghosts, Bounds
<1>1. CASE UNCHANGED vars
  BY <1>1 DEF vars, TypeOK
<1>2. CASE GetNothing
  BY <1>2 DEF GetNothing, TypeOK
<1>3. CASE GetNoCluster
  BY <1>3 DEF GetNoCluster, vars, TypeOK
<1>4. CASE WaitForCluster
  BY <1>4 DEF WaitForCluster, TypeOK
<1>5. CASE Begin
  <2>1. pass' \in Pass /\ pass'.kcp # NoKcp
    <3>1. Lagging(kcp) \in BOOLEAN
      BY DEF Lagging
    <3> QED
      BY <1>5, <3>1, Reads, NoPassType DEF Begin, NoPass, Pass, Kcps
  <2> QED
    BY <1>5, <2>1 DEF Begin, TypeOK
<1>6. CASE EnsurePki
  BY <1>6 DEF EnsurePki, TypeOK
<1>7. CASE PkiFails
  BY <1>7, NoPassType, BoundsAssumption DEF PkiFails, Return, TypeOK
<1>8. CASE ListMachines
  <2>1. pass' \in Pass /\ pass'.kcp = pass.kcp
    <3>1. Cardinality(Live(Cached(machines))) \in Nat
      BY Reads, LiveFinite
    <3>2. Want(pass.kcp.replicas) \in Int
      BY <1>8, Reads, WantType DEF ListMachines, KinkControlPlane
    <3>3. Live(Cached(machines)) \subseteq Machines
      BY DEF Live
    <3>4. PICK doomed \in SUBSET Machines :
            pass' = [pass EXCEPT
                      !.create = Missing(Cardinality(Live(Cached(machines))),
                                         Want(pass.kcp.replicas)),
                      !.victims = doomed, !.clean = ~Lagging(machines)]
      BY <1>8, <3>3 DEF ListMachines
    <3>5. Missing(Cardinality(Live(Cached(machines))), Want(pass.kcp.replicas)) \in Nat
      BY <3>1, <3>2, LoopCounts
    <3> QED
      BY <3>4, <3>5 DEF TypeOK, Pass
  <2> QED
    BY <1>8, <2>1 DEF ListMachines, TypeOK
<1>9. ASSUME NEW m \in Machines, CreateMachine(m)
      PROVE  TypeOK'
  <2>1. [owner |-> pass.kcp.uid, ready |-> FALSE] \in KinkMachine
    BY <1>9, Reads DEF CreateMachine, KinkControlPlane, KinkMachine
  <2>2. machines' \in MachineStreams
    BY <1>9, <2>1, MachineWrites DEF CreateMachine
  <2>3. pass' \in Pass /\ pass'.kcp = pass.kcp
    BY <1>9 DEF CreateMachine, TypeOK, Pass
  <2> QED
    BY <1>9, <2>2, <2>3 DEF CreateMachine, TypeOK
<1>10. CASE CreateFails
  <2>1. pass' \in Pass /\ pass'.kcp = pass.kcp
    BY <1>10 DEF CreateFails, TypeOK, Pass
  <2>2. faults' \in 0..MaxFaults
    BY <1>10, BoundsAssumption DEF CreateFails, TypeOK
  <2> QED
    BY <1>10, <2>1, <2>2 DEF CreateFails, TypeOK
<1>11. ASSUME NEW m \in Machines, DeleteMachine(m)
       PROVE  TypeOK'
  <2>1. machines' \in MachineStreams
    BY <1>11, MachineWrites DEF DeleteMachine
  <2>2. pass' \in Pass /\ pass'.kcp = pass.kcp
    BY <1>11 DEF DeleteMachine, TypeOK, Pass
  <2> QED
    BY <1>11, <2>1, <2>2 DEF DeleteMachine, TypeOK
<1>12. ASSUME NEW m \in Machines, DeleteFails(m)
       PROVE  TypeOK'
  <2>1. pass' \in Pass /\ pass'.kcp = pass.kcp
    BY <1>12 DEF DeleteFails, TypeOK, Pass
  <2>2. faults' \in 0..MaxFaults
    BY <1>12, BoundsAssumption DEF DeleteFails, TypeOK
  <2> QED
    BY <1>12, <2>1, <2>2 DEF DeleteFails, TypeOK
<1>13. CASE UpdateStatus
  <2>1. /\ pass.kcp \in KinkControlPlane
        /\ Observed(Cached(machines), pass.kcp.uid) \in Status
    BY <1>13, Reads, ObservedAccurate DEF UpdateStatus, Scaled, KinkControlPlane
  <2>2. kcp' \in KcpStreams
    BY <1>13, <2>1, KcpWrites DEF UpdateStatus, KinkControlPlane, Kcps
  <2> QED
    BY <1>13, <2>2, NoPassType DEF UpdateStatus, Return, TypeOK
<1>14. CASE UpdateFails
  BY <1>14, NoPassType, BoundsAssumption DEF UpdateFails, Return, TypeOK
<1>15. CASE Panic
  BY <1>15, RestartType DEF Panic, TypeOK
<1>16. CASE Crash
  <2>1. faults' \in 0..MaxFaults
    BY <1>16, BoundsAssumption DEF Crash, TypeOK
  <2> QED
    BY <1>16, <2>1, RestartType DEF Crash
<1>17. CASE DeliverKcp
  <2>1. kcp' \in KcpStreams
    BY <1>17, StreamDeliver DEF DeliverKcp, TypeOK, KcpStreams
  <2> QED
    BY <1>17, <2>1 DEF DeliverKcp, TypeOK
<1>18. CASE DeliverCluster
  <2>1. cluster' \in ClusterStreams
    BY <1>18, StreamDeliver DEF DeliverCluster, TypeOK, ClusterStreams
  <2>2. queued' \in BOOLEAN
    BY <1>18 DEF DeliverCluster
  <2> QED
    BY <1>18, <2>1, <2>2 DEF DeliverCluster, TypeOK
<1>19. CASE DeliverMachines
  <2>1. machines' \in MachineStreams
    BY <1>19, StreamDeliver DEF DeliverMachines, TypeOK, MachineStreams
  <2> QED
    BY <1>19, <2>1 DEF DeliverMachines, TypeOK
<1>20. CASE Resync
  BY <1>20 DEF Resync, TypeOK
<1>21. ASSUME NEW r \in Replicas, CreateKcp(r) \/ ScaleKcp(r)
       PROVE  TypeOK'
  <2>1. CASE CreateKcp(r)
    <3>1. born' \in Uids
      BY <2>1 DEF CreateKcp, TypeOK, Uids
    <3>2. [uid |-> born', replicas |-> r, status |-> NewStatus] \in Kcps
      BY <3>1 DEF Kcps, KinkControlPlane, NewStatus, Status
    <3> QED
      BY <2>1, <3>1, <3>2, WriteKcpType DEF CreateKcp
  <2>2. CASE ScaleKcp(r)
    <3>1. [Stored(kcp) EXCEPT !.replicas = r] \in Kcps
      BY <2>2, Reads DEF ScaleKcp, Kcps, KinkControlPlane
    <3> QED
      BY <2>2, <3>1, WriteKcpType DEF ScaleKcp, TypeOK
  <2> QED
    BY <1>21, <2>1, <2>2
<1>22. CASE DeleteKcp
  BY <1>22, WriteKcpType DEF DeleteKcp, Kcps, TypeOK
<1>23. ASSUME NEW c \in Clusters, ChangeCluster(c)
       PROVE  TypeOK'
  <2>1. cluster' \in ClusterStreams
    BY <1>23, StreamWrite, NoClusterAssumption DEF ChangeCluster, TypeOK, ClusterStreams
  <2>2. events' \in 0..MaxEvents
    BY <1>23, BoundsAssumption DEF ChangeCluster, TypeOK
  <2> QED
    BY <1>23, <2>1, <2>2 DEF ChangeCluster, TypeOK
<1>24. ASSUME NEW m \in Machines, FlipReady(m)
       PROVE  TypeOK'
  <2>1. Stored(machines)[m] \in KinkMachine
    BY <1>24, Reads DEF FlipReady, Live, Contents
  <2>2. machines' \in MachineStreams
    <3>1. [Stored(machines)[m] EXCEPT !.ready = ~@] \in KinkMachine
      BY <2>1 DEF KinkMachine
    <3>2. machines' = Write(machines, [Stored(machines) EXCEPT
                        ![m] = [Stored(machines)[m] EXCEPT !.ready = ~@]])
      BY <1>24, Reads DEF FlipReady, Contents
    <3> QED
      BY <3>1, <3>2, MachineWrites
  <2>3. witnessed' \subseteq Uids
    BY <1>24, <2>1 DEF FlipReady, TypeOK, KinkMachine
  <2>4. events' \in 0..MaxEvents
    BY <1>24, BoundsAssumption DEF FlipReady, TypeOK
  <2> QED
    BY <1>24, <2>2, <2>3, <2>4 DEF FlipReady, TypeOK
<1>25. ASSUME NEW m \in Machines, LoseMachine(m)
       PROVE  TypeOK'
  <2>1. events' \in 0..MaxEvents
    BY <1>25, BoundsAssumption DEF LoseMachine, TypeOK
  <2> QED
    BY <1>25, <2>1, RemoveMachineType DEF LoseMachine
<1>26. ASSUME NEW m \in Machines, Collect(m)
       PROVE  TypeOK'
  BY <1>26, RemoveMachineType DEF Collect, TypeOK
<1> QED
  BY <1>1, <1>2, <1>3, <1>4, <1>5, <1>6, <1>7, <1>8, <1>9, <1>10, <1>11, <1>12,
     <1>13, <1>14, <1>15, <1>16, <1>17, <1>18, <1>19, <1>20, <1>21, <1>22, <1>23,
     <1>24, <1>25, <1>26 DEF Next, Reconcile, EditAlpha, Environment

\* Every variable keeps its type.
THEOREM TypeCorrect == Spec => []TypeOK
BY InitType, StepType, PTL DEF Spec

-----------------------------------------------------------------------------
(* What a pass knows: the strengthening of the invariants below.           *)

\* A pass that nobody overtook works for the stored KinkControlPlane.
PassCurrent == pc # "idle" /\ ~pass.stale => Stored(kcp) = pass.kcp

\* As long as no event of the machines woke the controller or will, and no write
\* failed, the loops are as the List of what is stored set them up.
LoopsIntact ==
  pc = "scale" /\ ~queued /\ ~swallowed /\ ~Lagging(machines) =>
    LET items == Live(Stored(machines))
        want == Want(pass.kcp.replicas)
    IN /\ pass.create = Missing(Cardinality(items), want)
       /\ pass.victims \subseteq items
       /\ Cardinality(pass.victims) = Surplus(Cardinality(items), want)

\* A write of the machines that leaves no event behind changed none of them.
LEMMA SilentMachineWrite ==
  ASSUME TypeOK, NEW m \in Machines, NEW x \in KinkMachine \cup {Absent},
         machines' = Write(machines, [Stored(machines) EXCEPT ![m] = x]),
         ~Lagging(machines')
  PROVE  machines' = machines /\ Stored(machines)[m] = x
<1> DEFINE c == [Stored(machines) EXCEPT ![m] = x]
<1>1. c \in Contents /\ c[m] = x
  BY Reads DEF Contents
<1>2. Write(machines, c) = machines /\ c = Stored(machines)
  BY <1>1, StreamWrite DEF TypeOK, MachineStreams
<1> QED
  BY <1>1, <1>2

\* FlipReady writes one machine.
LEMMA FlipReadyWrites ==
  ASSUME TypeOK, NEW m \in Machines, FlipReady(m)
  PROVE  \E x \in KinkMachine :
           machines' = Write(machines, [Stored(machines) EXCEPT ![m] = x])
<1>1. Stored(machines) \in Contents /\ Stored(machines)[m] \in KinkMachine
  BY Reads DEF FlipReady, Live, Contents
<1>2. [Stored(machines)[m] EXCEPT !.ready = ~@] \in KinkMachine
  BY <1>1 DEF KinkMachine
<1> QED
  BY <1>1, <1>2 DEF FlipReady, Contents

\* Someone else's write of the KinkControlPlane leaves an event behind.
LEMMA WriteKcpLags ==
  ASSUME TypeOK, NEW k \in Kcps, WriteKcp(k)
  PROVE  Lagging(kcp')
BY StreamWrite DEF TypeOK, WriteKcp, KcpStreams, Kcps

LEMMA CreatedKcp ==
  ASSUME TypeOK, NEW r \in Replicas, CreateKcp(r)
  PROVE  \E k \in KinkControlPlane : WriteKcp(k)
<1>1. born' \in Uids
  BY DEF CreateKcp, TypeOK, Uids
<1>2. [uid |-> born', replicas |-> r, status |-> NewStatus] \in KinkControlPlane
  BY <1>1 DEF KinkControlPlane, NewStatus, Status
<1> QED
  BY <1>2 DEF CreateKcp

LEMMA ScaledKcp ==
  ASSUME TypeOK, NEW r \in Replicas, ScaleKcp(r)
  PROVE  /\ [Stored(kcp) EXCEPT !.replicas = r] \in KinkControlPlane
         /\ WriteKcp([Stored(kcp) EXCEPT !.replicas = r])
BY Reads DEF ScaleKcp, KinkControlPlane, Kcps

\* The users' writes of the KinkControlPlane.
LEMMA UserWrites ==
  ASSUME TypeOK,
         DeleteKcp \/ \E r \in Replicas : CreateKcp(r) \/ ScaleKcp(r)
  PROVE  \E k \in Kcps : WriteKcp(k)
BY CreatedKcp, ScaledKcp DEF DeleteKcp, Kcps

LEMMA PassCurrentStep ==
  TypeOK /\ PassCurrent /\ [Next]_vars => PassCurrent'
<1> SUFFICES ASSUME TypeOK, PassCurrent, [Next]_vars PROVE PassCurrent'
  OBVIOUS
<1> USE DEF PassCurrent, Objects, Ghosts, Bounds
<1>1. CASE UNCHANGED vars \/ GetNoCluster
  BY <1>1 DEF vars, GetNoCluster
<1>2. CASE GetNothing \/ WaitForCluster \/ EnsurePki \/ CreateFails \/ Resync
  BY <1>2 DEF GetNothing, WaitForCluster, EnsurePki, CreateFails, Resync, TypeOK,
              Pass
<1>3. CASE Begin
  BY <1>3, StreamReads DEF Begin, NoPass, TypeOK, KcpStreams
<1>4. CASE PkiFails \/ UpdateStatus \/ UpdateFails
  BY <1>4 DEF PkiFails, UpdateStatus, UpdateFails, Return
<1>5. CASE Panic \/ Crash
  BY <1>5 DEF Panic, Crash, Restart
<1>6. CASE ListMachines
  BY <1>6 DEF ListMachines, TypeOK, Pass
<1>7. ASSUME NEW m \in Machines,
             \/ CreateMachine(m) \/ DeleteMachine(m) \/ DeleteFails(m)
             \/ FlipReady(m) \/ LoseMachine(m) \/ Collect(m)
      PROVE  PassCurrent'
  BY <1>7 DEF CreateMachine, DeleteMachine, DeleteFails, FlipReady, LoseMachine,
              Collect, RemoveMachine, TypeOK, Pass
<1>8. CASE DeliverKcp
  BY <1>8, StreamDeliver DEF DeliverKcp, TypeOK, KcpStreams
<1>9. CASE DeliverCluster \/ DeliverMachines
  BY <1>9 DEF DeliverCluster, DeliverMachines
<1>10. CASE DeleteKcp \/ \E r \in Replicas : CreateKcp(r) \/ ScaleKcp(r)
  <2>1. pc' = pc /\ (pc # "idle" => pass'.stale)
    BY <1>10, UserWrites DEF WriteKcp, TypeOK, Pass
  <2> QED
    BY <2>1
<1>11. ASSUME NEW c \in Clusters, ChangeCluster(c)
       PROVE  PassCurrent'
  BY <1>11 DEF ChangeCluster
<1> QED
  BY <1>1, <1>2, <1>3, <1>4, <1>5, <1>6, <1>7, <1>8, <1>9, <1>10, <1>11
     DEF Next, Reconcile, EditAlpha, Environment

LEMMA LoopsIntactStep ==
  TypeOK /\ LoopsIntact /\ [Next]_vars => LoopsIntact'
<1> SUFFICES ASSUME TypeOK, LoopsIntact, [Next]_vars,
                    pc' = "scale", ~queued', ~swallowed', ~Lagging(machines')
             PROVE  LoopsIntact'
  BY DEF LoopsIntact
<1> DEFINE Same ==
      /\ pc = "scale" /\ ~queued /\ ~swallowed
      /\ machines' = machines
      /\ pass'.kcp = pass.kcp /\ pass'.create = pass.create
      /\ pass'.victims = pass.victims
<1> USE DEF Objects, Ghosts, Bounds
<1>1. ASSUME Same PROVE LoopsIntact'
  BY <1>1 DEF LoopsIntact
<1>2. CASE UNCHANGED vars \/ GetNoCluster
  BY <1>1, <1>2 DEF vars, GetNoCluster
<1>3. CASE ListMachines
  <2> DEFINE items == Live(Cached(machines))
             want == Want(pass.kcp.replicas)
  <2>1. PICK doomed \in SUBSET items :
          /\ Cardinality(doomed) = Surplus(Cardinality(items), want)
          /\ pass' = [pass EXCEPT !.create = Missing(Cardinality(items), want),
                                  !.victims = doomed, !.clean = ~Lagging(machines)]
    BY <1>3 DEF ListMachines
  <2>2. machines' = machines /\ Cached(machines) = Stored(machines)
    BY <1>3, StreamReads DEF ListMachines, TypeOK, MachineStreams
  <2>3. /\ pass'.create = Missing(Cardinality(items), want)
        /\ pass'.victims = doomed /\ pass'.kcp = pass.kcp
    BY <2>1 DEF TypeOK, Pass
  <2> QED
    BY <2>1, <2>2, <2>3 DEF LoopsIntact
<1>4. ASSUME NEW m \in Machines, CreateMachine(m)
      PROVE  LoopsIntact'
  <2>1. [owner |-> pass.kcp.uid, ready |-> FALSE] \in KinkMachine
    BY <1>4, Reads DEF CreateMachine, KinkControlPlane, KinkMachine
  <2>2. Stored(machines)[m] = [owner |-> pass.kcp.uid, ready |-> FALSE]
    BY <1>4, <2>1, SilentMachineWrite DEF CreateMachine
  <2> QED
    BY <1>4, <2>1, <2>2, NoObjectAssumption DEF CreateMachine
<1>5. ASSUME NEW m \in Machines, DeleteMachine(m)
      PROVE  LoopsIntact'
  <2>1. machines' = machines /\ Stored(machines)[m] = Absent
    BY <1>5, SilentMachineWrite DEF DeleteMachine
  <2>2. m \in Live(Stored(machines))
    BY <1>5, <2>1 DEF DeleteMachine, LoopsIntact
  <2> QED
    BY <2>1, <2>2 DEF Live
<1>6. CASE CreateFails \/ \E m \in Machines : DeleteFails(m)
  BY <1>6 DEF CreateFails, DeleteFails
<1>7. ASSUME NEW m \in Machines, FlipReady(m)
      PROVE  LoopsIntact'
  <2>1. machines' = machines
    BY <1>7, FlipReadyWrites, SilentMachineWrite
  <2> QED
    BY <1>1, <1>7, <2>1 DEF FlipReady
<1>8. ASSUME NEW m \in Machines, LoseMachine(m) \/ Collect(m)
      PROVE  LoopsIntact'
  <2>1. RemoveMachine(m)
    BY <1>8 DEF LoseMachine, Collect
  <2>2. machines' = machines
    BY <2>1, SilentMachineWrite DEF RemoveMachine
  <2>3. /\ pass'.kcp = pass.kcp /\ pass'.create = pass.create
        /\ pass'.victims = pass.victims
    BY <2>1 DEF RemoveMachine, TypeOK, Pass
  <2> QED
    BY <1>1, <2>1, <2>2, <2>3 DEF RemoveMachine
<1>9. CASE DeleteKcp \/ \E r \in Replicas : CreateKcp(r) \/ ScaleKcp(r)
  <2>1. PICK k \in Kcps : WriteKcp(k)
    BY <1>9, UserWrites
  <2>2. /\ pass'.kcp = pass.kcp /\ pass'.create = pass.create
        /\ pass'.victims = pass.victims
    BY <2>1 DEF WriteKcp, TypeOK, Pass
  <2> QED
    BY <1>1, <2>1, <2>2 DEF WriteKcp
<1>10. ASSUME NEW c \in Clusters, ChangeCluster(c)
       PROVE  LoopsIntact'
  BY <1>1, <1>10 DEF ChangeCluster
<1>11. CASE DeliverCluster
  BY <1>1, <1>11 DEF DeliverCluster, TypeOK
<1>12. CASE DeliverKcp \/ DeliverMachines \/ Resync
  BY <1>12 DEF DeliverKcp, DeliverMachines, Resync
<1>13. CASE \/ GetNothing \/ WaitForCluster \/ Begin \/ EnsurePki
            \/ PkiFails \/ UpdateStatus \/ UpdateFails \/ Panic \/ Crash
  BY <1>13 DEF GetNothing, WaitForCluster, Begin, EnsurePki, PkiFails, UpdateStatus,
               UpdateFails, Panic, Crash, Return, Restart
<1> QED
  BY <1>2, <1>3, <1>4, <1>5, <1>6, <1>7, <1>8, <1>9, <1>10, <1>11, <1>12, <1>13
     DEF Next, Reconcile, EditAlpha, Environment

-----------------------------------------------------------------------------
(* At rest: SettledReplicas and SettledStatus.                             *)

\* Only the last step of a pass comes to rest with work done; every other step
\* that ends at rest changed nothing, for a change leaves an event or a request.
LEMMA ComingToRest ==
  ASSUME TypeOK, [Next]_vars, Settled', Engaged', Refers(Stored(cluster'))
  PROVE  \/ UpdateStatus
         \/ Settled /\ UNCHANGED <<kcp, cluster, machines, swallowed>>
<1> DEFINE Still == Settled /\ UNCHANGED <<kcp, cluster, machines, swallowed>>
<1> SUFFICES ASSUME ~UpdateStatus PROVE Still
  OBVIOUS
<1> USE DEF Objects, Ghosts, Bounds
<1>1. /\ pc' = "idle" /\ ~queued'
      /\ ~Lagging(kcp') /\ ~Lagging(cluster') /\ ~Lagging(machines')
      /\ Stored(kcp') # NoKcp /\ Open(Stored(cluster'))
  BY DEF Settled, Engaged
<1>2. CASE UNCHANGED vars \/ GetNoCluster
  BY <1>1, <1>2 DEF vars, GetNoCluster, Settled
<1>3. CASE GetNothing
  BY <1>1, <1>3, StreamReads DEF GetNothing, TypeOK, KcpStreams
<1>4. CASE WaitForCluster
  BY <1>1, <1>4, StreamReads DEF WaitForCluster, TypeOK, ClusterStreams
<1>5. CASE Begin \/ EnsurePki \/ ListMachines \/ CreateFails
  BY <1>1, <1>5 DEF Begin, EnsurePki, ListMachines, CreateFails
<1>6. CASE \E m \in Machines : CreateMachine(m) \/ DeleteMachine(m) \/ DeleteFails(m)
  BY <1>1, <1>6 DEF CreateMachine, DeleteMachine, DeleteFails
<1>7. CASE PkiFails \/ UpdateFails
  BY <1>1, <1>7 DEF PkiFails, UpdateFails, Return
<1>8. CASE Panic \/ Crash
  <2>1. Stored(kcp') = Stored(kcp)
    BY <1>8, StreamRelist DEF Panic, Crash, Restart, TypeOK, KcpStreams
  <2> QED
    BY <1>1, <1>8, <2>1 DEF Panic, Crash, Restart, Listed
<1>9. CASE DeliverKcp \/ DeliverMachines \/ Resync
  BY <1>1, <1>9 DEF DeliverKcp, DeliverMachines, Resync
<1>10. CASE DeliverCluster
  <2>1. cluster' \in ClusterStreams
    BY <1>10, StreamDeliver DEF DeliverCluster, TypeOK, ClusterStreams
  <2>2. Cached(cluster') = Stored(cluster')
    BY <1>1, <2>1, StreamReads DEF ClusterStreams
  <2> QED
    BY <1>1, <1>10, <2>2 DEF DeliverCluster
<1>11. CASE DeleteKcp \/ \E r \in Replicas : CreateKcp(r) \/ ScaleKcp(r)
  BY <1>1, <1>11, UserWrites, WriteKcpLags
<1>12. ASSUME NEW c \in Clusters, ChangeCluster(c)
       PROVE  Still
  <2>1. c \in Cluster \cup {NoCluster}
    BY NoClusterAssumption
  <2> QED
    BY <1>1, <1>12, <2>1, StreamWrite DEF ChangeCluster, TypeOK, ClusterStreams
<1>13. ASSUME NEW m \in Machines, FlipReady(m)
       PROVE  Still
  <2>1. machines' = machines
    BY <1>1, <1>13, FlipReadyWrites, SilentMachineWrite
  <2> QED
    BY <1>1, <1>13, <2>1 DEF FlipReady, Settled
<1>14. ASSUME NEW m \in Machines, LoseMachine(m) \/ Collect(m)
       PROVE  Still
  <2>1. RemoveMachine(m)
    BY <1>14 DEF LoseMachine, Collect
  <2>2. machines' = machines
    BY <1>1, <2>1, SilentMachineWrite DEF RemoveMachine
  <2> QED
    BY <1>1, <2>1, <2>2 DEF RemoveMachine, Settled
<1> QED
  BY <1>2, <1>3, <1>4, <1>5, <1>6, <1>7, <1>8, <1>9, <1>10, <1>11, <1>12, <1>13,
     <1>14 DEF Next, Reconcile, EditAlpha, Environment

\* A status update that leaves no event behind changed nothing: the pass got what
\* is stored, and the status it wrote is the stored one.
LEMMA SilentUpdate ==
  ASSUME TypeOK, PassCurrent, UpdateStatus, ~Lagging(kcp')
  PROVE  /\ Stored(kcp') = pass.kcp /\ Stored(kcp) = pass.kcp
         /\ pass.kcp \in KinkControlPlane
         /\ pass.kcp.status = Observed(Cached(machines), pass.kcp.uid)
<1> DEFINE new == [pass.kcp EXCEPT !.status = Observed(Cached(machines), pass.kcp.uid)]
<1>1. Stored(kcp) = pass.kcp /\ pass.kcp \in KinkControlPlane
  BY Reads DEF PassCurrent, UpdateStatus, Scaled
<1>2. new \in Kcps
  BY <1>1, Reads, ObservedAccurate DEF KinkControlPlane, Kcps
<1>3. kcp' = kcp /\ new = Stored(kcp)
  BY <1>2, StreamWrite DEF UpdateStatus, TypeOK, KcpStreams, Kcps
<1>4. new.status = Observed(Cached(machines), pass.kcp.uid)
  BY <1>1 DEF KinkControlPlane
<1> QED
  BY <1>1, <1>3, <1>4

LEMMA SettledReplicasStep ==
  TypeOK /\ PassCurrent /\ LoopsIntact /\ SettledReplicas /\ [Next]_vars
    => SettledReplicas'
<1> SUFFICES ASSUME TypeOK, PassCurrent, LoopsIntact, SettledReplicas, [Next]_vars,
                    Settled', Engaged', Refers(Stored(cluster')), ~swallowed'
             PROVE  Scale'
  BY DEF SettledReplicas
<1>1. CASE UpdateStatus
  <2>1. ~queued /\ ~Lagging(machines) /\ ~Lagging(kcp') /\ ~swallowed
        /\ machines' = machines
    BY <1>1 DEF Settled, UpdateStatus, Return, Ghosts, TypeOK
  <2>2. Stored(kcp') = pass.kcp /\ pass.kcp \in KinkControlPlane
    BY <1>1, <2>1, SilentUpdate
  <2> DEFINE n == Cardinality(Live(Stored(machines)))
             want == Want(pass.kcp.replicas)
  <2>3. n \in Nat /\ want \in Int /\ want >= 0
    BY <1>1, <2>2, Reads, LiveFinite, WantType DEF KinkControlPlane, UpdateStatus
  <2>4. Missing(n, want) = 0 /\ Surplus(n, want) = 0
    BY <1>1, <2>1, FS_EmptySet DEF LoopsIntact, UpdateStatus, Scaled
  <2>5. n = want
    BY <2>3, <2>4, LoopCounts
  <2> QED
    BY <2>1, <2>2, <2>5 DEF Scale
<1>2. CASE Settled /\ UNCHANGED <<kcp, cluster, machines, swallowed>>
  BY <1>2 DEF SettledReplicas, Engaged, Scale
<1> QED
  BY <1>1, <1>2, ComingToRest

LEMMA SettledStatusStep ==
  TypeOK /\ PassCurrent /\ SettledStatus /\ [Next]_vars => SettledStatus'
<1> SUFFICES ASSUME TypeOK, PassCurrent, SettledStatus, [Next]_vars,
                    Settled', Engaged', Refers(Stored(cluster'))
             PROVE  Accurate(Stored(kcp).status, Stored(machines), Stored(kcp).uid)'
  BY DEF SettledStatus
<1>1. CASE UpdateStatus
  <2>1. /\ ~Lagging(machines) /\ machines' = machines /\ ~Lagging(kcp')
    BY <1>1 DEF Settled, UpdateStatus
  <2>2. Cached(machines) = Stored(machines)
    BY <2>1, StreamReads DEF TypeOK, MachineStreams
  <2>3. /\ Stored(kcp') = pass.kcp /\ pass.kcp \in KinkControlPlane
        /\ pass.kcp.status = Observed(Stored(machines), pass.kcp.uid)
    BY <1>1, <2>1, <2>2, SilentUpdate
  <2>4. Accurate(pass.kcp.status, Stored(machines), pass.kcp.uid)
    BY <2>3, Reads, ObservedAccurate DEF KinkControlPlane
  <2> QED
    BY <2>1, <2>3, <2>4
<1>2. CASE Settled /\ UNCHANGED <<kcp, cluster, machines, swallowed>>
  BY <1>2 DEF SettledStatus, Engaged
<1> QED
  BY <1>1, <1>2, ComingToRest

\* Everything starts before any pass, and with a request if there is anything
\* to do.
LEMMA InitRest ==
  Init => PassCurrent /\ LoopsIntact /\ SettledReplicas /\ SettledStatus
BY DEF Init, PassCurrent, LoopsIntact, SettledReplicas, SettledStatus, Settled,
       Engaged, Listed

\* SettledReplicas holds, whatever the interleaving of edits, losses, restarts
\* and passes over stale caches.
THEOREM RestHasReplicas == Spec => []SettledReplicas
<1> DEFINE IInv == TypeOK /\ PassCurrent /\ LoopsIntact /\ SettledReplicas
<1>1. Init => IInv
  BY InitType, InitRest
<1>2. IInv /\ [Next]_vars => IInv'
  BY StepType, PassCurrentStep, LoopsIntactStep, SettledReplicasStep
<1> QED
  BY <1>1, <1>2, PTL DEF Spec

\* SettledStatus holds, even when a pass swallowed the failure of a write.
THEOREM RestHasStatus == Spec => []SettledStatus
<1> DEFINE IInv == TypeOK /\ PassCurrent /\ SettledStatus
<1>1. Init => IInv
  BY InitType, InitRest
<1>2. IInv /\ [Next]_vars => IInv'
  BY StepType, PassCurrentStep, SettledStatusStep
<1> QED
  BY <1>1, <1>2, PTL DEF Spec

-----------------------------------------------------------------------------
(* What a status claims: StatusOfCurrentSpec and ReadyWitnessed.           *)

\* The steps that change what is stored of the KinkControlPlane.
LEMMA KcpChanges ==
  ASSUME TypeOK, [Next]_vars, ~UpdateStatus, ~DeleteKcp,
         ~ \E r \in Replicas : CreateKcp(r) \/ ScaleKcp(r)
  PROVE  Stored(kcp') = Stored(kcp)
<1> USE DEF Objects, Ghosts, Bounds
<1>1. CASE Panic \/ Crash
  BY <1>1, StreamRelist DEF Panic, Crash, Restart, TypeOK, KcpStreams
<1>2. CASE DeliverKcp
  BY <1>2, StreamDeliver DEF DeliverKcp, TypeOK, KcpStreams
<1>3. ASSUME ~Panic, ~Crash, ~DeliverKcp
      PROVE  kcp' = kcp
  BY <1>3 DEF Next, Reconcile, EditAlpha, Environment, vars, GetNothing, GetNoCluster,
     WaitForCluster, Begin, EnsurePki, PkiFails, ListMachines, CreateMachine,
     CreateFails, DeleteMachine, DeleteFails, UpdateFails, DeliverCluster,
     DeliverMachines, Resync, ChangeCluster, FlipReady, LoseMachine, Collect,
     RemoveMachine
<1> QED
  BY <1>1, <1>2, <1>3

\* A status update stores the KinkControlPlane the pass got, with its new status.
LEMMA UpdateStores ==
  ASSUME TypeOK, UpdateStatus
  PROVE  /\ pass.kcp \in KinkControlPlane
         /\ Stored(kcp') = [pass.kcp EXCEPT
                             !.status = Observed(Cached(machines), pass.kcp.uid)]
<1>1. pass.kcp \in KinkControlPlane
  BY Reads DEF UpdateStatus, Scaled
<1>2. [pass.kcp EXCEPT !.status = Observed(Cached(machines), pass.kcp.uid)] \in Kcps
  BY <1>1, Reads, ObservedAccurate DEF KinkControlPlane, Kcps
<1> QED
  BY <1>1, <1>2, StreamWrite DEF UpdateStatus, TypeOK, KcpStreams, Kcps

\* Editing spec.replicas keeps the incarnation and its status.
LEMMA ScaleKcpStores ==
  ASSUME TypeOK, NEW r \in Replicas, ScaleKcp(r)
  PROVE  /\ Stored(kcp) \in KinkControlPlane
         /\ Stored(kcp') = [Stored(kcp) EXCEPT !.replicas = r]
<1>1. Stored(kcp) \in KinkControlPlane
  BY Reads DEF ScaleKcp, Kcps
<1>2. [Stored(kcp) EXCEPT !.replicas = r] \in Kcps
  BY ScaledKcp DEF Kcps
<1> QED
  BY <1>1, <1>2, ScaledKcp, StreamWrite DEF WriteKcp, TypeOK, KcpStreams, Kcps

\* The other writes create a KinkControlPlane where there is none, or delete it.
LEMMA CreateKcpStores ==
  ASSUME TypeOK, NEW r \in Replicas, CreateKcp(r)
  PROVE  Stored(kcp) = NoKcp /\ Stored(kcp').status = NewStatus
<1>1. [uid |-> born', replicas |-> r, status |-> NewStatus] \in Kcps
  BY DEF CreateKcp, TypeOK, Uids, Kcps, KinkControlPlane, NewStatus, Status
<1>2. Stored(kcp') = [uid |-> born', replicas |-> r, status |-> NewStatus]
  BY <1>1, StreamWrite DEF CreateKcp, WriteKcp, TypeOK, KcpStreams, Kcps
<1> QED
  BY <1>2 DEF CreateKcp

LEMMA DeleteKcpStores ==
  ASSUME TypeOK, DeleteKcp
  PROVE  Stored(kcp') = NoKcp
BY StreamWrite DEF DeleteKcp, WriteKcp, TypeOK, KcpStreams, Kcps

\* Every step is a status step: the optimistic lock of Status().Update is enough.
LEMMA StatusStepHolds == TypeOK /\ PassCurrent /\ [Next]_vars => StatusStep
<1> SUFFICES ASSUME TypeOK, PassCurrent, [Next]_vars PROVE StatusStep
  OBVIOUS
<1>1. CASE UpdateStatus
  <2>1. Stored(kcp) = pass.kcp /\ pass.kcp # NoKcp
    BY <1>1, Reads, NoObjectAssumption DEF PassCurrent, UpdateStatus, Scaled
  <2>2. Stored(kcp').uid = pass.kcp.uid /\ Stored(kcp').replicas = pass.kcp.replicas
    BY <1>1, UpdateStores DEF KinkControlPlane
  <2> QED
    BY <2>1, <2>2 DEF StatusStep
<1>2. ASSUME NEW r \in Replicas, ScaleKcp(r) PROVE StatusStep
  <2>1. /\ Stored(kcp').uid = Stored(kcp).uid
        /\ Stored(kcp').status = Stored(kcp).status
    BY <1>2, ScaleKcpStores DEF KinkControlPlane
  <2> QED
    BY <2>1 DEF StatusStep
<1>3. ASSUME NEW r \in Replicas, CreateKcp(r) PROVE StatusStep
  BY <1>3, CreateKcpStores DEF StatusStep
<1>4. CASE DeleteKcp
  BY <1>4, DeleteKcpStores DEF StatusStep
<1>5. CASE Stored(kcp') = Stored(kcp)
  BY <1>5 DEF StatusStep
<1> QED
  BY <1>1, <1>2, <1>3, <1>4, <1>5, KcpChanges

\* StatusOfCurrentSpec holds.
THEOREM StatusWritesAreCurrent == Spec => StatusOfCurrentSpec
<1>1. Init => TypeOK /\ PassCurrent
  BY InitType, InitRest
<1>2. TypeOK /\ PassCurrent /\ [Next]_vars => TypeOK' /\ PassCurrent'
  BY StepType, PassCurrentStep
<1>3. TypeOK /\ PassCurrent /\ [Next]_vars => [StatusStep]_vars
  BY StatusStepHolds
<1> QED
  BY <1>1, <1>2, <1>3, PTL DEF Spec, StatusOfCurrentSpec, StatusStep

\* The contents whose ready machines have owners in w.
Credited(w) ==
  {c \in Contents : \A m \in Live(c) : c[m].ready => c[m].owner \in w}

\* Every ready machine, stored, cached or on its way, is witnessed.
AllCredited == machines \in Streams(Credited(witnessed))

LEMMA CreditedGrows ==
  ASSUME NEW v, NEW w, v \subseteq w
  PROVE  Streams(Credited(v)) \subseteq Streams(Credited(w))
<1>1. Credited(v) \subseteq Credited(w)
  BY DEF Credited
<1> QED
  BY <1>1, StreamsGrow

\* Writing one machine keeps that, if the machine is credited itself.
LEMMA CreditedWrite ==
  ASSUME TypeOK, AllCredited, NEW w, witnessed \subseteq w, NEW m \in Machines,
         NEW x \in KinkMachine \cup {Absent}, x # Absent /\ x.ready => x.owner \in w
  PROVE  Write(machines, [Stored(machines) EXCEPT ![m] = x]) \in Streams(Credited(w))
<1>1. machines \in Streams(Credited(w))
  BY CreditedGrows DEF AllCredited
<1>2. Stored(machines) \in Credited(w)
  BY <1>1, StreamReads
<1>3. [Stored(machines) EXCEPT ![m] = x] \in Credited(w)
  BY <1>2 DEF Credited, Contents, Live
<1> QED
  BY <1>1, <1>3, StreamWrite

LEMMA AllCreditedStep ==
  TypeOK /\ AllCredited /\ [Next]_vars =>
    AllCredited' /\ witnessed \subseteq witnessed'
<1> SUFFICES ASSUME TypeOK, AllCredited, [Next]_vars
             PROVE  AllCredited' /\ witnessed \subseteq witnessed'
  OBVIOUS
<1> USE DEF Objects, Ghosts, Bounds
<1>1. ASSUME NEW m \in Machines, CreateMachine(m)
      PROVE  AllCredited' /\ witnessed \subseteq witnessed'
  <2>1. /\ [owner |-> pass.kcp.uid, ready |-> FALSE] \in KinkMachine
        /\ ~[owner |-> pass.kcp.uid, ready |-> FALSE].ready
    BY <1>1, Reads DEF CreateMachine, KinkControlPlane, KinkMachine
  <2> QED
    BY <1>1, <2>1, CreditedWrite DEF CreateMachine, AllCredited
<1>2. ASSUME NEW m \in Machines, DeleteMachine(m) \/ LoseMachine(m) \/ Collect(m)
      PROVE  AllCredited' /\ witnessed \subseteq witnessed'
  BY <1>2, CreditedWrite
     DEF DeleteMachine, LoseMachine, Collect, RemoveMachine, AllCredited
<1>3. ASSUME NEW m \in Machines, FlipReady(m)
      PROVE  AllCredited' /\ witnessed \subseteq witnessed'
  <2> DEFINE x == [Stored(machines)[m] EXCEPT !.ready = ~@]
  <2>1. x \in KinkMachine /\ x.owner = Stored(machines)[m].owner
    BY <1>3, Reads DEF FlipReady, Live, Contents, KinkMachine
  <2>2. machines' = Write(machines, [Stored(machines) EXCEPT ![m] = x])
    BY <1>3, Reads DEF FlipReady, Contents
  <2>3. witnessed' = witnessed \cup {x.owner}
    BY <1>3, <2>1 DEF FlipReady
  <2> HIDE DEF x
  <2> QED
    BY <2>1, <2>2, <2>3, CreditedWrite DEF AllCredited
<1>4. CASE DeliverMachines
  BY <1>4, StreamDeliver DEF DeliverMachines, AllCredited
<1>5. CASE Panic \/ Crash
  BY <1>5, StreamRelist DEF Panic, Crash, Restart, AllCredited
<1>6. ASSUME ~Panic, ~Crash, ~DeliverMachines,
             ~ \E m \in Machines :
                 \/ CreateMachine(m) \/ DeleteMachine(m) \/ FlipReady(m)
                 \/ LoseMachine(m) \/ Collect(m)
      PROVE  machines' = machines /\ witnessed' = witnessed
  BY <1>6 DEF Next, Reconcile, EditAlpha, Environment, vars, GetNothing, GetNoCluster,
     WaitForCluster, Begin, EnsurePki, PkiFails, ListMachines, CreateFails,
     DeleteFails, UpdateStatus, UpdateFails, DeliverKcp, DeliverCluster, Resync,
     ChangeCluster, CreateKcp, ScaleKcp, DeleteKcp, WriteKcp
<1> QED
  BY <1>1, <1>2, <1>3, <1>4, <1>5, <1>6 DEF AllCredited

LEMMA ReadyWitnessedStep ==
  TypeOK /\ AllCredited /\ ReadyWitnessed /\ [Next]_vars => ReadyWitnessed'
<1> SUFFICES ASSUME TypeOK, AllCredited, ReadyWitnessed, [Next]_vars
             PROVE  ReadyWitnessed'
  OBVIOUS
<1>1. witnessed \subseteq witnessed'
  BY AllCreditedStep
<1>2. CASE UpdateStatus
  <2> DEFINE uid == pass.kcp.uid
             seen == Observed(Cached(machines), uid)
  <2>1. pass.kcp \in KinkControlPlane /\ Stored(kcp') = [pass.kcp EXCEPT !.status = seen]
    BY <1>2, UpdateStores
  <2>2. Stored(kcp').uid = uid /\ Stored(kcp').status = seen
    BY <2>1 DEF KinkControlPlane
  <2>3. Cached(machines) \in Credited(witnessed)
    BY StreamReads DEF AllCredited
  <2>4. Accurate(seen, Cached(machines), uid)
    BY <2>1, Reads, ObservedAccurate DEF KinkControlPlane
  <2>5. seen.ready => uid \in witnessed
    BY <2>3, <2>4 DEF Accurate, Ready, Owned, Credited
  <2> QED
    BY <1>1, <2>2, <2>5 DEF ReadyWitnessed
<1>3. ASSUME NEW r \in Replicas, ScaleKcp(r) PROVE ReadyWitnessed'
  <2>1. /\ Stored(kcp').uid = Stored(kcp).uid
        /\ Stored(kcp').status = Stored(kcp).status
        /\ Stored(kcp) # NoKcp
    BY <1>3, ScaleKcpStores DEF KinkControlPlane, ScaleKcp
  <2> QED
    BY <1>1, <2>1 DEF ReadyWitnessed
<1>4. ASSUME NEW r \in Replicas, CreateKcp(r) PROVE ReadyWitnessed'
  BY <1>4, CreateKcpStores DEF ReadyWitnessed, NewStatus
<1>5. CASE DeleteKcp
  BY <1>5, DeleteKcpStores DEF ReadyWitnessed
<1>6. CASE Stored(kcp') = Stored(kcp)
  BY <1>1, <1>6 DEF ReadyWitnessed
<1> QED
  BY <1>2, <1>3, <1>4, <1>5, <1>6, KcpChanges

LEMMA InitWitnessed == Init => AllCredited /\ ReadyWitnessed
<1> SUFFICES ASSUME Init PROVE AllCredited /\ ReadyWitnessed
  OBVIOUS
<1>1. [m \in Machines |-> Absent] \in Credited({})
  BY DEF Credited, Contents, Live
<1>2. AllCredited
  BY <1>1 DEF Init, AllCredited, Streams
<1>3. Stored(kcp) = NoKcp \/ Stored(kcp).status = NewStatus
  BY DEF Init, Stored
<1> QED
  BY <1>2, <1>3 DEF ReadyWitnessed, NewStatus

\* ReadyWitnessed holds, over caches that lag by any number of events.
THEOREM ReadyIsWitnessed == Spec => []ReadyWitnessed
<1> DEFINE IInv == TypeOK /\ AllCredited /\ ReadyWitnessed
<1>1. Init => IInv
  BY InitType, InitWitnessed
<1>2. IInv /\ [Next]_vars => IInv'
  BY StepType, AllCreditedStep, ReadyWitnessedStep
<1> QED
  BY <1>1, <1>2, PTL DEF Spec

-----------------------------------------------------------------------------
(* The loops never overshoot: CloserWhenClean.                             *)

\* While nobody else touched the machines since the List, the loops still have
\* at most the missing machines to create, and to delete only machines there
\* are, at most the surplus.
LoopsBounded ==
  pc = "scale" /\ pass.clean =>
    LET items == Live(Stored(machines))
        n == Cardinality(items)
        want == Want(pass.kcp.replicas)
    IN /\ pass.victims \subseteq items
       /\ pass.create > 0 => n + pass.create <= want
       /\ pass.victims # {} /\ want >= 0 => n - Cardinality(pass.victims) >= want

\* The machines after one of them is written.
LEMMA LiveAfterWrite ==
  ASSUME TypeOK, NEW m \in Machines, NEW x \in KinkMachine \cup {Absent},
         machines' = Write(machines, [Stored(machines) EXCEPT ![m] = x])
  PROVE  Live(Stored(machines')) =
           IF x = Absent THEN Live(Stored(machines)) \ {m}
                         ELSE Live(Stored(machines)) \cup {m}
<1> DEFINE c == [Stored(machines) EXCEPT ![m] = x]
<1>1. c \in Contents
  BY Reads DEF Contents
<1>2. Stored(machines') = c
  BY <1>1, StreamWrite DEF TypeOK, MachineStreams
<1>3. \A i \in Machines : c[i] = IF i = m THEN x ELSE Stored(machines)[i]
  BY Reads DEF Contents
<1> QED
  BY <1>2, <1>3 DEF Live

\* A machine is created where there was none, and deleted where there was one
\* if the loops are bounded; the number of machines changes by one.
LEMMA CreateCounts ==
  ASSUME TypeOK, NEW m \in Machines, CreateMachine(m)
  PROVE  /\ Live(Stored(machines)) \subseteq Live(Stored(machines'))
         /\ Cardinality(Live(Stored(machines')))
              = Cardinality(Live(Stored(machines))) + 1
<1>1. [owner |-> pass.kcp.uid, ready |-> FALSE] \in KinkMachine
  BY Reads DEF CreateMachine, KinkControlPlane, KinkMachine
<1>2. Live(Stored(machines')) = Live(Stored(machines)) \cup {m}
  BY <1>1, LiveAfterWrite, NoObjectAssumption DEF CreateMachine
<1>3. m \notin Live(Stored(machines))
  BY DEF CreateMachine, Live
<1>4. IsFiniteSet(Live(Stored(machines)))
  BY Reads, LiveFinite
<1>5. Cardinality(Live(Stored(machines)) \cup {m})
       = Cardinality(Live(Stored(machines))) + 1
  BY <1>3, <1>4, FS_AddElement
<1> QED
  BY <1>2, <1>5

LEMMA DeleteCounts ==
  ASSUME TypeOK, NEW m \in Live(Stored(machines)), DeleteMachine(m)
  PROVE  /\ Live(Stored(machines')) = Live(Stored(machines)) \ {m}
         /\ Cardinality(Live(Stored(machines')))
              = Cardinality(Live(Stored(machines))) - 1
<1>1. m \in Machines
  BY DEF Live
<1>2. Live(Stored(machines')) = Live(Stored(machines)) \ {m}
  BY <1>1, LiveAfterWrite DEF DeleteMachine
<1>3. IsFiniteSet(Live(Stored(machines)))
  BY Reads, LiveFinite
<1>4. Cardinality(Live(Stored(machines)) \ {m})
       = Cardinality(Live(Stored(machines))) - 1
  BY <1>3, FS_RemoveElement
<1> QED
  BY <1>2, <1>4

\* A victim less to delete, whether the Delete failed or not.
LEMMA VictimsCount ==
  ASSUME TypeOK, NEW m \in pass.victims
  PROVE  /\ Cardinality(pass.victims) \in Nat
         /\ Cardinality(pass.victims) >= 1
         /\ Cardinality(pass.victims \ {m}) = Cardinality(pass.victims) - 1
<1>1. IsFiniteSet(pass.victims)
  BY MachinesAssumption, FS_Subset DEF TypeOK, Pass
<1>2. Cardinality(pass.victims) \in Nat /\ Cardinality(pass.victims) # 0
  BY <1>1, FS_CardinalityType, FS_EmptySet
<1>3. Cardinality(pass.victims \ {m}) = Cardinality(pass.victims) - 1
  BY <1>1, FS_RemoveElement
<1> QED
  BY <1>2, <1>3

LEMMA LoopsBoundedStep ==
  TypeOK /\ LoopsBounded /\ [Next]_vars => LoopsBounded'
<1> SUFFICES ASSUME TypeOK, LoopsBounded, [Next]_vars, pc' = "scale", pass'.clean
             PROVE  LoopsBounded'
  BY DEF LoopsBounded
<1> DEFINE items == Live(Stored(machines))
           n == Cardinality(items)
           want == Want(pass.kcp.replicas)
           Same == /\ pc = "scale" /\ pass.clean
                   /\ Live(Stored(machines')) = items
                   /\ pass'.kcp = pass.kcp /\ pass'.create = pass.create
                   /\ pass'.victims = pass.victims
<1> USE DEF Objects, Ghosts, Bounds
<1>1. n \in Nat
  BY Reads, LiveFinite
<1>2. pc = "scale" => want \in Int
  BY Reads, WantType DEF KinkControlPlane
<1>3. pass.create \in Nat
  BY DEF TypeOK, Pass
<1>4. ASSUME Same PROVE LoopsBounded'
  BY <1>4 DEF LoopsBounded
<1>5. CASE ListMachines
  <2>1. PICK doomed \in SUBSET Live(Cached(machines)) :
          /\ Cardinality(doomed) = Surplus(Cardinality(Live(Cached(machines))), want)
          /\ pass' = [pass EXCEPT
                !.create = Missing(Cardinality(Live(Cached(machines))), want),
                !.victims = doomed, !.clean = ~Lagging(machines)]
    BY <1>5 DEF ListMachines
  <2>2. /\ pass'.create = Missing(Cardinality(Live(Cached(machines))), want)
        /\ pass'.victims = doomed /\ pass'.kcp = pass.kcp /\ ~Lagging(machines)
    BY <2>1 DEF TypeOK, Pass
  <2>3. machines' = machines /\ Cached(machines) = Stored(machines)
    BY <1>5, <2>2, StreamReads DEF ListMachines, TypeOK, MachineStreams
  <2>4. want \in Int
    BY <1>5, Reads, WantType DEF ListMachines, KinkControlPlane
  <2>5. doomed # {} => Surplus(n, want) # 0
    <3>1. IsFiniteSet(doomed)
      BY <2>3, Reads, LiveFinite, FS_Subset
    <3> QED
      BY <2>1, <2>3, <3>1, FS_EmptySet
  <2>6. Missing(n, want) > 0 => n + Missing(n, want) <= want
    BY <1>1, <2>4 DEF Missing
  <2>7. Surplus(n, want) # 0 /\ want >= 0 => n - Surplus(n, want) >= want
    BY <1>1, <2>4 DEF Surplus
  <2> QED
    BY <2>1, <2>2, <2>3, <2>5, <2>6, <2>7 DEF LoopsBounded
<1>6. ASSUME NEW m \in Machines, CreateMachine(m)
      PROVE  LoopsBounded'
  <2>1. /\ pc = "scale" /\ pass.create > 0
        /\ pass'.kcp = pass.kcp /\ pass'.create = pass.create - 1
        /\ pass'.victims = pass.victims /\ pass.clean
    BY <1>6 DEF CreateMachine, TypeOK, Pass
  <2> DEFINE k == Cardinality(Live(Stored(machines')))
  <2>2. items \subseteq Live(Stored(machines')) /\ k = n + 1
    BY <1>6, CreateCounts
  <2>3. pass.victims \subseteq Live(Stored(machines'))
    BY <2>1, <2>2 DEF LoopsBounded
  <2>4. k + (pass.create - 1) <= want
    BY <1>1, <1>2, <1>3, <2>1, <2>2 DEF LoopsBounded
  <2>5. pass.victims # {} /\ want >= 0 => k - Cardinality(pass.victims) >= want
    <3>1. SUFFICES ASSUME NEW v \in pass.victims, want >= 0
                   PROVE  k - Cardinality(pass.victims) >= want
      OBVIOUS
    <3>2. Cardinality(pass.victims) \in Nat /\ n - Cardinality(pass.victims) >= want
      BY <2>1, <3>1, VictimsCount DEF LoopsBounded
    <3> QED
      BY <1>1, <1>2, <2>1, <2>2, <3>2
  <2> HIDE DEF items, n, k
  <2> QED
    BY <2>1, <2>3, <2>4, <2>5 DEF LoopsBounded, k
<1>7. CASE CreateFails
  <2>1. /\ pc = "scale" /\ pass.create > 0 /\ pass.clean
        /\ pass'.kcp = pass.kcp /\ pass'.create = pass.create - 1
        /\ pass'.victims = pass.victims /\ machines' = machines
    BY <1>7 DEF CreateFails, TypeOK, Pass
  <2>2. n + (pass.create - 1) <= want
    BY <1>1, <1>2, <1>3, <2>1 DEF LoopsBounded
  <2> QED
    BY <2>1, <2>2 DEF LoopsBounded
<1>8. ASSUME NEW m \in Machines, DeleteMachine(m) \/ DeleteFails(m)
      PROVE  LoopsBounded'
  <2>1. /\ pc = "scale" /\ pass.clean /\ m \in pass.victims
        /\ pass'.kcp = pass.kcp /\ pass'.create = pass.create
        /\ pass'.victims = pass.victims \ {m}
    BY <1>8 DEF DeleteMachine, DeleteFails, TypeOK, Pass
  <2>2. pass.victims \subseteq items
    BY <2>1 DEF LoopsBounded
  <2> DEFINE k == Cardinality(Live(Stored(machines')))
             v == Cardinality(pass.victims)
  <2>3. /\ pass.victims \ {m} \subseteq Live(Stored(machines'))
        /\ k = n - 1 \/ k = n
    <3>1. CASE DeleteMachine(m)
      <4>1. m \in items
        BY <2>1, <2>2
      <4> QED
        BY <2>2, <3>1, <4>1, DeleteCounts
    <3>2. CASE DeleteFails(m)
      BY <2>2, <3>2 DEF DeleteFails
    <3> QED
      BY <1>8, <3>1, <3>2
  <2>4. v \in Nat /\ Cardinality(pass.victims \ {m}) = v - 1
    BY <2>1, VictimsCount
  <2>5. pass.create > 0 => n + pass.create <= want
    BY <2>1 DEF LoopsBounded
  <2>6. want >= 0 => n - v >= want
    BY <2>1 DEF LoopsBounded
  <2> HIDE DEF items, n, k, v, want
  <2>7. pass.create > 0 => k + pass.create <= want
    BY <1>1, <1>2, <1>3, <2>1, <2>3, <2>5
  <2>8. want >= 0 => k - (v - 1) >= want
    BY <1>1, <1>2, <2>1, <2>3, <2>4, <2>6
  <2> QED
    BY <2>1, <2>3, <2>4, <2>7, <2>8 DEF LoopsBounded, k, want
<1>9. ASSUME NEW m \in Machines, FlipReady(m)
      PROVE  LoopsBounded'
  <2>1. PICK x \in KinkMachine :
          machines' = Write(machines, [Stored(machines) EXCEPT ![m] = x])
    BY <1>9, FlipReadyWrites
  <2>2. Live(Stored(machines')) = items
    <3>1. m \in items
      BY <1>9 DEF FlipReady
    <3>2. Live(Stored(machines')) = items \cup {m}
      BY <2>1, LiveAfterWrite, NoObjectAssumption
    <3> QED
      BY <3>1, <3>2
  <2> QED
    BY <1>4, <1>9, <2>2 DEF FlipReady
<1>10. ASSUME NEW m \in Machines, LoseMachine(m) \/ Collect(m)
       PROVE  LoopsBounded'
  BY <1>10 DEF LoseMachine, Collect, RemoveMachine, TypeOK, Pass
<1>11. CASE DeleteKcp \/ \E r \in Replicas : CreateKcp(r) \/ ScaleKcp(r)
  <2>1. PICK k \in Kcps : WriteKcp(k)
    BY <1>11, UserWrites
  <2>2. /\ pass'.kcp = pass.kcp /\ pass'.create = pass.create
        /\ pass'.victims = pass.victims /\ pass.clean
    BY <2>1 DEF WriteKcp, TypeOK, Pass
  <2> QED
    BY <1>4, <2>1, <2>2 DEF WriteKcp
<1>12. ASSUME NEW c \in Clusters, ChangeCluster(c)
       PROVE  LoopsBounded'
  BY <1>4, <1>12 DEF ChangeCluster
<1>13. CASE DeliverMachines
  BY <1>4, <1>13, StreamDeliver DEF DeliverMachines, TypeOK, MachineStreams
<1>14. CASE \/ UNCHANGED vars \/ GetNoCluster \/ DeliverKcp \/ DeliverCluster
            \/ Resync
  BY <1>4, <1>14 DEF vars, GetNoCluster, DeliverKcp, DeliverCluster, Resync
<1>15. CASE \/ GetNothing \/ WaitForCluster \/ Begin \/ EnsurePki
            \/ PkiFails \/ UpdateStatus \/ UpdateFails \/ Panic \/ Crash
  BY <1>15 DEF GetNothing, WaitForCluster, Begin, EnsurePki, PkiFails, UpdateStatus,
               UpdateFails, Panic, Crash, Return, Restart
<1> QED
  BY <1>5, <1>6, <1>7, <1>8, <1>9, <1>10, <1>11, <1>12, <1>13, <1>14, <1>15
     DEF Next, Reconcile, EditAlpha, Environment

\* A step of the loops moves closer.
Closer ==
  ScaleStep /\ pass.clean /\ ~pass.stale /\ Want(pass.kcp.replicas) >= 0
    => Distance' = Distance - 1

\* A machine that is created was missing, one that is deleted was too many.
LEMMA CloserStep == TypeOK /\ PassCurrent /\ LoopsBounded => Closer
<1> SUFFICES ASSUME TypeOK, PassCurrent, LoopsBounded, NEW m \in Machines,
                    CreateMachine(m) \/ DeleteMachine(m),
                    pass.clean, ~pass.stale, Want(pass.kcp.replicas) >= 0
             PROVE  Distance' = Distance - 1
  BY DEF ScaleStep, Closer
<1> DEFINE n == Cardinality(Live(Stored(machines)))
           k == Cardinality(Live(Stored(machines')))
           want == Want(pass.kcp.replicas)
<1>1. Stored(kcp) = pass.kcp /\ kcp' = kcp /\ pc = "scale"
  BY DEF PassCurrent, CreateMachine, DeleteMachine
<1>2. n \in Nat /\ want \in Int
  BY <1>1, Reads, LiveFinite, WantType DEF KinkControlPlane
<1>3. \/ n < want /\ k = n + 1
      \/ n > want /\ k = n - 1
  <2>1. CASE CreateMachine(m)
    <3>1. pass.create \in Nat /\ pass.create > 0 /\ n + pass.create <= want
      BY <2>1 DEF CreateMachine, LoopsBounded, TypeOK, Pass
    <3>2. k = n + 1
      BY <2>1, CreateCounts
    <3> HIDE DEF n, k, want
    <3> QED
      BY <1>2, <3>1, <3>2
  <2>2. CASE DeleteMachine(m)
    <3>1. m \in Live(Stored(machines)) /\ n - Cardinality(pass.victims) >= want
      BY <2>2 DEF DeleteMachine, LoopsBounded
    <3>2. Cardinality(pass.victims) \in Nat /\ Cardinality(pass.victims) >= 1
      BY <2>2, VictimsCount DEF DeleteMachine
    <3>3. k = n - 1
      BY <2>2, <3>1, DeleteCounts
    <3> HIDE DEF n, k, want
    <3> QED
      BY <1>2, <3>1, <3>2, <3>3
  <2> QED
    BY <2>1, <2>2
<1>4. /\ Distance = IF n - want < 0 THEN -(n - want) ELSE n - want
      /\ Distance' = IF k - want < 0 THEN -(k - want) ELSE k - want
  BY <1>1 DEF Distance
<1> HIDE DEF n, k, want
<1> QED
  BY <1>2, <1>3, <1>4

\* CloserWhenClean holds for any number of machines and replicas.
THEOREM CleanPassesMoveCloser == Spec => CloserWhenClean
<1> DEFINE IInv == TypeOK /\ PassCurrent /\ LoopsBounded
<1>1. Init => IInv
  BY InitType, InitRest DEF Init, LoopsBounded
<1>2. IInv /\ [Next]_vars => IInv'
  BY StepType, PassCurrentStep, LoopsBoundedStep
<1>3. IInv => [Closer]_vars
  BY CloserStep
<1> QED
  BY <1>1, <1>2, <1>3, PTL DEF Spec, CloserWhenClean, Closer

-----------------------------------------------------------------------------
(* ControlPlane implements ReplicaControl: each step of a pass, an         *)
(* informer, a user or a restart is a step of the abstract controller, or  *)
(* changes nothing it knows of.                                            *)

\* The versions whose uid is one of the first n.
Incarnations(n) == {k \in Kcps : k # NoKcp => k.uid <= n}

\* Every version on its way, and the one a pass holds, belongs to an incarnation
\* there was.
AllBorn ==
  /\ kcp \in Streams(Incarnations(born))
  /\ pass.kcp \in Incarnations(born)

LEMMA AllBornStep ==
  TypeOK /\ AllBorn /\ [Next]_vars => AllBorn'
<1> SUFFICES ASSUME TypeOK, AllBorn, [Next]_vars PROVE AllBorn'
  OBVIOUS
<1> USE DEF Objects, Ghosts, Bounds
<1>1. /\ Cached(kcp) \in Incarnations(born) /\ Stored(kcp) \in Incarnations(born)
      /\ NoKcp \in Incarnations(born)
  BY StreamReads DEF AllBorn, Incarnations, Kcps
<1>2. CASE Begin
  BY <1>1, <1>2 DEF Begin, AllBorn, NoPass
<1>3. CASE UpdateStatus
  <2> DEFINE new == [pass.kcp EXCEPT !.status = Observed(Cached(machines), pass.kcp.uid)]
  <2>1. pass.kcp \in KinkControlPlane /\ pass.kcp # NoKcp
    BY <1>3, UpdateStores, NoObjectAssumption
  <2>2. new \in KinkControlPlane /\ new.uid = pass.kcp.uid
    BY <2>1, Reads, ObservedAccurate DEF KinkControlPlane
  <2>3. new \in Incarnations(born)
    BY <2>1, <2>2 DEF AllBorn, Incarnations, Kcps
  <2>4. kcp' \in Streams(Incarnations(born)) /\ born' = born
    BY <1>3, <2>3, StreamWrite DEF UpdateStatus, AllBorn
  <2>5. pass'.kcp = NoKcp
    BY <1>3, NoPassType DEF UpdateStatus, Return
  <2> QED
    BY <1>1, <2>4, <2>5 DEF AllBorn
<1>4. ASSUME NEW r \in Replicas, CreateKcp(r) PROVE AllBorn'
  <2> DEFINE new == [uid |-> born', replicas |-> r, status |-> NewStatus]
  <2>1. born' \in Nat /\ born \in Nat /\ born' = born + 1 /\ born' \in Uids
    BY <1>4 DEF CreateKcp, TypeOK, Uids
  <2>2. new \in KinkControlPlane /\ new.uid = born'
    BY <2>1 DEF KinkControlPlane, NewStatus, Status
  <2>3. new \in Incarnations(born')
    BY <2>1, <2>2 DEF Incarnations, Kcps
  <2>4. Incarnations(born) \subseteq Incarnations(born')
    <3> SUFFICES ASSUME NEW k \in Kcps, k # NoKcp, k.uid <= born PROVE k.uid <= born'
      BY DEF Incarnations
    <3>1. k.uid \in Nat
      BY DEF Kcps, KinkControlPlane, Uids
    <3> QED
      BY <2>1, <3>1
  <2>5. kcp \in Streams(Incarnations(born'))
    BY <2>4, StreamsGrow DEF AllBorn
  <2>6. kcp' \in Streams(Incarnations(born'))
    BY <1>4, <2>3, <2>5, StreamWrite DEF CreateKcp, WriteKcp
  <2>7. pass'.kcp = pass.kcp
    BY <1>4 DEF CreateKcp, WriteKcp, TypeOK, Pass
  <2> QED
    BY <2>4, <2>6, <2>7 DEF AllBorn
<1>5. ASSUME NEW r \in Replicas, ScaleKcp(r) PROVE AllBorn'
  <2> DEFINE new == [Stored(kcp) EXCEPT !.replicas = r]
  <2>1. new \in KinkControlPlane /\ new.uid = Stored(kcp).uid /\ Stored(kcp) # NoKcp
    BY <1>5, ScaleKcpStores DEF KinkControlPlane, ScaleKcp
  <2>2. new \in Incarnations(born)
    BY <1>1, <2>1 DEF Incarnations, Kcps
  <2>3. kcp' \in Streams(Incarnations(born)) /\ born' = born
    BY <1>5, <2>2, StreamWrite DEF ScaleKcp, WriteKcp, AllBorn
  <2>4. pass'.kcp = pass.kcp
    BY <1>5 DEF ScaleKcp, WriteKcp, TypeOK, Pass
  <2> QED
    BY <2>3, <2>4 DEF AllBorn
<1>6. CASE DeleteKcp
  <2>1. kcp' \in Streams(Incarnations(born)) /\ born' = born
    BY <1>1, <1>6, StreamWrite DEF DeleteKcp, WriteKcp, AllBorn
  <2>2. pass'.kcp = pass.kcp
    BY <1>6 DEF DeleteKcp, WriteKcp, TypeOK, Pass
  <2> QED
    BY <2>1, <2>2 DEF AllBorn
<1>7. CASE DeliverKcp
  BY <1>7, StreamDeliver DEF DeliverKcp, AllBorn
<1>8. CASE Panic \/ Crash
  BY <1>1, <1>8, StreamRelist, NoPassType DEF Panic, Crash, Restart, AllBorn
<1>9. CASE PkiFails \/ UpdateFails
  BY <1>1, <1>9, NoPassType DEF PkiFails, UpdateFails, Return, AllBorn
<1>10. ASSUME NEW m \in Machines,
              \/ CreateMachine(m) \/ DeleteMachine(m) \/ DeleteFails(m)
              \/ FlipReady(m) \/ LoseMachine(m) \/ Collect(m)
       PROVE  AllBorn'
  BY <1>10 DEF CreateMachine, DeleteMachine, DeleteFails, FlipReady, LoseMachine,
               Collect, RemoveMachine, TypeOK, Pass, AllBorn
<1>11. CASE \/ UNCHANGED vars \/ GetNothing \/ GetNoCluster \/ WaitForCluster
            \/ EnsurePki \/ ListMachines \/ CreateFails \/ DeliverCluster
            \/ DeliverMachines \/ Resync \/ \E c \in Clusters : ChangeCluster(c)
  <2>1. UNCHANGED <<kcp, born>> /\ pass'.kcp = pass.kcp
    BY <1>11 DEF vars, GetNothing, GetNoCluster, WaitForCluster, EnsurePki,
       ListMachines, CreateFails, DeliverCluster, DeliverMachines, Resync,
       ChangeCluster, TypeOK, Pass
  <2> QED
    BY <2>1 DEF AllBorn
<1> QED
  BY <1>2, <1>3, <1>4, <1>5, <1>6, <1>7, <1>8, <1>9, <1>10, <1>11
     DEF Next, Reconcile, EditAlpha, Environment

-----------------------------------------------------------------------------
(* The steps, as ReplicaControl sees them.                                 *)

PromiseInv ==
  /\ TypeOK /\ PassCurrent /\ LoopsIntact /\ AllCredited /\ AllBorn
  /\ SettledReplicas /\ SettledStatus

\* Only the controller has writes that fail, and it is not at rest then.
LEMMA SwallowsAtWork ==
  ASSUME TypeOK, [Next]_vars, Settled \/ Settled'
  PROVE  swallowed' = swallowed
<1> USE DEF Objects, Ghosts, Bounds
<1>1. CASE ListMachines \/ CreateFails \/ \E m \in Machines : DeleteFails(m)
  BY <1>1 DEF ListMachines, CreateFails, DeleteFails, Settled
<1>2. ASSUME ~ListMachines, ~CreateFails, ~ \E m \in Machines : DeleteFails(m)
      PROVE  swallowed' = swallowed
  BY <1>2 DEF Next, Reconcile, EditAlpha, Environment, vars, GetNothing,
     GetNoCluster, WaitForCluster, Begin, EnsurePki, PkiFails, CreateMachine,
     DeleteMachine, UpdateStatus, UpdateFails, Panic, Crash, Restart, DeliverKcp,
     DeliverCluster, DeliverMachines, Resync, CreateKcp, ScaleKcp, DeleteKcp,
     WriteKcp, ChangeCluster, FlipReady, LoseMachine, Collect, RemoveMachine
<1> QED
  BY <1>1, <1>2

\* A change of the Cluster leaves an event behind.
LEMMA GateMovesNoisily ==
  ASSUME TypeOK, [Next]_vars
  PROVE  Stored(cluster') = Stored(cluster) \/ (Lagging(cluster') /\ ~Settled')
<1> USE DEF Objects, Ghosts, Bounds
<1>1. ASSUME NEW c \in Clusters, ChangeCluster(c) PROVE Lagging(cluster')
  BY <1>1, NoClusterAssumption, StreamWrite DEF ChangeCluster, TypeOK, ClusterStreams
<1>2. CASE Panic \/ Crash
  BY <1>2, StreamRelist DEF Panic, Crash, Restart, TypeOK, ClusterStreams
<1>3. CASE DeliverCluster
  BY <1>3, StreamDeliver DEF DeliverCluster, TypeOK, ClusterStreams
<1>4. ASSUME ~Panic, ~Crash, ~DeliverCluster, ~ \E c \in Clusters : ChangeCluster(c)
      PROVE  cluster' = cluster
  BY <1>4 DEF Next, Reconcile, EditAlpha, Environment, vars, GetNothing,
     GetNoCluster, WaitForCluster, Begin, EnsurePki, PkiFails, ListMachines,
     CreateMachine, CreateFails, DeleteMachine, DeleteFails, UpdateStatus,
     UpdateFails, DeliverKcp, DeliverMachines, Resync, CreateKcp, ScaleKcp,
     DeleteKcp, WriteKcp, FlipReady, LoseMachine, Collect, RemoveMachine
<1> QED
  BY <1>1, <1>2, <1>3, <1>4 DEF Settled

\* At rest the promise is kept.
AtRestKept == Settled => Abstract!Promise

\* The two modules mean the same by their words.
LEMMA SameCardinality == \A S : Abstract!Cardinality(S) = Cardinality(S)
BY DEF Abstract!Cardinality, Cardinality

LEMMA SameWords ==
  /\ \A c : Abstract!Live(c) = Live(c)
  /\ \A c, u : Abstract!Owned(c, u) = Owned(c, u)
  /\ \A c, u : Abstract!Ready(c, u) = Ready(c, u)
  /\ \A r : Abstract!Want(r) = Want(r)
  /\ \A s, c, u : Abstract!Accurate(s, c, u) <=> Accurate(s, c, u)
  /\ \A S : Abstract!Cardinality(S) = Cardinality(S)
<1>1. \A c : Abstract!Live(c) = Live(c)
  BY DEF Abstract!Live, Live
<1>2. \A c, u : Abstract!Owned(c, u) = Owned(c, u)
  BY <1>1 DEF Abstract!Owned, Owned
<1>3. \A c, u : Abstract!Ready(c, u) = Ready(c, u)
  BY <1>2 DEF Abstract!Ready, Ready
<1>4. \A r : Abstract!Want(r) = Want(r)
  BY DEF Abstract!Want, Want
<1>5. \A s, c, u : Abstract!Accurate(s, c, u) <=> Accurate(s, c, u)
  BY <1>2, <1>3, SameCardinality DEF Abstract!Accurate, Accurate
<1> QED
  BY <1>1, <1>2, <1>3, <1>4, <1>5, SameCardinality

LEMMA PromiseAtRest ==
  ASSUME TypeOK, SettledReplicas, SettledStatus
  PROVE  AtRestKept
<1>1. ASSUME Settled, Stored(kcp) # NoKcp, Want(Stored(kcp).replicas) >= 0, LetThrough
      PROVE  /\ Accurate(Stored(kcp).status, Stored(machines), Stored(kcp).uid)
             /\ swallowed \/ Scale
  BY <1>1 DEF LetThrough, Engaged, SettledReplicas, SettledStatus
<1> QED
  BY <1>1, SameWords DEF AtRestKept, Abstract!Promise, Scale

\* A step that changes nothing stored.
LEMMA UnmovedStep ==
  ASSUME TypeOK, [Next]_vars, AtRestKept',
         Stored(kcp') = Stored(kcp), Stored(machines') = Stored(machines),
         witnessed' = witnessed, born' = born
  PROVE  [Abstract!Next]_(Abstract!vars)
<1>1. LetThrough \in BOOLEAN /\ LetThrough' \in BOOLEAN
  BY DEF LetThrough
<1>2. swallowed' \in BOOLEAN
  BY StepType DEF TypeOK
<1>3. CASE ~Settled'
  BY <1>1, <1>2, <1>3, SwallowsAtWork DEF Abstract!Next, Abstract!Stir
<1>4. CASE Settled'
  <2>1. swallowed' = swallowed
    BY <1>4, SwallowsAtWork
  <2>2. LetThrough' = LetThrough
    BY <1>4, GateMovesNoisily DEF LetThrough
  <2>3. CASE Settled
    <3>1. Settled' = Settled
      BY <1>4, <2>3 DEF Settled
    <3> QED
      BY <2>1, <2>2, <3>1 DEF Abstract!vars
  <2>4. CASE ~Settled
    <3>1. (Abstract!Promise)'
      BY <1>4 DEF AtRestKept
    <3>2. Abstract!Promise
      BY <2>1, <2>2, <3>1 DEF Abstract!Promise
    <3>3. Settled' = TRUE
      BY <1>4 DEF Settled
    <3> QED
      BY <2>1, <2>2, <2>4, <3>2, <3>3 DEF Abstract!Next, Abstract!Rest
  <2> QED
    BY <2>3, <2>4
<1> QED
  BY <1>3, <1>4

\* What a status counts are machines, and it is ready for a reason.
LEMMA ObservedCounts ==
  ASSUME TypeOK, AllCredited, NEW uid \in Uids
  PROVE  \E up, down \in 0..Cardinality(Machines) :
           /\ Observed(Cached(machines), uid) =
                [readyReplicas |-> up, ready |-> up > 0, unavailableReplicas |-> down]
           /\ up + down <= Cardinality(Machines)
           /\ up > 0 => uid \in witnessed
<1> DEFINE own == Owned(Cached(machines), uid)
           ready == Ready(Cached(machines), uid)
           up == Cardinality(ready)
           all == Cardinality(own)
           bound == Cardinality(Machines)
<1>1. own \subseteq Machines /\ ready \subseteq own
  BY DEF Owned, Ready, Live
<1>2. IsFiniteSet(own) /\ IsFiniteSet(ready)
  BY <1>1, MachinesAssumption, FS_Subset
<1>3. up \in Nat /\ all \in Nat /\ bound \in Nat /\ up <= all /\ all <= bound
  BY <1>1, <1>2, MachinesAssumption, FS_Subset, FS_CardinalityType
<1>4. up > 0 => uid \in witnessed
  <2>1. Cached(machines) \in Credited(witnessed)
    BY StreamReads DEF AllCredited
  <2>2. up > 0 => ready # {}
    BY <1>3, FS_EmptySet
  <2> QED
    BY <2>1, <2>2 DEF Credited, Ready, Owned
<1>5. Observed(Cached(machines), uid) =
        [readyReplicas |-> up, ready |-> up > 0, unavailableReplicas |-> all - up]
  BY DEF Observed
<1> HIDE DEF own, ready, up, all, bound
<1>6. up \in 0..bound /\ all - up \in 0..bound /\ up + (all - up) <= bound
  BY <1>3
<1> QED
  BY <1>4, <1>5, <1>6 DEF bound

\* An update that changes the status is a report.
LEMMA ReportStep ==
  ASSUME TypeOK, PassCurrent, AllCredited, AtRestKept', [Next]_vars, UpdateStatus
  PROVE  [Abstract!Next]_(Abstract!vars)
<1> USE DEF Ghosts, Bounds
<1>1. CASE Stored(kcp') = Stored(kcp)
  BY <1>1, UnmovedStep DEF UpdateStatus
<1>2. CASE Stored(kcp') # Stored(kcp)
  <2>1. pass.kcp \in KinkControlPlane /\ Stored(kcp) = pass.kcp
        /\ Stored(kcp') = [pass.kcp EXCEPT
                            !.status = Observed(Cached(machines), pass.kcp.uid)]
    BY <1>2, UpdateStores DEF PassCurrent, UpdateStatus, Scaled
  <2>2. PICK up, down \in 0..Cardinality(Machines) :
          /\ Observed(Cached(machines), pass.kcp.uid) =
               [readyReplicas |-> up, ready |-> up > 0, unavailableReplicas |-> down]
          /\ up + down <= Cardinality(Machines)
          /\ up > 0 => pass.kcp.uid \in witnessed
    BY <2>1, ObservedCounts DEF KinkControlPlane
  <2>3. Lagging(kcp')
    <3>1. [pass.kcp EXCEPT !.status = Observed(Cached(machines), pass.kcp.uid)] \in Kcps
      BY <2>1, Reads, ObservedAccurate DEF KinkControlPlane, Kcps
    <3>2. kcp' # kcp
      BY <1>2
    <3> QED
      BY <3>1, <3>2, StreamWrite DEF UpdateStatus, TypeOK, KcpStreams, Kcps
  <2>4. ~Settled /\ Settled' = FALSE
    BY <2>3 DEF Settled, UpdateStatus, Scaled
  <2>5. /\ machines' = machines /\ cluster' = cluster /\ swallowed' = swallowed
        /\ witnessed' = witnessed /\ born' = born /\ Stored(kcp) # NoKcp
    BY <2>1, NoObjectAssumption DEF UpdateStatus
  <2>6. Abstract!Report(up, down)
    BY <2>1, <2>2, <2>4, <2>5, SameCardinality
       DEF Abstract!Report, Abstract!Stirred, LetThrough
  <2> QED
    BY <2>6, SameCardinality DEF Abstract!Next
<1> QED
  BY <1>1, <1>2

\* The users' writes of the KinkControlPlane.
LEMMA AskStep ==
  ASSUME TypeOK, DeleteKcp \/ \E r \in Replicas : CreateKcp(r) \/ ScaleKcp(r)
  PROVE  [Abstract!Next]_(Abstract!vars)
<1>1. PICK k \in Kcps : WriteKcp(k)
  BY UserWrites
<1>2. Settled' = FALSE
  BY <1>1, WriteKcpLags DEF Settled
<1>3. /\ machines' = machines /\ cluster' = cluster
      /\ swallowed' = swallowed /\ witnessed' = witnessed
  BY <1>1 DEF WriteKcp, Ghosts
<1>4. Abstract!Stirred
  BY <1>2, <1>3 DEF Abstract!Stirred, LetThrough
<1>5. ASSUME NEW r \in Replicas, CreateKcp(r) PROVE Abstract!Ask(r)
  <2> DEFINE new == [uid |-> born', replicas |-> r, status |-> NewStatus]
  <2>1. new \in Kcps
    BY <1>5 DEF CreateKcp, TypeOK, Uids, Kcps, KinkControlPlane, NewStatus, Status
  <2>2. Stored(kcp') = new
    BY <1>5, <2>1, StreamWrite DEF CreateKcp, WriteKcp, TypeOK, KcpStreams, Kcps
  <2> QED
    BY <1>3, <1>4, <1>5, <2>2 DEF CreateKcp, Abstract!Ask, Abstract!NewKcp,
       Abstract!NewStatus, NewStatus
<1>6. ASSUME NEW r \in Replicas, ScaleKcp(r) PROVE Abstract!AskAgain(r)
  BY <1>3, <1>4, <1>6, ScaleKcpStores DEF ScaleKcp, Abstract!AskAgain
<1>7. ASSUME DeleteKcp PROVE Abstract!Resign
  BY <1>3, <1>4, <1>7, DeleteKcpStores DEF DeleteKcp, Abstract!Resign
<1> QED
  BY <1>5, <1>6, <1>7 DEF Abstract!Next

\* The writes of the machines, whoever makes them.
LEMMA MachineStep ==
  ASSUME TypeOK, AllBorn, AtRestKept', [Next]_vars, NEW m \in Machines,
         \/ CreateMachine(m) \/ DeleteMachine(m)
         \/ FlipReady(m) \/ LoseMachine(m) \/ Collect(m)
  PROVE  [Abstract!Next]_(Abstract!vars)
<1> USE DEF Objects, Ghosts, Bounds
<1>1. /\ kcp' = kcp /\ cluster' = cluster /\ swallowed' = swallowed /\ born' = born
      /\ FlipReady(m) \/ witnessed' = witnessed
  BY DEF CreateMachine, DeleteMachine, FlipReady, LoseMachine, Collect, RemoveMachine
<1>2. ASSUME NEW x \in KinkMachine \cup {Absent}, Stored(machines)[m] # x,
             machines' = Write(machines, [Stored(machines) EXCEPT ![m] = x])
      PROVE  /\ Stored(machines') = [Stored(machines) EXCEPT ![m] = x]
             /\ Abstract!Stirred
  <2> DEFINE c == [Stored(machines) EXCEPT ![m] = x]
  <2>1. c \in Contents /\ c # Stored(machines)
    BY <1>2, Reads DEF Contents
  <2>2. Stored(machines') = c /\ Lagging(machines')
    BY <1>2, <2>1, StreamWrite DEF TypeOK, MachineStreams
  <2> QED
    BY <1>1, <2>2 DEF Settled, LetThrough, Abstract!Stirred
<1>3. CASE CreateMachine(m)
  <2> DEFINE x == [owner |-> pass.kcp.uid, ready |-> FALSE]
  <2>1. pass.kcp \in KinkControlPlane /\ pass.kcp.uid \in Uids
    BY <1>3, Reads DEF CreateMachine, KinkControlPlane
  <2>2. x \in KinkMachine /\ x # Absent
    <3>1. x \in KinkMachine
      BY <2>1 DEF KinkMachine
    <3> HIDE DEF x
    <3> QED
      BY <3>1, NoObjectAssumption
  <2>3. Stored(machines') = [Stored(machines) EXCEPT ![m] = x] /\ Abstract!Stirred
    BY <1>2, <1>3, <2>2 DEF CreateMachine
  <2>4. pass.kcp.uid \in 1..born
    BY <2>1, NoObjectAssumption DEF AllBorn, Incarnations, TypeOK, Uids
  <2>5. ~Settled /\ m \notin Abstract!Live(Stored(machines))
    BY <1>3 DEF CreateMachine, Settled, Abstract!Live
  <2>6. witnessed' = witnessed
    BY <1>3 DEF CreateMachine
  <2>7. Abstract!Create(m)
    BY <1>1, <2>3, <2>4, <2>5, <2>6 DEF Abstract!Create
  <2> QED
    BY <2>7 DEF Abstract!Next
<1>4. CASE DeleteMachine(m) \/ LoseMachine(m) \/ Collect(m)
  <2>1. machines' = Write(machines, [Stored(machines) EXCEPT ![m] = Absent])
        /\ witnessed' = witnessed
    BY <1>4 DEF DeleteMachine, LoseMachine, Collect, RemoveMachine
  <2>2. CASE Stored(machines)[m] = Absent
    <3>1. [Stored(machines) EXCEPT ![m] = Absent] = Stored(machines)
      BY <2>2, Reads DEF Contents
    <3>2. machines' = machines
      BY <2>1, <3>1 DEF Write
    <3> QED
      BY <1>1, <2>1, <3>2, UnmovedStep
  <2>3. CASE Stored(machines)[m] # Absent
    <3>1. /\ Stored(machines') = [Stored(machines) EXCEPT ![m] = Absent]
          /\ Abstract!Stirred
      BY <1>2, <2>1, <2>3
    <3>2. Abstract!Delete(m)
      BY <1>1, <2>1, <2>3, <3>1 DEF Abstract!Delete, Abstract!Live
    <3> QED
      BY <3>2 DEF Abstract!Next
  <2> QED
    BY <2>2, <2>3
<1>5. CASE FlipReady(m)
  <2> DEFINE x == [Stored(machines)[m] EXCEPT !.ready = ~@]
  <2>1. m \in Live(Stored(machines)) /\ Stored(machines)[m] \in KinkMachine
    BY <1>5, Reads DEF FlipReady, Live, Contents
  <2>2. x \in KinkMachine /\ x # Stored(machines)[m]
    BY <2>1 DEF KinkMachine
  <2>3. machines' = Write(machines, [Stored(machines) EXCEPT ![m] = x])
    BY <1>5, Reads DEF FlipReady, Contents
  <2>4. Stored(machines') = [Stored(machines) EXCEPT ![m] = x] /\ Abstract!Stirred
    BY <1>2, <2>2, <2>3
  <2>5. [Stored(machines) EXCEPT ![m] = x] = [Stored(machines) EXCEPT ![m].ready = ~@]
    BY Reads DEF Contents
  <2>6. Abstract!Turn(m)
    BY <1>1, <1>5, <2>1, <2>4, <2>5, SameWords DEF FlipReady, Abstract!Turn
  <2> QED
    BY <2>6 DEF Abstract!Next
<1> QED
  BY <1>3, <1>4, <1>5

\* Everything else changes nothing stored but the Cluster.
LEMMA OtherStep ==
  ASSUME TypeOK, AtRestKept', [Next]_vars, ~UpdateStatus, ~DeleteKcp,
         ~ \E r \in Replicas : CreateKcp(r) \/ ScaleKcp(r),
         ~ \E m \in Machines :
             \/ CreateMachine(m) \/ DeleteMachine(m) \/ FlipReady(m)
             \/ LoseMachine(m) \/ Collect(m)
  PROVE  [Abstract!Next]_(Abstract!vars)
<1> USE DEF Objects, Ghosts, Bounds
<1>1. Stored(kcp') = Stored(kcp)
  BY KcpChanges
<1>2. Stored(machines') = Stored(machines)
  <2>1. CASE DeliverMachines
    BY <2>1, StreamDeliver DEF DeliverMachines, TypeOK, MachineStreams
  <2>2. CASE Panic \/ Crash
    BY <2>2, StreamRelist DEF Panic, Crash, Restart, TypeOK, MachineStreams
  <2>3. ASSUME ~Panic, ~Crash, ~DeliverMachines PROVE machines' = machines
    BY <2>3 DEF Next, Reconcile, EditAlpha, Environment, vars, GetNothing,
       GetNoCluster, WaitForCluster, Begin, EnsurePki, PkiFails, ListMachines,
       CreateFails, DeleteFails, UpdateFails, DeliverKcp, DeliverCluster, Resync,
       ChangeCluster
  <2> QED
    BY <2>1, <2>2, <2>3
<1>3. witnessed' = witnessed /\ born' = born
  BY DEF Next, Reconcile, EditAlpha, Environment, vars, GetNothing, GetNoCluster,
     WaitForCluster, Begin, EnsurePki, PkiFails, ListMachines, CreateFails,
     DeleteFails, UpdateFails, Panic, Crash, Restart, DeliverKcp, DeliverCluster,
     DeliverMachines, Resync, ChangeCluster
<1> QED
  BY <1>1, <1>2, <1>3, UnmovedStep

\* The first states are first states.
LEMMA AbstractInit == Init => Abstract!Init
<1> SUFFICES ASSUME Init PROVE Abstract!Init
  OBVIOUS
<1>1. Stored(kcp) = NoKcp \/ \E r \in Replicas : Stored(kcp) = Abstract!NewKcp(1, r)
  <2> DEFINE first == {[uid |-> 1, replicas |-> r, status |-> NewStatus] : r \in Replicas}
  <2>1. \E k \in {NoKcp} \cup first : kcp = <<k>>
    BY DEF Init
  <2> HIDE DEF first
  <2>2. Stored(kcp) \in {NoKcp} \cup first
    BY <2>1 DEF Stored
  <2> USE DEF first
  <2> QED
    BY <2>2 DEF Abstract!NewKcp, Abstract!NewStatus, NewStatus
<1>2. Stored(machines) = [m \in Machines |-> Absent]
  BY DEF Init, Stored
<1>3. AtRestKept
  BY InitType, InitRest, PromiseAtRest
<1>4. LetThrough \in BOOLEAN /\ Settled \in BOOLEAN
  BY DEF LetThrough, Settled
<1> QED
  BY <1>1, <1>2, <1>3, <1>4 DEF Init, AtRestKept, Abstract!Init

LEMMA InitPromise == Init => PromiseInv
<1> SUFFICES ASSUME Init PROVE AllBorn
  BY InitType, InitRest, InitWitnessed DEF PromiseInv
<1>1. NoKcp \in Incarnations(born) /\ pass.kcp = NoKcp
  BY NoPassType DEF Init, Incarnations, Kcps
<1>2. \A r \in Replicas :
        [uid |-> 1, replicas |-> r, status |-> NewStatus] \in Incarnations(born)
  BY DEF Init, Incarnations, Kcps, KinkControlPlane, Uids, NewStatus, Status
<1>3. \E k \in Incarnations(born) : kcp = <<k>>
  BY <1>1, <1>2 DEF Init
<1> QED
  BY <1>1, <1>3 DEF AllBorn, Streams

LEMMA PromiseInvStep == PromiseInv /\ [Next]_vars => PromiseInv'
  BY StepType, PassCurrentStep, LoopsIntactStep, AllCreditedStep, AllBornStep,
     SettledReplicasStep, SettledStatusStep DEF PromiseInv

LEMMA AbstractStep ==
  ASSUME PromiseInv, AtRestKept', [Next]_vars
  PROVE  [Abstract!Next]_(Abstract!vars)
  BY ReportStep, AskStep, MachineStep, OtherStep DEF PromiseInv

LEMMA RestKept == (PromiseInv => AtRestKept) /\ (PromiseInv' => AtRestKept')
<1>1. PromiseInv => AtRestKept
  BY PromiseAtRest DEF PromiseInv
<1> QED
  BY <1>1, PTL

\* KeepsItsPromise holds: ControlPlane implements ReplicaControl.
THEOREM ControlPlaneKeepsItsPromise == Spec => KeepsItsPromise
<1>1. PromiseInv /\ PromiseInv' /\ [Next]_vars => [Abstract!Next]_(Abstract!vars)
  BY RestKept, AbstractStep
<1> QED
  BY <1>1, InitPromise, PromiseInvStep, AbstractInit, PTL
     DEF Spec, KeepsItsPromise, Abstract!Spec
=============================================================================
