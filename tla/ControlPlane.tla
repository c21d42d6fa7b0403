---------------------------- MODULE ControlPlane ----------------------------
(***************************************************************************)
(* The KinkControlPlane controller: one reconcile pass after the other     *)
(* scales the KinkMachines of a cluster to the replicas of its             *)
(* KinkControlPlane and reports how many are ready.                        *)
(*                                                                         *)
(* Source: src/controllers/controlplane/kinkcontrolplane_controller.go.    *)
(*                                                                         *)
(* One KinkControlPlane name and one Cluster name, in one namespace.  A    *)
(* KinkControlPlane that is deleted and created again is another           *)
(* incarnation: same name, another uid.  What the pass reads is its        *)
(* informer caches (module Informer), what it writes is the API server.    *)
(***************************************************************************)
EXTENDS Informer, ControlPlaneTypes

CONSTANTS
  Clusters,    \* the contents of the Cluster: records, and NoCluster
  NoCluster,   \* no Cluster of that name
  MaxLag,      \* bound: watch events in flight, per kind
  MaxEvents,   \* bound: what users and the other controllers do
  MaxFaults    \* bound: failing writes, failing PKI, restarts of the process

ASSUME BoundsAssumption ==
  MaxLag \in Nat /\ MaxEvents \in Nat /\ MaxFaults \in Nat

\* status.infrastructureReady, whether spec.controlPlaneEndpoint is set, and
\* whether spec.controlPlaneRef names a KinkControlPlane.
Cluster == [infra : BOOLEAN, endpoint : BOOLEAN, ref : BOOLEAN]

ASSUME NoClusterAssumption ==
  NoCluster \notin Cluster /\ Clusters \subseteq Cluster \cup {NoCluster}

VARIABLES
  kcp,         \* stream of the KinkControlPlane
  cluster,     \* stream of the Cluster
  machines,    \* stream of the KinkMachines with the cluster's label, by name
  queued,      \* the work queue holds the KinkControlPlane's request
  pc,          \* what the running pass does next; "idle" when none runs
  pass,        \* the local variables of the running pass
  swallowed,   \* ghost: the last pass to scale ignored a failed write
  witnessed,   \* ghost: the uids that ever owned a ready machine
  born,        \* incarnations of the KinkControlPlane so far
  events,      \* MaxEvents minus what users and others did
  faults       \* MaxFaults minus the faults so far

vars == <<kcp, cluster, machines, queued, pc, pass, swallowed, witnessed, born,
          events, faults>>

-----------------------------------------------------------------------------
\* (Bug: the infrastructure need not be ready.)
OpenByEndpoint(c) == c # NoCluster /\ c.endpoint

\* The gate of a pass: the Cluster is there, its infrastructure is ready and
\* its endpoint is known.
Open(c) == c # NoCluster /\ c.infra /\ c.endpoint

\* The local variables of a pass: the KinkControlPlane it got; ghosts: whether
\* the stored one is another by now, and whether the machines it listed were
\* then the stored ones and nobody else touched them since; the machines still
\* to create and to delete.
Pass == [kcp : KinkControlPlane \cup {NoKcp}, stale : BOOLEAN, clean : BOOLEAN,
         create : Nat, victims : SUBSET Machines]

NoPass == [kcp |-> NoKcp, stale |-> FALSE, clean |-> FALSE, create |-> 0,
           victims |-> {}]

\* The watches enqueue the KinkControlPlane for a Cluster that refers to it...
Refers(c) == c # NoCluster /\ c.ref

\* ... for itself and for each machine it owns: when a process starts, or its
\* informers resync, one of these is enough.
Listed ==
  \/ Stored(kcp) # NoKcp
  \/ Refers(Stored(cluster))
  \/ Live(Stored(machines)) # {}

\* What the controller finds in the API server when it first starts: a
\* KinkControlPlane nobody reconciled yet, or none.
Init ==
  /\ kcp \in {<<NoKcp>>} \cup
       {<<[uid |-> 1, replicas |-> r, status |-> NewStatus]>> : r \in Replicas}
  /\ cluster \in {<<c>> : c \in Clusters}
  /\ machines = <<[m \in Machines |-> Absent]>>
  /\ queued = Listed
  /\ pc = "idle"
  /\ pass = NoPass
  /\ swallowed = FALSE
  /\ witnessed = {}
  /\ born = 1
  /\ events = MaxEvents
  /\ faults = MaxFaults

-----------------------------------------------------------------------------
(* Reconcile.                                                              *)

\* (Bug: a pass that fails is dropped, not queued again.)
ReturnDropped(requeue) ==
  /\ pc' = "idle"
  /\ pass' = NoPass
  /\ UNCHANGED queued

\* The pass returns; it asks to be queued again or not.
Return(requeue) ==
  /\ pc' = "idle"
  /\ pass' = NoPass
  /\ queued' = (queued \/ requeue)

Objects == <<kcp, cluster, machines>>
Ghosts == <<swallowed, witnessed>>
Bounds == <<born, events, faults>>

\* Get of the KinkControlPlane says NotFound: nothing to do.
GetNothing ==
  /\ pc = "idle" /\ queued
  /\ Cached(kcp) = NoKcp
  /\ queued' = FALSE
  /\ UNCHANGED <<Objects, pc, pass, Ghosts, Bounds>>

\* Get of the Cluster fails: the request goes back to the queue.
GetNoCluster ==
  /\ pc = "idle" /\ queued
  /\ Cached(kcp) # NoKcp
  /\ Cached(cluster) = NoCluster
  /\ UNCHANGED vars

\* The Cluster is not ready: return, and wait for its next event.
WaitForCluster ==
  /\ pc = "idle" /\ queued
  /\ Cached(kcp) # NoKcp
  /\ Cached(cluster) # NoCluster
  /\ ~Open(Cached(cluster))
  /\ queued' = FALSE
  /\ UNCHANGED <<Objects, pc, pass, Ghosts, Bounds>>

\* Both objects are read and the gate is open.
Begin ==
  /\ pc = "idle" /\ queued
  /\ Cached(kcp) # NoKcp
  /\ Open(Cached(cluster))
  /\ queued' = FALSE
  /\ pc' = "pki"
  /\ pass' = [NoPass EXCEPT !.kcp = Cached(kcp), !.stale = Lagging(kcp)]
  /\ UNCHANGED <<Objects, Ghosts, Bounds>>

\* LookupOrGenerateCAs and LookupOrGenerateKubeconfig (module Certificates)
\* succeed...
EnsurePki ==
  /\ pc = "pki"
  /\ pc' = "list"
  /\ UNCHANGED <<Objects, queued, pass, Ghosts, Bounds>>

\* ... or one of them fails, and the pass is queued again.
PkiFails ==
  /\ pc = "pki"
  /\ faults > 0 /\ faults' = faults - 1
  /\ Return(TRUE)
  /\ UNCHANGED <<Objects, Ghosts, born, events>>

\* (Bugs: no loop condition; i <= replicas; i > replicas + 1.)
MissingUnguarded(n, want) == want - n
MissingOneMore(n, want) == IF n <= want THEN want - n + 1 ELSE 0
SurplusOneLess(n, want) == IF n <= want + 1 THEN 0 ELSE n - want - 1

\* How many machines lookupOrCreateMachines creates, and how many it deletes.
\* A negative spec.replicas has it delete them all, and then go on.
Missing(n, want) == IF n < want THEN want - n ELSE 0
Surplus(n, want) == IF n <= want THEN 0 ELSE IF want < 0 THEN n ELSE n - want

\* The List of lookupOrCreateMachines.  The loops that follow create the
\* missing machines, or delete the surplus from the end of the list, whose
\* order is the cache's: any.
ListMachines ==
  /\ pc = "list"
  /\ LET items == Live(Cached(machines))
         n == Cardinality(items)
         want == Want(pass.kcp.replicas)
     IN \E doomed \in {d \in SUBSET items : Cardinality(d) = Surplus(n, want)} :
          pass' = [pass EXCEPT !.create = Missing(n, want), !.victims = doomed,
                               !.clean = ~Lagging(machines)]
  /\ pc' = "scale"
  /\ swallowed' = FALSE
  /\ UNCHANGED <<Objects, queued, witnessed, Bounds>>

CreateMachine(m) ==
  /\ pc = "scale" /\ pass.create > 0
  /\ Stored(machines)[m] = Absent
  /\ Room(machines, MaxLag)
  /\ machines' = Write(machines, [Stored(machines) EXCEPT
                    ![m] = [owner |-> pass.kcp.uid, ready |-> FALSE]])
  /\ pass' = [pass EXCEPT !.create = @ - 1]
  /\ UNCHANGED <<kcp, cluster, queued, pc, Ghosts, Bounds>>

\* A Create that fails is logged, and the loop goes on.  With every name taken
\* (the names of the model are few) it fails with AlreadyExists.
CreateFails ==
  /\ pc = "scale" /\ pass.create > 0
  /\ \/ faults > 0 /\ faults' = faults - 1
     \/ Live(Stored(machines)) = Machines /\ UNCHANGED faults
  /\ pass' = [pass EXCEPT !.create = @ - 1]
  /\ swallowed' = TRUE
  /\ UNCHANGED <<Objects, queued, pc, witnessed, born, events>>

\* Delete goes by name; that the machine is already gone is logged and no more.
DeleteMachine(m) ==
  /\ pc = "scale" /\ m \in pass.victims
  /\ Room(machines, MaxLag)
  /\ machines' = Write(machines, [Stored(machines) EXCEPT ![m] = Absent])
  /\ pass' = [pass EXCEPT !.victims = @ \ {m}]
  /\ UNCHANGED <<kcp, cluster, queued, pc, Ghosts, Bounds>>

\* A Delete that fails is logged, and the loop goes on.
DeleteFails(m) ==
  /\ pc = "scale" /\ m \in pass.victims
  /\ faults > 0 /\ faults' = faults - 1
  /\ pass' = [pass EXCEPT !.victims = @ \ {m}]
  /\ swallowed' = TRUE
  /\ UNCHANGED <<Objects, queued, pc, witnessed, born, events>>

Scaled == pc = "scale" /\ pass.create = 0 /\ pass.victims = {}

\* The status of updateKinkCtlPlaneStatus: it counts what its own List returns.
Observed(content, uid) ==
  LET ready == Cardinality(Ready(content, uid))
  IN [readyReplicas |-> ready,
      unavailableReplicas |-> Cardinality(Owned(content, uid)) - ready,
      ready |-> ready > 0]

\* (Bug: a write that carries no version, and so never conflicts.)
UpdateStatusUnversioned ==
  /\ Scaled /\ Want(pass.kcp.replicas) >= 0
  /\ Room(kcp, MaxLag)
  /\ kcp' = Write(kcp, [pass.kcp EXCEPT
                         !.status = Observed(Cached(machines), pass.kcp.uid)])
  /\ Return(FALSE)
  /\ UNCHANGED <<cluster, machines, Ghosts, Bounds>>

\* Status().Update, the last step of a pass.
UpdateStatus ==
  /\ Scaled /\ Want(pass.kcp.replicas) >= 0
  /\ ~pass.stale
  /\ Room(kcp, MaxLag)
  /\ kcp' = Write(kcp, [pass.kcp EXCEPT
                         !.status = Observed(Cached(machines), pass.kcp.uid)])
  /\ Return(FALSE)
  /\ UNCHANGED <<cluster, machines, Ghosts, Bounds>>

\* The object the pass got is not the stored one any more: a conflict, or
\* NotFound; and any other failure.  The pass is queued again.
UpdateFails ==
  /\ Scaled /\ Want(pass.kcp.replicas) >= 0
  /\ \/ pass.stale /\ UNCHANGED faults
     \/ faults > 0 /\ faults' = faults - 1
  /\ Return(TRUE)
  /\ UNCHANGED <<Objects, Ghosts, born, events>>

-----------------------------------------------------------------------------
(* The process.                                                            *)

\* The process ends, and the next one lists everything and enqueues it.
Restart ==
  /\ kcp' = Relist(kcp)
  /\ cluster' = Relist(cluster)
  /\ machines' = Relist(machines)
  /\ queued' = Listed
  /\ pc' = "idle"
  /\ pass' = NoPass
  /\ UNCHANGED <<Ghosts, born, events>>

\* With a negative spec.replicas the delete loop runs past the first item, and
\* indexing the list with -1 panics: the process exits.
Panic ==
  /\ Scaled /\ Want(pass.kcp.replicas) < 0
  /\ Restart
  /\ UNCHANGED faults

Crash ==
  /\ faults > 0 /\ faults' = faults - 1
  /\ Restart

\* SetupWithManager: For KinkControlPlane.
DeliverKcp ==
  /\ Lagging(kcp)
  /\ kcp' = Deliver(kcp)
  /\ queued' = TRUE
  /\ UNCHANGED <<cluster, machines, pc, pass, Ghosts, Bounds>>

\* Watches Cluster: ClusterToKinkCtrlPlane maps the old and the new object of
\* the event to the KinkControlPlane each refers to.
DeliverCluster ==
  /\ Lagging(cluster)
  /\ cluster' = Deliver(cluster)
  /\ queued' = (queued \/ Refers(Cached(cluster)) \/ Refers(Cached(cluster')))
  /\ UNCHANGED <<kcp, machines, pc, pass, Ghosts, Bounds>>

\* (Bug: the controller does not own the KinkMachines.)
DeliverMachinesUnowned ==
  /\ Lagging(machines)
  /\ machines' = Deliver(machines)
  /\ UNCHANGED <<kcp, cluster, queued, pc, pass, Ghosts, Bounds>>

\* Owns KinkMachine: the event is mapped to the owner's name, whatever its uid.
DeliverMachines ==
  /\ Lagging(machines)
  /\ machines' = Deliver(machines)
  /\ queued' = TRUE
  /\ UNCHANGED <<kcp, cluster, pc, pass, Ghosts, Bounds>>

\* The informers resync now and then, and the Secrets the KinkControlPlane owns
\* have events too.
Resync ==
  /\ ~queued /\ Listed
  /\ queued' = TRUE
  /\ UNCHANGED <<Objects, pc, pass, Ghosts, Bounds>>

-----------------------------------------------------------------------------
(* Everybody else: users, Cluster API, the KinkMachine controller, and the *)
(* garbage collector.                                                      *)

\* A write of the KinkControlPlane by someone else, which outdates the pass.
WriteKcp(object) ==
  /\ events > 0 /\ events' = events - 1
  /\ object # Stored(kcp)
  /\ Room(kcp, MaxLag)
  /\ kcp' = Write(kcp, object)
  /\ pass' = [pass EXCEPT !.stale = (pc # "idle")]
  /\ UNCHANGED <<cluster, machines, queued, pc, Ghosts, faults>>

CreateKcp(r) ==
  /\ Stored(kcp) = NoKcp
  /\ born' = born + 1
  /\ WriteKcp([uid |-> born', replicas |-> r, status |-> NewStatus])

ScaleKcp(r) ==
  /\ Stored(kcp) # NoKcp
  /\ WriteKcp([Stored(kcp) EXCEPT !.replicas = r])
  /\ UNCHANGED born

\* An edit through v1alpha1, which is served beside the stored v1beta1 and has
\* no spec.replicas: whatever was to be changed, the replicas are left out.
EditAlpha ==
  /\ Nil \in Replicas
  /\ ScaleKcp(Nil)

DeleteKcp ==
  /\ Stored(kcp) # NoKcp
  /\ WriteKcp(NoKcp)
  /\ UNCHANGED born

ChangeCluster(c) ==
  /\ events > 0 /\ events' = events - 1
  /\ c # Stored(cluster)
  /\ Room(cluster, MaxLag)
  /\ cluster' = Write(cluster, c)
  /\ UNCHANGED <<kcp, machines, queued, pc, pass, Ghosts, born, faults>>

\* The KinkMachine controller (module Machine) updates a machine's status.
FlipReady(m) ==
  /\ events > 0 /\ events' = events - 1
  /\ m \in Live(Stored(machines))
  /\ Room(machines, MaxLag)
  /\ machines' = Write(machines,
                       [Stored(machines) EXCEPT ![m].ready = ~@])
  /\ witnessed' = witnessed \cup {Stored(machines)[m].owner}
  /\ UNCHANGED <<kcp, cluster, queued, pc, pass, swallowed, born, faults>>

\* A machine is deleted behind the controller's back.
RemoveMachine(m) ==
  /\ m \in Live(Stored(machines))
  /\ Room(machines, MaxLag)
  /\ machines' = Write(machines, [Stored(machines) EXCEPT ![m] = Absent])
  /\ pass' = [pass EXCEPT !.clean = FALSE]
  /\ UNCHANGED <<kcp, cluster, queued, pc, Ghosts, born, faults>>

LoseMachine(m) ==
  /\ events > 0 /\ events' = events - 1
  /\ RemoveMachine(m)

\* No KinkControlPlane has the uid of the machine's owner.
Orphan(m) ==
  /\ m \in Live(Stored(machines))
  /\ Stored(kcp) # NoKcp => Stored(kcp).uid # Stored(machines)[m].owner

\* The garbage collector deletes what has no owner any more.
Collect(m) ==
  /\ Orphan(m)
  /\ RemoveMachine(m)
  /\ UNCHANGED events

-----------------------------------------------------------------------------
Reconcile ==
  \/ GetNothing \/ GetNoCluster \/ WaitForCluster \/ Begin
  \/ EnsurePki \/ PkiFails
  \/ ListMachines
  \/ \E m \in Machines : CreateMachine(m) \/ DeleteMachine(m) \/ DeleteFails(m)
  \/ CreateFails
  \/ UpdateStatus \/ UpdateFails \/ Panic

Environment ==
  \/ \E r \in Replicas : CreateKcp(r) \/ ScaleKcp(r)
  \/ EditAlpha \/ DeleteKcp
  \/ \E c \in Clusters : ChangeCluster(c)
  \/ \E m \in Machines : FlipReady(m) \/ LoseMachine(m) \/ Collect(m)

Next ==
  \/ Reconcile
  \/ DeliverKcp \/ DeliverCluster \/ DeliverMachines \/ Resync \/ Crash
  \/ Environment

Spec == Init /\ [][Next]_vars

\* The one worker of the controller goes on while there is work, watch events
\* arrive and the garbage collector works.  Nobody has to fail, to restart, to
\* resync or to ask for anything.
Fairness ==
  /\ WF_vars(Reconcile)
  /\ WF_vars(DeliverKcp) /\ WF_vars(DeliverCluster) /\ WF_vars(DeliverMachines)
  /\ WF_vars(\E m \in Machines : Collect(m))

FairSpec == Spec /\ Fairness

-----------------------------------------------------------------------------
(* Correctness.                                                            *)

KcpStreams == Streams(KinkControlPlane \cup {NoKcp})
ClusterStreams == Streams(Cluster \cup {NoCluster})
MachineStreams == Streams(Contents)

\* The types of the variables; a pass holds a KinkControlPlane, and no pass
\* holds none.
TypeOK ==
  /\ kcp \in KcpStreams
  /\ cluster \in ClusterStreams
  /\ machines \in MachineStreams
  /\ queued \in BOOLEAN
  /\ pc \in {"idle", "pki", "list", "scale"}
  /\ pass \in Pass
  /\ pc = "idle" <=> pass.kcp = NoKcp
  /\ swallowed \in BOOLEAN
  /\ witnessed \subseteq Uids
  /\ born \in Uids
  /\ events \in 0..MaxEvents
  /\ faults \in 0..MaxFaults

\* Nothing is left to do: no pass, no request, no watch event on its way.
Settled ==
  /\ pc = "idle" /\ ~queued
  /\ ~Lagging(kcp) /\ ~Lagging(cluster) /\ ~Lagging(machines)

\* There is a KinkControlPlane to work for, with replicas that can be reached,
\* and the Cluster lets the controller through.
Engaged ==
  /\ Stored(kcp) # NoKcp
  /\ Want(Stored(kcp).replicas) >= 0
  /\ Open(Stored(cluster))

\* As many machines as replicas.
Scale ==
  Cardinality(Live(Stored(machines))) = Want(Stored(kcp).replicas)

\* SettledReplicas: when the controller has nothing left to do there are as many
\* machines as replicas, unless the last pass to scale swallowed a failed
\* write: whatever was edited, lost, collected or restarted while a pass ran,
\* or while its caches were stale, some event is left to wake it again.
SettledReplicas ==
  Settled /\ Engaged /\ Refers(Stored(cluster)) /\ ~swallowed => Scale

\* SettledStatus: when the controller has nothing left to do the stored status
\* counts the machines there are, even after a pass that swallowed a failure:
\* updateKinkCtlPlaneStatus lists again what lookupOrCreateMachines changed.
SettledStatus ==
  Settled /\ Engaged /\ Refers(Stored(cluster)) =>
    Accurate(Stored(kcp).status, Stored(machines), Stored(kcp).uid)

\* ReadyWitnessed: a KinkControlPlane reported ready had a ready machine of its
\* own at some time; the machines of an earlier incarnation, which the List by
\* label returns as well, never count.
ReadyWitnessed ==
  Stored(kcp) # NoKcp /\ Stored(kcp).status.ready =>
    Stored(kcp).uid \in witnessed

\* The stored KinkControlPlane stays the same incarnation, and a step that
\* changes its status belongs to a pass that worked for it as it is stored.
StatusStep ==
  LET old == Stored(kcp)
      new == Stored(kcp')
  IN old # NoKcp /\ new # NoKcp =>
       /\ new.uid = old.uid
       /\ new.status # old.status =>
            /\ new.replicas = old.replicas
            /\ pass.kcp # NoKcp
            /\ pass.kcp.uid = old.uid
            /\ pass.kcp.replicas = old.replicas

\* StatusOfCurrentSpec: a status is written only by a pass that worked for the
\* stored incarnation and the stored replicas, never by one that an edit, a
\* deletion or a re-creation overtook: Status().Update carries the version the
\* pass read.
StatusOfCurrentSpec == [][StatusStep]_vars

\* The gate is open, and the Cluster's events wake the controller.
LetThrough == Open(Stored(cluster)) /\ Refers(Stored(cluster))

\* What is stored, and whether the controller is at rest.
Abstract == INSTANCE ReplicaControl WITH
  kcp <- Stored(kcp), machines <- Stored(machines),
  engaged <- LetThrough, excused <- swallowed, atRest <- Settled

\* KeepsItsPromise: whatever its caches, queue and passes do, to those who see
\* only what is stored the controller is the one of ReplicaControl.
KeepsItsPromise == Abstract!Spec

\* How far the machines are from the replicas.
Distance ==
  LET gap == Cardinality(Live(Stored(machines))) - Want(Stored(kcp).replicas)
  IN IF gap < 0 THEN -gap ELSE gap

\* lookupOrCreateMachines creates or deletes one machine.
ScaleStep == \E m \in Machines : CreateMachine(m) \/ DeleteMachine(m)

\* CloserWhenClean: as long as the pass listed what is stored and nobody else
\* interferes, each machine it creates or deletes brings the machines one
\* closer to the replicas: it never overshoots.
CloserWhenClean ==
  [][ScaleStep /\ pass.clean /\ ~pass.stale /\ Want(pass.kcp.replicas) >= 0
       => Distance' = Distance - 1]_vars

\* Every machine there is belongs to the stored KinkControlPlane, there are as
\* many as replicas, and the status says so; without a KinkControlPlane there
\* is no machine.
Desired ==
  /\ Engaged /\ Want(Stored(kcp).replicas) <= Cardinality(Machines) =>
       /\ Scale
       /\ Accurate(Stored(kcp).status, Stored(machines), Stored(kcp).uid)
  /\ \A m \in Live(Stored(machines)) : ~Orphan(m)

\* The watch events of the machines arrive, from some time on, before the next
\* pass lists them.
Timely == <>[][ListMachines => ~Lagging(machines)]_vars

\* Converges: when users and faults are done, the controller reaches the desired
\* state and stays there, whatever the passes before did and with no resync,
\* unless its last pass swallowed a failed write or the Cluster does not refer
\* to it.
Converges ==
  Timely /\ <>[](~swallowed /\ Refers(Stored(cluster))) => <>[]Desired

\* ResyncRecovers: the periodic resync of the informers makes up for both.
ResyncRecovers == Timely /\ WF_vars(Resync) => <>[]Desired

\* NeverFurther: README.md:52 and the comment of Reconcile have every pass move
\* the cluster closer to the desired state; at the least, no machine created or
\* deleted may move it further away.
NeverFurther ==
  [][ScaleStep /\ ~pass.stale /\ Stored(kcp) # NoKcp => Distance' <= Distance]_vars
=============================================================================
