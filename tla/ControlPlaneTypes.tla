------------------------- MODULE ControlPlaneTypes -------------------------
(***************************************************************************)
(* A KinkControlPlane and its KinkMachines: what is stored of them, and    *)
(* what can be said of them with no controller in sight.                   *)
(*                                                                         *)
(* Source: src/apis/controlplane/v1beta1/kinkcontrolplane_types.go and     *)
(* src/controllers/controlplane/kinkcontrolplane_controller.go.            *)
(***************************************************************************)
EXTENDS Integers, FiniteSets

CONSTANTS
  Machines,    \* the names GenerateName can choose, and so the KinkMachines
  Replicas,    \* the values of spec.replicas: integers, and Nil
  Nil,         \* spec.replicas is left out
  NoKcp,       \* no KinkControlPlane of that name
  Absent       \* no KinkMachine of that name

ASSUME MachinesAssumption == IsFiniteSet(Machines)
ASSUME ReplicasAssumption == Replicas \subseteq Int \cup {Nil} /\ Nil \notin Int

Uids == Nat \ {0}

\* status.readyReplicas, status.unavailableReplicas, and status.ready with
\* status.initialized, which the code always sets alike.
Status == [readyReplicas : Nat, unavailableReplicas : Nat, ready : BOOLEAN]

NewStatus == [readyReplicas |-> 0, unavailableReplicas |-> 0, ready |-> FALSE]

KinkControlPlane == [uid : Uids, replicas : Replicas, status : Status]

KinkMachine == [owner : Uids, ready : BOOLEAN]

ASSUME NoObjectAssumption == NoKcp \notin KinkControlPlane /\ Absent \notin KinkMachine

Contents == [Machines -> KinkMachine \cup {Absent}]

\* The KinkMachines of a content: what a List by the cluster's label returns.
Live(content) == {m \in Machines : content[m] # Absent}

\* The items that are controlled by the KinkControlPlane with that uid.
Owned(content, uid) == {m \in Live(content) : content[m].owner = uid}

\* (Bug: without IsControlledBy, any ready machine of the cluster counts.)
ReadyOfAnyone(content, uid) == {m \in Live(content) : content[m].ready}

Ready(content, uid) == {m \in Owned(content, uid) : content[m].ready}

\* A nil spec.replicas asks for none.
Want(replicas) == IF replicas = Nil THEN 0 ELSE replicas

\* What a status says is so: every counter is right, and "ready" is.
Accurate(status, content, uid) ==
  /\ status.readyReplicas = Cardinality(Ready(content, uid))
  /\ status.readyReplicas + status.unavailableReplicas
       = Cardinality(Owned(content, uid))
  /\ status.ready <=> Ready(content, uid) # {}
=============================================================================
