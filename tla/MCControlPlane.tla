--------------------------- MODULE MCControlPlane ---------------------------
(***************************************************************************)
(* ControlPlane for TLC: the constants of its runs.                        *)
(***************************************************************************)
EXTENDS ControlPlane, TLC

CONSTANTS m1, m2, m3

TwoMachines == {m1, m2}
ThreeMachines == {m1, m2, m3}

\* Machines are alike.  Not for liveness.
Symmetry == Permutations(Machines)

\* Scale up and down, leave it out (which asks for none), a negative number.
AllReplicas == {-1, 1, 2, Nil}
NegativeOrTwo == {-1, 2}
UpAndDown == {1, 2}
NegativeUpOrNone == {-1, 2, Nil}

\* The gate closed; open; open, and the Cluster refers to no KinkControlPlane.
Waiting == [infra |-> TRUE, endpoint |-> FALSE, ref |-> TRUE]
Opened == [infra |-> TRUE, endpoint |-> TRUE, ref |-> TRUE]
Unbound == [infra |-> TRUE, endpoint |-> TRUE, ref |-> FALSE]

GoneWaitingOrOpen == {NoCluster, Waiting, Opened}
WaitingOpenOrUnbound == {Waiting, Opened, Unbound}
OnlyOpen == {Opened}
=============================================================================
