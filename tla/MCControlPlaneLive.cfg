\* Convergence of the KinkControlPlane controller, and the Cluster that refers to
\* nothing, under fairness.
SPECIFICATION FairSpec
CONSTANTS
  m1 = m1
  m2 = m2
  m3 = m3
  Nil = Nil
  NoKcp = NoKcp
  NoCluster = NoCluster
  Absent = Absent
  Machines <- TwoMachines
  Replicas <- NegativeUpOrNone
  Clusters <- WaitingOpenOrUnbound
  MaxLag = 1
  MaxEvents = 2
  MaxFaults = 1
\* With nothing left to reconcile the system is at rest.
CHECK_DEADLOCK FALSE
PROPERTIES Converges ResyncRecovers
