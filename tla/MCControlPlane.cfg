\* Safety of the KinkControlPlane controller: stale caches, edits, a second
\* incarnation, losses, failed writes and restarts.
SPECIFICATION Spec
CONSTANTS
  m1 = m1
  m2 = m2
  m3 = m3
  Nil = Nil
  NoKcp = NoKcp
  NoCluster = NoCluster
  Absent = Absent
  Machines <- ThreeMachines
  Replicas <- NegativeOrTwo
  Clusters <- GoneWaitingOrOpen
  MaxLag = 1
  MaxEvents = 3
  MaxFaults = 1
\* With nothing left to reconcile the system is at rest.
CHECK_DEADLOCK FALSE
SYMMETRY Symmetry
INVARIANTS TypeOK SettledReplicas SettledStatus ReadyWitnessed
PROPERTIES StatusOfCurrentSpec CloserWhenClean KeepsItsPromise
