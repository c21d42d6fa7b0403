\* What README.md and the comment of Reconcile say: no write of a pass moves the
\* machines further from the replicas.
SPECIFICATION Spec
CONSTANTS
  m1 = m1
  m2 = m2
  m3 = m3
  Nil = Nil
  NoKcp = NoKcp
  NoCluster = NoCluster
  Absent = Absent
  Machines <- TwoMachines
  Replicas <- UpAndDown
  Clusters <- OnlyOpen
  MaxLag = 1
  MaxEvents = 3
  MaxFaults = 1
\* With nothing left to reconcile the system is at rest.
CHECK_DEADLOCK FALSE
PROPERTIES NeverFurther
