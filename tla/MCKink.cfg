\* One machine, one thing users do and one fault, in any order.
SPECIFICATION KinkSpec
CONSTANTS
  Machines = {m1}
  Replicas <- OneOrNegative
  Nil = Nil
  NoKcp = NoKcp
  Absent = Absent
  Clusters <- NewCluster
  NoCluster = NoCluster
  NoKinkCluster = NoKinkCluster
  MaxLag = 1
  MaxEvents = 1
  MaxFaults = 1
INVARIANTS KinkTypeOK InfraFirst
PROPERTY KeepsItsPromise
