\* One machine and one fault; users give the endpoint and do no more.
SPECIFICATION KinkFairSpec
CONSTANTS
  Machines = {m1}
  Replicas <- OneOrNegative
  Nil = Nil
  NoKcp = NoKcp
  Absent = Absent
  Clusters <- NewCluster
  NoCluster = NoCluster
  NoKinkCluster = NoKinkCluster
  MaxLag = 1
  MaxEvents = 0
  MaxFaults = 1
PROPERTIES Starts DownPropagates
