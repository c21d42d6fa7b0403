\* What README.md says of reconcile, with one failure: the apiserver's pod.
SPECIFICATION FairSpec
CONSTANTS
  Roles <- FourRoles
  NoMachine = NoMachine
  MaxLag = 1
  MaxEvents = 0
  MaxFaults = 1
PROPERTY ApiServerProvisioned
