\* The certificates of one control plane: a stale cache, two faults, one loss.
SPECIFICATION FairSpec
CONSTANTS
  CertMap <- KinkCertMap
  MaxGens = 7
  MaxLag = 2
  MaxFaults = 2
  MaxLosses = 1
INVARIANTS TypeOK ReturnedComplete KubeconfigTrusted ChainIntact
PROPERTIES KeepsTrust Provisioned
