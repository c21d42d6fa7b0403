\* What cert.go says of the tree, with two faults and nothing deleted.
SPECIFICATION Spec
CONSTANTS
  CertMap <- KinkCertMap
  MaxGens = 7
  MaxLag = 2
  MaxFaults = 2
  MaxLosses = 0
INVARIANT ChainConsistent
