\* Two Clusters, one edit and one fault.
SPECIFICATION Spec
CONSTANTS
  Clusters <- Namesakes
  CertMap <- KinkCertMap
  Settings <- SomeSettings
  Malformed = "malformed"
  Absent = Absent
  MaxKeys = 6
  MaxEdits = 1
  MaxFaults = 1
INVARIANTS TypeOK OwnSecrets MountsStored KubeconfigServes PodsCovered
