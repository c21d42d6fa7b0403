\* One machine, a stale cache, two things others do and one fault.
SPECIFICATION FairSpec
CONSTANTS
  Roles <- ThreeRoles
  NoMachine = NoMachine
  MaxLag = 1
  MaxEvents = 2
  MaxFaults = 1
\* A machine that is deleted needs nothing more.
CHECK_DEADLOCK FALSE
INVARIANTS TypeOK
PROPERTIES OneEachWhenClean Provisioned DownReported
