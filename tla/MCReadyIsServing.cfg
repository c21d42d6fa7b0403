\* What kinkmachine_types.go says of Ready, where nothing fails and no pod stops.
SPECIFICATION Spec
CONSTANTS
  Roles <- FourRoles
  NoMachine = NoMachine
  MaxLag = 4
  MaxEvents = 0
  MaxFaults = 0
INVARIANT ReadyIsServing
