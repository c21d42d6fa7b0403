\* The loop of CertTree over every small certificate map, in every order.
SPECIFICATION Spec
CONSTANTS
  Names <- FourNames
  CANames <- KnownOrNot
\* The loop ends.
CHECK_DEADLOCK FALSE
INVARIANTS TypeOK OrderIndependent ErrorIffUnknown
