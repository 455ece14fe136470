SPECIFICATION Spec
CONSTANTS
  Plans = {p1, p2}
  NoPlan = NoPlan
  Trials = 3
  RouteOf <- MCRouteOf
  Screening <- MCScreening
  Paired <- MCPaired
  Granted <- MCGranted
  Raised <- MCRaised
  Elapsed <- MCElapsed
  MaxEvents = 2
SYMMETRY Symmetry
INVARIANTS TypeOK SpentIsAccounted AdmissionIsEarned
PROPERTIES RevivalIsFresh 
CHECK_DEADLOCK FALSE
