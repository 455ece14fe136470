SPECIFICATION Spec
CONSTANTS
  Processes = {p1, p2}
  v1 = v1
  v2 = v2
  Versions = {v1, v2}
  Trusted = {v1}
  RequireSmoke = FALSE
  None = None
  MaxCommands = 7
SYMMETRY Symmetry
INVARIANTS TypeOK QualifiedBeforeUse ActivatedBeforeUse
