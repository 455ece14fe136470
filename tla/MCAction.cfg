SPECIFICATION Spec
CONSTANTS
  c1 = c1  c2 = c2  c3 = c3  k1 = k1  d1 = d1  d2 = d2  d3 = d3
  read = read  write = write  host = host  None = None
  Calls = {c1, c2, c3}
  Keys = {k1}
  KeyOf <- SharedKey
  Decisions = {d1, d3}
  DecisionOf <- SharedDecision
  Routes = {read, write, host}
  Orders <- ReadOrWrite
  Idempotent = {read, host}
  Reads = {read, host}
  Managed = {host}
  Cost <- UnitCost
  Capacity = 1
  MaxAttempts = 2
  AllowNonIdempotent = FALSE
  RetryTimeouts = TRUE
  RetryInvalid = TRUE
  Statuses = {"failed", "timeout"}
  Scoped = {c2, c3}
  ScopeMax = 2
  Crashable = {c1}
INVARIANTS
  TypeOK
  KeyedActionOnce
  RetryOnlyAfterDefinite
  CapacityRespected
  HoldFollowsAttempt
  ScopeBarrier
CHECK_DEADLOCK FALSE
