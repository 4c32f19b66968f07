CONSTANTS
  c1 = c1
  c2 = c2
  Nobody = Nobody
  Callers = {c1, c2}
  MaxRetries = 1
  Order <- TwoScreeners
SPECIFICATION Spec
INVARIANT SnapshotFirst
PROPERTY LockFreed
