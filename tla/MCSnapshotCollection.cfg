CONSTANTS
  c1 = c1
  c2 = c2
  Nobody = Nobody
  Callers = {c1, c2}
  MaxRetries = 2
  Order <- OneScreener
SPECIFICATION Spec
SYMMETRY Alike
INVARIANTS
  TypeOK
  OneCollection
