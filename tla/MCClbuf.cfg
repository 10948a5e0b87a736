SPECIFICATION Spec
CONSTANTS
  Items = {i1, i2}
  NULL = NULL
  Size = 4
INVARIANTS
  TypeOK
  Occupied
PROPERTY
  FifoSpec
