CONSTANTS
  Holders = {h1, h2, h3}
  Capacity = 3
  MaxU64 = 4
SPECIFICATION Spec
SYMMETRY HolderSymmetry
INVARIANTS UsedIsLeased
PROPERTIES ImplementsQuota RefusedOnlyWhenFull
