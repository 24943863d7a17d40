\* Four addresses over a cap of two, two attempts per window of three ticks.
CONSTANTS
  Keys = {k1, k2, k3, k4}
  MaxKeys = 2
  MaxAttempts = 2
  Window = 3
  MaxTime = 4
SPECIFICATION Spec
SYMMETRY Symmetry
INVARIANTS IInv GrantsPerWindow BoundedMemory
PROPERTIES ImplementsWindow
