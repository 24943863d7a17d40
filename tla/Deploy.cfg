SPECIFICATION Spec
CONSTANT MaxImages = 4
CHECK_DEADLOCK FALSE
INVARIANTS IInv AlwaysServing
