SPECIFICATION Spec
CONSTANT Kids = {k1, k2, k3}
CONSTANT Keys = {a, b}
CONSTANT MaxWrites = 2
SYMMETRY Symmetry
INVARIANT AssertsHold
INVARIANT ReaderStable
INVARIANT FreedStaysFreed
INVARIANT CountNeverHigh
