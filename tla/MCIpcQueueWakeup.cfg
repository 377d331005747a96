SPECIFICATION Spec
CONSTANT NWriters = 1
CONSTANT Capacity = 2
CONSTANT IndexRange = 4
CONSTANT Values = {a}
INVARIANT ReaderNotified
