SPECIFICATION Spec
CONSTANT NWriters = 2
CONSTANT Capacity = 2
CONSTANT IndexRange = 4
CONSTANT Values = {a, b}
SYMMETRY ValueSymmetry
INVARIANT OneNotification
INVARIANT EmptyPushNotifies
PROPERTY ImplementsFifo
