SPECIFICATION Spec
CONSTANT Procs = {p1, p2, p3, p4}
INVARIANT CountersExact
PROPERTY ImplementsSharedExclusive
