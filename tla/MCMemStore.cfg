SPECIFICATION MemSpec
CONSTANT Kids = {k1, k2, k3}
CONSTANT Keys = {a}
CONSTANT MaxWrites = 2
CONSTANT Pages = {p1, p2}
CONSTANT NoPage = NoPage
CONSTANT SizeRange = 4
SYMMETRY Symmetry
INVARIANT MemPagesKept
INVARIANT ReaderSeesItsData
INVARIANT SizesAddUp
