CONSTANT Runs = {r1, r2, r3}
CONSTANT Fingerprints = {f1, f2}
CONSTANT MaxEntries = 1
CONSTANT NoRow = NoRow
SYMMETRY RunSymmetry
SPECIFICATION Spec
INVARIANT TypeOK
INVARIANT OnlyProvenPatches
INVARIANT CountersAddUp
PROPERTY FirstWriterWins
PROPERTY ImplementsVerifiedMemory
CHECK_DEADLOCK FALSE
