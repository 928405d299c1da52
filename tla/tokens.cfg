SPECIFICATION Spec
CONSTANTS
    U64Max = 5
    Files = {f1, f2}
    f1 = f1
    f2 = f2
    MaxBatch = 3
INVARIANTS
    TableTypeOK
    TokensAreUnique
