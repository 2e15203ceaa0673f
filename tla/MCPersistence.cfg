SPECIFICATION Spec
CONSTANTS
    Keys = {k1, k2}
    Vals = {v1, v2}
    Members = {m1}
    Fields = {f1}
    None = None
    Scopes <- MCScopes
SYMMETRY Symmetry
INVARIANTS
    TypeOK
    LogReproducesMemory
    OneTypeEverywhere
PROPERTIES
    RewriteKeepsKeys
    ShutdownSaves
