SPECIFICATION Spec
CONSTANTS
    Keys = {k1, k2}
    Vals = {v1}
    Members = {m1}
    Fields = {f1}
    None = None
    Scopes <- LogOnly
SYMMETRY Symmetry
PROPERTIES
    RewriteKeepsEveryKey
