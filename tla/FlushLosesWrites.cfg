SPECIFICATION Spec
CONSTANTS
    Keys = {k1}
    Vals = {v1}
    Members = {}
    Fields = {}
    None = None
    Scopes <- LogOnly
SYMMETRY Symmetry
PROPERTIES
    AcknowledgedSurvives
