SPECIFICATION Spec
CONSTANTS
    c1 = c1  c2 = c2
    Types <- MCTypes
    kind <- MCKind
    parts <- MCParts
    values <- MCValues
    Ops <- MCOps
    signature <- MCSignature
    Calls <- TwoCalls
SYMMETRY Symmetry
INVARIANTS
    ServerSees
    ClientSees
    FlagsTell
    OnlyArraysAndOnewaysFail
CHECK_DEADLOCK FALSE
