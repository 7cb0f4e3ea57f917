CONSTANTS
    Sets <- MCSets
    Buffers <- MCBuffers
    Strings <- MCStrings
    AnySymbol <- MCAnySymbol
    MaxWord = 4
SPECIFICATION Spec
INVARIANTS FusedRight NDFARight MinimalRight ActionsRight MatchRight
PROPERTIES IsBuilt
