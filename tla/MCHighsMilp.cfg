SPECIFICATION MilpSpec
CONSTANTS
    Coefs <- MCCoefs
    Bounds <- MCBounds
    Types <- MCTypes
    TermCoefs <- MCTermCoefs
    Params <- MCParams
    Rhs <- MCRhs
    Infinity = 9
    MaxColumns = 3
    MaxHandles = 4
    MaxLeftOver = 1
    MaxRows = 1
    MaxTerms = 2
CONSTRAINT FewEdits
PROPERTY TypeReachesItsVariable
