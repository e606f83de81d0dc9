SPECIFICATION Spec
CONSTANTS
    Coefs <- MCCoefs
    TermCoefs <- MCTermCoefs
    Constants <- MCConstants
    Bounds <- MCBounds
    Params <- MCParams
    Rhs <- MCRhs
    Infinity = 9
    MaxColumns = 3
    MaxRows = 1
    MaxTerms = 1
    MaxHandles = 4
    MaxLeftOver = 1
    Careless = FALSE
CONSTRAINT FewEdits
INVARIANTS RemappedHandlesReturn GurobiColumnsCounted
PROPERTIES GurobiKeepsPromise CplexKeepsPromise
VIEW WithoutCall
