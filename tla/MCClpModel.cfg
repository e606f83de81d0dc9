SPECIFICATION MCSpec
CONSTANTS
    Coefs <- MCCoefs
    TermCoefs <- MCTermCoefs
    Bounds <- MCBounds
    Params <- MCParams
    Rhs <- MCRhs
    Infinity = 9
    MaxColumns = 3
    MaxRows = 3
    MaxBatch = 1
    MaxTerms = 2
    RowVars = {1, 2}
    RowCoefs = {1, 2}
    MaxCallRows = 2
CONSTRAINT FewEdits
INVARIANTS TypeOK NoColumnLost RemovedIsNeutral RowsAddUp
PROPERTY KeepsPromise
VIEW WithoutCall
