SPECIFICATION BuffersSpec
CONSTANTS
    MaxIds = 2
    TermCoefs <- MCTermCoefs
    CountModulus = 4
    MaxRegistrations = 3
    MaxTerms = 3
CONSTRAINT ShortBuffers
INVARIANTS BuffersTyped ColumnsOnce RowIsSum
PROPERTY EarlierRowsKept
