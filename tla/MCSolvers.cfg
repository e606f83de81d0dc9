SPECIFICATION Spec
CONSTANTS
    Coefs <- MCCoefs
    TermCoefs <- MCTermCoefs
    Constants <- MCConstants
    Bounds <- MCBounds
    Params <- MCParams
    BoundKinds <- MCBoundKinds
    Positive <- MCPositive
    Rhs <- MCRhs
    CbcRhs <- MCTwoRhs
    SignedCoefs <- MCSignedCoefs
    SignedTermCoefs <- MCSignedTermCoefs
    SoplexParams <- MCSoplexParams
    SoplexTerms = 3
    Infinity = 9
    MaxColumns = 2
    MaxRows = 2
    MaxTerms = 2
CONSTRAINT FewEdits
INVARIANTS MosekRemnantsConstrainNothing SoplexRoomForNonzeros
PROPERTIES CoptKeepsPromise MosekKeepsPromise XpressKeepsPromise GlpkKeepsPromise SoplexKeepsPromiseOnRows CbcKeepsPromise ScipKeepsPromise
VIEW WithoutCall
