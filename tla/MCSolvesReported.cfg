SPECIFICATION Spec
CONSTANTS
    Fronts <- MCXpressMilp
    MaxColumns = 2
INVARIANT SolveIsReported
