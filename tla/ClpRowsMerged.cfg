SPECIFICATION Spec
CONSTANTS
    Vars = {1, 2}
    Coefs = {1, 2}
    MaxTerms = 2
    MaxRows = 2
INVARIANT RowsMerged
