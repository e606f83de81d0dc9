SPECIFICATION FairSpec
CONSTANTS
    Keys = {1, 2, 3, 4}
    Values = {0, 1}
    Hash <- MCHash
INVARIANTS TypeOK IndexIsStore EraseIfExact
PROPERTIES ImplementsMap EraseIfReturns
