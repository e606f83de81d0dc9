SPECIFICATION Spec
CONSTANTS
    Fronts <- MCFronts
    MaxColumns = 2
INVARIANT AvailableIsReadable
PROPERTY RefineDecides
