SPECIFICATION FairSpec
CONSTANTS
    Blocks = 5
    Wrap = 4
    MaxPrompts = 2
    MaxFaults = 3
INVARIANTS
    RunsWhole
    InOrder
    CleanUploadSucceeds
PROPERTY Ends
