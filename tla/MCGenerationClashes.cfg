CONSTANTS
    Descriptions <- MCDescriptions
    Sets <- MCSets
    AuxFiles <- MCAuxFiles
    ForeignFiles <- MCForeignFiles
    MaxRuns = 2
    MaxFaults = 1
SPECIFICATION Spec
INVARIANTS ClashesAreRefused
CHECK_DEADLOCK FALSE
