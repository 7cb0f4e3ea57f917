CONSTANTS
    Descriptions <- MCDescriptions
    Sets <- MCSets
    AuxFiles <- MCAuxFiles
    ForeignFiles <- MCForeignFiles
    MaxRuns = 2
    MaxFaults = 1
SPECIFICATION Spec
INVARIANTS OnlyMarksAreEntered
PROPERTIES SuccessMeansComplete ErrorsExplained RunsEnd
CHECK_DEADLOCK FALSE
