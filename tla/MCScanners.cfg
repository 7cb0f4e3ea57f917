CONSTANTS
    Descriptions <- MCTexts
    Calls = 5
SPECIFICATION ScannersSpec
INVARIANTS MainReadsRight ExprReadsRight LinesRight
PROPERTIES CallsReturn
CHECK_DEADLOCK FALSE
