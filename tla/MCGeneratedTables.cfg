CONSTANTS
    WordLists <- MCWordLists
    DelimiterTexts <- MCDelimiterTexts
    CategoryLists <- MCCategoryLists
    LastChar = 12
    default_attr = 1
SPECIFICATION TablesSpec
INVARIANTS TransitionsRight DelimitersRead TableRight
PROPERTIES TablesAreBuilt
CHECK_DEADLOCK FALSE
