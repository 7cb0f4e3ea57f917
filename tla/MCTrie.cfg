CONSTANTS
    a = a
    b = b
    c = c
    NoChar = a
    Char <- MCChar
    Words <- MCWords
    MaxInserts = 4
SPECIFICATION FairSpec
INVARIANTS IInv SameIndexIffSameWord ReadBack
PROPERTIES InsertReturns ImplementsTable
CHECK_DEADLOCK FALSE
