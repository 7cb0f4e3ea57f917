CONSTANTS
    Lexeme <- MCLexeme
    SourceLength = 9
    ErrorCap = 1
    Recording = TRUE
SPECIFICATION FairSpec
INVARIANTS SectionRight
PROPERTIES ErrorsAreDepartures
