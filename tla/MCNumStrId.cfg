CONSTANTS
    Lexeme <- MCLexeme
    SourceLength = 7
    ErrorCap = 1
    Recording = TRUE
    none_string = 1
    unknown_string = 2
    write_act_name = 3
    write_act_body = 1
SPECIFICATION FairSpec
INVARIANTS HeaderRight
PROPERTIES ErrorsAreDepartures ResultsTogether
