CONSTANTS
    Lexeme <- MCLexeme
    SourceLength = 9
    ErrorCap = 1
    Recording = TRUE
    none_string = 1
    unknown_string = 2
    write_act_name = 3
    write_act_body = 1
SPECIFICATION FairSpec
INVARIANTS SectionRight
PROPERTIES ErrorsAreDepartures
