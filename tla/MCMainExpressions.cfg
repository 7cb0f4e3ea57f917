CONSTANTS
    Lexeme <- ExpressionsLexeme
    SourceLength = 5
    ErrorCap = 1
    none_string = 1
    unknown_string = 2
    write_act_name = 3
    write_act_body = 1
    newline_lexem_str = 6
    default_names <- MCNames
    fictive_codes <- MCFictive
    Indeterminate = {0, 3}
    IndeterminateAutomata = {"Number_aut"}
SPECIFICATION FairSpec
INVARIANTS ActionsHaveBodies
PROPERTIES EndsOrIsStuck
