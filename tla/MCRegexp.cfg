CONSTANTS
    Lexeme <- MCLexeme
    SourceLength = 6
    ErrorCap = 1
    Actions = {1}
    MaxCommands = 10
SPECIFICATION FairSpec
INVARIANTS StackRight OperandsRight QuietMeansRight
PROPERTIES MessagesAreRight ReturnsOrIsStuck
