------------------------------ MODULE Scanners ------------------------------
(***************************************************************************)
(* The two scanners over one Location, used as the parsers use them: a     *)
(* parser reads a lexeme with one of them, and may give it back; only      *)
(* then, or after the scanner of expressions, does the other one read on.  *)
(*                                                                         *)
(* What a lexeme is is defined here a second time, as a function of the    *)
(* text and the position only, to compare the automata with.               *)
(***************************************************************************)
EXTENDS MainScaner, ExprScaner

CONSTANT Calls      \* bound: the calls of current_lexem and back

VARIABLES
    calls,          \* how many calls are left
    last,           \* what was called last: "none", "main", "expr" or "back"
    errorsBefore,   \* the count of errors when the lexeme was begun
    miscounted      \* history: a line end was passed twice, or uncounted

scannersHistory == <<calls, last, errorsBefore, miscounted>>
scannersVars == <<text, location, main, aux, expr, scannersHistory>>

ScannersInit ==
    /\ LocationInit /\ MainInit /\ ExprInit
    /\ calls = Calls
    /\ last = "none"
    /\ errorsBefore = 0
    /\ miscounted = FALSE

Idle == ~main.running /\ ~expr.running

CallOf(what) ==
    /\ Idle /\ calls > 0
    /\ calls' = calls - 1
    /\ last' = what
    /\ UNCHANGED text

CallMain ==
    /\ CallOf("main") /\ BeginMain
    /\ errorsBefore' = number_of_errors
    /\ UNCHANGED <<aux, expr, miscounted>>

CallExpr ==
    /\ last \in {"back", "expr"}
    /\ CallOf("expr") /\ BeginExpr
    /\ errorsBefore' = number_of_errors
    /\ UNCHANGED <<main, miscounted>>

(* back() sets the line to that of the lexeme and the position before the   *)
(* spaces that precede it; at the end of the text there is no lexeme.       *)
GoBack(begin, beginLine, atEnd) ==
    /\ CallOf("back")
    /\ BackTo(begin, beginLine)
    /\ miscounted' = (miscounted \/ atEnd \/ LineEnds(begin, pos - 1) > 0)
    /\ UNCHANGED <<main, aux, expr, errorsBefore>>

BackMain == /\ last = "main"
            /\ GoBack(main.begin, main.beginLine, main.token.code = "None")
BackExpr == /\ last = "expr"
            /\ GoBack(expr.begin, expr.beginLine, expr.token.code = "Nothing")

MainReads ==
    /\ MainStep
    /\ miscounted' = (miscounted \/ LineEnds(pos, pos' - 1) # line' - line)
    /\ UNCHANGED <<text, aux, expr, calls, last, errorsBefore>>

(* The scanner of expressions goes back by itself, to the beginning of a    *)
(* complement of a set.                                                     *)
ExprReads ==
    /\ ExprStep
    /\ miscounted' = (miscounted \/ LineEnds(pos', pos - 1) > 0)
    /\ UNCHANGED <<text, main, calls, last, errorsBefore>>

ScannersNext == CallMain \/ CallExpr \/ BackMain \/ BackExpr \/ MainReads \/ ExprReads

(* A call of current_lexem runs until it returns. *)
ScannersSpec ==
    ScannersInit /\ [][ScannersNext]_scannersVars /\ WF_scannersVars(MainReads \/ ExprReads)

----------------------------------------------------------------------------
(* What the lexeme is that begins at p, behind spaces: [token, end, errors] *)
Found(tok, e, n) == [token |-> tok, end |-> e, errors |-> n]

(* The end of the longest run of characters of a set that begins at p *)
RunEnd(p, set) == CHOOSE q \in p .. Len(text) + 1 :
    /\ \A i \in p .. q - 1 : Char(i) \in set
    /\ q <= Len(text) => Char(q) \notin set

(* The longest word of a set (or none) that begins at p *)
LongestAt(p, words) ==
    LET lengths == {n \in 1 .. Len(text) + 1 - p : SubSeq(text, p, p + n - 1) \in words}
    IN  IF lengths = {} THEN <<>>
        ELSE SubSeq(text, p, p - 1 + CHOOSE n \in lengths : \A m \in lengths : m <= n)

CharBehind(p) == Char(p + 1)
OneIf(b) == IF b THEN 1 ELSE 0

(* A string runs to the first quotation mark that closes it; every other    *)
(* one within it stands for two.                                            *)
EvenQuotes(b, i) == Cardinality({k \in b .. i : Char(k) = Quote}) % 2 = 0
Closes(b, i) == Char(i) = Quote /\ EvenQuotes(b, i) /\ CharBehind(i) # Quote

(* What the string that begins at b has up to i *)
StringBody(b) ==
    LET body[i \in b .. Len(text)] ==
            IF i = b THEN <<>>
            ELSE IF Char(i) = Quote /\ EvenQuotes(b, i) THEN body[i - 1]
            ELSE Append(body[i - 1], Char(i))
    IN  body

StringLexeme(b) ==
    LET ends == {i \in b + 1 .. Len(text) : Closes(b, i)}
        e == IF ends = {} THEN Len(text) ELSE CHOOSE i \in ends : \A k \in ends : i <= k
    IN  Found(Token("String", StringBody(b)[e]), e + 1, OneIf(ends = {}))

KeywordLexeme(b) ==
    LET p == LongestAt(b + 1, KeywordPrefixes)
    IN  IF p = <<>> THEN Found(Token("Unknown", <<>>), b + 1, 1)
        ELSE Found(Token("Kw", IF p \in Keyword THEN p ELSE MostLikely(p)),
                   b + 1 + Len(p), OneIf(p \notin Keyword))

MainLexeme(p) ==
    LET b == RunEnd(p, Spaces)
        c == Char(b)
        e == RunEnd(b, Letters \cup Digits)
    IN  IF b > Len(text) THEN Found(Token("None", <<>>), b, 0)
        ELSE IF c = "%" THEN KeywordLexeme(b)
        ELSE IF c = Quote THEN StringLexeme(b)
        ELSE IF c \in Letters THEN Found(Token("Id", SubSeq(text, b, e - 1)), e, 0)
        ELSE IF c \in DOMAIN Delimiter THEN Found(Token(Delimiter[c], <<>>), b + 1, 0)
        ELSE Found(Token("Unknown", <<>>), RunEnd(b + 1, Other), 0)

(* Behind [ the complement of a set may begin, or the name of a class; the  *)
(* text may end there.                                                      *)
ClassLexeme(b) ==
    LET p == LongestAt(b + 2, ClassPrefixes)
        bracket == AuxToken("Character", <<"[">>)
    IN  IF CharBehind(b) = "^"
        THEN Found(AuxToken("Begin_char_class_complement", <<"[">>), b + 2, 0)
        ELSE IF CharBehind(b) # ":" THEN Found(bracket, b + 1, 0)
        ELSE IF p # <<>>
        THEN Found(AuxToken("Class", ClassCode(p).value), b + 2 + Len(p),
                   OneIf(p \notin ClassWord))
        ELSE IF b + 1 = Len(text) THEN Found(AuxToken("UnknownLexem", <<"[">>), b + 2, 0)
        ELSE Found(bracket, b + 2, 1)

ActionLexeme(b) ==
    LET e == IF CharBehind(b) \in Letters THEN RunEnd(b + 1, Letters \cup Digits)
             ELSE b + 1
    IN  Found(AuxToken("Action", SubSeq(text, b + 1, e - 1)), e,
              OneIf(e = b + 1 /\ b < Len(text)))

AuxLexeme(p) ==
    LET b == RunEnd(p, Spaces)
        c == Char(b)
        d == CharBehind(b)
    IN  IF b > Len(text) THEN Found(AuxToken("Nothing", <<>>), b, 0)
        ELSE IF c \in DOMAIN AuxDelimiter
        THEN Found(AuxToken(AuxDelimiter[c], <<>>), b + 1, 0)
        ELSE IF c = "$" THEN ActionLexeme(b)
        ELSE IF c = "[" THEN ClassLexeme(b)
        ELSE IF c = "\\" /\ d \in AfterBackslash
        THEN Found(AuxToken("Character", <<IF d = "n" THEN "\n" ELSE d>>), b + 2, 0)
        ELSE IF c = "^" /\ d = "]"
        THEN Found(AuxToken("End_char_class_complement", <<"^">>), b + 2, 0)
        ELSE Found(AuxToken("Character", <<c>>), b + 1, 0)

(* The members of a complement: what follows the lexeme x is m.             *)
Gathered(s, e, n, c) == [set |-> s, end |-> e, errors |-> n, cut |-> c]
Before(x, m) ==
    IF IsMember(x.token)
    THEN Gathered(m.set \cup {x.token.value}, m.end, m.errors + x.errors, m.cut)
    ELSE Gathered(m.set, m.end, m.errors + x.errors + 1, m.cut)

(* The members that follow each position; ^] ends them behind the first one *)
Members(start) ==
    LET from[p \in 1 .. Len(text) + 1] ==
            LET x == AuxLexeme(p)
            IN  IF x.token.code = "End_char_class_complement" /\ p # start
                THEN Gathered({}, x.end, 0, FALSE)
                ELSE IF x.token.code = "Nothing" THEN Gathered({}, x.end, 0, TRUE)
                ELSE Before(x, from[x.end])
    IN  from

ExprLexeme(p) ==
    LET x == AuxLexeme(p)
        m == Members(x.end)[x.end]
    IN  IF x.token.code # "Begin_char_class_complement"
        THEN Found(convert_lexeme(x.token), x.end, x.errors)
        ELSE Found(ExprToken("Class_complement", <<>>, IF m.cut THEN {} ELSE m.set),
                   m.end, m.errors)

----------------------------------------------------------------------------
ScannersTypeOK ==
    /\ pos \in 1 .. Len(text) + 1
    /\ line \in Nat /\ number_of_errors \in Nat
    /\ main.automaton \in {"A_start", "A_unknown", "A_id", "A_keyword", "A_delimiter",
                           "A_string"}
    /\ aux.automaton \in {"A_start", "A_action", "A_delimiter", "A_class", "A_char", "A_hat"}
    /\ expr.state \in {"none", "Begin_class_complement", "First_char", "Body_chars"}
    /\ ~(main.running /\ expr.running)
    /\ aux.running => expr.running

(* The table of keywords is read at the index -1 at most when the text ends *)
(* with a lone % (keyword_final_proc).                                      *)
UndefinedAtLonePercent == main.undefined => Char(Len(text)) = "%"

(* What the main scanner returns depends on the text behind the position    *)
(* alone, whatever was read and given back before: the lexeme, where it     *)
(* ends and the errors it costs (src/main_scaner.cpp, current_lexem); it is *)
(* undefined behind a lone % at the end only.                               *)
MainReadsRight ==
    /\ ScannersTypeOK
    /\ UndefinedAtLonePercent
    /\ last = "main" /\ Idle /\ ~main.undefined =>
          Found(main.token, pos, number_of_errors - errorsBefore) = MainLexeme(main.begin)

(* The same of the scanner of expressions, with the whole complement of a   *)
(* set as one lexeme (src/expr_scaner.cpp, get_set_complement).             *)
ExprReadsRight ==
    last = "expr" /\ Idle =>
        Found(expr.token, pos, number_of_errors - errorsBefore) = ExprLexeme(expr.begin)

(* The line of every lexeme is right as long as nobody gave back a lexeme   *)
(* with line ends before it, or the end of the text, and no string took     *)
(* more than a line; whichever scanner counted the lines before             *)
(* (lexem_begin_line_number of include/abstract_scaner.h).                  *)
BeginsAt(begin, beginLine) == beginLine = 1 + LineEnds(1, RunEnd(begin, Spaces) - 1)
LinesRight ==
    ~miscounted /\ Idle =>
        /\ last = "main" /\ main.token.code # "None" => BeginsAt(main.begin, main.beginLine)
        /\ last = "expr" /\ expr.token.code # "Nothing" => BeginsAt(expr.begin, expr.beginLine)

(* Every call of current_lexem returns. *)
CallsReturn == ~Idle ~> Idle
=============================================================================
