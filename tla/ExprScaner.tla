----------------------------- MODULE ExprScaner -----------------------------
(***************************************************************************)
(* Aux_expr_scaner (src/aux_expr_scaner.cpp) and above it Expr_scaner      *)
(* (src/expr_scaner.cpp), which turns classes into sets of characters and  *)
(* gathers the complement of a set, [^ ... ^], lexeme by lexeme.           *)
(* The automaton A_unknown is never entered; the branches of start_proc    *)
(* for braces and delimiter_final_proc are never reached either.           *)
(***************************************************************************)
EXTENDS Location

VARIABLES aux,    \* the members of the auxiliary scanner
          expr    \* the members of the scanner of expressions

ClassNames == {"Latin", "Letter", "Russian", "bdigits", "digits", "latin",
               "letter", "odigits", "russian", "xdigits", "ndq", "nsq"}

(* The name of a class is a string of letters, and not an empty one. *)
ASSUME ClassAssumption ==
    \A w \in ClassNames : Len(w) \in Nat \ {0} /\ \A i \in 1 .. Len(w) : SubSeq(w, i, i) \in Letters

(* Classes that are complements themselves *)
QuoteClass == {Spelled("ndq"), Spelled("nsq")}
ClassWord == {Spelled(w) \o <<":", "]">> : w \in ClassNames}
ClassPrefixes == Beginnings(ClassWord)
AmbiguousClass == [L |-> "Latin", l |-> "latin", n |-> "ndq"]
MostLikelyClass(p) ==
    IF \E a \in DOMAIN AmbiguousClass : Spelled(a) = p
    THEN Spelled(AmbiguousClass[CHOOSE a \in DOMAIN AmbiguousClass : Spelled(a) = p])
             \o <<":", "]">>
    ELSE CHOOSE w \in Extending(p, ClassWord) : TRUE

(* The states of the classes and actions, as in module MainScaner           *)
Colon      == <<":">>
ActionBody == <<"body">>

AuxToken(c, v) == [code |-> c, value |-> v, likely |-> FALSE]

(* a_classes_jump_table[state].code *)
ClassCode(p) ==
    LET w == MostLikelyClass(p)
    IN  [code |-> "Class", value |-> SubSeq(w, 1, Len(w) - 2), likely |-> p \notin ClassWord]

AuxDelimiter == [c \in {"(", ")", "{", "}", "|", "*", "+", "?"} |->
    CASE c = "{" -> "Begin_expression"   [] c = "}" -> "End_expression"
      [] c = "(" -> "Opened_round_brack" [] c = ")" -> "Closed_round_brack"
      [] c = "|" -> "Or"                 [] c = "*" -> "Kleene_closure"
      [] c = "+" -> "Positive_closure"   [] c = "?" -> "Optional_member"]

AfterBackslash == {"(", ")", "*", "+", "?", "|", "[", "]", "{", "}", "^", "$", "n",
                   Quote, "\\"}

ExprToken(c, v, s) == [code |-> c, value |-> v, set |-> s]

ExprInit ==
    /\ aux = [automaton |-> "A_start", state |-> <<>>, buffer |-> <<>>,
              token |-> AuxToken("Nothing", <<>>), begin |-> 1, beginLine |-> 1,
              running |-> FALSE]
    /\ expr = [state |-> "none", set |-> {}, begin |-> 1, beginLine |-> 1,
               token |-> ExprToken("Nothing", <<>>, {}), running |-> FALSE]

(* The beginning of Aux_expr_scaner::current_lexem, at the position p *)
AuxBegun(p) == [aux EXCEPT !.automaton = "A_start", !.begin = p, !.running = TRUE,
                           !.token = AuxToken("Nothing", <<>>)]

BeginExpr ==
    /\ aux' = AuxBegun(pos)
    /\ expr' = [expr EXCEPT !.running = TRUE, !.state = "none"]
    /\ UNCHANGED location

AuxIn(a) == aux.running /\ aux.automaton = a /\ ~AtZero
AuxEndsIn(a) == aux.running /\ aux.automaton = a /\ AtZero
AuxBecome(a) == aux' = a
WithToken(c, v) == [aux EXCEPT !.token = AuxToken(c, v)]

(* correct_class and the end of current_lexem *)
ReturnAux(a, p) ==
    LET guessed == a.automaton = "A_class" /\ a.token.likely
    IN  /\ aux' = [a EXCEPT !.running = FALSE,
              !.token = AuxToken(a.token.code, IF a.token.code = "Action" THEN a.buffer
                                               ELSE a.token.value)]
        /\ MoveAndReport(p, IF guessed THEN 1 ELSE 0)

(* The lexeme ends at p with an error of its own. *)
FailAux(a, p) ==
    /\ aux' = [a EXCEPT !.running = FALSE,
          !.token = AuxToken(a.token.code, IF a.token.code = "Action" THEN a.buffer
                                           ELSE a.token.value)]
    /\ MoveAndReport(p, 1)

aux_start_space ==
    /\ AuxIn("A_start") /\ Char(pos) \in Spaces
    /\ AuxBecome([aux EXCEPT !.state = <<>>])
    /\ PassSpace

(* mutant: the line of the lexeme before is left *)
GoAuxInOldLine(a, code, v) ==
    [aux EXCEPT !.state = <<>>, !.automaton = a, !.token = AuxToken(code, v)]

(* An automaton takes over at the first character of a lexeme. *)
GoAux(a, code, v) ==
    [aux EXCEPT !.state = <<>>, !.beginLine = line, !.automaton = a,
                !.token = AuxToken(code, v)]

aux_start_proc ==
    /\ AuxIn("A_start") /\ Char(pos) \notin Spaces
    /\ LET c == Char(pos)
       IN  \/ /\ c \in DOMAIN AuxDelimiter
              /\ AuxBecome(GoAux("A_delimiter", "UnknownLexem", <<>>)) /\ MoveTo(pos)
           \/ /\ c = "$"
              /\ AuxBecome([GoAux("A_action", "Action", <<>>) EXCEPT !.buffer = <<>>])
              /\ MoveTo(pos + 1)
           \/ /\ c = "["
              /\ AuxBecome(GoAux("A_class", "Character", <<"[">>)) /\ MoveTo(pos + 1)
           \/ /\ c = "\\"
              /\ AuxBecome(GoAux("A_char", "Character", <<>>)) /\ MoveTo(pos + 1)
           \/ /\ c = "^"
              /\ AuxBecome(GoAux("A_hat", "Character", <<"^">>)) /\ MoveTo(pos + 1)
           \/ /\ c \notin DOMAIN AuxDelimiter \cup {"$", "[", "\\", "^"}
              /\ ReturnAux(GoAux("A_start", "Character", <<c>>), pos + 1)

aux_delimiter_proc ==
    /\ AuxIn("A_delimiter")
    /\ ReturnAux(WithToken(AuxDelimiter[Char(pos)], aux.token.value), pos + 1)

action_proc ==
    /\ AuxIn("A_action")
    /\ LET c == Char(pos)
           Longer == [aux EXCEPT !.buffer = Append(@, c), !.state = ActionBody]
       IN  IF aux.state = <<>>
           THEN IF c \in Letters THEN AuxBecome(Longer) /\ MoveTo(pos + 1)
                                 ELSE FailAux(aux, pos)
           ELSE IF c \in Letters \cup Digits
                THEN AuxBecome(Longer) /\ MoveTo(pos + 1)
                ELSE ReturnAux(aux, pos)

(* Behind [ : a colon begins the name of a class, ^ the complement of a     *)
(* set, and before anything else the bracket is a character.                *)
classes_begin ==
    /\ AuxIn("A_class") /\ aux.state = <<>>
    /\ \/ /\ Char(pos) = ":"
          /\ AuxBecome([aux EXCEPT !.state = Colon]) /\ MoveTo(pos + 1)
       \/ /\ Char(pos) = "^"
          /\ ReturnAux(WithToken("Begin_char_class_complement", aux.token.value), pos + 1)
       \/ Char(pos) \notin {":", "^"} /\ ReturnAux(aux, pos)

classes_first ==
    /\ AuxIn("A_class") /\ aux.state = Colon
    /\ IF <<Char(pos)>> \in ClassPrefixes
       THEN /\ AuxBecome([aux EXCEPT !.state = <<Char(pos)>>,
                                     !.token = ClassCode(<<Char(pos)>>)])
            /\ MoveTo(pos + 1)
       ELSE FailAux(aux, pos)

classes_proc ==
    /\ AuxIn("A_class") /\ aux.state \notin {<<>>, Colon}
    /\ LET a == [aux EXCEPT !.token = ClassCode(aux.state)]
           longer == Append(aux.state, Char(pos))
       IN  IF longer \in ClassPrefixes
           THEN AuxBecome([a EXCEPT !.state = longer]) /\ MoveTo(pos + 1)
           ELSE ReturnAux(a, pos)

char_proc ==
    /\ AuxIn("A_char")
    /\ LET c == Char(pos)
       IN  IF c \in AfterBackslash
           THEN ReturnAux(WithToken(aux.token.code, <<IF c = "n" THEN "\n" ELSE c>>), pos + 1)
           ELSE ReturnAux(WithToken(aux.token.code, <<"\\">>), pos)

hat_proc ==
    /\ AuxIn("A_hat")
    /\ IF Char(pos) = "]"
       THEN ReturnAux(WithToken("End_char_class_complement", aux.token.value), pos + 1)
       ELSE ReturnAux(aux, pos)

aux_final_procs ==
    \/ /\ AuxEndsIn("A_start") \/ AuxEndsIn("A_action") \/ AuxEndsIn("A_hat")
       /\ ReturnAux(aux, pos)
    \/ /\ AuxEndsIn("A_char")
       /\ ReturnAux(WithToken(aux.token.code, <<"\\">>), pos)
    \/ /\ AuxEndsIn("A_class")
       /\ \/ aux.state = <<>> /\ ReturnAux(aux, pos)
          \/ /\ aux.state = Colon
             /\ ReturnAux(WithToken("UnknownLexem", aux.token.value), pos)
          \/ /\ aux.state \notin {<<>>, Colon}
             /\ ReturnAux([aux EXCEPT !.token = ClassCode(aux.state)], pos)

AuxStep ==
    \/ aux_start_space \/ aux_start_proc \/ aux_delimiter_proc \/ action_proc
    \/ classes_begin \/ classes_first \/ classes_proc \/ char_proc \/ hat_proc
    \/ aux_final_procs

----------------------------------------------------------------------------
(* Expr_scaner works when the auxiliary scanner has returned a lexeme. *)
Gathers(state) == expr.running /\ ~aux.running /\ expr.state = state

(* convert_lexeme: classes become sets, [:ndq:] and [:nsq:] complements. *)
convert_lexeme(t) ==
    IF t.code = "Class"
    THEN IF t.value \in QuoteClass
         THEN ExprToken("Class_complement", <<>>,
                        IF t.value = Spelled("ndq") THEN {<<Quote>>} ELSE {<<"'">>})
         ELSE ExprToken("Character_class", <<>>, {t.value})
    ELSE IF t.code = "End_char_class_complement" THEN ExprToken("UnknownLexem", <<>>, {})
    ELSE ExprToken(t.code, IF t.code \in {"Character", "Action"} THEN t.value ELSE <<>>, {})

expr_lexeme ==
    /\ Gathers("none") /\ aux.token.code # "Begin_char_class_complement"
    /\ expr' = [expr EXCEPT !.running = FALSE, !.begin = aux.begin,
                  !.beginLine = aux.beginLine, !.token = convert_lexeme(aux.token)]
    /\ UNCHANGED <<aux, location>>

(* mutant: the members of the complement before are left *)
get_set_complement_uncleared ==
    /\ Gathers("none") /\ aux.token.code = "Begin_char_class_complement"
    /\ BackTo(aux.begin, aux.beginLine)
    /\ aux' = AuxBegun(aux.begin)
    /\ expr' = [expr EXCEPT !.state = "Begin_class_complement",
                  !.begin = aux.begin, !.beginLine = aux.beginLine]

(* The complement of a set: the auxiliary scanner goes back to its [^ and   *)
(* get_set_complement reads from there.                                     *)
get_set_complement ==
    /\ Gathers("none") /\ aux.token.code = "Begin_char_class_complement"
    /\ BackTo(aux.begin, aux.beginLine)
    /\ aux' = AuxBegun(aux.begin)
    /\ expr' = [expr EXCEPT !.state = "Begin_class_complement", !.set = {},
                  !.begin = aux.begin, !.beginLine = aux.beginLine]

(* get_set_complement returns the set s. *)
ReturnComplement(s) ==
    /\ expr' = [expr EXCEPT !.running = FALSE,
                  !.token = ExprToken("Class_complement", <<>>, s)]
    /\ UNCHANGED <<aux, location>>

(* The next turn of the loop, after n errors *)
NextMember(state, s, n) ==
    /\ expr' = [expr EXCEPT !.state = state, !.set = s]
    /\ aux' = AuxBegun(pos)
    /\ MoveAndReport(pos, n)

IsMember(t) == t.code = "Character" \/ (t.code = "Class" /\ t.value \notin QuoteClass)

(* mutant: the end of the text is no end of the complement *)
complement_goes_on ==
    /\ Gathers("First_char") \/ Gathers("Body_chars")
    /\ aux.token.code = "Nothing"
    /\ NextMember("Body_chars", expr.set, 0)

(* The text ended within the complement: the index of the set stays 0, the  *)
(* index of the empty set, and nothing is reported.                         *)
complement_cut ==
    /\ \E s \in {"Begin_class_complement", "First_char", "Body_chars"} : Gathers(s)
    /\ aux.token.code = "Nothing"
    /\ ReturnComplement({})

begin_class_complement_proc ==
    /\ Gathers("Begin_class_complement") /\ aux.token.code # "Nothing"
    /\ NextMember("First_char", expr.set, 0)

first_char_proc ==
    /\ Gathers("First_char") /\ aux.token.code # "Nothing"
    /\ IF IsMember(aux.token)
       THEN NextMember("Body_chars", expr.set \cup {aux.token.value}, 0)
       ELSE NextMember("Body_chars", expr.set, 1)

body_chars_proc ==
    /\ Gathers("Body_chars") /\ aux.token.code # "Nothing"
    /\ IF aux.token.code = "End_char_class_complement"
       THEN ReturnComplement(expr.set)
       ELSE IF IsMember(aux.token)
            THEN NextMember("Body_chars", expr.set \cup {aux.token.value}, 0)
            ELSE NextMember("Body_chars", expr.set, 1)

ExprStep ==
    \/ AuxStep /\ UNCHANGED expr
    \/ expr_lexeme \/ get_set_complement \/ complement_cut
    \/ begin_class_complement_proc \/ first_char_proc \/ body_chars_proc
=============================================================================
