----------------------------- MODULE MainScaner -----------------------------
(***************************************************************************)
(* Main_scaner (src/main_scaner.cpp): every pass of the loop of            *)
(* current_lexem is one action, that of the procedure of the current       *)
(* automaton, with the work of current_lexem where the lexeme ends.        *)
(***************************************************************************)
EXTENDS Location

VARIABLE main    \* the members of the scanner, and whether it is running

KeywordNames == {"action", "class_members", "codes", "codes_type", "comments",
    "delimiters", "ident_name", "idents", "keywords", "multilined", "nested",
    "newline_is_lexem", "numbers", "scaner_name", "single_lined", "strings",
    "token_fields", "header_additions", "impl_additions", "lexem_info_name"}

(* A keyword is a string that consists of letters. *)
ASSUME KeywordAssumption ==
    \A w \in KeywordNames : Len(w) \in Nat /\ \A i \in 1 .. Len(w) : SubSeq(w, i, i) \in Letters

Keyword == {Spelled(w) : w \in KeywordNames}

KeywordPrefixes == Beginnings(Keyword)

(* The keyword that the table takes a beginning for, where several begin so *)
Ambiguous == [c |-> "codes", co |-> "codes", cod |-> "codes", code |-> "codes",
    i |-> "idents", id |-> "idents", ide |-> "idents", iden |-> "idents",
    ident |-> "idents", n |-> "numbers", ne |-> "nested", s |-> "scaner_name"]

MostLikely(p) ==
    IF \E a \in DOMAIN Ambiguous : Spelled(a) = p
    THEN Spelled(Ambiguous[CHOOSE a \in DOMAIN Ambiguous : Spelled(a) = p])
    ELSE CHOOSE w \in Extending(p, Keyword) : TRUE

(* The states of an automaton are numbered: <<>> is the number -1, a state  *)
(* of the keywords is the beginning that it stands for, one of strings is   *)
(* named.                                                                   *)
String_body == <<"String_body">>
End_string  == <<"End_string">>

(* A lexeme: its code, its keyword, identifier or string, and whether the   *)
(* code is one of the codes M_Kw_..., of a keyword that is only guessed.    *)
Token(c, v) == [code |-> c, value |-> v, likely |-> FALSE]
LikelyToken(c, v) == [code |-> c, value |-> v, likely |-> TRUE]

(* a_keyword_jump_table[state].code; the states are the beginnings *)
KeywordCode(p) == IF p \in Keyword THEN Token("Kw", p)
                  ELSE LikelyToken("Kw", MostLikely(p))

Delimiter == [c \in {",", ":", "{", "}"} |->
    CASE c = "," -> "Comma" [] c = ":" -> "Colon"
      [] c = "{" -> "Opened_fig_brack" [] c = "}" -> "Closed_fig_brack"]

(* The category Other: what the table of categories does not list. *)
Other == STRING \ (Letters \cup Digits \cup Spaces \cup DOMAIN Delimiter \cup {"%", Quote})

MainInit ==
    main = [automaton |-> "A_start", state |-> <<>>, buffer |-> <<>>,
            token |-> Token("None", <<>>), begin |-> 1, beginLine |-> 1,
            running |-> FALSE, undefined |-> FALSE]

(* The beginning of current_lexem *)
BeginMain ==
    /\ main' = [main EXCEPT !.automaton = "A_start", !.token = Token("None", <<>>),
                            !.begin = pos, !.running = TRUE]
    /\ UNCHANGED location

In(a) == main.running /\ main.automaton = a /\ ~AtZero
EndsIn(a) == main.running /\ main.automaton = a /\ AtZero
Become(m) == main' = m

(* The lexeme ends before position p: identifiers and strings go to their   *)
(* prefix trees, a guessed keyword is reported.                             *)
ReturnMain(m, p) ==
    LET guessed == m.automaton = "A_keyword" /\ m.token.likely
    IN  /\ main' = [m EXCEPT !.running = FALSE,
              !.token = Token(m.token.code, IF m.token.code \in {"Id", "String"}
                                            THEN m.buffer ELSE m.token.value)]
        /\ MoveAndReport(p, IF guessed THEN 1 ELSE 0)

start_space ==
    /\ In("A_start") /\ Char(pos) \in Spaces
    /\ Become([main EXCEPT !.state = <<>>])
    /\ PassSpace

(* mutant: the state of the automaton before is left *)
GoInOldState(a, code, buffer) ==
    [main EXCEPT !.beginLine = line, !.automaton = a,
                 !.token = Token(code, <<>>), !.buffer = buffer]

(* An automaton takes over at the first character of a lexeme. *)
GoMain(a, code, buffer) ==
    [main EXCEPT !.state = <<>>, !.beginLine = line, !.automaton = a,
                 !.token = Token(code, <<>>), !.buffer = buffer]

(* start_proc at the first character of a lexeme.  Delimiters and strings   *)
(* read that character again in their own automata.                         *)
start_proc ==
    /\ In("A_start") /\ Char(pos) \notin Spaces
    /\ LET c == Char(pos)
       IN  \/ /\ c = "%"
              /\ Become(GoMain("A_keyword", "Unknown", main.buffer)) /\ MoveTo(pos + 1)
           \/ /\ c \in Letters
              /\ Become(GoMain("A_id", "Id", <<c>>)) /\ MoveTo(pos + 1)
           \/ /\ c \in DOMAIN Delimiter
              /\ Become(GoMain("A_delimiter", "Unknown", main.buffer)) /\ MoveTo(pos)
           \/ /\ c = Quote
              /\ Become(GoMain("A_string", "String", <<>>)) /\ MoveTo(pos)
           \/ /\ c \in Digits \cup Other
              /\ Become(GoMain("A_unknown", "Unknown", main.buffer)) /\ MoveTo(pos + 1)

unknown_proc ==
    /\ In("A_unknown")
    /\ IF Char(pos) \in Other THEN Become(main) /\ MoveTo(pos + 1)
       ELSE ReturnMain(main, pos)

id_proc ==
    /\ In("A_id")
    /\ IF Char(pos) \in Letters \cup Digits
       THEN Become([main EXCEPT !.buffer = Append(@, Char(pos))]) /\ MoveTo(pos + 1)
       ELSE ReturnMain(main, pos)

keyword_begin ==
    /\ In("A_keyword") /\ main.state = <<>>
    /\ IF <<Char(pos)>> \in KeywordPrefixes
       THEN /\ Become([main EXCEPT !.state = <<Char(pos)>>,
                                   !.token = KeywordCode(<<Char(pos)>>)])
            /\ MoveTo(pos + 1)
       ELSE /\ main' = [main EXCEPT !.running = FALSE]
            /\ MoveAndReport(pos, 1)

keyword_proc ==
    /\ In("A_keyword") /\ main.state # <<>>
    /\ LET m == [main EXCEPT !.token = KeywordCode(main.state)]
           longer == Append(main.state, Char(pos))
       IN  IF longer \in KeywordPrefixes
           THEN Become([m EXCEPT !.state = longer]) /\ MoveTo(pos + 1)
           ELSE ReturnMain(m, pos)

delimiter_proc ==
    /\ In("A_delimiter")
    /\ ReturnMain([main EXCEPT !.token = Token(Delimiter[Char(pos)], <<>>)], pos + 1)

string_proc ==
    /\ In("A_string")
    /\ LET c == Char(pos)
       IN  \/ /\ main.state = <<>>
              /\ Become([main EXCEPT !.state = String_body]) /\ MoveTo(pos + 1)
           \/ /\ main.state = String_body /\ c # Quote
              /\ Become([main EXCEPT !.buffer = Append(@, c)]) /\ MoveTo(pos + 1)
           \/ /\ main.state = String_body /\ c = Quote
              /\ Become([main EXCEPT !.state = End_string]) /\ MoveTo(pos + 1)
           \/ /\ main.state = End_string /\ c = Quote
              /\ Become([main EXCEPT !.buffer = Append(@, c), !.state = String_body])
              /\ MoveTo(pos + 1)
           \/ /\ main.state = End_string /\ c # Quote
              /\ ReturnMain(main, pos)

(* The end of the text: none_final_proc, unknown_final_proc, id_final_proc  *)
silent_final_procs ==
    /\ \E a \in {"A_start", "A_unknown", "A_id"} : EndsIn(a)
    /\ ReturnMain(main, pos)

(* keyword_final_proc.  Behind a lone % the state is -1: the element before *)
(* the table is read, and whatever is there becomes the code.               *)
keyword_final_proc ==
    /\ EndsIn("A_keyword")
    /\ IF main.state # <<>>
       THEN ReturnMain([main EXCEPT !.token = KeywordCode(main.state)], pos)
       ELSE \E t \in {Token("None", <<>>), Token("Kw", Spelled("codes")),
                      LikelyToken("Kw", Spelled("codes"))} :
                ReturnMain([main EXCEPT !.token = t, !.undefined = TRUE], pos)

string_final_proc ==
    /\ EndsIn("A_string")
    /\ main' = [main EXCEPT !.running = FALSE, !.token = Token("String", main.buffer)]
    /\ MoveAndReport(pos, IF main.state = End_string THEN 0 ELSE 1)

MainStep ==
    \/ start_space \/ start_proc \/ unknown_proc \/ id_proc
    \/ keyword_begin \/ keyword_proc \/ delimiter_proc \/ string_proc
    \/ silent_final_procs \/ keyword_final_proc \/ string_final_proc
=============================================================================
