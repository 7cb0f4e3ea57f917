----------------------------- MODULE MainParser -----------------------------
(***************************************************************************)
(* The whole front end: parse() and compile() of src/main_parser.cpp with  *)
(* the parsers of the sections, verify() of src/verify_collected_data.cpp, *)
(* and the end of a run of src/cmdline_processing.cpp.                     *)
(*                                                                         *)
(* Only one parser runs at a time and each sets the state of its automaton *)
(* when it is called, so that they share the variables running and state.  *)
(***************************************************************************)
EXTENDS Scope, SequencesExt

CONSTANTS
    newline_lexem_str,      \* U"Newline"
    default_names,          \* default_names[]: the names of the scanner and the codes
    fictive_codes,          \* U"SINGLE_LINED_COMMENT_MARK" and so on
    Indeterminate,          \* the values that an uninitialized last_code_val may have
    IndeterminateAutomata   \* and the bits that set_of_used_automata may have

ASSUME MainParserAssumption ==
    /\ default_names \in [{"scaner_name", "codes_type"} -> Nat]
    /\ fictive_codes \in [{"single", "begin", "end"} -> Nat]
    /\ \A m, k \in DOMAIN fictive_codes : m # k => fictive_codes[m] # fictive_codes[k]
    /\ newline_lexem_str \in Nat
    /\ Indeterminate \subseteq Nat
    /\ IndeterminateAutomata \subseteq {"Keyword_aut", "Delimiter_aut", "Number_aut",
                                       "String_aut", "Id_aut", "Comment_aut"}

VARIABLES
    phase,            \* how far compile() has come
    running, state,   \* the running parser and the state of its automaton
    marks,                                        \* of the parser of %comments
    maybe_repres_str_idx, idx, postaction,        \* of %keywords and %delimiters
    acts_, current_action_name_idx, acts, regexps,  \* of %numbers, %strings, %idents
    last_code_val, newline_is_lexem_,             \* of %codes
    names,            \* scaner_name_idx, codes_type_name_idx, ident_name_idx
    texts,            \* token_fields_idx ... lexem_info_name_idx
    sections,         \* the automata whose sections were read
    indeterminate,    \* the bits set_of_used_automata had at the beginning
    del_repres_,      \* the strings that represent delimiters
    exit_code

codes_vars == <<last_code_val, newline_is_lexem_>>
keyword_vars == <<maybe_repres_str_idx, idx, postaction>>
number_vars == <<acts_, current_action_name_idx, acts, regexps>>
data == <<names, texts, indeterminate, del_repres_, exit_code>>
mvars == <<next, left, errors, scope, phase, running, state, marks, keyword_vars,
           number_vars, codes_vars, sections, data>>

D == INSTANCE CodesAndNewline
C == INSTANCE CommentsParser WITH path <- <<>>, failed <- FALSE, Recording <- FALSE
K == INSTANCE KeywordDelimiterParser
         WITH path <- <<>>, failed <- FALSE, Recording <- FALSE
N == INSTANCE NumStrIdParser WITH path <- <<>>, failed <- FALSE, Recording <- FALSE

(* The sections of two lexemes: a keyword and a name or a text. *)
NameSection ==
    [Kw_scaner_name |-> "scaner_name", Kw_codes_type |-> "codes_type",
     Kw_ident_name |-> "ident_name"]

TextSection ==
    [Kw_token_fields |-> "token_fields", Kw_class_members |-> "class_members",
     Kw_header_additions |-> "header_additions", Kw_impl_additions |-> "impl_additions",
     Kw_lexem_info_name |-> "lexem_info_name"]

Names == Range(NameSection)
Texts == Range(TextSection)

name_attribute ==
    [scaner_name |-> "Scaner_name", codes_type |-> "Codes_type_name",
     ident_name |-> "Lexem_ident_name"]

-----------------------------------------------------------------------------
(* name_section_handling and the four other parsers: the keyword, which     *)
(* parse() has seen.                                                        *)
BeginPair ==
    /\ running = "main"
    /\ \/ next.code \in DOMAIN NameSection /\ running' = NameSection[next.code]
       \/ next.code \in DOMAIN TextSection /\ running' = TextSection[next.code]
    /\ Take(0)
    /\ UNCHANGED <<scope, state, names, texts, sections>>

(* Mutant: the role that the name has already is not looked at. *)
GivenNameUnchecked ==
    /\ running \in Names
    /\ next.code = "Id"
    /\ Take(0)
    /\ idsc' = Put(idsc, next.idx, Named(name_attribute[running]))
    /\ names' = [names EXCEPT ![running] = next.idx]
    /\ sections' = IF running = "ident_name" THEN sections \cup {"Id_aut"} ELSE sections
    /\ running' = "main"
    /\ UNCHANGED <<strsc, table, state, texts>>

(* name_section_handling: a name that has a role already is an error. *)
GivenName ==
    /\ running \in Names
    /\ next.code = "Id"
    /\ IF next.idx \in DOMAIN idsc
       THEN Take(1) /\ UNCHANGED <<idsc, names, sections>>
       ELSE /\ Take(0)
            /\ idsc' = Put(idsc, next.idx, Named(name_attribute[running]))
            /\ names' = [names EXCEPT ![running] = next.idx]
            /\ sections' = IF running = "ident_name" THEN sections \cup {"Id_aut"} ELSE sections
    /\ running' = "main"
    /\ UNCHANGED <<strsc, table, state, texts>>

(* Without a name the default name is set, whatever its role was before,    *)
(* and no error is reported.  There is no default for %ident_name.          *)
DefaultName ==
    /\ running \in Names
    /\ next.code # "Id"
    /\ GiveBack(0)
    /\ IF running = "ident_name" THEN UNCHANGED <<idsc, names>>
       ELSE /\ idsc' = Put(idsc, default_names[running], Named(name_attribute[running]))
            /\ names' = [names EXCEPT ![running] = default_names[running]]
    /\ running' = "main"
    /\ UNCHANGED <<strsc, table, state, texts, sections>>

(* token_fields_sec, class_members_sec, Additions_parser::compile and       *)
(* Lexem_info_name_parser::compile.  Without the string only the first two  *)
(* count an error, and only the others forget an earlier text.              *)
Member == {"token_fields", "class_members"}

GivenText ==
    /\ running \in Texts
    /\ next.code = IF running = "lexem_info_name" THEN "Id" ELSE "String"
    /\ Take(0)
    /\ texts' = [texts EXCEPT ![running] = next.idx]
    /\ running' = "main"
    /\ UNCHANGED <<scope, state, names, sections>>

NoText ==
    /\ running \in Texts
    /\ next.code # IF running = "lexem_info_name" THEN "Id" ELSE "String"
    /\ IF running \in Member THEN GiveBack(1) /\ UNCHANGED texts
       ELSE GiveBack(0) /\ texts' = [texts EXCEPT ![running] = 0]
    /\ running' = "main"
    /\ UNCHANGED <<scope, state, names, sections>>

Pair == BeginPair \/ GivenName \/ DefaultName \/ GivenText \/ NoText

-----------------------------------------------------------------------------
(* The other case labels of parse().  The bit of an automaton is set when   *)
(* the parser of its section has returned.                                  *)
AutomatonOf ==
    [keywords |-> "Keyword_aut", delimiters |-> "Delimiter_aut", numbers |-> "Number_aut",
     strings |-> "String_aut", idents |-> "Id_aut", comments |-> "Comment_aut"]

Automata == Range(AutomatonOf)

SetBit == sections' = IF running # "main" /\ running' = "main"
                      THEN sections \cup {AutomatonOf[running]} ELSE sections

Codes ==
    /\ D!Call \/ D!Section \/ D!Newline_is_lexem
    /\ UNCHANGED <<marks, keyword_vars, number_vars, sections>>

Comments ==
    /\ C!Call \/ C!Section
    /\ SetBit
    /\ UNCHANGED <<scope, keyword_vars, number_vars, codes_vars>>

Keywords ==
    /\ K!Call \/ K!Section
    /\ SetBit
    /\ UNCHANGED <<marks, number_vars, codes_vars>>

Numbers ==
    /\ N!Call \/ N!Section
    /\ SetBit
    /\ UNCHANGED <<marks, keyword_vars, codes_vars>>

(* An unknown lexeme is skipped. *)
Skip ==
    /\ running = "main"
    /\ next.code = "Unknown"
    /\ Take(0)

(* Any other lexeme is given back and not treated by any case. *)
Sectionless == {"Colon", "String"}

NoCase ==
    /\ running = "main"
    /\ next.code \in Sectionless
    /\ GiveBack(0)

Parse ==
    /\ phase = "parse"
    /\ \/ Codes /\ UNCHANGED <<names, texts>>
       \/ Comments /\ UNCHANGED <<names, texts>>
       \/ Keywords /\ UNCHANGED <<names, texts>>
       \/ Numbers /\ UNCHANGED <<names, texts>>
       \/ Pair /\ UNCHANGED <<marks, keyword_vars, number_vars, codes_vars>>
       \/ /\ Skip \/ NoCase
          /\ UNCHANGED <<scope, running, state, marks, keyword_vars, number_vars,
                         codes_vars, names, texts, sections>>
    /\ UNCHANGED <<phase, indeterminate, del_repres_, exit_code>>

-----------------------------------------------------------------------------
set_of_used_automata == indeterminate \cup sections

Parsed == phase = "parse" /\ running = "main" /\ next = EndOfText

unparsed == <<source, scope, running, state, marks, keyword_vars, number_vars,
              codes_vars, sections, data>>

(* The first characters of a regular expression that was never read are     *)
(* asked for: first_chars looks at the element before the first of an empty *)
(* vector, and the program does not survive it.                             *)
Unread ==
    \/ "Number_aut" \in set_of_used_automata /\ "numbers" \notin regexps
    \/ "String_aut" \in set_of_used_automata /\ "strings" \notin regexps

(* Identifiers have a code and no expression. *)
NoIdents == "Id_aut" \in set_of_used_automata /\ "idents" \notin regexps

(* verify() goes on to the sets of first characters. *)
Checkable == Parsed /\ errors = 0 /\ set_of_used_automata # {}

(* verify(): the errors after which nothing is generated; the expression of *)
(* identifiers is asked for after those of strings and numbers.             *)
Refuse ==
    /\ \/ Parsed /\ errors > 0 /\ UNCHANGED errors
       \/ Parsed /\ errors = 0 /\ set_of_used_automata = {} /\ Report(1)
       \/ Checkable /\ ~Unread /\ NoIdents /\ Report(1)
    /\ phase' = "refused"
    /\ UNCHANGED unparsed

Crash ==
    /\ Checkable
    /\ Unread
    /\ phase' = "crashed"
    /\ UNCHANGED <<unparsed, errors>>

(* The sets of first characters never intersect: those of expressions,      *)
(* keywords and delimiters come out empty (Generation, first_chars).        *)
Verify ==
    /\ Checkable
    /\ ~Unread /\ ~NoIdents
    /\ phase' = "verified"
    /\ UNCHANGED <<unparsed, errors>>

(* Mutant: the string of a mark is not looked up in the scope. *)
string_is_retaken(t, mark) ==
    LET d == fictive_codes[mark]
        new_code == d \notin DOMAIN t.idsc
        last == IF new_code THEN t.last + 1 ELSE t.last
    IN  IF marks[mark] = 0 THEN t
        ELSE [idsc   |-> IF new_code THEN Put(t.idsc, d, CodeOfLexem(last)) ELSE t.idsc,
              codes  |-> IF new_code THEN Append(t.codes, d) ELSE t.codes,
              last   |-> last,
              strsc  |-> Put(t.strsc, marks[mark], "Delimiter_repres"),
              del    |-> Append(t.del, marks[mark]),
              errors |-> t.errors + (IF new_code THEN 0 ELSE 1)]

(* add_fictive_delimiter for one mark: t is the table so far. *)
add_fictive_delimiter(t, mark) ==
    LET d == fictive_codes[mark]
        new_code == d \notin DOMAIN t.idsc
        new_string == marks[mark] \notin DOMAIN t.strsc
        last == IF new_code THEN t.last + 1 ELSE t.last
    IN  IF marks[mark] = 0 THEN t
        ELSE [idsc   |-> IF new_code THEN Put(t.idsc, d, CodeOfLexem(last)) ELSE t.idsc,
              codes  |-> IF new_code THEN Append(t.codes, d) ELSE t.codes,
              last   |-> last,
              strsc  |-> IF new_string THEN Put(t.strsc, marks[mark], "Delimiter_repres")
                         ELSE t.strsc,
              del    |-> IF new_string THEN Append(t.del, marks[mark]) ELSE t.del,
              errors |-> t.errors + (IF new_code THEN 0 ELSE 1) + (IF new_string THEN 0 ELSE 1)]

(* Mutant: the delimiter of single-lined comments is forgotten. *)
no_single_delimiter ==
    LET none == [idsc |-> idsc, codes |-> codes_, last |-> last_code_val_, strsc |-> strsc,
                 del |-> del_repres_, errors |-> 0]
    IN  IF "Comment_aut" \in set_of_used_automata
        THEN add_fictive_delimiter(add_fictive_delimiter(none, "begin"), "end")
        ELSE none

add_fictive_delimiters ==
    LET none == [idsc |-> idsc, codes |-> codes_, last |-> last_code_val_, strsc |-> strsc,
                 del |-> del_repres_, errors |-> 0]
    IN  IF "Comment_aut" \in set_of_used_automata
        THEN LET single == add_fictive_delimiter(none, "single")
                 begin == add_fictive_delimiter(single, "begin")
             IN  add_fictive_delimiter(begin, "end")
        ELSE none

(* compile() after verify(): the scanner is generated although the fictive  *)
(* delimiters may have given errors.                                        *)
Generate ==
    /\ phase = "verified"
    /\ LET t == add_fictive_delimiters
       IN  /\ idsc' = t.idsc
           /\ codes_' = t.codes
           /\ last_code_val_' = t.last
           /\ strsc' = t.strsc
           /\ del_repres_' = t.del
           /\ Report(t.errors)
    /\ phase' = "generated"
    /\ UNCHANGED <<source, running, state, marks, keyword_vars, number_vars, codes_vars,
                   sections, names, texts, indeterminate, exit_code>>

(* only_compile after compile(): the files are moved if there is no error.  *)
Exit ==
    /\ phase \in {"refused", "generated"}
    /\ exit_code = "none"
    /\ exit_code' \in IF errors > 0 THEN {"There_are_syntax_errors"}
                      ELSE {"Success", "Failed_moving_cpps", "Failed_moving_hs"}
    /\ UNCHANGED <<source, errors, scope, phase, running, state, marks, keyword_vars,
                   number_vars, codes_vars, sections, names, texts, indeterminate, del_repres_>>

(* The program has ended, or the parser of regular expressions does not     *)
(* return.                                                                  *)
Finished ==
    /\ \/ exit_code # "none" \/ phase = "crashed"
       \/ phase = "parse" /\ running \in N!Sections /\ N!ExpressionIsOpen
    /\ UNCHANGED mvars

Init ==
    /\ SourceInit
    /\ ScopeInit
    /\ phase = "parse"
    /\ running = "main"
    /\ state = "Num_str_kw"
    /\ marks = C!NoMarks
    /\ maybe_repres_str_idx = 0 /\ idx = 0 /\ postaction = 0
    /\ acts_ = N!NoActs
    /\ current_action_name_idx = 0
    /\ acts = [s \in N!Sections |-> N!NoActs]
    /\ regexps = {}
    /\ last_code_val \in Indeterminate
    /\ newline_is_lexem_ \in BOOLEAN
    /\ names = [n \in Names |-> 0]
    /\ texts = [t \in Texts |-> 0]
    /\ sections = {}
    /\ indeterminate \in SUBSET IndeterminateAutomata
    /\ del_repres_ = <<>>
    /\ exit_code = "none"

Main == Parse \/ Refuse \/ Crash \/ Verify \/ Generate \/ Exit

Next == Main \/ Finished

Spec == Init /\ [][Next]_mvars

(* One thread runs the program. *)
FairSpec == Spec /\ WF_mvars(Main)

-----------------------------------------------------------------------------
TypeOK ==
    /\ SourceTypeOK
    /\ ScopeTypeOK
    /\ phase \in {"parse", "refused", "crashed", "verified", "generated"}
    /\ running \in {"main", "codes"} \cup Names \cup Texts \cup DOMAIN AutomatonOf
    /\ state \in {"Codes_id", "Codes_comma_sep"} \cup C!States \cup K!States \cup N!States
    /\ marks \in [single : Nat, begin : Nat, end : Nat, nested : BOOLEAN]
    /\ {maybe_repres_str_idx, idx, postaction, current_action_name_idx} \subseteq Nat
    /\ acts_ \in [init_acts : Nat, fin_acts : Nat]
    /\ acts \in [N!Sections -> [init_acts : Nat, fin_acts : Nat]]
    /\ regexps \subseteq N!Sections
    /\ last_code_val \in Nat /\ newline_is_lexem_ \in BOOLEAN
    /\ names \in [Names -> Nat] /\ texts \in [Texts -> Nat]
    /\ sections \subseteq Automata /\ indeterminate \subseteq Automata
    /\ del_repres_ \in Seq(Nat)
    /\ exit_code \in {"none", "There_are_syntax_errors", "Success", "Failed_moving_cpps",
                      "Failed_moving_hs"}

(* The enumeration of codes and the scope agree: codes_ lists every code    *)
(* once, at the position that is its value, whatever sections come in       *)
(* whatever order.  Two things are known to disturb this: a default name    *)
(* takes over an identifier that is a code already, and Newline.            *)
CodesEnumerated ==
    /\ last_code_val_ = Len(codes_) - 1
    /\ \A i, j \in DOMAIN codes_ : codes_[i] = codes_[j] => i = j
    /\ \A i \in DOMAIN codes_ :
          \/ idsc[codes_[i]] = CodeOfLexem(i - 1)
          \/ /\ codes_[i] \in Range(default_names)
             /\ idsc[codes_[i]].kind \in Range(name_attribute)
    /\ \A id \in DOMAIN idsc \ {newline_lexem_str} :
          idsc[id].kind = "Code_of_lexem" => id \in Range(codes_)

(* A name given in the text keeps its role: later sections can neither make *)
(* it a code or an action nor take it for a name of another kind.           *)
NamesKeepRoles ==
    \A n \in Names : names[n] \notin {0} \cup Range(default_names) =>
        idsc[names[n]].kind = name_attribute[n]

(* Whatever roles the sections give to identifiers, in whatever order, the  *)
(* enumeration and the scope agree and names stay names.                    *)
RolesRight == TypeOK /\ CodesEnumerated /\ NamesKeepRoles

(* Every action has a body, and the body is a string that was not taken for *)
(* a delimiter, not even for the fictive ones that are added at the end.    *)
ActionsHaveBodies ==
    \A id \in DOMAIN idsc : idsc[id].kind = "Action_name" =>
        /\ idsc[id].value \in DOMAIN strsc
        /\ strsc[idsc[id].value] = "Action_definition"

(* If the program reports success, a scanner was generated, and every       *)
(* comment mark is a delimiter of its own with a code in the enumeration.   *)
SuccessIsComplete ==
    exit_code = "Success" =>
        /\ phase = "generated"
        /\ "Comment_aut" \in set_of_used_automata =>
              \A m \in DOMAIN fictive_codes : marks[m] # 0 =>
                  /\ fictive_codes[m] \in Range(codes_)
                  /\ marks[m] \in Range(del_repres_)
                  /\ strsc[marks[m]] = "Delimiter_repres"

(* After verify() an error is found only if the comment marks clash: with   *)
(* each other, with the body of an action, or their codes with identifiers  *)
(* of the text; and then it is found.                                       *)
Clash ==
    LET given == {m \in DOMAIN fictive_codes : marks[m] # 0}
    IN  /\ "Comment_aut" \in set_of_used_automata
        /\ \E m \in given :
              \/ marks[m] \in DOMAIN strsc
              \/ fictive_codes[m] \in DOMAIN idsc
              \/ \E k \in given \ {m} : marks[k] = marks[m]

ClashesFound ==
    [][phase = "verified" /\ phase' = "generated" => (errors' > 0 <=> Clash)]_mvars

(* The text does not get past these lexemes between two sections: parse()   *)
(* gives them back, or their parser does, and meets them again.             *)
Stray == Sectionless \cup {"Id", "Comma", "Kw_action", "Opened_fig_brack", "Closed_fig_brack"}

Stuck ==
    /\ phase = "parse"
    /\ \/ running \in {"main", "numbers"} /\ next.code \in Stray
       \/ running \in N!Sections /\ N!ExpressionIsOpen

Ended == exit_code # "none" \/ phase = "crashed"

(* The program ends, unless it stays for ever at one of these lexemes or at *)
(* the end of a text with an open expression.                               *)
EndsOrIsStuck == <>Ended \/ <>[]Stuck

=============================================================================
