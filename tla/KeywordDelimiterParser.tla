----------------------- MODULE KeywordDelimiterParser -----------------------
(***************************************************************************)
(* src/keyword_delimiter_parser.cpp: the sections %keywords and            *)
(* %delimiters.  One step reads one lexeme.  The lines of add_new_string that  *)
(* would collect the representation are commented out.                     *)
(***************************************************************************)
EXTENDS Scope, SectionHistory, SequencesExt

VARIABLES running,   \* the parser whose loop is running
          state,     \* the state of its automaton
          maybe_repres_str_idx, idx, postaction    \* the fields of KW_parser

fields == <<maybe_repres_str_idx, idx, postaction>>
kvars == <<next, left, errors, scope, running, state, fields, history>>

States == {"Maybe_repres_str", "Colon_sep0", "Maybe_code_kw_or_del", "Repres_str",
           "Code_kw_or_del", "Colon_sep", "Kw_del_comma_sep"}

Sections == {"keywords", "delimiters"}

-----------------------------------------------------------------------------
(* The procedures of the states: every lexeme that keeps the section going, *)
(* the state it leads to and the errors reported on the way.                *)
Go(s) == [to |-> s, errors |-> 0]
Err(s) == [to |-> s, errors |-> 1]

maybe_repres_str_proc ==
    [String |-> Go("Colon_sep0"),           Colon |-> Err("Maybe_code_kw_or_del"),
     Id     |-> Err("Code_kw_or_del"),      Comma |-> Err("Kw_del_comma_sep")]

colon_sep0_proc ==
    [Colon  |-> Go("Maybe_code_kw_or_del"), Id    |-> Err("Code_kw_or_del"),
     String |-> Err("Repres_str"),          Comma |-> Err("Kw_del_comma_sep")]

maybe_code_kw_or_del_proc ==
    [Id     |-> Go("Code_kw_or_del"),       String |-> Go("Repres_str"),
     Colon  |-> Err("Colon_sep"),           Comma  |-> Err("Kw_del_comma_sep")]

repres_str_proc ==
    [Colon  |-> Go("Colon_sep"),            Id    |-> Err("Code_kw_or_del"),
     String |-> Err("Repres_str"),          Comma |-> Err("Kw_del_comma_sep")]

colon_sep_proc ==
    [Id     |-> Go("Code_kw_or_del"),       String |-> Err("Repres_str"),
     Colon  |-> Err("Colon_sep"),           Comma  |-> Err("Kw_del_comma_sep")]

(* Mutant: the comma between two representations may be left out. *)
comma_is_optional ==
    [Comma  |-> Go("Kw_del_comma_sep"),     String |-> Go("Repres_str"),
     Id     |-> Err("Code_kw_or_del"),      Colon  |-> Err("Colon_sep")]

(* Mutant: a comma is expected but reported. *)
comma_is_an_error ==
    [Comma  |-> Err("Kw_del_comma_sep"),    String |-> Err("Repres_str"),
     Id     |-> Err("Code_kw_or_del"),      Colon  |-> Err("Colon_sep")]

code_kw_or_del_proc ==
    [Comma  |-> Go("Kw_del_comma_sep"),     String |-> Err("Repres_str"),
     Id     |-> Err("Code_kw_or_del"),      Colon  |-> Err("Colon_sep")]

kw_del_comma_sep_proc ==
    [String |-> Go("Repres_str"),           Colon |-> Err("Colon_sep"),
     Id     |-> Err("Code_kw_or_del"),      Comma |-> Err("Kw_del_comma_sep")]

procs ==
    [Maybe_repres_str     |-> maybe_repres_str_proc,
     Colon_sep0           |-> colon_sep0_proc,
     Maybe_code_kw_or_del |-> maybe_code_kw_or_del_proc,
     Repres_str           |-> repres_str_proc,
     Code_kw_or_del       |-> code_kw_or_del_proc,
     Colon_sep            |-> colon_sep_proc,
     Kw_del_comma_sep     |-> kw_del_comma_sep_proc]

-----------------------------------------------------------------------------
(* The section keyword was seen by parse(); compile_() reads it again.      *)
Call ==
    /\ running = "main"
    /\ next.code \in {"Kw_keywords", "Kw_delimiters"}
    /\ running' = IF next.code = "Kw_keywords" THEN "keywords" ELSE "delimiters"
    /\ state' = "Maybe_repres_str"
    /\ maybe_repres_str_idx' = 0
    /\ idx' = 0
    /\ postaction' = 0
    /\ Forget
    /\ Take(0)
    /\ UNCHANGED scope

(* The first three states keep the string that may be the postaction apart  *)
(* from the representation idx.                                             *)
AtBeginning == state \in {"Maybe_repres_str", "Colon_sep0", "Maybe_code_kw_or_del"}

(* The representation that add_new_string is given, or that is kept. *)
NewIdx ==
    IF next.code = "String"
    THEN IF state = "Maybe_repres_str" THEN idx ELSE next.idx
    ELSE IF \/ AtBeginning /\ next.code = "Id"
            \/ state = "Colon_sep0" /\ next.code = "Comma"
            \/ state = "Maybe_code_kw_or_del" /\ next.code = "Colon"
         THEN maybe_repres_str_idx ELSE idx

(* add_new_string(idx, code): the errors it reports.  It registers nothing: *)
(* the assignments at its end are commented out.                            *)
StringErrors(str, code) == IF str \in DOMAIN strsc \/ code \notin DOMAIN idsc THEN 1 ELSE 0

(* The errors of the call of add_new_string in this step, if there is one.  *)
(* After a comma in state Colon_sep0 the index of the identifier is what an *)
(* earlier lexeme left in the lexeme information.                           *)
AddErrors ==
    CASE next.code = "Id" -> {StringErrors(NewIdx, next.idx)}
      [] state = "Colon_sep0" /\ next.code = "Comma" -> {0, 1}
      [] OTHER -> {0}

Step ==
    /\ running \in Sections
    /\ next.code \in DOMAIN procs[state]
    /\ LET move == procs[state][next.code]
       IN  /\ state' = move.to
           /\ \E n \in AddErrors : Take(move.errors + n) /\ Record(move.errors + n)
    /\ maybe_repres_str_idx' = IF state = "Maybe_repres_str" /\ next.code = "String"
                               THEN next.idx ELSE maybe_repres_str_idx
    /\ postaction' = IF state \in {"Colon_sep0", "Maybe_code_kw_or_del"} /\ next.code = "String"
                     THEN maybe_repres_str_idx ELSE postaction
    /\ idx' = NewIdx
    /\ UNCHANGED <<scope, running>>

(* Mutant: the lexeme that ends the section is looked at for ever. *)
WaitForComma ==
    /\ running \in Sections
    /\ next.code \notin DOMAIN procs[state]
    /\ GiveBack(0)
    /\ running' = IF state = "Code_kw_or_del" THEN "main" ELSE running
    /\ UNCHANGED <<scope, state, fields>>
    /\ SameHistory

(* Any other lexeme, and the end of the text, ends the section silently in  *)
(* every state.                                                             *)
Return ==
    /\ running \in Sections
    /\ next.code \notin DOMAIN procs[state]
    /\ GiveBack(0)
    /\ running' = "main"
    /\ UNCHANGED <<scope, state, fields>>
    /\ SameHistory

Section == Step \/ Return

-----------------------------------------------------------------------------
(* The rest of the program: parse() and the parsers it gives the other      *)
(* lexemes to, which may define codes and actions.                          *)
OtherSections ==
    /\ running = "main"
    /\ next # EndOfText
    /\ next.code \notin {"Kw_keywords", "Kw_delimiters"}
    /\ \E n \in 0 .. 1 : Take(n)
    /\ \/ UNCHANGED scope
       \/ \E id \in Idents : AddNewLexemCode(id) /\ UNCHANGED strsc
       \/ \E id \in Idents, str \in Strings : AddActionDefinition(id, str) /\ UNCHANGED table
    /\ UNCHANGED <<running, state, fields>>
    /\ SameHistory

Finished == running = "main" /\ next = EndOfText /\ UNCHANGED kvars

Init ==
    /\ SourceInit
    /\ ScopeInit
    /\ running = "main"
    /\ state = "Maybe_repres_str"
    /\ maybe_repres_str_idx = 0
    /\ idx = 0
    /\ postaction = 0
    /\ path = <<>>
    /\ failed = FALSE

Next == Call \/ Section \/ OtherSections \/ Finished

Spec == Init /\ [][Next]_kvars

(* compile_() loops until it returns. *)
FairSpec == Spec /\ WF_kvars(Section)

-----------------------------------------------------------------------------
TypeOK ==
    /\ SourceTypeOK
    /\ ScopeTypeOK
    /\ running \in Sections \cup {"main"}
    /\ state \in States
    /\ maybe_repres_str_idx \in Nat /\ idx \in Nat /\ postaction \in Nat
    /\ HistoryTypeOK

(* The body (ab)?abc(dabc)* of keyword_delimiter_parser.h: its j-th lexeme  *)
(* where the optional part has k lexemes.                                   *)
Letter(k, j) ==
    IF j <= k THEN <<"String", "Colon">>[j]
    ELSE <<"String", "Colon", "Id", "Comma">>[((j - k - 1) % 4) + 1]

BeginsDocumented(p) == \E k \in {0, 2} : \A j \in DOMAIN p : p[j].code = Letter(k, j)

Returned == running = "main" /\ path # <<>> /\ ~failed

(* A section that is parsed without an error begins as documented, its      *)
(* postaction is the string of the optional part, and every lexeme code it  *)
(* names is an identifier that was defined before.                          *)
CleanSectionBeginsDocumented ==
    Returned =>
        /\ BeginsDocumented(path)
        /\ postaction = IF Len(path) >= 3 /\ path[3].code = "String" THEN path[1].idx ELSE 0
        /\ \A l \in Range(path) : l.code = "Id" => l.idx \in DOMAIN idsc

(* What every state of the parser must satisfy. *)
SectionRight == TypeOK /\ CleanSectionBeginsDocumented

(* An error is reported only where the text departs from the documented     *)
(* form, or at the code of a representation, when the code is not defined   *)
(* or the string that represents it has another role already.               *)
ErrorsAreDepartures ==
    [][~failed /\ failed' =>
          \/ ~ BeginsDocumented(Append(path, next))
          \/ /\ next.code = "Id"
             /\ \/ next.idx \notin DOMAIN idsc
                \/ path[Len(path) - 1].idx \in DOMAIN strsc]_kvars

=============================================================================
