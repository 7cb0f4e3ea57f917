-------------------------- MODULE CodesAndNewline --------------------------
(***************************************************************************)
(* src/codes_and_newline.cpp: the section %codes, which enumerates lexeme  *)
(* codes, and the word %newline_is_lexem.  One step reads one lexeme.      *)
(*                                                                         *)
(* codes_sec works on copies of the table of codes and stores them back    *)
(* when it returns; nobody looks at the table between, so that the steps   *)
(* change the table itself.                                                *)
(***************************************************************************)
EXTENDS Scope

CONSTANT newline_lexem_str    \* U"Newline"

VARIABLES running,         \* the parser whose loop is running
          state,           \* the state of its automaton
          last_code_val,   \* the parser's own copy of last_code_val_, which it
                           \* keeps from one call to the next
          newline_is_lexem_

(* The case labels of parse() that lead to codes_sec. *)
Starters == {"Kw_codes", "Comma", "Id"}

(* codes_sec_ up to the loop.  A lexeme that is not the keyword is reported *)
(* and given back to parse(), which will read it again.                     *)
Call ==
    /\ running = "main"
    /\ next.code \in Starters
    /\ last_code_val' = last_code_val_
    /\ IF next.code = "Kw_codes"
       THEN Take(0) /\ running' = "codes" /\ state' = "Codes_id"
       ELSE GiveBack(1) /\ UNCHANGED <<running, state>>
    /\ UNCHANGED <<scope, newline_is_lexem_>>

(* An identifier, in both states; the comma before it may be missing. *)
Code ==
    /\ running = "codes"
    /\ next.code = "Id"
    /\ AddNewLexemCode(next.idx)
    /\ last_code_val' = last_code_val_'
    /\ Take(CodeErrors(next.idx) + (IF state = "Codes_id" THEN 0 ELSE 1))
    /\ state' = "Codes_comma_sep"
    /\ UNCHANGED <<strsc, running, newline_is_lexem_>>

(* A comma, in both states; the identifier before it may be missing. *)
Separator ==
    /\ running = "codes"
    /\ next.code = "Comma"
    /\ Take(IF state = "Codes_id" THEN 1 ELSE 0)
    /\ state' = IF state = "Codes_id" THEN "Codes_comma_sep" ELSE "Codes_id"
    /\ UNCHANGED <<scope, running, last_code_val, newline_is_lexem_>>

(* Anything else, and the end of the text, ends the section. *)
Return ==
    /\ running = "codes"
    /\ next.code \notin {"Id", "Comma"}
    /\ GiveBack(IF state = "Codes_id" THEN 1 ELSE 0)
    /\ running' = "main"
    /\ UNCHANGED <<scope, state, last_code_val, newline_is_lexem_>>

(* newline_is_lexem_sec: the code of Newline comes from the parser's own    *)
(* copy of the last code, and neither that copy nor the parser's copy of    *)
(* the enumeration is stored back.                                          *)
Newline_is_lexem ==
    /\ running = "main"
    /\ next.code = "Kw_newline_is_lexem"
    /\ Take(CodeErrors(newline_lexem_str))
    /\ IF newline_lexem_str \in DOMAIN idsc THEN UNCHANGED <<idsc, last_code_val>>
       ELSE /\ last_code_val' = last_code_val + 1
            /\ idsc' = Put(idsc, newline_lexem_str, CodeOfLexem(last_code_val'))
    /\ newline_is_lexem_' = TRUE
    /\ UNCHANGED <<strsc, table, running, state>>

Section == Code \/ Separator \/ Return
=============================================================================
