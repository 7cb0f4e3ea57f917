----------------------------- MODULE MCKeywords -----------------------------
(* KeywordDelimiterParser on texts of ten lexemes: a postaction and two     *)
(* representations take ten with the keyword of the section.                *)
EXTENDS KeywordDelimiterParser

Plain(code) == [code |-> code, idx |-> 0, bad |-> FALSE]

(* The strings are 1 (the body of the action write) and 2; the identifiers  *)
(* are 2 (Unknown, a code from the beginning) and 4.                        *)
MCLexeme ==
    {Plain(code) : code \in {"Kw_keywords", "Kw_delimiters", "Colon", "Comma", "Kw_codes"}}
    \cup {[code |-> "String", idx |-> k, bad |-> FALSE] : k \in 1 .. 2}
    \cup {[code |-> "Id", idx |-> k, bad |-> FALSE] : k \in {2, 4}}
    \cup {[code |-> code, idx |-> 2, bad |-> TRUE] : code \in {"String", "Unknown"}}
=============================================================================
