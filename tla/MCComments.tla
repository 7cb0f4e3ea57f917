----------------------------- MODULE MCComments -----------------------------
(* CommentsParser on texts of nine lexemes: the longest documented section   *)
(* has eight.  Unknown stands for the lexemes no section knows, Kw_codes for *)
(* the beginning of another section.                                         *)
EXTENDS CommentsParser

Plain(code) == [code |-> code, idx |-> 0, bad |-> FALSE]

MCLexeme ==
    {Plain(code) : code \in Starters \cup {"Colon", "Kw_codes", "Unknown"}}
    \cup {[code |-> "String", idx |-> k, bad |-> FALSE] : k \in 0 .. 2}
    \cup {[code |-> code, idx |-> 1, bad |-> TRUE] : code \in {"String", "Unknown"}}
=============================================================================
