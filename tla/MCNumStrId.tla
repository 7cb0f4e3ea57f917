----------------------------- MODULE MCNumStrId -----------------------------
(* NumStrIdParser on short texts.  Identifier 2 is the code Unknown,         *)
(* identifier 4 has no role at first; string 1 is the body of write.         *)
EXTENDS NumStrIdParser

Plain(code) == [code |-> code, idx |-> 0, bad |-> FALSE]

MCLexeme ==
    {Plain(code) : code \in {"Kw_numbers", "Kw_strings", "Kw_action", "Colon", "Kw_codes",
                             "Opened_fig_brack", "Closed_fig_brack"}}
    \cup {[code |-> "Opened_fig_brack", idx |-> 1, bad |-> FALSE]}
    \cup {[code |-> "String", idx |-> k, bad |-> FALSE] : k \in 1 .. 2}
    \cup {[code |-> "Id", idx |-> k, bad |-> FALSE] : k \in {2, 4}}
    \cup {[code |-> "Unknown", idx |-> 0, bad |-> TRUE]}
=============================================================================
