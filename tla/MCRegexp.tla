------------------------------ MODULE MCRegexp ------------------------------
(* RegexpParser on all short texts.  Identifier 1 is the name of an action,  *)
(* identifier 2 is not.                                                      *)
EXTENDS RegexpParser

MCLexeme ==
    [code : {"Opened_round_brack", "Closed_round_brack", "Or", "Kleene_closure",
             "Begin_expression", "End_expression"}, idx : {0}, bad : {FALSE}]
    \cup [code : {"Character"}, idx : {1}, bad : {FALSE}]
    \cup [code : {"Action"}, idx : {1, 2}, bad : {FALSE}]
    \cup [code : {"Unknown"}, idx : {0}, bad : {TRUE}]
=============================================================================
