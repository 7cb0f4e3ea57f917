------------------------------- MODULE MCMain -------------------------------
(* MainParser with two sets of lexemes.  Identifiers: 1 None, 2 Unknown, 3   *)
(* write, 4 Scaner, 5 Lexem_code, 6 Newline, 7 to 9 the fictive codes, 10    *)
(* another word.  Strings: 1 the body of write, 2 and 3 other ones.          *)
EXTENDS MainParser

MCNames == [scaner_name |-> 4, codes_type |-> 5]
MCFictive == [single |-> 7, begin |-> 8, end |-> 9]

Plain(codes) == [code : codes, idx : {0}, bad : {FALSE}]
Word(code, indices) == [code : {code}, idx : indices, bad : {FALSE}]
Bad(codes) == [code : codes, idx : {1}, bad : {TRUE}]

(* The sections that give identifiers a role. *)
NamesLexeme ==
    Plain({"Kw_scaner_name", "Kw_codes_type", "Kw_ident_name", "Kw_newline_is_lexem",
           "Kw_codes", "Comma"})
    \cup Word("Id", {4, 6, 7})

(* The sections whose strings matter when the scanner is generated. *)
CommentsLexeme ==
    Plain({"Kw_comments", "Kw_single_lined", "Kw_multilined", "Colon"})
    \cup Word("String", {1, 2, 3})

(* Both of them: roles given in the text and clashes with the marks. *)
DescriptionsLexeme == NamesLexeme \cup CommentsLexeme

(* The sections with texts, actions and regular expressions. *)
ExpressionsLexeme ==
    Plain({"Kw_numbers", "Kw_idents", "Kw_action", "Colon", "Opened_fig_brack",
           "Kw_keywords", "Kw_class_members", "Kw_impl_additions", "Kw_lexem_info_name"})
    \cup Word("Opened_fig_brack", {1})
    \cup Word("String", {2}) \cup Word("Id", {3, 10})
    \cup Bad({"String", "Unknown"})

=============================================================================
