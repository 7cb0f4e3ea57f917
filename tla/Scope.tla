------------------------------- MODULE Scope --------------------------------
(***************************************************************************)
(* The scope of identifiers and strings (include/scope.h) and the table of *)
(* lexeme codes that the section parsers fill in while they read.          *)
(* Identifiers and strings are indices of prefix trees (module Trie): equal*)
(* indices mean equal words.                                               *)
(***************************************************************************)
EXTENDS LexemeSource, Sequences

CONSTANTS none_string, unknown_string, write_act_name,  \* U"None", U"Unknown", U"write"
          write_act_body                                \* U"buffer += ch;"

ASSUME ScopeAssumption ==
    /\ {none_string, unknown_string, write_act_name, write_act_body} \subseteq Nat
    /\ none_string # unknown_string
    /\ write_act_name \notin {none_string, unknown_string}

VARIABLES idsc,           \* identifiers that have a role, and their attributes
          strsc,          \* strings that have a role, and their kinds
          codes_,         \* the enumeration of lexeme codes, in order
          last_code_val_  \* the last used value of a lexeme code

table == <<codes_, last_code_val_>>
scope == <<idsc, strsc, codes_, last_code_val_>>

Id_kind == {"Scaner_name", "Codes_type_name", "Lexem_ident_name", "Code_of_lexem",
            "Action_name"}

(* The value of an identifier is its code or the string of its action; a    *)
(* name has none, and 0 stands for that.                                    *)
CodeOfLexem(k) == [kind |-> "Code_of_lexem", value |-> k]
ActionName(s) == [kind |-> "Action_name", value |-> s]
Named(kind) == [kind |-> kind, value |-> 0]

(* m with k mapped to v *)
Put(m, k, v) == [x \in DOMAIN m \cup {k} |-> IF x = k THEN v ELSE m[x]]

(* Main_parser_data::init *)
ScopeInit ==
    /\ idsc = [x \in {none_string, unknown_string, write_act_name} |->
                  CASE x = none_string    -> CodeOfLexem(0)
                    [] x = unknown_string -> CodeOfLexem(1)
                    [] x = write_act_name -> ActionName(write_act_body)]
    /\ strsc = [x \in {write_act_body} |-> "Action_definition"]
    /\ codes_ = <<none_string, unknown_string>>
    /\ last_code_val_ = 1

(* add_new_lexem_code: the errors it reports, and what it does otherwise.   *)
CodeErrors(id) == IF id \in DOMAIN idsc THEN 1 ELSE 0

(* Mutant: the identifier is not looked up in the scope. *)
AddCodeUnchecked(id) ==
    /\ last_code_val_' = last_code_val_ + 1
    /\ idsc' = Put(idsc, id, CodeOfLexem(last_code_val_'))
    /\ codes_' = Append(codes_, id)

AddNewLexemCode(id) ==
    IF id \in DOMAIN idsc THEN UNCHANGED <<idsc, table>>
    ELSE /\ last_code_val_' = last_code_val_ + 1
         /\ idsc' = Put(idsc, id, CodeOfLexem(last_code_val_'))
         /\ codes_' = Append(codes_, id)

(* NSI_parser::add_action_definition *)
ActionErrors(id, str) ==
    IF \/ id \in DOMAIN idsc /\ idsc[id].kind # "Action_name"
       \/ str \in DOMAIN strsc /\ strsc[str] # "Action_definition"
    THEN 1 ELSE 0

(* Mutant: the string is not entered in the scope. *)
AddActionOnly(id, str) ==
    IF ActionErrors(id, str) = 1 THEN UNCHANGED <<idsc, strsc>>
    ELSE idsc' = Put(idsc, id, ActionName(str)) /\ UNCHANGED strsc

AddActionDefinition(id, str) ==
    IF ActionErrors(id, str) = 1 THEN UNCHANGED <<idsc, strsc>>
    ELSE /\ idsc' = Put(idsc, id, ActionName(str))
         /\ strsc' = Put(strsc, str, "Action_definition")

(* The identifiers and the strings of the text. *)
Idents == {l.idx : l \in {m \in Lexeme : m.code = "Id"}}
Strings == {l.idx : l \in {m \in Lexeme : m.code = "String"}}

ScopeTypeOK ==
    /\ DOMAIN idsc \subseteq Nat
    /\ \A id \in DOMAIN idsc : idsc[id] \in [kind : Id_kind, value : Nat]
    /\ strsc \in [DOMAIN strsc -> {"Action_definition", "Delimiter_repres"}]
    /\ codes_ \in Seq(Nat)
    /\ last_code_val_ \in Nat
=============================================================================
