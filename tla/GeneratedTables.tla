--------------------------- MODULE GeneratedTables ---------------------------
(***************************************************************************)
(* The tables of a generated scanner: the transition table of the          *)
(* delimiters (JumpTable) and the table of categories (CategoryTable).     *)
(* They share nothing, so that a behaviour builds one of them.             *)
(***************************************************************************)
EXTENDS JumpTable, CategoryTable

VARIABLE task   \* "delimiters" or "categories": the table that is built

tableVars == <<jumpVars, categoryVars, task>>

NoCategories ==
    /\ categories = <<>> /\ segments = <<>> /\ tree = <<>> /\ table = <<>>
    /\ traversal = [state |-> "none", node |-> 1, result |-> <<>>]

NoDelimiters ==
    /\ words = <<>> /\ layer = <<>> /\ roots = <<>>
    /\ jumps = <<>> /\ inits = <<>> /\ numbered = <<>>
    /\ reader = [text |-> <<>>, pos |-> 1, state |-> -1, code |-> 0, status |-> "idle"]

TablesInit ==
    \/ task = "delimiters" /\ JumpsInit /\ NoCategories
    \/ task = "categories" /\ CategoriesInit /\ NoDelimiters

TablesNext ==
    \/ task = "delimiters" /\ JumpsNext /\ UNCHANGED <<categoryVars, task>>
    \/ task = "categories" /\ CategoriesNext /\ UNCHANGED <<jumpVars, task>>

(* One sequential program: a step that can be taken is taken.               *)
TablesSpec == TablesInit /\ [][TablesNext]_tableVars /\ WF_tableVars(TablesNext)

----------------------------------------------------------------------------
TablesTypeOK ==
    /\ task \in {"delimiters", "categories"}
    /\ Len(numbered) = Len(jumps)
    /\ \A s \in DOMAIN jumps : jumps[s].first_state \in Nat \ {0}
    /\ reader.status \in {"idle", "reading", "returned", "undefined"}
    /\ traversal.state \in {"none", "Start", "Left", "Right", "Parent"}
    /\ traversal.node \in 1 .. Len(tree) \cup {1}

(* The transitions of the delimiters, where they are right and where not. *)
TransitionsRight == TablesTypeOK /\ JumpsRight

(* The loops end (src/attributed_char_trie.cpp:107,                         *)
(* src/permutation_tree_to_permutation.cpp:52): either table is built, and  *)
(* what delimiter_proc begins to read it returns or leaves its table.       *)
TablesAreBuilt ==
    /\ task = "delimiters" ~> TableReady
    /\ task = "categories" ~> table # <<>>
    /\ reader.status = "reading" ~> reader.status \in {"returned", "undefined"}
=============================================================================
