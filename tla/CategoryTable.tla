---------------------------- MODULE CategoryTable ----------------------------
(***************************************************************************)
(* The table of categories of a generated scanner                          *)
(* (src/category_table_builder.cpp): the categories of every character,    *)
(* grouped in segments, the segments permuted for the search of Knuth      *)
(* (exercise 6.2.24), which get_categories_set runs.  The permutation is   *)
(* the in-order traversal of a tree, written as an automaton.              *)
(***************************************************************************)
EXTENDS Integers, Sequences, SequencesExt, FiniteSetsExt

CONSTANTS CategoryLists,   \* the lists of the sets that the categories are
          LastChar         \* the greatest character, a natural number

ASSUME CharAssumption == LastChar \in Nat

Chars == 0 .. LastChar

(* A table is built for categories with at least one character. *)
ASSUME ListsAssumption ==
    \A l \in CategoryLists : l \in Seq(SUBSET Chars) /\ UNION Range(l) # {}

VARIABLES categories,   \* categories_info
          segments,     \* grouped_pairs
          tree,         \* Permutation_tree
          traversal,    \* the variables of permutation_tree_to_permutation
          table         \* categories_table

categoryVars == <<categories, segments, tree, traversal, table>>

(* The number that stands for a character without a category *)
Other == Len(categories)

categorized_chars == UNION Range(categories)

(* construct_categories_set_for_char: bits are members *)
CategoriesOf(c) == {i - 1 : i \in {i \in DOMAIN categories : c \in categories[i]}}

CategoriesInit ==
    /\ categories \in CategoryLists
    /\ segments = <<>> /\ tree = <<>> /\ table = <<>>
    /\ traversal = [state |-> "none", node |-> 1, result |-> <<>>]

(* mutant: neighbours need not have the same categories *)
ContinuesByPlace(c) == c - 1 \in categorized_chars

(* A character continues the segment of its neighbour with the same         *)
(* categories.                                                              *)
Continues(c) ==
    c - 1 \in categorized_chars /\ CategoriesOf(c) = CategoriesOf(c - 1)

(* The body of the loop of group_pairs, for the next character c            *)
Grouping(s, c) ==
    IF c \notin categorized_chars THEN s
    ELSE IF Continues(c) THEN [s EXCEPT ![Len(s)].upper = c]
    ELSE Append(s, [lower |-> c, upper |-> c, value |-> CategoriesOf(c)])

group_pairs ==
    LET last == Max(categorized_chars)
        grouped[n \in 0 .. last + 1] ==
            IF n = 0 THEN <<>> ELSE Grouping(grouped[n - 1], n - 1)
    IN  grouped[last + 1]

Group ==
    /\ segments = <<>>
    /\ segments' = group_pairs
    /\ UNCHANGED <<categories, tree, traversal, table>>

(* create_permutation_tree: the sons of i are 2i and 2i + 1. *)
create_permutation_tree(n) ==
    [i \in 1 .. n |-> [left   |-> IF 2 * i <= n THEN 2 * i ELSE 0,
                       right  |-> IF 2 * i + 1 <= n THEN 2 * i + 1 ELSE 0,
                       parent |-> i \div 2]]

BuildTree ==
    /\ segments # <<>> /\ tree = <<>>
    /\ tree' = create_permutation_tree(Len(segments))
    /\ traversal' = [state |-> "Start", node |-> 1, result |-> <<>>]
    /\ UNCHANGED <<categories, segments, table>>

GoTo(state, node) == [traversal EXCEPT !.state = state, !.node = node]
At(state) == table = <<>> /\ traversal.state = state
OnlyTraversal == UNCHANGED <<categories, segments, tree, table>>

(* The do loop begins: at the second meeting of Start it ends. *)
TraverseStart ==
    /\ At("Start") /\ traversal.result = <<>>
    /\ traversal' = GoTo("Left", traversal.node)
    /\ OnlyTraversal

TraverseLeft ==
    /\ At("Left")
    /\ LET next == tree[traversal.node].left
       IN  traversal' = IF next # 0 THEN GoTo("Left", next)
                        ELSE GoTo("Right", traversal.node)
    /\ OnlyTraversal

TraverseRight ==
    /\ At("Right")
    /\ LET next == tree[traversal.node].right
           t == IF next # 0 THEN GoTo("Left", next) ELSE GoTo("Parent", traversal.node)
       IN  traversal' = [t EXCEPT !.result = Append(@, traversal.node)]
    /\ OnlyTraversal

(* mutant: the traversal does not end at the root *)
TraverseUp ==
    /\ At("Parent")
    /\ LET next == tree[traversal.node].parent
       IN  traversal' = IF next = 0 THEN traversal
                        ELSE IF tree[next].left = traversal.node THEN GoTo("Right", next)
                        ELSE GoTo("Parent", next)
    /\ OnlyTraversal

TraverseParent ==
    /\ At("Parent")
    /\ LET next == tree[traversal.node].parent
       IN  traversal' = IF next = 0 THEN GoTo("Start", traversal.node)
                        ELSE IF tree[next].left = traversal.node THEN GoTo("Right", next)
                        ELSE GoTo("Parent", next)
    /\ OnlyTraversal

(* permutate: the i-th segment goes to the place that the traversal met as  *)
(* the i-th.                                                                *)
Permutate ==
    /\ At("Start") /\ traversal.result # <<>>
    /\ table' = [p \in DOMAIN segments |->
                    segments[CHOOSE i \in DOMAIN segments : traversal.result[i] = p]]
    /\ UNCHANGED <<categories, segments, tree, traversal>>

CategoriesNext ==
    \/ Group \/ BuildTree \/ TraverseStart \/ TraverseLeft \/ TraverseRight
    \/ TraverseParent \/ Permutate

(* knuth_find of the generated scanner: the place of the segment with c, 0  *)
(* if there is none                                                         *)
knuth_find(c) ==
    LET from[i \in 1 .. 2 * Len(table) + 1] ==
            IF i > Len(table) THEN 0
            ELSE IF c < table[i].lower THEN from[2 * i]
            ELSE IF c > table[i].upper THEN from[2 * i + 1]
            ELSE i
    IN  from[1]

get_categories_set(c) ==
    IF knuth_find(c) = 0 THEN {Other} ELSE table[knuth_find(c)].value

----------------------------------------------------------------------------
(* The generated get_categories_set gives every character the categories    *)
(* whose sets contain it, and Other to what is in none                      *)
(* (src/category_table_builder.cpp:109).                                    *)
TableRight ==
    table # <<>> =>
        \A c \in Chars : get_categories_set(c) =
            IF c \in categorized_chars THEN CategoriesOf(c) ELSE {Other}
=============================================================================
