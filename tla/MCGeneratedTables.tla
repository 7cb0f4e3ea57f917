-------------------------- MODULE MCGeneratedTables --------------------------
(* GeneratedTables on up to three delimiters of up to three characters, and *)
(* on categories over the characters 0 to 10.                                *)
EXTENDS GeneratedTables

Words(chars, n) == UNION {[1 .. k -> chars] : k \in 1 .. n}
Distinct(W, n) == {l \in UNION {[1 .. k -> W] : k \in 1 .. n} :
                       \A i, j \in DOMAIN l : l[i] = l[j] => i = j}

(* The characters 1 and 2 can be exchanged: the first word begins with 1. *)
MCWordLists == {l \in Distinct(Words(1 .. 2, 3), 3) : l[1][1] = 1}
                   \cup Distinct(Words(1 .. 3, 2), 2)
MCDelimiterTexts == [1 .. 4 -> 1 .. 2] \cup Words(1 .. 3, 2)

MCCategoryLists ==
    {<<s, a, b>> : s \in {{0}, {0, 1}}, a \in SUBSET (2 .. 4), b \in SUBSET (0 .. 5)}
        \cup {<<{0}, a>> : a \in SUBSET (0 .. 10)}
=============================================================================
