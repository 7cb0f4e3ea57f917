---------------------------- MODULE MCGroupedDFA ----------------------------
(* GroupedDFA on all small expressions over three characters, two sets and  *)
(* two actions, on the deeper ones of a few shapes, and on identifiers      *)
(* joined with keywords as the builder of the scanner joins them.           *)
EXTENDS GroupedDFA

MCSets == [i \in {1, 2} |-> IF i = 1 THEN {1, 2} ELSE {1}]
MCStrings == UNION {[1 .. n -> 1 .. 3] : n \in 0 .. 2} \cup {<<1, 2, 1>>, <<2, 2, 3>>, <<1, 1, 1>>}
MCAnySymbol == {eps, <<All, 0>>, <<Char, 2>>}

Over(op, a) == Append(a, Node(op, Len(a) - 1, 0))
Join(op, a, b) == Append(a \o Shifted(b, Len(a)), Node(op, Len(a) - 1, Len(a) + Len(b) - 1))
Joins(A, B) == {Join(op, a, b) : op \in {"Or", "Concat"}, a \in A, b \in B}
Overs(A) == {Over(op, a) : op \in Unary, a \in A}

c1 == <<Leaf("Char", 1, 0)>>
c1a == <<Leaf("Char", 1, 1)>>
c2 == <<Leaf("Char", 2, 0)>>
class == <<Leaf("Char_class", 1, 2)>>
others == <<Leaf("Char_class_complement", 1, 0)>>
overlap == <<Leaf("Char_class_complement", 2, 0)>>

Leaves == {c1, c1a, c2, class, others, overlap}
Two == Joins(Leaves, Leaves) \cup Overs(Leaves)
Few == {Join("Or", c1a, c2), Join("Concat", c2, c1), Over("Kleene", c1), Over("Positive", others),
        Over("Optional", class)}

(* All ways to put parentheses into an expression of n leaves and the two   *)
(* operations                                                               *)
Chains(n) ==
    LET chain[k \in 1 .. n] == IF k = 1 THEN {c2}
                              ELSE UNION {Joins({c1a} \cup chain[j], chain[k - j]) : j \in 1 .. k - 1}
    IN  chain[n]

(* A joined group of leaves that another operand joins: a command that is   *)
(* no leaf gets into its range                                              *)
Grown == {Join(op, Join(op, Join(op, c1a, c2), Join(op, c2, c1)), x) :
          op \in {"Or", "Concat"}, x \in {c1, Join("Or", c1, c2), Join("Concat", c1, c2)}}

Keywords == {<<<<1>>>>, <<<<1, 2>>>>, <<<<1, 2>>, <<2>>>>, <<<<2, 2>>, <<1, 2>>, <<1, 1>>>>,
             <<<<1>>, <<2>>, <<1, 2>>>>}
Identifiers == {c2, Join("Concat", c1, Over("Kleene", class)), Over("Positive", class)}
Glued == {regexp1_or_regexp2(i, u32strings_to_commands(k)) : i \in Identifiers, k \in Keywords}

MCBuffers == Leaves \cup Two \cup Joins(Two, Few) \cup Joins(Few, Leaves) \cup Overs(Two) \cup Overs(Overs(Few))
             \cup Chains(4) \cup Grown \cup Glued

=============================================================================
