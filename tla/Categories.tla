----------------------------- MODULE Categories -----------------------------
(***************************************************************************)
(* Symbols (symbol.h), the letters of the automata, and categories of      *)
(* characters (categories.cpp): all characters, those of a set, or those   *)
(* outside of a set.  Characters are natural numbers; a table t gives the  *)
(* set of characters of an index (the prefix tree of sets).                *)
(***************************************************************************)
EXTENDS Integers

(* Symbol_kind; a symbol is a pair of its kind and a character or the index *)
(* of a set.                                                                *)
Epsilon == 0
Char == 1
Char_class == 2
Class_complement == 3
All == 4

eps == <<Epsilon, 0>>

SymbolLess(s1, s2) == \/ s1[1] < s2[1]
                      \/ /\ s1[1] = s2[1]
                         /\ s1[1] \in {Char, Char_class, Class_complement}
                         /\ s1[2] < s2[2]

(* Category_kind *)
All_chars == 0
Set_of_cs == 1
Set_of_cs_complement == 2

Category(k, s) == [kind |-> k, s |-> s]
EmptyCategory == Category(Set_of_cs, {})

symbol2category(symb, t) ==
    CASE symb[1] = Char             -> Category(Set_of_cs, {symb[2]})
      [] symb[1] = Char_class       -> Category(Set_of_cs, t[symb[2]])
      [] symb[1] = Class_complement -> Category(Set_of_cs_complement, t[symb[2]])
      [] symb[1] = All              -> Category(All_chars, {})
      [] OTHER                      -> EmptyCategory

is_category_elem(c, cat) ==
    \/ cat.kind = All_chars
    \/ cat.kind = Set_of_cs /\ c \in cat.s
    \/ cat.kind = Set_of_cs_complement /\ c \notin cat.s

(* The order of std::set: that of the words of the sorted characters *)
SetLess(s1, s2) ==
    \E d \in (s1 \ s2) \cup (s2 \ s1) :
        /\ \A e \in (s1 \ s2) \cup (s2 \ s1) : d <= e
        /\ IF d \in s1 THEN \E y \in s2 : y > d ELSE ~\E x \in s1 : x > d

CategoryLess(c1, c2) ==
    \/ c1.kind < c2.kind
    \/ /\ c1.kind = c2.kind
       /\ c1.kind # All_chars
       /\ SetLess(c1.s, c2.s)

AllBut(z) == IF z = {} THEN Category(All_chars, {})
             ELSE Category(Set_of_cs_complement, z)

(* c1 + c2 *)
Plus(c1, c2) ==
    CASE c1.kind = All_chars \/ c2.kind = All_chars -> Category(All_chars, {})
      [] c1.kind = Set_of_cs /\ c2.kind = Set_of_cs -> Category(Set_of_cs, c1.s \cup c2.s)
      [] c1.kind = Set_of_cs /\ c2.kind = Set_of_cs_complement -> AllBut(c2.s \ c1.s)
      [] c1.kind = Set_of_cs_complement /\ c2.kind = Set_of_cs -> AllBut(c1.s \ c2.s)
      [] OTHER -> AllBut(c1.s \cap c2.s)

(* c1 * c2: that the categories intersect.  For two complements, that their *)
(* sum does not hold all characters.                                        *)
Intersect(c1, c2) ==
    CASE c1.kind = Set_of_cs /\ c2.kind = Set_of_cs -> c1.s \cap c2.s # {}
      [] c1.kind = Set_of_cs /\ c2.kind = Set_of_cs_complement -> c1.s \ c2.s # {}
      [] c1.kind = Set_of_cs_complement /\ c2.kind = Set_of_cs -> c2.s \ c1.s # {}
      [] c1.kind = Set_of_cs /\ c2.kind = All_chars -> c1.s # {}
      [] c1.kind = All_chars /\ c2.kind = Set_of_cs -> c2.s # {}
      [] c1.kind = Set_of_cs_complement /\ c2.kind = Set_of_cs_complement ->
             Plus(c1, c2).kind # All_chars
      [] OTHER -> TRUE

(* The result of is_subseteq for two complements is not used. *)
is_subcategory(c1, c2) ==
    \/ c2.kind = All_chars
    \/ c1.kind = Set_of_cs /\ c2.kind = Set_of_cs /\ c1.s \subseteq c2.s
    \/ /\ {c1.kind, c2.kind} = {Set_of_cs, Set_of_cs_complement}
       /\ c1.s \cap c2.s = {}
    \/ c1.kind = Set_of_cs_complement /\ c2.kind = Set_of_cs_complement
=============================================================================
