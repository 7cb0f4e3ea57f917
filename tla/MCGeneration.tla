---------------------------- MODULE MCGeneration -----------------------------
(* Generation: one run over descriptions of all kinds of lexemes, then one  *)
(* over a few with names that clash, with a fault at any point.             *)
EXTENDS Generation

MCSets == <<{97, 98}, {98}>>
MCAuxFiles == <<<<"trie", "h">>, <<"trie", "cpp">>>>
MCForeignFiles == {<<"main", "cpp">>}

a == Leaf("Char", 97, 0)
b == Leaf("Char", 98, 0)
Join(op, x, y) == Append(x \o [i \in DOMAIN y |-> y[i]], Node(op, Len(x) - 1, Len(x) + Len(y) - 1))
Regexps == {<<>>, <<a>>, <<b>>, <<Leaf("Char_class", 1, 0)>>,
            <<a, b, Node("Or", 0, 1)>>, <<a, b, Node("Concat", 0, 1)>>,
            <<a, b, Node("Multior", 0, 1), Node("Positive", 2, 0)>>,
            <<Leaf("Char_class_complement", 2, 0)>>}

Described(used, id, string, number, m, names, test, quiet) ==
    [used |-> used, regexp |-> [k \in Literals |-> CASE k = "Id" -> id [] k = "String" -> string
                                                    [] OTHER -> number],
     single |-> m[1], begin |-> m[2], end |-> m[3], idsc |-> {}, strsc |-> {},
     scaner |-> names[1], lexem_info |-> names[2], test |-> test, quiet |-> quiet]

NoMark == <<>>
NoMarks == <<NoMark, NoMark, NoMark>>

(* The fourth has a mark twice; those of the last, the marks of C++, begin  *)
(* with the same character and are different.                               *)
MarkLists == {NoMarks, <<<<99>>, NoMark, NoMark>>, <<NoMark, <<97>>, <<98>>>>,
              <<<<99>>, <<99>>, <<98>>>>, <<<<32>>, <<98>>, <<99>>>>,
              <<<<47, 47>>, <<47, 42>>, <<42, 47>>>>}

Kinds == {Described(u, x, y, z, m, <<"my", "lexem_info">>, FALSE, TRUE) :
            u \in SUBSET {"Id", "Keyword", "Delimiter", "String", "Number", "Comment"},
            x \in Regexps, y \in {<<>>, <<a>>, <<b>>}, z \in {<<>>, <<b>>}, m \in MarkLists}

(* Marks next to actions whose body one of them is, and next to an          *)
(* identifier that a mark takes for its code                                *)
Scoped == {[Described(u, <<>>, <<>>, <<>>, m, <<"my", "lexem_info">>, FALSE, TRUE)
               EXCEPT !.idsc = i, !.strsc = s] :
            u \in {{"Comment"}, {"Comment", "Delimiter"}}, m \in MarkLists,
            i \in SUBSET {"MULTI_LINED_COMMENT_MARK", "other"},
            s \in SUBSET {<<98>>, <<47, 47>>}}

(* What the sections of a description give: an expression and marks where   *)
(* their section is                                                         *)
Consistent(d) ==
    /\ \A k \in Literals : k \notin d.used => d.regexp[k] = <<>>
    /\ \A k \in {"String", "Number"} \cap d.used : d.regexp[k] # <<>>
    /\ "Comment" \in d.used <=> <<d.single, d.begin, d.end>> # NoMarks

Named == {Described({"Id", "Delimiter"}, <<a>>, <<>>, <<>>, NoMarks, n, t, TRUE) :
            n \in {<<"my", "lexem_info">>, <<"trie", "lexem_info">>, <<"my", "my">>,
                   <<"other", "print_lexem">>},
            t \in BOOLEAN}

MCDescriptions == <<{d \in Kinds \cup Scoped : Consistent(d)} \cup Named
                        \cup {[d EXCEPT !.quiet = FALSE] : d \in Named},
                    Named>>
=============================================================================
