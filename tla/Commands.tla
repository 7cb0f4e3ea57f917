------------------------------ MODULE Commands ------------------------------
(***************************************************************************)
(* Buffers of commands (command.h): a regular expression is compiled into  *)
(* commands, operands before the operation, whose arguments are indices    *)
(* from 0 on of other commands.  Arguments and the datum of a leaf share   *)
(* their storage, a union; here they share the component first.            *)
(***************************************************************************)
EXTENDS Integers, Sequences, SequencesExt, FiniteSets, Categories

(* F(x), where x is evaluated once *)
With(x, F(_)) == CHOOSE r \in {F(y) : y \in {x}} : TRUE

(* FoldLeft, every intermediate value evaluated once *)
Fold(op(_, _), base, seq) == FoldLeft(LAMBDA r, x : With(r, LAMBDA v : op(v, x)), base, seq)

Node(n, f, s) == [name |-> n, first |-> f, second |-> s, action |-> 0]
Leaf(n, datum, a) == [name |-> n, first |-> datum, second |-> 0, action |-> a]

is_leaf(com) == com.name \in {"Char", "Char_class", "Char_class_complement"}

Binary == {"Or", "Concat", "Multior", "Multiconcat"}
Unary == {"Kleene", "Positive", "Optional"}

(* The commands of b moved behind n commands of another buffer *)
Shifted(b, n) ==
    [i \in DOMAIN b |->
        CASE b[i].name \in Binary -> [b[i] EXCEPT !.first = @ + n, !.second = @ + n]
          [] b[i].name \in Unary  -> [b[i] EXCEPT !.first = @ + n]
          [] OTHER                -> b[i]]

regexp1_or_regexp2(a, b) ==
    CASE a = <<>> -> b
      [] b = <<>> -> a
      [] OTHER -> Append(a \o Shifted(b, Len(a)),
                         Node("Or", Len(a) - 1, Len(a) + Len(b) - 1))

u32string_to_commands(str) ==
    LET chars == [i \in DOMAIN str |-> Leaf("Char", str[i], 0)]
    IN  IF Len(str) <= 1 THEN chars
        ELSE Append(chars, Node("Multiconcat", 0, Len(str) - 1))

u32strings_to_commands(strs) ==
    Fold(LAMBDA r, str : regexp1_or_regexp2(r, u32string_to_commands(str)), <<>>, strs)

-----------------------------------------------------------------------------
(* What a buffer means, independently of how it is built: the words of at   *)
(* most n letters, where Letters(com) are the letters of a leaf.            *)
Cat(A, B, n) == {w \in {a \o b : a \in A, b \in B} : Len(w) <= n}

Star(A, n) == Fold(LAMBDA S, k : S \cup Cat(S, A, n), {<<>>}, [k \in 1 .. n |-> k])

(* The words of com, where lang[i] are those of the i-th command *)
WordsOfCommand(com, lang, n, Letters(_)) ==
    LET fst == lang[com.first + 1]
        snd == lang[com.second + 1]
    IN  CASE com.name = "Or"          -> fst \cup snd
          [] com.name = "Concat"      -> Cat(fst, snd, n)
          [] com.name = "Kleene"      -> Star(fst, n)
          [] com.name = "Positive"    -> Cat(fst, Star(fst, n), n)
          [] com.name = "Optional"    -> fst \cup {<<>>}
          [] com.name = "Multior"     -> UNION {lang[j] : j \in (com.first + 1) .. (com.second + 1)}
          [] com.name = "Multiconcat" -> Fold(LAMBDA w, l : Cat(w, l, n), {<<>>},
                                                  SubSeq(lang, com.first + 1, com.second + 1))
          [] OTHER                    -> {<<l>> : l \in Letters(com)}

Language(buf, n, Letters(_)) ==
    Last(Fold(LAMBDA lang, com : Append(lang, WordsOfCommand(com, lang, n, Letters)),
                  <<>>, buf))

(* The commands that the operations over ranges take for leaves *)
InRanges(buf) == UNION {(buf[i].first + 1) .. (buf[i].second + 1) :
                        i \in {j \in DOMAIN buf : buf[j].name \in {"Multior", "Multiconcat"}}}
Strangers(buf) == {i \in InRanges(buf) : ~is_leaf(buf[i])}
=============================================================================
