------------------------------ MODULE Automata ------------------------------
(***************************************************************************)
(* The algorithms that lead from commands to an automaton with grouped     *)
(* transitions (ndfa.cpp, dfa.cpp, minimal_dfa.cpp,                        *)
(* groupped_dfa_by_regexp.cpp) and run it over a string (match.cpp).       *)
(* States are numbered from 0 on; the transitions of state i are           *)
(* jumps[i + 1].                                                           *)
(***************************************************************************)
EXTENDS Commands

CONSTANT Sets     \* the sets of characters, a function of their indices

-----------------------------------------------------------------------------
(* The nondeterministic automaton: from symbols to sets of states and an    *)
(* action.  An automaton within another one is numbered from first on.      *)
To(states, a) == [states |-> states, action |-> a]

command2symbol(com) ==
    << CASE com.name = "Char" -> Char
         [] com.name = "Char_class" -> Char_class
         [] com.name = "Char_class_complement" -> Class_complement, com.first >>

join_actions(a1, a2) == IF a1 # 0 THEN a1 ELSE a2

add_state_jumps(sj, c, added) ==
    IF c \in DOMAIN sj
    THEN [sj EXCEPT ![c] = To(@.states \cup added.states, join_actions(@.action, added.action))]
    ELSE (c :> added) @@ sj

AddToLast(jumps, c, added) == Append(Front(jumps), add_state_jumps(Last(jumps), c, added))

Automaton(jumps, first) == [jumps |-> jumps, begin |-> first, final |-> first + Len(jumps) - 1]

leaf_builder(symb, com, first) ==
    Automaton(<<symb :> To({first + 1}, com.action), <<>>>>, first)

or_builder(a1, a2, first) ==
    LET last == To({a2.final + 1}, 0)
    IN  Automaton(<<eps :> To({a1.begin, a2.begin}, 0)>> \o AddToLast(a1.jumps, eps, last)
                  \o AddToLast(a2.jumps, eps, last) \o <<<<>>>>, first)

(* The final state of a1 and the initial state of a2 become one. *)
concat_builder(a1, a2, first) ==
    LET glued == Fold(LAMBDA sj, c : add_state_jumps(sj, c, a2.jumps[1][c]), Last(a1.jumps),
                          SetToSortSeq(DOMAIN a2.jumps[1], SymbolLess))
    IN  Automaton(Front(a1.jumps) \o <<glued>> \o Tail(a2.jumps), first)

kleene_builder(a, first) ==
    LET on == To({a.begin, a.final + 1}, 0)
    IN  Automaton(<<eps :> on>> \o AddToLast(a.jumps, eps, on) \o <<<<>>>>, first)

(* Mutant: the second copy is not repeated. *)
positive_builder_twice(a1, first) ==
    LET n     == Len(a1.jumps)
        moved == [i \in 1 .. n |->
                    [c \in DOMAIN a1.jumps[i] |->
                        To({s + n : s \in a1.jumps[i][c].states}, a1.jumps[i][c].action)]]
        on    == To({a1.begin + n, a1.final + n + 1}, 0)
        end   == To({a1.final + n + 1}, 0)
    IN  Automaton(AddToLast(a1.jumps, eps, on) \o AddToLast(moved, eps, end) \o <<<<>>>>, first)

positive_builder(a1, first) ==
    LET n     == Len(a1.jumps)
        moved == [i \in 1 .. n |->
                    [c \in DOMAIN a1.jumps[i] |->
                        To({s + n : s \in a1.jumps[i][c].states}, a1.jumps[i][c].action)]]
        on    == To({a1.begin + n, a1.final + n + 1}, 0)
    IN  Automaton(AddToLast(a1.jumps, eps, on) \o AddToLast(moved, eps, on) \o <<<<>>>>, first)

optional_builder(a, first) ==
    LET end == To({a.final + 3}, 0)
    IN  Automaton(<<eps :> To({first + 1, a.final + 1}, 0)>> \o AddToLast(a.jumps, eps, end)
                  \o <<eps :> To({a.final + 2}, 0), eps :> end, <<>>>>, first)

multior_builder(symbs, coms, first) ==
    LET n == Len(coms)
    IN  Automaton(<<eps :> To((first + 1) .. (first + n), 0)>>
                  \o [i \in 1 .. n |-> symbs[i] :> To({first + n + i}, coms[i].action)]
                  \o [i \in 1 .. n |-> eps :> To({first + 2 * n + 1}, 0)] \o <<<<>>>>, first)

multiconcat_builder(symbs, coms, first) ==
    Automaton([i \in 1 .. Len(coms) |-> symbs[i] :> To({first + i}, coms[i].action)]
              \o <<<<>>>>, first)

(* garbage: the symbols of the commands in ranges that are no leaves *)
RECURSIVE generate_NDFA_for_command(_, _, _, _)
generate_NDFA_for_command(b, i, first, garbage) ==
    LET com       == b[i + 1]
        Operand(j, n) == generate_NDFA_for_command(b, j, n, garbage)
        symbol(j) == IF j \in DOMAIN garbage THEN garbage[j] ELSE command2symbol(b[j])
        coms      == SubSeq(b, com.first + 1, com.second + 1)
        symbs     == [k \in DOMAIN coms |-> symbol(com.first + k)]
    IN  CASE com.name = "Or" ->
                 With(Operand(com.first, first + 1), LAMBDA a1 :
                 With(Operand(com.second, a1.final + 1), LAMBDA a2 : or_builder(a1, a2, first)))
          [] com.name = "Concat" ->
                 With(Operand(com.first, first), LAMBDA a1 :
                 With(Operand(com.second, a1.final), LAMBDA a2 : concat_builder(a1, a2, first)))
          [] com.name = "Kleene" ->
                 With(Operand(com.first, first + 1), LAMBDA a : kleene_builder(a, first))
          [] com.name = "Positive" ->
                 With(Operand(com.first, first), LAMBDA a : positive_builder(a, first))
          [] com.name = "Optional" ->
                 With(Operand(com.first, first + 1), LAMBDA a : optional_builder(a, first))
          [] com.name = "Multior"     -> multior_builder(symbs, coms, first)
          [] com.name = "Multiconcat" -> multiconcat_builder(symbs, coms, first)
          [] OTHER                    -> leaf_builder(command2symbol(com), com, first)

build_NDFA(b, garbage) == generate_NDFA_for_command(b, Len(b) - 1, 0, garbage)
-----------------------------------------------------------------------------
(* The deterministic automaton *)
expand_symbol(symb) ==
    IF symb[1] = Char_class THEN {<<Char, c>> : c \in Sets[symb[2]]} ELSE {symb}

(* A set of characters stands for each of its characters; the symbols come  *)
(* in their order, and the first action that is not 0 stays.                *)
expand_state_jumps(jumps) ==
    Fold(LAMBDA r, symb : Fold(LAMBDA q, s : add_state_jumps(q, s, jumps[symb]), r,
                                       SetToSortSeq(expand_symbol(symb), SymbolLess)),
             <<>>, SetToSortSeq(DOMAIN jumps, SymbolLess))

Expanded(a) == [a EXCEPT !.jumps = [i \in DOMAIN a.jumps |-> expand_state_jumps(a.jumps[i])]]

Jumps(a, st) == a.jumps[st + 1]

epsilon_closure(a, states) ==
    Fold(LAMBDA s, j : s \cup UNION {Jumps(a, st)[eps].states :
                                         st \in {x \in s : eps \in DOMAIN Jumps(a, x)}},
             states, a.jumps)

jump_chars_set(a, states) == UNION {DOMAIN Jumps(a, st) : st \in states} \ {eps}

On(a, states, gc) == {st \in states : gc \in DOMAIN Jumps(a, st)}

move(a, states, gc) == UNION {Jumps(a, st)[gc].states : st \in On(a, states, gc)}

action_for_dfa_jump(a, states, gc) ==
    LET acting == {st \in On(a, states, gc) : Jumps(a, st)[gc].action # 0}
    IN  IF acting = {} THEN 0 ELSE Jumps(a, Min(acting))[gc].action

(* One symbol of an unmarked set t of states.  The DFA keeps the expanded   *)
(* automaton it is made from, and the sets of its states by their numbers.  *)
MarkSymbol(d, t, gc) ==
    LET a     == d.expanded
        act   == action_for_dfa_jump(a, t, gc)
        with(st) == [d EXCEPT !.jumps = (<<d.numbers[t], gc>> :> [st |-> st, action |-> act]) @@ @]
        Marked(u) ==
            CASE u = {} -> d
              [] u \in DOMAIN d.numbers -> with(d.numbers[u])
              [] OTHER ->
                     LET st == Cardinality(DOMAIN d.numbers)
                     IN  [with(st) EXCEPT
                             !.finals   = IF a.final \in u THEN @ \cup {st} ELSE @,
                             !.numbers  = (u :> st) @@ @,
                             !.unmarked = Append(@, u)]
    IN  With(epsilon_closure(a, move(a, t, gc)), Marked)

BeginDFA(a) ==
    LET begin == epsilon_closure(a, {a.begin})
    IN  [expanded |-> a, jumps |-> <<>>, finals |-> IF a.final \in begin THEN {0} ELSE {},
         numbers |-> begin :> 0, unmarked |-> <<begin>>]

(* Mutant: the state that is marked stays on the stack. *)
MarkStateOnTop(d) ==
    LET t == Last(d.unmarked)
    IN  Fold(LAMBDA e, gc : MarkSymbol(e, t, gc), d,
             SetToSortSeq(jump_chars_set(d.expanded, t), SymbolLess))

MarkState(d) ==
    LET t == Last(d.unmarked)
    IN  Fold(LAMBDA e, gc : MarkSymbol(e, t, gc), [d EXCEPT !.unmarked = Front(@)],
                 SetToSortSeq(jump_chars_set(d.expanded, t), SymbolLess))
-----------------------------------------------------------------------------
(* The automaton with the fewest states *)
States(d) == 0 .. Cardinality(DOMAIN d.numbers) - 1

convert_jumps(d) ==
    [i \in 1 .. Cardinality(States(d)) |->
        [gc \in {p[2] : p \in {q \in DOMAIN d.jumps : q[1] = i - 1}} |-> d.jumps[<<i - 1, gc>>]]]

build_initial_partition(d) ==
    IF States(d) = d.finals THEN <<d.finals>> ELSE <<d.finals, States(d) \ d.finals>>

(* The number of the group of a state; group 0 is the fictitious one *)
GroupOf(p, st) == CHOOSE i \in DOMAIN p : st \in p[i]

(* Mutant: states, not their groups, are compared. *)
GroupByState(p, j, st, gc) == IF gc \in DOMAIN j[st + 1] THEN j[st + 1][gc].st + 1 ELSE 0

GroupBy(p, j, st, gc) ==
    IF gc \in DOMAIN j[st + 1] THEN GroupOf(p, j[st + 1][gc].st) ELSE 0

split_group_by_gc(p, j, g, gc) ==
    LET into == SetToSortSeq({GroupBy(p, j, st, gc) : st \in g}, <)
    IN  [k \in DOMAIN into |-> {st \in g : GroupBy(p, j, st, gc) = into[k]}]

split_group(p, j, g) ==
    Fold(LAMBDA parts, gc :
                 FlattenSeq([k \in DOMAIN parts |-> split_group_by_gc(p, j, parts[k], gc)]),
             <<g>>, SetToSortSeq(UNION {DOMAIN j[st + 1] : st \in g}, SymbolLess))

split_partition(p, j) == FlattenSeq([k \in DOMAIN p |-> split_group(p, j, p[k])])

(* Mutant: the action of the first state of the group only. *)
action_for_first(j, g, gc) == IF gc \in DOMAIN j[Min(g) + 1] THEN j[Min(g) + 1][gc].action ELSE 0

action_for_group(j, g, gc) ==
    LET acting == {st \in g : gc \in DOMAIN j[st + 1] /\ j[st + 1][gc].action # 0}
    IN  IF acting = {} THEN 0 ELSE j[Min(acting) + 1][gc].action

(* *(eq_class.begin()) of the group of final states, were it empty, reads   *)
(* the number of its elements.                                              *)
Representative(g) == IF g = {} THEN 0 ELSE Min(g)

minimal_DFA_jumps(p, j) ==
    [k \in DOMAIN p |->
        LET of == j[Representative(p[k]) + 1]
        IN  [gc \in DOMAIN of |-> [st     |-> GroupOf(p, of[gc].st) - 1,
                                   action |-> action_for_group(j, p[k], gc)]]]

(* The group of the initial state becomes state 0, those before it move up. *)
Reorder(b, st) == CASE st = b -> 0 [] st < b -> st + 1 [] OTHER -> st

minimize_DFA(p, d) ==
    LET b      == GroupOf(p, 0) - 1
        old(k) == CHOOSE i \in DOMAIN p : Reorder(b, i - 1) = k - 1
    IN  [jumps  |-> With(minimal_DFA_jumps(p, convert_jumps(d)), LAMBDA jumps :
                        [k \in DOMAIN p |->
                            [gc \in DOMAIN jumps[old(k)] |->
                                [jumps[old(k)][gc] EXCEPT !.st = Reorder(b, @)]]]),
         finals |-> {Reorder(b, k - 1) : k \in {i \in DOMAIN p : p[i] \cap d.finals # {}}}]
-----------------------------------------------------------------------------
(* Transitions of a state with one target and one action become one, for    *)
(* the sum of their categories; a map holds them, by their categories.      *)
TargetLess(x, y) == x.st < y.st \/ (x.st = y.st /\ x.action < y.action)

SumFor(sj, target) ==
    LET symbs == SetToSortSeq({gc \in DOMAIN sj : sj[gc] = target}, SymbolLess)
    IN  Fold(LAMBDA c, gc : Plus(c, symbol2category(gc, Sets)),
                 symbol2category(symbs[1], Sets), symbs)

fuse_state_jumps(sj) ==
    Fold(LAMBDA g, target : (SumFor(sj, target) :> target) @@ g, <<>>,
             SetToSortSeq({sj[gc] : gc \in DOMAIN sj}, TargetLess))

fuse_DFA_jumps(m) == [m EXCEPT !.jumps = [k \in DOMAIN m.jumps |-> fuse_state_jumps(m.jumps[k])]]

(* The first of the categories, in their order, that c belongs to *)
Fitting(g, st, c) == {cat \in DOMAIN Jumps(g, st) : is_category_elem(c, cat)}
Chosen(g, st, c) ==
    CHOOSE cat \in Fitting(g, st, c) : \A o \in Fitting(g, st, c) : ~CategoryLess(o, cat)
Next_st(g, st, c) == Jumps(g, st)[Chosen(g, st, c)].st

(* The states met while str is read, up to the first missing transition *)
Run(g, str) ==
    Fold(LAMBDA r, i : IF Len(r) < i \/ Fitting(g, Last(r), str[i]) = {} THEN r
                           ELSE Append(r, Next_st(g, Last(r), str[i])),
             <<0>>, [i \in DOMAIN str |-> i])

(* Mutant: a missing transition does not end the matching. *)
match_to_the_last_known(g, str) == Last(Run(g, str)) \in g.finals

(* A missing transition ends the matching unless it is that of the last     *)
(* character.                                                               *)
match(g, str) == /\ Len(Run(g, str)) >= Len(str)
                 /\ Last(Run(g, str)) \in g.finals

last_jump_category(g, str) ==
    Fold(Plus, EmptyCategory, SetToSortSeq(DOMAIN Jumps(g, Last(Run(g, str))), CategoryLess))
=============================================================================
