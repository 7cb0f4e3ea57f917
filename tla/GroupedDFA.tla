----------------------------- MODULE GroupedDFA -----------------------------
(***************************************************************************)
(* grouped_DFA_by_regexp: the commands of an expression are fused, turned  *)
(* into a nondeterministic automaton, a deterministic one, the one with    *)
(* the fewest states, and one with grouped transitions; then strings are   *)
(* matched with it (regexp_match.h).  A stage is an action; so is one turn *)
(* of the loops over the unmarked states and over the partitions.          *)
(***************************************************************************)
EXTENDS Automata, FuseCommands

CONSTANTS
    Buffers,     \* the commands of the expressions
    Strings,     \* the strings that are matched, sequences of characters
    AnySymbol,   \* what an uninitialized symbol may hold
    MaxWord      \* bound: the length of the words that are compared

VARIABLES
    stage,       \* "commands", "fused", "ndfa", "dfa", "groups", "minimal", "grouped"
    buf,         \* the commands
    fused,       \* the fused commands
    ndfa,        \* [jumps, begin, final]
    dfa,         \* [expanded, jumps, finals, numbers, unmarked]
    partition,   \* the groups of states of the DFA, a sequence of sets
    minimal,     \* [jumps, finals]; it begins in state 0
    grouped,     \* [jumps, finals]; it begins in state 0
    answer       \* the last answer

vars == <<stage, buf, fused, ndfa, dfa, partition, minimal, grouped, answer>>

None == [jumps |-> <<>>]
NoAnswer == [asked |-> FALSE, str |-> <<>>, matches |-> FALSE, after |-> EmptyCategory]

Init ==
    /\ stage = "commands"
    /\ buf \in Buffers
    /\ fused = <<>> /\ ndfa = None /\ dfa = None /\ partition = <<>>
    /\ minimal = None /\ grouped = None /\ answer = NoAnswer

Fuse ==
    /\ stage = "commands" /\ stage' = "fused"
    /\ fused' = fuse_commands(buf)
    /\ UNCHANGED <<buf, ndfa, dfa, partition, minimal, grouped, answer>>

BuildNDFA ==
    /\ stage = "fused" /\ stage' = "ndfa"
    /\ \E garbage \in [Strangers(fused) -> AnySymbol] : ndfa' = build_NDFA(fused, garbage)
    /\ UNCHANGED <<buf, fused, dfa, partition, minimal, grouped, answer>>

BeginConversion ==
    /\ stage = "ndfa" /\ stage' = "dfa"
    /\ \E a \in {Expanded(ndfa)} : dfa' = BeginDFA(a)
    /\ UNCHANGED <<buf, fused, ndfa, partition, minimal, grouped, answer>>

Mark ==
    /\ stage = "dfa" /\ dfa.unmarked # <<>>
    /\ dfa' = MarkState(dfa)
    /\ UNCHANGED <<stage, buf, fused, ndfa, partition, minimal, grouped, answer>>

BeginMinimization ==
    /\ stage = "dfa" /\ dfa.unmarked = <<>> /\ stage' = "groups"
    /\ partition' = build_initial_partition(dfa)
    /\ UNCHANGED <<buf, fused, ndfa, dfa, minimal, grouped, answer>>

Split ==
    /\ stage = "groups"
    /\ partition' = split_partition(partition, convert_jumps(dfa))
    /\ IF partition' # partition
       THEN UNCHANGED <<stage, minimal>>
       ELSE /\ stage' = "minimal"
            /\ minimal' = minimize_DFA(partition, dfa)
    /\ UNCHANGED <<buf, fused, ndfa, dfa, grouped, answer>>

Group ==
    /\ stage = "minimal" /\ stage' = "grouped"
    /\ grouped' = fuse_DFA_jumps(minimal)
    /\ UNCHANGED <<buf, fused, ndfa, dfa, partition, minimal, answer>>

Match(str) ==
    /\ stage = "grouped"
    /\ answer' = [asked |-> TRUE, str |-> str, matches |-> match(grouped, str),
                  after |-> last_jump_category(grouped, str)]
    /\ UNCHANGED <<stage, buf, fused, ndfa, dfa, partition, minimal, grouped>>

Build == \/ Fuse \/ BuildNDFA \/ BeginConversion \/ Mark
         \/ BeginMinimization \/ Split \/ Group

Next == Build \/ \E str \in Strings : Match(str)

Spec == Init /\ [][Next]_vars /\ WF_vars(Build)
-----------------------------------------------------------------------------
TargetsExist(a) == \A i \in DOMAIN a.jumps : \A c \in DOMAIN a.jumps[i] :
                       a.jumps[i][c].st + 1 \in DOMAIN a.jumps

(* States and groups are numbered without gaps, targets exist. *)
TypeOK ==
    /\ ndfa # None => /\ Len(ndfa.jumps) = ndfa.final + 1
                      /\ \A i \in DOMAIN ndfa.jumps : \A c \in DOMAIN ndfa.jumps[i] :
                             ndfa.jumps[i][c].states \subseteq 0 .. ndfa.final
    /\ dfa # None => /\ {dfa.numbers[s] : s \in DOMAIN dfa.numbers} = States(dfa)
                     /\ dfa.finals \subseteq States(dfa)
    /\ partition # <<>> => UNION ToSet(partition) = States(dfa)
    /\ TargetsExist(minimal) /\ TargetsExist(grouped)

(* The letters of a leaf, and the words of at most MaxWord letters *)
Letters(com) == expand_symbol(command2symbol(com))
WordsOf(b) == Language(b, MaxWord, Letters)

(* The words that a nondeterministic automaton accepts, and those that a    *)
(* deterministic one accepts from each of its states (indexed from 1 on)    *)
Accepted(a, n) ==
    LET longer(read, k) ==
            read \cup UNION {{<<Append(r[1], gc), epsilon_closure(a, move(a, r[2], gc))>> :
                              gc \in jump_chars_set(a, r[2])} : r \in {x \in read : Len(x[1]) = k - 1}}
        read == Fold(longer, {<< <<>>, epsilon_closure(a, {a.begin}) >>}, [k \in 1 .. n |-> k])
    IN  {r[1] : r \in {x \in read : a.final \in x[2]}}

WordsFrom(m, n) ==
    LET longer(from, k) ==
            [q \in DOMAIN m.jumps |->
                (IF q - 1 \in m.finals THEN {<<>>} ELSE {})
                \cup UNION {{<<gc>> \o w : w \in from[m.jumps[q][gc].st + 1]} :
                            gc \in DOMAIN m.jumps[q]}]
    IN  Fold(longer, [q \in DOMAIN m.jumps |-> {}], [k \in 1 .. n + 1 |-> k])

(* An operation over leaves that is the right operand of the same one *)
Same == [Or |-> {"Or", "Multior"}, Concat |-> {"Concat", "Multiconcat"}]
RightNested(b) == \E i \in DOMAIN b : /\ b[i].name \in DOMAIN Same
                                      /\ b[b[i].second + 1].name \in Same[b[i].name]

LongRange(b) == \E i \in DOMAIN b : b[i].name = "Multiconcat" /\ b[i].second > b[i].first + 1

(* Fusing keeps the words of an expression.  What it does not keep: all but *)
(* the ends of a range of more than two commands, such as the letters of a  *)
(* keyword (u32string_to_commands.cpp:28 writes the range, fuse_concat      *)
(* takes its ends for two operands); and, where an operation is the right   *)
(* operand of the same one, a range may come to hold a command that is no   *)
(* leaf (fuse_commands.cpp:124, :193), whose symbol is uninitialized.       *)
FusedRight ==
    stage = "fused" =>
        \/ LongRange(buf)
        \/ RightNested(buf) /\ Strangers(fused) # {}
        \/ Strangers(fused) = {} /\ WordsOf(fused) = WordsOf(buf)

(* The nondeterministic automaton accepts the words of the fused commands   *)
(* (the builders of ndfa.cpp, which number the states of the parts).        *)
NDFARight ==
    /\ TypeOK
    /\ stage = "ndfa" /\ Strangers(fused) = {} =>
          \A a \in {Expanded(ndfa)} : Accepted(a, MaxWord) = WordsOf(fused)

(* No two states of the minimized automaton accept the same words, so that  *)
(* no state is left over in the generated scanner (minimal_dfa.cpp:226).    *)
MinimalIsMinimal ==
    stage = "minimal" /\ minimal.finals # {} =>
        IsInjective(WordsFrom(minimal, Len(minimal.jumps)))

(* From making the automaton deterministic to leaving one state of each     *)
(* group, and to numbering the initial state 0, the words stay, and the     *)
(* result is minimal.                                                       *)
MinimalRight ==
    /\ MinimalIsMinimal
    /\ stage = "minimal" /\ Strangers(fused) = {} =>
          WordsFrom(minimal, MaxWord)[1] = WordsOf(fused)

(* States that accept the same words become one even if they do different   *)
(* things: minimal_dfa.cpp splits groups by targets and not by actions.     *)
MergedDisagree ==
    \E g \in ToSet(partition) : \E s1, s2 \in g : \E gc \in {p[2] : p \in DOMAIN dfa.jumps} :
        /\ {<<s1, gc>>, <<s2, gc>>} \subseteq DOMAIN dfa.jumps
        /\ dfa.jumps[<<s1, gc>>].action # dfa.jumps[<<s2, gc>>].action

(* Wherever the expression asks for an action, after any word, the          *)
(* minimized automaton does one, and it is one that is asked for there,     *)
(* unless states with different actions were merged (action_for_dfa_jump,   *)
(* action_for_group).                                                       *)
ActsAsWritten(a, states, q) ==
    \A gc \in jump_chars_set(a, states) :
        LET written == {Jumps(a, st)[gc].action : st \in On(a, states, gc)} \ {0}
            done    == Jumps(minimal, q)[gc].action
        IN  /\ written # {} => done # 0
            /\ done # 0 => done \in written \/ MergedDisagree

ActionsAsWritten ==
    stage = "minimal" /\ Strangers(fused) = {} =>
        \A a \in {dfa.expanded} :
            LET more(met, k) ==
                    met \cup UNION {{<<epsilon_closure(a, move(a, p[1], gc)), Jumps(minimal, p[2])[gc].st>> :
                                     gc \in jump_chars_set(a, p[1])} : p \in met}
            IN  \A p \in Fold(more, {<<epsilon_closure(a, {a.begin}), 0>>},
                                   [k \in 1 .. MaxWord |-> k]) :
                    ActsAsWritten(a, p[1], p[2])

Universe == UNION {ToSet(str) : str \in Strings}

(* The transitions of a state of the minimized automaton that a character   *)
(* allows: several, where a complement overlaps another symbol              *)
Allowed(st, c) ==
    {Jumps(minimal, st)[gc] :
        gc \in {x \in DOMAIN Jumps(minimal, st) : is_category_elem(c, symbol2category(x, Sets))}}

Determinate == \A i \in DOMAIN minimal.jumps : \A c \in Universe :
                   Cardinality(Allowed(i - 1, c)) <= 1

(* The grouped transitions offer a character exactly where the minimized    *)
(* automaton does, and lead where one of its transitions leads, with the    *)
(* action of that transition (groupped_dfa_by_regexp.cpp:28-66).            *)
GroupedRight ==
    stage = "grouped" /\ ~answer.asked =>
        \A i \in DOMAIN grouped.jumps : \A c \in Universe :
            IF Allowed(i - 1, c) = {} THEN Fitting(grouped, i - 1, c) = {}
            ELSE /\ Fitting(grouped, i - 1, c) # {}
                 /\ Jumps(grouped, i - 1)[Chosen(grouped, i - 1, c)] \in Allowed(i - 1, c)

(* Together: what the generated automaton does at a character is what the   *)
(* expression asks for there.                                               *)
ActionsRight == ActionsAsWritten /\ GroupedRight

(* The states of the nondeterministic automaton after a string *)
After(str) ==
    Fold(LAMBDA states, c :
                 epsilon_closure(ndfa,
                     UNION {UNION {Jumps(ndfa, st)[gc].states :
                                   gc \in {x \in DOMAIN Jumps(ndfa, st) \ {eps} :
                                            is_category_elem(c, symbol2category(x, Sets))}}
                            : st \in states}),
             epsilon_closure(ndfa, {ndfa.begin}), str)

(* A string that is said to match is a word of the expression, or becomes   *)
(* one without its last character, whose missing transition is ignored      *)
(* (match.cpp:70).  Where no character allows two transitions, all words    *)
(* match, and the last character is ignored just when nothing begins with   *)
(* the string.                                                              *)
MatchesAreWords ==
    answer.asked /\ Strangers(fused) = {} =>
        LET str      == answer.str
            word     == ndfa.final \in After(str)
            shorter  == str # <<>> /\ ndfa.final \in After(Front(str))
        IN  /\ answer.matches => word \/ shorter
            /\ Determinate => (answer.matches <=> word \/ (shorter /\ After(str) = {}))

(* What may follow a beginning of a word (the characters that continue a    *)
(* keyword as an identifier, id_with_keyw_builder.cpp:484) is what          *)
(* last_jump_category answers.                                              *)
FollowersRight ==
    answer.asked /\ Strangers(fused) = {} /\ Determinate /\ After(answer.str) # {} =>
        \A c \in Universe :
            is_category_elem(c, answer.after) <=> After(Append(answer.str, c)) # {}

(* Both questions that are asked of an automaton are answered right. *)
MatchRight == MatchesAreWords /\ FollowersRight

(* The loops over unmarked states and over partitions end.                  *)
IsBuilt == <>(stage = "grouped")

=============================================================================
