---------------------------- MODULE RegexpParser ----------------------------
(***************************************************************************)
(* The SLR(1) parser of regular expressions: the driver of                 *)
(* include/lr_parser.h with the tables of src/expr_lr_tables.cpp and the   *)
(* handlers of src/slr_act_expr_parser.cpp.  An expression in braces is    *)
(* compiled into a buffer of commands.  One step is one iteration of the   *)
(* loop of compile().  Positions in the buffer count from 1.               *)
(***************************************************************************)
EXTENDS LexemeSource, SequencesExt

CONSTANTS Actions,       \* the identifiers that are names of actions
          MaxCommands    \* bound: commands after these are not stored

ASSUME MaxCommandsAssumption == MaxCommands \in Nat \ {0}

VARIABLES parser_stack,   \* states, each with the attributes of its symbol
          buf_,           \* the commands generated so far
          returned,       \* compile() has returned
          complained,     \* auxiliary: a message was printed
          path            \* auxiliary: the lexemes read before the first message

rvars == <<next, left, errors, parser_stack, buf_, returned, complained, path>>

(* lexem2terminal_map *)
Terminal ==
    [None |-> "End_of_text", Unknown |-> "End_of_text", Action |-> "a",
     Opened_round_brack |-> "LP", Closed_round_brack |-> "RP", Or |-> "b",
     Kleene_closure |-> "c", Positive_closure |-> "c", Optional_member |-> "c",
     Character |-> "d", Class_complement |-> "d", Character_class |-> "d",
     Begin_expression |-> "p", End_expression |-> "q"]

(* It has an entry for every code that the scanner of expressions returns.  *)
ASSUME TerminalAssumption == \A l \in Lexeme : l.code \in DOMAIN Terminal

t == Terminal[next.code]

States == 0 .. 17

(* rules: the left-hand side and the length *)
rules ==
    [S_is_pTq |-> [nt |-> "S", len |-> 3], T_is_TbE |-> [nt |-> "T", len |-> 3],
     T_is_E   |-> [nt |-> "T", len |-> 1], E_is_EF  |-> [nt |-> "E", len |-> 2],
     E_is_F   |-> [nt |-> "E", len |-> 1], F_is_Gc  |-> [nt |-> "F", len |-> 2],
     F_is_G   |-> [nt |-> "F", len |-> 1], G_is_Ha  |-> [nt |-> "G", len |-> 2],
     G_is_H   |-> [nt |-> "G", len |-> 1], H_is_d   |-> [nt |-> "H", len |-> 1],
     H_is_LP_T_RP |-> [nt |-> "H", len |-> 3]]

(* Mutant: the entry of E for state 10 is missing. *)
next_state_without_10(s, nt) ==
    CASE nt = "S" -> 1
      [] nt = "T" -> IF s = 9 THEN 15 ELSE 3
      [] nt = "E" -> 4
      [] nt = "F" -> IF s \in {4, 16} THEN 12 ELSE 5
      [] nt = "G" -> 6
      [] nt = "H" -> 7

(* goto_table *)
next_state(s, nt) ==
    CASE nt = "S" -> 1
      [] nt = "T" -> IF s = 9 THEN 15 ELSE 3
      [] nt = "E" -> IF s = 10 THEN 16 ELSE 4
      [] nt = "F" -> IF s \in {4, 16} THEN 12 ELSE 5
      [] nt = "G" -> 6
      [] nt = "H" -> 7

(* action_table: where a terminal is shifted, *)
shift[s \in States] ==
    CASE s = 0                 -> [p |-> 2]
      [] s \in {2, 4, 9, 10, 16} -> [d |-> 8, LP |-> 9]
      [] s = 3                 -> [b |-> 10, q |-> 11]
      [] s = 6                 -> [c |-> 13]
      [] s = 7                 -> [a |-> 14]
      [] s = 15                -> [b |-> 10, RP |-> 17]
      [] OTHER                 -> <<>>

(* and before which terminals a rule is reduced. *)
reduce_rules[s \in {4, 5, 6, 7, 8, 11, 12, 13, 14, 16, 17}] ==
    CASE s = 4  -> "T_is_E"   [] s = 5  -> "E_is_F"  [] s = 6  -> "F_is_G"
      [] s = 7  -> "G_is_H"   [] s = 8  -> "H_is_d"  [] s = 11 -> "S_is_pTq"
      [] s = 12 -> "E_is_EF"  [] s = 13 -> "F_is_Gc" [] s = 14 -> "G_is_Ha"
      [] s = 16 -> "T_is_TbE" [] s = 17 -> "H_is_LP_T_RP"

lookahead[s \in DOMAIN reduce_rules] ==
    CASE s \in {4, 16}        -> {"b", "q", "RP"}
      [] s \in {5, 6, 12, 13} -> {"b", "q", "RP", "d", "LP"}
      [] s \in {7, 14}        -> {"b", "q", "RP", "d", "LP", "c"}
      [] s \in {8, 17}        -> {"b", "q", "RP", "d", "LP", "c", "a"}
      [] s = 11               -> {"End_of_text"}

current_state == Last(parser_stack).st_num

-----------------------------------------------------------------------------
(* A message is printed (said) and n errors are counted; the lexeme is read *)
(* for good, or given back.                                                 *)
Complain(said) == complained' = (complained \/ said \/ next.bad)

Read(n, said) ==
    /\ Take(n)
    /\ Complain(said)
    /\ path' = IF complained' THEN <<>> ELSE Append(path, next)

Back(n, said) ==
    /\ GiveBack(n)
    /\ Complain(said)
    /\ path' = IF complained' THEN <<>> ELSE path

(* LR_parser::shift *)
Pushed(s, li) == Append(parser_stack, [st_num |-> s, li |-> li, begin |-> 0, end |-> 0])

Command(name, first, second) ==
    [name |-> name, first |-> first, second |-> second, action |-> 0]

CommandName ==
    [Kleene_closure |-> "Kleene", Positive_closure |-> "Positive",
     Optional_member |-> "Optional", Character |-> "Char",
     Class_complement |-> "Char_class_complement", Character_class |-> "Char_class"]

Body(r) == SubSeq(parser_stack, Len(parser_stack) - rules[r].len + 1, Len(parser_stack))
Below(r) == SubSeq(parser_stack, 1, Len(parser_stack) - rules[r].len)

(* generate_command: the buffer after the reduction by r.                   *)
Emitted(c) == IF Len(buf_) < MaxCommands THEN Append(buf_, c) ELSE buf_

(* Mutant: the last command of the group does not get the action. *)
MarkedButLast(group, act) ==
    [k \in DOMAIN buf_ |->
        IF k \in group.begin .. group.end - 1 THEN [buf_[k] EXCEPT !.action = act] ELSE buf_[k]]

(* G_is_Ha gives the action to all the commands of its operand, also to     *)
(* those that had another action before.                                    *)
Marked(group, act) ==
    [k \in DOMAIN buf_ |->
        IF k \in group.begin .. group.end THEN [buf_[k] EXCEPT !.action = act] ELSE buf_[k]]

Generated(r) ==
    LET b == Body(r)
    IN  CASE r = "T_is_TbE" -> Emitted(Command("Or", b[1].end, b[3].end))
          [] r = "E_is_EF"  -> Emitted(Command("Concat", b[1].end, b[2].end))
          [] r = "F_is_Gc"  -> Emitted(Command(CommandName[b[2].li.code], b[1].end, 0))
          [] r = "H_is_d"   -> Emitted(Command(CommandName[b[1].li.code], b[1].li.idx, 0))
          [] r = "G_is_Ha" /\ b[2].li.idx \in Actions -> Marked(b[1], b[2].li.idx)
          [] OTHER          -> buf_

(* An action that is not defined is reported and left out. *)
ActionErrors(r) ==
    IF r = "G_is_Ha" /\ Body(r)[2].li.idx \notin Actions THEN 1 ELSE 0

(* Mutant: the attributes of a parenthesis are those of its first symbol. *)
attrib_calc_bracket(r, size) ==
    LET b == Body(r)
    IN  CASE r = "H_is_d"                              -> <<size, size>>
          [] r \in {"T_is_TbE", "E_is_EF", "F_is_Gc"}  -> <<b[1].begin, size>>
          [] r = "S_is_pTq"                            -> <<b[2].begin, b[2].end>>
          [] OTHER                                     -> <<b[1].begin, b[1].end>>

(* The first and the last command of the reduced symbol, when the buffer    *)
(* has size commands.                                                       *)
attrib_calc(r, size) ==
    LET b == Body(r)
    IN  CASE r = "H_is_d"                              -> <<size, size>>
          [] r \in {"T_is_TbE", "E_is_EF", "F_is_Gc"}  -> <<b[1].begin, size>>
          [] r \in {"S_is_pTq", "H_is_LP_T_RP"}        -> <<b[2].begin, b[2].end>>
          [] OTHER                                     -> <<b[1].begin, b[1].end>>

(* reduce_without_back; the attributes have no lexeme. *)
reduce(r) ==
    LET top == Last(Below(r)).st_num
        a == attrib_calc(r, Len(Generated(r)))
    IN  /\ buf_' = Generated(r)
        /\ parser_stack' = Append(Below(r), [st_num |-> next_state(top, rules[r].nt),
                                             li |-> EndOfText, begin |-> a[1], end |-> a[2]])

-----------------------------------------------------------------------------
Shift ==
    /\ ~returned
    /\ t \in DOMAIN shift[current_state]
    /\ parser_stack' = Pushed(shift[current_state][t], next)
    /\ Read(0, FALSE)
    /\ UNCHANGED <<buf_, returned>>

(* In state 11 the handler reduces whatever follows the closing brace.      *)
Reduce ==
    /\ ~returned
    /\ current_state \in DOMAIN reduce_rules
    /\ t \in lookahead[current_state] \/ current_state = 11
    /\ LET r == reduce_rules[current_state]
       IN  reduce(r) /\ Back(ActionErrors(r), ActionErrors(r) > 0)
    /\ UNCHANGED returned

(* S is on the stack: compile() returns, whatever follows. *)
Accept ==
    /\ ~returned
    /\ current_state = 1
    /\ returned' = TRUE
    /\ Back(0, FALSE)
    /\ UNCHANGED <<parser_stack, buf_>>

(* A lexeme that a handler puts in the place of the one it has met. *)
Inserted(code) == [code |-> code, idx |-> 0, bad |-> FALSE]

state00_error_handler ==
    /\ ~returned
    /\ current_state = 0
    /\ t # "p"
    /\ parser_stack' = Pushed(2, Inserted("Begin_expression"))
    /\ IF t = "RP" THEN Read(1, TRUE) ELSE Back(1, TRUE)
    /\ UNCHANGED <<buf_, returned>>

(* Mutant: the missing operand is reported and not supplied. *)
operand_is_awaited ==
    /\ ~returned
    /\ current_state \in {2, 9, 10}
    /\ t \notin DOMAIN shift[current_state]
    /\ Back(1, TRUE)
    /\ UNCHANGED <<parser_stack, buf_, returned>>

(* Mutant: a parenthesis after the operator | is not an operand. *)
parenthesis_is_an_error ==
    /\ ~returned
    /\ current_state \in {2, 9, 10}
    /\ t \notin DOMAIN shift[current_state] \ (IF current_state = 10 THEN {"LP"} ELSE {})
    /\ parser_stack' = Pushed(8, Inserted("Character"))
    /\ Back(1, TRUE)
    /\ UNCHANGED <<buf_, returned>>

(* States 2, 9, 10: the missing operand is the character a. *)
state02_error_handler ==
    /\ ~returned
    /\ current_state \in {2, 9, 10}
    /\ t \notin DOMAIN shift[current_state]
    /\ parser_stack' = Pushed(8, Inserted("Character"))
    /\ Back(1, TRUE)
    /\ UNCHANGED <<buf_, returned>>

(* States 3 and 15: what follows is taken for another alternative. *)
state03_error_handler ==
    /\ ~returned
    /\ current_state \in {3, 15}
    /\ t \notin DOMAIN shift[current_state]
    /\ parser_stack' = Pushed(10, Inserted("Or"))
    /\ IF t = "p" THEN Read(1, TRUE) ELSE Back(1, TRUE)
    /\ UNCHANGED <<buf_, returned>>

(* States 4, 5, 12, 13, 16: a message that is not counted, and a reduction; *)
(* an opening brace is skipped.                                             *)
state04_error_handler ==
    /\ ~returned
    /\ current_state \in {4, 5, 12, 13, 16}
    /\ t \in {"a", "c", "End_of_text", "p"} \ DOMAIN shift[current_state]
    /\ reduce(reduce_rules[current_state])
    /\ IF t = "p" THEN Read(0, TRUE) ELSE Back(0, TRUE)
    /\ UNCHANGED returned

(* States 6 and 14: the same, and the lexeme is always skipped. *)
state06_error_handler ==
    /\ ~returned
    /\ current_state \in {6, 14}
    /\ t \in {"a", "p", "End_of_text"}
    /\ LET r == reduce_rules[current_state]
       IN  reduce(r) /\ Read(ActionErrors(r), TRUE)
    /\ UNCHANGED returned

(* States 7, 8, 17: the message is counted. *)
state07_error_handler ==
    /\ ~returned
    /\ current_state \in {7, 8, 17}
    /\ t \in {"p", "End_of_text"}
    /\ reduce(reduce_rules[current_state])
    /\ Read(1, TRUE)
    /\ UNCHANGED returned

Iteration ==
    \/ Shift \/ Reduce \/ Accept
    \/ state00_error_handler \/ state02_error_handler \/ state03_error_handler
    \/ state04_error_handler \/ state06_error_handler \/ state07_error_handler

Finished == returned /\ UNCHANGED rvars

(* The parsers of the sections call compile() at an opening brace or at the *)
(* end of the text.                                                         *)
Init ==
    /\ SourceInit
    /\ next.code \in {"Begin_expression", "None"}
    /\ parser_stack = <<[st_num |-> 0, li |-> EndOfText, begin |-> 0, end |-> 0]>>
    /\ buf_ = <<>>
    /\ returned = FALSE
    /\ complained = FALSE
    /\ path = <<>>

Next == Iteration \/ Finished

Spec == Init /\ [][Next]_rvars

(* The loop goes on until it returns. *)
FairSpec == Spec /\ WF_rvars(Iteration)

-----------------------------------------------------------------------------
(* The symbols on the stack when the buffer has size commands *)
StackItem(size) ==
    [st_num : States,
     li : Lexeme \cup {EndOfText}
              \cup {Inserted(c) : c \in {"Begin_expression", "Character", "Or"}},
     begin : 0 .. size, end : 0 .. size]

BufferItem ==
    [name : {"Or", "Concat"} \cup Range(CommandName), first : Nat, second : Nat,
     action : Actions \cup {0}]

TypeOK ==
    /\ SourceTypeOK
    /\ parser_stack \in Seq(StackItem(Len(buf_)))
    /\ buf_ \in Seq(BufferItem)
    /\ Len(buf_) <= MaxCommands
    /\ returned \in BOOLEAN
    /\ complained \in BOOLEAN
    /\ path \in Seq(Lexeme)

(* The grammar in the comment of src/slr_act_expr_parser.cpp, and the       *)
(* grammar symbol with which the automaton enters a state.                  *)
Right ==
    [S_is_pTq |-> <<"p", "T", "q">>, T_is_TbE |-> <<"T", "b", "E">>, T_is_E |-> <<"E">>,
     E_is_EF |-> <<"E", "F">>, E_is_F |-> <<"F">>, F_is_Gc |-> <<"G", "c">>, F_is_G |-> <<"G">>,
     G_is_Ha |-> <<"H", "a">>, G_is_H |-> <<"H">>, H_is_d |-> <<"d">>,
     H_is_LP_T_RP |-> <<"LP", "T", "RP">>]

Symbol ==
    <<"S", "p", "T", "E", "F", "G", "H", "d", "LP", "b", "q", "F", "c", "a", "T", "E", "RP">>

Nonterminals == {"S", "T", "E", "F", "G", "H"}

(* From which state each state but 0 may be entered, if the tables are      *)
(* those of the SLR automaton of the grammar.                               *)
EnteredFrom ==
    LET operand == {2, 9, 10}
        factor == operand \cup {4, 16}
    IN  <<{0}, {0}, {2}, {2, 9}, operand, factor, factor, factor, factor, {3, 15}, {3},
          {4, 16}, {6}, {7}, {9}, {10}, {15}>>

(* The stack is always a path of the automaton, even where the handlers     *)
(* have put symbols on it that are not in the text, and a state entered     *)
(* with a terminal has a lexeme of that terminal.                           *)
StackIsPath ==
    /\ parser_stack # <<>>
    /\ parser_stack[1].st_num = 0
    /\ \A k \in 2 .. Len(parser_stack) :
          /\ parser_stack[k].st_num # 0
          /\ parser_stack[k - 1].st_num \in EnteredFrom[parser_stack[k].st_num]
          /\ \/ Symbol[parser_stack[k].st_num] \in Nonterminals
             \/ Symbol[parser_stack[k].st_num] = Terminal[parser_stack[k].li.code]

(* Hence get_elems_from_top finds the right-hand side of the rule by which  *)
(* the handlers or the table reduce, and never reaches below the stack.     *)
HandleOnTop ==
    current_state \in DOMAIN reduce_rules =>
        LET r == reduce_rules[current_state]
        IN  /\ rules[r].len < Len(parser_stack)
            /\ \A k \in 1 .. rules[r].len : Symbol[Body(r)[k].st_num] = Right[r][k]

(* The stack is sound in every state, after every recovery. *)
StackRight == TypeOK /\ StackIsPath /\ HandleOnTop

(* The operands on the stack.                                               *)
Operands ==
    {k \in 2 .. Len(parser_stack) : Symbol[parser_stack[k].st_num] \in Nonterminals}

Full == Len(buf_) = MaxCommands

(* The commands of the operands on the stack follow each other without      *)
(* gaps: a range of commands that gets an action is one operand's range.    *)
OperandsTile ==
    ~Full =>
        LET before(k) == {j \in Operands : j < k}
        IN  /\ \A k \in Operands :
                  /\ parser_stack[k].begin <= parser_stack[k].end
                  /\ parser_stack[k].begin =
                        IF before(k) = {} THEN 1
                        ELSE parser_stack[Max(before(k))].end + 1
            /\ Operands # {} => parser_stack[Max(Operands)].end = Len(buf_)
            /\ Operands = {} => buf_ = <<>>

Arguments(k) ==
    CASE buf_[k].name \in {"Or", "Concat"}                    -> {buf_[k].first, buf_[k].second}
      [] buf_[k].name \in {"Kleene", "Positive", "Optional"}  -> {buf_[k].first}
      [] OTHER                                                -> {}

(* The buffer is a forest: the arguments of a command come before it, no    *)
(* command is an argument twice, and those that are no argument yet are     *)
(* the operands on the stack.  So the result, with errors or not, is one    *)
(* tree with its root at the end, as the construction of the automaton      *)
(* supposes.                                                                *)
BufferIsForest ==
    ~Full =>
        /\ \A k \in DOMAIN buf_ : Arguments(k) \subseteq 1 .. k - 1
        /\ \A k \in DOMAIN buf_ : buf_[k].name \in {"Or", "Concat"} => buf_[k].first # buf_[k].second
        /\ \A j, k \in DOMAIN buf_ : j # k => Arguments(j) \cap Arguments(k) = {}
        /\ DOMAIN buf_ \ UNION {Arguments(k) : k \in DOMAIN buf_}
              = {parser_stack[k].end : k \in Operands}

(* The attributes on the stack describe the commands in every state. *)
OperandsRight == OperandsTile /\ BufferIsForest

-----------------------------------------------------------------------------
(* The language of the grammar without the automaton: which terminals may   *)
(* follow each other, and the balance of parentheses.                       *)
Follow ==
    LET operand == {"d", "LP"}
        rest == {"b", "d", "LP", "RP", "q"}
    IN  [p |-> operand, LP |-> operand, b |-> operand, q |-> {}, c |-> rest,
         a |-> rest \cup {"c"}, d |-> rest \cup {"a", "c"}, RP |-> rest \cup {"a", "c"}]

Terminals(w) == [k \in DOMAIN w |-> Terminal[w[k].code]]

Depth(w, n) ==
    Cardinality({k \in 1 .. n : w[k] = "LP"}) - Cardinality({k \in 1 .. n : w[k] = "RP"})

Viable(w) ==
    \A k \in DOMAIN w :
        /\ w[k] # "End_of_text"
        /\ IF k = 1 THEN w[k] = "p" ELSE w[k] \in Follow[w[k - 1]]
        /\ Depth(w, k) >= 0
        /\ w[k] = "q" => Depth(w, k) = 0

(* The commands that the grammar gives to a text.  A command moves behind n *)
(* others with its arguments; the two parts of an operation stand before it. *)
Moved(c, n) ==
    CASE c.name \in {"Or", "Concat"} -> [c EXCEPT !.first = @ + n, !.second = @ + n]
      [] c.name \in {"Kleene", "Positive", "Optional"} -> [c EXCEPT !.first = @ + n]
      [] OTHER -> c

Both(name, l, r) ==
    l \o [k \in DOMAIN r |-> Moved(r[k], Len(l))] \o <<Command(name, Len(l), Len(l) + Len(r))>>

Applied(l, c) == Append(l, Command(CommandName[c], Len(l), 0))

Acting(l, act) == [k \in DOMAIN l |-> [l[k] EXCEPT !.action = act]]

(* The commands for the lexemes i .. j of w as a T, E, F, G or H, arguments *)
(* counted from the first of them, by the rules of the grammar, where f has *)
(* those of the parts; there are none if i .. j is no such phrase.          *)
Derived(w, f, nt, i, j) ==
    LET is(k, x) == Terminal[w[k].code] = x
    IN  IF i > j THEN {} ELSE
        CASE nt = "T" -> f[<<"E", i, j>>] \cup
                 UNION {{Both("Or", l, r) : l \in f[<<"T", i, k - 1>>], r \in f[<<"E", k + 1, j>>]} :
                           k \in {k \in i + 1 .. j - 1 : is(k, "b")}}
          [] nt = "E" -> f[<<"F", i, j>>] \cup
                 UNION {{Both("Concat", l, r) : l \in f[<<"E", i, k>>], r \in f[<<"F", k + 1, j>>]} :
                           k \in i .. j - 1}
          [] nt = "F" -> f[<<"G", i, j>>] \cup
                 (IF i < j /\ is(j, "c") THEN {Applied(l, w[j].code) : l \in f[<<"G", i, j - 1>>]} ELSE {})
          [] nt = "G" -> f[<<"H", i, j>>] \cup
                 (IF i < j /\ is(j, "a") THEN {Acting(l, w[j].idx) : l \in f[<<"H", i, j - 1>>]} ELSE {})
          [] nt = "H" -> IF i = j /\ is(i, "d")
                         THEN {<<Command(CommandName[w[i].code], w[i].idx, 0)>>}
                         ELSE IF i + 1 < j /\ is(i, "LP") /\ is(j, "RP")
                         THEN f[<<"T", i + 1, j - 1>>] ELSE {}

Parts(w) == {"T", "E", "F", "G", "H"} \X (1 .. Len(w)) \X (1 .. Len(w))

Derivations(w) ==
    LET f[x \in Parts(w)] == Derived(w, f, x[1], x[2], x[3]) IN f

Phrases(w) == Derivations(w)[<<"T", 2, Len(w) - 1>>]

(* A text that is accepted without a message is a phrase of the grammar up  *)
(* to its closing brace, and the buffer is what the grammar makes of it,    *)
(* unless it met its bound.                                                 *)
QuietMeansRight ==
    returned /\ ~complained /\ ~Full =>
        /\ Viable(Terminals(path))
        /\ Last(path).code = "End_expression"
        /\ Phrases(path) = {buf_}

(* The first message comes at the first lexeme that cannot continue any     *)
(* phrase, at an unknown one, or one after an action that is not defined.   *)
MessagesAreRight ==
    [][~complained /\ complained' =>
          \/ ~ Viable(Terminals(Append(path, next)))
          \/ Last(path).code = "Action" /\ Last(path).idx \notin Actions]_rvars

(* The parser does not get past the end of the text, nor past a closing     *)
(* parenthesis that closes nothing, nor past a closing brace within         *)
(* parentheses.                                                             *)
Stuck ==
    LET open == \E k \in DOMAIN parser_stack : parser_stack[k].st_num = 9
    IN  /\ ~returned
        /\ \/ next = EndOfText
           \/ t = "RP" /\ ~open
           \/ t = "q" /\ open

(* Otherwise it returns, whatever the handlers do. *)
ReturnsOrIsStuck == <>returned \/ <>[]Stuck

=============================================================================
