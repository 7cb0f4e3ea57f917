---------------------------- MODULE RegexpProofs ----------------------------
(***************************************************************************)
(* The stack of the parser of regular expressions is sound in every state, *)
(* whatever the text is and whatever the handlers of errors put on it, and *)
(* its operands are the trees of the buffer of commands; its first message *)
(* comes where the text stops being the beginning of a phrase; and of a    *)
(* text without messages the buffer is what the grammar makes of it.       *)
(***************************************************************************)
EXTENDS RegexpParser, SequenceTheorems, FiniteSetTheorems, WellFoundedInduction, TLAPS

(* The tables about the states, written out *)
LEMMA EnteredTable ==
    /\ EnteredFrom[1] = {0} /\ EnteredFrom[2] = {0} /\ EnteredFrom[3] = {2}
    /\ EnteredFrom[4] = {2, 9} /\ EnteredFrom[5] = {2, 9, 10}
    /\ \A s \in {6, 7, 8, 9} : EnteredFrom[s] = {2, 9, 10, 4, 16}
    /\ EnteredFrom[10] = {3, 15} /\ EnteredFrom[11] = {3} /\ EnteredFrom[12] = {4, 16}
    /\ EnteredFrom[13] = {6} /\ EnteredFrom[14] = {7} /\ EnteredFrom[15] = {9}
    /\ EnteredFrom[16] = {10} /\ EnteredFrom[17] = {15}
<1> DEFINE e == EnteredFrom
<1>1. \A s \in {6, 7, 8, 9} : EnteredFrom[s] = {2, 9, 10, 4, 16}
  <2>1. /\ EnteredFrom[6] = {2, 9, 10, 4, 16} /\ EnteredFrom[7] = {2, 9, 10, 4, 16}
        /\ EnteredFrom[8] = {2, 9, 10, 4, 16} /\ EnteredFrom[9] = {2, 9, 10, 4, 16}
    BY DEF EnteredFrom
  <2> QED
    BY <2>1
<1> QED
  BY <1>1 DEF EnteredFrom

(* The symbols with which the states are entered *)
LEMMA SymbolTable ==
    /\ Symbol[1] = "S" /\ Symbol[2] = "p" /\ Symbol[3] = "T" /\ Symbol[4] = "E"
    /\ Symbol[5] = "F" /\ Symbol[6] = "G" /\ Symbol[7] = "H" /\ Symbol[8] = "d"
    /\ Symbol[9] = "LP" /\ Symbol[10] = "b" /\ Symbol[11] = "q" /\ Symbol[12] = "F"
    /\ Symbol[13] = "c" /\ Symbol[14] = "a" /\ Symbol[15] = "T" /\ Symbol[16] = "E"
    /\ Symbol[17] = "RP"
BY DEF Symbol

(* The states that a terminal leads to are entered with it, from where it   *)
(* is shifted; and nothing is shifted at the end of the text.               *)
LEMMA ShiftEnters ==
    ASSUME NEW s \in States, NEW c \in DOMAIN shift[s]
    PROVE  /\ shift[s][c] \in States \ {0}
           /\ s \in EnteredFrom[shift[s][c]]
           /\ Symbol[shift[s][c]] = c
           /\ c # "End_of_text" /\ c \notin Nonterminals
<1>1. CASE s = 0
  BY <1>1 DEF shift, States, EnteredFrom, Symbol, Nonterminals
<1>2. CASE s \in {2, 4, 9, 10, 16}
  BY <1>2 DEF shift, States, EnteredFrom, Symbol, Nonterminals
<1>3. CASE s = 3
  BY <1>3 DEF shift, States, EnteredFrom, Symbol, Nonterminals
<1>4. CASE s = 6
  BY <1>4 DEF shift, States, EnteredFrom, Symbol, Nonterminals
<1>5. CASE s = 7
  BY <1>5 DEF shift, States, EnteredFrom, Symbol, Nonterminals
<1>6. CASE s = 15
  BY <1>6 DEF shift, States, EnteredFrom, Symbol, Nonterminals
<1>7. CASE s \notin {0, 2, 3, 4, 6, 7, 9, 10, 15, 16}
  BY <1>7 DEF shift, States
<1> QED
  BY <1>1, <1>2, <1>3, <1>4, <1>5, <1>6, <1>7

-----------------------------------------------------------------------------
(* The state n - k + 1 of a stack of n states, counted from the top *)
FromTop(k) == parser_stack[Len(parser_stack) - k + 1].st_num

(* A state that is not the first was entered from the one below it. *)
LEMMA Below1 ==
    ASSUME TypeOK, StackIsPath, NEW k \in 1 .. Len(parser_stack), FromTop(k) # 0
    PROVE  /\ k + 1 \in 1 .. Len(parser_stack)
           /\ FromTop(k) \in States \ {0}
           /\ FromTop(k + 1) \in EnteredFrom[FromTop(k)]
<1> DEFINE n == Len(parser_stack)
           i == n - k + 1
<1>1. /\ n \in Nat /\ i \in 1 .. n
      /\ \A j \in 1 .. n : parser_stack[j].st_num \in States
  <2>1. n \in Nat /\ \A j \in 1 .. n : parser_stack[j] \in StackItem(Len(buf_))
    BY DEF TypeOK
  <2>2. \A j \in 1 .. n : parser_stack[j].st_num \in States
    BY <2>1 DEF StackItem
  <2> QED
    BY <2>1, <2>2
<1>2. i # 1
  BY DEF FromTop, StackIsPath
<1>3. i \in 2 .. n /\ k + 1 \in 1 .. n /\ n - (k + 1) + 1 = i - 1
  BY <1>1, <1>2
<1>4. parser_stack[i - 1].st_num \in EnteredFrom[parser_stack[i].st_num]
  BY <1>3 DEF StackIsPath
<1>5. FromTop(k) = parser_stack[i].st_num /\ FromTop(k + 1) = parser_stack[i - 1].st_num
  BY <1>3, Zenon DEF FromTop
<1> QED
  BY <1>1, <1>3, <1>4, <1>5

(* The right-hand side of the rule of the state on top is on the stack,     *)
(* there is a state below it, and the left-hand side leads from there to a  *)
(* state that is entered with it.                                           *)
HandleFits(r) ==
    LET len == rules[r].len
        below == FromTop(len + 1)
        to == next_state(below, rules[r].nt)
    IN  /\ len \in {1, 2, 3} /\ len < Len(parser_stack)
        /\ len = 1 => Symbol[FromTop(1)] = Right[r][1]
        /\ len = 2 => Symbol[FromTop(2)] = Right[r][1] /\ Symbol[FromTop(1)] = Right[r][2]
        /\ len = 3 => /\ Symbol[FromTop(3)] = Right[r][1] /\ Symbol[FromTop(2)] = Right[r][2]
                      /\ Symbol[FromTop(1)] = Right[r][3]
        /\ to \in States \ {0} /\ below \in EnteredFrom[to] /\ Symbol[to] \in Nonterminals

(* In every final state the rule that it reduces fits. *)
LEMMA Handles ==
    ASSUME TypeOK, StackIsPath, FromTop(1) \in DOMAIN reduce_rules
    PROVE  HandleFits(reduce_rules[FromTop(1)])
<1> DEFINE s == FromTop(1)
           n == Len(parser_stack)
<1> USE EnteredTable
<1>1. n \in Nat /\ n >= 2 /\ s \in States \ {0} /\ FromTop(2) \in EnteredFrom[s]
  <2>1. n \in Nat /\ 1 \in 1 .. n
    BY DEF TypeOK, StackIsPath
  <2>2. s # 0
    BY DEF reduce_rules
  <2>3. 1 + 1 \in 1 .. n /\ s \in States \ {0} /\ FromTop(1 + 1) \in EnteredFrom[s]
    BY <2>1, <2>2, Below1
  <2> QED
    BY <2>1, <2>3
<1>2. FromTop(2) # 0 => n >= 3 /\ FromTop(3) \in EnteredFrom[FromTop(2)]
  <2>1. SUFFICES ASSUME FromTop(2) # 0
                 PROVE  n >= 3 /\ FromTop(3) \in EnteredFrom[FromTop(2)]
    OBVIOUS
  <2>2. 2 + 1 \in 1 .. n /\ FromTop(2 + 1) \in EnteredFrom[FromTop(2)]
    BY <1>1, <2>1, Below1
  <2> QED
    BY <1>1, <2>2
<1>3. FromTop(2) # 0 /\ FromTop(3) # 0 => n >= 4 /\ FromTop(4) \in EnteredFrom[FromTop(3)]
  <2>1. SUFFICES ASSUME FromTop(2) # 0, FromTop(3) # 0
                 PROVE  n >= 4 /\ FromTop(4) \in EnteredFrom[FromTop(3)]
    OBVIOUS
  <2>2. 3 \in 1 .. n
    BY <1>1, <1>2, <2>1
  <2>3. 3 + 1 \in 1 .. n /\ FromTop(3 + 1) \in EnteredFrom[FromTop(3)]
    BY <2>1, <2>2, Below1
  <2> QED
    BY <1>1, <2>3
<1> HIDE DEF s, n
<1>4. CASE s = 4
  <2>1. reduce_rules[s] = "T_is_E" /\ rules["T_is_E"].len = 1 /\ rules["T_is_E"].nt = "T"
    BY <1>4 DEF reduce_rules, rules
  <2>2. Right["T_is_E"][1] = "E"
    BY DEF Right
  <2>3. n > 1 /\ Symbol[FromTop(1)] = "E"
    BY <1>1, <1>2, <1>3, <1>4, SymbolTable DEF s
  <2>4. LET to == next_state(FromTop(2), "T")
        IN  to \in States \ {0} /\ FromTop(2) \in EnteredFrom[to] /\ Symbol[to] \in Nonterminals
    BY <1>1, <1>2, <1>3, <1>4, SymbolTable DEF next_state, States, Nonterminals
  <2> QED
    BY <2>1, <2>2, <2>3, <2>4 DEF HandleFits, s, n
<1>5. CASE s = 5
  <2>1. reduce_rules[s] = "E_is_F" /\ rules["E_is_F"].len = 1 /\ rules["E_is_F"].nt = "E"
    BY <1>5 DEF reduce_rules, rules
  <2>2. Right["E_is_F"][1] = "F"
    BY DEF Right
  <2>3. n > 1 /\ Symbol[FromTop(1)] = "F"
    BY <1>1, <1>2, <1>3, <1>5, SymbolTable DEF s
  <2>4. LET to == next_state(FromTop(2), "E")
        IN  to \in States \ {0} /\ FromTop(2) \in EnteredFrom[to] /\ Symbol[to] \in Nonterminals
    BY <1>1, <1>2, <1>3, <1>5, SymbolTable DEF next_state, States, Nonterminals
  <2> QED
    BY <2>1, <2>2, <2>3, <2>4 DEF HandleFits, s, n
<1>6. CASE s = 6
  <2>1. reduce_rules[s] = "F_is_G" /\ rules["F_is_G"].len = 1 /\ rules["F_is_G"].nt = "F"
    BY <1>6 DEF reduce_rules, rules
  <2>2. Right["F_is_G"][1] = "G"
    BY DEF Right
  <2>3. n > 1 /\ Symbol[FromTop(1)] = "G"
    BY <1>1, <1>2, <1>3, <1>6, SymbolTable DEF s
  <2>4. LET to == next_state(FromTop(2), "F")
        IN  to \in States \ {0} /\ FromTop(2) \in EnteredFrom[to] /\ Symbol[to] \in Nonterminals
    BY <1>1, <1>2, <1>3, <1>6, SymbolTable DEF next_state, States, Nonterminals
  <2> QED
    BY <2>1, <2>2, <2>3, <2>4 DEF HandleFits, s, n
<1>7. CASE s = 7
  <2>1. reduce_rules[s] = "G_is_H" /\ rules["G_is_H"].len = 1 /\ rules["G_is_H"].nt = "G"
    BY <1>7 DEF reduce_rules, rules
  <2>2. Right["G_is_H"][1] = "H"
    BY DEF Right
  <2>3. n > 1 /\ Symbol[FromTop(1)] = "H"
    BY <1>1, <1>2, <1>3, <1>7, SymbolTable DEF s
  <2>4. LET to == next_state(FromTop(2), "G")
        IN  to \in States \ {0} /\ FromTop(2) \in EnteredFrom[to] /\ Symbol[to] \in Nonterminals
    BY <1>1, <1>2, <1>3, <1>7, SymbolTable DEF next_state, States, Nonterminals
  <2> QED
    BY <2>1, <2>2, <2>3, <2>4 DEF HandleFits, s, n
<1>8. CASE s = 8
  <2>1. reduce_rules[s] = "H_is_d" /\ rules["H_is_d"].len = 1 /\ rules["H_is_d"].nt = "H"
    BY <1>8 DEF reduce_rules, rules
  <2>2. Right["H_is_d"][1] = "d"
    BY DEF Right
  <2>3. n > 1 /\ Symbol[FromTop(1)] = "d"
    BY <1>1, <1>2, <1>3, <1>8, SymbolTable DEF s
  <2>4. LET to == next_state(FromTop(2), "H")
        IN  to \in States \ {0} /\ FromTop(2) \in EnteredFrom[to] /\ Symbol[to] \in Nonterminals
    BY <1>1, <1>2, <1>3, <1>8, SymbolTable DEF next_state, States, Nonterminals
  <2> QED
    BY <2>1, <2>2, <2>3, <2>4 DEF HandleFits, s, n
<1>9. CASE s = 11
  <2>1. reduce_rules[s] = "S_is_pTq" /\ rules["S_is_pTq"].len = 3 /\ rules["S_is_pTq"].nt = "S"
    BY <1>9 DEF reduce_rules, rules
  <2>2. Right["S_is_pTq"][1] = "p" /\ Right["S_is_pTq"][2] = "T" /\ Right["S_is_pTq"][3] = "q"
    BY DEF Right
  <2>3. n > 3 /\ Symbol[FromTop(3)] = "p" /\ Symbol[FromTop(2)] = "T" /\ Symbol[FromTop(1)] = "q"
    BY <1>1, <1>2, <1>3, <1>9, SymbolTable DEF s
  <2>4. LET to == next_state(FromTop(4), "S")
        IN  to \in States \ {0} /\ FromTop(4) \in EnteredFrom[to] /\ Symbol[to] \in Nonterminals
    BY <1>1, <1>2, <1>3, <1>9, SymbolTable DEF next_state, States, Nonterminals
  <2> QED
    BY <2>1, <2>2, <2>3, <2>4 DEF HandleFits, s, n
<1>10. CASE s = 12
  <2>1. reduce_rules[s] = "E_is_EF" /\ rules["E_is_EF"].len = 2 /\ rules["E_is_EF"].nt = "E"
    BY <1>10 DEF reduce_rules, rules
  <2>2. Right["E_is_EF"][1] = "E" /\ Right["E_is_EF"][2] = "F"
    BY DEF Right
  <2>3. n > 2 /\ Symbol[FromTop(2)] = "E" /\ Symbol[FromTop(1)] = "F"
    BY <1>1, <1>2, <1>3, <1>10, SymbolTable DEF s
  <2>4. LET to == next_state(FromTop(3), "E")
        IN  to \in States \ {0} /\ FromTop(3) \in EnteredFrom[to] /\ Symbol[to] \in Nonterminals
    BY <1>1, <1>2, <1>3, <1>10, SymbolTable DEF next_state, States, Nonterminals
  <2> QED
    BY <2>1, <2>2, <2>3, <2>4 DEF HandleFits, s, n
<1>11. CASE s = 13
  <2>1. reduce_rules[s] = "F_is_Gc" /\ rules["F_is_Gc"].len = 2 /\ rules["F_is_Gc"].nt = "F"
    BY <1>11 DEF reduce_rules, rules
  <2>2. Right["F_is_Gc"][1] = "G" /\ Right["F_is_Gc"][2] = "c"
    BY DEF Right
  <2>3. n > 2 /\ Symbol[FromTop(2)] = "G" /\ Symbol[FromTop(1)] = "c"
    BY <1>1, <1>2, <1>3, <1>11, SymbolTable DEF s
  <2>4. LET to == next_state(FromTop(3), "F")
        IN  to \in States \ {0} /\ FromTop(3) \in EnteredFrom[to] /\ Symbol[to] \in Nonterminals
    BY <1>1, <1>2, <1>3, <1>11, SymbolTable DEF next_state, States, Nonterminals
  <2> QED
    BY <2>1, <2>2, <2>3, <2>4 DEF HandleFits, s, n
<1>12. CASE s = 14
  <2>1. reduce_rules[s] = "G_is_Ha" /\ rules["G_is_Ha"].len = 2 /\ rules["G_is_Ha"].nt = "G"
    BY <1>12 DEF reduce_rules, rules
  <2>2. Right["G_is_Ha"][1] = "H" /\ Right["G_is_Ha"][2] = "a"
    BY DEF Right
  <2>3. n > 2 /\ Symbol[FromTop(2)] = "H" /\ Symbol[FromTop(1)] = "a"
    BY <1>1, <1>2, <1>3, <1>12, SymbolTable DEF s
  <2>4. LET to == next_state(FromTop(3), "G")
        IN  to \in States \ {0} /\ FromTop(3) \in EnteredFrom[to] /\ Symbol[to] \in Nonterminals
    BY <1>1, <1>2, <1>3, <1>12, SymbolTable DEF next_state, States, Nonterminals
  <2> QED
    BY <2>1, <2>2, <2>3, <2>4 DEF HandleFits, s, n
<1>13. CASE s = 16
  <2>1. reduce_rules[s] = "T_is_TbE" /\ rules["T_is_TbE"].len = 3 /\ rules["T_is_TbE"].nt = "T"
    BY <1>13 DEF reduce_rules, rules
  <2>2. Right["T_is_TbE"][1] = "T" /\ Right["T_is_TbE"][2] = "b" /\ Right["T_is_TbE"][3] = "E"
    BY DEF Right
  <2>3. n > 3 /\ Symbol[FromTop(3)] = "T" /\ Symbol[FromTop(2)] = "b" /\ Symbol[FromTop(1)] = "E"
    BY <1>1, <1>2, <1>3, <1>13, SymbolTable DEF s
  <2>4. LET to == next_state(FromTop(4), "T")
        IN  to \in States \ {0} /\ FromTop(4) \in EnteredFrom[to] /\ Symbol[to] \in Nonterminals
    BY <1>1, <1>2, <1>3, <1>13, SymbolTable DEF next_state, States, Nonterminals
  <2> QED
    BY <2>1, <2>2, <2>3, <2>4 DEF HandleFits, s, n
<1>14. CASE s = 17
  <2>1. reduce_rules[s] = "H_is_LP_T_RP" /\ rules["H_is_LP_T_RP"].len = 3 /\ rules["H_is_LP_T_RP"].nt = "H"
    BY <1>14 DEF reduce_rules, rules
  <2>2. Right["H_is_LP_T_RP"][1] = "LP" /\ Right["H_is_LP_T_RP"][2] = "T" /\ Right["H_is_LP_T_RP"][3] = "RP"
    BY DEF Right
  <2>3. n > 3 /\ Symbol[FromTop(3)] = "LP" /\ Symbol[FromTop(2)] = "T" /\ Symbol[FromTop(1)] = "RP"
    BY <1>1, <1>2, <1>3, <1>14, SymbolTable DEF s
  <2>4. LET to == next_state(FromTop(4), "H")
        IN  to \in States \ {0} /\ FromTop(4) \in EnteredFrom[to] /\ Symbol[to] \in Nonterminals
    BY <1>1, <1>2, <1>3, <1>14, SymbolTable DEF next_state, States, Nonterminals
  <2> QED
    BY <2>1, <2>2, <2>3, <2>4 DEF HandleFits, s, n
<1> QED
  BY <1>4, <1>5, <1>6, <1>7, <1>8, <1>9, <1>10, <1>11, <1>12, <1>13, <1>14 DEF reduce_rules, s

-----------------------------------------------------------------------------
(* StackIsPath of any stack *)
IsPath(s) ==
    /\ s # <<>>
    /\ s[1].st_num = 0
    /\ \A k \in 2 .. Len(s) :
          /\ s[k].st_num # 0
          /\ s[k - 1].st_num \in EnteredFrom[s[k].st_num]
          /\ \/ Symbol[s[k].st_num] \in Nonterminals
             \/ Symbol[s[k].st_num] = Terminal[s[k].li.code]

(* The property StackIsPath is about the stack of the parser. *)
LEMMA StackPath == StackIsPath <=> IsPath(parser_stack)
BY DEF StackIsPath, IsPath

(* A path of the automaton goes on with a state that is entered from its    *)
(* last one.                                                                *)
LEMMA PathExtended ==
    ASSUME NEW z, NEW s \in Seq(StackItem(z)), IsPath(s), NEW x \in StackItem(z),
           x.st_num # 0, s[Len(s)].st_num \in EnteredFrom[x.st_num],
           Symbol[x.st_num] \in Nonterminals \/ Symbol[x.st_num] = Terminal[x.li.code]
    PROVE  Append(s, x) \in Seq(StackItem(z)) /\ IsPath(Append(s, x))
<1> DEFINE a == Append(s, x)
           n == Len(s)
<1>1. /\ a \in Seq(StackItem(z)) /\ a # <<>> /\ Len(a) = n + 1 /\ n \in Nat
      /\ \A k \in 1 .. n : a[k] = s[k]
      /\ a[n + 1] = x
  OBVIOUS
<1>2. n >= 1
  BY <1>1 DEF IsPath
<1> HIDE DEF a, n
<1>3. a[1].st_num = 0
  BY <1>1, <1>2 DEF IsPath
<1>4. ASSUME NEW k \in 2 .. Len(a)
      PROVE  /\ a[k].st_num # 0
             /\ a[k - 1].st_num \in EnteredFrom[a[k].st_num]
             /\ \/ Symbol[a[k].st_num] \in Nonterminals
                \/ Symbol[a[k].st_num] = Terminal[a[k].li.code]
  <2>1. CASE k = n + 1
    <3>1. a[k] = x /\ a[k - 1] = s[n]
      BY <1>1, <1>2, <2>1
    <3> QED
      BY <3>1 DEF n
  <2>2. CASE k # n + 1
    <3>1. k \in 2 .. n /\ a[k] = s[k] /\ a[k - 1] = s[k - 1]
      BY <1>1, <2>2
    <3> QED
      BY <3>1 DEF IsPath, n
  <2> QED
    BY <2>1, <2>2
<1>5. IsPath(a)
  BY <1>1, <1>3, <1>4 DEF IsPath
<1> QED
  BY <1>1, <1>5 DEF a

(* What get_elems_from_top takes from the stack and what it leaves there *)
LEMMA BodyBelow ==
    ASSUME NEW z, parser_stack \in Seq(StackItem(z)), IsPath(parser_stack),
           NEW r, rules[r].len \in {1, 2, 3}, rules[r].len < Len(parser_stack)
    PROVE  /\ \A k \in 1 .. rules[r].len :
                 /\ Body(r)[k] \in StackItem(z)
                 /\ Body(r)[k] = parser_stack[Len(parser_stack) - rules[r].len + k]
           /\ Below(r) \in Seq(StackItem(z)) /\ IsPath(Below(r))
           /\ Len(Below(r)) = Len(parser_stack) - rules[r].len
           /\ \A i \in 1 .. Len(Below(r)) : Below(r)[i] = parser_stack[i]
           /\ Below(r)[Len(Below(r))].st_num = FromTop(rules[r].len + 1)
<1> DEFINE n == Len(parser_stack)
           len == rules[r].len
           b == Below(r)
<1>1. /\ n \in Nat /\ len \in {1, 2, 3} /\ len < n
      /\ \A i \in 1 .. n : parser_stack[i] \in StackItem(z)
  OBVIOUS
<1>2. Body(r) = SubSeq(parser_stack, n - len + 1, n) /\ b = SubSeq(parser_stack, 1, n - len)
  BY DEF Body, Below
<1>3. FromTop(len + 1) = parser_stack[n - len].st_num
  <2> HIDE DEF n, len
  <2>1. n - (len + 1) + 1 = n - len
    BY <1>1
  <2> QED
    BY <2>1, Zenon DEF FromTop, n
<1> HIDE DEF n, len, b
<1>4. \A k \in 1 .. len : Body(r)[k] \in StackItem(z) /\ Body(r)[k] = parser_stack[n - len + k]
  <2>1. SUFFICES ASSUME NEW k \in 1 .. len
                 PROVE  Body(r)[k] \in StackItem(z) /\ Body(r)[k] = parser_stack[n - len + k]
    OBVIOUS
  <2> DEFINE m == n - len + 1
  <2>2. m \in Int /\ n \in Int /\ \A i \in m .. n : parser_stack[i] \in StackItem(z)
    BY <1>1
  <2>3. k \in 1 .. n - m + 1 /\ m + k - 1 = n - len + k /\ n - len + k \in 1 .. n
    BY <1>1
  <2> HIDE DEF m
  <2>4. SubSeq(parser_stack, m, n)[k] = parser_stack[m + k - 1]
    BY <2>2, <2>3, SubSeqProperties
  <2> QED
    BY <1>1, <1>2, <2>3, <2>4 DEF m
<1>5. /\ b \in Seq(StackItem(z)) /\ Len(b) = n - len
      /\ \A i \in 1 .. n - len : b[i] = parser_stack[i]
  <2> DEFINE m == n - len
  <2>1. m \in Int /\ m >= 1 /\ \A i \in 1 .. m : parser_stack[i] \in StackItem(z)
    BY <1>1
  <2>2. b = SubSeq(parser_stack, 1, m)
    BY <1>2
  <2> HIDE DEF m
  <2>3. /\ SubSeq(parser_stack, 1, m) \in Seq(StackItem(z))
        /\ Len(SubSeq(parser_stack, 1, m)) = IF 1 <= m THEN m - 1 + 1 ELSE 0
        /\ \A i \in 1 .. m - 1 + 1 : SubSeq(parser_stack, 1, m)[i] = parser_stack[1 + i - 1]
    BY <2>1, SubSeqProperties
  <2> QED
    BY <2>1, <2>2, <2>3 DEF m
<1>6. IsPath(b)
  <2>1. 1 \in 1 .. n - len /\ b[1] = parser_stack[1] /\ b # <<>>
    BY <1>1, <1>5
  <2>2. ASSUME NEW k \in 2 .. Len(b)
        PROVE  /\ b[k].st_num # 0
               /\ b[k - 1].st_num \in EnteredFrom[b[k].st_num]
               /\ \/ Symbol[b[k].st_num] \in Nonterminals
                  \/ Symbol[b[k].st_num] = Terminal[b[k].li.code]
    <3>1. k \in 2 .. n /\ b[k] = parser_stack[k] /\ b[k - 1] = parser_stack[k - 1]
      BY <1>1, <1>5
    <3> QED
      BY <3>1 DEF IsPath, n
  <2> QED
    BY <2>1, <2>2 DEF IsPath
<1>7. b[Len(b)].st_num = FromTop(len + 1)
  BY <1>1, <1>3, <1>5
<1> QED
  BY <1>4, <1>5, <1>6, <1>7 DEF n, len, b

(* The handle of the state on top: the rule is on the stack. *)
LEMMA HandlesOnTop == TypeOK /\ StackIsPath => HandleOnTop
<1> SUFFICES ASSUME TypeOK, StackIsPath, current_state \in DOMAIN reduce_rules
             PROVE  LET r == reduce_rules[current_state]
                    IN  /\ rules[r].len < Len(parser_stack)
                        /\ \A k \in 1 .. rules[r].len : Symbol[Body(r)[k].st_num] = Right[r][k]
  BY DEF HandleOnTop
<1> DEFINE r == reduce_rules[current_state]
           len == rules[r].len
           n == Len(parser_stack)
<1>1. current_state = FromTop(1)
  <2>1. Len(parser_stack) - 1 + 1 = Len(parser_stack)
    BY DEF TypeOK
  <2> QED
    BY <2>1, Zenon DEF current_state, Last, FromTop
<1>2. HandleFits(r)
  BY <1>1, Handles
<1> HIDE DEF r, len
<1>3. /\ len \in {1, 2, 3} /\ len < n /\ n \in Nat
      /\ len = 1 => Symbol[FromTop(1)] = Right[r][1]
      /\ len = 2 => Symbol[FromTop(2)] = Right[r][1] /\ Symbol[FromTop(1)] = Right[r][2]
      /\ len = 3 => /\ Symbol[FromTop(3)] = Right[r][1] /\ Symbol[FromTop(2)] = Right[r][2]
                    /\ Symbol[FromTop(1)] = Right[r][3]
  BY <1>2 DEF HandleFits, len, TypeOK
<1>4. \A k \in 1 .. len : Body(r)[k] = parser_stack[n - len + k]
  BY <1>3, BodyBelow, StackPath DEF TypeOK, len
<1>5. ASSUME NEW k \in 1 .. len
      PROVE  Symbol[Body(r)[k].st_num] = Right[r][k]
  <2>1. Body(r)[k].st_num = FromTop(len - k + 1)
    <3>1. n - (len - k + 1) + 1 = n - len + k
      BY <1>3
    <3> QED
      BY <1>4, <3>1, Zenon DEF FromTop
  <2>2. CASE len = 1
    BY <1>3, <2>1, <2>2
  <2>3. CASE len = 2
    <3>1. (k = 1 /\ len - k + 1 = 2) \/ (k = 2 /\ len - k + 1 = 1)
      BY <2>3
    <3> QED
      BY <1>3, <2>1, <2>3, <3>1
  <2>4. CASE len = 3
    <3>1. (k = 1 /\ len - k + 1 = 3) \/ (k = 2 /\ len - k + 1 = 2) \/ (k = 3 /\ len - k + 1 = 1)
      BY <2>4
    <3> QED
      BY <1>3, <2>1, <2>4, <3>1
  <2> QED
    BY <1>3, <2>2, <2>3, <2>4
<1> QED
  BY <1>3, <1>5 DEF r, len

-----------------------------------------------------------------------------
(* What a step must do to the stack and the buffer *)
StackKept ==
    /\ parser_stack' \in Seq(StackItem(Len(buf_')))
    /\ IsPath(parser_stack')
    /\ buf_' \in Seq(BufferItem) /\ Len(buf_') <= MaxCommands

(* A lexeme is pushed, from the text or inserted by a handler. *)
LEMMA PushKeepsStack ==
    ASSUME TypeOK, StackIsPath, NEW s \in States \ {0}, current_state \in EnteredFrom[s],
           NEW li \in Lexeme \cup {EndOfText}
                    \cup {Inserted(c) : c \in {"Begin_expression", "Character", "Or"}},
           Symbol[s] = Terminal[li.code], parser_stack' = Pushed(s, li), UNCHANGED buf_
    PROVE  StackKept
<1> DEFINE x == [st_num |-> s, li |-> li, begin |-> 0, end |-> 0]
           z == Len(buf_)
<1>1. parser_stack \in Seq(StackItem(z)) /\ IsPath(parser_stack) /\ z \in Nat
  BY StackPath DEF TypeOK
<1>2. x \in StackItem(z) /\ x.st_num = s /\ x.li = li
  BY <1>1 DEF StackItem
<1>3. parser_stack' = Append(parser_stack, x) /\ Len(buf_') = z
  BY DEF Pushed
<1>4. parser_stack[Len(parser_stack)].st_num \in EnteredFrom[s]
  BY DEF current_state, Last
<1> HIDE DEF x, z
<1>5. Append(parser_stack, x) \in Seq(StackItem(z)) /\ IsPath(Append(parser_stack, x))
  BY <1>1, <1>2, <1>4, PathExtended
<1> QED
  BY <1>3, <1>5 DEF StackKept, TypeOK

(* The commands that a reduction leaves in the buffer: none is removed. *)
BufferTypes(g) ==
    /\ g \in Seq(BufferItem)
    /\ Len(g) \in Nat /\ Len(g) <= MaxCommands /\ Len(g) >= Len(buf_)

(* A command more in the buffer *)
LEMMA EmittedTypes ==
    ASSUME TypeOK, NEW c \in BufferItem
    PROVE  BufferTypes(Emitted(c))
BY MaxCommandsAssumption DEF TypeOK, Emitted, BufferTypes

(* Commands of the buffer get an action or a mark. *)
LEMMA MarkedTypes ==
    ASSUME TypeOK, NEW group, NEW act \in Actions
    PROVE  BufferTypes(Marked(group, act))
<1> DEFINE n == Len(buf_)
           m == Marked(group, act)
<1>1. n \in Nat /\ n <= MaxCommands /\ DOMAIN buf_ = 1 .. n /\ \A k \in 1 .. n : buf_[k] \in BufferItem
  BY DEF TypeOK
<1>2. ASSUME NEW k \in 1 .. n
      PROVE  [buf_[k] EXCEPT !.action = act] \in BufferItem
  BY <1>1 DEF BufferItem
<1>3. m = [k \in 1 .. n |-> IF k \in group.begin .. group.end
                            THEN [buf_[k] EXCEPT !.action = act] ELSE buf_[k]]
  BY <1>1 DEF Marked
<1> HIDE DEF m, n
<1>4. m \in Seq(BufferItem) /\ Len(m) = n
  <2>1. \A k \in 1 .. n : m[k] \in BufferItem
    BY <1>1, <1>2, <1>3
  <2>2. DOMAIN m = 1 .. n /\ m = [k \in 1 .. n |-> m[k]]
    BY <1>3
  <2> QED
    BY <1>1, <2>1, <2>2
<1> QED
  BY <1>1, <1>4 DEF m, n, BufferTypes

(* The lexeme of a state that was entered with an operator or an operand *)
LEMMA LexemeOnTop ==
    ASSUME TypeOK, StackIsPath, Len(parser_stack) >= 2
    PROVE  LET li == parser_stack[Len(parser_stack)].li
           IN  /\ current_state = 8 =>
                     /\ li.code \in DOMAIN CommandName
                     /\ CommandName[li.code] \in {"Char", "Char_class_complement", "Char_class"}
               /\ current_state = 13 =>
                     /\ li.code \in DOMAIN CommandName
                     /\ CommandName[li.code] \in {"Kleene", "Positive", "Optional"}
               /\ li.idx \in Nat
<1> DEFINE li == parser_stack[Len(parser_stack)].li
           n == Len(parser_stack)
<1>1. n \in 2 .. n /\ parser_stack[n] \in StackItem(Len(buf_))
  BY DEF TypeOK
<1>2. li \in Lexeme \cup {EndOfText}
               \cup {Inserted(c) : c \in {"Begin_expression", "Character", "Or"}}
  BY <1>1 DEF StackItem
<1>3. current_state = parser_stack[n].st_num
  BY DEF current_state, Last
<1>4. \/ Symbol[parser_stack[n].st_num] \in Nonterminals
      \/ Symbol[parser_stack[n].st_num] = Terminal[li.code]
  BY <1>1 DEF StackIsPath
<1> HIDE DEF li, n
<1>5. li.code \in DOMAIN Terminal /\ li.idx \in Nat
  <2>1. CASE li \in Lexeme
    BY <2>1, TerminalAssumption, LexemeAssumption
  <2>2. CASE li = EndOfText
    BY <2>2 DEF EndOfText, Terminal
  <2>3. CASE li \in {Inserted(c) : c \in {"Begin_expression", "Character", "Or"}}
    BY <2>3 DEF Inserted, Terminal
  <2> QED
    BY <1>2, <2>1, <2>2, <2>3
<1>6. /\ current_state = 8 => Terminal[li.code] = "d"
      /\ current_state = 13 => Terminal[li.code] = "c"
  BY <1>3, <1>4, SymbolTable DEF Nonterminals
<1>7. /\ Terminal[li.code] = "d" =>
            /\ li.code \in DOMAIN CommandName
            /\ CommandName[li.code] \in {"Char", "Char_class_complement", "Char_class"}
      /\ Terminal[li.code] = "c" =>
            /\ li.code \in DOMAIN CommandName
            /\ CommandName[li.code] \in {"Kleene", "Positive", "Optional"}
  BY <1>5 DEF Terminal, CommandName
<1> QED
  BY <1>5, <1>6, <1>7 DEF li, n

(* The command that the rule r generates *)
LEMMA GeneratedOf ==
    ASSUME NEW r
    PROVE  /\ r = "T_is_TbE" =>
                 Generated(r) = Emitted(Command("Or", Body(r)[1].end, Body(r)[3].end))
           /\ r = "E_is_EF" =>
                 Generated(r) = Emitted(Command("Concat", Body(r)[1].end, Body(r)[2].end))
           /\ r = "F_is_Gc" => Generated(r) = Emitted(Command(CommandName[Body(r)[2].li.code],
                                                             Body(r)[1].end, 0))
           /\ r = "H_is_d" => Generated(r) = Emitted(Command(CommandName[Body(r)[1].li.code],
                                                            Body(r)[1].li.idx, 0))
           /\ r = "G_is_Ha" /\ Body(r)[2].li.idx \in Actions =>
                 Generated(r) = Marked(Body(r)[1], Body(r)[2].li.idx)
           /\ r \notin {"T_is_TbE", "E_is_EF", "F_is_Gc", "H_is_d"}
                 /\ ~(r = "G_is_Ha" /\ Body(r)[2].li.idx \in Actions) => Generated(r) = buf_
BY DEF Generated

(* Every rule leaves commands in the buffer. *)
LEMMA GeneratedTypes ==
    ASSUME TypeOK, StackIsPath, current_state \in DOMAIN reduce_rules
    PROVE  BufferTypes(Generated(reduce_rules[current_state]))
<1> DEFINE r == reduce_rules[current_state]
           b == Body(r)
           n == Len(parser_stack)
           z == Len(buf_)
<1>1. n \in Nat /\ z \in Nat /\ rules[r].len < n /\ BufferTypes(buf_)
  BY HandlesOnTop DEF HandleOnTop, TypeOK, BufferTypes
<1>2. /\ r = "T_is_TbE" => rules[r].len = 3
      /\ r \in {"E_is_EF", "F_is_Gc", "G_is_Ha"} => rules[r].len = 2
      /\ r = "H_is_d" => rules[r].len = 1
      /\ rules[r].len \in {1, 2, 3}
      /\ r = "F_is_Gc" => current_state = 13
      /\ r = "H_is_d" => current_state = 8
  BY DEF rules, reduce_rules
<1> HIDE DEF r
<1>0. SUFFICES BufferTypes(Generated(r))
  BY DEF r
<1>3. \A k \in 1 .. rules[r].len : b[k] \in StackItem(z) /\ b[k] = parser_stack[n - rules[r].len + k]
  BY <1>1, <1>2, BodyBelow, StackPath DEF TypeOK
<1> HIDE DEF b, n, z
<1>4. \A k \in 1 .. rules[r].len : b[k].end \in Nat
  BY <1>1, <1>3 DEF StackItem
<1>5. CASE r = "T_is_TbE"
  <2>1. Command("Or", b[1].end, b[3].end) \in BufferItem
    BY <1>2, <1>4, <1>5 DEF Command, BufferItem
  <2>2. Generated(r) = Emitted(Command("Or", b[1].end, b[3].end))
    BY <1>5, GeneratedOf DEF b
  <2> QED
    BY <2>1, <2>2, EmittedTypes
<1>6. CASE r = "E_is_EF"
  <2>1. Command("Concat", b[1].end, b[2].end) \in BufferItem
    BY <1>2, <1>4, <1>6 DEF Command, BufferItem
  <2>2. Generated(r) = Emitted(Command("Concat", b[1].end, b[2].end))
    BY <1>6, GeneratedOf DEF b
  <2> QED
    BY <2>1, <2>2, EmittedTypes
<1>7. CASE r = "F_is_Gc"
  <2>1. b[2] = parser_stack[n] /\ n >= 2
    BY <1>1, <1>2, <1>3, <1>7
  <2>2. b[2].li.code \in DOMAIN CommandName
    BY <1>2, <1>7, <2>1, LexemeOnTop DEF n
  <2>3. Command(CommandName[b[2].li.code], b[1].end, 0) \in BufferItem
    BY <1>2, <1>4, <1>7, <2>2 DEF Command, BufferItem, Range
  <2>4. Generated(r) = Emitted(Command(CommandName[b[2].li.code], b[1].end, 0))
    BY <1>7, GeneratedOf DEF b
  <2> QED
    BY <2>3, <2>4, EmittedTypes
<1>8. CASE r = "H_is_d"
  <2>1. b[1] = parser_stack[n] /\ n >= 2
    BY <1>1, <1>2, <1>3, <1>8
  <2>2. b[1].li.code \in DOMAIN CommandName /\ b[1].li.idx \in Nat
    BY <1>2, <1>8, <2>1, LexemeOnTop DEF n
  <2>3. Command(CommandName[b[1].li.code], b[1].li.idx, 0) \in BufferItem
    BY <2>2 DEF Command, BufferItem, Range
  <2>4. Generated(r) = Emitted(Command(CommandName[b[1].li.code], b[1].li.idx, 0))
    BY <1>8, GeneratedOf DEF b
  <2> QED
    BY <2>3, <2>4, EmittedTypes
<1>9. CASE r = "G_is_Ha" /\ b[2].li.idx \in Actions
  <2>1. Generated(r) = Marked(b[1], b[2].li.idx)
    BY <1>9, GeneratedOf DEF b
  <2> QED
    BY <1>9, <2>1, MarkedTypes
<1>10. CASE /\ r \notin {"T_is_TbE", "E_is_EF", "F_is_Gc", "H_is_d"}
            /\ ~(r = "G_is_Ha" /\ b[2].li.idx \in Actions)
  <2>1. Generated(r) = buf_
    BY <1>10, GeneratedOf DEF b
  <2> QED
    BY <1>1, <2>1
<1> QED
  BY <1>5, <1>6, <1>7, <1>8, <1>9, <1>10 DEF r

(* A larger buffer changes nothing about the stack. *)
LEMMA StackItemGrows ==
    ASSUME NEW z \in Nat, NEW size \in Nat, z <= size
    PROVE  /\ StackItem(z) \subseteq StackItem(size)
           /\ \A s \in Seq(StackItem(z)) : s \in Seq(StackItem(size))
<1>1. \A x \in 0 .. z : x \in 0 .. size
  OBVIOUS
<1>2. StackItem(z) \subseteq StackItem(size)
  BY <1>1 DEF StackItem
<1> QED
  BY <1>2

(* The attributes that the rule r computes are places in the buffer. *)
LEMMA AttribTypes ==
    ASSUME NEW r, NEW z \in Nat, NEW size \in Nat, z <= size, rules[r].len \in {1, 2, 3},
           r \in {"S_is_pTq", "H_is_LP_T_RP"} => rules[r].len = 3,
           \A k \in 1 .. rules[r].len : Body(r)[k] \in StackItem(z)
    PROVE  attrib_calc(r, size)[1] \in 0 .. size /\ attrib_calc(r, size)[2] \in 0 .. size
<1>1. \A k \in 1 .. rules[r].len : Body(r)[k].begin \in 0 .. size /\ Body(r)[k].end \in 0 .. size
  BY DEF StackItem
<1>2. size \in 0 .. size /\ 1 \in 1 .. rules[r].len
  OBVIOUS
<1>3. CASE r = "H_is_d"
  <2>1. attrib_calc(r, size) = <<size, size>>
    BY <1>3 DEF attrib_calc
  <2> QED
    BY <1>2, <2>1
<1>4. CASE r \in {"T_is_TbE", "E_is_EF", "F_is_Gc"}
  <2>1. attrib_calc(r, size) = <<Body(r)[1].begin, size>>
    BY <1>4 DEF attrib_calc
  <2> QED
    BY <1>1, <1>2, <2>1
<1>5. CASE r \in {"S_is_pTq", "H_is_LP_T_RP"}
  <2>1. attrib_calc(r, size) = <<Body(r)[2].begin, Body(r)[2].end>>
    BY <1>5 DEF attrib_calc
  <2>2. 2 \in 1 .. rules[r].len
    BY <1>5
  <2> QED
    BY <1>1, <2>1, <2>2
<1>6. CASE r \notin {"H_is_d", "T_is_TbE", "E_is_EF", "F_is_Gc", "S_is_pTq", "H_is_LP_T_RP"}
  <2>1. attrib_calc(r, size) = <<Body(r)[1].begin, Body(r)[1].end>>
    BY <1>6 DEF attrib_calc
  <2> QED
    BY <1>1, <1>2, <2>1
<1> QED
  BY <1>3, <1>4, <1>5, <1>6

(* The rule of the state on top is reduced, by the table or by a handler. *)
LEMMA ReduceKeepsStack ==
    ASSUME TypeOK, StackIsPath, current_state \in DOMAIN reduce_rules,
           reduce(reduce_rules[current_state])
    PROVE  StackKept
<1> DEFINE r == reduce_rules[current_state]
           z == Len(buf_)
           size == Len(Generated(r))
           top == FromTop(rules[r].len + 1)
           to == next_state(top, rules[r].nt)
           a == attrib_calc(r, size)
           x == [st_num |-> to, li |-> EndOfText, begin |-> a[1], end |-> a[2]]
<1>1. BufferTypes(Generated(r))
  BY GeneratedTypes
<1>2. current_state = FromTop(1)
  <2>1. Len(parser_stack) - 1 + 1 = Len(parser_stack)
    BY DEF TypeOK
  <2> QED
    BY <2>1, Zenon DEF current_state, Last, FromTop
<1>3. HandleFits(r)
  BY <1>2, Handles
<1>4. r \in {"S_is_pTq", "H_is_LP_T_RP"} => rules[r].len = 3
  BY DEF rules
<1>5. /\ rules[r].len \in {1, 2, 3} /\ rules[r].len < Len(parser_stack)
      /\ to \in States \ {0} /\ top \in EnteredFrom[to] /\ Symbol[to] \in Nonterminals
  BY <1>3 DEF HandleFits
<1>6. buf_' = Generated(r) /\ parser_stack' = Append(Below(r), [x EXCEPT !.st_num =
                                next_state(Last(Below(r)).st_num, rules[r].nt)])
  BY DEF reduce
<1> HIDE DEF r
<1>7. /\ \A k \in 1 .. rules[r].len : Body(r)[k] \in StackItem(z)
      /\ Below(r) \in Seq(StackItem(z)) /\ IsPath(Below(r))
      /\ Below(r)[Len(Below(r))].st_num = top
  BY <1>5, BodyBelow, StackPath DEF TypeOK
<1>8. z \in Nat /\ size \in Nat /\ z <= size
  BY <1>1 DEF BufferTypes, TypeOK
<1>9. a[1] \in 0 .. size /\ a[2] \in 0 .. size
  BY <1>4, <1>5, <1>7, <1>8, AttribTypes
<1>10. parser_stack' = Append(Below(r), x)
  <2>1. Last(Below(r)).st_num = top
    BY <1>7 DEF Last
  <2> QED
    BY <1>6, <2>1
<1> HIDE DEF a, top, size, z
<1>11. x \in StackItem(size) /\ x.st_num = to /\ x.li = EndOfText
  BY <1>5, <1>9 DEF StackItem
<1>12. Below(r) \in Seq(StackItem(size))
  BY <1>7, <1>8, StackItemGrows
<1> HIDE DEF x, to
<1>13. Append(Below(r), x) \in Seq(StackItem(size)) /\ IsPath(Append(Below(r), x))
  BY <1>5, <1>7, <1>11, <1>12, PathExtended
<1> QED
  BY <1>1, <1>6, <1>10, <1>13 DEF StackKept, BufferTypes, size

-----------------------------------------------------------------------------
(* Every step of the parser does to the stack what it must. *)
LEMMA StepKeepsStack ==
    ASSUME TypeOK, StackIsPath, Iteration
    PROVE  StackKept
<1>1. current_state \in States
  <2>1. parser_stack \in Seq(StackItem(Len(buf_))) /\ Len(parser_stack) \in 1 .. Len(parser_stack)
    BY DEF TypeOK, StackIsPath
  <2>2. parser_stack[Len(parser_stack)] \in StackItem(Len(buf_))
    BY <2>1
  <2> QED
    BY <2>2 DEF current_state, Last, StackItem
<1>2. /\ \A c \in {"Begin_expression", "Character", "Or"} : Inserted(c).code = c
      /\ Terminal["Begin_expression"] = "p" /\ Terminal["Character"] = "d" /\ Terminal["Or"] = "b"
      /\ {2, 8, 10} \subseteq States \ {0}
      /\ Symbol[2] = "p" /\ Symbol[8] = "d" /\ Symbol[10] = "b"
      /\ EnteredFrom[2] = {0} /\ {2, 9, 10} \subseteq EnteredFrom[8] /\ EnteredFrom[10] = {3, 15}
  BY EnteredTable, SymbolTable DEF Inserted, Terminal, States
<1>3. CASE Shift
  <2> DEFINE s == shift[current_state][t]
  <2>1. t \in DOMAIN shift[current_state] /\ parser_stack' = Pushed(s, next) /\ UNCHANGED buf_
    BY <1>3 DEF Shift
  <2>2. /\ s \in States \ {0} /\ current_state \in EnteredFrom[s] /\ Symbol[s] = t
    BY <1>1, <2>1, ShiftEnters
  <2>3. next \in Lexeme \cup {EndOfText}
    BY DEF TypeOK, SourceTypeOK
  <2>4. Symbol[s] = Terminal[next.code]
    BY <2>2 DEF t
  <2> HIDE DEF s
  <2> QED
    BY <2>1, <2>2, <2>3, <2>4, PushKeepsStack
<1>4. CASE state00_error_handler
  BY <1>2, <1>4, PushKeepsStack DEF state00_error_handler
<1>5. CASE state02_error_handler
  BY <1>2, <1>5, PushKeepsStack DEF state02_error_handler
<1>6. CASE state03_error_handler
  BY <1>2, <1>6, PushKeepsStack DEF state03_error_handler
<1>7. CASE Accept
  BY <1>7, StackPath DEF Accept, StackKept, TypeOK
<1>8. CASE Reduce \/ state04_error_handler \/ state06_error_handler \/ state07_error_handler
  <2>1. current_state \in DOMAIN reduce_rules /\ reduce(reduce_rules[current_state])
    BY <1>8 DEF Reduce, state04_error_handler, state06_error_handler, state07_error_handler,
       reduce_rules
  <2> QED
    BY <2>1, ReduceKeepsStack
<1> QED
  BY <1>3, <1>4, <1>5, <1>6, <1>7, <1>8 DEF Iteration

(* What a step does beside the stack: it reads the next lexeme or gives it  *)
(* back, and only Shift reads one without a message.                        *)
LEMMA StepReads ==
    ASSUME TypeOK, StackIsPath, Iteration
    PROVE  /\ \E n \in Nat, said \in BOOLEAN :
                 \/ Back(n, said)
                 \/ Read(n, said) /\ (said \/ next \in Lexeme)
           /\ returned' \in BOOLEAN
<1>1. \A r : ActionErrors(r) \in Nat /\ (ActionErrors(r) > 0) \in BOOLEAN
  BY DEF ActionErrors
<1>2. returned' \in BOOLEAN
  BY DEF Iteration, Shift, Reduce, Accept, state00_error_handler, state02_error_handler,
     state03_error_handler, state04_error_handler, state06_error_handler,
     state07_error_handler, TypeOK
<1>3. CASE Shift
  <2>1. current_state \in States
    <3>1. parser_stack[Len(parser_stack)] \in StackItem(Len(buf_))
      BY DEF TypeOK, StackIsPath
    <3> QED
      BY <3>1 DEF current_state, Last, StackItem
  <2>2. Read(0, FALSE) /\ t # "End_of_text"
    BY <1>3, <2>1, ShiftEnters DEF Shift
  <2>3. next # EndOfText
    BY <2>2 DEF t, Terminal, EndOfText
  <2> QED
    BY <1>2, <2>2, <2>3 DEF TypeOK, SourceTypeOK
<1>4. CASE Reduce
  <2>1. PICK r : Back(ActionErrors(r), ActionErrors(r) > 0)
    BY <1>4 DEF Reduce
  <2> QED
    BY <1>1, <1>2, <2>1
<1>5. CASE state06_error_handler
  <2>1. PICK r : Read(ActionErrors(r), TRUE)
    BY <1>5 DEF state06_error_handler
  <2> QED
    BY <1>1, <1>2, <2>1
<1>6. CASE Accept
  BY <1>2, <1>6 DEF Accept
<1>7. CASE state00_error_handler \/ state02_error_handler \/ state03_error_handler
           \/ state04_error_handler \/ state07_error_handler
  <2>1. \E n \in {0, 1} : Read(n, TRUE) \/ Back(n, TRUE)
    BY <1>7 DEF state00_error_handler, state02_error_handler, state03_error_handler,
       state04_error_handler, state07_error_handler
  <2> QED
    BY <1>2, <2>1
<1> QED
  BY <1>3, <1>4, <1>5, <1>6, <1>7 DEF Iteration

(* The stack is a path of the automaton, and everything has its type. *)
StackInv == TypeOK /\ StackIsPath

(* The stack begins with the initial state alone. *)
LEMMA InitInv == Init => StackInv
<1> SUFFICES ASSUME Init PROVE StackInv
  OBVIOUS
<1> DEFINE x == [st_num |-> 0, li |-> EndOfText, begin |-> 0, end |-> 0]
<1>1. SourceTypeOK
  BY SourceLengthAssumption, ErrorCapAssumption DEF Init, SourceInit, SourceTypeOK
<1>2. Len(buf_) = 0 /\ buf_ \in Seq(BufferItem) /\ path \in Seq(Lexeme)
  BY DEF Init
<1>3. x \in StackItem(0)
  BY DEF StackItem, States
<1>4. parser_stack = <<x>>
  BY DEF Init
<1>5. parser_stack \in Seq(StackItem(0)) /\ StackIsPath
  <2> HIDE DEF x
  <2>1. parser_stack \in Seq(StackItem(0)) /\ Len(parser_stack) = 1 /\ parser_stack[1] = x
    BY <1>3, <1>4
  <2>2. x.st_num = 0
    BY DEF x
  <2> QED
    BY <2>1, <2>2 DEF StackIsPath
<1> QED
  <2>1. Len(buf_) <= MaxCommands
    BY <1>2, MaxCommandsAssumption
  <2>2. returned \in BOOLEAN /\ complained \in BOOLEAN
    BY DEF Init
  <2>3. parser_stack \in Seq(StackItem(Len(buf_)))
    BY <1>2, <1>5
  <2> QED
    BY <1>1, <1>2, <1>5, <2>1, <2>2, <2>3 DEF StackInv, TypeOK

(* Every step keeps the stack sound. *)
LEMMA NextKeepsInv == StackInv /\ [Next]_rvars => StackInv'
<1> SUFFICES ASSUME StackInv, [Next]_rvars PROVE StackInv'
  OBVIOUS
<1>1. CASE UNCHANGED rvars
  BY <1>1 DEF rvars, StackInv, TypeOK, SourceTypeOK, StackIsPath
<1>2. CASE Iteration
  <2>1. TypeOK /\ StackIsPath
    BY DEF StackInv
  <2>2. StackKept
    BY <1>2, <2>1, StepKeepsStack
  <2>3. returned' \in BOOLEAN
    BY <1>2, <2>1, StepReads
  <2>4. PICK n \in Nat, said \in BOOLEAN :
               \/ Back(n, said)
               \/ Read(n, said) /\ (said \/ next \in Lexeme)
    BY <1>2, <2>1, StepReads
  <2>5. SourceTypeOK'
    <3>1. SourceTypeOK /\ (Take(n) \/ GiveBack(n))
      BY <2>1, <2>4 DEF Back, Read, TypeOK
    <3>2. Lexical \in {0, 1}
      BY DEF Lexical
    <3>3. errors' \in 0 .. ErrorCap
      BY <3>1, <3>2, ErrorCapAssumption DEF SourceTypeOK, Take, GiveBack, Report
    <3>4. next' \in Lexeme \cup {EndOfText} /\ left' \in 0 .. SourceLength
      BY <3>1, SourceLengthAssumption DEF SourceTypeOK, Take, GiveBack, Advance, source
    <3> QED
      BY <3>3, <3>4 DEF SourceTypeOK
  <2>6. complained' \in BOOLEAN
    BY <2>4 DEF Back, Read, Complain
  <2>7. path' \in Seq(Lexeme)
    <3>1. path \in Seq(Lexeme) /\ <<>> \in Seq(Lexeme)
      BY <2>1 DEF TypeOK
    <3>2. CASE Back(n, said)
      BY <3>1, <3>2 DEF Back
    <3>3. CASE Read(n, said) /\ next \in Lexeme
      BY <3>1, <3>3 DEF Read
    <3>4. CASE Read(n, said) /\ said
      <4>1. complained'
        BY <3>4, Zenon DEF Read, Complain
      <4> QED
        BY <3>1, <3>4, <4>1 DEF Read
    <3> QED
      BY <2>4, <3>2, <3>3, <3>4
  <2>8. TypeOK'
    BY <2>2, <2>3, <2>5, <2>6, <2>7 DEF TypeOK, StackKept
  <2>9. StackIsPath'
    BY <2>2 DEF StackKept, StackIsPath, IsPath
  <2> QED
    BY <2>8, <2>9 DEF StackInv
<1>3. CASE Finished
  BY <1>1, <1>3 DEF Finished
<1> QED
  BY <1>1, <1>2, <1>3 DEF Next

(* The stack is a path of the automaton in every state of every run. *)
THEOREM StackInvariant == Spec => []StackInv
<1>1. Init => StackInv
  BY InitInv
<1>2. StackInv /\ [Next]_rvars => StackInv'
  BY NextKeepsInv
<1> QED
  BY <1>1, <1>2, PTL DEF Spec

(* In every state of the parser, whatever the text and the errors, the      *)
(* stack is a path of the automaton, and the rule by which a handler or the *)
(* table reduces has its right-hand side on top of the stack, above at      *)
(* least one state (include/lr_parser.h, src/slr_act_expr_parser.cpp).      *)
THEOREM StackIsSound == Spec => []StackRight
<1>1. StackInv => StackRight
  BY HandlesOnTop DEF StackInv, StackRight
<1> QED
  BY <1>1, StackInvariant, PTL

-----------------------------------------------------------------------------
(***************************************************************************)
(* The commands of the operands.                                           *)
(***************************************************************************)
(* The operands on the stack s *)
OperandsOf(s) == {k \in 2 .. Len(s) : Symbol[s[k].st_num] \in Nonterminals}

Ends(s) == {s[k].end : k \in OperandsOf(s)}

(* The operands of s have the commands 1 .. z in turn: each begins where    *)
(* the one before it ends.                                                  *)
Tiled(s, z) ==
    /\ \A k \in OperandsOf(s) :
          /\ s[k].begin <= s[k].end
          /\ \/ s[k].begin = 1
             \/ \E j \in OperandsOf(s) : j < k /\ s[k].begin = s[j].end + 1
    /\ \A j, k \in OperandsOf(s) : j < k => s[j].end < s[k].begin
    /\ \/ OperandsOf(s) = {} /\ z = 0
       \/ \E k \in OperandsOf(s) : s[k].end = z

(* The arguments of the command c *)
Args(c) ==
    CASE c.name \in {"Or", "Concat"}                   -> {c.first, c.second}
      [] c.name \in {"Kleene", "Positive", "Optional"} -> {c.first}
      [] OTHER                                         -> {}

(* The commands of b are a forest with the roots R. *)
Forest(b, R) ==
    /\ \A k \in DOMAIN b : Args(b[k]) \subseteq 1 .. k - 1
    /\ \A k \in DOMAIN b : b[k].name \in {"Or", "Concat"} => b[k].first # b[k].second
    /\ \A j, k \in DOMAIN b : j # k => Args(b[j]) \cap Args(b[k]) = {}
    /\ \A k \in DOMAIN b : k \in R <=> \A j \in DOMAIN b : k \notin Args(b[j])

(* Unless commands were lost, the operands on the stack are the trees of    *)
(* the buffer, side by side.                                                *)
OperandsInv ==
    /\ StackInv
    /\ ~Full => Tiled(parser_stack, Len(buf_)) /\ Forest(buf_, Ends(parser_stack))

-----------------------------------------------------------------------------
(* What tiling says of the places of operands in the buffer *)
LEMMA TiledOperands ==
    ASSUME NEW z \in Nat, NEW s \in Seq(StackItem(z)), Tiled(s, z)
    PROVE  /\ \A k \in OperandsOf(s) : /\ k \in 2 .. Len(s) /\ s[k].begin \in Nat /\ s[k].end \in Nat
                                       /\ 1 <= s[k].begin /\ s[k].begin <= s[k].end /\ s[k].end <= z
           /\ \A j, k \in OperandsOf(s) : j < k => s[j].end < s[k].end
           /\ \A l \in OperandsOf(s) :
                 (\A k \in OperandsOf(s) : k <= l) => s[l].end = z
<1>1. ASSUME NEW k \in OperandsOf(s)
      PROVE  /\ k \in 2 .. Len(s) /\ s[k].begin \in 0 .. z /\ s[k].end \in 0 .. z
             /\ s[k].begin <= s[k].end
  <2>1. k \in 2 .. Len(s) /\ s[k] \in StackItem(z)
    BY DEF OperandsOf
  <2> QED
    BY <2>1 DEF StackItem, Tiled
<1>2. ASSUME NEW k \in OperandsOf(s) PROVE s[k].begin >= 1
  <2>1. CASE s[k].begin = 1
    BY <2>1
  <2>2. CASE \E j \in OperandsOf(s) : j < k /\ s[k].begin = s[j].end + 1
    BY <1>1, <2>2
  <2> QED
    BY <2>1, <2>2 DEF Tiled
<1>3. ASSUME NEW j \in OperandsOf(s), NEW k \in OperandsOf(s), j < k
      PROVE  s[j].end < s[k].end
  <2>1. s[j].end < s[k].begin
    BY <1>3 DEF Tiled
  <2> QED
    BY <1>1, <2>1
<1>4. ASSUME NEW l \in OperandsOf(s), \A k \in OperandsOf(s) : k <= l
      PROVE  s[l].end = z
  <2>1. PICK k \in OperandsOf(s) : s[k].end = z
    BY DEF Tiled
  <2>2. CASE k < l
    BY <1>1, <1>3, <2>1, <2>2
  <2>3. CASE k = l
    BY <2>1, <2>3
  <2> QED
    BY <1>1, <1>4, <2>2, <2>3
<1> QED
  BY <1>1, <1>2, <1>3, <1>4

(* In s2 one operand takes the place of the last ones of s, f and l; m is   *)
(* its place.                                                               *)
Replaces(s, s2, m, f, l) ==
    /\ f \in OperandsOf(s) /\ l \in OperandsOf(s)
    /\ m \in Nat /\ m <= f /\ f <= l
    /\ \A k \in OperandsOf(s) : k < m \/ k = f \/ k = l
    /\ OperandsOf(s2) = {k \in OperandsOf(s) : k < m} \cup {m}
    /\ \A k \in OperandsOf(s) : k < m => s2[k] = s[k]

EndsReplaced(s, s2, m, f, l) ==
    \A e : e \in Ends(s2) <=> \/ e \in Ends(s) /\ e # s[f].end /\ e # s[l].end
                             \/ e = s2[m].end

(* It has their commands, and perhaps one more. *)
EndsAt(s, s2, m, l, z, z2) ==
    \/ z2 = z /\ s2[m].end = s[l].end
    \/ z2 = z + 1 /\ s2[m].end = z2

(* The ranges stay without gaps when two operands give way to one. *)
LEMMA TiledReplaced ==
    ASSUME NEW z \in Nat, NEW s \in Seq(StackItem(z)), Tiled(s, z),
           NEW s2, NEW m, NEW f, NEW l, Replaces(s, s2, m, f, l),
           s2[m].begin = s[f].begin,
           NEW z2, EndsAt(s, s2, m, l, z, z2)
    PROVE  Tiled(s2, z2) /\ EndsReplaced(s, s2, m, f, l)
<1>0. /\ f \in OperandsOf(s) /\ l \in OperandsOf(s)
      /\ m \in Nat /\ m <= f /\ f <= l
      /\ \A k \in OperandsOf(s) : k < m \/ k = f \/ k = l
      /\ OperandsOf(s2) = {k \in OperandsOf(s) : k < m} \cup {m}
      /\ \A k \in OperandsOf(s) : k < m => s2[k] = s[k]
  BY DEF Replaces
<1> USE <1>0
<1>1. /\ \A k \in OperandsOf(s) : /\ k \in Nat /\ s[k].begin \in Nat /\ s[k].end \in Nat
                                  /\ 1 <= s[k].begin /\ s[k].begin <= s[k].end /\ s[k].end <= z
      /\ \A j, k \in OperandsOf(s) : j < k => s[j].end < s[k].end
  BY TiledOperands
<1>2. \A j, k \in OperandsOf(s) : j < k => s[j].end < s[k].begin
  BY DEF Tiled
<1>3. s[l].end = z /\ s[f].end <= z
  <2>1. \A k \in OperandsOf(s) : k <= l
    BY <1>1
  <2> QED
    BY <1>1, <2>1, TiledOperands
<1>4. s2[m].end = z2 /\ z2 \in {z, z + 1}
  BY <1>3 DEF EndsAt
<1>5. s2[m].begin <= s2[m].end
  BY <1>1, <1>3, <1>4
<1>6. ASSUME NEW k \in OperandsOf(s2)
      PROVE  /\ s2[k].begin <= s2[k].end
             /\ \/ s2[k].begin = 1
                \/ \E j \in OperandsOf(s2) : j < k /\ s2[k].begin = s2[j].end + 1
  <2>1. CASE k = m
    <3>1. \/ s[f].begin = 1
          \/ \E j \in OperandsOf(s) : j < f /\ s[f].begin = s[j].end + 1
      BY DEF Tiled
    <3>2. ASSUME NEW j \in OperandsOf(s), j < f, s[f].begin = s[j].end + 1
          PROVE  j < m /\ j \in OperandsOf(s2) /\ s2[j] = s[j]
      BY <1>1, <3>2
    <3> QED
      BY <1>5, <2>1, <3>1, <3>2
  <2>2. CASE k # m
    <3>1. k \in OperandsOf(s) /\ k < m /\ s2[k] = s[k]
      BY <2>2
    <3>2. \/ s[k].begin = 1
          \/ \E j \in OperandsOf(s) : j < k /\ s[k].begin = s[j].end + 1
      BY <3>1 DEF Tiled
    <3>3. ASSUME NEW j \in OperandsOf(s), j < k
          PROVE  j \in OperandsOf(s2) /\ s2[j] = s[j]
      BY <1>1, <3>1, <3>3
    <3> QED
      BY <1>1, <3>1, <3>2, <3>3
  <2> QED
    BY <2>1, <2>2
<1>7. ASSUME NEW j \in OperandsOf(s2), NEW k \in OperandsOf(s2), j < k
      PROVE  s2[j].end < s2[k].begin
  <2>1. j # m /\ j \in OperandsOf(s) /\ j < m /\ s2[j] = s[j]
    <3>1. \A i \in OperandsOf(s2) : i \in Nat /\ i <= m
      BY <1>1
    <3>2. j # m
      BY <1>7, <3>1
    <3> QED
      BY <3>2
  <2>2. CASE k = m
    <3>1. j \in Nat /\ f \in Nat /\ j < f
      BY <1>1, <2>1
    <3>2. s[j].end < s[f].begin
      BY <1>2, <2>1, <3>1
    <3> QED
      BY <2>1, <2>2, <3>2
  <2>3. CASE k # m
    BY <1>2, <1>7, <2>1, <2>3
  <2> QED
    BY <2>2, <2>3
<1>8. Tiled(s2, z2)
  <2>1. m \in OperandsOf(s2)
    OBVIOUS
  <2> QED
    BY <1>4, <1>6, <1>7, <2>1 DEF Tiled
<1>9. ASSUME NEW k \in OperandsOf(s), k < m
      PROVE  s[k].end # s[f].end /\ s[k].end # s[l].end
  BY <1>1, <1>9
<1>10. ASSUME NEW e
       PROVE  e \in Ends(s2) <=> \/ e \in Ends(s) /\ e # s[f].end /\ e # s[l].end
                                 \/ e = s2[m].end
  <2>1. CASE e = s2[m].end
    BY <2>1 DEF Ends
  <2>2. CASE e # s2[m].end
    <3>1. e \in Ends(s2) <=> \E k \in OperandsOf(s) : k < m /\ e = s[k].end
      BY <2>2 DEF Ends
    <3>2. e \in Ends(s) <=> \E k \in OperandsOf(s) : e = s[k].end
      BY DEF Ends
    <3> QED
      BY <1>9, <2>2, <3>1, <3>2
  <2> QED
    BY <2>1, <2>2
<1> QED
  BY <1>8, <1>10 DEF EndsReplaced

(* In s2 one operand, in the place m, is added to those of s: it has the    *)
(* command after z.                                                         *)
Adds(s, s2, m, z) ==
    /\ m \in Nat /\ \A k \in OperandsOf(s) : k < m
    /\ OperandsOf(s2) = OperandsOf(s) \cup {m}
    /\ \A k \in OperandsOf(s) : s2[k] = s[k]
    /\ s2[m].begin = z + 1 /\ s2[m].end = z + 1

EndsExtended(s, s2, z) == \A e : e \in Ends(s2) <=> e \in Ends(s) \/ e = z + 1

(* They stay so when an operand with a new command comes on top. *)
LEMMA TiledExtended ==
    ASSUME NEW z \in Nat, NEW s \in Seq(StackItem(z)), Tiled(s, z),
           NEW s2, NEW m, Adds(s, s2, m, z)
    PROVE  Tiled(s2, z + 1) /\ EndsExtended(s, s2, z)
<1>0. /\ m \in Nat /\ \A k \in OperandsOf(s) : k < m
      /\ OperandsOf(s2) = OperandsOf(s) \cup {m}
      /\ \A k \in OperandsOf(s) : s2[k] = s[k]
      /\ s2[m].begin = z + 1 /\ s2[m].end = z + 1
  BY DEF Adds
<1> USE <1>0
<1>1. \A k \in OperandsOf(s) : /\ k \in Nat /\ s[k].begin \in Nat /\ s[k].end \in Nat
                               /\ s[k].begin <= s[k].end /\ s[k].end <= z
  BY TiledOperands
<1>2. ASSUME NEW k \in OperandsOf(s2)
      PROVE  /\ s2[k].begin <= s2[k].end
             /\ \/ s2[k].begin = 1
                \/ \E j \in OperandsOf(s2) : j < k /\ s2[k].begin = s2[j].end + 1
  <2>1. CASE k = m
    <3>1. CASE OperandsOf(s) = {} /\ z = 0
      BY <2>1, <3>1
    <3>2. CASE \E j \in OperandsOf(s) : s[j].end = z
      <4>1. PICK j \in OperandsOf(s) : s[j].end = z
        BY <3>2
      <4>2. j \in OperandsOf(s2) /\ j < k /\ s2[j].end = z
        BY <2>1, <4>1
      <4> QED
        BY <2>1, <4>2
    <3> QED
      BY <3>1, <3>2 DEF Tiled
  <2>2. CASE k # m
    <3>1. k \in OperandsOf(s) /\ s2[k] = s[k]
      BY <2>2
    <3>2. \/ s[k].begin = 1
          \/ \E j \in OperandsOf(s) : j < k /\ s[k].begin = s[j].end + 1
      BY <3>1 DEF Tiled
    <3> QED
      BY <1>1, <3>1, <3>2
  <2> QED
    BY <2>1, <2>2
<1>3. ASSUME NEW j \in OperandsOf(s2), NEW k \in OperandsOf(s2), j < k
      PROVE  s2[j].end < s2[k].begin
  <2>1. j \in OperandsOf(s) /\ s2[j] = s[j]
    BY <1>1, <1>3
  <2>2. CASE k = m
    BY <1>1, <2>1, <2>2
  <2>3. CASE k # m
    BY <1>3, <2>1, <2>3 DEF Tiled
  <2> QED
    BY <2>2, <2>3
<1>4. m \in OperandsOf(s2)
  OBVIOUS
<1>5. Tiled(s2, z + 1)
  BY <1>2, <1>3, <1>4 DEF Tiled
<1>6. EndsExtended(s, s2, z)
  BY DEF Ends, EndsExtended
<1> QED
  BY <1>5, <1>6

-----------------------------------------------------------------------------
(* A command whose arguments are roots joins their trees. *)
LEMMA ForestGrows ==
    ASSUME NEW b \in Seq(BufferItem), NEW R, Forest(b, R), NEW c \in BufferItem,
           Args(c) \subseteq R \cap 1 .. Len(b),
           c.name \in {"Or", "Concat"} => c.first # c.second,
           NEW R2, \A k \in 1 .. Len(b) : k \in R2 <=> k \in R /\ k \notin Args(c),
           Len(b) + 1 \in R2
    PROVE  Forest(Append(b, c), R2)
<1> DEFINE a == Append(b, c)
           n == Len(b)
<1>1. /\ n \in Nat /\ DOMAIN b = 1 .. n /\ DOMAIN a = 1 .. n + 1
      /\ \A k \in 1 .. n : a[k] = b[k]
      /\ a[n + 1] = c
  OBVIOUS
<1> HIDE DEF a
<1>2. \A k \in 1 .. n : Args(b[k]) \subseteq 1 .. k - 1
  BY <1>1 DEF Forest
<1>3. ASSUME NEW k \in DOMAIN a PROVE Args(a[k]) \subseteq 1 .. k - 1
  BY <1>1, <1>2
<1>4. ASSUME NEW k \in DOMAIN a, a[k].name \in {"Or", "Concat"} PROVE a[k].first # a[k].second
  BY <1>1, <1>4 DEF Forest
<1>5. \A k \in 1 .. n : k \in R => \A j \in 1 .. n : k \notin Args(b[j])
  BY <1>1 DEF Forest
<1>6. \A j \in 1 .. n : Args(b[j]) \cap Args(c) = {}
  BY <1>5
<1>7. ASSUME NEW j \in DOMAIN a, NEW k \in DOMAIN a, j # k
      PROVE  Args(a[j]) \cap Args(a[k]) = {}
  <2>1. CASE j \in 1 .. n /\ k \in 1 .. n
    BY <1>1, <1>7, <2>1 DEF Forest
  <2>2. CASE j = n + 1 \/ k = n + 1
    BY <1>1, <1>6, <1>7, <2>2
  <2> QED
    BY <1>1, <2>1, <2>2
<1>8. ASSUME NEW k \in DOMAIN a
      PROVE  k \in R2 <=> \A j \in DOMAIN a : k \notin Args(a[j])
  <2>1. CASE k = n + 1
    <3>1. \A j \in DOMAIN a : k \notin Args(a[j])
      BY <1>1, <1>2, <2>1
    <3> QED
      BY <2>1, <3>1
  <2>2. CASE k \in 1 .. n
    <3>1. k \in R <=> \A j \in 1 .. n : k \notin Args(b[j])
      BY <1>1, <2>2 DEF Forest
    <3>2. (\A j \in DOMAIN a : k \notin Args(a[j]))
             <=> k \notin Args(c) /\ \A j \in 1 .. n : k \notin Args(b[j])
      BY <1>1
    <3> QED
      BY <2>2, <3>1, <3>2
  <2> QED
    BY <1>1, <2>1, <2>2
<1>9. Forest(a, R2)
  BY <1>3, <1>4, <1>7, <1>8 DEF Forest
<1> QED
  BY <1>9 DEF a

(* Neither actions nor equal roots change the forest. *)
LEMMA ForestStays ==
    ASSUME NEW b, NEW R, Forest(b, R), NEW a, DOMAIN a = DOMAIN b,
           \A k \in DOMAIN b : /\ a[k].name = b[k].name
                               /\ a[k].first = b[k].first /\ a[k].second = b[k].second,
           NEW R2, \A k \in DOMAIN b : k \in R2 <=> k \in R
    PROVE  Forest(a, R2)
<1>1. \A k \in DOMAIN b : Args(a[k]) = Args(b[k])
  BY DEF Args
<1> QED
  BY <1>1 DEF Forest

-----------------------------------------------------------------------------
(* The operands in the right-hand side of a rule *)
FirstOperand(r) == IF r \in {"S_is_pTq", "H_is_LP_T_RP"} THEN 2 ELSE 1

LastOperand(r) ==
    CASE r = "T_is_TbE"                                  -> 3
      [] r \in {"S_is_pTq", "H_is_LP_T_RP", "E_is_EF"}   -> 2
      [] OTHER                                           -> 1

(* The rules that generate a command of their operands *)
Operators == {"T_is_TbE", "E_is_EF", "F_is_Gc"}

(* The first and the last operand of a right-hand side are all it has. *)
LEMMA RuleOperands ==
    ASSUME NEW r \in DOMAIN rules
    PROVE  /\ rules[r].len \in {1, 2, 3}
           /\ r = "H_is_d" => rules[r].len = 1 /\ Right[r][1] \notin Nonterminals
           /\ r # "H_is_d" =>
                 /\ FirstOperand(r) \in 1 .. rules[r].len /\ LastOperand(r) \in 1 .. rules[r].len
                 /\ FirstOperand(r) <= LastOperand(r)
                 /\ Right[r][FirstOperand(r)] \in Nonterminals
                 /\ Right[r][LastOperand(r)] \in Nonterminals
                 /\ \A i \in 1 .. rules[r].len : Right[r][i] \in Nonterminals =>
                       i = FirstOperand(r) \/ i = LastOperand(r)
<1> USE DEF rules, Right, Nonterminals, FirstOperand, LastOperand
<1>1. CASE r \in {"S_is_pTq", "H_is_LP_T_RP"}
  <2>1. /\ rules[r].len = 3 /\ FirstOperand(r) = 2 /\ LastOperand(r) = 2
        /\ Right[r][1] \notin Nonterminals /\ Right[r][2] \in Nonterminals
        /\ Right[r][3] \notin Nonterminals
    BY <1>1
  <2> HIDE DEF rules, Right, Nonterminals, FirstOperand, LastOperand
  <2> QED
    BY <1>1, <2>1
<1>2. CASE r = "T_is_TbE"
  <2>1. /\ rules[r].len = 3 /\ FirstOperand(r) = 1 /\ LastOperand(r) = 3
        /\ Right[r][1] \in Nonterminals /\ Right[r][2] \notin Nonterminals
        /\ Right[r][3] \in Nonterminals
    BY <1>2
  <2> HIDE DEF rules, Right, Nonterminals, FirstOperand, LastOperand
  <2> QED
    BY <1>2, <2>1
<1>3. CASE r = "E_is_EF"
  <2>1. /\ rules[r].len = 2 /\ FirstOperand(r) = 1 /\ LastOperand(r) = 2
        /\ Right[r][1] \in Nonterminals /\ Right[r][2] \in Nonterminals
    BY <1>3
  <2> HIDE DEF rules, Right, Nonterminals, FirstOperand, LastOperand
  <2> QED
    BY <1>3, <2>1
<1>4. CASE r \in {"F_is_Gc", "G_is_Ha"}
  <2>1. /\ rules[r].len = 2 /\ FirstOperand(r) = 1 /\ LastOperand(r) = 1
        /\ Right[r][1] \in Nonterminals /\ Right[r][2] \notin Nonterminals
    BY <1>4
  <2> HIDE DEF rules, Right, Nonterminals, FirstOperand, LastOperand
  <2> QED
    BY <1>4, <2>1
<1>5. CASE r \in {"T_is_E", "E_is_F", "F_is_G", "G_is_H"}
  <2>1. /\ rules[r].len = 1 /\ FirstOperand(r) = 1 /\ LastOperand(r) = 1
        /\ Right[r][1] \in Nonterminals
    BY <1>5
  <2> HIDE DEF rules, Right, Nonterminals, FirstOperand, LastOperand
  <2> QED
    BY <1>5, <2>1
<1>6. CASE r = "H_is_d"
  BY <1>6
<1> QED
  BY <1>1, <1>2, <1>3, <1>4, <1>5, <1>6

(* The attributes of the new operand: it begins with the first one of the   *)
(* rule, and ends with the last one or with the command of the rule.        *)
LEMMA RuleAttributes ==
    ASSUME NEW r \in DOMAIN rules, r # "H_is_d", NEW size
    PROVE  /\ attrib_calc(r, size)[1] = Body(r)[FirstOperand(r)].begin
           /\ attrib_calc(r, size)[2] = IF r \in Operators THEN size
                                        ELSE Body(r)[LastOperand(r)].end
<1>1. CASE r \in Operators
  BY <1>1 DEF attrib_calc, FirstOperand, Operators
<1>2. CASE r \in {"S_is_pTq", "H_is_LP_T_RP"}
  BY <1>2 DEF attrib_calc, FirstOperand, LastOperand, Operators
<1>3. CASE r \notin Operators \cup {"S_is_pTq", "H_is_LP_T_RP"}
  BY <1>3 DEF attrib_calc, FirstOperand, LastOperand, Operators
<1> QED
  BY <1>1, <1>2, <1>3

(* What a reduction by r does to the operands: those of the right-hand side *)
(* give way to one, x in the place m of the new stack s2.                   *)
ReducesTo(r, m, x, s2) ==
    /\ r \in DOMAIN rules /\ m \in 2 .. Len(parser_stack)
    /\ \A k \in 1 .. m - 1 : s2[k] = parser_stack[k]
    /\ Len(s2) = m /\ s2[m] = x
    /\ OperandsOf(s2) = {k \in OperandsOf(parser_stack) : k < m} \cup {m}
    /\ \A i \in 1 .. rules[r].len :
          /\ Body(r)[i] = parser_stack[m + i - 1]
          /\ m + i - 1 \in OperandsOf(parser_stack) <=> Right[r][i] \in Nonterminals
    /\ \A k \in OperandsOf(parser_stack) : k < m \/ k - m + 1 \in 1 .. rules[r].len

(* Every reduction of a state does this. *)
LEMMA Reduction ==
    ASSUME StackInv, current_state \in DOMAIN reduce_rules,
           NEW r, r = reduce_rules[current_state],
           NEW x, x.st_num = next_state(Last(Below(r)).st_num, rules[r].nt),
           NEW s2, s2 = Append(Below(r), x),
           NEW m, m = Len(parser_stack) - rules[r].len + 1
    PROVE  ReducesTo(r, m, x, s2)
<1> DEFINE n == Len(parser_stack)
           len == rules[r].len
           z == Len(buf_)
<1>1. /\ parser_stack \in Seq(StackItem(z)) /\ IsPath(parser_stack) /\ n \in Nat
  BY StackPath DEF StackInv, TypeOK
<1>2. r \in DOMAIN rules
  BY DEF reduce_rules, rules
<1>3. current_state = FromTop(1)
  <2>1. n - 1 + 1 = n
    BY <1>1
  <2> QED
    BY <2>1, Zenon DEF current_state, Last, FromTop
<1>4. HandleFits(r)
  BY <1>3, Handles DEF StackInv
<1>5. HandleOnTop
  BY HandlesOnTop DEF StackInv
<1>6. /\ len \in {1, 2, 3} /\ len < n
      /\ Symbol[next_state(FromTop(len + 1), rules[r].nt)] \in Nonterminals
      /\ \A i \in 1 .. len : Symbol[Body(r)[i].st_num] = Right[r][i]
  BY <1>4, <1>5 DEF HandleFits, HandleOnTop
<1>7. /\ \A i \in 1 .. len : Body(r)[i] = parser_stack[n - len + i]
      /\ Below(r) \in Seq(StackItem(z)) /\ Len(Below(r)) = n - len
      /\ \A i \in 1 .. Len(Below(r)) : Below(r)[i] = parser_stack[i]
      /\ Below(r)[Len(Below(r))].st_num = FromTop(len + 1)
  BY <1>1, <1>6, BodyBelow
<1>8. Symbol[x.st_num] \in Nonterminals
  BY <1>6, <1>7 DEF Last
<1>9. m \in 2 .. n /\ m = n - len + 1 /\ m - 1 = Len(Below(r))
  <2>1. m = n - len + 1 /\ Len(Below(r)) = n - len
    BY <1>7
  <2>2. n \in Nat /\ len \in {1, 2, 3} /\ len < n
    BY <1>1, <1>6
  <2> HIDE DEF n, len
  <2>3. n - len + 1 \in 2 .. n /\ (n - len + 1) - 1 = n - len
    BY <2>2
  <2> QED
    BY <2>1, <2>3, Zenon
<1>10. \A k \in 1 .. m - 1 : Below(r)[k] = parser_stack[k]
  BY <1>7, <1>9
<1>11. /\ Len(s2) = m /\ s2[m] = x
       /\ \A k \in 1 .. m - 1 : s2[k] = parser_stack[k]
  <2>1. Below(r) \in Seq(StackItem(z) \cup {x}) /\ x \in StackItem(z) \cup {x}
    BY <1>7
  <2> QED
    BY <1>9, <1>10, <2>1
<1>12. OperandsOf(s2) = {k \in OperandsOf(parser_stack) : k < m} \cup {m}
  BY <1>8, <1>9, <1>11 DEF OperandsOf
<1> HIDE DEF n, len, z
<1>13. ASSUME NEW i \in 1 .. len
       PROVE  /\ Body(r)[i] = parser_stack[m + i - 1]
              /\ m + i - 1 \in OperandsOf(parser_stack) <=> Right[r][i] \in Nonterminals
  <2>1. n - len + i = m + i - 1 /\ m + i - 1 \in 2 .. n
    BY <1>1, <1>6, <1>9
  <2>2. Body(r)[i] = parser_stack[m + i - 1]
    BY <1>7, <2>1
  <2> QED
    BY <1>6, <2>1, <2>2 DEF OperandsOf, n
<1>14. ASSUME NEW k \in OperandsOf(parser_stack)
       PROVE  k < m \/ k - m + 1 \in 1 .. len
  BY <1>1, <1>6, <1>9 DEF OperandsOf, n
<1> QED
  BY <1>2, <1>9, <1>11, <1>12, <1>13, <1>14 DEF n, len, ReducesTo

(* An operand of a terminal: its command is a leaf. *)
LEMMA LeafKeepsOperands ==
    ASSUME OperandsInv, ~Full, current_state \in DOMAIN reduce_rules,
           reduce_rules[current_state] = "H_is_d",
           NEW g, g = Generated("H_is_d"),
           NEW x, x.st_num = next_state(Last(Below("H_is_d")).st_num, rules["H_is_d"].nt),
           x.begin = attrib_calc("H_is_d", Len(g))[1], x.end = attrib_calc("H_is_d", Len(g))[2],
           NEW s2, s2 = Append(Below("H_is_d"), x)
    PROVE  Tiled(s2, Len(g)) /\ Forest(g, Ends(s2))
<1> DEFINE r == "H_is_d"
           z == Len(buf_)
           n == Len(parser_stack)
           m == n - rules[r].len + 1
           c == Command(CommandName[Body(r)[1].li.code], Body(r)[1].li.idx, 0)
<1>1. /\ z \in Nat /\ z < MaxCommands /\ buf_ \in Seq(BufferItem) /\ n \in Nat
      /\ parser_stack \in Seq(StackItem(z))
      /\ Tiled(parser_stack, z) /\ Forest(buf_, Ends(parser_stack))
  BY MaxCommandsAssumption DEF OperandsInv, StackInv, TypeOK, Full
<1>2. rules[r].len = 1 /\ Right[r][1] \notin Nonterminals /\ m = n
  BY <1>1 DEF rules, Right, Nonterminals
<1>3. /\ m \in 2 .. n
      /\ \A k \in 1 .. m - 1 : s2[k] = parser_stack[k]
      /\ s2[m] = x
      /\ OperandsOf(s2) = {k \in OperandsOf(parser_stack) : k < m} \cup {m}
      /\ \A i \in 1 .. 1 :
            /\ Body(r)[i] = parser_stack[m + i - 1]
            /\ m + i - 1 \in OperandsOf(parser_stack) <=> Right[r][i] \in Nonterminals
      /\ \A k \in OperandsOf(parser_stack) : k < m \/ k - m + 1 \in 1 .. 1
  <2>1. ReducesTo(r, m, x, s2)
    BY Reduction DEF OperandsInv
  <2> HIDE DEF m, n, r
  <2> QED
    BY <1>2, <2>1 DEF ReducesTo, n
<1>4. Body(r)[1] = parser_stack[n] /\ n \notin OperandsOf(parser_stack)
  <2>1. 1 \in 1 .. 1 /\ m + 1 - 1 = n
    BY <1>1, <1>2
  <2> QED
    BY <1>2, <1>3, <2>1
<1>5. \A k \in OperandsOf(parser_stack) : k \in 2 .. m - 1
  <2>1. \A k \in OperandsOf(parser_stack) : k \in 2 .. n /\ k # n
    BY <1>4 DEF OperandsOf
  <2> QED
    BY <1>1, <1>2, <2>1
<1>6. /\ c \in BufferItem /\ c.name \in {"Char", "Char_class_complement", "Char_class"}
  <2>1. current_state = 8
    BY DEF reduce_rules
  <2>2. /\ CommandName[Body(r)[1].li.code] \in {"Char", "Char_class_complement", "Char_class"}
        /\ Body(r)[1].li.code \in DOMAIN CommandName /\ Body(r)[1].li.idx \in Nat
    BY <1>1, <1>3, <1>4, <2>1, LexemeOnTop DEF OperandsInv, StackInv
  <2> QED
    BY <2>2 DEF Command, BufferItem, Range
<1>7. g = Append(buf_, c) /\ Len(g) = z + 1
  <2>1. g = Emitted(c)
    BY GeneratedOf
  <2>2. Emitted(c) = Append(buf_, c)
    BY <1>1 DEF Emitted
  <2> QED
    BY <1>1, <1>6, <2>1, <2>2
<1>8. x.begin = z + 1 /\ x.end = z + 1
  BY <1>7 DEF attrib_calc
<1> HIDE DEF c, m, n, z, r
<1>9. Tiled(s2, z + 1) /\ EndsExtended(parser_stack, s2, z)
  <2>0. m \in Nat /\ \A k \in OperandsOf(parser_stack) : k < m /\ k \in 1 .. m - 1
    BY <1>1, <1>3, <1>5
  <2>1. OperandsOf(s2) = OperandsOf(parser_stack) \cup {m}
    BY <1>3, <2>0
  <2>2. \A k \in OperandsOf(parser_stack) : k < m /\ s2[k] = parser_stack[k]
    BY <1>3, <2>0
  <2>3. m \in Nat /\ s2[m].begin = z + 1 /\ s2[m].end = z + 1
    BY <1>3, <1>8, <2>0
  <2>4. Adds(parser_stack, s2, m, z)
    BY <2>0, <2>1, <2>2, <2>3 DEF Adds
  <2> QED
    BY <1>1, <2>4, TiledExtended
<1>10. Forest(g, Ends(s2))
  <2>1. Args(c) = {}
    BY <1>6 DEF Args
  <2>2. \A k \in 1 .. Len(buf_) : k \in Ends(s2) <=> k \in Ends(parser_stack) /\ k \notin Args(c)
    BY <1>1, <1>9, <2>1 DEF z, EndsExtended
  <2>3. Len(buf_) + 1 \in Ends(s2)
    BY <1>9 DEF z, EndsExtended
  <2>4. c.name \in {"Or", "Concat"} => c.first # c.second
    BY <1>6
  <2> QED
    BY <1>1, <1>6, <1>7, <2>1, <2>2, <2>3, <2>4, ForestGrows
<1> QED
  BY <1>7, <1>9, <1>10

(* Where the operands of a reduction are *)
ReducesOperands(r, m, f, l, x, s2) ==
    /\ r \in DOMAIN rules /\ Replaces(parser_stack, s2, m, f, l) /\ s2[m] = x
    /\ Body(r)[FirstOperand(r)] = parser_stack[f]
    /\ Body(r)[LastOperand(r)] = parser_stack[l]
    /\ f < l <=> FirstOperand(r) < LastOperand(r)

(* A rule with operands takes them from these places. *)
LEMMA ReducedOperands ==
    ASSUME StackInv, current_state \in DOMAIN reduce_rules,
           NEW r, r = reduce_rules[current_state], r # "H_is_d",
           NEW m, m = Len(parser_stack) - rules[r].len + 1,
           NEW f, f = m + (FirstOperand(r) - 1), NEW l, l = m + (LastOperand(r) - 1),
           NEW x, x.st_num = next_state(Last(Below(r)).st_num, rules[r].nt),
           NEW s2, s2 = Append(Below(r), x)
    PROVE  ReducesOperands(r, m, f, l, x, s2)
<1> DEFINE n == Len(parser_stack)
           len == rules[r].len
           fo == FirstOperand(r)
           lo == LastOperand(r)
<1>1. /\ r \in DOMAIN rules /\ m \in 2 .. n
      /\ \A k \in 1 .. m - 1 : s2[k] = parser_stack[k]
      /\ s2[m] = x
      /\ OperandsOf(s2) = {k \in OperandsOf(parser_stack) : k < m} \cup {m}
      /\ \A i \in 1 .. len :
            /\ Body(r)[i] = parser_stack[m + i - 1]
            /\ m + i - 1 \in OperandsOf(parser_stack) <=> Right[r][i] \in Nonterminals
      /\ \A k \in OperandsOf(parser_stack) : k < m \/ k - m + 1 \in 1 .. len
  <2>1. ReducesTo(r, m, x, s2)
    BY Reduction
  <2> QED
    BY <2>1 DEF ReducesTo
<1>2. /\ len \in {1, 2, 3}
      /\ fo \in 1 .. len /\ lo \in 1 .. len /\ fo <= lo
      /\ Right[r][fo] \in Nonterminals /\ Right[r][lo] \in Nonterminals
      /\ \A i \in 1 .. len : Right[r][i] \in Nonterminals => i = fo \/ i = lo
  BY <1>1, RuleOperands
<1>3. n \in Nat /\ \A k \in OperandsOf(parser_stack) : k \in 2 .. n
  BY DEF StackInv, TypeOK, OperandsOf
<1> HIDE DEF n, len, fo, lo
<1>4. f = m + (fo - 1) /\ l = m + (lo - 1)
  BY DEF fo, lo
<1>5. m + fo - 1 = f /\ m + lo - 1 = l /\ m \in Nat /\ m <= f /\ f <= l /\ (f < l <=> fo < lo)
  <2>1. m \in Nat /\ fo \in Nat /\ lo \in Nat /\ fo >= 1 /\ fo <= lo
    BY <1>1, <1>2, <1>3
  <2> QED
    BY <1>4, <2>1
<1>6. ASSUME NEW k \in OperandsOf(parser_stack) PROVE k < m \/ k = f \/ k = l
  <2> SUFFICES ASSUME ~(k < m) PROVE k = f \/ k = l
    OBVIOUS
  <2>1. k - m + 1 \in 1 .. len
    BY <1>1
  <2>2. m + (k - m + 1) - 1 = k
    BY <1>1, <1>3
  <2>3. Right[r][k - m + 1] \in Nonterminals
    BY <1>1, <2>1, <2>2
  <2> DEFINE i == k - m + 1
  <2>4. k = m + (i - 1)
    BY <1>1, <1>3
  <2>5. i = fo \/ i = lo
    BY <1>2, <2>1, <2>3
  <2> HIDE DEF i
  <2> QED
    BY <1>4, <2>4, <2>5, Zenon
<1>7. \A k \in OperandsOf(parser_stack) : k < m => k \in 1 .. m - 1
  BY <1>3, <1>5
<1>8. /\ Body(r)[fo] = parser_stack[f] /\ Body(r)[lo] = parser_stack[l]
      /\ f \in OperandsOf(parser_stack) /\ l \in OperandsOf(parser_stack)
  <2>1. \A i \in 1 .. len : Right[r][i] \in Nonterminals =>
           Body(r)[i] = parser_stack[m + i - 1] /\ m + i - 1 \in OperandsOf(parser_stack)
    BY <1>1
  <2>2. Body(r)[fo] = parser_stack[m + fo - 1] /\ m + fo - 1 \in OperandsOf(parser_stack)
    BY <1>2, <2>1
  <2>3. Body(r)[lo] = parser_stack[m + lo - 1] /\ m + lo - 1 \in OperandsOf(parser_stack)
    BY <1>2, <2>1
  <2> QED
    BY <1>5, <2>2, <2>3, Zenon
<1>9. Replaces(parser_stack, s2, m, f, l)
  BY <1>1, <1>5, <1>6, <1>7, <1>8 DEF Replaces
<1> QED
  BY <1>1, <1>5, <1>8, <1>9 DEF fo, lo, ReducesOperands

(* A reduction whose operands get a new command, or keep theirs *)
LEMMA NodeKeepsOperands ==
    ASSUME OperandsInv, ~Full, current_state \in DOMAIN reduce_rules,
           NEW r, r = reduce_rules[current_state], r # "H_is_d",
           NEW g, g = Generated(r), Len(g) # MaxCommands,
           NEW x, x.st_num = next_state(Last(Below(r)).st_num, rules[r].nt),
           x.begin = attrib_calc(r, Len(g))[1], x.end = attrib_calc(r, Len(g))[2],
           NEW s2, s2 = Append(Below(r), x)
    PROVE  Tiled(s2, Len(g)) /\ Forest(g, Ends(s2))
<1> DEFINE z == Len(buf_)
           m == Len(parser_stack) - rules[r].len + 1
           f == m + (FirstOperand(r) - 1)
           l == m + (LastOperand(r) - 1)
           b == Body(r)
<1>1. /\ z \in Nat /\ z < MaxCommands /\ buf_ \in Seq(BufferItem)
      /\ parser_stack \in Seq(StackItem(z))
      /\ Tiled(parser_stack, z) /\ Forest(buf_, Ends(parser_stack)) /\ StackInv
  BY MaxCommandsAssumption DEF OperandsInv, StackInv, TypeOK, Full
<1>2. /\ r \in DOMAIN rules /\ Replaces(parser_stack, s2, m, f, l) /\ s2[m] = x
      /\ b[FirstOperand(r)] = parser_stack[f]
      /\ b[LastOperand(r)] = parser_stack[l]
      /\ f < l <=> FirstOperand(r) < LastOperand(r)
  <2>1. ReducesOperands(r, m, f, l, x, s2)
    BY <1>1, ReducedOperands
  <2> QED
    BY <2>1 DEF ReducesOperands
<1>3. /\ x.begin = parser_stack[f].begin
      /\ x.end = IF r \in Operators THEN Len(g) ELSE parser_stack[l].end
  BY <1>2, RuleAttributes
<1> HIDE DEF z, m, f, l, b
<1>0. /\ f \in OperandsOf(parser_stack) /\ l \in OperandsOf(parser_stack)
      /\ m \in OperandsOf(s2) /\ f <= l
  BY <1>2 DEF Replaces
<1>4. /\ parser_stack[f].end \in 1 .. z /\ parser_stack[l].end \in 1 .. z
      /\ f < l => parser_stack[f].end # parser_stack[l].end
  <2>1. /\ \A k \in OperandsOf(parser_stack) :
              /\ parser_stack[k].begin \in Nat /\ parser_stack[k].end \in Nat
              /\ 1 <= parser_stack[k].begin /\ parser_stack[k].begin <= parser_stack[k].end
              /\ parser_stack[k].end <= z
        /\ \A j, k \in OperandsOf(parser_stack) : j < k => parser_stack[j].end < parser_stack[k].end
    BY <1>1, TiledOperands
  <2> QED
    BY <1>0, <1>1, <2>1
<1>5. CASE r \in Operators
  <2>1. PICK c \in BufferItem : /\ g = Emitted(c)
                                /\ Args(c) = {parser_stack[f].end, parser_stack[l].end}
                                /\ c.name \in {"Or", "Concat"} => c.first # c.second
    <3> DEFINE pf == parser_stack[f].end
               pl == parser_stack[l].end
    <3>1. pf \in Nat /\ pl \in Nat
      BY <1>1, <1>4
    <3>2. CASE r \in {"T_is_TbE", "E_is_EF"}
      <4> DEFINE name == IF r = "T_is_TbE" THEN "Or" ELSE "Concat"
                 c == Command(name, pf, pl)
      <4>1. FirstOperand(r) = 1 /\ LastOperand(r) = IF r = "T_is_TbE" THEN 3 ELSE 2
        BY <3>2 DEF FirstOperand, LastOperand
      <4>2. b[1].end = pf /\ b[IF r = "T_is_TbE" THEN 3 ELSE 2].end = pl /\ pf # pl
        BY <1>2, <1>4, <4>1
      <4>3. g = Emitted(c)
        BY <3>2, <4>2, GeneratedOf DEF b
      <4> HIDE DEF pf, pl
      <4>4. c \in BufferItem /\ c.name \in {"Or", "Concat"} /\ c.first = pf /\ c.second = pl
        BY <3>1 DEF Command, BufferItem
      <4>5. Args(c) = {pf, pl}
        BY <4>4 DEF Args
      <4> QED
        BY <4>2, <4>3, <4>4, <4>5 DEF pf, pl
    <3>3. CASE r = "F_is_Gc"
      <4> DEFINE name == CommandName[b[2].li.code]
                 c == Command(name, pf, 0)
      <4>1. FirstOperand(r) = 1 /\ LastOperand(r) = 1 /\ b[1].end = pf /\ f = l
        <5>1. FirstOperand(r) = 1 /\ LastOperand(r) = 1
          BY <3>3 DEF FirstOperand, LastOperand
        <5> QED
          BY <1>2, <5>1 DEF f, l
      <4>2. g = Emitted(c)
        BY <3>3, <4>1, GeneratedOf DEF b
      <4>3. name \in {"Kleene", "Positive", "Optional"} /\ b[2].li.code \in DOMAIN CommandName
        <5>1. b[2] = parser_stack[Len(parser_stack)] /\ Len(parser_stack) >= 2
          <6>1. rules[r].len = 2
            BY <3>3 DEF rules
          <6>2. Body(r)[2] = parser_stack[m + 2 - 1] /\ m \in 2 .. Len(parser_stack)
            <7>1. ReducesTo(r, m, x, s2)
              BY <1>1, Reduction DEF m
            <7>2. 2 \in 1 .. rules[r].len
              BY <6>1
            <7> QED
              BY <7>1, <7>2 DEF ReducesTo
          <6>3. Len(parser_stack) \in Nat /\ m + 2 - 1 = Len(parser_stack)
            BY <1>1, <6>1 DEF m
          <6> QED
            BY <6>2, <6>3 DEF b
        <5>2. current_state = 13
          BY <3>3 DEF reduce_rules
        <5> QED
          BY <1>1, <5>1, <5>2, LexemeOnTop DEF StackInv
      <4> HIDE DEF pf, pl
      <4>4. c \in BufferItem /\ c.name = name /\ c.first = pf
        BY <3>1, <4>3 DEF Command, BufferItem, Range
      <4>5. Args(c) = {pf} /\ pf = pl
        BY <4>1, <4>3, <4>4 DEF Args, pf, pl
      <4> QED
        BY <4>2, <4>3, <4>4, <4>5 DEF pf, pl
    <3> QED
      BY <1>5, <3>2, <3>3 DEF Operators
  <2>2. g = Append(buf_, c) /\ Len(g) = z + 1
    <3>1. Emitted(c) = Append(buf_, c)
      BY <1>1 DEF Emitted, z
    <3> QED
      BY <1>1, <2>1, <3>1 DEF z
  <2>3. Tiled(s2, z + 1) /\ EndsReplaced(parser_stack, s2, m, f, l)
    <3>1. s2[m].begin = parser_stack[f].begin /\ s2[m].end = z + 1
      BY <1>2, <1>3, <1>5, <2>2
    <3>2. EndsAt(parser_stack, s2, m, l, z, z + 1)
      BY <3>1 DEF EndsAt
    <3> QED
      BY <1>1, <1>2, <3>1, <3>2, TiledReplaced
  <2>4. \A k \in 1 .. Len(buf_) : k \in Ends(s2) <=> k \in Ends(parser_stack) /\ k \notin Args(c)
    BY <1>1, <1>2, <1>3, <1>5, <2>1, <2>2, <2>3 DEF z, EndsReplaced
  <2>5. Len(buf_) + 1 \in Ends(s2)
    BY <1>0, <1>2, <1>3, <1>5, <2>2, <2>3 DEF z, EndsReplaced
  <2>6. Args(c) \subseteq Ends(parser_stack) \cap 1 .. Len(buf_)
    BY <1>0, <1>4, <2>1 DEF Ends, z
  <2>7. Forest(Append(buf_, c), Ends(s2))
    BY <1>1, <2>1, <2>4, <2>5, <2>6, ForestGrows
  <2> QED
    BY <2>2, <2>3, <2>7
<1>6. CASE r \notin Operators
  <2>1. f = l
    <3>1. FirstOperand(r) = LastOperand(r)
      BY <1>6 DEF FirstOperand, LastOperand, Operators
    <3> QED
      BY <3>1 DEF f, l
  <2>2. /\ DOMAIN g = DOMAIN buf_ /\ Len(g) = z
        /\ \A k \in DOMAIN buf_ : /\ g[k].name = buf_[k].name
                                  /\ g[k].first = buf_[k].first /\ g[k].second = buf_[k].second
    <3>1. CASE r = "G_is_Ha" /\ b[2].li.idx \in Actions
      <4> DEFINE act == b[2].li.idx
      <4>1. g = Marked(b[1], act)
        BY <3>1, GeneratedOf DEF b
      <4>2. g = [k \in DOMAIN buf_ |-> IF k \in b[1].begin .. b[1].end
                                       THEN [buf_[k] EXCEPT !.action = act] ELSE buf_[k]]
        BY <4>1 DEF Marked
      <4>3. DOMAIN g = DOMAIN buf_
        BY <4>2
      <4>4. BufferTypes(g)
        BY <1>1, <3>1, <4>1, MarkedTypes DEF StackInv
      <4>5. Len(g) = z
        BY <1>1, <4>3, <4>4 DEF BufferTypes, z
      <4>6. ASSUME NEW k \in DOMAIN buf_
            PROVE  /\ g[k].name = buf_[k].name
                   /\ g[k].first = buf_[k].first /\ g[k].second = buf_[k].second
        <5>1. buf_[k] \in BufferItem
          BY <1>1
        <5>2. /\ [buf_[k] EXCEPT !.action = act].name = buf_[k].name
              /\ [buf_[k] EXCEPT !.action = act].first = buf_[k].first
              /\ [buf_[k] EXCEPT !.action = act].second = buf_[k].second
          BY <5>1 DEF BufferItem
        <5>3. g[k] = [buf_[k] EXCEPT !.action = act] \/ g[k] = buf_[k]
          BY <4>2
        <5> QED
          BY <5>2, <5>3
      <4> QED
        BY <4>3, <4>5, <4>6
    <3>2. CASE ~(r = "G_is_Ha" /\ b[2].li.idx \in Actions)
      <4>1. g = buf_
        BY <1>6, <3>2, GeneratedOf DEF Operators, b
      <4> QED
        BY <4>1 DEF z
    <3> QED
      BY <3>1, <3>2
  <2>3. Tiled(s2, z) /\ EndsReplaced(parser_stack, s2, m, f, l)
    <3>1. s2[m].begin = parser_stack[f].begin /\ s2[m].end = parser_stack[l].end
      BY <1>2, <1>3, <1>6
    <3>2. EndsAt(parser_stack, s2, m, l, z, z)
      BY <3>1 DEF EndsAt
    <3> QED
      BY <1>1, <1>2, <3>1, <3>2, TiledReplaced
  <2>4. \A k \in DOMAIN buf_ : k \in Ends(s2) <=> k \in Ends(parser_stack)
    <3>1. parser_stack[f].end \in Ends(parser_stack) /\ s2[m].end = parser_stack[f].end
      BY <1>0, <1>2, <1>3, <1>6, <2>1 DEF Ends
    <3> QED
      BY <2>1, <2>3, <3>1 DEF EndsReplaced
  <2>5. Forest(g, Ends(s2))
    BY <1>1, <2>2, <2>4, ForestStays
  <2> QED
    BY <2>2, <2>3, <2>5
<1> QED
  BY <1>5, <1>6

-----------------------------------------------------------------------------
(* What a step must do to the operands unless commands are lost *)
OperandsKept ==
    ~Full' => Tiled(parser_stack', Len(buf_')) /\ Forest(buf_', Ends(parser_stack'))

(* The rule of the state on top is reduced, by the table or by a handler. *)
LEMMA ReduceKeepsOperands ==
    ASSUME OperandsInv, current_state \in DOMAIN reduce_rules,
           reduce(reduce_rules[current_state])
    PROVE  OperandsKept
<1> DEFINE r == reduce_rules[current_state]
           g == Generated(r)
           a == attrib_calc(r, Len(g))
           x == [st_num |-> next_state(Last(Below(r)).st_num, rules[r].nt),
                 li |-> EndOfText, begin |-> a[1], end |-> a[2]]
<1>1. buf_' = g /\ parser_stack' = Append(Below(r), x)
  BY DEF reduce
<1>2. BufferTypes(g)
  BY GeneratedTypes DEF OperandsInv, StackInv
<1> HIDE DEF g, a
<1>3. SUFFICES ASSUME ~Full' PROVE Tiled(parser_stack', Len(g)) /\ Forest(g, Ends(parser_stack'))
  BY <1>1 DEF OperandsKept
<1>4. Len(g) # MaxCommands
  BY <1>1, <1>3 DEF Full
<1>5. ~Full
  <2>1. /\ Len(buf_) \in Nat /\ Len(g) \in Nat /\ MaxCommands \in Nat
        /\ Len(g) <= MaxCommands /\ Len(buf_) <= Len(g)
    BY <1>2, MaxCommandsAssumption DEF BufferTypes, OperandsInv, StackInv, TypeOK
  <2> QED
    BY <1>4, <2>1 DEF Full
<1>6. /\ x.st_num = next_state(Last(Below(r)).st_num, rules[r].nt)
      /\ x.begin = a[1] /\ x.end = a[2]
  OBVIOUS
<1> HIDE DEF x
<1>7. CASE r = "H_is_d"
  BY <1>1, <1>5, <1>6, <1>7, LeafKeepsOperands DEF a, g
<1>8. CASE r # "H_is_d"
  BY <1>1, <1>4, <1>5, <1>6, <1>8, NodeKeepsOperands DEF a, g
<1> QED
  BY <1>7, <1>8

(* The same operands *)
LEMMA SameOperands ==
    ASSUME NEW s, NEW s2, OperandsOf(s2) = OperandsOf(s),
           \A k \in OperandsOf(s) : s2[k] = s[k], NEW z, Tiled(s, z)
    PROVE  Tiled(s2, z) /\ Ends(s2) = Ends(s)
<1>1. \A k \in OperandsOf(s) : s2[k].begin = s[k].begin /\ s2[k].end = s[k].end
  OBVIOUS
<1>2. Tiled(s2, z)
  BY <1>1 DEF Tiled
<1>3. Ends(s2) = Ends(s)
  BY <1>1 DEF Ends
<1> QED
  BY <1>2, <1>3

(* A terminal on the stack is no operand. *)
LEMMA PushKeepsOperands ==
    ASSUME OperandsInv, NEW s, Symbol[s] \notin Nonterminals,
           NEW li, parser_stack' = Pushed(s, li), UNCHANGED buf_
    PROVE  OperandsKept
<1> DEFINE x == [st_num |-> s, li |-> li, begin |-> 0, end |-> 0]
           n == Len(parser_stack)
           p == Append(parser_stack, x)
<1>1. parser_stack' = p /\ x.st_num = s
  BY DEF Pushed
<1>2. /\ n \in Nat /\ Len(p) = n + 1 /\ p[n + 1] = x
      /\ \A k \in 1 .. n : p[k] = parser_stack[k]
  <2>1. parser_stack \in Seq(StackItem(Len(buf_)) \cup {x})
    BY DEF OperandsInv, StackInv, TypeOK
  <2> HIDE DEF x
  <2> QED
    BY <2>1
<1> HIDE DEF p, x, n
<1>3. OperandsOf(p) = OperandsOf(parser_stack)
  <2>1. ASSUME NEW k PROVE k \in OperandsOf(p) <=> k \in OperandsOf(parser_stack)
    <3>1. CASE k = n + 1
      <4>1. k \notin OperandsOf(p)
        BY <1>1, <1>2, <3>1 DEF OperandsOf
      <4>2. k \notin OperandsOf(parser_stack)
        BY <1>2, <3>1 DEF OperandsOf, n
      <4> QED
        BY <4>1, <4>2
    <3>2. CASE k # n + 1
      BY <1>2, <3>2 DEF OperandsOf, n
    <3> QED
      BY <3>1, <3>2
  <2> QED
    BY <2>1
<1>4. \A k \in OperandsOf(parser_stack) : p[k] = parser_stack[k]
  BY <1>2 DEF OperandsOf, n
<1>5. ~Full' => ~Full
  BY DEF Full
<1>6. SUFFICES ASSUME ~Full PROVE Tiled(p, Len(buf_)) /\ Forest(buf_, Ends(p))
  BY <1>1, <1>5 DEF OperandsKept
<1>7. Tiled(parser_stack, Len(buf_)) /\ Forest(buf_, Ends(parser_stack))
  BY <1>6 DEF OperandsInv
<1>8. Tiled(p, Len(buf_)) /\ Ends(p) = Ends(parser_stack)
  BY <1>3, <1>4, <1>7, SameOperands
<1> QED
  BY <1>7, <1>8

(* Every step keeps the operands the trees of the buffer. *)
LEMMA StepKeepsOperands ==
    ASSUME OperandsInv, Iteration
    PROVE  OperandsKept
<1>1. current_state \in States
  <2>1. parser_stack \in Seq(StackItem(Len(buf_))) /\ Len(parser_stack) \in 1 .. Len(parser_stack)
    BY DEF OperandsInv, StackInv, TypeOK, StackIsPath
  <2>2. parser_stack[Len(parser_stack)] \in StackItem(Len(buf_))
    BY <2>1
  <2> QED
    BY <2>2 DEF current_state, Last, StackItem
<1>2. \A s \in {2, 8, 10} : Symbol[s] \notin Nonterminals
  BY SymbolTable DEF Nonterminals
<1>3. CASE Shift
  <2> DEFINE s == shift[current_state][t]
  <2>1. t \in DOMAIN shift[current_state] /\ parser_stack' = Pushed(s, next) /\ UNCHANGED buf_
    BY <1>3 DEF Shift
  <2>2. Symbol[s] = t /\ t \notin Nonterminals
    BY <1>1, <2>1, ShiftEnters
  <2> HIDE DEF s
  <2> QED
    BY <2>1, <2>2, PushKeepsOperands
<1>4. CASE state00_error_handler
  BY <1>2, <1>4, PushKeepsOperands DEF state00_error_handler
<1>5. CASE state02_error_handler
  BY <1>2, <1>5, PushKeepsOperands DEF state02_error_handler
<1>6. CASE state03_error_handler
  BY <1>2, <1>6, PushKeepsOperands DEF state03_error_handler
<1>7. CASE Accept
  BY <1>7 DEF Accept, OperandsKept, OperandsInv, Full
<1>8. CASE Reduce \/ state04_error_handler \/ state06_error_handler \/ state07_error_handler
  <2>1. current_state \in DOMAIN reduce_rules /\ reduce(reduce_rules[current_state])
    BY <1>8 DEF Reduce, state04_error_handler, state06_error_handler, state07_error_handler,
       reduce_rules
  <2> QED
    BY <2>1, ReduceKeepsOperands
<1> QED
  BY <1>3, <1>4, <1>5, <1>6, <1>7, <1>8 DEF Iteration

(* Before the first step there are no operands and no commands. *)
LEMMA InitOperands == Init => OperandsInv
<1> SUFFICES ASSUME Init PROVE OperandsInv
  OBVIOUS
<1>1. StackInv
  BY InitInv
<1>2. Len(parser_stack) = 1 /\ Len(buf_) = 0 /\ DOMAIN buf_ = {}
  BY DEF Init
<1>3. OperandsOf(parser_stack) = {}
  BY <1>2 DEF OperandsOf
<1>4. Tiled(parser_stack, Len(buf_)) /\ Forest(buf_, Ends(parser_stack))
  BY <1>2, <1>3 DEF Tiled, Forest
<1> QED
  BY <1>1, <1>4 DEF OperandsInv

(* The operands on the stack are the trees of the buffer in every state of  *)
(* every run in which no command was lost.                                  *)
THEOREM OperandsInvariant == Spec => []OperandsInv
<1>1. Init => OperandsInv
  BY InitOperands
<1>2. OperandsInv /\ [Next]_rvars => OperandsInv'
  <2> SUFFICES ASSUME OperandsInv, [Next]_rvars PROVE OperandsInv'
    OBVIOUS
  <2>1. StackInv'
    BY NextKeepsInv DEF OperandsInv
  <2>2. OperandsKept
    <3>1. CASE Iteration
      BY <3>1, StepKeepsOperands
    <3>2. CASE UNCHANGED rvars
      BY <3>2 DEF rvars, OperandsKept, OperandsInv, Full
    <3> QED
      BY <3>1, <3>2 DEF Next, Finished
  <2> QED
    BY <2>1, <2>2 DEF OperandsInv, OperandsKept
<1> QED
  BY <1>1, <1>2, PTL DEF Spec

-----------------------------------------------------------------------------
(* The largest element of a set of numbers *)
LEMMA MaxIs ==
    ASSUME NEW S, \A y \in S : y \in Nat, NEW m \in S, \A y \in S : y <= m
    PROVE  Max(S) = m
<1>1. m \in Nat /\ \A y \in S : m >= y
  OBVIOUS
<1>2. \E x \in S : \A y \in S : x >= y
  BY <1>1
<1>3. Max(S) \in S /\ \A y \in S : Max(S) >= y
  BY <1>2, Zenon DEF Max
<1>4. Max(S) \in Nat /\ Max(S) >= m /\ m >= Max(S)
  BY <1>1, <1>3
<1> QED
  BY <1>1, <1>4

(* Tiling is what the property says with the last operand before another. *)
LEMMA TiledIsTile == OperandsInv => OperandsTile
<1> SUFFICES ASSUME OperandsInv, ~Full PROVE OperandsTile
  BY DEF OperandsTile
<1> DEFINE z == Len(buf_)
           s == parser_stack
<1>1. z \in Nat /\ s \in Seq(StackItem(z)) /\ Tiled(s, z) /\ Operands = OperandsOf(s)
  BY DEF OperandsInv, StackInv, TypeOK, Operands, OperandsOf
<1>2. /\ \A k \in Operands : /\ k \in Nat /\ s[k].begin \in Nat /\ s[k].end \in Nat
                             /\ 1 <= s[k].begin /\ s[k].begin <= s[k].end /\ s[k].end <= z
      /\ \A j, k \in Operands : j < k => s[j].end < s[k].end
  BY <1>1, TiledOperands
<1>3. /\ \A k \in Operands : \/ s[k].begin = 1
                             \/ \E j \in Operands : j < k /\ s[k].begin = s[j].end + 1
      /\ \A j, k \in Operands : j < k => s[j].end < s[k].begin
      /\ \/ Operands = {} /\ z = 0
         \/ \E k \in Operands : s[k].end = z
  BY <1>1 DEF Tiled
<1>4. Operands = {} => buf_ = <<>>
  <2>1. Operands = {} => z = 0
    BY <1>3
  <2>2. buf_ \in Seq(BufferItem)
    BY DEF OperandsInv, StackInv, TypeOK
  <2> QED
    BY <2>1, <2>2
<1> HIDE DEF z, s
<1>5. ASSUME Operands # {} PROVE s[Max(Operands)].end = z
  <2>1. PICK k \in Operands : s[k].end = z
    BY <1>3, <1>5
  <2>2. \A j \in Operands : j \in Nat /\ j <= k
    BY <1>1, <1>2, <2>1
  <2>3. Max(Operands) = k
    BY <2>2, MaxIs
  <2> QED
    BY <2>1, <2>3
<1>6. ASSUME NEW k \in Operands
      PROVE  LET before == {j \in Operands : j < k}
             IN  s[k].begin = IF before = {} THEN 1 ELSE s[Max(before)].end + 1
  <2> DEFINE before == {j \in Operands : j < k}
  <2>1. CASE before = {}
    BY <1>3, <2>1
  <2>2. CASE before # {}
    <3>1. PICK j \in before : s[k].begin = s[j].end + 1
      <4>1. s[k].begin # 1
        BY <1>2, <1>3, <2>2
      <4> QED
        BY <1>3, <4>1
    <3>2. ASSUME NEW i \in before PROVE i <= j
      <4>1. CASE j < i
        <5>1. s[j].end < s[i].end /\ s[i].end < s[k].begin
          BY <1>2, <1>3, <4>1
        <5>2. s[j].end \in Nat /\ s[i].end \in Nat
          BY <1>2
        <5> QED
          BY <3>1, <5>1, <5>2
      <4> QED
        BY <1>2, <4>1
    <3>3. \A y \in before : y \in Nat
      BY <1>2
    <3> HIDE DEF before
    <3>4. Max(before) = j
      BY <3>2, <3>3, MaxIs
    <3>5. s[k].begin = s[Max(before)].end + 1
      BY <3>1, <3>4
    <3> QED
      BY <2>2, <3>5 DEF before
  <2> QED
    BY <2>1, <2>2
<1> QED
  BY <1>2, <1>4, <1>5, <1>6 DEF OperandsTile, s, z

(* The forest is that of the property. *)
LEMMA ForestIsForest == OperandsInv => BufferIsForest
<1> SUFFICES ASSUME OperandsInv, ~Full PROVE BufferIsForest
  BY DEF BufferIsForest
<1>1. \A k : Arguments(k) = Args(buf_[k])
  BY DEF Arguments, Args
<1>2. Forest(buf_, Ends(parser_stack))
  BY DEF OperandsInv
<1>3. Ends(parser_stack) = {parser_stack[k].end : k \in Operands}
  BY DEF Ends, Operands, OperandsOf
<1>4. \A e \in Ends(parser_stack) : e \in DOMAIN buf_
  <2> DEFINE z == Len(buf_)
  <2>1. /\ z \in Nat /\ DOMAIN buf_ = 1 .. z
        /\ parser_stack \in Seq(StackItem(z)) /\ Tiled(parser_stack, z)
    BY DEF OperandsInv, StackInv, TypeOK
  <2> HIDE DEF z
  <2>2. \A k \in OperandsOf(parser_stack) :
           /\ parser_stack[k].begin \in Nat /\ parser_stack[k].end \in Nat
           /\ 1 <= parser_stack[k].begin /\ parser_stack[k].begin <= parser_stack[k].end
           /\ parser_stack[k].end <= z
    BY <2>1, TiledOperands
  <2>3. \A k \in OperandsOf(parser_stack) : parser_stack[k].end \in 1 .. z
    BY <2>1, <2>2
  <2> QED
    BY <2>1, <2>3 DEF Ends
<1>5. DOMAIN buf_ \ UNION {Arguments(k) : k \in DOMAIN buf_} = Ends(parser_stack)
  <2>1. \A k \in DOMAIN buf_ :
            k \in Ends(parser_stack) <=> \A j \in DOMAIN buf_ : k \notin Args(buf_[j])
    BY <1>2 DEF Forest
  <2> QED
    BY <1>1, <1>4, <2>1
<1>6. \A k \in DOMAIN buf_ : Arguments(k) \subseteq 1 .. k - 1
  BY <1>1, <1>2 DEF Forest
<1>7. \A k \in DOMAIN buf_ : buf_[k].name \in {"Or", "Concat"} => buf_[k].first # buf_[k].second
  BY <1>2 DEF Forest
<1>8. \A j, k \in DOMAIN buf_ : j # k => Arguments(j) \cap Arguments(k) = {}
  BY <1>1, <1>2 DEF Forest
<1> QED
  BY <1>3, <1>5, <1>6, <1>7, <1>8 DEF BufferIsForest

(* In every state of the parser in which no command was lost to the bound   *)
(* of the buffer, the operands on the stack have consecutive ranges of      *)
(* commands, each range is one tree, and together they are the whole        *)
(* buffer: so an action is given to one operand, and the result is one tree *)
(* with its root at the end, also after errors (generate_command and        *)
(* attrib_calc of src/slr_act_expr_parser.cpp).                             *)
THEOREM OperandsAreRight == Spec => []OperandsRight
<1>1. OperandsInv => OperandsRight
  BY TiledIsTile, ForestIsForest DEF OperandsRight
<1> QED
  BY <1>1, OperandsInvariant, PTL

-----------------------------------------------------------------------------
(***************************************************************************)
(* Messages.  As long as none was printed, the lexemes read can be begun    *)
(* to be a phrase, and the state on top knows what was read last and what   *)
(* may come next.                                                           *)
(***************************************************************************)
TerminalNames == {"End_of_text", "a", "b", "c", "d", "p", "q", "LP", "RP"}

(* The terminals that the last lexeme read may have, for the state on top   *)
ReadLast ==
    LET operand == {"d", "RP", "a", "c"}
    IN  <<{"q"}, {"p"}, operand, operand, operand, {"d", "RP", "a"}, {"d", "RP"}, {"d"}, {"LP"},
          {"b"}, {"q"}, operand, {"c"}, {"a"}, operand, operand, {"RP"}>>

(* The terminals that the next lexeme may have: a reduction looks ahead, so *)
(* that what may follow its symbol is known; what follows a lexeme that is  *)
(* shifted is not.                                                          *)
Awaited ==
    LET term == {"b", "q", "RP"}
        factor == term \cup {"d", "LP"}
        any == TerminalNames
    IN  <<any, any, term, factor, factor, factor \cup {"c"}, factor \cup {"c", "a"}, any, any,
          any, any, factor, any, any, term, factor, any>>

Sofar == Terminals(path)

(* The parentheses that are open on the stack, less the one that a closing  *)
(* one on top will close.                                                   *)
Brackets(s) == {k \in DOMAIN s : s[k].st_num = 9}
Closing(s) == IF s = 17 THEN 1 ELSE 0

QuietInv ==
    /\ StackInv
    /\ ~complained =>
          /\ Viable(Sofar)
          /\ path = <<>> <=> current_state = 0
          /\ current_state # 0 => /\ Sofar[Len(path)] \in ReadLast[current_state]
                                  /\ t \in Awaited[current_state]
          /\ Depth(Sofar, Len(path)) = Cardinality(Brackets(parser_stack)) - Closing(current_state)
          /\ current_state = 14 => Last(parser_stack).li = path[Len(path)]

(* The same tables, state by state *)
LEMMA ReadLastTable ==
    LET operand == {"d", "RP", "a", "c"}
    IN  /\ ReadLast[1] = {"q"} /\ ReadLast[2] = {"p"} /\ ReadLast[3] = operand
        /\ ReadLast[4] = operand /\ ReadLast[5] = operand /\ ReadLast[6] = {"d", "RP", "a"}
        /\ ReadLast[7] = {"d", "RP"} /\ ReadLast[8] = {"d"} /\ ReadLast[9] = {"LP"}
        /\ ReadLast[10] = {"b"} /\ ReadLast[11] = {"q"} /\ ReadLast[12] = operand
        /\ ReadLast[13] = {"c"} /\ ReadLast[14] = {"a"} /\ ReadLast[15] = operand
        /\ ReadLast[16] = operand /\ ReadLast[17] = {"RP"}
BY DEF ReadLast

(* The terminals awaited, state by state *)
LEMMA AwaitedTable ==
    LET term == {"b", "q", "RP"}
        factor == term \cup {"d", "LP"}
    IN  /\ \A s \in {1, 2, 8, 9, 10, 11, 13, 14, 17} : Awaited[s] = TerminalNames
        /\ Awaited[3] = term /\ Awaited[15] = term
        /\ Awaited[4] = factor /\ Awaited[5] = factor /\ Awaited[12] = factor
        /\ Awaited[16] = factor
        /\ Awaited[6] = factor \cup {"c"} /\ Awaited[7] = factor \cup {"c", "a"}
<1> DEFINE any == TerminalNames
<1>1. /\ Awaited[1] = any /\ Awaited[2] = any /\ Awaited[8] = any /\ Awaited[9] = any
      /\ Awaited[10] = any /\ Awaited[11] = any /\ Awaited[13] = any /\ Awaited[14] = any
      /\ Awaited[17] = any
  BY DEF Awaited
<1> QED
  BY <1>1 DEF Awaited

(* What may follow a terminal in a phrase, terminal by terminal *)
LEMMA FollowTable ==
    LET rest == {"b", "d", "LP", "RP", "q"}
    IN  /\ \A c \in {"p", "LP", "b"} : Follow[c] = {"d", "LP"}
        /\ Follow["q"] = {} /\ Follow["c"] = rest /\ Follow["a"] = rest \cup {"c"}
        /\ \A c \in {"d", "RP"} : Follow[c] = rest \cup {"a", "c"}
<1>1. /\ Follow["p"] = {"d", "LP"} /\ Follow["LP"] = {"d", "LP"} /\ Follow["b"] = {"d", "LP"}
      /\ Follow["d"] = {"b", "d", "LP", "RP", "q"} \cup {"a", "c"}
      /\ Follow["RP"] = {"b", "d", "LP", "RP", "q"} \cup {"a", "c"}
  BY DEF Follow
<1> QED
  BY <1>1 DEF Follow

(* Terminals of one lexeme more *)
LEMMA TerminalsExtended ==
    ASSUME NEW p \in Seq(Lexeme), NEW l \in Lexeme
    PROVE  /\ Terminals(p) \in Seq(TerminalNames) /\ Len(Terminals(p)) = Len(p)
           /\ Terminal[l.code] \in TerminalNames
           /\ Terminals(Append(p, l)) = Append(Terminals(p), Terminal[l.code])
<1> DEFINE w == Terminals(p)
           a == Append(p, l)
           n == Len(p)
<1>1. \A x \in Lexeme : Terminal[x.code] \in TerminalNames
  BY TerminalAssumption DEF Terminal, TerminalNames
<1>2. n \in Nat /\ DOMAIN p = 1 .. n /\ \A k \in 1 .. n : p[k] \in Lexeme
  OBVIOUS
<1>3. w = [k \in 1 .. n |-> Terminal[p[k].code]]
  BY <1>2 DEF Terminals
<1>4. w \in Seq(TerminalNames) /\ Len(w) = n
  BY <1>1, <1>2, <1>3
<1>5. /\ DOMAIN a = 1 .. n + 1 /\ a[n + 1] = l
      /\ \A k \in 1 .. n : a[k] = p[k]
  BY <1>2
<1>6. Terminals(a) = [k \in 1 .. n + 1 |-> Terminal[a[k].code]]
  BY <1>5 DEF Terminals
<1>7. Append(w, Terminal[l.code]) = [k \in 1 .. n + 1 |-> IF k = n + 1 THEN Terminal[l.code] ELSE w[k]]
  BY <1>4
<1> HIDE DEF a, w, n
<1>8. ASSUME NEW k \in 1 .. n + 1
      PROVE  Terminal[a[k].code] = IF k = n + 1 THEN Terminal[l.code] ELSE w[k]
  BY <1>2, <1>3, <1>5
<1>9. Terminals(a) = Append(w, Terminal[l.code])
  BY <1>6, <1>7, <1>8, Zenon
<1> QED
  BY <1>1, <1>4, <1>9 DEF a, w, n

(* The depth of parentheses after one terminal more *)
LEMMA DepthExtended ==
    ASSUME NEW w \in Seq(TerminalNames), NEW x \in TerminalNames
    PROVE  /\ \A k \in 0 .. Len(w) : Depth(Append(w, x), k) = Depth(w, k)
           /\ Depth(w, Len(w)) \in Int
           /\ Depth(Append(w, x), Len(w) + 1)
                 = Depth(w, Len(w)) + IF x = "LP" THEN 1 ELSE IF x = "RP" THEN -1 ELSE 0
<1> DEFINE n == Len(w)
           a == Append(w, x)
           At(v, m, c) == {k \in 1 .. m : v[k] = c}
<1>1. /\ n \in Nat /\ a[n + 1] = x /\ \A k \in 1 .. n : a[k] = w[k]
  OBVIOUS
<1> HIDE DEF a, n
<1>2. ASSUME NEW m \in 0 .. n, NEW c
      PROVE  At(a, m, c) = At(w, m, c)
  BY <1>1
<1>3. \A k \in 0 .. n : Depth(a, k) = Depth(w, k)
  BY <1>2 DEF Depth
<1>4. ASSUME NEW c
      PROVE  /\ IsFiniteSet(At(w, n, c)) /\ Cardinality(At(w, n, c)) \in Nat
             /\ Cardinality(At(a, n + 1, c)) = Cardinality(At(w, n, c)) + IF x = c THEN 1 ELSE 0
  <2>1. IsFiniteSet(At(w, n, c))
    <3>1. IsFiniteSet(1 .. n)
      BY <1>1, FS_Interval
    <3> QED
      BY <3>1, FS_Subset
  <2>2. At(a, n + 1, c) = IF x = c THEN At(w, n, c) \cup {n + 1} ELSE At(w, n, c)
    BY <1>1
  <2>3. n + 1 \notin At(w, n, c)
    BY <1>1
  <2> HIDE DEF At
  <2> QED
    BY <2>1, <2>2, <2>3, FS_AddElement, FS_CardinalityType
<1>5. Depth(w, n) = Cardinality(At(w, n, "LP")) - Cardinality(At(w, n, "RP"))
  BY DEF Depth
<1>6. Depth(a, n + 1) = Cardinality(At(a, n + 1, "LP")) - Cardinality(At(a, n + 1, "RP"))
  BY DEF Depth
<1> HIDE DEF At
<1> DEFINE l == Cardinality(At(w, n, "LP"))
           r == Cardinality(At(w, n, "RP"))
           l2 == Cardinality(At(a, n + 1, "LP"))
           r2 == Cardinality(At(a, n + 1, "RP"))
<1>7. /\ l \in Nat /\ r \in Nat
      /\ l2 = l + IF x = "LP" THEN 1 ELSE 0
      /\ r2 = r + IF x = "RP" THEN 1 ELSE 0
  BY <1>4
<1>8. Depth(w, n) = l - r /\ Depth(a, n + 1) = l2 - r2
  BY <1>5, <1>6
<1> HIDE DEF l, r, l2, r2
<1>9. l2 - r2 = (l - r) + IF x = "LP" THEN 1 ELSE IF x = "RP" THEN -1 ELSE 0
  <2>1. "LP" # "RP"
    OBVIOUS
  <2>2. CASE x = "LP"
    BY <1>7, <2>2
  <2>3. CASE x = "RP"
    BY <1>7, <2>3
  <2>4. CASE x # "LP" /\ x # "RP"
    BY <1>7, <2>4
  <2> QED
    BY <2>2, <2>3, <2>4
<1>10. Depth(w, n) \in Int /\ Depth(a, n + 1) = Depth(w, n) + IF x = "LP" THEN 1 ELSE IF x = "RP" THEN -1 ELSE 0
  BY <1>7, <1>8, <1>9
<1> QED
  BY <1>3, <1>10 DEF a, n

(* What a terminal more must be for the text to stay the beginning of one   *)
(* of the language                                                          *)
Continues(w, x) ==
    /\ x # "End_of_text"
    /\ IF w = <<>> THEN x = "p" ELSE x \in Follow[w[Len(w)]]
    /\ x = "RP" => Depth(w, Len(w)) > 0
    /\ x = "q" => Depth(w, Len(w)) = 0

(* The beginning of a phrase with one terminal more is one exactly when     *)
(* the terminal continues it.                                               *)
LEMMA ViableExtended ==
    ASSUME NEW w \in Seq(TerminalNames), NEW x \in TerminalNames, Viable(w)
    PROVE  Viable(Append(w, x)) <=> Continues(w, x)
<1> DEFINE n == Len(w)
           a == Append(w, x)
           Fits(v, k) == /\ v[k] # "End_of_text"
                         /\ IF k = 1 THEN v[k] = "p" ELSE v[k] \in Follow[v[k - 1]]
                         /\ Depth(v, k) >= 0
                         /\ v[k] = "q" => Depth(v, k) = 0
<1>1. /\ n \in Nat /\ DOMAIN w = 1 .. n /\ DOMAIN a = 1 .. n + 1
      /\ a[n + 1] = x /\ \A k \in 1 .. n : a[k] = w[k]
      /\ w = <<>> <=> n = 0
  OBVIOUS
<1>2. /\ \A k \in 0 .. n : Depth(a, k) = Depth(w, k)
      /\ Depth(w, n) \in Int
      /\ Depth(a, n + 1) = Depth(w, n) + IF x = "LP" THEN 1 ELSE IF x = "RP" THEN -1 ELSE 0
  BY DepthExtended
<1>3. \A k \in 1 .. n : Fits(w, k)
  BY <1>1 DEF Viable
<1> HIDE DEF a, n
<1>4. \A k \in 1 .. n : Fits(a, k)
  <2> TAKE k \in 1 .. n
  <2>1. k = 1 \/ a[k - 1] = w[k - 1]
    BY <1>1, <1>2
  <2>2. a[k] = w[k] /\ Depth(a, k) = Depth(w, k)
    BY <1>1, <1>2
  <2> QED
    BY <1>3, <2>1, <2>2
<1>5. Viable(a) <=> \A k \in 1 .. n + 1 : Fits(a, k)
  BY <1>1 DEF Viable
<1>6. Depth(w, n) >= 0
  <2>1. CASE n = 0
    <3>1. {k \in 1 .. n : w[k] = "LP"} = {} /\ {k \in 1 .. n : w[k] = "RP"} = {}
      BY <2>1
    <3>2. Depth(w, n) = Cardinality({}) - Cardinality({})
      BY <3>1 DEF Depth
    <3>3. Cardinality({}) = 0
      BY FS_EmptySet
    <3> QED
      BY <3>2, <3>3
  <2>2. CASE n # 0
    BY <1>1, <1>3, <2>2
  <2> QED
    BY <2>1, <2>2
<1>7. Fits(a, n + 1) <=> Continues(w, x)
  <2>1. a[n + 1] = x /\ (n # 0 => a[n] = w[n]) /\ (n + 1 = 1 <=> w = <<>>) /\ (n + 1) - 1 = n
    BY <1>1
  <2>2. Depth(a, n + 1) >= 0 /\ (x = "q" => Depth(a, n + 1) = 0)
           <=> (x = "RP" => Depth(w, n) > 0) /\ (x = "q" => Depth(w, n) = 0)
    BY <1>2, <1>6
  <2>3. Len(w) = n
    BY DEF n
  <2> QED
    BY <2>1, <2>2, <2>3 DEF Continues
<1> HIDE DEF Fits
<1>8. Viable(a) <=> Fits(a, n + 1)
  BY <1>1, <1>4, <1>5
<1> QED
  BY <1>7, <1>8 DEF a

-----------------------------------------------------------------------------
(* What a shift knows: its terminal may follow what was read last, and is   *)
(* what is read last in the new state.                                      *)
LEMMA ShiftLeads ==
    ASSUME NEW s \in States, NEW c \in DOMAIN shift[s], NEW s2, s2 = shift[s][c]
    PROVE  /\ s2 \in 1 .. 17 /\ c \in TerminalNames /\ c # "End_of_text"
           /\ ReadLast[s2] = {c} /\ Awaited[s2] = TerminalNames
           /\ s2 = 9 <=> c = "LP"
           /\ s2 = 17 <=> c = "RP"
           /\ s2 = 14 <=> c = "a"
           /\ s # 17
           /\ IF s = 0 THEN c = "p" ELSE \A x \in ReadLast[s] : c \in Follow[x]
           /\ c = "RP" => s = 15
           /\ c = "q" => s = 3
<1> USE ReadLastTable, AwaitedTable, FollowTable
<1>1. CASE s = 0
  <2>1. c = "p" /\ s2 = 2
    BY <1>1 DEF shift, States
  <2> QED
    BY <1>1, <2>1 DEF TerminalNames
<1>2. CASE s \in {2, 9, 10}
  <2>1. (c = "d" /\ s2 = 8) \/ (c = "LP" /\ s2 = 9)
    BY <1>2 DEF shift, States
  <2>2. ReadLast[s] \subseteq {"p", "LP", "b"}
    BY <1>2
  <2> QED
    BY <1>2, <2>1, <2>2 DEF TerminalNames
<1>3. CASE s \in {4, 16}
  <2>1. (c = "d" /\ s2 = 8) \/ (c = "LP" /\ s2 = 9)
    BY <1>3 DEF shift, States
  <2>2. ReadLast[s] = {"d", "RP", "a", "c"}
    BY <1>3
  <2> QED
    BY <1>3, <2>1, <2>2 DEF TerminalNames
<1>4. CASE s = 3
  <2>1. (c = "b" /\ s2 = 10) \/ (c = "q" /\ s2 = 11)
    BY <1>4 DEF shift, States
  <2> QED
    BY <1>4, <2>1 DEF TerminalNames
<1>5. CASE s = 6
  <2>1. c = "c" /\ s2 = 13
    BY <1>5 DEF shift, States
  <2> QED
    BY <1>5, <2>1 DEF TerminalNames
<1>6. CASE s = 7
  <2>1. c = "a" /\ s2 = 14
    BY <1>6 DEF shift, States
  <2> QED
    BY <1>6, <2>1 DEF TerminalNames
<1>7. CASE s = 15
  <2>1. (c = "b" /\ s2 = 10) \/ (c = "RP" /\ s2 = 17)
    BY <1>7 DEF shift, States
  <2> QED
    BY <1>7, <2>1 DEF TerminalNames
<1>8. CASE s \notin {0, 2, 3, 4, 6, 7, 9, 10, 15, 16}
  BY <1>8 DEF shift, States
<1> QED
  BY <1>1, <1>2, <1>3, <1>4, <1>5, <1>6, <1>7, <1>8

(* What a reduction knows: its symbol ends with what was read last, and the *)
(* terminals it looked ahead for may follow its symbol.                     *)
LEMMA ReductionLeads ==
    ASSUME NEW s \in DOMAIN reduce_rules, NEW below,
           NEW to, to = next_state(below, rules[reduce_rules[s]].nt)
    PROVE  /\ to \in 1 .. 17 \ {9, 14, 17}
           /\ ReadLast[s] \subseteq ReadLast[to]
           /\ lookahead[s] \subseteq Awaited[to]
           /\ s = 11 => Awaited[to] = TerminalNames
<1> USE ReadLastTable, AwaitedTable DEF TerminalNames
<1>1. CASE s = 4
  <2>1. reduce_rules[s] = "T_is_E" /\ rules["T_is_E"].nt = "T" /\ lookahead[s] = {"b", "q", "RP"}
    BY <1>1 DEF reduce_rules, rules, lookahead
  <2>2. to \in {3, 15}
    BY <2>1 DEF next_state
  <2> QED
    BY <1>1, <2>1, <2>2
<1>2. CASE s = 16
  <2>1. reduce_rules[s] = "T_is_TbE" /\ rules["T_is_TbE"].nt = "T" /\ lookahead[s] = {"b", "q", "RP"}
    BY <1>2 DEF reduce_rules, rules, lookahead
  <2>2. to \in {3, 15}
    BY <2>1 DEF next_state
  <2> QED
    BY <1>2, <2>1, <2>2
<1>3. CASE s = 5
  <2>1. /\ reduce_rules[s] = "E_is_F" /\ rules["E_is_F"].nt = "E"
        /\ lookahead[s] = {"b", "q", "RP", "d", "LP"}
    BY <1>3 DEF reduce_rules, rules, lookahead
  <2>2. to \in {4, 16}
    BY <2>1 DEF next_state
  <2> QED
    BY <1>3, <2>1, <2>2
<1>4. CASE s = 12
  <2>1. /\ reduce_rules[s] = "E_is_EF" /\ rules["E_is_EF"].nt = "E"
        /\ lookahead[s] = {"b", "q", "RP", "d", "LP"}
    BY <1>4 DEF reduce_rules, rules, lookahead
  <2>2. to \in {4, 16}
    BY <2>1 DEF next_state
  <2> QED
    BY <1>4, <2>1, <2>2
<1>5. CASE s = 6
  <2>1. /\ reduce_rules[s] = "F_is_G" /\ rules["F_is_G"].nt = "F"
        /\ lookahead[s] = {"b", "q", "RP", "d", "LP"}
    BY <1>5 DEF reduce_rules, rules, lookahead
  <2>2. to \in {5, 12}
    BY <2>1 DEF next_state
  <2> QED
    BY <1>5, <2>1, <2>2
<1>6. CASE s = 13
  <2>1. /\ reduce_rules[s] = "F_is_Gc" /\ rules["F_is_Gc"].nt = "F"
        /\ lookahead[s] = {"b", "q", "RP", "d", "LP"}
    BY <1>6 DEF reduce_rules, rules, lookahead
  <2>2. to \in {5, 12}
    BY <2>1 DEF next_state
  <2> QED
    BY <1>6, <2>1, <2>2
<1>7. CASE s = 7
  <2>1. /\ reduce_rules[s] = "G_is_H" /\ rules["G_is_H"].nt = "G"
        /\ lookahead[s] = {"b", "q", "RP", "d", "LP", "c"}
    BY <1>7 DEF reduce_rules, rules, lookahead
  <2>2. to = 6
    BY <2>1 DEF next_state
  <2> QED
    BY <1>7, <2>1, <2>2
<1>8. CASE s = 14
  <2>1. /\ reduce_rules[s] = "G_is_Ha" /\ rules["G_is_Ha"].nt = "G"
        /\ lookahead[s] = {"b", "q", "RP", "d", "LP", "c"}
    BY <1>8 DEF reduce_rules, rules, lookahead
  <2>2. to = 6
    BY <2>1 DEF next_state
  <2> QED
    BY <1>8, <2>1, <2>2
<1>9. CASE s = 8
  <2>1. /\ reduce_rules[s] = "H_is_d" /\ rules["H_is_d"].nt = "H"
        /\ lookahead[s] = {"b", "q", "RP", "d", "LP", "c", "a"}
    BY <1>9 DEF reduce_rules, rules, lookahead
  <2>2. to = 7
    BY <2>1 DEF next_state
  <2> QED
    BY <1>9, <2>1, <2>2
<1>10. CASE s = 17
  <2>1. /\ reduce_rules[s] = "H_is_LP_T_RP" /\ rules["H_is_LP_T_RP"].nt = "H"
        /\ lookahead[s] = {"b", "q", "RP", "d", "LP", "c", "a"}
    BY <1>10 DEF reduce_rules, rules, lookahead
  <2>2. to = 7
    BY <2>1 DEF next_state
  <2> QED
    BY <1>10, <2>1, <2>2
<1>11. CASE s = 11
  <2>1. /\ reduce_rules[s] = "S_is_pTq" /\ rules["S_is_pTq"].nt = "S"
        /\ lookahead[s] = {"End_of_text"}
    BY <1>11 DEF reduce_rules, rules, lookahead
  <2>2. to = 1
    BY <2>1 DEF next_state
  <2> QED
    BY <1>11, <2>1, <2>2
<1> QED
  BY <1>1, <1>2, <1>3, <1>4, <1>5, <1>6, <1>7, <1>8, <1>9, <1>10, <1>11 DEF reduce_rules

-----------------------------------------------------------------------------
(* The state on top is a state of the automaton. *)
LEMMA TopState ==
    ASSUME StackInv
    PROVE  /\ current_state \in States
           /\ Len(parser_stack) \in Nat \ {0}
           /\ DOMAIN parser_stack = 1 .. Len(parser_stack)
           /\ current_state = parser_stack[Len(parser_stack)].st_num
           /\ \A k \in DOMAIN parser_stack : parser_stack[k].st_num \in States
           /\ IsFiniteSet(Brackets(parser_stack)) /\ Cardinality(Brackets(parser_stack)) \in Nat
<1> DEFINE n == Len(parser_stack)
<1>1. /\ n \in Nat \ {0} /\ DOMAIN parser_stack = 1 .. n
      /\ \A k \in 1 .. n : parser_stack[k] \in StackItem(Len(buf_))
  BY DEF StackInv, TypeOK, StackIsPath
<1>2. \A k \in 1 .. n : parser_stack[k].st_num \in States
  BY <1>1 DEF StackItem
<1>3. current_state = parser_stack[n].st_num
  BY DEF current_state, Last
<1> HIDE DEF n
<1>4. IsFiniteSet(Brackets(parser_stack))
  <2>1. IsFiniteSet(1 .. n)
    BY <1>1, FS_Interval
  <2>2. Brackets(parser_stack) \subseteq 1 .. n
    BY <1>1 DEF Brackets
  <2> QED
    BY <2>1, <2>2, FS_Subset
<1>5. Cardinality(Brackets(parser_stack)) \in Nat
  BY <1>4, FS_CardinalityType
<1> QED
  BY <1>1, <1>2, <1>3, <1>4, <1>5 DEF n

(* Of the states before a closing brace and a closing parenthesis, one has  *)
(* no open parenthesis below it, and the other has one.                     *)
LEMMA BracketsBelow ==
    ASSUME StackInv
    PROVE  /\ current_state = 3 => Cardinality(Brackets(parser_stack)) = 0
           /\ current_state = 15 => Cardinality(Brackets(parser_stack)) > 0
<1> DEFINE n == Len(parser_stack)
<1>1. /\ n \in Nat \ {0} /\ DOMAIN parser_stack = 1 .. n
      /\ current_state = parser_stack[n].st_num
      /\ IsFiniteSet(Brackets(parser_stack)) /\ Cardinality(Brackets(parser_stack)) \in Nat
  BY TopState
<1>2. /\ parser_stack[1].st_num = 0
      /\ \A k \in 2 .. n : /\ parser_stack[k].st_num # 0
                           /\ parser_stack[k - 1].st_num \in EnteredFrom[parser_stack[k].st_num]
  BY DEF StackInv, StackIsPath
<1> HIDE DEF n
<1>3. current_state # 0 => n \in 2 .. n /\ n - 1 \in 1 .. n
  <2> DEFINE s == current_state
  <2> HIDE DEF s
  <2>1. s = parser_stack[n].st_num
    BY <1>1 DEF s
  <2>2. s # 0 => n # 1
    BY <1>2, <2>1
  <2> QED
    BY <1>1, <2>2 DEF s
<1>4. ASSUME current_state = 3
      PROVE  Cardinality(Brackets(parser_stack)) = 0
  <2>1. n \in 2 .. n /\ n - 1 \in 1 .. n
    BY <1>3, <1>4
  <2>2. parser_stack[n - 1].st_num = 2
    <3>1. parser_stack[n].st_num = 3
      BY <1>1, <1>4
    <3>2. EnteredFrom[3] = {2}
      BY EnteredTable
    <3> QED
      BY <1>2, <2>1, <3>1, <3>2
  <2>3. n - 1 \in 2 .. n /\ (n - 1) - 1 \in 1 .. n
    <3>1. n - 1 # 1
      BY <1>2, <2>2
    <3> QED
      BY <1>1, <2>1, <3>1
  <2>4. parser_stack[(n - 1) - 1].st_num = 0
    BY <1>2, <2>2, <2>3, EnteredTable
  <2>5. (n - 1) - 1 = 1
    BY <1>1, <1>2, <2>3, <2>4
  <2>6. Brackets(parser_stack) = {}
    <3> SUFFICES ASSUME NEW k \in 1 .. n, parser_stack[k].st_num = 9 PROVE FALSE
      BY <1>1 DEF Brackets
    <3>1. k = 1 \/ k = n - 1 \/ k = n
      BY <1>1, <2>5
    <3>2. parser_stack[n].st_num = 3
      BY <1>1, <1>4
    <3> QED
      BY <1>2, <2>2, <3>1, <3>2
  <2> QED
    BY <2>6, FS_EmptySet
<1>5. ASSUME current_state = 15
      PROVE  Cardinality(Brackets(parser_stack)) > 0
  <2>1. n \in 2 .. n /\ n - 1 \in 1 .. n
    BY <1>3, <1>5
  <2>2. parser_stack[n - 1].st_num = 9
    <3>1. parser_stack[n].st_num = 15
      BY <1>1, <1>5
    <3>2. EnteredFrom[15] = {9}
      BY EnteredTable
    <3> QED
      BY <1>2, <2>1, <3>1, <3>2
  <2>3. n - 1 \in Brackets(parser_stack)
    BY <1>1, <2>1, <2>2 DEF Brackets
  <2>4. Cardinality(Brackets(parser_stack)) # 0
    BY <1>1, <2>3, FS_EmptySet
  <2> QED
    BY <1>1, <2>4
<1> QED
  BY <1>4, <1>5

(* A state that is pushed opens a parenthesis or not. *)
LEMMA BracketsPushed ==
    ASSUME StackInv, NEW x
    PROVE  Cardinality(Brackets(Append(parser_stack, x)))
              = Cardinality(Brackets(parser_stack)) + IF x.st_num = 9 THEN 1 ELSE 0
<1> DEFINE n == Len(parser_stack)
           s == Append(parser_stack, x)
           B == Brackets(parser_stack)
<1>1. n \in Nat /\ DOMAIN parser_stack = 1 .. n /\ IsFiniteSet(B) /\ Cardinality(B) \in Nat
  BY TopState
<1>2. DOMAIN s = 1 .. n + 1 /\ s[n + 1] = x /\ \A k \in 1 .. n : s[k] = parser_stack[k]
  <2>1. parser_stack \in Seq(StackItem(Len(buf_)) \cup {x})
    BY DEF StackInv, TypeOK
  <2> QED
    BY <2>1
<1> HIDE DEF n, s
<1>3. Brackets(s) = IF x.st_num = 9 THEN B \cup {n + 1} ELSE B
  BY <1>1, <1>2 DEF Brackets
<1>4. n + 1 \notin B
  BY <1>1 DEF Brackets
<1> HIDE DEF B
<1>5. Cardinality(B \cup {n + 1}) = Cardinality(B) + 1
  BY <1>1, <1>4, FS_AddElement
<1>6. Cardinality(Brackets(s)) = Cardinality(B) + IF x.st_num = 9 THEN 1 ELSE 0
  BY <1>1, <1>3, <1>5
<1> QED
  BY <1>6 DEF s, B

(* A reduction leaves the parentheses open, but for that by which it closes *)
(* one.                                                                     *)
LEMMA BracketsReduced ==
    ASSUME StackInv, current_state \in DOMAIN reduce_rules,
           NEW r, r = reduce_rules[current_state],
           NEW x, x.st_num # 9
    PROVE  Cardinality(Brackets(Append(Below(r), x)))
              = Cardinality(Brackets(parser_stack)) - Closing(current_state)
<1> DEFINE n == Len(parser_stack)
           len == rules[r].len
           z == Len(buf_)
           s2 == Append(Below(r), x)
           m == n - len
           B == Brackets(parser_stack)
<1>1. /\ parser_stack \in Seq(StackItem(z)) /\ IsPath(parser_stack) /\ n \in Nat
      /\ IsFiniteSet(B) /\ Cardinality(B) \in Nat /\ DOMAIN parser_stack = 1 .. n
      /\ \A k \in 1 .. n : parser_stack[k].st_num \in States
  BY StackPath, TopState DEF StackInv, TypeOK
<1>2. current_state = FromTop(1)
  <2>1. n - 1 + 1 = n
    BY <1>1
  <2> QED
    BY <2>1, Zenon DEF current_state, Last, FromTop
<1>3. HandleFits(r) /\ HandleOnTop
  BY <1>2, Handles, HandlesOnTop DEF StackInv
<1>4. /\ len \in {1, 2, 3} /\ len < n
      /\ \A i \in 1 .. len : Symbol[Body(r)[i].st_num] = Right[r][i]
  BY <1>3 DEF HandleFits, HandleOnTop
<1>5. /\ \A i \in 1 .. len : Body(r)[i] = parser_stack[n - len + i]
      /\ Below(r) \in Seq(StackItem(z)) /\ Len(Below(r)) = n - len
      /\ \A i \in 1 .. Len(Below(r)) : Below(r)[i] = parser_stack[i]
  BY <1>1, <1>4, BodyBelow
<1>6. /\ DOMAIN s2 = 1 .. m + 1 /\ s2[m + 1] = x
      /\ \A k \in 1 .. m : s2[k] = parser_stack[k]
  <2>1. Below(r) \in Seq(StackItem(z) \cup {x}) /\ Len(Below(r)) = m
    BY <1>5
  <2> QED
    BY <1>5, <2>1
<1>7. r = "H_is_LP_T_RP" <=> current_state = 17
  BY DEF reduce_rules
<1>8. r = "H_is_LP_T_RP" => len = 3 /\ Right[r][1] = "LP"
  BY DEF rules, Right
<1>9. r \in DOMAIN rules
  BY DEF reduce_rules, rules
<1>10. ASSUME NEW i \in 1 .. len
       PROVE  Right[r][i] = "LP" <=> r = "H_is_LP_T_RP" /\ i = 1
  BY <1>9 DEF rules, Right
<1> HIDE DEF len, n
<1>11. m \in Nat /\ m + len = n /\ m \in 1 .. n
  BY <1>1, <1>4
<1> HIDE DEF m, s2
<1>12. ASSUME NEW k \in m + 1 .. n
       PROVE  parser_stack[k].st_num = 9 <=> r = "H_is_LP_T_RP" /\ k = m + 1
  <2>1. k - m \in 1 .. len /\ m + (k - m) = k /\ (k - m = 1 <=> k = m + 1)
    BY <1>4, <1>11
  <2>2. Symbol[parser_stack[k].st_num] = Right[r][k - m]
    <3>1. Body(r)[k - m] = parser_stack[m + (k - m)]
      BY <1>5, <2>1 DEF m
    <3> QED
      BY <1>4, <2>1, <3>1
  <2>3. k \in 2 .. n
    BY <1>11
  <2>4. parser_stack[k].st_num \in 1 .. 17
    BY <1>1, <2>3 DEF IsPath, States, n
  <2>5. \A s \in 1 .. 17 : Symbol[s] = "LP" <=> s = 9
    <3> TAKE s \in 1 .. 17
    <3> QED
      BY SymbolTable
  <2>6. Right[r][k - m] = "LP" <=> r = "H_is_LP_T_RP" /\ k = m + 1
    BY <1>10, <2>1
  <2> QED
    BY <2>2, <2>4, <2>5, <2>6
<1>13. Brackets(s2) = {k \in B : k <= m}
  BY <1>1, <1>6, <1>11 DEF Brackets
<1>14. B \ {k \in B : k <= m} = IF r = "H_is_LP_T_RP" THEN {m + 1} ELSE {}
  <2>1. \A k \in B : k \in 1 .. n /\ (k <= m \/ k \in m + 1 .. n)
    BY <1>1, <1>11 DEF Brackets
  <2>2. r = "H_is_LP_T_RP" => m + 1 \in B
    <3>1. r = "H_is_LP_T_RP" => m + 1 \in m + 1 .. n
      BY <1>4, <1>11
    <3>2. \A k \in m + 1 .. n : k \in 1 .. n
      BY <1>11
    <3> QED
      BY <1>1, <1>12, <3>1, <3>2 DEF Brackets
  <2>3. \A k \in B : k \in m + 1 .. n => r = "H_is_LP_T_RP" /\ k = m + 1
    BY <1>12 DEF Brackets
  <2>4. ~(m + 1 <= m)
    BY <1>11
  <2> HIDE DEF B
  <2>5. CASE r = "H_is_LP_T_RP"
    BY <2>1, <2>2, <2>3, <2>4, <2>5
  <2>6. CASE r # "H_is_LP_T_RP"
    BY <2>1, <2>3, <2>6
  <2> QED
    BY <2>5, <2>6
<1> HIDE DEF B
<1>15. CASE r = "H_is_LP_T_RP"
  <2>1. m + 1 \in B /\ Brackets(s2) = B \ {m + 1}
    BY <1>13, <1>14, <1>15
  <2>2. Cardinality(B \ {m + 1}) = Cardinality(B) - 1
    BY <1>1, <2>1, FS_RemoveElement
  <2> QED
    BY <1>7, <1>15, <2>1, <2>2 DEF Closing, B, s2
<1>16. CASE r # "H_is_LP_T_RP"
  <2>1. Brackets(s2) = B
    BY <1>13, <1>14, <1>16
  <2> QED
    BY <1>1, <1>7, <1>16, <2>1 DEF Closing, B, s2
<1> QED
  BY <1>15, <1>16

-----------------------------------------------------------------------------
(* Nothing is read at the beginning. *)
LEMMA InitQuiet == Init => QuietInv
<1> SUFFICES ASSUME Init PROVE QuietInv
  OBVIOUS
<1>1. StackInv
  BY InitInv
<1>2. path = <<>> /\ Sofar = <<>> /\ Len(path) = 0
  BY DEF Init, Sofar, Terminals
<1>3. Viable(Sofar)
  BY <1>2 DEF Viable
<1>4. current_state = 0 /\ DOMAIN parser_stack = {1} /\ parser_stack[1].st_num = 0
  BY DEF Init, current_state, Last
<1>5. Brackets(parser_stack) = {}
  BY <1>4 DEF Brackets
<1>6. Cardinality({}) = 0
  BY FS_EmptySet
<1>7. Depth(Sofar, 0) = Cardinality({}) - Cardinality({})
  BY DEF Depth
<1>8. Depth(Sofar, Len(path)) = Cardinality(Brackets(parser_stack)) - Closing(current_state)
  BY <1>2, <1>4, <1>5, <1>6, <1>7 DEF Closing
<1> QED
  BY <1>1, <1>2, <1>3, <1>4, <1>8 DEF QuietInv

(* What the invariant says of the next terminal: if it continues what was   *)
(* read, no message comes with it.                                          *)
LEMMA QuietTypes ==
    ASSUME QuietInv
    PROVE  /\ path \in Seq(Lexeme) /\ Sofar \in Seq(TerminalNames) /\ Len(Sofar) = Len(path)
           /\ t \in TerminalNames
           /\ next.bad => t = "End_of_text"
           /\ next \notin Lexeme => t = "End_of_text"
           /\ path # <<>> => Sofar # <<>> /\ Sofar[Len(path)] = Terminal[path[Len(path)].code]
<1>1. path \in Seq(Lexeme) /\ next \in Lexeme \cup {EndOfText}
  BY DEF QuietInv, StackInv, TypeOK, SourceTypeOK
<1>2. next \notin Lexeme => t = "End_of_text" /\ ~next.bad
  BY <1>1 DEF t, Terminal, EndOfText
<1>3. next \in Lexeme => t \in TerminalNames /\ (next.bad => t = "End_of_text")
  <2> SUFFICES ASSUME next \in Lexeme PROVE t \in TerminalNames /\ (next.bad => t = "End_of_text")
    OBVIOUS
  <2>1. next.code \in DOMAIN Terminal
    BY TerminalAssumption
  <2>2. next.bad => next.code \in {"Unknown", "String"}
    BY LexemeAssumption
  <2> QED
    BY <2>1, <2>2 DEF t, Terminal, TerminalNames
<1>4. Sofar \in Seq(TerminalNames) /\ Len(Sofar) = Len(path)
  <2>1. \A l \in Lexeme : Terminal[l.code] \in TerminalNames
    BY TerminalAssumption DEF Terminal, TerminalNames
  <2>2. Sofar = [k \in 1 .. Len(path) |-> Terminal[path[k].code]]
    BY <1>1 DEF Sofar, Terminals
  <2> QED
    BY <1>1, <2>1, <2>2
<1>5. path # <<>> => Len(path) \in 1 .. Len(path)
  BY <1>1
<1>6. path # <<>> => Sofar # <<>> /\ Sofar[Len(path)] = Terminal[path[Len(path)].code]
  BY <1>1, <1>4, <1>5 DEF Sofar, Terminals
<1> QED
  BY <1>1, <1>2, <1>3, <1>4, <1>6 DEF TerminalNames

(* A terminal that is shifted continues what was read. *)
LEMMA ShiftedContinues ==
    ASSUME QuietInv, ~complained, t \in DOMAIN shift[current_state]
    PROVE  Continues(Sofar, t)
<1> DEFINE s == current_state
           d == Depth(Sofar, Len(path))
           b == Cardinality(Brackets(parser_stack))
<1>1. /\ s \in States /\ b \in Nat
  BY TopState DEF QuietInv
<1>2. /\ t # "End_of_text" /\ s # 17
      /\ IF s = 0 THEN t = "p" ELSE \A x \in ReadLast[s] : t \in Follow[x]
      /\ t = "RP" => s = 15
      /\ t = "q" => s = 3
  BY <1>1, ShiftLeads
<1>3. /\ path = <<>> <=> s = 0
      /\ s # 0 => Sofar[Len(path)] \in ReadLast[s]
      /\ d = b - Closing(s)
  BY DEF QuietInv
<1>4. /\ Len(Sofar) = Len(path) /\ (path # <<>> => Sofar # <<>>)
      /\ Sofar \in Seq(TerminalNames) /\ path \in Seq(Lexeme)
  BY QuietTypes
<1>5. (s = 3 => b = 0) /\ (s = 15 => b > 0)
  BY BracketsBelow DEF QuietInv
<1>6. IF Sofar = <<>> THEN t = "p" ELSE t \in Follow[Sofar[Len(Sofar)]]
  <2>1. Sofar = <<>> <=> path = <<>>
    BY <1>4
  <2> QED
    BY <1>2, <1>3, <1>4, <2>1
<1>7. (t = "RP" => d > 0) /\ (t = "q" => d = 0)
  <2>1. d = b
    BY <1>1, <1>2, <1>3 DEF Closing
  <2> QED
    BY <1>2, <1>5, <2>1
<1> QED
  BY <1>2, <1>4, <1>6, <1>7 DEF Continues

(* One lexeme more in the path *)
LEMMA PathViable ==
    ASSUME QuietInv, ~complained, next \in Lexeme
    PROVE  /\ Terminals(Append(path, next)) = Append(Sofar, t)
           /\ Viable(Append(Sofar, t)) <=> Continues(Sofar, t)
<1>1. path \in Seq(Lexeme) /\ Sofar \in Seq(TerminalNames) /\ t \in TerminalNames
  BY QuietTypes
<1>2. Terminals(Append(path, next)) = Append(Sofar, t)
  BY <1>1, TerminalsExtended DEF Sofar, t
<1>3. Viable(Sofar)
  BY DEF QuietInv
<1> QED
  BY <1>1, <1>2, <1>3, ViableExtended

(* A shift without a message: the lexeme continues what was read. *)
LEMMA ShiftQuiet ==
    ASSUME QuietInv, ~complained, Shift, ~complained'
    PROVE  QuietInv'
<1> DEFINE s == current_state
           s2 == shift[s][t]
           x == [st_num |-> s2, li |-> next, begin |-> 0, end |-> 0]
           b == Cardinality(Brackets(parser_stack))
<1>1. StackInv'
  <2>1. [Next]_rvars
    BY DEF Next, Iteration
  <2> QED
    BY <2>1, NextKeepsInv DEF QuietInv
<1>2. /\ t \in DOMAIN shift[s] /\ s \in States /\ b \in Nat /\ StackInv
  BY TopState DEF Shift, QuietInv
<1>3. /\ s2 \in 1 .. 17 /\ t # "End_of_text"
      /\ ReadLast[s2] = {t} /\ Awaited[s2] = TerminalNames
      /\ s2 = 9 <=> t = "LP"
      /\ s2 = 17 <=> t = "RP"
      /\ s # 17
  BY <1>2, ShiftLeads
<1>4. next \in Lexeme /\ path \in Seq(Lexeme) /\ Sofar \in Seq(TerminalNames) /\ Len(Sofar) = Len(path)
  BY <1>3, QuietTypes
<1>5. parser_stack' = Append(parser_stack, x) /\ path' = Append(path, next)
  BY DEF Shift, Pushed, Read
<1>6. /\ Len(parser_stack') \in Nat /\ Last(parser_stack') = x /\ current_state' = s2
  <2>1. parser_stack \in Seq(StackItem(Len(buf_)) \cup {x})
    BY <1>2 DEF StackInv, TypeOK
  <2>2. Len(parser_stack') = Len(parser_stack) + 1 /\ parser_stack'[Len(parser_stack) + 1] = x
    BY <1>5, <2>1
  <2>3. Last(parser_stack') = x
    BY <2>2 DEF Last
  <2> QED
    BY <2>1, <2>2, <2>3 DEF current_state
<1>7. Cardinality(Brackets(parser_stack')) = b + IF t = "LP" THEN 1 ELSE 0
  BY <1>2, <1>3, <1>5, BracketsPushed
<1>8. Sofar' = Append(Sofar, t) /\ Viable(Append(Sofar, t))
  BY <1>2, <1>4, <1>5, PathViable, ShiftedContinues DEF Sofar
<1>9. Len(path') = Len(path) + 1 /\ path' # <<>> /\ path'[Len(path')] = next
  BY <1>4, <1>5
<1>10. Sofar'[Len(path')] = t
  BY <1>4, <1>8, <1>9
<1>11. Depth(Sofar', Len(path')) = Cardinality(Brackets(parser_stack')) - Closing(s2)
  <2>1. t \in TerminalNames
    BY QuietTypes
  <2>2. Depth(Sofar', Len(path'))
          = Depth(Sofar, Len(path)) + IF t = "LP" THEN 1 ELSE IF t = "RP" THEN -1 ELSE 0
    BY <1>4, <1>8, <1>9, <2>1, DepthExtended
  <2>3. Depth(Sofar, Len(path)) = b
    BY <1>2, <1>3 DEF QuietInv, Closing
  <2> HIDE DEF b, s2
  <2>4. CASE t = "LP"
    BY <1>2, <1>3, <1>7, <2>2, <2>3, <2>4 DEF Closing
  <2>5. CASE t = "RP"
    BY <1>2, <1>3, <1>7, <2>2, <2>3, <2>5 DEF Closing
  <2>6. CASE t \notin {"LP", "RP"}
    BY <1>2, <1>3, <1>7, <2>2, <2>3, <2>6 DEF Closing
  <2> QED
    BY <2>4, <2>5, <2>6
<1>12. t' \in TerminalNames
  <2>1. next' \in Lexeme \cup {EndOfText}
    BY <1>1 DEF StackInv, TypeOK, SourceTypeOK
  <2>2. next' = EndOfText => Terminal[next'.code] \in TerminalNames
    BY DEF EndOfText, Terminal, TerminalNames
  <2>3. next' \in Lexeme => Terminal[next'.code] \in TerminalNames
    BY TerminalAssumption DEF Terminal, TerminalNames
  <2> QED
    BY <2>1, <2>2, <2>3 DEF t
<1>13. Last(parser_stack').li = path'[Len(path')]
  BY <1>6, <1>9
<1> HIDE DEF x, s2
<1>14. /\ Viable(Sofar')
       /\ ~(path' = <<>>) /\ current_state' # 0
       /\ Sofar'[Len(path')] \in ReadLast[current_state']
       /\ t' \in Awaited[current_state']
       /\ Depth(Sofar', Len(path')) = Cardinality(Brackets(parser_stack')) - Closing(current_state')
  BY <1>3, <1>6, <1>8, <1>9, <1>10, <1>11, <1>12
<1> QED
  BY <1>1, <1>13, <1>14 DEF QuietInv

(* A reduction without a message: nothing more is read, and what was looked *)
(* ahead for is what may follow the symbol.                                 *)
LEMMA ReduceQuiet ==
    ASSUME QuietInv, ~complained, Reduce, ~complained'
    PROVE  QuietInv'
<1> DEFINE s == current_state
           r == reduce_rules[s]
           to == next_state(Last(Below(r)).st_num, rules[r].nt)
           b == Cardinality(Brackets(parser_stack))
<1>1. StackInv'
  <2>1. [Next]_rvars
    BY DEF Next, Iteration
  <2> QED
    BY <2>1, NextKeepsInv DEF QuietInv
<1>2. /\ s \in DOMAIN reduce_rules /\ s # 0 /\ b \in Nat /\ StackInv
      /\ t \in lookahead[s] \/ s = 11
  BY TopState DEF Reduce, QuietInv, reduce_rules
<1>3. /\ to \in 1 .. 17 \ {9, 14, 17}
      /\ ReadLast[s] \subseteq ReadLast[to]
      /\ lookahead[s] \subseteq Awaited[to]
      /\ s = 11 => Awaited[to] = TerminalNames
  BY <1>2, ReductionLeads
<1>4. PICK x : x.st_num = to /\ parser_stack' = Append(Below(r), x)
  <2> DEFINE a == attrib_calc(r, Len(Generated(r)))
             y == [st_num |-> to, li |-> EndOfText, begin |-> a[1], end |-> a[2]]
  <2>1. parser_stack' = Append(Below(r), y)
    BY DEF Reduce, reduce
  <2>2. y.st_num = to
    OBVIOUS
  <2> HIDE DEF y, to, r
  <2> QED
    BY <2>1, <2>2
<1>5. path' = path /\ next' = next
  BY DEF Reduce, Back, GiveBack, source
<1>6. current_state' = to
  <2>1. /\ Len(Below(r)) \in Nat
        /\ Below(r) \in Seq(StackItem(Len(buf_)))
    <3>1. s = FromTop(1)
      <4>1. Len(parser_stack) - 1 + 1 = Len(parser_stack)
        BY <1>2 DEF StackInv, TypeOK
      <4> QED
        BY <4>1, Zenon DEF current_state, Last, FromTop
    <3>2. HandleFits(r)
      BY <1>2, <3>1, Handles DEF StackInv
    <3>3. rules[r].len \in {1, 2, 3} /\ rules[r].len < Len(parser_stack)
      BY <3>2 DEF HandleFits
    <3> HIDE DEF r
    <3>4. Below(r) \in Seq(StackItem(Len(buf_)))
      BY <1>2, <3>3, BodyBelow, StackPath DEF StackInv, TypeOK
    <3> QED
      BY <3>4
  <2> HIDE DEF r, to
  <2>2. Below(r) \in Seq(StackItem(Len(buf_)) \cup {x})
    BY <2>1
  <2>3. Len(parser_stack') = Len(Below(r)) + 1 /\ parser_stack'[Len(Below(r)) + 1] = x
    BY <1>4, <2>2
  <2> QED
    BY <1>4, <2>3 DEF current_state, Last
<1>7. Cardinality(Brackets(parser_stack')) = b - Closing(s)
  <2> HIDE DEF r, to
  <2>1. x.st_num # 9
    BY <1>3, <1>4
  <2> QED
    BY <1>2, <1>4, <2>1, BracketsReduced DEF r
<1>8. Sofar' = Sofar /\ t' = t
  BY <1>5 DEF Sofar, t
<1>9. t \in Awaited[to]
  <2>1. t \in TerminalNames
    BY QuietTypes
  <2> HIDE DEF to, r
  <2> QED
    BY <1>2, <1>3, <2>1
<1>10. /\ Viable(Sofar) /\ path # <<>>
       /\ Sofar[Len(path)] \in ReadLast[s]
       /\ Depth(Sofar, Len(path)) = b - Closing(s)
  BY <1>2 DEF QuietInv
<1> HIDE DEF to, r
<1>11. /\ to # 0 /\ to # 14 /\ Closing(to) = 0 /\ Sofar[Len(path)] \in ReadLast[to]
  BY <1>3, <1>10 DEF Closing
<1>12. Depth(Sofar', Len(path')) = Cardinality(Brackets(parser_stack')) - Closing(current_state')
  <2>1. Closing(s) \in {0, 1}
    BY DEF Closing
  <2>2. Depth(Sofar', Len(path')) = b - Closing(s)
    BY <1>5, <1>8, <1>10
  <2>3. Closing(current_state') = 0
    BY <1>6, <1>11
  <2> HIDE DEF b
  <2> QED
    BY <1>2, <1>7, <2>1, <2>2, <2>3
<1>13. /\ Viable(Sofar')
       /\ ~(path' = <<>>) /\ current_state' # 0 /\ current_state' # 14
       /\ Sofar'[Len(path')] \in ReadLast[current_state']
       /\ t' \in Awaited[current_state']
  BY <1>5, <1>6, <1>8, <1>9, <1>10, <1>11
<1> QED
  BY <1>1, <1>12, <1>13 DEF QuietInv

(* Messages do not go away, and all handlers of errors print one. *)
LEMMA QuietSteps ==
    ASSUME Iteration, ~complained'
    PROVE  ~complained /\ (Shift \/ Reduce \/ Accept)
<1>1. complained => complained'
  BY DEF Iteration, Shift, Reduce, Accept, state00_error_handler, state02_error_handler,
     state03_error_handler, state04_error_handler, state06_error_handler,
     state07_error_handler, Read, Back, Complain
<1>2. ~ \/ state00_error_handler \/ state02_error_handler \/ state03_error_handler
        \/ state04_error_handler \/ state06_error_handler \/ state07_error_handler
  BY DEF state00_error_handler, state02_error_handler, state03_error_handler,
     state04_error_handler, state06_error_handler, state07_error_handler, Read, Back, Complain
<1> QED
  BY <1>1, <1>2 DEF Iteration

(* Every step keeps what is known before the first message. *)
LEMMA NextQuiet == QuietInv /\ [Next]_rvars => QuietInv'
<1> SUFFICES ASSUME QuietInv, [Next]_rvars PROVE QuietInv'
  OBVIOUS
<1>1. StackInv'
  BY NextKeepsInv DEF QuietInv
<1>2. ASSUME UNCHANGED <<next, parser_stack, complained, path>>
      PROVE  QuietInv'
  <2>1. /\ Sofar' = Sofar /\ current_state' = current_state /\ t' = t
        /\ Brackets(parser_stack)' = Brackets(parser_stack)
    BY <1>2 DEF Sofar, current_state, t, Brackets
  <2> QED
    BY <1>1, <1>2, <2>1 DEF QuietInv
<1>3. CASE UNCHANGED rvars \/ Finished
  <2>1. UNCHANGED rvars
    BY <1>3 DEF Finished
  <2> QED
    BY <1>2, <2>1 DEF rvars
<1>4. CASE Iteration /\ complained'
  BY <1>1, <1>4 DEF QuietInv
<1>5. CASE Iteration /\ ~complained'
  <2>1. ~complained /\ (Shift \/ Reduce \/ Accept)
    BY <1>5, QuietSteps
  <2>2. CASE Accept
    <3>1. UNCHANGED <<next, parser_stack, path>>
      BY <1>5, <2>2 DEF Accept, Back, GiveBack, source
    <3>2. complained \in BOOLEAN /\ complained' \in BOOLEAN
      BY <1>1 DEF QuietInv, StackInv, TypeOK
    <3>3. complained' = complained
      BY <1>5, <2>1, <3>2, Zenon
    <3> QED
      BY <1>2, <3>1, <3>3
  <2> QED
    BY <1>5, <2>1, <2>2, ShiftQuiet, ReduceQuiet
<1> QED
  BY <1>3, <1>4, <1>5 DEF Next

(* As long as no message was printed, what was read begins a phrase of the  *)
(* language, and the state on top knows what was read last, what may come   *)
(* next, and how many parentheses are open (src/expr_lr_tables.cpp).        *)
THEOREM QuietInvariant == Spec => []QuietInv
<1>1. Init => QuietInv
  BY InitQuiet
<1>2. QuietInv /\ [Next]_rvars => QuietInv'
  BY NextQuiet
<1> QED
  BY <1>1, <1>2, PTL DEF Spec

-----------------------------------------------------------------------------
(* In the state of a terminal or of a symbol, the next lexeme does not      *)
(* continue what was read unless the table has an entry for it.             *)
LEMMA NothingElseContinues ==
    ASSUME QuietInv, ~complained, Continues(Sofar, t)
    PROVE  /\ t # "End_of_text"
           /\ current_state = 0 => t = "p"
           /\ current_state \in {2, 9, 10} => t \in {"d", "LP"}
           /\ current_state = 3 => t \in {"b", "q"}
           /\ current_state = 15 => t \in {"b", "RP"}
           /\ current_state \in {4, 5, 6, 7, 8, 12, 13, 14, 16, 17} => t # "p"
           /\ current_state \in {4, 5, 12, 13, 16} => t \notin {"a", "c"}
           /\ current_state \in {6, 14} => t # "a"
<1> DEFINE s == current_state
           b == Cardinality(Brackets(parser_stack))
           last == Sofar[Len(path)]
<1>1. s \in States /\ b \in Nat /\ (s = 3 => b = 0) /\ (s = 15 => b > 0)
  BY TopState, BracketsBelow DEF QuietInv
<1>2. /\ path = <<>> <=> s = 0
      /\ s # 0 => last \in ReadLast[s] /\ t \in Awaited[s]
      /\ Depth(Sofar, Len(path)) = b - Closing(s)
  BY DEF QuietInv
<1>3. Len(Sofar) = Len(path) /\ (path # <<>> => Sofar # <<>>) /\ t \in TerminalNames
      /\ path \in Seq(Lexeme) /\ Sofar \in Seq(TerminalNames)
  BY QuietTypes
<1>4. /\ t # "End_of_text"
      /\ s = 0 => t = "p"
      /\ s # 0 => t \in Follow[last]
      /\ t = "RP" => Depth(Sofar, Len(path)) > 0
      /\ t = "q" => Depth(Sofar, Len(path)) = 0
  <2>1. s = 0 => Sofar = <<>>
    BY <1>2, <1>3
  <2> QED
    BY <1>2, <1>3, <2>1 DEF Continues
<1>5. /\ s \in {3, 15} => Depth(Sofar, Len(path)) = b
      /\ t = "RP" => s # 3
      /\ t = "q" => s # 15
  <2>1. s \in {3, 15} => Depth(Sofar, Len(path)) = b
    BY <1>1, <1>2 DEF Closing
  <2> HIDE DEF b
  <2> QED
    BY <1>1, <1>4, <2>1
<1> HIDE DEF s, b, last
<1>6. CASE s = 0
  BY <1>4, <1>6 DEF s
<1>7. CASE s \in {2, 9, 10}
  <2>1. last \in {"p", "LP", "b"}
    BY <1>2, <1>7, ReadLastTable
  <2> QED
    BY <1>4, <1>7, <2>1, FollowTable DEF s
<1>8. CASE s \in {3, 15}
  <2>1. t \in {"b", "q", "RP"}
    BY <1>2, <1>8, AwaitedTable
  <2> QED
    BY <1>4, <1>5, <1>8, <2>1 DEF s
<1>9. CASE s \in {4, 5, 12, 16}
  <2>1. t \in {"b", "q", "RP", "d", "LP"}
    BY <1>2, <1>9, AwaitedTable
  <2> QED
    BY <1>4, <1>9, <2>1 DEF s
<1>10. CASE s = 6
  <2>1. t \in {"b", "q", "RP", "d", "LP", "c"}
    BY <1>2, <1>10, AwaitedTable
  <2> QED
    BY <1>4, <1>10, <2>1 DEF s
<1>11. CASE s = 7
  <2>1. t \in {"b", "q", "RP", "d", "LP", "c", "a"}
    BY <1>2, <1>11, AwaitedTable
  <2> QED
    BY <1>4, <1>11, <2>1 DEF s
<1>12. CASE s \in {8, 17}
  <2>1. last \in {"d", "RP"}
    BY <1>2, <1>12, ReadLastTable
  <2> QED
    BY <1>4, <1>12, <2>1, FollowTable DEF s
<1>13. CASE s = 13
  <2>1. last = "c"
    BY <1>2, <1>13, ReadLastTable
  <2> QED
    BY <1>4, <1>13, <2>1, FollowTable DEF s
<1>14. CASE s = 14
  <2>1. last = "a"
    BY <1>2, <1>14, ReadLastTable
  <2> QED
    BY <1>4, <1>14, <2>1, FollowTable DEF s
<1>15. CASE s \in {1, 11}
  BY <1>4, <1>15 DEF s
<1> QED
  BY <1>1, <1>6, <1>7, <1>8, <1>9, <1>10, <1>11, <1>12, <1>13, <1>14, <1>15 DEF States

(* The action that is not defined is that of the last lexeme read. *)
LEMMA LastActionRead ==
    ASSUME QuietInv, ~complained, current_state \in DOMAIN reduce_rules,
           ActionErrors(reduce_rules[current_state]) > 0
    PROVE  Last(path).code = "Action" /\ Last(path).idx \notin Actions
<1> DEFINE r == reduce_rules[current_state]
           n == Len(parser_stack)
<1>1. r = "G_is_Ha" /\ Body(r)[2].li.idx \notin Actions
  BY DEF ActionErrors
<1>2. current_state = 14
  BY <1>1 DEF reduce_rules
<1>3. rules[r].len = 2
  BY <1>1 DEF rules
<1>4. current_state = FromTop(1)
  <2>1. n - 1 + 1 = n
    BY TopState DEF QuietInv
  <2> QED
    BY <2>1, Zenon DEF current_state, Last, FromTop
<1>5. rules[r].len < n
  BY <1>4, Handles DEF QuietInv, StackInv, HandleFits
<1> HIDE DEF r
<1>6. Body(r)[2] = parser_stack[n]
  <2>1. Body(r)[2] = parser_stack[n - 2 + 2]
    <3>1. \E z : parser_stack \in Seq(StackItem(z))
      BY DEF QuietInv, StackInv, TypeOK
    <3>2. IsPath(parser_stack)
      BY StackPath DEF QuietInv, StackInv
    <3>3. rules[r].len \in {1, 2, 3} /\ 2 \in 1 .. rules[r].len
      BY <1>3
    <3>4. Body(r)[2] = parser_stack[Len(parser_stack) - rules[r].len + 2]
      BY <1>5, <3>1, <3>2, <3>3, BodyBelow
    <3> QED
      BY <1>3, <3>4
  <2>2. n - 2 + 2 = n
    BY TopState DEF QuietInv
  <2> QED
    BY <2>1, <2>2
<1>7. Last(parser_stack).li = path[Len(path)] /\ Last(parser_stack) = parser_stack[n]
  BY <1>2 DEF QuietInv, Last
<1>8. Last(path) = path[Len(path)]
  BY DEF Last
<1>9. Terminal[path[Len(path)].code] = "a"
  <2>1. path # <<>> /\ Sofar[Len(path)] \in ReadLast[14]
    BY <1>2 DEF QuietInv
  <2> QED
    BY <2>1, QuietTypes, ReadLastTable
<1>10. path[Len(path)].code = "Action"
  <2>1. path \in Seq(Lexeme) /\ path # <<>>
    BY <1>2, QuietTypes DEF QuietInv
  <2>2. path[Len(path)].code \in DOMAIN Terminal
    BY <2>1, TerminalAssumption
  <2> QED
    BY <1>9, <2>2 DEF Terminal
<1> QED
  BY <1>1, <1>6, <1>7, <1>8, <1>10

(* Whatever the text, the first message comes at the first lexeme that      *)
(* cannot continue any phrase, or after an action that is not defined: the  *)
(* table of src/expr_lr_tables.cpp has an entry wherever the grammar has a  *)
(* continuation, and no handler is called for one.                          *)
THEOREM FirstMessageIsRight == Spec => MessagesAreRight
<1> DEFINE Right1 == \/ ~ Viable(Terminals(Append(path, next)))
                     \/ Last(path).code = "Action" /\ Last(path).idx \notin Actions
<1>1. ASSUME QuietInv, [Next]_rvars, ~complained, complained'
      PROVE  Right1
  <2>1. Iteration
    BY <1>1 DEF Next, Finished, rvars
  <2> SUFFICES ASSUME Viable(Terminals(Append(path, next))),
                      ~(Last(path).code = "Action" /\ Last(path).idx \notin Actions)
               PROVE  FALSE
    OBVIOUS
  <2>2. Continues(Sofar, t)
    <3>1. CASE next \in Lexeme
      BY <1>1, <3>1, PathViable
    <3>2. CASE next \notin Lexeme
      <4>1. next = EndOfText /\ path \in Seq(Lexeme)
        BY <1>1, <3>2 DEF QuietInv, StackInv, TypeOK, SourceTypeOK
      <4> DEFINE a == Append(path, next)
                 n == Len(path)
      <4>2. n \in Nat /\ DOMAIN a = 1 .. n + 1 /\ a[n + 1] = EndOfText
        <5>1. path \in Seq(Lexeme \cup {EndOfText})
          BY <4>1
        <5> QED
          BY <4>1, <5>1
      <4> HIDE DEF a, n
      <4>3. n + 1 \in DOMAIN Terminals(a) /\ Terminals(a)[n + 1] = "End_of_text"
        BY <4>2 DEF Terminals, Terminal, EndOfText
      <4> QED
        BY <4>3 DEF Viable, a
    <3> QED
      BY <3>1, <3>2
  <2>3. /\ t # "End_of_text" /\ ~next.bad /\ t \in TerminalNames
        /\ current_state = 0 => t = "p"
        /\ current_state \in {2, 9, 10} => t \in {"d", "LP"}
        /\ current_state = 3 => t \in {"b", "q"}
        /\ current_state = 15 => t \in {"b", "RP"}
        /\ current_state \in {4, 5, 6, 7, 8, 12, 13, 14, 16, 17} => t # "p"
        /\ current_state \in {4, 5, 12, 13, 16} => t \notin {"a", "c"}
        /\ current_state \in {6, 14} => t # "a"
    BY <1>1, <2>2, NothingElseContinues, QuietTypes
  <2>4. CASE Shift \/ Accept
    BY <1>1, <2>3, <2>4 DEF Shift, Accept, Read, Back, Complain
  <2>5. CASE Reduce
    <3>1. /\ current_state \in DOMAIN reduce_rules
          /\ ActionErrors(reduce_rules[current_state]) > 0
      BY <1>1, <2>3, <2>5 DEF Reduce, Back, Complain
    <3> QED
      BY <1>1, <3>1, LastActionRead
  <2>6. ~state00_error_handler
    BY <2>3 DEF state00_error_handler
  <2>7. ~state02_error_handler
    <3>1. \A s \in {2, 9, 10} : DOMAIN shift[s] = {"d", "LP"}
      BY DEF shift, States
    <3> QED
      BY <2>3, <3>1 DEF state02_error_handler
  <2>8. ~state03_error_handler
    <3>1. DOMAIN shift[3] = {"b", "q"} /\ DOMAIN shift[15] = {"b", "RP"}
      BY DEF shift, States
    <3> QED
      BY <2>3, <3>1 DEF state03_error_handler
  <2>9. ~state04_error_handler /\ ~state06_error_handler /\ ~state07_error_handler
    BY <2>3 DEF state04_error_handler, state06_error_handler, state07_error_handler
  <2> QED
    BY <2>1, <2>4, <2>5, <2>6, <2>7, <2>8, <2>9 DEF Iteration
<1>2. QuietInv /\ [Next]_rvars => [~complained /\ complained' => Right1]_rvars
  BY <1>1
<1> QED
  BY <1>2, QuietInvariant, PTL DEF Spec, MessagesAreRight

-----------------------------------------------------------------------------
(* A set of natural numbers has a least element: induction, for what the    *)
(* recursive functions of this module compute.                              *)
LEMMA LeastNumber ==
    ASSUME NEW S \in SUBSET Nat, NEW n \in S
    PROVE  \E m \in S : \A k \in S : m <= k
<1> DEFINE R == {p \in Nat \X Nat : p[1] < p[2]}
<1>1. IsWellFoundedOn(R, Nat)
  BY NatLessThanWellFounded DEF OpToRel
<1>2. \E x \in S : \A y \in S : ~ (<<y, x>> \in R)
  BY <1>1, WFMin
<1>3. \A x, y \in S : <<y, x>> \notin R => x <= y
  <2> TAKE x, y \in S
  <2>1. <<y, x>> \in Nat \X Nat /\ <<y, x>>[1] = y /\ <<y, x>>[2] = x
    OBVIOUS
  <2>2. x \in Nat /\ y \in Nat
    OBVIOUS
  <2> QED
    BY <2>1, <2>2
<1> QED
  BY <1>2, <1>3, Zenon

-----------------------------------------------------------------------------
(***************************************************************************)
(* Phrases.  The recursive function Derivations(w) exists, because the      *)
(* commands of a part are those of shorter parts, or of the same part as a  *)
(* symbol that is lower in the grammar.                                     *)
(***************************************************************************)
Is(w, k, x) == Terminal[w[k].code] = x

(* What it is to be among the commands of a part, rule by rule *)
IsT(w, f, i, j, b) ==
    \/ b \in f[<<"E", i, j>>]
    \/ \E k \in i + 1 .. j - 1 : /\ Is(w, k, "b")
                                 /\ \E l \in f[<<"T", i, k - 1>>] : \E r \in f[<<"E", k + 1, j>>] :
                                        b = Both("Or", l, r)

IsE(w, f, i, j, b) ==
    \/ b \in f[<<"F", i, j>>]
    \/ \E k \in i .. j - 1 : \E l \in f[<<"E", i, k>>] : \E r \in f[<<"F", k + 1, j>>] :
           b = Both("Concat", l, r)

IsF(w, f, i, j, b) ==
    \/ b \in f[<<"G", i, j>>]
    \/ i < j /\ Is(w, j, "c") /\ \E l \in f[<<"G", i, j - 1>>] : b = Applied(l, w[j].code)

IsG(w, f, i, j, b) ==
    \/ b \in f[<<"H", i, j>>]
    \/ i < j /\ Is(w, j, "a") /\ \E l \in f[<<"H", i, j - 1>>] : b = Acting(l, w[j].idx)

IsH(w, f, i, j, b) ==
    \/ i = j /\ Is(w, i, "d") /\ b = <<Command(CommandName[w[i].code], w[i].idx, 0)>>
    \/ i + 1 < j /\ Is(w, i, "LP") /\ Is(w, j, "RP") /\ b \in f[<<"T", i + 1, j - 1>>]

(* The commands of a part that is not empty are given by these rules. *)
LEMMA DerivedIs ==
    ASSUME NEW w, NEW f, NEW i \in Nat, NEW j \in Nat, i <= j, NEW b
    PROVE  /\ b \in Derived(w, f, "T", i, j) <=> IsT(w, f, i, j, b)
           /\ b \in Derived(w, f, "E", i, j) <=> IsE(w, f, i, j, b)
           /\ b \in Derived(w, f, "F", i, j) <=> IsF(w, f, i, j, b)
           /\ b \in Derived(w, f, "G", i, j) <=> IsG(w, f, i, j, b)
           /\ b \in Derived(w, f, "H", i, j) <=> IsH(w, f, i, j, b)
<1>1. ~ (i > j)
  OBVIOUS
<1>2. b \in Derived(w, f, "T", i, j) <=> IsT(w, f, i, j, b)
  <2>1. Derived(w, f, "T", i, j) = f[<<"E", i, j>>] \cup
                 UNION {{Both("Or", l, r) : l \in f[<<"T", i, k - 1>>], r \in f[<<"E", k + 1, j>>]} :
                           k \in {k \in i + 1 .. j - 1 : Terminal[w[k].code] = "b"}}
    BY <1>1 DEF Derived
  <2> DEFINE K == {k \in i + 1 .. j - 1 : Terminal[w[k].code] = "b"}
             At(k) == {Both("Or", l, r) : l \in f[<<"T", i, k - 1>>], r \in f[<<"E", k + 1, j>>]}
  <2>2. b \in UNION {At(k) : k \in K} <=> \E k \in K : b \in At(k)
    <3> HIDE DEF At, K
    <3> QED
      OBVIOUS
  <2>3. \A k \in K : b \in At(k) <=> \E l \in f[<<"T", i, k - 1>>] : \E r \in f[<<"E", k + 1, j>>] : b = Both("Or", l, r)
    OBVIOUS
  <2> DEFINE Made(k) == \E l \in f[<<"T", i, k - 1>>] : \E r \in f[<<"E", k + 1, j>>] : b = Both("Or", l, r)
  <2>4. (\E k \in K : b \in At(k)) <=> \E k \in K : Made(k)
    <3>1. \A k \in K : b \in At(k) <=> Made(k)
      BY <2>3
    <3> HIDE DEF Made, At, K
    <3> QED
      BY <3>1
  <2>5. b \in Derived(w, f, "T", i, j) <=> b \in f[<<"E", i, j>>] \/ \E k \in K : Made(k)
    <3>1. Derived(w, f, "T", i, j) = f[<<"E", i, j>>] \cup UNION {At(k) : k \in K}
      BY <2>1
    <3> HIDE DEF Made, At, K
    <3> QED
      BY <3>1, <2>2, <2>4
  <2>6. (\E k \in K : Made(k)) <=> \E k \in i + 1 .. j - 1 : Is(w, k, "b") /\ Made(k)
    <3> HIDE DEF Made
    <3> QED
      BY DEF Is
  <2> QED
    BY <2>5, <2>6, Zenon DEF IsT
<1>3. b \in Derived(w, f, "E", i, j) <=> IsE(w, f, i, j, b)
  <2> DEFINE K == i .. j - 1
             At(k) == {Both("Concat", l, r) : l \in f[<<"E", i, k>>], r \in f[<<"F", k + 1, j>>]}
  <2>1. Derived(w, f, "E", i, j) = f[<<"F", i, j>>] \cup UNION {At(k) : k \in K}
    BY <1>1 DEF Derived
  <2>2. b \in UNION {At(k) : k \in K} <=> \E k \in K : b \in At(k)
    <3> HIDE DEF At, K
    <3> QED
      OBVIOUS
  <2>3. \A k \in K : b \in At(k) <=> \E l \in f[<<"E", i, k>>] : \E r \in f[<<"F", k + 1, j>>] : b = Both("Concat", l, r)
    OBVIOUS
  <2> DEFINE Made(k) == \E l \in f[<<"E", i, k>>] : \E r \in f[<<"F", k + 1, j>>] : b = Both("Concat", l, r)
  <2>4. (\E k \in K : b \in At(k)) <=> \E k \in K : Made(k)
    <3>1. \A k \in K : b \in At(k) <=> Made(k)
      BY <2>3
    <3> HIDE DEF Made, At, K
    <3> QED
      BY <3>1
  <2>5. b \in Derived(w, f, "E", i, j) <=> b \in f[<<"F", i, j>>] \/ \E k \in K : Made(k)
    <3> HIDE DEF Made, At, K
    <3> QED
      BY <2>1, <2>2, <2>4
  <2> QED
    BY <2>5, Zenon DEF IsE
<1>4. b \in Derived(w, f, "F", i, j) <=> IsF(w, f, i, j, b)
  BY <1>1 DEF Derived, IsF, Is
<1>5. b \in Derived(w, f, "G", i, j) <=> IsG(w, f, i, j, b)
  BY <1>1 DEF Derived, IsG, Is
<1>6. b \in Derived(w, f, "H", i, j) <=> IsH(w, f, i, j, b)
  BY <1>1 DEF Derived, IsH, Is
<1> QED
  BY <1>2, <1>3, <1>4, <1>5, <1>6

(* The order in which the commands of parts could be found *)
Layer == [T |-> 5, E |-> 4, F |-> 3, G |-> 2, H |-> 1]
Rank(x) == IF x[2] > x[3] THEN 0 ELSE 5 * (x[3] - x[2]) + Layer[x[1]]

LEMMA PartsTypes ==
    ASSUME NEW w, Len(w) \in Nat, NEW x \in Parts(w)
    PROVE  /\ x[1] \in {"T", "E", "F", "G", "H"} /\ x[2] \in 1 .. Len(w) /\ x[3] \in 1 .. Len(w)
           /\ x = <<x[1], x[2], x[3]>> /\ Rank(x) \in Nat /\ Rank(x) <= 5 * Len(w)
BY DEF Parts, Rank, Layer

(* Commands are made of those of lower parts only. *)
LEMMA DerivedFromLower ==
    ASSUME NEW w, Len(w) \in Nat, NEW x \in Parts(w), NEW g, NEW h,
           \A y \in Parts(w) : Rank(y) < Rank(x) => g[y] = h[y]
    PROVE  Derived(w, g, x[1], x[2], x[3]) = Derived(w, h, x[1], x[2], x[3])
<1> DEFINE nt == x[1]
           i == x[2]
           j == x[3]
<1>1. /\ nt \in {"T", "E", "F", "G", "H"} /\ i \in 1 .. Len(w) /\ j \in 1 .. Len(w)
  BY PartsTypes
<1>2. CASE i > j
  BY <1>2 DEF Derived
<1>3. CASE i <= j
  <2>1. Rank(x) = 5 * (j - i) + Layer[nt]
    BY <1>1, <1>3 DEF Rank
  <2>2. ASSUME NEW n \in {"T", "E", "F", "G", "H"}, NEW p \in i .. j, NEW q \in i .. j, p <= q,
               p = i /\ q = j => Layer[n] < Layer[nt]
        PROVE  g[<<n, p, q>>] = h[<<n, p, q>>]
    <3> DEFINE y == <<n, p, q>>
    <3>1. y \in Parts(w) /\ y[1] = n /\ y[2] = p /\ y[3] = q
      BY <1>1, <2>2 DEF Parts
    <3>2. Rank(y) = 5 * (q - p) + Layer[n]
      BY <1>1, <2>2, <3>1 DEF Rank
    <3>3. Layer[n] \in 1 .. 5 /\ Layer[nt] \in 1 .. 5
      BY <1>1, <2>2 DEF Layer
    <3>4. 5 * (q - p) + Layer[n] < 5 * (j - i) + Layer[nt]
      <4> DEFINE a == Layer[n]
                 c == Layer[nt]
      <4>1. a \in 1 .. 5 /\ c \in 1 .. 5 /\ (p = i /\ q = j => a < c)
        BY <2>2, <3>3
      <4> HIDE DEF a, c
      <4>2. p \in Nat /\ q \in Nat /\ i \in Nat /\ j \in Nat /\ i <= p /\ p <= q /\ q <= j
        BY <1>1, <2>2
      <4>3. 5 * (q - p) + a < 5 * (j - i) + c
        <5>1. CASE p = i /\ q = j
          BY <4>1, <5>1
        <5>2. CASE ~(p = i /\ q = j)
          <6>1. q - p + 1 <= j - i
            BY <4>2, <5>2
          <6> QED
            BY <4>1, <4>2, <6>1
        <5> QED
          BY <5>1, <5>2
      <4> QED
        BY <4>3 DEF a, c
    <3> QED
      BY <2>1, <3>1, <3>2, <3>4
  <2> HIDE DEF nt, i, j
  <2>3. i \in Nat /\ j \in Nat /\ i <= j
    BY <1>1, <1>3
  <2>4. CASE nt = "T"
    <3>1. g[<<"E", i, j>>] = h[<<"E", i, j>>]
      BY <2>2, <2>3, <2>4 DEF Layer
    <3>2. \A k \in i + 1 .. j - 1 : /\ g[<<"T", i, k - 1>>] = h[<<"T", i, k - 1>>]
                                    /\ g[<<"E", k + 1, j>>] = h[<<"E", k + 1, j>>]
      BY <2>2, <2>3, <2>4
    <3>3. \A b : IsT(w, g, i, j, b) <=> IsT(w, h, i, j, b)
      BY <3>1, <3>2, Zenon DEF IsT
    <3>4. \A b : b \in Derived(w, g, "T", i, j) <=> b \in Derived(w, h, "T", i, j)
      BY <2>3, <3>3, DerivedIs
    <3>5. Derived(w, g, "T", i, j) = Derived(w, h, "T", i, j)
      BY <3>4, Zenon
    <3> QED
      BY <2>4, <3>5 DEF nt, i, j
  <2>5. CASE nt = "E"
    <3>1. g[<<"F", i, j>>] = h[<<"F", i, j>>]
      BY <2>2, <2>3, <2>5 DEF Layer
    <3>2. \A k \in i .. j - 1 : /\ g[<<"E", i, k>>] = h[<<"E", i, k>>]
                                /\ g[<<"F", k + 1, j>>] = h[<<"F", k + 1, j>>]
      BY <2>2, <2>3, <2>5
    <3>3. \A b : IsE(w, g, i, j, b) <=> IsE(w, h, i, j, b)
      BY <3>1, <3>2, Zenon DEF IsE
    <3>4. \A b : b \in Derived(w, g, "E", i, j) <=> b \in Derived(w, h, "E", i, j)
      BY <2>3, <3>3, DerivedIs
    <3>5. Derived(w, g, "E", i, j) = Derived(w, h, "E", i, j)
      BY <3>4, Zenon
    <3> QED
      BY <2>5, <3>5 DEF nt, i, j
  <2>6. CASE nt = "F"
    <3>1. g[<<"G", i, j>>] = h[<<"G", i, j>>]
      BY <2>2, <2>3, <2>6 DEF Layer
    <3>2. i < j => g[<<"G", i, j - 1>>] = h[<<"G", i, j - 1>>]
      BY <2>2, <2>3, <2>6
    <3>3. \A b : IsF(w, g, i, j, b) <=> IsF(w, h, i, j, b)
      BY <3>1, <3>2, Zenon DEF IsF
    <3>4. \A b : b \in Derived(w, g, "F", i, j) <=> b \in Derived(w, h, "F", i, j)
      BY <2>3, <3>3, DerivedIs
    <3>5. Derived(w, g, "F", i, j) = Derived(w, h, "F", i, j)
      BY <3>4, Zenon
    <3> QED
      BY <2>6, <3>5 DEF nt, i, j
  <2>7. CASE nt = "G"
    <3>1. g[<<"H", i, j>>] = h[<<"H", i, j>>]
      BY <2>2, <2>3, <2>7 DEF Layer
    <3>2. i < j => g[<<"H", i, j - 1>>] = h[<<"H", i, j - 1>>]
      BY <2>2, <2>3, <2>7
    <3>3. \A b : IsG(w, g, i, j, b) <=> IsG(w, h, i, j, b)
      BY <3>1, <3>2, Zenon DEF IsG
    <3>4. \A b : b \in Derived(w, g, "G", i, j) <=> b \in Derived(w, h, "G", i, j)
      BY <2>3, <3>3, DerivedIs
    <3>5. Derived(w, g, "G", i, j) = Derived(w, h, "G", i, j)
      BY <3>4, Zenon
    <3> QED
      BY <2>7, <3>5 DEF nt, i, j
  <2>8. CASE nt = "H"
    <3>1. i + 1 < j => g[<<"T", i + 1, j - 1>>] = h[<<"T", i + 1, j - 1>>]
      BY <2>2, <2>3, <2>8
    <3>2. \A b : IsH(w, g, i, j, b) <=> IsH(w, h, i, j, b)
      BY <3>1, Zenon DEF IsH
    <3>3. \A b : b \in Derived(w, g, "H", i, j) <=> b \in Derived(w, h, "H", i, j)
      BY <2>3, <3>2, DerivedIs
    <3>4. Derived(w, g, "H", i, j) = Derived(w, h, "H", i, j)
      BY <3>3, Zenon
    <3> QED
      BY <2>8, <3>4 DEF nt, i, j
  <2> QED
    BY <1>1, <2>4, <2>5, <2>6, <2>7, <2>8 DEF nt
<1> QED
  BY <1>1, <1>2, <1>3

(* A function that follows the rules up to some order exists for any order, *)
(* and so Derivations(w) follows them.                                      *)
LEMMA DerivationsFollow ==
    ASSUME NEW w, Len(w) \in Nat
    PROVE  \A x \in Parts(w) : Derivations(w)[x] = Derived(w, Derivations(w), x[1], x[2], x[3])
<1> DEFINE Rule(g, x) == Derived(w, g, x[1], x[2], x[3])
           Follows(n, g) == \A x \in Parts(w) : Rank(x) < n => g[x] = Rule(g, x)
           Bad == {n \in Nat : ~ \E g : Follows(n, g)}
<1>1. \A x \in Parts(w) : Rank(x) \in Nat /\ Rank(x) <= 5 * Len(w)
  BY PartsTypes
<1>2. ASSUME NEW n \in Nat, NEW g, Follows(n, g)
      PROVE  \E h : Follows(n + 1, h)
  <2> DEFINE h == [x \in Parts(w) |-> IF Rank(x) < n THEN g[x] ELSE Rule(g, x)]
  <2>1. ASSUME NEW x \in Parts(w), Rank(x) < n + 1
        PROVE  h[x] = Rule(h, x)
    <3>1. \A y \in Parts(w) : Rank(y) < Rank(x) => g[y] = h[y]
      BY <1>1, <2>1
    <3>2. Rule(g, x) = Rule(h, x)
      <4> HIDE DEF h
      <4> QED
        BY <3>1, DerivedFromLower
    <3>3. h[x] = Rule(g, x)
      BY <1>2
    <3> QED
      BY <3>2, <3>3
  <2> QED
    BY <2>1
<1>3. Bad = {}
  <2> SUFFICES ASSUME Bad # {} PROVE FALSE
    OBVIOUS
  <2>1. PICK n \in Bad : \A m \in Bad : n <= m
    <3>1. Bad \in SUBSET Nat
      OBVIOUS
    <3> HIDE DEF Bad
    <3> QED
      BY <3>1, LeastNumber
  <2>2. n # 0
    <3>1. Follows(0, <<>>)
      BY <1>1
    <3> QED
      BY <3>1, <2>1
  <2>3. n - 1 \in Nat /\ n - 1 \notin Bad /\ (n - 1) + 1 = n
    BY <2>1, <2>2
  <2>4. PICK g : Follows(n - 1, g)
    BY <2>3
  <2>5. \E h : Follows((n - 1) + 1, h)
    <3> HIDE DEF Follows
    <3> QED
      BY <1>2, <2>3, <2>4
  <2>6. PICK h : Follows((n - 1) + 1, h)
    <3> HIDE DEF Follows
    <3> QED
      BY <2>5
  <2>7. Follows(n, h)
    BY <2>3, <2>6
  <2>8. n \in Nat /\ ~ \E e : Follows(n, e)
    BY <2>1
  <2> HIDE DEF Follows
  <2> QED
    BY <2>7, <2>8
<1>3a. \A m \in Nat : \E g : Follows(m, g)
  <2> HIDE DEF Follows
  <2> QED
    BY <1>3
<1>3b. 5 * Len(w) + 1 \in Nat
  OBVIOUS
<1>4. PICK g : Follows(5 * Len(w) + 1, g)
  <2> HIDE DEF Follows
  <2> QED
    BY <1>3a, <1>3b
<1>5. \A x \in Parts(w) : g[x] = Rule(g, x)
  BY <1>1, <1>4
<1> DEFINE h == [x \in Parts(w) |-> g[x]]
           Solves(f) == f = [x \in Parts(w) |-> Rule(f, x)]
<1>6. \A x \in Parts(w) : Rule(g, x) = Rule(h, x)
  <2>1. \A y \in Parts(w) : g[y] = h[y]
    OBVIOUS
  <2> HIDE DEF h
  <2> QED
    BY <2>1, DerivedFromLower
<1>7. Solves(h)
  BY <1>5, <1>6
<1>8. Derivations(w) = CHOOSE f : Solves(f)
  BY DEF Derivations
<1> HIDE DEF Solves
<1>9. Solves(Derivations(w))
  BY <1>7, <1>8
<1> DEFINE D == Derivations(w)
<1>10. D = [x \in Parts(w) |-> Rule(D, x)]
  BY <1>9 DEF Solves
<1> HIDE DEF D
<1>11. \A x \in Parts(w) : D[x] = Rule(D, x)
  BY <1>10
<1> QED
  BY <1>11 DEF D

-----------------------------------------------------------------------------
(* The depth of parentheses, terminal by terminal *)
LEMMA DepthSteps ==
    ASSUME NEW w, NEW k \in Nat, k > 0
    PROVE  /\ Depth(w, k) \in Int /\ Depth(w, k - 1) \in Int
           /\ Depth(w, k) = Depth(w, k - 1) + IF w[k] = "LP" THEN 1 ELSE IF w[k] = "RP" THEN -1 ELSE 0
<1> DEFINE At(m, c) == {p \in 1 .. m : w[p] = c}
<1>1. ASSUME NEW c
      PROVE  /\ Cardinality(At(k - 1, c)) \in Nat
             /\ Cardinality(At(k, c)) = Cardinality(At(k - 1, c)) + IF w[k] = c THEN 1 ELSE 0
  <2>1. IsFiniteSet(At(k - 1, c))
    <3>1. k - 1 \in Int
      OBVIOUS
    <3>2. IsFiniteSet(1 .. k - 1)
      BY <3>1, FS_Interval
    <3> QED
      BY <3>2, FS_Subset
  <2>2. At(k, c) = IF w[k] = c THEN At(k - 1, c) \cup {k} ELSE At(k - 1, c)
    OBVIOUS
  <2>3. k \notin At(k - 1, c)
    OBVIOUS
  <2> DEFINE a == At(k - 1, c)
             b == At(k, c)
  <2>4. IsFiniteSet(a) /\ k \notin a /\ b = IF w[k] = c THEN a \cup {k} ELSE a
    BY <2>1, <2>2, <2>3
  <2> HIDE DEF At, a, b
  <2>5. Cardinality(a) \in Nat /\ Cardinality(a \cup {k}) = Cardinality(a) + 1
    BY <2>4, FS_AddElement, FS_CardinalityType
  <2>6. Cardinality(a) \in Nat /\ Cardinality(b) = Cardinality(a) + IF w[k] = c THEN 1 ELSE 0
    BY <2>4, <2>5
  <2> QED
    BY <2>6 DEF a, b
<1>2. /\ Depth(w, k) = Cardinality(At(k, "LP")) - Cardinality(At(k, "RP"))
      /\ Depth(w, k - 1) = Cardinality(At(k - 1, "LP")) - Cardinality(At(k - 1, "RP"))
  BY DEF Depth
<1> HIDE DEF At
<1> DEFINE l == Cardinality(At(k - 1, "LP"))
           r == Cardinality(At(k - 1, "RP"))
           l2 == Cardinality(At(k, "LP"))
           r2 == Cardinality(At(k, "RP"))
<1>3. /\ l \in Nat /\ r \in Nat
      /\ l2 = l + IF w[k] = "LP" THEN 1 ELSE 0
      /\ r2 = r + IF w[k] = "RP" THEN 1 ELSE 0
  BY <1>1
<1>4. Depth(w, k) = l2 - r2 /\ Depth(w, k - 1) = l - r
  BY <1>2
<1> HIDE DEF l, r, l2, r2
<1>5. CASE w[k] = "LP"
  BY <1>3, <1>4, <1>5
<1>6. CASE w[k] = "RP"
  BY <1>3, <1>4, <1>6
<1>7. CASE w[k] # "LP" /\ w[k] # "RP"
  BY <1>3, <1>4, <1>7
<1> QED
  BY <1>5, <1>6, <1>7

(* What the terminals ts from i to j look like if they are a phrase, where  *)
(* dp is the depth of parentheses: they begin with an operand, they close   *)
(* what they open, an alternative is bare of parentheses in a T only, and   *)
(* two operands are in a T or an E only.                                    *)
Shape(ts, dp, nt, i, j) ==
    /\ dp[j] = dp[i - 1] /\ \A k \in i .. j : dp[k] >= dp[i - 1]
    /\ ts[i] \in {"d", "LP"}
    /\ nt = "H" => ts[j] \in {"d", "RP"}
    /\ nt = "G" => ts[j] \in {"d", "RP", "a"}
    /\ nt # "T" => \A k \in i .. j : ts[k] = "b" => dp[k] > dp[i - 1]
    /\ nt \in {"F", "G", "H"} =>
          \A k \in i + 1 .. j : ts[k] \in {"d", "LP"} => dp[k - 1] > dp[i - 1]

Depths(ts, dp, n) ==
    /\ \A k \in 0 .. n : dp[k] \in Int
    /\ \A k \in 1 .. n : /\ ts[k] = "LP" => dp[k] = dp[k - 1] + 1
                         /\ ts[k] = "RP" => dp[k] = dp[k - 1] - 1
                         /\ ts[k] \notin {"LP", "RP"} => dp[k] = dp[k - 1]

(* The shape is kept by each of the rules. *)
LEMMA ShapeKept ==
    ASSUME NEW n \in Nat, NEW ts, NEW dp, Depths(ts, dp, n),
           NEW i \in 1 .. n, NEW j \in 1 .. n, i <= j
    PROVE  /\ Shape(ts, dp, "E", i, j) => Shape(ts, dp, "T", i, j)
           /\ Shape(ts, dp, "F", i, j) => Shape(ts, dp, "E", i, j)
           /\ Shape(ts, dp, "G", i, j) => Shape(ts, dp, "F", i, j)
           /\ Shape(ts, dp, "H", i, j) => Shape(ts, dp, "G", i, j)
           /\ i = j /\ ts[i] = "d" => Shape(ts, dp, "H", i, j)
           /\ i < j /\ ts[j] = "c" /\ Shape(ts, dp, "G", i, j - 1) => Shape(ts, dp, "F", i, j)
           /\ i < j /\ ts[j] = "a" /\ Shape(ts, dp, "H", i, j - 1) => Shape(ts, dp, "G", i, j)
           /\ i + 1 < j /\ ts[i] = "LP" /\ ts[j] = "RP" /\ Shape(ts, dp, "T", i + 1, j - 1)
                 => Shape(ts, dp, "H", i, j)
           /\ \A k \in i .. j - 1 : Shape(ts, dp, "E", i, k) /\ Shape(ts, dp, "F", k + 1, j)
                 => Shape(ts, dp, "E", i, j)
           /\ \A k \in i + 1 .. j - 1 :
                 ts[k] = "b" /\ Shape(ts, dp, "T", i, k - 1) /\ Shape(ts, dp, "E", k + 1, j)
                 => Shape(ts, dp, "T", i, j)
<1>1. /\ Shape(ts, dp, "E", i, j) => Shape(ts, dp, "T", i, j)
      /\ Shape(ts, dp, "F", i, j) => Shape(ts, dp, "E", i, j)
      /\ Shape(ts, dp, "G", i, j) => Shape(ts, dp, "F", i, j)
      /\ Shape(ts, dp, "H", i, j) => Shape(ts, dp, "G", i, j)
  BY DEF Shape
<1>2. ASSUME i = j, ts[i] = "d"
      PROVE  Shape(ts, dp, "H", i, j)
  BY <1>2 DEF Shape, Depths
<1>3. ASSUME i < j, ts[j] = "c", Shape(ts, dp, "G", i, j - 1)
      PROVE  Shape(ts, dp, "F", i, j)
  <2>1. dp[j] = dp[j - 1] /\ dp[j] \in Int
    BY <1>3 DEF Depths
  <2>2. \A k \in i .. j : k = j \/ k \in i .. j - 1
    OBVIOUS
  <2> QED
    BY <1>3, <2>1, <2>2 DEF Shape
<1>4. ASSUME i < j, ts[j] = "a", Shape(ts, dp, "H", i, j - 1)
      PROVE  Shape(ts, dp, "G", i, j)
  <2>1. dp[j] = dp[j - 1] /\ dp[j] \in Int
    BY <1>4 DEF Depths
  <2>2. \A k \in i .. j : k = j \/ k \in i .. j - 1
    OBVIOUS
  <2> QED
    BY <1>4, <2>1, <2>2 DEF Shape
<1>5. ASSUME i + 1 < j, ts[i] = "LP", ts[j] = "RP", Shape(ts, dp, "T", i + 1, j - 1)
      PROVE  Shape(ts, dp, "H", i, j)
  <2>1. /\ dp[i - 1] \in Int /\ dp[i] = dp[i - 1] + 1 /\ dp[j] = dp[j - 1] - 1 /\ dp[j - 1] = dp[i]
        /\ dp[j] = dp[i - 1]
    BY <1>5 DEF Depths, Shape
  <2>2. \A k \in i .. j - 1 : dp[k] \in Int /\ dp[k] > dp[i - 1]
    <3>1. \A k \in i + 1 .. j - 1 : dp[k] >= dp[(i + 1) - 1] /\ dp[k] \in Int
      BY <1>5 DEF Shape, Depths
    <3>2. (i + 1) - 1 = i /\ \A k \in i .. j - 1 : k = i \/ k \in i + 1 .. j - 1
      OBVIOUS
    <3> QED
      BY <2>1, <3>1, <3>2
  <2>3. /\ \A k \in i .. j : k = j \/ k \in i .. j - 1
        /\ \A k \in i + 1 .. j : k - 1 \in i .. j - 1
    OBVIOUS
  <2>4. dp[j] = dp[i - 1] /\ \A k \in i .. j : dp[k] >= dp[i - 1]
    BY <2>1, <2>2, <2>3
  <2>5. \A k \in i .. j : ts[k] = "b" => dp[k] > dp[i - 1]
    BY <1>5, <2>2, <2>3
  <2>6. \A k \in i + 1 .. j : ts[k] \in {"d", "LP"} => dp[k - 1] > dp[i - 1]
    BY <2>2, <2>3
  <2> QED
    BY <1>5, <2>4, <2>5, <2>6 DEF Shape
<1>6. ASSUME NEW k \in i .. j - 1, Shape(ts, dp, "E", i, k), Shape(ts, dp, "F", k + 1, j)
      PROVE  Shape(ts, dp, "E", i, j)
  <2>1. /\ dp[i - 1] \in Int /\ dp[k] = dp[i - 1] /\ dp[j] = dp[i - 1] /\ ts[i] \in {"d", "LP"}
        /\ (k + 1) - 1 = k
    BY <1>6 DEF Depths, Shape
  <2>2. \A m \in i .. k : dp[m] >= dp[i - 1] /\ (ts[m] = "b" => dp[m] > dp[i - 1])
    BY <1>6 DEF Shape
  <2>3. \A m \in k + 1 .. j : dp[m] >= dp[i - 1] /\ (ts[m] = "b" => dp[m] > dp[i - 1])
    BY <1>6, <2>1 DEF Shape
  <2>4. \A m \in i .. j : m \in i .. k \/ m \in k + 1 .. j
    OBVIOUS
  <2> QED
    BY <2>1, <2>2, <2>3, <2>4 DEF Shape
<1>7. ASSUME NEW k \in i + 1 .. j - 1, ts[k] = "b",
             Shape(ts, dp, "T", i, k - 1), Shape(ts, dp, "E", k + 1, j)
      PROVE  Shape(ts, dp, "T", i, j)
  <2>1. /\ dp[i - 1] \in Int /\ dp[k - 1] = dp[i - 1] /\ dp[k] = dp[i - 1] /\ dp[j] = dp[i - 1]
        /\ ts[i] \in {"d", "LP"} /\ (k + 1) - 1 = k
    BY <1>7 DEF Depths, Shape
  <2>2. \A m \in i .. k - 1 : dp[m] >= dp[i - 1]
    BY <1>7 DEF Shape
  <2>3. \A m \in k + 1 .. j : dp[m] >= dp[i - 1]
    BY <1>7, <2>1 DEF Shape
  <2>4. \A m \in i .. j : m \in i .. k - 1 \/ m = k \/ m \in k + 1 .. j
    OBVIOUS
  <2> QED
    BY <2>1, <2>2, <2>3, <2>4 DEF Shape
<1> QED
  BY <1>1, <1>2, <1>3, <1>4, <1>5, <1>6, <1>7

(* Hence the rules exclude each other, and so do the places where the two   *)
(* parts of an operation meet.                                              *)
LEMMA ShapesDiffer ==
    ASSUME NEW n \in Nat, NEW ts, NEW dp, Depths(ts, dp, n),
           NEW i \in 1 .. n, NEW j \in 1 .. n, i <= j
    PROVE  /\ \A k \in i + 1 .. j - 1 :
                 ts[k] = "b" /\ Shape(ts, dp, "T", i, k - 1) => ~ Shape(ts, dp, "E", i, j)
           /\ \A k \in i + 1 .. j - 1, m \in i + 1 .. j - 1 :
                 k < m /\ ts[m] = "b" /\ ts[k] = "b"
                 /\ Shape(ts, dp, "T", i, k - 1) /\ Shape(ts, dp, "T", i, m - 1)
                 => ~ Shape(ts, dp, "E", k + 1, j)
           /\ \A k \in i .. j - 1 : Shape(ts, dp, "E", i, k) /\ Shape(ts, dp, "F", k + 1, j)
                 => ~ Shape(ts, dp, "F", i, j)
           /\ \A k \in i .. j - 1, m \in i .. j - 1 :
                 k < m /\ Shape(ts, dp, "E", i, k) /\ Shape(ts, dp, "E", i, m)
                 /\ Shape(ts, dp, "F", m + 1, j) => ~ Shape(ts, dp, "F", k + 1, j)
           /\ ts[j] = "c" => ~ Shape(ts, dp, "G", i, j)
           /\ ts[j] = "a" => ~ Shape(ts, dp, "H", i, j)
<1>1. ASSUME NEW k \in i + 1 .. j - 1, ts[k] = "b", Shape(ts, dp, "T", i, k - 1),
             Shape(ts, dp, "E", i, j)
      PROVE  FALSE
  BY <1>1 DEF Shape, Depths
<1>2. ASSUME NEW k \in i + 1 .. j - 1, NEW m \in i + 1 .. j - 1, k < m, ts[m] = "b", ts[k] = "b",
             Shape(ts, dp, "T", i, k - 1), Shape(ts, dp, "T", i, m - 1), Shape(ts, dp, "E", k + 1, j)
      PROVE  FALSE
  <2>1. dp[k] = dp[i - 1] /\ dp[m] = dp[i - 1] /\ dp[i - 1] \in Int
    BY <1>2 DEF Shape, Depths
  <2>2. (k + 1) - 1 = k /\ m \in k + 1 .. j
    BY <1>2
  <2>3. dp[m] > dp[k]
    BY <1>2, <2>2 DEF Shape
  <2> QED
    BY <2>1, <2>3
<1>3. ASSUME NEW k \in i .. j - 1, Shape(ts, dp, "E", i, k), Shape(ts, dp, "F", k + 1, j),
             Shape(ts, dp, "F", i, j)
      PROVE  FALSE
  <2>1. dp[k] = dp[i - 1] /\ dp[i - 1] \in Int /\ ts[k + 1] \in {"d", "LP"}
    BY <1>3 DEF Shape, Depths
  <2>2. (k + 1) - 1 = k /\ k + 1 \in i + 1 .. j
    OBVIOUS
  <2>3. dp[k] > dp[i - 1]
    <3>1. \A p \in i + 1 .. j : ts[p] \in {"d", "LP"} => dp[p - 1] > dp[i - 1]
      BY <1>3 DEF Shape
    <3> QED
      BY <2>1, <2>2, <3>1
  <2> QED
    BY <2>1, <2>3
<1>4. ASSUME NEW k \in i .. j - 1, NEW m \in i .. j - 1, k < m, Shape(ts, dp, "E", i, k),
             Shape(ts, dp, "E", i, m), Shape(ts, dp, "F", m + 1, j), Shape(ts, dp, "F", k + 1, j)
      PROVE  FALSE
  <2>1. dp[k] = dp[i - 1] /\ dp[m] = dp[i - 1] /\ dp[i - 1] \in Int /\ ts[m + 1] \in {"d", "LP"}
    BY <1>4 DEF Shape, Depths
  <2>2. (m + 1) - 1 = m /\ (k + 1) - 1 = k /\ m + 1 \in (k + 1) + 1 .. j
    BY <1>4
  <2>3. dp[m] > dp[k]
    <3>1. \A p \in (k + 1) + 1 .. j : ts[p] \in {"d", "LP"} => dp[p - 1] > dp[(k + 1) - 1]
      BY <1>4 DEF Shape
    <3> QED
      BY <2>1, <2>2, <3>1
  <2> QED
    BY <2>1, <2>3
<1>5. /\ ts[j] = "c" => ~ Shape(ts, dp, "G", i, j)
      /\ ts[j] = "a" => ~ Shape(ts, dp, "H", i, j)
  BY DEF Shape
<1> QED
  BY <1>1, <1>2, <1>3, <1>4, <1>5

(* The rules give the commands of the parts of a text. *)
LEMMA PhraseRules ==
    ASSUME NEW w, Len(w) \in Nat, NEW i \in 1 .. Len(w), NEW j \in 1 .. Len(w)
    PROVE  LET D == Derivations(w)
           IN  /\ i > j => \A nt \in {"T", "E", "F", "G", "H"} : D[<<nt, i, j>>] = {}
               /\ i <= j => \A b : /\ b \in D[<<"T", i, j>>] <=> IsT(w, D, i, j, b)
                                   /\ b \in D[<<"E", i, j>>] <=> IsE(w, D, i, j, b)
                                   /\ b \in D[<<"F", i, j>>] <=> IsF(w, D, i, j, b)
                                   /\ b \in D[<<"G", i, j>>] <=> IsG(w, D, i, j, b)
                                   /\ b \in D[<<"H", i, j>>] <=> IsH(w, D, i, j, b)
<1> DEFINE D == Derivations(w)
<1>1. \A x \in Parts(w) : D[x] = Derived(w, D, x[1], x[2], x[3])
  BY DerivationsFollow
<1> HIDE DEF D
<1>2. ASSUME NEW nt \in {"T", "E", "F", "G", "H"}
      PROVE  D[<<nt, i, j>>] = Derived(w, D, nt, i, j)
  <2> DEFINE x == <<nt, i, j>>
  <2>1. x \in Parts(w) /\ x[1] = nt /\ x[2] = i /\ x[3] = j
    BY DEF Parts
  <2> QED
    BY <1>1, <2>1
<1>3. ASSUME i > j, NEW nt \in {"T", "E", "F", "G", "H"}
      PROVE  D[<<nt, i, j>>] = {}
  BY <1>2, <1>3 DEF Derived
<1>4. ASSUME i <= j, NEW b
      PROVE  /\ b \in D[<<"T", i, j>>] <=> IsT(w, D, i, j, b)
             /\ b \in D[<<"E", i, j>>] <=> IsE(w, D, i, j, b)
             /\ b \in D[<<"F", i, j>>] <=> IsF(w, D, i, j, b)
             /\ b \in D[<<"G", i, j>>] <=> IsG(w, D, i, j, b)
             /\ b \in D[<<"H", i, j>>] <=> IsH(w, D, i, j, b)
  <2>1. /\ D[<<"T", i, j>>] = Derived(w, D, "T", i, j) /\ D[<<"E", i, j>>] = Derived(w, D, "E", i, j)
        /\ D[<<"F", i, j>>] = Derived(w, D, "F", i, j) /\ D[<<"G", i, j>>] = Derived(w, D, "G", i, j)
        /\ D[<<"H", i, j>>] = Derived(w, D, "H", i, j)
    BY <1>2
  <2>2. i \in Nat /\ j \in Nat
    OBVIOUS
  <2> QED
    BY <1>4, <2>1, <2>2, DerivedIs
<1> QED
  BY <1>3, <1>4 DEF D

(* Induction over the parts of a text *)
LEMMA LeastPart ==
    ASSUME NEW w, Len(w) \in Nat, NEW B \in SUBSET Parts(w), B # {}
    PROVE  \E x \in B : \A y \in B : Rank(x) <= Rank(y)
<1> DEFINE S == {Rank(x) : x \in B}
<1>1. \A x \in B : Rank(x) \in Nat
  BY PartsTypes
<1>2. S \in SUBSET Nat /\ \E n : n \in S
  BY <1>1
<1>3. \E m \in S : \A k \in S : m <= k
  <2> HIDE DEF S
  <2> QED
    BY <1>2, LeastNumber
<1> QED
  BY <1>3

(* The parts of which a part is made are lower. *)
LEMMA RankLower ==
    ASSUME NEW w, Len(w) \in Nat, NEW n \in {"T", "E", "F", "G", "H"}, NEW m \in {"T", "E", "F", "G", "H"},
           NEW i \in 1 .. Len(w), NEW j \in 1 .. Len(w), NEW p \in i .. j, NEW q \in i .. j, i <= j, p <= q,
           p = i /\ q = j => Layer[n] < Layer[m]
    PROVE  /\ <<n, p, q>> \in Parts(w) /\ <<m, i, j>> \in Parts(w)
           /\ Rank(<<n, p, q>>) < Rank(<<m, i, j>>)
<1>1. <<n, p, q>> \in Parts(w) /\ <<m, i, j>> \in Parts(w)
  BY DEF Parts
<1>2. Rank(<<n, p, q>>) = 5 * (q - p) + Layer[n] /\ Rank(<<m, i, j>>) = 5 * (j - i) + Layer[m]
  BY DEF Rank
<1> DEFINE a == Layer[n]
           c == Layer[m]
<1>3. a \in 1 .. 5 /\ c \in 1 .. 5
  BY DEF Layer
<1>4. /\ p = i /\ q = j => a < c
      /\ p \in Nat /\ q \in Nat /\ i \in Nat /\ j \in Nat /\ i <= p /\ p <= q /\ q <= j
  OBVIOUS
<1> HIDE DEF a, c
<1>5. 5 * (q - p) + a < 5 * (j - i) + c
  <2>1. CASE p = i /\ q = j
    BY <1>3, <1>4, <2>1
  <2>2. CASE ~(p = i /\ q = j)
    <3>1. q - p + 1 <= j - i
      BY <1>4, <2>2
    <3> QED
      BY <1>3, <1>4, <3>1
  <2> QED
    BY <2>1, <2>2
<1> QED
  BY <1>1, <1>2, <1>5 DEF a, c

(* The terminals of a text and their depths, and what a phrase in it is     *)
TerminalAt(w) == [k \in 1 .. Len(w) |-> Terminal[w[k].code]]
DepthAt(w) == [k \in 0 .. Len(w) |-> Depth(Terminals(w), k)]
HasShape(w, x) == x[2] <= x[3] /\ Shape(TerminalAt(w), DepthAt(w), x[1], x[2], x[3])

LEMMA DepthsOfText ==
    ASSUME NEW w \in Seq(Lexeme)
    PROVE  Depths(TerminalAt(w), DepthAt(w), Len(w))
<1> DEFINE v == Terminals(w)
<1>1. \A k \in 1 .. Len(w) : TerminalAt(w)[k] = v[k]
  BY DEF Terminals, TerminalAt
<1>2. ASSUME NEW k \in 1 .. Len(w)
      PROVE  /\ DepthAt(w)[k] \in Int /\ DepthAt(w)[k - 1] \in Int
             /\ DepthAt(w)[k] = DepthAt(w)[k - 1]
                                + IF v[k] = "LP" THEN 1 ELSE IF v[k] = "RP" THEN -1 ELSE 0
  <2>1. k \in Nat /\ k > 0 /\ k \in 0 .. Len(w) /\ k - 1 \in 0 .. Len(w)
    OBVIOUS
  <2>2. DepthAt(w)[k] = Depth(v, k) /\ DepthAt(w)[k - 1] = Depth(v, k - 1)
    BY <2>1 DEF DepthAt
  <2> HIDE DEF v
  <2> QED
    BY <2>1, <2>2, DepthSteps
<1>3. DepthAt(w)[0] \in Int
  <2>1. Depth(v, 0) \in Int
    <3> HIDE DEF v
    <3>1. \A k \in Nat : k > 0 => Depth(v, k - 1) \in Int
      BY DepthSteps
    <3>2. 1 \in Nat /\ 1 > 0 /\ 1 - 1 = 0
      OBVIOUS
    <3> QED
      BY <3>1, <3>2
  <2>2. DepthAt(w)[0] = Depth(v, 0)
    BY DEF DepthAt
  <2> QED
    BY <2>1, <2>2
<1> HIDE DEF v
<1>4. \A k \in 0 .. Len(w) : DepthAt(w)[k] \in Int
  <2>1. \A k \in 0 .. Len(w) : k = 0 \/ k \in 1 .. Len(w)
    OBVIOUS
  <2> QED
    BY <1>2, <1>3, <2>1
<1>5. ASSUME NEW k \in 1 .. Len(w)
      PROVE  /\ TerminalAt(w)[k] = "LP" => DepthAt(w)[k] = DepthAt(w)[k - 1] + 1
             /\ TerminalAt(w)[k] = "RP" => DepthAt(w)[k] = DepthAt(w)[k - 1] - 1
             /\ TerminalAt(w)[k] \notin {"LP", "RP"} => DepthAt(w)[k] = DepthAt(w)[k - 1]
  BY <1>1, <1>2
<1> QED
  BY <1>4, <1>5 DEF Depths

(* A part with commands is a phrase, and so it has the shape of one. *)
LEMMA PhrasesHaveShape ==
    ASSUME NEW w \in Seq(Lexeme), NEW x \in Parts(w), Derivations(w)[x] # {}
    PROVE  HasShape(w, x)
<1> DEFINE D == Derivations(w)
           Bad == {y \in Parts(w) : D[y] # {} /\ ~ HasShape(w, y)}
<1> SUFFICES ASSUME Bad # {} PROVE FALSE
  OBVIOUS
<1>1. Len(w) \in Nat
  OBVIOUS
<1>2. PICK y \in Bad : \A u \in Bad : Rank(y) <= Rank(u)
  BY <1>1, LeastPart
<1> DEFINE nt == y[1]
           i == y[2]
           j == y[3]
<1>3. /\ nt \in {"T", "E", "F", "G", "H"} /\ i \in 1 .. Len(w) /\ j \in 1 .. Len(w)
      /\ y = <<nt, i, j>> /\ D[y] # {} /\ ~ HasShape(w, y)
  BY <1>1, <1>2, PartsTypes
<1>4. ASSUME NEW u \in Parts(w), Rank(u) < Rank(y), NEW b \in D[u]
      PROVE  HasShape(w, u)
  <2>1. u \notin Bad
    <3>1. Rank(u) \in Nat /\ Rank(y) \in Nat
      BY <1>1, <1>2, PartsTypes
    <3> QED
      BY <1>2, <1>4, <3>1
  <2> QED
    BY <1>4, <2>1
<1>5. D[y] = D[<<nt, i, j>>] /\ (HasShape(w, y) <=> HasShape(w, <<nt, i, j>>))
  BY <1>3
<1>6. Rank(y) = Rank(<<nt, i, j>>)
  BY <1>3
<1> HIDE DEF nt, i, j, Bad
<1>7. i <= j
  <2>1. i > j => D[<<nt, i, j>>] = {}
    BY <1>1, <1>3, PhraseRules
  <2> HIDE DEF D
  <2> QED
    BY <1>3, <1>5, <2>1
<1> DEFINE ts == TerminalAt(w)
           dp == DepthAt(w)
<1>8. Depths(ts, dp, Len(w))
  BY DepthsOfText
<1>9. ~ Shape(ts, dp, nt, i, j)
  <2>1. ~ HasShape(w, <<nt, i, j>>)
    BY <1>3, <1>5
  <2> QED
    BY <1>7, <2>1 DEF HasShape
<1>10. ASSUME NEW n \in {"T", "E", "F", "G", "H"}, NEW p \in i .. j, NEW q \in i .. j,
              p = i /\ q = j => Layer[n] < Layer[nt], NEW b \in D[<<n, p, q>>]
       PROVE  p <= q /\ Shape(ts, dp, n, p, q)
  <2> DEFINE u == <<n, p, q>>
  <2>1. p \in 1 .. Len(w) /\ q \in 1 .. Len(w)
    BY <1>3
  <2>2. p <= q
    <3>1. p > q => D[<<n, p, q>>] = {}
      BY <1>1, <2>1, PhraseRules
    <3> HIDE DEF D
    <3> QED
      BY <1>10, <2>1, <3>1
  <2>3. u \in Parts(w) /\ Rank(u) < Rank(y)
    BY <1>1, <1>3, <1>6, <1>7, <1>10, <2>2, RankLower
  <2>4. HasShape(w, u)
    BY <1>4, <1>10, <2>3
  <2> QED
    BY <2>4 DEF HasShape
<1>11. PICK b : b \in D[<<nt, i, j>>]
  BY <1>3, <1>5
<1>12. /\ \A k \in i .. j : ts[k] = Terminal[w[k].code]
       /\ i \in Nat /\ j \in Nat /\ Len(w) \in Nat
  BY <1>3 DEF TerminalAt
<1>13. /\ Layer["E"] < Layer["T"] /\ Layer["F"] < Layer["E"] /\ Layer["G"] < Layer["F"]
       /\ Layer["H"] < Layer["G"]
  BY DEF Layer
<1> HIDE DEF D, ts, dp
<1>14. CASE nt = "T"
  <2>1. IsT(w, D, i, j, b)
    BY <1>1, <1>3, <1>7, <1>11, <1>14, PhraseRules DEF D
  <2>2. CASE b \in D[<<"E", i, j>>]
    <3>1. Shape(ts, dp, "E", i, j)
      BY <1>7, <1>10, <1>12, <1>13, <1>14, <2>2
    <3> QED
      BY <1>3, <1>7, <1>8, <1>9, <1>12, <1>14, <3>1, ShapeKept
  <2>3. CASE \E k \in i + 1 .. j - 1 : /\ Is(w, k, "b")
                      /\ \E l \in D[<<"T", i, k - 1>>] : \E r \in D[<<"E", k + 1, j>>] :
                             b = Both("Or", l, r)
    <3>1. PICK k \in i + 1 .. j - 1 : /\ Is(w, k, "b")
                      /\ \E l \in D[<<"T", i, k - 1>>] : \E r \in D[<<"E", k + 1, j>>] : TRUE
      BY <2>3
    <3>2. ts[k] = "b"
      BY <1>12, <3>1 DEF Is
    <3>3. k - 1 \in i .. j /\ k + 1 \in i .. j /\ i \in i .. j /\ j \in i .. j /\ k - 1 # j /\ k + 1 # i
      BY <1>12
    <3>4. Shape(ts, dp, "T", i, k - 1)
      BY <1>10, <3>1, <3>3
    <3>5. Shape(ts, dp, "E", k + 1, j)
      BY <1>10, <3>1, <3>3
    <3> QED
      BY <1>3, <1>7, <1>8, <1>9, <1>12, <1>14, <3>2, <3>4, <3>5, ShapeKept
  <2> QED
    BY <2>1, <2>2, <2>3 DEF IsT
<1>15. CASE nt = "E"
  <2>1. IsE(w, D, i, j, b)
    BY <1>1, <1>3, <1>7, <1>11, <1>15, PhraseRules DEF D
  <2>2. CASE b \in D[<<"F", i, j>>]
    <3>1. Shape(ts, dp, "F", i, j)
      BY <1>7, <1>10, <1>12, <1>13, <1>15, <2>2
    <3> QED
      BY <1>3, <1>7, <1>8, <1>9, <1>12, <1>15, <3>1, ShapeKept
  <2>3. CASE \E k \in i .. j - 1 : \E l \in D[<<"E", i, k>>] : \E r \in D[<<"F", k + 1, j>>] :
                 b = Both("Concat", l, r)
    <3>1. PICK k \in i .. j - 1 : \E l \in D[<<"E", i, k>>] : \E r \in D[<<"F", k + 1, j>>] : TRUE
      BY <2>3
    <3>3. k \in i .. j /\ k + 1 \in i .. j /\ i \in i .. j /\ j \in i .. j /\ k # j /\ k + 1 # i
      BY <1>12
    <3>4. Shape(ts, dp, "E", i, k)
      BY <1>10, <3>1, <3>3
    <3>5. Shape(ts, dp, "F", k + 1, j)
      BY <1>10, <3>1, <3>3
    <3> QED
      BY <1>3, <1>7, <1>8, <1>9, <1>12, <1>15, <3>4, <3>5, ShapeKept
  <2> QED
    BY <2>1, <2>2, <2>3 DEF IsE
<1>16. CASE nt = "F"
  <2>1. IsF(w, D, i, j, b)
    BY <1>1, <1>3, <1>7, <1>11, <1>16, PhraseRules DEF D
  <2>2. CASE b \in D[<<"G", i, j>>]
    <3>1. Shape(ts, dp, "G", i, j)
      BY <1>7, <1>10, <1>12, <1>13, <1>16, <2>2
    <3> QED
      BY <1>3, <1>7, <1>8, <1>9, <1>12, <1>16, <3>1, ShapeKept
  <2>3. CASE i < j /\ Is(w, j, "c") /\ \E l \in D[<<"G", i, j - 1>>] : b = Applied(l, w[j].code)
    <3>1. j - 1 \in i .. j /\ i \in i .. j /\ j - 1 # j /\ j \in i .. j
      BY <1>12, <2>3
    <3>2. Shape(ts, dp, "G", i, j - 1) /\ ts[j] = "c"
      BY <1>10, <1>12, <2>3, <3>1 DEF Is
    <3> QED
      BY <1>3, <1>7, <1>8, <1>9, <1>12, <1>16, <2>3, <3>2, ShapeKept
  <2> QED
    BY <2>1, <2>2, <2>3 DEF IsF
<1>17. CASE nt = "G"
  <2>1. IsG(w, D, i, j, b)
    BY <1>1, <1>3, <1>7, <1>11, <1>17, PhraseRules DEF D
  <2>2. CASE b \in D[<<"H", i, j>>]
    <3>1. Shape(ts, dp, "H", i, j)
      BY <1>7, <1>10, <1>12, <1>13, <1>17, <2>2
    <3> QED
      BY <1>3, <1>7, <1>8, <1>9, <1>12, <1>17, <3>1, ShapeKept
  <2>3. CASE i < j /\ Is(w, j, "a") /\ \E l \in D[<<"H", i, j - 1>>] : b = Acting(l, w[j].idx)
    <3>1. j - 1 \in i .. j /\ i \in i .. j /\ j - 1 # j /\ j \in i .. j
      BY <1>12, <2>3
    <3>2. Shape(ts, dp, "H", i, j - 1) /\ ts[j] = "a"
      BY <1>10, <1>12, <2>3, <3>1 DEF Is
    <3> QED
      BY <1>3, <1>7, <1>8, <1>9, <1>12, <1>17, <2>3, <3>2, ShapeKept
  <2> QED
    BY <2>1, <2>2, <2>3 DEF IsG
<1>18. CASE nt = "H"
  <2>1. IsH(w, D, i, j, b)
    BY <1>1, <1>3, <1>7, <1>11, <1>18, PhraseRules DEF D
  <2>2. CASE i = j /\ Is(w, i, "d")
    <3>1. ts[i] = "d"
      BY <1>7, <1>12, <2>2 DEF Is
    <3> QED
      BY <1>3, <1>7, <1>8, <1>9, <1>12, <1>18, <2>2, <3>1, ShapeKept
  <2>3. CASE i + 1 < j /\ Is(w, i, "LP") /\ Is(w, j, "RP") /\ b \in D[<<"T", i + 1, j - 1>>]
    <3>1. j - 1 \in i .. j /\ i + 1 \in i .. j /\ j - 1 # j /\ j \in i .. j /\ i \in i .. j
      BY <1>12, <2>3
    <3>2. Shape(ts, dp, "T", i + 1, j - 1) /\ ts[i] = "LP" /\ ts[j] = "RP"
      BY <1>10, <1>12, <2>3, <3>1 DEF Is
    <3> QED
      BY <1>3, <1>7, <1>8, <1>9, <1>12, <1>18, <2>3, <3>2, ShapeKept
  <2> QED
    BY <2>1, <2>2, <2>3 DEF IsH
<1> QED
  BY <1>3, <1>14, <1>15, <1>16, <1>17, <1>18

(* The grammar is unambiguous: a part has the commands of one phrase only.  *)
THEOREM PhrasesAreUnique ==
    ASSUME NEW w \in Seq(Lexeme), NEW x \in Parts(w),
           NEW a \in Derivations(w)[x], NEW b \in Derivations(w)[x]
    PROVE  a = b
<1> DEFINE D == Derivations(w)
           Bad == {y \in Parts(w) : \E c, d \in D[y] : c # d}
<1> SUFFICES ASSUME Bad # {} PROVE FALSE
  OBVIOUS
<1>1. Len(w) \in Nat
  OBVIOUS
<1>2. PICK y \in Bad : \A u \in Bad : Rank(y) <= Rank(u)
  BY <1>1, LeastPart
<1> DEFINE nt == y[1]
           i == y[2]
           j == y[3]
<1>3. /\ nt \in {"T", "E", "F", "G", "H"} /\ i \in 1 .. Len(w) /\ j \in 1 .. Len(w)
      /\ y = <<nt, i, j>> /\ y \in Parts(w)
  BY <1>1, <1>2, PartsTypes
<1>4. ASSUME NEW u \in Parts(w), Rank(u) < Rank(y), NEW c \in D[u], NEW d \in D[u]
      PROVE  c = d
  <2>1. u \notin Bad
    <3>1. Rank(u) \in Nat /\ Rank(y) \in Nat
      BY <1>1, <1>2, PartsTypes
    <3> QED
      BY <1>2, <1>4, <3>1
  <2> QED
    BY <1>4, <2>1
<1>5. PICK c \in D[y], d \in D[y] : c # d
  BY <1>2
<1>6. Rank(y) = Rank(<<nt, i, j>>) /\ c \in D[<<nt, i, j>>] /\ d \in D[<<nt, i, j>>]
  BY <1>3, <1>5
<1> HIDE DEF nt, i, j, Bad
<1>7. i <= j
  <2>1. i > j => D[<<nt, i, j>>] = {}
    BY <1>1, <1>3, PhraseRules
  <2> HIDE DEF D
  <2> QED
    BY <1>3, <1>6, <2>1
<1> DEFINE ts == TerminalAt(w)
           dp == DepthAt(w)
<1>8. Depths(ts, dp, Len(w))
  BY DepthsOfText
<1>9. /\ i \in Nat /\ j \in Nat /\ Len(w) \in Nat /\ i \in i .. j /\ j \in i .. j
      /\ \A k \in i .. j : ts[k] = Terminal[w[k].code]
  BY <1>3, <1>7 DEF TerminalAt
<1>10. ASSUME NEW n \in {"T", "E", "F", "G", "H"}, NEW p \in i .. j, NEW q \in i .. j,
              NEW e \in D[<<n, p, q>>]
       PROVE  p <= q /\ <<n, p, q>> \in Parts(w) /\ Shape(ts, dp, n, p, q)
  <2> DEFINE u == <<n, p, q>>
  <2>1. p \in 1 .. Len(w) /\ q \in 1 .. Len(w)
    BY <1>3
  <2>2. u \in Parts(w) /\ u[1] = n /\ u[2] = p /\ u[3] = q
    BY <2>1 DEF Parts
  <2>3. HasShape(w, u)
    BY <1>10, <2>2, PhrasesHaveShape
  <2> QED
    BY <2>2, <2>3 DEF HasShape
<1>11. ASSUME NEW n \in {"T", "E", "F", "G", "H"}, NEW p \in i .. j, NEW q \in i .. j,
              p = i /\ q = j => Layer[n] < Layer[nt], NEW e \in D[<<n, p, q>>], NEW g \in D[<<n, p, q>>]
       PROVE  e = g
  <2>1. p <= q /\ <<n, p, q>> \in Parts(w)
    BY <1>10, <1>11
  <2>2. Rank(<<n, p, q>>) < Rank(y)
    BY <1>1, <1>3, <1>6, <1>7, <1>11, <2>1, RankLower
  <2> QED
    BY <1>4, <1>11, <2>1, <2>2
<1>12. /\ Layer["E"] < Layer["T"] /\ Layer["F"] < Layer["E"] /\ Layer["G"] < Layer["F"]
       /\ Layer["H"] < Layer["G"]
  BY DEF Layer
<1> HIDE DEF D, ts, dp
<1>13. CASE nt = "T"
  <2> DEFINE Split(k, e) == /\ Is(w, k, "b")
                            /\ \E l \in D[<<"T", i, k - 1>>] : \E r \in D[<<"E", k + 1, j>>] :
                                   e = Both("Or", l, r)
  <2>1. ASSUME NEW e \in D[<<nt, i, j>>]
        PROVE  e \in D[<<"E", i, j>>] \/ \E k \in i + 1 .. j - 1 : Split(k, e)
    <3>1. IsT(w, D, i, j, e)
      BY <1>1, <1>3, <1>7, <1>13, <2>1, PhraseRules DEF D
    <3> QED
      BY <3>1, Zenon DEF IsT
  <2>2. ASSUME NEW k \in i + 1 .. j - 1, NEW e, Split(k, e)
        PROVE  ts[k] = "b" /\ Shape(ts, dp, "T", i, k - 1) /\ Shape(ts, dp, "E", k + 1, j)
    <3>1. /\ Terminal[w[k].code] = "b"
          /\ \E l \in D[<<"T", i, k - 1>>] : \E r \in D[<<"E", k + 1, j>>] : TRUE
      BY <2>2 DEF Is
    <3>2. k \in i .. j /\ k - 1 \in i .. j /\ k + 1 \in i .. j
      BY <1>9
    <3> QED
      BY <1>9, <1>10, <3>1, <3>2
  <2>3. ASSUME NEW e \in D[<<"E", i, j>>], NEW k \in i + 1 .. j - 1, NEW g, Split(k, g)
        PROVE  FALSE
    <3>1. Shape(ts, dp, "E", i, j)
      BY <1>9, <1>10, <2>3
    <3>2. ts[k] = "b" /\ Shape(ts, dp, "T", i, k - 1)
      BY <2>2, <2>3
    <3> HIDE DEF Split
    <3> QED
      BY <1>3, <1>7, <1>8, <1>9, <3>1, <3>2, ShapesDiffer
  <2>4. ASSUME NEW k \in i + 1 .. j - 1, NEW m \in i + 1 .. j - 1, NEW e, NEW g, Split(k, e), Split(m, g)
        PROVE  ~ (k < m)
    <3>1. /\ ts[k] = "b" /\ ts[m] = "b"
          /\ Shape(ts, dp, "T", i, k - 1) /\ Shape(ts, dp, "T", i, m - 1) /\ Shape(ts, dp, "E", k + 1, j)
      BY <2>2, <2>4
    <3> HIDE DEF Split
    <3> QED
      BY <1>3, <1>7, <1>8, <1>9, <3>1, ShapesDiffer
  <2>5. ASSUME NEW k \in i + 1 .. j - 1, NEW e, NEW g, Split(k, e), Split(k, g)
        PROVE  e = g
    <3>1. PICK l \in D[<<"T", i, k - 1>>], r \in D[<<"E", k + 1, j>>] : e = Both("Or", l, r)
      BY <2>5
    <3>2. PICK l2 \in D[<<"T", i, k - 1>>], r2 \in D[<<"E", k + 1, j>>] : g = Both("Or", l2, r2)
      BY <2>5
    <3>3. k - 1 \in i .. j /\ k + 1 \in i .. j /\ k - 1 # j /\ k + 1 # i
      BY <1>9
    <3>4. l = l2
      BY <1>9, <1>11, <3>3
    <3>5. r = r2
      BY <1>9, <1>11, <3>3
    <3> QED
      BY <3>1, <3>2, <3>4, <3>5
  <2>6. ASSUME NEW e \in D[<<"E", i, j>>], NEW g \in D[<<"E", i, j>>]
        PROVE  e = g
    BY <1>9, <1>11, <1>12, <1>13, <2>6
  <2>7. ASSUME NEW k \in i + 1 .. j - 1, NEW m \in i + 1 .. j - 1, NEW e, NEW g, Split(k, e), Split(m, g)
        PROVE  k = m
    <3>1. ~ (k < m) /\ ~ (m < k)
      BY <2>4, <2>7
    <3>2. k \in Int /\ m \in Int
      OBVIOUS
    <3> HIDE DEF Split
    <3> QED
      BY <3>1, <3>2
  <2> HIDE DEF Split
  <2>8. CASE c \in D[<<"E", i, j>>]
    BY <1>5, <1>6, <2>1, <2>3, <2>6, <2>8
  <2>9. CASE \E k \in i + 1 .. j - 1 : Split(k, c)
    BY <1>5, <1>6, <2>1, <2>3, <2>5, <2>7, <2>9
  <2> QED
    BY <1>6, <2>1, <2>8, <2>9
<1>14. CASE nt = "E"
  <2> DEFINE Split(k, e) == \E l \in D[<<"E", i, k>>] : \E r \in D[<<"F", k + 1, j>>] :
                                e = Both("Concat", l, r)
  <2>1. ASSUME NEW e \in D[<<nt, i, j>>]
        PROVE  e \in D[<<"F", i, j>>] \/ \E k \in i .. j - 1 : Split(k, e)
    <3>1. IsE(w, D, i, j, e)
      BY <1>1, <1>3, <1>7, <1>14, <2>1, PhraseRules DEF D
    <3> QED
      BY <3>1, Zenon DEF IsE
  <2>2. ASSUME NEW k \in i .. j - 1, NEW e, Split(k, e)
        PROVE  Shape(ts, dp, "E", i, k) /\ Shape(ts, dp, "F", k + 1, j)
    <3>1. \E l \in D[<<"E", i, k>>] : \E r \in D[<<"F", k + 1, j>>] : TRUE
      BY <2>2
    <3>2. k \in i .. j /\ k + 1 \in i .. j
      BY <1>9
    <3> QED
      BY <1>9, <1>10, <3>1, <3>2
  <2>3. ASSUME NEW e \in D[<<"F", i, j>>], NEW k \in i .. j - 1, NEW g, Split(k, g)
        PROVE  FALSE
    <3>1. Shape(ts, dp, "F", i, j)
      BY <1>9, <1>10, <2>3
    <3>2. Shape(ts, dp, "E", i, k) /\ Shape(ts, dp, "F", k + 1, j)
      BY <2>2, <2>3
    <3> HIDE DEF Split
    <3> QED
      BY <1>3, <1>7, <1>8, <1>9, <3>1, <3>2, ShapesDiffer
  <2>4. ASSUME NEW k \in i .. j - 1, NEW m \in i .. j - 1, NEW e, NEW g, Split(k, e), Split(m, g)
        PROVE  ~ (k < m)
    <3>1. /\ Shape(ts, dp, "E", i, k) /\ Shape(ts, dp, "E", i, m)
          /\ Shape(ts, dp, "F", k + 1, j) /\ Shape(ts, dp, "F", m + 1, j)
      BY <2>2, <2>4
    <3> HIDE DEF Split
    <3> QED
      BY <1>3, <1>7, <1>8, <1>9, <3>1, ShapesDiffer
  <2>5. ASSUME NEW k \in i .. j - 1, NEW e, NEW g, Split(k, e), Split(k, g)
        PROVE  e = g
    <3>1. PICK l \in D[<<"E", i, k>>], r \in D[<<"F", k + 1, j>>] : e = Both("Concat", l, r)
      BY <2>5
    <3>2. PICK l2 \in D[<<"E", i, k>>], r2 \in D[<<"F", k + 1, j>>] : g = Both("Concat", l2, r2)
      BY <2>5
    <3>3. k \in i .. j /\ k + 1 \in i .. j /\ k # j /\ k + 1 # i
      BY <1>9
    <3>4. l = l2
      BY <1>9, <1>11, <3>3
    <3>5. r = r2
      BY <1>9, <1>11, <3>3
    <3> QED
      BY <3>1, <3>2, <3>4, <3>5
  <2>6. ASSUME NEW e \in D[<<"F", i, j>>], NEW g \in D[<<"F", i, j>>]
        PROVE  e = g
    BY <1>9, <1>11, <1>12, <1>14, <2>6
  <2>7. ASSUME NEW k \in i .. j - 1, NEW m \in i .. j - 1, NEW e, NEW g, Split(k, e), Split(m, g)
        PROVE  k = m
    <3>1. ~ (k < m) /\ ~ (m < k)
      BY <2>4, <2>7
    <3>2. k \in Int /\ m \in Int
      OBVIOUS
    <3> HIDE DEF Split
    <3> QED
      BY <3>1, <3>2
  <2> HIDE DEF Split
  <2>8. CASE c \in D[<<"F", i, j>>]
    BY <1>5, <1>6, <2>1, <2>3, <2>6, <2>8
  <2>9. CASE \E k \in i .. j - 1 : Split(k, c)
    BY <1>5, <1>6, <2>1, <2>3, <2>5, <2>7, <2>9
  <2> QED
    BY <1>6, <2>1, <2>8, <2>9
<1>15. CASE nt = "F"
  <2> DEFINE More(e) == i < j /\ Is(w, j, "c") /\ \E l \in D[<<"G", i, j - 1>>] : e = Applied(l, w[j].code)
  <2>1. ASSUME NEW e \in D[<<nt, i, j>>]
        PROVE  e \in D[<<"G", i, j>>] \/ More(e)
    <3>1. IsF(w, D, i, j, e)
      BY <1>1, <1>3, <1>7, <1>15, <2>1, PhraseRules DEF D
    <3> QED
      BY <3>1, Zenon DEF IsF
  <2>2. ASSUME NEW e \in D[<<"G", i, j>>], NEW g, More(g)
        PROVE  FALSE
    <3>1. Shape(ts, dp, "G", i, j)
      BY <1>9, <1>10, <2>2
    <3>2. ts[j] = "c"
      BY <1>9, <2>2 DEF Is
    <3> QED
      BY <1>3, <1>7, <1>8, <1>9, <3>1, <3>2, ShapesDiffer
  <2>3. ASSUME NEW e, NEW g, More(e), More(g)
        PROVE  e = g
    <3>1. j - 1 \in i .. j /\ j - 1 # j
      BY <1>9, <2>3
    <3>2. PICK l \in D[<<"G", i, j - 1>>] : e = Applied(l, w[j].code)
      BY <2>3
    <3>3. PICK l2 \in D[<<"G", i, j - 1>>] : g = Applied(l2, w[j].code)
      BY <2>3
    <3>4. l = l2
      BY <1>9, <1>11, <3>1
    <3> QED
      BY <3>2, <3>3, <3>4
  <2>4. ASSUME NEW e \in D[<<"G", i, j>>], NEW g \in D[<<"G", i, j>>]
        PROVE  e = g
    BY <1>9, <1>11, <1>12, <1>15, <2>4
  <2> HIDE DEF More
  <2> QED
    BY <1>5, <1>6, <2>1, <2>2, <2>3, <2>4
<1>16. CASE nt = "G"
  <2> DEFINE More(e) == i < j /\ Is(w, j, "a") /\ \E l \in D[<<"H", i, j - 1>>] : e = Acting(l, w[j].idx)
  <2>1. ASSUME NEW e \in D[<<nt, i, j>>]
        PROVE  e \in D[<<"H", i, j>>] \/ More(e)
    <3>1. IsG(w, D, i, j, e)
      BY <1>1, <1>3, <1>7, <1>16, <2>1, PhraseRules DEF D
    <3> QED
      BY <3>1, Zenon DEF IsG
  <2>2. ASSUME NEW e \in D[<<"H", i, j>>], NEW g, More(g)
        PROVE  FALSE
    <3>1. Shape(ts, dp, "H", i, j)
      BY <1>9, <1>10, <2>2
    <3>2. ts[j] = "a"
      BY <1>9, <2>2 DEF Is
    <3> QED
      BY <1>3, <1>7, <1>8, <1>9, <3>1, <3>2, ShapesDiffer
  <2>3. ASSUME NEW e, NEW g, More(e), More(g)
        PROVE  e = g
    <3>1. j - 1 \in i .. j /\ j - 1 # j
      BY <1>9, <2>3
    <3>2. PICK l \in D[<<"H", i, j - 1>>] : e = Acting(l, w[j].idx)
      BY <2>3
    <3>3. PICK l2 \in D[<<"H", i, j - 1>>] : g = Acting(l2, w[j].idx)
      BY <2>3
    <3>4. l = l2
      BY <1>9, <1>11, <3>1
    <3> QED
      BY <3>2, <3>3, <3>4
  <2>4. ASSUME NEW e \in D[<<"H", i, j>>], NEW g \in D[<<"H", i, j>>]
        PROVE  e = g
    BY <1>9, <1>11, <1>12, <1>16, <2>4
  <2> HIDE DEF More
  <2> QED
    BY <1>5, <1>6, <2>1, <2>2, <2>3, <2>4
<1>17. CASE nt = "H"
  <2>1. ASSUME NEW e \in D[<<nt, i, j>>]
        PROVE  IsH(w, D, i, j, e)
    BY <1>1, <1>3, <1>7, <1>17, <2>1, PhraseRules DEF D
  <2>2. IsH(w, D, i, j, c) /\ IsH(w, D, i, j, d)
    BY <1>6, <2>1
  <2>3. CASE i = j
    BY <1>5, <1>9, <2>2, <2>3 DEF IsH
  <2>4. CASE i # j
    <3>1. c \in D[<<"T", i + 1, j - 1>>] /\ d \in D[<<"T", i + 1, j - 1>>] /\ i + 1 < j
      BY <1>9, <2>2, <2>4 DEF IsH
    <3>2. j - 1 \in i .. j /\ i + 1 \in i .. j /\ i + 1 # i
      BY <1>9, <3>1
    <3>3. c = d
      BY <1>9, <1>11, <3>1, <3>2
    <3> QED
      BY <1>5, <3>3
  <2> QED
    BY <2>3, <2>4
<1> QED
  BY <1>3, <1>13, <1>14, <1>15, <1>16, <1>17

-----------------------------------------------------------------------------
(* Commands in another place *)
Kinds == {"Or", "Concat", "Kleene", "Positive", "Optional", "Char", "Char_class_complement",
          "Char_class"}
Placed == [name : Kinds, first : Int, second : Int, action : Actions \cup {0}]

LEMMA MovedCommand ==
    ASSUME NEW c \in Placed, NEW n \in Int
    PROVE  /\ Moved(c, n) \in Placed
           /\ Moved(c, n).name = c.name /\ Moved(c, n).action = c.action
           /\ c.name \in {"Or", "Concat"} => Moved(c, n).first = c.first + n /\ Moved(c, n).second = c.second + n
           /\ c.name \in {"Kleene", "Positive", "Optional"} => Moved(c, n).first = c.first + n /\ Moved(c, n).second = c.second
           /\ c.name \in {"Char", "Char_class_complement", "Char_class"} => Moved(c, n) = c
<1>1. CASE c.name \in {"Or", "Concat"}
  <2>1. Moved(c, n) = [c EXCEPT !.first = @ + n, !.second = @ + n]
    BY <1>1 DEF Moved
  <2> DEFINE a == c.first + n
             b == c.second + n
  <2>2. a \in Int /\ b \in Int /\ c.action \in Actions \cup {0} /\ c.name \in Kinds
    BY DEF Placed
  <2>3. Moved(c, n) = [name |-> c.name, first |-> a, second |-> b, action |-> c.action]
    <3>1. c = [name |-> c.name, first |-> c.first, second |-> c.second, action |-> c.action]
      BY DEF Placed
    <3> QED
      BY <2>1, <3>1
  <2> HIDE DEF a, b
  <2>4. /\ Moved(c, n) \in Placed /\ Moved(c, n).name = c.name /\ Moved(c, n).action = c.action
        /\ Moved(c, n).first = a /\ Moved(c, n).second = b
    BY <2>2, <2>3 DEF Placed
  <2> QED
    BY <1>1, <2>4 DEF a, b
<1>2. CASE c.name \in {"Kleene", "Positive", "Optional"}
  <2>1. Moved(c, n) = [c EXCEPT !.first = @ + n]
    BY <1>2 DEF Moved
  <2> QED
    BY <1>2, <2>1 DEF Placed
<1>3. CASE c.name \in {"Char", "Char_class_complement", "Char_class"}
  <2>1. Moved(c, n) = c
    BY <1>3 DEF Moved
  <2> QED
    BY <1>3, <2>1
<1> QED
  BY <1>1, <1>2, <1>3 DEF Placed, Kinds

LEMMA SameCommand ==
    ASSUME NEW c \in Placed, NEW d \in Placed,
           c.name = d.name, c.first = d.first, c.second = d.second, c.action = d.action
    PROVE  c = d
BY DEF Placed

LEMMA MovedTwice ==
    ASSUME NEW c \in Placed, NEW m \in Int, NEW n \in Int
    PROVE  Moved(c, 0) = c /\ Moved(Moved(c, m), n) = Moved(c, m + n)
<1>1. c.first \in Int /\ c.second \in Int /\ c.name \in Kinds /\ m + n \in Int /\ 0 \in Int
  BY DEF Placed
<1> DEFINE d == Moved(c, m)
           e == Moved(d, n)
           f == Moved(c, m + n)
           g == Moved(c, 0)
<1>2. d \in Placed /\ f \in Placed /\ g \in Placed
  BY <1>1, MovedCommand
<1>3. e \in Placed
  <2> HIDE DEF d
  <2> QED
    BY <1>2, MovedCommand
<1>4. /\ d.name = c.name /\ d.action = c.action /\ f.name = c.name /\ f.action = c.action
      /\ g.name = c.name /\ g.action = c.action
  BY <1>1, MovedCommand
<1>5. e.name = d.name /\ e.action = d.action
  <2> HIDE DEF d
  <2> QED
    BY <1>2, MovedCommand
<1>6. CASE c.name \in {"Or", "Concat"}
  <2>1. /\ d.first = c.first + m /\ d.second = c.second + m
        /\ f.first = c.first + (m + n) /\ f.second = c.second + (m + n)
        /\ g.first = c.first + 0 /\ g.second = c.second + 0
    BY <1>1, <1>6, MovedCommand
  <2>2. e.first = d.first + n /\ e.second = d.second + n
    <3> HIDE DEF d
    <3> QED
      BY <1>2, <1>4, <1>6, MovedCommand
  <2> HIDE DEF d, e, f, g
  <2>3. e.first = f.first /\ e.second = f.second /\ g.first = c.first /\ g.second = c.second
    BY <1>1, <2>1, <2>2
  <2>4. e = f /\ g = c
    BY <1>2, <1>3, <1>4, <1>5, <2>3, SameCommand
  <2> QED
    BY <2>4 DEF d, e, f, g
<1>7. CASE c.name \in {"Kleene", "Positive", "Optional"}
  <2>1. /\ d.first = c.first + m /\ d.second = c.second
        /\ f.first = c.first + (m + n) /\ f.second = c.second
        /\ g.first = c.first + 0 /\ g.second = c.second
    BY <1>1, <1>7, MovedCommand
  <2>2. e.first = d.first + n /\ e.second = d.second
    <3> HIDE DEF d
    <3> QED
      BY <1>2, <1>4, <1>7, MovedCommand
  <2> HIDE DEF d, e, f, g
  <2>3. e.first = f.first /\ e.second = f.second /\ g.first = c.first /\ g.second = c.second
    BY <1>1, <2>1, <2>2
  <2>4. e = f /\ g = c
    BY <1>2, <1>3, <1>4, <1>5, <2>3, SameCommand
  <2> QED
    BY <2>4 DEF d, e, f, g
<1>8. CASE c.name \in {"Char", "Char_class_complement", "Char_class"}
  <2>1. d = c /\ f = c /\ g = c
    BY <1>1, <1>8, MovedCommand
  <2>2. Moved(c, n) = c
    BY <1>8, MovedCommand
  <2> QED
    BY <2>1, <2>2
<1> QED
  BY <1>1, <1>6, <1>7, <1>8 DEF Kinds

(* An action given before or after a command is moved *)
LEMMA MovedActing ==
    ASSUME NEW c \in Placed, NEW n \in Int, NEW act \in Actions
    PROVE  Moved([c EXCEPT !.action = act], n) = [Moved(c, n) EXCEPT !.action = act]
<1> DEFINE d == [c EXCEPT !.action = act]
<1>1. d \in Placed /\ d.name = c.name /\ d.first = c.first /\ d.second = c.second /\ d.action = act
  BY DEF Placed
<1> DEFINE e == Moved(d, n)
           f == Moved(c, n)
           g == [f EXCEPT !.action = act]
<1>2. f \in Placed
  BY MovedCommand
<1>3. g \in Placed /\ g.name = f.name /\ g.first = f.first /\ g.second = f.second /\ g.action = act
  <2> HIDE DEF f
  <2> QED
    BY <1>2 DEF Placed
<1>4. e \in Placed /\ e.action = act /\ e.name = c.name /\ f.name = c.name
  <2> HIDE DEF d
  <2> QED
    BY <1>1, MovedCommand
<1>5. e.first = f.first /\ e.second = f.second
  <2>1. CASE c.name \in {"Or", "Concat"}
    <3> HIDE DEF d
    <3> QED
      BY <1>1, <2>1, MovedCommand
  <2>2. CASE c.name \in {"Kleene", "Positive", "Optional"}
    <3> HIDE DEF d
    <3> QED
      BY <1>1, <2>2, MovedCommand
  <2>3. CASE c.name \in {"Char", "Char_class_complement", "Char_class"}
    <3> HIDE DEF d
    <3> QED
      BY <1>1, <2>3, MovedCommand
  <2> QED
    BY <2>1, <2>2, <2>3 DEF Placed, Kinds
<1>6. e = g
  <2> HIDE DEF e, g, f, d
  <2> QED
    BY <1>3, <1>4, <1>5, SameCommand
<1> QED
  BY <1>6

(* The commands b .. e of a buffer, arguments counted from the first of them *)
Segment(B, b, e) == [m \in 1 .. e - b + 1 |-> Moved(B[b - 1 + m], 1 - b)]

(* What such commands are *)
SegmentFacts(B, b, e, n) ==
    /\ Segment(B, b, e) \in Seq(Placed) /\ Len(Segment(B, b, e)) = n
    /\ n \in Nat /\ DOMAIN Segment(B, b, e) = 1 .. n
    /\ \A m \in 1 .. n : /\ b - 1 + m \in b .. e /\ B[b - 1 + m] \in Placed
                         /\ Segment(B, b, e)[m] = Moved(B[b - 1 + m], 1 - b)

LEMMA SegmentIs ==
    ASSUME NEW B \in Seq(Placed), NEW b \in Nat, NEW e \in Nat, 1 <= b, b <= e, e <= Len(B)
    PROVE  SegmentFacts(B, b, e, e - b + 1)
<1> DEFINE n == e - b + 1
           s == Segment(B, b, e)
<1>1. n \in Nat /\ 1 - b \in Int /\ \A m \in 1 .. n : b - 1 + m \in b .. e /\ B[b - 1 + m] \in Placed
  OBVIOUS
<1>2. \A m \in 1 .. n : Moved(B[b - 1 + m], 1 - b) \in Placed
  BY <1>1, MovedCommand
<1>3. s = [m \in 1 .. n |-> Moved(B[b - 1 + m], 1 - b)]
  BY DEF Segment
<1> HIDE DEF n, s
<1>4. s \in Seq(Placed) /\ Len(s) = n /\ DOMAIN s = 1 .. n
  BY <1>1, <1>2, <1>3
<1>5. \A m \in 1 .. n : s[m] = Moved(B[b - 1 + m], 1 - b)
  BY <1>3
<1> QED
  BY <1>1, <1>4, <1>5 DEF n, s, SegmentFacts

(* A sequence with one element more, as a function *)
LEMMA AppendIs ==
    ASSUME NEW S, NEW s \in Seq(S), NEW x \in S, NEW n \in Nat, Len(s) = n
    PROVE  Append(s, x) = [m \in 1 .. n + 1 |-> IF m = n + 1 THEN x ELSE s[m]]
<1> DEFINE a == Append(s, x)
<1>1. a \in Seq(S) /\ Len(a) = n + 1 /\ \A m \in 1 .. n + 1 : a[m] = IF m = n + 1 THEN x ELSE s[m]
  OBVIOUS
<1> HIDE DEF a
<1>2. a = [m \in 1 .. n + 1 |-> a[m]]
  BY <1>1
<1> QED
  BY <1>1, <1>2 DEF a

(* Two sequences, one after the other *)
LEMMA JoinIs ==
    ASSUME NEW S, NEW s \in Seq(S), NEW u \in Seq(S)
    PROVE  /\ s \o u \in Seq(S) /\ Len(s \o u) = Len(s) + Len(u)
           /\ \A m \in 1 .. Len(s) + Len(u) : (s \o u)[m] = IF m <= Len(s) THEN s[m] ELSE u[m - Len(s)]
OBVIOUS

(* Only the commands of the segment matter. *)
LEMMA SegmentKept ==
    ASSUME NEW B, NEW C, NEW b \in Nat, NEW e \in Nat, \A k \in b .. e : B[k] = C[k]
    PROVE  Segment(B, b, e) = Segment(C, b, e)
<1>1. \A m \in 1 .. e - b + 1 : b - 1 + m \in b .. e
  OBVIOUS
<1>2. \A m \in 1 .. e - b + 1 : Moved(B[b - 1 + m], 1 - b) = Moved(C[b - 1 + m], 1 - b)
  BY <1>1
<1> QED
  BY <1>2 DEF Segment

(* The whole buffer *)
LEMMA SegmentWhole ==
    ASSUME NEW B \in Seq(Placed)
    PROVE  Segment(B, 1, Len(B)) = B
<1> DEFINE n == Len(B)
<1>1. n \in Nat /\ n - 1 + 1 = n /\ 1 - 1 = 0 /\ \A m \in 1 .. n : B[m] \in Placed /\ 1 - 1 + m = m
  OBVIOUS
<1>2. B = [m \in 1 .. n |-> B[m]]
  OBVIOUS
<1> HIDE DEF n
<1>3. \A m \in 1 .. n : Moved(B[m], 0) = B[m]
  <2>1. 0 \in Int
    OBVIOUS
  <2> QED
    BY <1>1, <2>1, MovedTwice
<1>4. Segment(B, 1, n) = [m \in 1 .. n |-> Moved(B[1 - 1 + m], 0)]
  BY <1>1 DEF Segment
<1>5. \A m \in 1 .. n : Moved(B[1 - 1 + m], 0) = B[m]
  BY <1>1, <1>3
<1>6. Segment(B, 1, n) = [m \in 1 .. n |-> B[m]]
  BY <1>4, <1>5
<1> QED
  BY <1>2, <1>6 DEF n

(* One leaf more *)
LEMMA SegmentLeaf ==
    ASSUME NEW B \in Seq(Placed), NEW idx \in Nat,
           NEW name \in {"Char", "Char_class_complement", "Char_class"}
    PROVE  LET c == Command(name, idx, 0)
           IN  Segment(Append(B, c), Len(B) + 1, Len(B) + 1) = <<c>>
<1> DEFINE c == Command(name, idx, 0)
           n == Len(B)
           a == Append(B, c)
<1>1. c \in Placed /\ c.name = name
  BY DEF Command, Placed, Kinds
<1>2. n \in Nat /\ a[n + 1] = c
  OBVIOUS
<1>3. Moved(c, 1 - (n + 1)) = c
  <2> HIDE DEF c
  <2>1. 1 - (n + 1) \in Int
    BY <1>2
  <2> QED
    BY <1>1, <2>1, MovedCommand
<1> HIDE DEF c, n, a
<1>4. (n + 1) - (n + 1) + 1 = 1 /\ (n + 1) - 1 + 1 = n + 1
  BY <1>2
<1>5. Segment(a, n + 1, n + 1) = [m \in 1 .. 1 |-> c]
  <2>1. \A m \in 1 .. 1 : Moved(a[(n + 1) - 1 + m], 1 - (n + 1)) = c
    <3>1. \A m \in 1 .. 1 : (n + 1) - 1 + m = n + 1
      BY <1>4
    <3> QED
      BY <1>2, <1>3, <3>1
  <2> QED
    BY <1>4, <2>1 DEF Segment
<1>6. [m \in 1 .. 1 |-> c] = <<c>>
  OBVIOUS
<1> QED
  BY <1>5, <1>6 DEF c, n, a

(* An operator with one operand *)
LEMMA SegmentApplied ==
    ASSUME NEW B \in Seq(Placed), NEW b \in Nat, 1 <= b, b <= Len(B),
           NEW code \in {"Kleene_closure", "Positive_closure", "Optional_member"}
    PROVE  Segment(Append(B, Command(CommandName[code], Len(B), 0)), b, Len(B) + 1)
              = Applied(Segment(B, b, Len(B)), code)
<1> DEFINE e == Len(B)
           name == CommandName[code]
           c == Command(name, e, 0)
           a == Append(B, c)
           n == e - b + 1
           l == Segment(B, b, e)
           s == Segment(a, b, e + 1)
           d == Command(name, n, 0)
<1>1. /\ e \in Nat /\ n \in Nat /\ a[e + 1] = c /\ \A k \in 1 .. e : a[k] = B[k]
      /\ (e + 1) - b + 1 = n + 1 /\ b - 1 + (n + 1) = e + 1 /\ e + (1 - b) = n /\ 1 - b \in Int
  OBVIOUS
<1>2. name \in {"Kleene", "Positive", "Optional"}
  BY DEF CommandName
<1>3. l \in Seq(Placed) /\ Len(l) = n /\ \A m \in 1 .. n : /\ b - 1 + m \in b .. e
                                                           /\ l[m] = Moved(B[b - 1 + m], 1 - b)
  <2>1. SegmentFacts(B, b, e, n)
    BY <1>1, SegmentIs
  <2> HIDE DEF e, n
  <2> QED
    BY <2>1 DEF SegmentFacts
<1> HIDE DEF name
<1>4. c \in Placed /\ c.name = name /\ c.first = e /\ c.second = 0 /\ c.action = 0
  BY <1>1, <1>2 DEF Command, Placed, Kinds
<1>5. d \in Placed /\ d.name = name /\ d.first = n /\ d.second = 0 /\ d.action = 0
  BY <1>1, <1>2 DEF Command, Placed, Kinds
<1> HIDE DEF e, c, a, n, l, d
<1>6. Moved(c, 1 - b) = d
  <2> DEFINE g == Moved(c, 1 - b)
  <2>1. g \in Placed /\ g.name = name /\ g.action = 0 /\ g.first = n /\ g.second = 0
    BY <1>1, <1>2, <1>4, MovedCommand
  <2> HIDE DEF g
  <2>2. g = d
    BY <1>5, <2>1, SameCommand
  <2> QED
    BY <2>2 DEF g
<1>7. s = [m \in 1 .. n + 1 |-> Moved(a[b - 1 + m], 1 - b)]
  BY <1>1 DEF Segment
<1>8. Append(l, d) = [m \in 1 .. n + 1 |-> IF m = n + 1 THEN d ELSE l[m]]
  BY <1>1, <1>3, <1>5, AppendIs
<1>9. ASSUME NEW m \in 1 .. n + 1
      PROVE  Moved(a[b - 1 + m], 1 - b) = IF m = n + 1 THEN d ELSE l[m]
  <2>1. CASE m = n + 1
    BY <1>1, <1>6, <2>1
  <2>2. CASE m # n + 1
    <3>1. m \in 1 .. n
      BY <1>1, <2>2
    <3>2. b - 1 + m \in 1 .. e
      BY <1>1, <1>3, <3>1
    <3> QED
      BY <1>1, <1>3, <2>2, <3>1, <3>2
  <2> QED
    BY <2>1, <2>2
<1> HIDE DEF s
<1>10. s = Append(l, d)
  BY <1>7, <1>8, <1>9, Zenon
<1>11. Applied(l, code) = Append(l, d)
  BY <1>3 DEF Applied, d, name
<1> QED
  BY <1>10, <1>11 DEF s, a, e, c, l, name

(* An operator with two operands *)
LEMMA SegmentBoth ==
    ASSUME NEW B \in Seq(Placed), NEW b \in Nat, NEW e \in Nat, 1 <= b, b <= e, e < Len(B),
           NEW name \in {"Or", "Concat"}
    PROVE  Segment(Append(B, Command(name, e, Len(B))), b, Len(B) + 1)
              = Both(name, Segment(B, b, e), Segment(B, e + 1, Len(B)))
<1> DEFINE f == Len(B)
           c == Command(name, e, f)
           a == Append(B, c)
           p == e - b + 1
           q == f - e
           l == Segment(B, b, e)
           r == Segment(B, e + 1, f)
           s == Segment(a, b, f + 1)
           d == Command(name, p, p + q)
           t0 == [k \in 1 .. q |-> Moved(r[k], p)]
<1>1. /\ f \in Nat /\ p \in Nat /\ q \in Nat /\ a[f + 1] = c /\ \A k \in 1 .. f : a[k] = B[k]
      /\ (f + 1) - b + 1 = p + q + 1 /\ b - 1 + (p + q + 1) = f + 1 /\ e + (1 - b) = p /\ 1 - b \in Int
      /\ f + (1 - b) = p + q /\ f - (e + 1) + 1 = q /\ (1 - (e + 1)) + p = 1 - b /\ 1 - (e + 1) \in Int
      /\ p \in Int /\ \A k \in 1 .. q : (e + 1) - 1 + k = b - 1 + (p + k)
      /\ e + 1 \in Nat /\ e + 1 <= f /\ 1 <= e + 1
  OBVIOUS
<1>2. l \in Seq(Placed) /\ Len(l) = p /\ \A m \in 1 .. p : /\ b - 1 + m \in b .. e
                                                           /\ l[m] = Moved(B[b - 1 + m], 1 - b)
  <2>1. e <= f
    OBVIOUS
  <2>2. SegmentFacts(B, b, e, e - b + 1)
    <3> HIDE DEF f
    <3>1. e <= Len(B)
      BY <2>1 DEF f
    <3> QED
      BY <3>1, SegmentIs
  <2>3. SegmentFacts(B, b, e, p)
    BY <2>2
  <2> HIDE DEF p
  <2> QED
    BY <2>3 DEF SegmentFacts
<1>3. /\ r \in Seq(Placed) /\ Len(r) = q /\ DOMAIN r = 1 .. q
      /\ \A k \in 1 .. q : /\ (e + 1) - 1 + k \in e + 1 .. f /\ B[(e + 1) - 1 + k] \in Placed
                           /\ r[k] = Moved(B[(e + 1) - 1 + k], 1 - (e + 1))
  <2>1. f \in Nat /\ e + 1 \in Nat /\ 1 <= e + 1 /\ e + 1 <= f
    BY <1>1
  <2>2. f - (e + 1) + 1 = q
    BY <1>1
  <2>3. SegmentFacts(B, e + 1, f, f - (e + 1) + 1)
    BY <2>1, SegmentIs
  <2>4. SegmentFacts(B, e + 1, f, q)
    BY <2>2, <2>3
  <2> HIDE DEF f, q
  <2> QED
    BY <2>4 DEF SegmentFacts
<1>4. c \in Placed /\ c.name = name /\ c.first = e /\ c.second = f /\ c.action = 0
  BY <1>1 DEF Command, Placed, Kinds
<1>5. d \in Placed /\ d.name = name /\ d.first = p /\ d.second = p + q /\ d.action = 0
  BY <1>1 DEF Command, Placed, Kinds
<1> HIDE DEF f, c, a, p, q, l, r, d
<1>6. Moved(c, 1 - b) = d
  <2> DEFINE g == Moved(c, 1 - b)
  <2>1. /\ g \in Placed /\ g.name = c.name /\ g.action = c.action
        /\ g.first = c.first + (1 - b) /\ g.second = c.second + (1 - b)
    <3>1. 1 - b \in Int /\ c \in Placed /\ c.name \in {"Or", "Concat"}
      BY <1>1, <1>4
    <3> QED
      BY <3>1, MovedCommand
  <2>1a. g \in Placed /\ g.name = name /\ g.action = 0 /\ g.first = p /\ g.second = p + q
    BY <1>1, <1>4, <2>1
  <2> HIDE DEF g
  <2>2. g = d
    BY <1>5, <2>1a, SameCommand
  <2> QED
    BY <2>2 DEF g
<1>7. s = [m \in 1 .. p + q + 1 |-> Moved(a[b - 1 + m], 1 - b)]
  BY <1>1 DEF Segment
<1>8. \A k \in 1 .. q : Moved(r[k], p) = Moved(B[b - 1 + (p + k)], 1 - b)
  <2> TAKE k \in 1 .. q
  <2> DEFINE x == B[(e + 1) - 1 + k]
  <2>1. x \in Placed /\ r[k] = Moved(x, 1 - (e + 1)) /\ x = B[b - 1 + (p + k)]
    BY <1>1, <1>3
  <2> HIDE DEF x
  <2>2. Moved(Moved(x, 1 - (e + 1)), p) = Moved(x, (1 - (e + 1)) + p)
    BY <1>1, <2>1, MovedTwice
  <2> QED
    BY <1>1, <2>1, <2>2
<1>9. t0 \in Seq(Placed) /\ Len(t0) = q
  <2>1. p \in Int /\ q \in Nat /\ \A k \in 1 .. q : r[k] \in Placed
    BY <1>1, <1>3
  <2>2. \A k \in 1 .. q : Moved(r[k], p) \in Placed
    BY <2>1, MovedCommand
  <2> QED
    BY <2>1, <2>2
<1>10. \A k \in 1 .. q : t0[k] = Moved(B[b - 1 + (p + k)], 1 - b)
  BY <1>8
<1> HIDE DEF t0
<1> DEFINE u == l \o t0 \o <<d>>
<1>11. Len(l \o t0) = p + q /\ l \o t0 \in Seq(Placed)
  BY <1>2, <1>9, JoinIs
<1>12. \A m \in 1 .. p + q : (l \o t0)[m] = IF m <= p THEN l[m] ELSE t0[m - p]
  BY <1>2, <1>9, JoinIs
<1>13. u = Append(l \o t0, d)
  <2> DEFINE v == l \o t0
  <2>1. v \in Seq(Placed) /\ d \in Placed
    BY <1>5, <1>11
  <2> HIDE DEF v
  <2>2. v \o <<d>> = Append(v, d)
    BY <2>1
  <2> QED
    BY <2>2 DEF v
<1>14. u = [m \in 1 .. p + q + 1 |-> IF m = p + q + 1 THEN d ELSE (l \o t0)[m]]
  <2> DEFINE v == l \o t0
  <2>1. v \in Seq(Placed) /\ d \in Placed /\ Len(v) = p + q
    BY <1>5, <1>11
  <2> HIDE DEF v
  <2>2. Append(v, d) = [m \in 1 .. p + q + 1 |-> IF m = p + q + 1 THEN d ELSE v[m]]
    <3>1. p + q \in Nat
      BY <1>1
    <3> QED
      BY <2>1, <3>1, AppendIs
  <2> QED
    BY <1>13, <2>2 DEF v
<1>15. ASSUME NEW m \in 1 .. p + q + 1
       PROVE  Moved(a[b - 1 + m], 1 - b) = IF m = p + q + 1 THEN d ELSE (l \o t0)[m]
  <2>1. CASE m = p + q + 1
    BY <1>1, <1>6, <2>1
  <2>2. CASE m \in 1 .. p
    <3>1. b - 1 + m \in 1 .. f /\ m \in 1 .. p + q /\ m # p + q + 1 /\ m <= p
      BY <1>1, <1>2, <2>2
    <3> QED
      BY <1>1, <1>2, <1>12, <2>2, <3>1
  <2>3. CASE m \in p + 1 .. p + q
    <3> DEFINE k == m - p
    <3>1. k \in 1 .. q /\ p + k = m /\ m \in 1 .. p + q /\ m # p + q + 1 /\ ~ (m <= p)
      BY <1>1, <2>3
    <3>2. b - 1 + m \in 1 .. f
      BY <1>1, <2>3
    <3> HIDE DEF k
    <3>3. t0[k] = Moved(B[b - 1 + m], 1 - b)
      BY <1>10, <3>1
    <3>4. (l \o t0)[m] = t0[k]
      BY <1>12, <3>1 DEF k
    <3> QED
      BY <1>1, <3>1, <3>2, <3>3, <3>4
  <2>4. m = p + q + 1 \/ m \in 1 .. p \/ m \in p + 1 .. p + q
    BY <1>1
  <2> QED
    BY <2>1, <2>2, <2>3, <2>4
<1> HIDE DEF s, u
<1>16. s = u
  BY <1>7, <1>14, <1>15, Zenon
<1>17. u = Both(name, l, r)
  <2>1. DOMAIN r = 1 .. q /\ Len(l) = p /\ Len(r) = q
    BY <1>2, <1>3
  <2> QED
    BY <2>1 DEF Both, u, t0, d
<1> QED
  BY <1>16, <1>17 DEF s, a, c, f, l, r

(* C has the commands of B, and b .. e have the action act. *)
Acted(B, C, b, e, act) == \A k \in b .. e : C[k] = [B[k] EXCEPT !.action = act]

(* An action for all the commands of the segment *)
LEMMA SegmentActing ==
    ASSUME NEW B \in Seq(Placed), NEW b \in Nat, NEW e \in Nat, 1 <= b, b <= e, e <= Len(B),
           NEW act \in Actions, NEW C, Acted(B, C, b, e, act)
    PROVE  Segment(C, b, e) = Acting(Segment(B, b, e), act)
<1> DEFINE n == e - b + 1
           l == Segment(B, b, e)
<1>1. /\ n \in Nat /\ DOMAIN l = 1 .. n /\ 1 - b \in Int
      /\ \A m \in 1 .. n : /\ b - 1 + m \in b .. e /\ B[b - 1 + m] \in Placed
                           /\ l[m] = Moved(B[b - 1 + m], 1 - b)
  <2>1. SegmentFacts(B, b, e, n)
    BY SegmentIs
  <2>2. 1 - b \in Int
    OBVIOUS
  <2> HIDE DEF n
  <2> QED
    BY <2>1, <2>2 DEF SegmentFacts
<1>2. \A m \in 1 .. n : Moved(C[b - 1 + m], 1 - b) = [l[m] EXCEPT !.action = act]
  <2> TAKE m \in 1 .. n
  <2> DEFINE x == B[b - 1 + m]
  <2>1. x \in Placed /\ C[b - 1 + m] = [x EXCEPT !.action = act] /\ l[m] = Moved(x, 1 - b)
    <3> HIDE DEF l, n
    <3> QED
      BY <1>1 DEF Acted
  <2> HIDE DEF x, l
  <2>2. Moved([x EXCEPT !.action = act], 1 - b) = [Moved(x, 1 - b) EXCEPT !.action = act]
    <3>1. 1 - b \in Int
      OBVIOUS
    <3> QED
      BY <2>1, <3>1, MovedActing
  <2> QED
    BY <2>1, <2>2
<1>3. Segment(C, b, e) = [m \in 1 .. n |-> Moved(C[b - 1 + m], 1 - b)]
  BY DEF Segment
<1> HIDE DEF n, l
<1>4. Acting(l, act) = [m \in 1 .. n |-> [l[m] EXCEPT !.action = act]]
  BY <1>1 DEF Acting
<1> QED
  BY <1>2, <1>3, <1>4, Zenon DEF l

-----------------------------------------------------------------------------
(* The rules, from the commands of the parts to those of the whole *)
LEMMA RulesDerive ==
    ASSUME NEW w, Len(w) \in Nat, NEW i \in 1 .. Len(w), NEW j \in 1 .. Len(w), i <= j
    PROVE  LET D == Derivations(w)
           IN  /\ \A b : /\ b \in D[<<"E", i, j>>] => b \in D[<<"T", i, j>>]
                         /\ b \in D[<<"F", i, j>>] => b \in D[<<"E", i, j>>]
                         /\ b \in D[<<"G", i, j>>] => b \in D[<<"F", i, j>>]
                         /\ b \in D[<<"H", i, j>>] => b \in D[<<"G", i, j>>]
               /\ \A k \in i + 1 .. j - 1 :
                     Terminal[w[k].code] = "b" =>
                     \A l \in D[<<"T", i, k - 1>>], r \in D[<<"E", k + 1, j>>] :
                        Both("Or", l, r) \in D[<<"T", i, j>>]
               /\ \A k \in i .. j - 1 : \A l \in D[<<"E", i, k>>], r \in D[<<"F", k + 1, j>>] :
                     Both("Concat", l, r) \in D[<<"E", i, j>>]
               /\ i < j /\ Terminal[w[j].code] = "c" =>
                     \A l \in D[<<"G", i, j - 1>>] : Applied(l, w[j].code) \in D[<<"F", i, j>>]
               /\ i < j /\ Terminal[w[j].code] = "a" =>
                     \A l \in D[<<"H", i, j - 1>>] : Acting(l, w[j].idx) \in D[<<"G", i, j>>]
               /\ i = j /\ Terminal[w[i].code] = "d" =>
                     <<Command(CommandName[w[i].code], w[i].idx, 0)>> \in D[<<"H", i, j>>]
               /\ i + 1 < j /\ Terminal[w[i].code] = "LP" /\ Terminal[w[j].code] = "RP" =>
                     \A b \in D[<<"T", i + 1, j - 1>>] : b \in D[<<"H", i, j>>]
<1> DEFINE D == Derivations(w)
<1>1. ASSUME NEW b
      PROVE  /\ IsT(w, D, i, j, b) => b \in D[<<"T", i, j>>]
             /\ IsE(w, D, i, j, b) => b \in D[<<"E", i, j>>]
             /\ IsF(w, D, i, j, b) => b \in D[<<"F", i, j>>]
             /\ IsG(w, D, i, j, b) => b \in D[<<"G", i, j>>]
             /\ IsH(w, D, i, j, b) => b \in D[<<"H", i, j>>]
  BY PhraseRules
<1> HIDE DEF D
<1>2. ASSUME NEW b
      PROVE  /\ b \in D[<<"E", i, j>>] => b \in D[<<"T", i, j>>]
             /\ b \in D[<<"F", i, j>>] => b \in D[<<"E", i, j>>]
             /\ b \in D[<<"G", i, j>>] => b \in D[<<"F", i, j>>]
             /\ b \in D[<<"H", i, j>>] => b \in D[<<"G", i, j>>]
  <2>1. b \in D[<<"E", i, j>>] => IsT(w, D, i, j, b)
    BY Zenon DEF IsT
  <2>2. b \in D[<<"F", i, j>>] => IsE(w, D, i, j, b)
    BY Zenon DEF IsE
  <2>3. b \in D[<<"G", i, j>>] => IsF(w, D, i, j, b)
    BY Zenon DEF IsF
  <2>4. b \in D[<<"H", i, j>>] => IsG(w, D, i, j, b)
    BY Zenon DEF IsG
  <2> QED
    BY <1>1, <2>1, <2>2, <2>3, <2>4, Zenon
<1>3. ASSUME NEW k \in i + 1 .. j - 1, Terminal[w[k].code] = "b",
             NEW l \in D[<<"T", i, k - 1>>], NEW r \in D[<<"E", k + 1, j>>]
      PROVE  Both("Or", l, r) \in D[<<"T", i, j>>]
  <2>1. IsT(w, D, i, j, Both("Or", l, r))
    BY <1>3, Zenon DEF IsT, Is
  <2> QED
    BY <1>1, <2>1, Zenon
<1>4. ASSUME NEW k \in i .. j - 1, NEW l \in D[<<"E", i, k>>], NEW r \in D[<<"F", k + 1, j>>]
      PROVE  Both("Concat", l, r) \in D[<<"E", i, j>>]
  <2>1. IsE(w, D, i, j, Both("Concat", l, r))
    BY <1>4, Zenon DEF IsE
  <2> QED
    BY <1>1, <2>1, Zenon
<1>5. ASSUME i < j, Terminal[w[j].code] = "c", NEW l \in D[<<"G", i, j - 1>>]
      PROVE  Applied(l, w[j].code) \in D[<<"F", i, j>>]
  <2>1. IsF(w, D, i, j, Applied(l, w[j].code))
    BY <1>5, Zenon DEF IsF, Is
  <2> QED
    BY <1>1, <2>1, Zenon
<1>6. ASSUME i < j, Terminal[w[j].code] = "a", NEW l \in D[<<"H", i, j - 1>>]
      PROVE  Acting(l, w[j].idx) \in D[<<"G", i, j>>]
  <2>1. IsG(w, D, i, j, Acting(l, w[j].idx))
    BY <1>6, Zenon DEF IsG, Is
  <2> QED
    BY <1>1, <2>1, Zenon
<1>7. ASSUME i = j, Terminal[w[i].code] = "d"
      PROVE  <<Command(CommandName[w[i].code], w[i].idx, 0)>> \in D[<<"H", i, j>>]
  <2>1. IsH(w, D, i, j, <<Command(CommandName[w[i].code], w[i].idx, 0)>>)
    BY <1>7, Zenon DEF IsH, Is
  <2> QED
    BY <1>1, <2>1, Zenon
<1>8. ASSUME i + 1 < j, Terminal[w[i].code] = "LP", Terminal[w[j].code] = "RP",
             NEW b \in D[<<"T", i + 1, j - 1>>]
      PROVE  b \in D[<<"H", i, j>>]
  <2>1. IsH(w, D, i, j, b)
    BY <1>8, Zenon DEF IsH, Is
  <2> QED
    BY <1>1, <2>1, Zenon
<1> QED
  BY <1>2, <1>3, <1>4, <1>5, <1>6, <1>7, <1>8, Zenon DEF D

(* The text z begins with w. *)
Begins(w, z) == Len(w) <= Len(z) /\ \A k \in 1 .. Len(w) : z[k] = w[k]

(* Whatever follows w, the commands of the item are those of the lexemes    *)
(* i .. j as the symbol nt.                                                 *)
IsPhrase(item, B, w, nt, i, j) ==
    \A z \in Seq(Lexeme) :
       Begins(w, z) => Segment(B, item.begin, item.end) \in Derivations(z)[<<nt, i, j>>]

(* What an item of the stack stands for: the lexemes p + 1 .. q of w.       *)
Means(item, B, w, p, q) ==
    LET s == Symbol[item.st_num]
    IN  /\ s \notin Nonterminals => q = p + 1 /\ w[q] = item.li
        /\ s \in Nonterminals \ {"S"} => p < q /\ IsPhrase(item, B, w, s, p + 1, q)
        /\ s = "S" => /\ p = 0 /\ 3 <= q /\ w[q].code = "End_expression"
                      /\ IsPhrase(item, B, w, "T", 2, q - 1)

(* One lexeme more does not change what the items stand for. *)
LEMMA MeansExtended ==
    ASSUME NEW w \in Seq(Lexeme), NEW l \in Lexeme, NEW item, NEW B,
           NEW p \in 0 .. Len(w), NEW q \in 0 .. Len(w), Means(item, B, w, p, q)
    PROVE  Means(item, B, Append(w, l), p, q)
<1> DEFINE a == Append(w, l)
<1>1. a \in Seq(Lexeme) /\ Len(a) = Len(w) + 1 /\ \A k \in 1 .. Len(w) : a[k] = w[k]
  OBVIOUS
<1>2. Len(w) \in Nat
  OBVIOUS
<1> HIDE DEF a
<1>3. ASSUME NEW z \in Seq(Lexeme), Begins(a, z) PROVE Begins(w, z)
  <2>1. Len(z) \in Nat
    OBVIOUS
  <2> QED
    BY <1>1, <1>2, <1>3, <2>1 DEF Begins
<1>4. ASSUME NEW nt, NEW i, NEW j, IsPhrase(item, B, w, nt, i, j)
      PROVE  IsPhrase(item, B, a, nt, i, j)
  BY <1>3, <1>4, Zenon DEF IsPhrase
<1>5. q > 0 => a[q] = w[q]
  BY <1>1
<1>6. CASE Symbol[item.st_num] \notin Nonterminals
  BY <1>5, <1>6 DEF Means, a, Nonterminals
<1>7. CASE Symbol[item.st_num] \in Nonterminals \ {"S"}
  BY <1>4, <1>7 DEF Means, a
<1>8. CASE Symbol[item.st_num] = "S"
  BY <1>4, <1>5, <1>8 DEF Means, a, Nonterminals
<1> QED
  BY <1>6, <1>7, <1>8

(* Only the commands of an operand matter. *)
LEMMA MeansKept ==
    ASSUME NEW w, NEW item, NEW B, NEW C, NEW p, NEW q, Means(item, B, w, p, q),
           Symbol[item.st_num] \in Nonterminals =>
              /\ item.begin \in Nat /\ item.end \in Nat
              /\ \A k \in item.begin .. item.end : B[k] = C[k]
    PROVE  Means(item, C, w, p, q)
<1>1. CASE Symbol[item.st_num] \notin Nonterminals
  BY <1>1 DEF Means, Nonterminals
<1>2. CASE Symbol[item.st_num] \in Nonterminals
  <2>1. Segment(B, item.begin, item.end) = Segment(C, item.begin, item.end)
    BY <1>2, SegmentKept
  <2>2. \A nt, i, j : IsPhrase(item, B, w, nt, i, j) <=> IsPhrase(item, C, w, nt, i, j)
    BY <2>1, Zenon DEF IsPhrase
  <2> QED
    BY <2>2, Zenon DEF Means
<1> QED
  BY <1>1, <1>2

(* The symbols to which a rule with one symbol reduces it *)
Lifts == {<<"E", "T">>, <<"F", "E">>, <<"G", "F">>, <<"H", "G">>}

(* Positions of a text in one that begins with it *)
LEMMA BeginsPositions ==
    ASSUME NEW w \in Seq(Lexeme), NEW z \in Seq(Lexeme), Begins(w, z)
    PROVE  /\ Len(z) \in Nat /\ Len(w) \in Nat /\ Len(w) <= Len(z)
           /\ \A k \in 1 .. Len(w) : k \in 1 .. Len(z) /\ z[k] = w[k]
BY DEF Begins

(* T -> E, E -> F, F -> G and G -> H *)
LEMMA LiftMeans ==
    ASSUME NEW w \in Seq(Lexeme), NEW B, NEW b, NEW x, NEW p \in 0 .. Len(w), NEW q \in 0 .. Len(w),
           Means(b, B, w, p, q), <<Symbol[b.st_num], Symbol[x.st_num]>> \in Lifts,
           x.begin = b.begin, x.end = b.end
    PROVE  Means(x, B, w, p, q)
<1> DEFINE s == Symbol[b.st_num]
           u == Symbol[x.st_num]
<1>1. s \in {"E", "F", "G", "H"} /\ u \in {"T", "E", "F", "G"}
  BY DEF Lifts
<1>2. p < q /\ IsPhrase(b, B, w, s, p + 1, q)
  BY <1>1 DEF Means, Nonterminals
<1>3. IsPhrase(x, B, w, u, p + 1, q)
  <2> SUFFICES ASSUME NEW z \in Seq(Lexeme), Begins(w, z)
               PROVE  Segment(B, x.begin, x.end) \in Derivations(z)[<<u, p + 1, q>>]
    BY DEF IsPhrase
  <2> DEFINE g == Segment(B, b.begin, b.end)
             D == Derivations(z)
  <2>1. g \in D[<<s, p + 1, q>>]
    BY <1>2 DEF IsPhrase
  <2>2. Len(z) \in Nat /\ p + 1 \in 1 .. Len(z) /\ q \in 1 .. Len(z) /\ p + 1 <= q
    BY <1>2, BeginsPositions
  <2>3. /\ g \in D[<<"E", p + 1, q>>] => g \in D[<<"T", p + 1, q>>]
        /\ g \in D[<<"F", p + 1, q>>] => g \in D[<<"E", p + 1, q>>]
        /\ g \in D[<<"G", p + 1, q>>] => g \in D[<<"F", p + 1, q>>]
        /\ g \in D[<<"H", p + 1, q>>] => g \in D[<<"G", p + 1, q>>]
    BY <2>2, RulesDerive
  <2> HIDE DEF g, D
  <2>4. g \in D[<<u, p + 1, q>>]
    BY <2>1, <2>3 DEF Lifts
  <2> QED
    BY <2>4 DEF g, D
<1> QED
  BY <1>1, <1>2, <1>3 DEF Means, Nonterminals

(* H -> d *)
LEMMA LeafMeans ==
    ASSUME NEW w \in Seq(Lexeme), NEW B \in Seq(Placed), NEW b, NEW x,
           NEW p \in 0 .. Len(w), NEW q \in 0 .. Len(w), Means(b, B, w, p, q),
           Symbol[b.st_num] = "d", Symbol[x.st_num] = "H",
           Terminal[b.li.code] = "d", b.li.idx \in Nat,
           CommandName[b.li.code] \in {"Char", "Char_class_complement", "Char_class"},
           x.begin = Len(B) + 1, x.end = Len(B) + 1
    PROVE  Means(x, Append(B, Command(CommandName[b.li.code], b.li.idx, 0)), w, p, q)
<1> DEFINE c == Command(CommandName[b.li.code], b.li.idx, 0)
           C == Append(B, c)
<1>1. q = p + 1 /\ w[q] = b.li
  BY DEF Means, Nonterminals
<1>2. Segment(C, x.begin, x.end) = <<c>>
  BY SegmentLeaf
<1>3. ASSUME NEW z \in Seq(Lexeme), Begins(w, z)
      PROVE  <<c>> \in Derivations(z)[<<"H", p + 1, q>>]
  <2>1. Len(z) \in Nat /\ p + 1 \in 1 .. Len(z) /\ q \in 1 .. Len(z) /\ p + 1 <= q /\ z[p + 1] = b.li
    BY <1>1, <1>3, BeginsPositions
  <2>2. p + 1 = q /\ Terminal[z[p + 1].code] = "d"
    BY <1>1, <2>1
  <2>3. <<Command(CommandName[z[p + 1].code], z[p + 1].idx, 0)>> \in Derivations(z)[<<"H", p + 1, q>>]
    BY <2>1, <2>2, RulesDerive
  <2> QED
    BY <2>1, <2>3
<1> HIDE DEF C, c
<1>4. IsPhrase(x, C, w, "H", p + 1, q)
  BY <1>2, <1>3 DEF IsPhrase
<1>5. Means(x, C, w, p, q)
  BY <1>1, <1>4 DEF Means, Nonterminals
<1> QED
  BY <1>5 DEF C, c

(* F -> G c *)
LEMMA ApplyMeans ==
    ASSUME NEW w \in Seq(Lexeme), NEW B \in Seq(Placed), NEW b1, NEW b2, NEW x,
           NEW p \in 0 .. Len(w), NEW o \in 0 .. Len(w), NEW q \in 0 .. Len(w),
           Means(b1, B, w, p, o), Means(b2, B, w, o, q),
           Symbol[b1.st_num] = "G", Symbol[b2.st_num] = "c", Symbol[x.st_num] = "F",
           Terminal[b2.li.code] = "c",
           b2.li.code \in {"Kleene_closure", "Positive_closure", "Optional_member"},
           b1.begin \in Nat, 1 <= b1.begin, b1.begin <= b1.end, b1.end = Len(B),
           x.begin = b1.begin, x.end = Len(B) + 1
    PROVE  Means(x, Append(B, Command(CommandName[b2.li.code], b1.end, 0)), w, p, q)
<1> DEFINE C == Append(B, Command(CommandName[b2.li.code], b1.end, 0))
           l == Segment(B, b1.begin, b1.end)
           s == Segment(C, x.begin, x.end)
<1>1. /\ p < o /\ IsPhrase(b1, B, w, "G", p + 1, o)
      /\ q = o + 1 /\ w[q] = b2.li
  BY DEF Means, Nonterminals
<1>2. s = Applied(l, b2.li.code)
  BY SegmentApplied
<1>3. ASSUME NEW z \in Seq(Lexeme), Begins(w, z)
      PROVE  s \in Derivations(z)[<<"F", p + 1, q>>]
  <2>1. /\ Len(z) \in Nat /\ p + 1 \in 1 .. Len(z) /\ q \in 1 .. Len(z) /\ p + 1 < q
        /\ z[q] = b2.li /\ q - 1 = o /\ p + 1 <= q
    BY <1>1, <1>3, BeginsPositions
  <2>2. l \in Derivations(z)[<<"G", p + 1, q - 1>>]
    BY <1>1, <1>3, <2>1 DEF IsPhrase
  <2>3. Terminal[z[q].code] = "c"
    BY <2>1
  <2> HIDE DEF l, s, C
  <2>4. Applied(l, z[q].code) \in Derivations(z)[<<"F", p + 1, q>>]
    BY <2>1, <2>2, <2>3, RulesDerive
  <2> QED
    BY <1>2, <2>1, <2>4
<1>4. IsPhrase(x, C, w, "F", p + 1, q)
  <2> HIDE DEF C
  <2> QED
    BY <1>3 DEF IsPhrase
<1> HIDE DEF C
<1>5. Means(x, C, w, p, q)
  BY <1>1, <1>4 DEF Means, Nonterminals
<1> QED
  BY <1>5 DEF C

(* G -> H a *)
LEMMA ActMeans ==
    ASSUME NEW w \in Seq(Lexeme), NEW B \in Seq(Placed), NEW b1, NEW b2, NEW x,
           NEW p \in 0 .. Len(w), NEW o \in 0 .. Len(w), NEW q \in 0 .. Len(w),
           Means(b1, B, w, p, o), Means(b2, B, w, o, q),
           Symbol[b1.st_num] = "H", Symbol[b2.st_num] = "a", Symbol[x.st_num] = "G",
           Terminal[b2.li.code] = "a", b2.li.idx \in Actions,
           b1.begin \in Nat, b1.end \in Nat, 1 <= b1.begin, b1.begin <= b1.end, b1.end <= Len(B),
           x.begin = b1.begin, x.end = b1.end,
           NEW C, Acted(B, C, b1.begin, b1.end, b2.li.idx)
    PROVE  Means(x, C, w, p, q)
<1> DEFINE l == Segment(B, b1.begin, b1.end)
           s == Segment(C, x.begin, x.end)
<1>1. /\ p < o /\ IsPhrase(b1, B, w, "H", p + 1, o)
      /\ q = o + 1 /\ w[q] = b2.li
  BY DEF Means, Nonterminals
<1>2. s = Acting(l, b2.li.idx)
  <2>1. Segment(C, b1.begin, b1.end) = Acting(Segment(B, b1.begin, b1.end), b2.li.idx)
    BY SegmentActing
  <2> QED
    BY <2>1
<1>3. ASSUME NEW z \in Seq(Lexeme), Begins(w, z)
      PROVE  s \in Derivations(z)[<<"G", p + 1, q>>]
  <2>1. /\ Len(z) \in Nat /\ p + 1 \in 1 .. Len(z) /\ q \in 1 .. Len(z) /\ p + 1 < q
        /\ z[q] = b2.li /\ q - 1 = o /\ p + 1 <= q
    BY <1>1, <1>3, BeginsPositions
  <2>2. l \in Derivations(z)[<<"H", p + 1, q - 1>>]
    BY <1>1, <1>3, <2>1 DEF IsPhrase
  <2>3. Terminal[z[q].code] = "a"
    BY <2>1
  <2> HIDE DEF l, s
  <2>4. Acting(l, z[q].idx) \in Derivations(z)[<<"G", p + 1, q>>]
    BY <2>1, <2>2, <2>3, RulesDerive
  <2> QED
    BY <1>2, <2>1, <2>4
<1>4. IsPhrase(x, C, w, "G", p + 1, q)
  BY <1>3 DEF IsPhrase
<1> QED
  BY <1>1, <1>4 DEF Means, Nonterminals

(* E -> E F *)
LEMMA ConcatMeans ==
    ASSUME NEW w \in Seq(Lexeme), NEW B \in Seq(Placed), NEW b1, NEW b2, NEW x,
           NEW p \in 0 .. Len(w), NEW o \in 0 .. Len(w), NEW q \in 0 .. Len(w),
           Means(b1, B, w, p, o), Means(b2, B, w, o, q),
           Symbol[b1.st_num] = "E", Symbol[b2.st_num] = "F", Symbol[x.st_num] = "E",
           b1.begin \in Nat, b1.end \in Nat, 1 <= b1.begin, b1.begin <= b1.end,
           b2.begin = b1.end + 1, b1.end < Len(B), b2.end = Len(B),
           x.begin = b1.begin, x.end = Len(B) + 1
    PROVE  Means(x, Append(B, Command("Concat", b1.end, b2.end)), w, p, q)
<1> DEFINE C == Append(B, Command("Concat", b1.end, b2.end))
           l == Segment(B, b1.begin, b1.end)
           r == Segment(B, b2.begin, b2.end)
           s == Segment(C, x.begin, x.end)
<1>1. /\ p < o /\ IsPhrase(b1, B, w, "E", p + 1, o)
      /\ o < q /\ IsPhrase(b2, B, w, "F", o + 1, q)
  BY DEF Means, Nonterminals
<1>2. s = Both("Concat", l, r)
  BY SegmentBoth
<1>3. ASSUME NEW z \in Seq(Lexeme), Begins(w, z)
      PROVE  s \in Derivations(z)[<<"E", p + 1, q>>]
  <2>1. /\ Len(z) \in Nat /\ p + 1 \in 1 .. Len(z) /\ q \in 1 .. Len(z) /\ p + 1 <= q
        /\ o \in p + 1 .. q - 1
    BY <1>1, <1>3, BeginsPositions
  <2>2. l \in Derivations(z)[<<"E", p + 1, o>>] /\ r \in Derivations(z)[<<"F", o + 1, q>>]
    BY <1>1, <1>3 DEF IsPhrase
  <2> HIDE DEF l, r, s, C
  <2>3. Both("Concat", l, r) \in Derivations(z)[<<"E", p + 1, q>>]
    BY <2>1, <2>2, RulesDerive
  <2> QED
    BY <1>2, <2>3
<1>4. IsPhrase(x, C, w, "E", p + 1, q)
  <2> HIDE DEF C
  <2> QED
    BY <1>3 DEF IsPhrase
<1> HIDE DEF C
<1>5. Means(x, C, w, p, q)
  BY <1>1, <1>4 DEF Means, Nonterminals
<1> QED
  BY <1>5 DEF C

(* T -> T b E *)
LEMMA OrMeans ==
    ASSUME NEW w \in Seq(Lexeme), NEW B \in Seq(Placed), NEW b1, NEW b2, NEW b3, NEW x,
           NEW p \in 0 .. Len(w), NEW o \in 0 .. Len(w), NEW v \in 0 .. Len(w), NEW q \in 0 .. Len(w),
           Means(b1, B, w, p, o), Means(b2, B, w, o, v), Means(b3, B, w, v, q),
           Symbol[b1.st_num] = "T", Symbol[b2.st_num] = "b", Symbol[b3.st_num] = "E",
           Symbol[x.st_num] = "T", Terminal[b2.li.code] = "b",
           b1.begin \in Nat, b1.end \in Nat, 1 <= b1.begin, b1.begin <= b1.end,
           b3.begin = b1.end + 1, b1.end < Len(B), b3.end = Len(B),
           x.begin = b1.begin, x.end = Len(B) + 1
    PROVE  Means(x, Append(B, Command("Or", b1.end, b3.end)), w, p, q)
<1> DEFINE C == Append(B, Command("Or", b1.end, b3.end))
           l == Segment(B, b1.begin, b1.end)
           r == Segment(B, b3.begin, b3.end)
           s == Segment(C, x.begin, x.end)
<1>1. /\ p < o /\ IsPhrase(b1, B, w, "T", p + 1, o)
      /\ v = o + 1 /\ w[v] = b2.li
      /\ v < q /\ IsPhrase(b3, B, w, "E", v + 1, q)
  BY DEF Means, Nonterminals
<1>2. s = Both("Or", l, r)
  BY SegmentBoth
<1>3. ASSUME NEW z \in Seq(Lexeme), Begins(w, z)
      PROVE  s \in Derivations(z)[<<"T", p + 1, q>>]
  <2>1. /\ Len(z) \in Nat /\ p + 1 \in 1 .. Len(z) /\ q \in 1 .. Len(z) /\ p + 1 <= q
        /\ v \in (p + 1) + 1 .. q - 1 /\ v - 1 = o /\ z[v] = b2.li
    BY <1>1, <1>3, BeginsPositions
  <2>2. l \in Derivations(z)[<<"T", p + 1, v - 1>>] /\ r \in Derivations(z)[<<"E", v + 1, q>>]
    BY <1>1, <1>3, <2>1 DEF IsPhrase
  <2>3. Terminal[z[v].code] = "b"
    BY <2>1
  <2> HIDE DEF l, r, s, C
  <2>4. Both("Or", l, r) \in Derivations(z)[<<"T", p + 1, q>>]
    BY <2>1, <2>2, <2>3, RulesDerive
  <2> QED
    BY <1>2, <2>4
<1>4. IsPhrase(x, C, w, "T", p + 1, q)
  <2> HIDE DEF C
  <2> QED
    BY <1>3 DEF IsPhrase
<1> HIDE DEF C
<1>5. Means(x, C, w, p, q)
  BY <1>1, <1>4 DEF Means, Nonterminals
<1> QED
  BY <1>5 DEF C

(* H -> ( T ) *)
LEMMA BracketMeans ==
    ASSUME NEW w \in Seq(Lexeme), NEW B, NEW b1, NEW b2, NEW b3, NEW x,
           NEW p \in 0 .. Len(w), NEW o \in 0 .. Len(w), NEW v \in 0 .. Len(w), NEW q \in 0 .. Len(w),
           Means(b1, B, w, p, o), Means(b2, B, w, o, v), Means(b3, B, w, v, q),
           Symbol[b1.st_num] = "LP", Symbol[b2.st_num] = "T", Symbol[b3.st_num] = "RP",
           Symbol[x.st_num] = "H", Terminal[b1.li.code] = "LP", Terminal[b3.li.code] = "RP",
           x.begin = b2.begin, x.end = b2.end
    PROVE  Means(x, B, w, p, q)
<1> DEFINE l == Segment(B, b2.begin, b2.end)
<1>1. /\ o = p + 1 /\ w[o] = b1.li
      /\ o < v /\ IsPhrase(b2, B, w, "T", o + 1, v)
      /\ q = v + 1 /\ w[q] = b3.li
  BY DEF Means, Nonterminals
<1>2. ASSUME NEW z \in Seq(Lexeme), Begins(w, z)
      PROVE  l \in Derivations(z)[<<"H", p + 1, q>>]
  <2>1. /\ Len(z) \in Nat /\ p + 1 \in 1 .. Len(z) /\ q \in 1 .. Len(z) /\ p + 1 <= q
        /\ (p + 1) + 1 < q /\ q - 1 = v /\ p + 1 = o /\ z[p + 1] = b1.li /\ z[q] = b3.li
    BY <1>1, <1>2, BeginsPositions
  <2>2. l \in Derivations(z)[<<"T", (p + 1) + 1, q - 1>>]
    BY <1>1, <1>2, <2>1 DEF IsPhrase
  <2>3. Terminal[z[p + 1].code] = "LP" /\ Terminal[z[q].code] = "RP"
    BY <2>1
  <2> HIDE DEF l
  <2> QED
    BY <2>1, <2>2, <2>3, RulesDerive
<1>3. IsPhrase(x, B, w, "H", p + 1, q)
  BY <1>2 DEF IsPhrase
<1> QED
  BY <1>1, <1>3 DEF Means, Nonterminals

(* S -> p T q *)
LEMMA WholeMeans ==
    ASSUME NEW w \in Seq(Lexeme), NEW B, NEW b1, NEW b2, NEW b3, NEW x,
           NEW o \in 0 .. Len(w), NEW v \in 0 .. Len(w), NEW q \in 0 .. Len(w),
           Means(b1, B, w, 0, o), Means(b2, B, w, o, v), Means(b3, B, w, v, q),
           Symbol[b1.st_num] = "p", Symbol[b2.st_num] = "T", Symbol[b3.st_num] = "q",
           Symbol[x.st_num] = "S", b3.li.code = "End_expression",
           x.begin = b2.begin, x.end = b2.end
    PROVE  Means(x, B, w, 0, q)
<1>1. /\ o = 1
      /\ o < v /\ IsPhrase(b2, B, w, "T", o + 1, v)
      /\ q = v + 1 /\ w[q] = b3.li
  BY DEF Means, Nonterminals
<1>2. o + 1 = 2 /\ v = q - 1 /\ 3 <= q
  BY <1>1
<1>3. IsPhrase(x, B, w, "T", 2, q - 1)
  BY <1>1, <1>2 DEF IsPhrase
<1> QED
  BY <1>1, <1>2, <1>3 DEF Means, Nonterminals

-----------------------------------------------------------------------------
(* The items of the stack s stand for the lexemes of w in turn; pos has     *)
(* where each ends.                                                         *)
Stands(s, B, w, pos) ==
    /\ pos \in [1 .. Len(s) -> 0 .. Len(w)]
    /\ pos[1] = 0 /\ pos[Len(s)] = Len(w)
    /\ \A k \in 2 .. Len(s) : Means(s[k], B, w, pos[k - 1], pos[k])

(* As long as nothing was said or lost, the stack stands for what was read, *)
(* and the buffer has its commands.                                         *)
PhraseInv ==
    /\ OperandsInv
    /\ returned => current_state = 1
    /\ ~complained /\ ~Full => \E pos : Stands(parser_stack, buf_, path, pos)

(* A lexeme is shifted. *)
LEMMA ShiftStands ==
    ASSUME NEW S, NEW s \in Seq(S), Len(s) >= 1, NEW x \in S, NEW B, NEW w \in Seq(Lexeme),
           NEW l \in Lexeme, NEW pos, Stands(s, B, w, pos),
           Symbol[x.st_num] \notin Nonterminals, x.li = l
    PROVE  \E pos2 : Stands(Append(s, x), B, Append(w, l), pos2)
<1> DEFINE n == Len(s)
           a == Append(s, x)
           v == Append(w, l)
           e == Len(w)
           pos2 == [k \in 1 .. n + 1 |-> IF k = n + 1 THEN e + 1 ELSE pos[k]]
<1>1. /\ n \in Nat /\ n >= 1 /\ Len(a) = n + 1 /\ a[n + 1] = x /\ \A k \in 1 .. n : a[k] = s[k]
      /\ e \in Nat /\ Len(v) = e + 1 /\ v[e + 1] = l
  OBVIOUS
<1>2. /\ pos \in [1 .. n -> 0 .. e] /\ pos[1] = 0 /\ pos[n] = e
      /\ \A k \in 2 .. n : Means(s[k], B, w, pos[k - 1], pos[k])
  BY DEF Stands
<1>3. ASSUME NEW k \in 2 .. n
      PROVE  Means(s[k], B, v, pos[k - 1], pos[k])
  <2>1. k - 1 \in 1 .. n /\ k \in 1 .. n
    OBVIOUS
  <2>2. pos[k - 1] \in 0 .. Len(w) /\ pos[k] \in 0 .. Len(w)
    BY <1>2, <2>1
  <2> QED
    BY <1>2, <2>2, MeansExtended
<1> HIDE DEF n, a, v, e
<1>4. Means(x, B, v, e, e + 1)
  BY <1>1 DEF Means, Nonterminals
<1>5. pos2 \in [1 .. n + 1 -> 0 .. e + 1] /\ pos2[1] = 0 /\ pos2[n + 1] = e + 1
  BY <1>1, <1>2
<1>6. ASSUME NEW k \in 2 .. n + 1
      PROVE  Means(a[k], B, v, pos2[k - 1], pos2[k])
  <2>1. CASE k = n + 1
    <3>1. pos2[k - 1] = e /\ pos2[k] = e + 1 /\ a[k] = x
      BY <1>1, <1>2, <2>1
    <3> HIDE DEF pos2
    <3> QED
      BY <1>4, <3>1
  <2>2. CASE k # n + 1
    <3>1. k \in 2 .. n /\ pos2[k - 1] = pos[k - 1] /\ pos2[k] = pos[k] /\ a[k] = s[k]
      BY <1>1, <1>2, <2>2
    <3> HIDE DEF pos2
    <3> QED
      BY <1>3, <3>1
  <2> QED
    BY <2>1, <2>2
<1> HIDE DEF pos2
<1>7. Stands(a, B, v, pos2)
  BY <1>1, <1>5, <1>6 DEF Stands
<1> QED
  BY <1>7 DEF a, v

(* The table of gotos leads to a state that is entered with the symbol.     *)
LEMMA NextStateSymbol ==
    ASSUME NEW s, NEW nt \in Nonterminals
    PROVE  Symbol[next_state(s, nt)] = nt
<1>1. CASE nt = "S"
  BY <1>1, SymbolTable DEF next_state
<1>2. CASE nt = "T"
  BY <1>2, SymbolTable DEF next_state
<1>3. CASE nt = "E"
  BY <1>3, SymbolTable DEF next_state
<1>4. CASE nt = "F"
  BY <1>4, SymbolTable DEF next_state
<1>5. CASE nt = "G"
  BY <1>5, SymbolTable DEF next_state
<1>6. CASE nt = "H"
  BY <1>6, SymbolTable DEF next_state
<1> QED
  BY <1>1, <1>2, <1>3, <1>4, <1>5, <1>6 DEF Nonterminals

(* What is known of the symbol i of the right-hand side of r, the first of  *)
(* which is in the place m of the stack                                     *)
HandleItem(r, i, m, pos) ==
    LET b == Body(r)[i]
    IN  /\ m + i - 1 \in 2 .. Len(parser_stack) /\ b = parser_stack[m + i - 1]
        /\ Symbol[b.st_num] = Right[r][i]
        /\ Means(b, buf_, path, pos[m + i - 2], pos[m + i - 1])
        /\ pos[m + i - 2] \in 0 .. Len(path) /\ pos[m + i - 1] \in 0 .. Len(path)
        /\ Right[r][i] \notin Nonterminals => /\ Terminal[b.li.code] = Right[r][i]
                                              /\ b.li.code \in DOMAIN Terminal /\ b.li.idx \in Nat
        /\ Right[r][i] \in Nonterminals =>
              /\ m + i - 1 \in OperandsOf(parser_stack)
              /\ b.begin \in Nat /\ b.end \in Nat
              /\ 1 <= b.begin /\ b.begin <= b.end /\ b.end <= Len(buf_)

(* The right-hand side of the rule of the state on top *)
LEMMA HandleItems ==
    ASSUME OperandsInv, ~Full, current_state \in DOMAIN reduce_rules,
           NEW r, r = reduce_rules[current_state],
           NEW m, m = Len(parser_stack) - rules[r].len + 1,
           NEW x, NEW s2, ReducesTo(r, m, x, s2),
           NEW pos, Stands(parser_stack, buf_, path, pos)
    PROVE  \A i \in 1 .. rules[r].len : HandleItem(r, i, m, pos)
<1> SUFFICES ASSUME NEW i \in 1 .. rules[r].len PROVE HandleItem(r, i, m, pos)
  OBVIOUS
<1> DEFINE n == Len(parser_stack)
           z == Len(buf_)
           k == m + i - 1
           b == Body(r)[i]
           len == rules[r].len
<1>1. /\ parser_stack \in Seq(StackItem(z)) /\ z \in Nat /\ n \in Nat /\ Tiled(parser_stack, z)
      /\ path \in Seq(Lexeme) /\ StackIsPath
  BY DEF OperandsInv, StackInv, TypeOK
<1>2. /\ m \in 2 .. n /\ b = parser_stack[k] /\ len \in {1, 2, 3}
      /\ k \in OperandsOf(parser_stack) <=> Right[r][i] \in Nonterminals
  BY RuleOperands DEF ReducesTo
<1>3. Symbol[b.st_num] = Right[r][i]
  <2>1. HandleOnTop
    BY HandlesOnTop DEF OperandsInv, StackInv
  <2> QED
    BY <2>1 DEF HandleOnTop
<1>4. k \in 2 .. n /\ m + i - 2 = k - 1 /\ k - 1 \in 1 .. n /\ k \in 1 .. n
  <2>1. m = n - len + 1 /\ i \in 1 .. len /\ k = m + i - 1
    OBVIOUS
  <2>2. n \in Nat /\ len \in {1, 2, 3} /\ m \in 2 .. n
    BY <1>1, <1>2
  <2> HIDE DEF n, len, k, b, z
  <2> QED
    BY <2>1, <2>2
<1>5. Means(b, buf_, path, pos[k - 1], pos[k]) /\ pos[k - 1] \in 0 .. Len(path) /\ pos[k] \in 0 .. Len(path)
  <2> HIDE DEF k
  <2> QED
    BY <1>2, <1>4 DEF Stands
<1>6. b \in StackItem(z)
  BY <1>1, <1>2, <1>4
<1>7. Right[r][i] \notin Nonterminals =>
         Terminal[b.li.code] = Right[r][i] /\ b.li.code \in DOMAIN Terminal /\ b.li.idx \in Nat
  <2>1. Symbol[b.st_num] \in Nonterminals \/ Symbol[b.st_num] = Terminal[b.li.code]
    BY <1>1, <1>2, <1>4 DEF StackIsPath
  <2>2. b.li \in Lexeme \cup {EndOfText} \cup {Inserted(c) : c \in {"Begin_expression", "Character", "Or"}}
    BY <1>6 DEF StackItem
  <2>3. b.li.code \in DOMAIN Terminal /\ b.li.idx \in Nat
    BY <2>2, TerminalAssumption, LexemeAssumption DEF Terminal, EndOfText, Inserted
  <2> QED
    BY <1>3, <2>1, <2>3
<1>8. Right[r][i] \in Nonterminals =>
         /\ b.begin \in Nat /\ b.end \in Nat
         /\ 1 <= b.begin /\ b.begin <= b.end /\ b.end <= z
  <2> SUFFICES ASSUME k \in OperandsOf(parser_stack)
               PROVE  /\ b.begin \in Nat /\ b.end \in Nat
                      /\ 1 <= b.begin /\ b.begin <= b.end /\ b.end <= z
    BY <1>2
  <2> HIDE DEF k, b, z
  <2> QED
    BY <1>1, <1>2, TiledOperands
<1> HIDE DEF k
<1>9. HandleItem(r, i, m, pos)
  <2>1. m + i - 1 = k /\ m + i - 2 = k - 1
    BY <1>4 DEF k
  <2> QED
    BY <1>2, <1>3, <1>4, <1>5, <1>7, <1>8, <2>1 DEF HandleItem
<1> QED
  BY <1>9

(* The commands of the second operand follow those of the first, and those  *)
(* of the last one are the last.                                            *)
LEMMA OperandsAdjacent ==
    ASSUME NEW z \in Nat, NEW s \in Seq(StackItem(z)), Tiled(s, z),
           NEW f \in OperandsOf(s), NEW l \in OperandsOf(s), f < l,
           \A k \in OperandsOf(s) : k <= f \/ k = l
    PROVE  s[l].begin = s[f].end + 1 /\ s[f].end < s[l].end /\ s[l].end = z
<1>1. /\ \A k \in OperandsOf(s) : /\ k \in 2 .. Len(s) /\ s[k].begin \in Nat /\ s[k].end \in Nat
                                  /\ 1 <= s[k].begin /\ s[k].begin <= s[k].end /\ s[k].end <= z
      /\ \A j, k \in OperandsOf(s) : j < k => s[j].end < s[k].end
      /\ (\A k \in OperandsOf(s) : k <= l) => s[l].end = z
  BY TiledOperands
<1>2. s[f].end < s[l].begin
  BY DEF Tiled
<1>3. s[l].begin = s[f].end + 1
  <2>1. s[l].begin # 1
    BY <1>1, <1>2
  <2>2. PICK j \in OperandsOf(s) : j < l /\ s[l].begin = s[j].end + 1
    BY <2>1 DEF Tiled
  <2>3. j = f \/ j < f
    BY <1>1, <2>2
  <2>4. ~ (j < f)
    <3> SUFFICES ASSUME j < f PROVE FALSE
      OBVIOUS
    <3>1. s[j].end < s[f].end
      BY <1>1
    <3> QED
      BY <1>1, <1>2, <2>2, <3>1
  <2> QED
    BY <2>2, <2>3, <2>4
<1>4. \A k \in OperandsOf(s) : k <= l
  BY <1>1
<1> QED
  BY <1>1, <1>3, <1>4

(* What is known of an item that stands for p + 1 .. q as the symbol s *)
KnownItem(b, s, p, q) ==
    /\ Symbol[b.st_num] = s /\ Means(b, buf_, path, p, q)
    /\ p \in 0 .. Len(path) /\ q \in 0 .. Len(path)
    /\ s \notin Nonterminals => /\ Terminal[b.li.code] = s
                                /\ b.li.code \in DOMAIN Terminal /\ b.li.idx \in Nat
    /\ s \in Nonterminals => /\ b.begin \in Nat /\ b.end \in Nat
                             /\ 1 <= b.begin /\ b.begin <= b.end /\ b.end <= Len(buf_)

(* The right-hand side between the ends p and q of its text *)
KnownBody(r, p, o, v, q) ==
    LET b == Body(r)
        c == Right[r]
    IN  /\ rules[r].len = 1 => KnownItem(b[1], c[1], p, q)
        /\ rules[r].len = 2 => KnownItem(b[1], c[1], p, o) /\ KnownItem(b[2], c[2], o, q)
        /\ rules[r].len = 3 => /\ KnownItem(b[1], c[1], p, o) /\ KnownItem(b[2], c[2], o, v)
                               /\ KnownItem(b[3], c[3], v, q)

(* The items of the right-hand side, one after the other *)
LEMMA BodyIsKnown ==
    ASSUME OperandsInv, ~Full, current_state \in DOMAIN reduce_rules,
           NEW r, r = reduce_rules[current_state],
           NEW m, m = Len(parser_stack) - rules[r].len + 1,
           NEW x, NEW s2, ReducesTo(r, m, x, s2),
           NEW pos, Stands(parser_stack, buf_, path, pos)
    PROVE  KnownBody(r, pos[m - 1], pos[m], pos[m + 1], pos[Len(parser_stack)])
<1> DEFINE n == Len(parser_stack)
           len == rules[r].len
<1>1. \A i \in 1 .. len : HandleItem(r, i, m, pos)
  BY HandleItems
<1>2. m \in 2 .. n /\ n \in Nat /\ len \in {1, 2, 3} /\ m = n - len + 1
  BY RuleOperands DEF ReducesTo, OperandsInv, StackInv, TypeOK
<1> HIDE DEF n, len
<1>3. ASSUME NEW i \in 1 .. len
      PROVE  KnownItem(Body(r)[i], Right[r][i], pos[m + i - 2], pos[m + i - 1])
  <2>1. HandleItem(r, i, m, pos)
    BY <1>1
  <2> QED
    BY <2>1 DEF HandleItem, KnownItem
<1>4. CASE len = 1
  <2>1. m + 1 - 2 = m - 1 /\ m + 1 - 1 = n /\ 1 \in 1 .. len
    BY <1>2, <1>4
  <2>2. KnownItem(Body(r)[1], Right[r][1], pos[m - 1], pos[n])
    BY <1>3, <2>1
  <2> QED
    BY <1>4, <2>2 DEF KnownBody, n, len
<1>5. CASE len = 2
  <2>1. /\ m + 1 - 2 = m - 1 /\ m + 1 - 1 = m /\ m + 2 - 2 = m /\ m + 2 - 1 = n
        /\ 1 \in 1 .. len /\ 2 \in 1 .. len
    BY <1>2, <1>5
  <2>2. KnownItem(Body(r)[1], Right[r][1], pos[m - 1], pos[m])
    BY <1>3, <2>1
  <2>3. KnownItem(Body(r)[2], Right[r][2], pos[m], pos[n])
    BY <1>3, <2>1
  <2> QED
    BY <1>5, <2>2, <2>3 DEF KnownBody, n, len
<1>6. CASE len = 3
  <2>1. /\ m + 1 - 2 = m - 1 /\ m + 1 - 1 = m /\ m + 2 - 2 = m /\ m + 2 - 1 = m + 1
        /\ m + 3 - 2 = m + 1 /\ m + 3 - 1 = n /\ 1 \in 1 .. len /\ 2 \in 1 .. len /\ 3 \in 1 .. len
    BY <1>2, <1>6
  <2>2. KnownItem(Body(r)[1], Right[r][1], pos[m - 1], pos[m])
    BY <1>3, <2>1
  <2>3. KnownItem(Body(r)[2], Right[r][2], pos[m], pos[m + 1])
    BY <1>3, <2>1
  <2>4. KnownItem(Body(r)[3], Right[r][3], pos[m + 1], pos[n])
    BY <1>3, <2>1
  <2> QED
    BY <1>6, <2>2, <2>3, <2>4 DEF KnownBody, n, len
<1> QED
  BY <1>2, <1>4, <1>5, <1>6

(* Where the operands of the right-hand side are in the buffer *)
LEMMA BodyIsLast ==
    ASSUME OperandsInv, ~Full, current_state \in DOMAIN reduce_rules,
           NEW r, r = reduce_rules[current_state], r # "H_is_d",
           NEW m, m = Len(parser_stack) - rules[r].len + 1,
           NEW x, x.st_num = next_state(Last(Below(r)).st_num, rules[r].nt),
           NEW s2, s2 = Append(Below(r), x)
    PROVE  LET b == Body(r)
           IN  /\ r = "T_is_TbE" => /\ b[3].begin = b[1].end + 1 /\ b[1].end < Len(buf_)
                                    /\ b[3].end = Len(buf_)
               /\ r = "E_is_EF" => /\ b[2].begin = b[1].end + 1 /\ b[1].end < Len(buf_)
                                   /\ b[2].end = Len(buf_)
               /\ r = "F_is_Gc" => b[1].end = Len(buf_)
<1> DEFINE f == m + (FirstOperand(r) - 1)
           l == m + (LastOperand(r) - 1)
           z == Len(buf_)
           b == Body(r)
           s == parser_stack
<1>1. z \in Nat /\ s \in Seq(StackItem(z)) /\ Tiled(s, z) /\ StackInv
  BY DEF OperandsInv, StackInv, TypeOK
<1>2. ReducesOperands(r, m, f, l, x, s2)
  BY <1>1, ReducedOperands
<1> HIDE DEF f, l, z, b
<1>3. /\ f \in OperandsOf(s) /\ l \in OperandsOf(s) /\ m <= f /\ m \in Nat
      /\ \A k \in OperandsOf(s) : k < m \/ k = f \/ k = l
      /\ b[FirstOperand(r)] = s[f] /\ b[LastOperand(r)] = s[l]
      /\ f < l <=> FirstOperand(r) < LastOperand(r)
      /\ f <= l
  BY <1>2 DEF ReducesOperands, Replaces, b
<1>4. f \in Nat /\ l \in Nat /\ \A k \in OperandsOf(s) : k \in Nat
  BY <1>3 DEF OperandsOf
<1>5. ASSUME f < l
      PROVE  s[l].begin = s[f].end + 1 /\ s[f].end < s[l].end /\ s[l].end = z
  <2>1. ASSUME NEW k \in OperandsOf(s) PROVE k <= f \/ k = l
    <3>1. k \in Nat /\ f \in Nat /\ m \in Nat /\ m <= f
      BY <1>3, <1>4
    <3>2. k < m \/ k = f \/ k = l
      BY <1>3
    <3> QED
      BY <3>1, <3>2
  <2> QED
    BY <1>1, <1>3, <1>5, <2>1, OperandsAdjacent
<1>6. CASE r = "T_is_TbE"
  <2>1. FirstOperand(r) = 1 /\ LastOperand(r) = 3
    BY <1>6 DEF FirstOperand, LastOperand
  <2> QED
    BY <1>3, <1>5, <1>6, <2>1 DEF z, b
<1>7. CASE r = "E_is_EF"
  <2>1. FirstOperand(r) = 1 /\ LastOperand(r) = 2
    BY <1>7 DEF FirstOperand, LastOperand
  <2> QED
    BY <1>3, <1>5, <1>7, <2>1 DEF z, b
<1>8. CASE r = "F_is_Gc"
  <2>1. FirstOperand(r) = 1 /\ LastOperand(r) = 1
    BY <1>8 DEF FirstOperand, LastOperand
  <2>2. f = l
    BY <1>3, <1>4, <2>1
  <2>3. \A k \in OperandsOf(s) : k <= l
    BY <1>3, <1>4, <2>2
  <2>4. s[l].end = z
    BY <1>1, <1>3, <2>3, TiledOperands
  <2> QED
    BY <1>3, <1>8, <2>1, <2>4 DEF z, b
<1> QED
  BY <1>6, <1>7, <1>8

(* The rules once more, for the items that are known to be on the stack.    *)
LEMMA LeafKnown ==
    ASSUME path \in Seq(Lexeme), buf_ \in Seq(Placed), NEW b, NEW x, NEW p, NEW q,
           KnownItem(b, "d", p, q), Symbol[x.st_num] = "H",
           CommandName[b.li.code] \in {"Char", "Char_class_complement", "Char_class"},
           x.begin = Len(buf_) + 1, x.end = Len(buf_) + 1
    PROVE  Means(x, Append(buf_, Command(CommandName[b.li.code], b.li.idx, 0)), path, p, q)
<1>1. /\ Means(b, buf_, path, p, q) /\ Symbol[b.st_num] = "d" /\ Terminal[b.li.code] = "d"
      /\ b.li.idx \in Nat /\ p \in 0 .. Len(path) /\ q \in 0 .. Len(path)
  BY DEF KnownItem, Nonterminals
<1> QED
  BY <1>1, LeafMeans

(* F -> G c *)
LEMMA ApplyKnown ==
    ASSUME path \in Seq(Lexeme), buf_ \in Seq(Placed), NEW b1, NEW b2, NEW x,
           NEW p, NEW o, NEW q, KnownItem(b1, "G", p, o), KnownItem(b2, "c", o, q),
           Symbol[x.st_num] = "F", b1.end = Len(buf_),
           x.begin = b1.begin, x.end = Len(buf_) + 1
    PROVE  Means(x, Append(buf_, Command(CommandName[b2.li.code], b1.end, 0)), path, p, q)
<1>1. /\ Means(b1, buf_, path, p, o) /\ Means(b2, buf_, path, o, q)
      /\ p \in 0 .. Len(path) /\ o \in 0 .. Len(path) /\ q \in 0 .. Len(path)
      /\ Symbol[b1.st_num] = "G" /\ Symbol[b2.st_num] = "c" /\ Terminal[b2.li.code] = "c"
      /\ b2.li.code \in DOMAIN Terminal
      /\ b1.begin \in Nat /\ 1 <= b1.begin /\ b1.begin <= b1.end
  BY DEF KnownItem, Nonterminals
<1>2. b2.li.code \in {"Kleene_closure", "Positive_closure", "Optional_member"}
  BY <1>1 DEF Terminal
<1> QED
  BY <1>1, <1>2, ApplyMeans

(* E -> E F *)
LEMMA ConcatKnown ==
    ASSUME path \in Seq(Lexeme), buf_ \in Seq(Placed), NEW b1, NEW b2, NEW x,
           NEW p, NEW o, NEW q, KnownItem(b1, "E", p, o), KnownItem(b2, "F", o, q),
           Symbol[x.st_num] = "E",
           b2.begin = b1.end + 1, b1.end < Len(buf_), b2.end = Len(buf_),
           x.begin = b1.begin, x.end = Len(buf_) + 1
    PROVE  Means(x, Append(buf_, Command("Concat", b1.end, b2.end)), path, p, q)
<1>1. /\ Means(b1, buf_, path, p, o) /\ Means(b2, buf_, path, o, q)
      /\ p \in 0 .. Len(path) /\ o \in 0 .. Len(path) /\ q \in 0 .. Len(path)
      /\ Symbol[b1.st_num] = "E" /\ Symbol[b2.st_num] = "F"
      /\ b1.begin \in Nat /\ b1.end \in Nat /\ 1 <= b1.begin /\ b1.begin <= b1.end
  BY DEF KnownItem, Nonterminals
<1> QED
  BY <1>1, ConcatMeans

(* T -> T b E *)
LEMMA OrKnown ==
    ASSUME path \in Seq(Lexeme), buf_ \in Seq(Placed), NEW b1, NEW b2, NEW b3, NEW x,
           NEW p, NEW o, NEW v, NEW q,
           KnownItem(b1, "T", p, o), KnownItem(b2, "b", o, v), KnownItem(b3, "E", v, q),
           Symbol[x.st_num] = "T",
           b3.begin = b1.end + 1, b1.end < Len(buf_), b3.end = Len(buf_),
           x.begin = b1.begin, x.end = Len(buf_) + 1
    PROVE  Means(x, Append(buf_, Command("Or", b1.end, b3.end)), path, p, q)
<1>1. /\ Means(b1, buf_, path, p, o) /\ Means(b2, buf_, path, o, v) /\ Means(b3, buf_, path, v, q)
      /\ p \in 0 .. Len(path) /\ o \in 0 .. Len(path) /\ v \in 0 .. Len(path) /\ q \in 0 .. Len(path)
      /\ Symbol[b1.st_num] = "T" /\ Symbol[b2.st_num] = "b" /\ Symbol[b3.st_num] = "E"
      /\ Terminal[b2.li.code] = "b"
      /\ b1.begin \in Nat /\ b1.end \in Nat /\ 1 <= b1.begin /\ b1.begin <= b1.end
  BY DEF KnownItem, Nonterminals
<1> QED
  BY <1>1, OrMeans

(* H -> ( T ) *)
LEMMA BracketKnown ==
    ASSUME path \in Seq(Lexeme), NEW b1, NEW b2, NEW b3, NEW x, NEW p, NEW o, NEW v, NEW q,
           KnownItem(b1, "LP", p, o), KnownItem(b2, "T", o, v), KnownItem(b3, "RP", v, q),
           Symbol[x.st_num] = "H", x.begin = b2.begin, x.end = b2.end
    PROVE  Means(x, buf_, path, p, q)
<1>1. /\ Means(b1, buf_, path, p, o) /\ Means(b2, buf_, path, o, v) /\ Means(b3, buf_, path, v, q)
      /\ p \in 0 .. Len(path) /\ o \in 0 .. Len(path) /\ v \in 0 .. Len(path) /\ q \in 0 .. Len(path)
      /\ Symbol[b1.st_num] = "LP" /\ Symbol[b2.st_num] = "T" /\ Symbol[b3.st_num] = "RP"
      /\ Terminal[b1.li.code] = "LP" /\ Terminal[b3.li.code] = "RP"
  BY DEF KnownItem, Nonterminals
<1> QED
  BY <1>1, BracketMeans

(* S -> p T q *)
LEMMA WholeKnown ==
    ASSUME path \in Seq(Lexeme), NEW b1, NEW b2, NEW b3, NEW x, NEW p, NEW o, NEW v, NEW q,
           KnownItem(b1, "p", p, o), KnownItem(b2, "T", o, v), KnownItem(b3, "q", v, q),
           Symbol[x.st_num] = "S", x.begin = b2.begin, x.end = b2.end, p = 0
    PROVE  Means(x, buf_, path, p, q)
<1>1. /\ Means(b1, buf_, path, 0, o) /\ Means(b2, buf_, path, o, v) /\ Means(b3, buf_, path, v, q)
      /\ o \in 0 .. Len(path) /\ v \in 0 .. Len(path) /\ q \in 0 .. Len(path)
      /\ Symbol[b1.st_num] = "p" /\ Symbol[b2.st_num] = "T" /\ Symbol[b3.st_num] = "q"
      /\ Terminal[b3.li.code] = "q" /\ b3.li.code \in DOMAIN Terminal
  BY DEF KnownItem, Nonterminals
<1>2. b3.li.code = "End_expression"
  BY <1>1 DEF Terminal
<1>3. Means(x, buf_, path, 0, q)
  BY <1>1, <1>2, WholeMeans
<1> QED
  BY <1>3

(* The buffer of the parser holds commands in their places. *)
LEMMA BufferPlaced == TypeOK => buf_ \in Seq(Placed)
<1> SUFFICES ASSUME TypeOK PROVE buf_ \in Seq(Placed)
  OBVIOUS
<1>1. \A c \in BufferItem : c \in Placed
  BY DEF BufferItem, Placed, Kinds, Range, CommandName
<1>2. buf_ \in Seq(BufferItem)
  BY DEF TypeOK
<1> QED
  BY <1>1, <1>2

(* A reduction makes of the commands of the right-hand side those of the    *)
(* left-hand side.                                                          *)
LEMMA ReducedMeans ==
    ASSUME OperandsInv, ~Full, current_state \in DOMAIN reduce_rules,
           NEW r, r = reduce_rules[current_state], ActionErrors(r) = 0,
           NEW m, m = Len(parser_stack) - rules[r].len + 1,
           NEW g, g = Generated(r),
           NEW x, x.st_num = next_state(Last(Below(r)).st_num, rules[r].nt),
           x.begin = attrib_calc(r, Len(g))[1], x.end = attrib_calc(r, Len(g))[2],
           NEW s2, s2 = Append(Below(r), x),
           NEW pos, Stands(parser_stack, buf_, path, pos)
    PROVE  Means(x, g, path, pos[m - 1], pos[Len(parser_stack)])
<1> DEFINE n == Len(parser_stack)
           z == Len(buf_)
           b == Body(r)
           p == pos[m - 1]
           o == pos[m]
           v == pos[m + 1]
           q == pos[n]
<1>1. /\ parser_stack \in Seq(StackItem(z)) /\ z \in Nat /\ n \in Nat /\ TypeOK /\ StackIsPath
      /\ path \in Seq(Lexeme) /\ buf_ \in Seq(Placed) /\ StackInv /\ z < MaxCommands
  BY BufferPlaced, MaxCommandsAssumption DEF OperandsInv, StackInv, TypeOK, Full
<1>2. ReducesTo(r, m, x, s2)
  BY <1>1, Reduction
<1>3. KnownBody(r, p, o, v, q)
  BY <1>2, BodyIsKnown
<1>4. r \in DOMAIN rules /\ m \in 2 .. n
  BY <1>2 DEF ReducesTo
<1>5. Symbol[x.st_num] = rules[r].nt
  <2>1. rules[r].nt \in Nonterminals
    BY <1>4 DEF rules, Nonterminals
  <2> QED
    BY <2>1, NextStateSymbol
<1>6. r # "H_is_d" => /\ x.begin = b[FirstOperand(r)].begin
                      /\ x.end = IF r \in Operators THEN Len(g) ELSE b[LastOperand(r)].end
  BY <1>4, RuleAttributes
<1>7. Emitted(Command("Or", b[1].end, b[3].end)) = Append(buf_, Command("Or", b[1].end, b[3].end))
  BY <1>1 DEF Emitted
<1>8. \A c : Emitted(c) = Append(buf_, c)
  BY <1>1 DEF Emitted
<1>9. \A c : Len(Append(buf_, c)) = z + 1
  <2>1. \A S : \A u \in Seq(S) : \A c : Len(Append(u, c)) = Len(u) + 1
    OBVIOUS
  <2> QED
    BY <1>1, <2>1
<1>10. /\ p \in 0 .. Len(path) /\ q \in 0 .. Len(path)
  <2>1. m - 1 \in 1 .. n /\ n \in 1 .. n
    BY <1>1, <1>4
  <2> QED
    BY <2>1 DEF Stands
<1> HIDE DEF p, o, v, q, n, z
<1>11. CASE r \in {"T_is_E", "E_is_F", "F_is_G", "G_is_H"}
  <2>1. /\ rules[r].len = 1 /\ <<Right[r][1], rules[r].nt>> \in Lifts
        /\ FirstOperand(r) = 1 /\ LastOperand(r) = 1 /\ r \notin Operators
    BY <1>11 DEF rules, Right, Lifts, FirstOperand, LastOperand, Operators
  <2>2. KnownItem(b[1], Right[r][1], p, q)
    BY <1>3, <2>1 DEF KnownBody
  <2>3. g = buf_
    BY <1>11, GeneratedOf
  <2>4. x.begin = b[1].begin /\ x.end = b[1].end
    BY <1>6, <1>11, <2>1
  <2>5. /\ Means(b[1], buf_, path, p, q) /\ p \in 0 .. Len(path) /\ q \in 0 .. Len(path)
        /\ <<Symbol[b[1].st_num], Symbol[x.st_num]>> \in Lifts
    BY <1>5, <2>1, <2>2 DEF KnownItem
  <2> HIDE DEF b
  <2>6. Means(x, buf_, path, p, q)
    BY <1>1, <2>4, <2>5, LiftMeans
  <2> QED
    BY <2>3, <2>6 DEF p, q, n
<1>12. CASE r = "H_is_d"
  <2>1. rules[r].len = 1 /\ Right[r][1] = "d" /\ rules[r].nt = "H"
    BY <1>12 DEF rules, Right
  <2>9. current_state = 8
    BY <1>12 DEF reduce_rules
  <2>2. KnownItem(b[1], "d", p, q)
    BY <1>3, <2>1 DEF KnownBody
  <2> DEFINE c == Command(CommandName[b[1].li.code], b[1].li.idx, 0)
  <2>3. g = Append(buf_, c) /\ Len(g) = z + 1
    BY <1>8, <1>9, <1>12, GeneratedOf
  <2>4. x.begin = z + 1 /\ x.end = z + 1
    BY <1>12, <2>3 DEF attrib_calc
  <2>5. b[1] = parser_stack[n] /\ n >= 2
    <3>1. 1 \in 1 .. rules[r].len /\ m + 1 - 1 = m /\ m = n
      BY <1>1, <1>4, <2>1 DEF n
    <3>2. Body(r)[1] = parser_stack[m + 1 - 1]
      BY <1>2, <3>1 DEF ReducesTo
    <3> QED
      BY <1>4, <3>1, <3>2
  <2>6. CommandName[b[1].li.code] \in {"Char", "Char_class_complement", "Char_class"}
    BY <1>1, <2>9, <2>5, LexemeOnTop DEF n
  <2>7. Symbol[x.st_num] = "H"
    BY <1>5, <2>1
  <2> HIDE DEF b
  <2>8. Means(x, Append(buf_, c), path, p, q)
    BY <1>1, <2>2, <2>4, <2>6, <2>7, LeafKnown DEF z
  <2> QED
    BY <2>3, <2>8 DEF p, q, n
<1>13. CASE r = "F_is_Gc"
  <2>1. /\ rules[r].len = 2 /\ Right[r][1] = "G" /\ Right[r][2] = "c" /\ rules[r].nt = "F"
        /\ FirstOperand(r) = 1 /\ r \in Operators
    BY <1>13 DEF rules, Right, FirstOperand, Operators
  <2>2. KnownItem(b[1], "G", p, o) /\ KnownItem(b[2], "c", o, q)
    BY <1>3, <2>1 DEF KnownBody
  <2> DEFINE c == Command(CommandName[b[2].li.code], b[1].end, 0)
  <2>3. g = Append(buf_, c) /\ Len(g) = z + 1
    BY <1>8, <1>9, <1>13, GeneratedOf
  <2>4. x.begin = b[1].begin /\ x.end = z + 1
    BY <1>6, <1>13, <2>1, <2>3
  <2>5. b[1].end = z
    BY <1>13, BodyIsLast DEF z
  <2>6. Symbol[x.st_num] = "F"
    BY <1>5, <2>1
  <2> HIDE DEF b
  <2>8. Means(x, Append(buf_, c), path, p, q)
    BY <1>1, <2>2, <2>4, <2>5, <2>6, ApplyKnown DEF z
  <2> QED
    BY <2>3, <2>8 DEF p, q, n
<1>14. CASE r = "G_is_Ha"
  <2>1. /\ rules[r].len = 2 /\ Right[r][1] = "H" /\ Right[r][2] = "a" /\ rules[r].nt = "G"
        /\ FirstOperand(r) = 1 /\ LastOperand(r) = 1 /\ r \notin Operators
    BY <1>14 DEF rules, Right, FirstOperand, LastOperand, Operators
  <2>2. KnownItem(b[1], "H", p, o) /\ KnownItem(b[2], "a", o, q)
    BY <1>3, <2>1 DEF KnownBody
  <2>3. b[2].li.idx \in Actions
    BY <1>14 DEF ActionErrors
  <2>4. g = Marked(b[1], b[2].li.idx)
    BY <1>14, <2>3, GeneratedOf
  <2>5. x.begin = b[1].begin /\ x.end = b[1].end
    BY <1>6, <1>14, <2>1
  <2>6. /\ Means(b[1], buf_, path, p, o) /\ Means(b[2], buf_, path, o, q) /\ o \in 0 .. Len(path)
        /\ Symbol[b[1].st_num] = "H" /\ Symbol[b[2].st_num] = "a" /\ Terminal[b[2].li.code] = "a"
        /\ b[1].begin \in Nat /\ b[1].end \in Nat /\ 1 <= b[1].begin /\ b[1].begin <= b[1].end
        /\ b[1].end <= z
    BY <2>2 DEF KnownItem, Nonterminals, z
  <2>7. Acted(buf_, g, b[1].begin, b[1].end, b[2].li.idx)
    <3>1. \A k \in b[1].begin .. b[1].end : k \in DOMAIN buf_
      BY <1>1, <2>6 DEF z
    <3> QED
      BY <2>4, <3>1 DEF Acted, Marked
  <2> HIDE DEF b
  <2>8. Means(x, g, path, p, q)
    BY <1>1, <1>5, <1>10, <2>1, <2>3, <2>5, <2>6, <2>7, ActMeans DEF z
  <2> QED
    BY <2>8 DEF p, q, n
<1>15. CASE r = "E_is_EF"
  <2>1. /\ rules[r].len = 2 /\ Right[r][1] = "E" /\ Right[r][2] = "F" /\ rules[r].nt = "E"
        /\ FirstOperand(r) = 1 /\ r \in Operators
    BY <1>15 DEF rules, Right, FirstOperand, Operators
  <2>2. KnownItem(b[1], "E", p, o) /\ KnownItem(b[2], "F", o, q)
    BY <1>3, <2>1 DEF KnownBody
  <2> DEFINE c == Command("Concat", b[1].end, b[2].end)
  <2>3. g = Append(buf_, c) /\ Len(g) = z + 1
    BY <1>8, <1>9, <1>15, GeneratedOf
  <2>4. x.begin = b[1].begin /\ x.end = z + 1
    BY <1>6, <1>15, <2>1, <2>3
  <2>5. b[2].begin = b[1].end + 1 /\ b[1].end < z /\ b[2].end = z
    BY <1>15, BodyIsLast DEF z
  <2>6. Symbol[x.st_num] = "E"
    BY <1>5, <2>1
  <2> HIDE DEF b
  <2>8. Means(x, Append(buf_, c), path, p, q)
    BY <1>1, <2>2, <2>4, <2>5, <2>6, ConcatKnown DEF z
  <2> QED
    BY <2>3, <2>8 DEF p, q, n
<1>16. CASE r = "T_is_TbE"
  <2>1. /\ rules[r].len = 3 /\ Right[r][1] = "T" /\ Right[r][2] = "b" /\ Right[r][3] = "E"
        /\ rules[r].nt = "T" /\ FirstOperand(r) = 1 /\ r \in Operators
    BY <1>16 DEF rules, Right, FirstOperand, Operators
  <2>2. KnownItem(b[1], "T", p, o) /\ KnownItem(b[2], "b", o, v) /\ KnownItem(b[3], "E", v, q)
    BY <1>3, <2>1 DEF KnownBody
  <2> DEFINE c == Command("Or", b[1].end, b[3].end)
  <2>3. g = Append(buf_, c) /\ Len(g) = z + 1
    BY <1>8, <1>9, <1>16, GeneratedOf
  <2>4. x.begin = b[1].begin /\ x.end = z + 1
    BY <1>6, <1>16, <2>1, <2>3
  <2>5. b[3].begin = b[1].end + 1 /\ b[1].end < z /\ b[3].end = z
    BY <1>16, BodyIsLast DEF z
  <2>6. Symbol[x.st_num] = "T"
    BY <1>5, <2>1
  <2> HIDE DEF b
  <2>8. Means(x, Append(buf_, c), path, p, q)
    BY <1>1, <2>2, <2>4, <2>5, <2>6, OrKnown DEF z
  <2> QED
    BY <2>3, <2>8 DEF p, q, n
<1>17. CASE r = "H_is_LP_T_RP"
  <2>1. /\ rules[r].len = 3 /\ Right[r][1] = "LP" /\ Right[r][2] = "T" /\ Right[r][3] = "RP"
        /\ rules[r].nt = "H" /\ FirstOperand(r) = 2 /\ LastOperand(r) = 2 /\ r \notin Operators
    BY <1>17 DEF rules, Right, FirstOperand, LastOperand, Operators
  <2>2. KnownItem(b[1], "LP", p, o) /\ KnownItem(b[2], "T", o, v) /\ KnownItem(b[3], "RP", v, q)
    BY <1>3, <2>1 DEF KnownBody
  <2>3. g = buf_
    BY <1>17, GeneratedOf
  <2>4. x.begin = b[2].begin /\ x.end = b[2].end
    BY <1>6, <1>17, <2>1
  <2>6. Symbol[x.st_num] = "H"
    BY <1>5, <2>1
  <2> HIDE DEF b
  <2>8. Means(x, buf_, path, p, q)
    BY <1>1, <2>2, <2>4, <2>6, BracketKnown DEF z
  <2> QED
    BY <2>3, <2>8 DEF p, q, n
<1>18. CASE r = "S_is_pTq"
  <2>1. /\ rules[r].len = 3 /\ Right[r][1] = "p" /\ Right[r][2] = "T" /\ Right[r][3] = "q"
        /\ rules[r].nt = "S" /\ FirstOperand(r) = 2 /\ LastOperand(r) = 2 /\ r \notin Operators
    BY <1>18 DEF rules, Right, FirstOperand, LastOperand, Operators
  <2>2. KnownItem(b[1], "p", p, o) /\ KnownItem(b[2], "T", o, v) /\ KnownItem(b[3], "q", v, q)
    BY <1>3, <2>1 DEF KnownBody
  <2>3. g = buf_
    BY <1>18, GeneratedOf
  <2>4. x.begin = b[2].begin /\ x.end = b[2].end
    BY <1>6, <1>18, <2>1
  <2>5. p = 0
    <3>1. 1 \in 1 .. rules[r].len /\ m + 1 - 1 = m /\ m \in 1 .. n /\ m - 1 \in 1 .. n
      BY <1>1, <1>4, <2>1
    <3>2. b[1] = parser_stack[m] /\ Symbol[parser_stack[m].st_num] = "p"
      <4>1. Body(r)[1] = parser_stack[m + 1 - 1]
        BY <1>2, <3>1 DEF ReducesTo
      <4> QED
        BY <2>2, <3>1, <4>1 DEF KnownItem
    <3>3. parser_stack[m].st_num \in States
      <4>1. parser_stack[m] \in StackItem(z)
        BY <1>1, <3>1 DEF n
      <4> QED
        BY <4>1 DEF StackItem
    <3>4. parser_stack[m].st_num = 2
      <4>1. parser_stack[m].st_num # 0
        BY <1>1, <1>4 DEF StackIsPath, n
      <4>2. ASSUME NEW k \in States \ {0, 2} PROVE Symbol[k] # "p"
        <5>1. k \in {1, 3, 4, 5, 6, 7, 8, 9, 10, 11, 12, 13, 14, 15, 16, 17}
          BY DEF States
        <5>2. /\ Symbol[1] # "p" /\ Symbol[3] # "p" /\ Symbol[4] # "p" /\ Symbol[5] # "p" /\ Symbol[6] # "p"
              /\ Symbol[7] # "p" /\ Symbol[8] # "p" /\ Symbol[9] # "p" /\ Symbol[10] # "p" /\ Symbol[11] # "p"
              /\ Symbol[12] # "p" /\ Symbol[13] # "p" /\ Symbol[14] # "p"
              /\ Symbol[15] # "p" /\ Symbol[16] # "p" /\ Symbol[17] # "p"
          BY SymbolTable
        <5> QED
          BY <5>1, <5>2
      <4> QED
        BY <3>2, <3>3, <4>1, <4>2
    <3>5. parser_stack[m - 1].st_num = 0
      <4>1. parser_stack[m - 1].st_num \in EnteredFrom[2]
        BY <1>1, <1>4, <3>4 DEF StackIsPath, n
      <4> QED
        BY <4>1, EnteredTable
    <3>6. m - 1 = 1
      <4>1. \A k \in 2 .. n : parser_stack[k].st_num # 0
        BY <1>1 DEF StackIsPath, n
      <4>2. m - 1 \notin 2 .. n
        BY <3>5, <4>1
      <4> QED
        BY <1>1, <1>4, <4>2
    <3> QED
      BY <3>6 DEF Stands, p
  <2>6. Symbol[x.st_num] = "S"
    BY <1>5, <2>1
  <2> HIDE DEF b
  <2>8. Means(x, buf_, path, p, q)
    BY <1>1, <2>2, <2>4, <2>5, <2>6, WholeKnown DEF z
  <2> QED
    BY <2>3, <2>8 DEF p, q, n
<1> QED
  BY <1>4, <1>11, <1>12, <1>13, <1>14, <1>15, <1>16, <1>17, <1>18 DEF rules

-----------------------------------------------------------------------------
(* Where a command is marked *)
LEMMA MarkedElsewhere ==
    ASSUME NEW group, NEW act, NEW c \in DOMAIN buf_, c \notin group.begin .. group.end
    PROVE  Marked(group, act)[c] = buf_[c]
BY DEF Marked

(* A reduction does not touch the commands of the operands below it. *)
LEMMA GeneratedKeeps ==
    ASSUME OperandsInv, ~Full, current_state \in DOMAIN reduce_rules,
           NEW r, r = reduce_rules[current_state],
           NEW m, NEW x, NEW s2, ReducesTo(r, m, x, s2),
           NEW k \in OperandsOf(parser_stack), k < m
    PROVE  /\ parser_stack[k].begin \in Nat /\ parser_stack[k].end \in Nat
           /\ \A c \in parser_stack[k].begin .. parser_stack[k].end : buf_[c] = Generated(r)[c]
<1> DEFINE z == Len(buf_)
           e == parser_stack[k]
<1>1. /\ z \in Nat /\ parser_stack \in Seq(StackItem(z)) /\ Tiled(parser_stack, z)
      /\ DOMAIN buf_ = 1 .. z /\ buf_ \in Seq(BufferItem)
  BY DEF OperandsInv, StackInv, TypeOK
<1> HIDE DEF z
<1>2. \A j \in OperandsOf(parser_stack) :
         /\ j \in 2 .. Len(parser_stack) /\ parser_stack[j].begin \in Nat /\ parser_stack[j].end \in Nat
         /\ 1 <= parser_stack[j].begin /\ parser_stack[j].begin <= parser_stack[j].end
         /\ parser_stack[j].end <= z
  BY <1>1, TiledOperands
<1>3. e.begin \in Nat /\ e.end \in Nat /\ 1 <= e.begin /\ e.begin <= e.end /\ e.end <= z
  BY <1>2
<1>4. SUFFICES ASSUME NEW c \in e.begin .. e.end PROVE buf_[c] = Generated(r)[c]
  BY <1>3
<1>5. c \in 1 .. z
  <2> HIDE DEF e
  <2> QED
    BY <1>1, <1>3
<1>6. \A d : Emitted(d)[c] = buf_[c]
  <2> SUFFICES ASSUME NEW d PROVE Emitted(d)[c] = buf_[c]
    OBVIOUS
  <2>1. Append(buf_, d)[c] = buf_[c]
    <3>1. buf_ \in Seq(BufferItem \cup {d})
      BY <1>1
    <3> QED
      BY <1>5, <3>1 DEF z
  <2> QED
    BY <2>1 DEF Emitted
<1>7. CASE r \in {"T_is_TbE", "E_is_EF", "F_is_Gc", "H_is_d"}
  BY <1>6, <1>7, GeneratedOf
<1>8. CASE r = "G_is_Ha" /\ Body(r)[2].li.idx \in Actions
  <2> DEFINE b == Body(r)[1]
  <2>1. b = parser_stack[m] /\ m \in OperandsOf(parser_stack)
    <3>1. 1 \in 1 .. rules[r].len /\ Right[r][1] \in Nonterminals
      BY <1>8 DEF rules, Right, Nonterminals
    <3>2. m + 1 - 1 = m
      BY DEF ReducesTo
    <3> QED
      BY <3>1, <3>2 DEF ReducesTo
  <2>2. e.end < b.begin
    <3>1. e.end < parser_stack[m].begin
      BY <1>1, <2>1 DEF Tiled
    <3> QED
      BY <2>1, <3>1
  <2>3. b.begin \in Nat /\ b.end \in Nat
    BY <1>2, <2>1
  <2>4. Generated(r) = Marked(b, Body(r)[2].li.idx)
    BY <1>8, GeneratedOf
  <2> HIDE DEF b, e
  <2>5. c \notin b.begin .. b.end
    BY <1>3, <2>2, <2>3
  <2> QED
    BY <1>1, <1>5, <2>4, <2>5, MarkedElsewhere
<1>9. CASE r \notin {"T_is_TbE", "E_is_EF", "F_is_Gc", "H_is_d"} /\ ~(r = "G_is_Ha" /\ Body(r)[2].li.idx \in Actions)
  BY <1>9, GeneratedOf
<1> QED
  BY <1>7, <1>8, <1>9

(* After a reduction the stack stands for what was read before. *)
LEMMA ReduceStands ==
    ASSUME OperandsInv, ~Full, current_state \in DOMAIN reduce_rules,
           NEW r, r = reduce_rules[current_state], ActionErrors(r) = 0,
           NEW m, m = Len(parser_stack) - rules[r].len + 1,
           NEW x, x.st_num = next_state(Last(Below(r)).st_num, rules[r].nt),
           x.begin = attrib_calc(r, Len(Generated(r)))[1],
           x.end = attrib_calc(r, Len(Generated(r)))[2],
           NEW s2, s2 = Append(Below(r), x),
           NEW pos, Stands(parser_stack, buf_, path, pos)
    PROVE  \E pos2 : Stands(s2, Generated(r), path, pos2)
<1> DEFINE g == Generated(r)
           n == Len(parser_stack)
           w == Len(path)
           pos2 == [k \in 1 .. m |-> IF k = m THEN w ELSE pos[k]]
<1>1. ReducesTo(r, m, x, s2)
  BY Reduction DEF OperandsInv
<1>2. Means(x, g, path, pos[m - 1], pos[n])
  BY ReducedMeans
<1>3. /\ m \in 2 .. n /\ Len(s2) = m /\ s2[m] = x /\ \A k \in 1 .. m - 1 : s2[k] = parser_stack[k]
      /\ n \in Nat /\ w \in Nat
  BY <1>1 DEF ReducesTo, OperandsInv, StackInv, TypeOK
<1>4. /\ pos \in [1 .. n -> 0 .. w] /\ pos[1] = 0 /\ pos[n] = w
      /\ \A k \in 2 .. n : Means(parser_stack[k], buf_, path, pos[k - 1], pos[k])
  BY DEF Stands
<1> HIDE DEF g, n, w
<1>5. ASSUME NEW k \in 2 .. m - 1
      PROVE  Means(s2[k], g, path, pos[k - 1], pos[k])
  <2>1. k \in 2 .. n /\ s2[k] = parser_stack[k] /\ k < m
    BY <1>3
  <2>2. Means(parser_stack[k], buf_, path, pos[k - 1], pos[k])
    BY <1>4, <2>1
  <2>3. Symbol[parser_stack[k].st_num] \in Nonterminals =>
           /\ parser_stack[k].begin \in Nat /\ parser_stack[k].end \in Nat
           /\ \A c \in parser_stack[k].begin .. parser_stack[k].end : buf_[c] = g[c]
    <3> SUFFICES ASSUME Symbol[parser_stack[k].st_num] \in Nonterminals
                 PROVE  /\ parser_stack[k].begin \in Nat /\ parser_stack[k].end \in Nat
                        /\ \A c \in parser_stack[k].begin .. parser_stack[k].end : buf_[c] = g[c]
      OBVIOUS
    <3>1. k \in OperandsOf(parser_stack)
      BY <2>1 DEF OperandsOf, n
    <3> QED
      BY <1>1, <2>1, <3>1, GeneratedKeeps DEF g
  <2>4. Means(parser_stack[k], g, path, pos[k - 1], pos[k])
    BY <2>2, <2>3, MeansKept
  <2> QED
    BY <2>1, <2>4
<1>6. pos2 \in [1 .. m -> 0 .. w] /\ pos2[1] = 0 /\ pos2[m] = w /\ \A k \in 1 .. m - 1 : pos2[k] = pos[k]
  <2>1. \A k \in 1 .. m - 1 : k \in 1 .. n /\ k \in 1 .. m /\ k # m
    BY <1>3
  <2>2. m \in 1 .. m /\ 1 \in 1 .. m - 1 /\ w \in 0 .. w
    BY <1>3
  <2>3. \A k \in 1 .. m : k = m \/ k \in 1 .. m - 1
    BY <1>3
  <2>4. \A k \in 1 .. m - 1 : pos2[k] = pos[k]
    BY <2>1
  <2>5. pos2[m] = w
    BY <2>2
  <2>6. pos2[1] = 0
    BY <1>4, <2>2, <2>4
  <2>7. \A k \in 1 .. m : (IF k = m THEN w ELSE pos[k]) \in 0 .. w
    BY <1>4, <2>1, <2>2, <2>3
  <2>8. pos2 \in [1 .. m -> 0 .. w]
    BY <2>7
  <2> QED
    BY <2>4, <2>5, <2>6, <2>8
<1> HIDE DEF pos2
<1>7. ASSUME NEW k \in 2 .. m
      PROVE  Means(s2[k], g, path, pos2[k - 1], pos2[k])
  <2>1. k - 1 \in 1 .. m - 1 /\ pos2[k - 1] = pos[k - 1]
    BY <1>3, <1>6
  <2>2. CASE k = m
    BY <1>2, <1>3, <1>4, <1>6, <2>1, <2>2
  <2>3. CASE k # m
    <3>1. k \in 2 .. m - 1 /\ pos2[k] = pos[k]
      BY <1>3, <1>6, <2>3
    <3> QED
      BY <1>5, <2>1, <3>1
  <2> QED
    BY <2>2, <2>3
<1>8. Stands(s2, g, path, pos2)
  BY <1>3, <1>6, <1>7 DEF Stands, w
<1> QED
  BY <1>8 DEF g

(* What a step must leave *)
StandsNext == ~complained' /\ ~Full' => \E pos : Stands(parser_stack', buf_', path', pos)

(* The lexeme that is shifted is one of the text. *)
LEMMA ShiftPhrase == PhraseInv /\ Shift => StandsNext
<1> SUFFICES ASSUME PhraseInv, Shift, ~complained', ~Full'
             PROVE  \E pos : Stands(parser_stack', buf_', path', pos)
  BY DEF StandsNext
<1> DEFINE s == shift[current_state][t]
           x == [st_num |-> s, li |-> next, begin |-> 0, end |-> 0]
           S == StackItem(Len(buf_)) \cup {x}
<1>1. OperandsInv /\ StackInv /\ TypeOK /\ StackIsPath
  BY DEF PhraseInv, OperandsInv, StackInv
<1>2. current_state \in States
  <2>1. parser_stack[Len(parser_stack)] \in StackItem(Len(buf_))
    BY <1>1 DEF TypeOK, StackIsPath
  <2> QED
    BY <2>1 DEF current_state, Last, StackItem
<1>3. /\ t \in DOMAIN shift[current_state] /\ parser_stack' = Append(parser_stack, x)
      /\ buf_' = buf_ /\ path' = Append(path, next) /\ ~complained
  BY DEF Shift, Pushed, Read, Complain
<1>4. Symbol[x.st_num] \notin Nonterminals /\ x.li = next /\ t # "End_of_text"
  BY <1>2, <1>3, ShiftEnters
<1>5. next \in Lexeme
  <2>1. next # EndOfText
    BY <1>4 DEF t, Terminal, EndOfText
  <2> QED
    BY <1>1, <2>1 DEF TypeOK, SourceTypeOK
<1>6. ~Full
  BY <1>3 DEF Full
<1>7. PICK pos : Stands(parser_stack, buf_, path, pos)
  BY <1>3, <1>6 DEF PhraseInv
<1>8. parser_stack \in Seq(S) /\ Len(parser_stack) >= 1 /\ x \in S /\ path \in Seq(Lexeme)
  BY <1>1 DEF TypeOK, StackIsPath
<1> HIDE DEF x, S
<1> QED
  BY <1>3, <1>4, <1>5, <1>7, <1>8, ShiftStands

(* The right-hand side gives way to the left-hand side. *)
LEMMA ReducePhrase == PhraseInv /\ Reduce => StandsNext
<1> SUFFICES ASSUME PhraseInv, Reduce, ~complained', ~Full'
             PROVE  \E pos : Stands(parser_stack', buf_', path', pos)
  BY DEF StandsNext
<1> DEFINE r == reduce_rules[current_state]
           g == Generated(r)
           a == attrib_calc(r, Len(g))
           x == [st_num |-> next_state(Last(Below(r)).st_num, rules[r].nt),
                 li |-> EndOfText, begin |-> a[1], end |-> a[2]]
           m == Len(parser_stack) - rules[r].len + 1
<1>1. OperandsInv /\ StackInv /\ TypeOK /\ StackIsPath
  BY DEF PhraseInv, OperandsInv, StackInv
<1>2. current_state \in DOMAIN reduce_rules /\ reduce(r) /\ Back(ActionErrors(r), ActionErrors(r) > 0)
  BY DEF Reduce
<1>3. buf_' = g /\ parser_stack' = Append(Below(r), x)
  BY <1>2 DEF reduce
<1>4. ActionErrors(r) = 0 /\ path' = path /\ ~complained
  <2> DEFINE e == ActionErrors(r)
  <2>1. e \in {0, 1}
    BY DEF ActionErrors
  <2> HIDE DEF e
  <2>2. ~ (e > 0) /\ path' = path /\ ~complained
    BY <1>2, Zenon DEF Back, Complain, e
  <2>3. e = 0
    BY <2>1, <2>2
  <2> QED
    BY <2>2, <2>3 DEF e
<1>5. ~Full
  <2>1. BufferTypes(g)
    BY <1>1, <1>2, GeneratedTypes
  <2> HIDE DEF g
  <2>2. /\ Len(buf_) \in Nat /\ Len(g) \in Nat /\ MaxCommands \in Nat
        /\ Len(g) <= MaxCommands /\ Len(buf_) <= Len(g)
    BY <1>1, <2>1, MaxCommandsAssumption DEF BufferTypes, TypeOK
  <2>3. Len(g) # MaxCommands
    BY <1>3 DEF Full
  <2> QED
    BY <2>2, <2>3 DEF Full
<1>6. PICK pos : Stands(parser_stack, buf_, path, pos)
  BY <1>4, <1>5 DEF PhraseInv
<1>7. /\ x.st_num = next_state(Last(Below(r)).st_num, rules[r].nt)
      /\ x.begin = a[1] /\ x.end = a[2]
  OBVIOUS
<1> HIDE DEF x, m
<1>8. m = Len(parser_stack) - rules[r].len + 1
  BY DEF m
<1>9. \E pos2 : Stands(Append(Below(r), x), Generated(r), path, pos2)
  <2> HIDE DEF r
  <2>1. r = reduce_rules[current_state]
    BY DEF r
  <2> QED
    BY <1>1, <1>2, <1>4, <1>5, <1>6, <1>7, <1>8, <2>1, ReduceStands
<1> QED
  BY <1>3, <1>4, <1>9

(* When the stack has S on top, the text is over. *)
LEMMA AcceptPhrase == PhraseInv /\ Accept => StandsNext
BY DEF PhraseInv, Accept, Back, Complain, Full, StandsNext

(* Before the first step nothing was read. *)
LEMMA InitPhrase == Init => PhraseInv
<1> SUFFICES ASSUME Init PROVE PhraseInv
  OBVIOUS
<1> DEFINE pos == [k \in 1 .. 1 |-> 0]
<1>1. /\ OperandsInv /\ ~returned
  BY InitOperands DEF Init
<1>2. Len(parser_stack) = 1 /\ Len(path) = 0
  BY DEF Init
<1>3. pos \in [1 .. 1 -> 0 .. 0] /\ pos[1] = 0
  OBVIOUS
<1> HIDE DEF pos
<1>4. Stands(parser_stack, buf_, path, pos)
  BY <1>2, <1>3 DEF Stands
<1> QED
  BY <1>1, <1>4 DEF PhraseInv

(* Every step keeps what the stack stands for. *)
LEMMA NextPhrase == PhraseInv /\ OperandsInv' /\ [Next]_rvars => PhraseInv'
<1> SUFFICES ASSUME PhraseInv, OperandsInv', [Next]_rvars PROVE PhraseInv'
  OBVIOUS
<1>1. CASE UNCHANGED rvars \/ Finished
  <2>1. UNCHANGED rvars
    BY <1>1 DEF Finished
  <2> QED
    BY <2>1 DEF rvars, PhraseInv, Full, current_state
<1>2. CASE Iteration
  <2>1. returned' => current_state' = 1
    <3>1. returned' => Accept
      BY <1>2 DEF Iteration, Shift, Reduce, Accept, state00_error_handler, state02_error_handler,
         state03_error_handler, state04_error_handler, state06_error_handler, state07_error_handler
    <3>2. Accept => current_state' = 1
      BY DEF Accept, current_state
    <3> QED
      BY <3>1, <3>2
  <2>2. StandsNext
    <3>1. ~complained' => Shift \/ Reduce \/ Accept
      BY <1>2, QuietSteps
    <3> QED
      BY <3>1, ShiftPhrase, ReducePhrase, AcceptPhrase DEF StandsNext
  <2> QED
    BY <2>1, <2>2 DEF PhraseInv, StandsNext
<1> QED
  BY <1>1, <1>2 DEF Next

(* When compile() returns, S is the only operand, with all the commands.    *)
LEMMA WholeOnTop ==
    ASSUME OperandsInv, ~Full, current_state = 1
    PROVE  /\ Len(parser_stack) = 2 /\ parser_stack[2].st_num = 1
           /\ parser_stack[2].begin = 1 /\ parser_stack[2].end = Len(buf_)
<1> DEFINE n == Len(parser_stack)
           s == parser_stack
           z == Len(buf_)
<1>1. /\ s \in Seq(StackItem(z)) /\ n \in Nat /\ n >= 1 /\ z \in Nat /\ Tiled(s, z) /\ StackIsPath
      /\ s[n].st_num = 1
  BY DEF OperandsInv, StackInv, TypeOK, StackIsPath, current_state, Last
<1> HIDE DEF z
<1>2. n = 2
  <2>1. n >= 2
    <3>1. n # 1
      BY <1>1 DEF StackIsPath
    <3> QED
      BY <1>1, <3>1
  <2>2. s[n - 1].st_num = 0
    <3>1. s[n - 1].st_num \in EnteredFrom[1]
      BY <1>1, <2>1 DEF StackIsPath
    <3> QED
      BY <3>1, EnteredTable
  <2>3. n - 1 \notin 2 .. n
    BY <2>2, <1>1 DEF StackIsPath
  <2> HIDE DEF n
  <2> QED
    BY <1>1, <2>1, <2>3
<1>3. OperandsOf(s) = {2}
  <2>1. Symbol[s[2].st_num] \in Nonterminals
    BY <1>1, <1>2, SymbolTable DEF Nonterminals
  <2>2. 2 .. n = {2}
    BY <1>2
  <2> QED
    BY <2>1, <2>2 DEF OperandsOf
<1>4. s[2].end = z
  BY <1>1, <1>3, TiledOperands
<1>5. s[2].begin = 1
  BY <1>1, <1>3 DEF Tiled
<1> QED
  BY <1>1, <1>2, <1>4, <1>5 DEF z

(* The invariants say of a text without messages what they promise.         *)
LEMMA PhraseIsRight == PhraseInv /\ QuietInv => QuietMeansRight
<1> SUFFICES ASSUME PhraseInv, QuietInv, returned, ~complained, ~Full
             PROVE  /\ Viable(Terminals(path)) /\ Last(path).code = "End_expression"
                    /\ Phrases(path) = {buf_}
  BY DEF QuietMeansRight
<1> DEFINE q == Len(path)
           item == parser_stack[2]
           y == <<"T", 2, q - 1>>
<1>1. Viable(Terminals(path))
  BY DEF QuietInv, Sofar
<1>2. /\ OperandsInv /\ current_state = 1 /\ path \in Seq(Lexeme) /\ q \in Nat /\ buf_ \in Seq(Placed)
  BY BufferPlaced DEF PhraseInv, OperandsInv, StackInv, TypeOK
<1>3. Len(parser_stack) = 2 /\ item.st_num = 1 /\ item.begin = 1 /\ item.end = Len(buf_)
  BY <1>2, WholeOnTop
<1>4. PICK pos : Stands(parser_stack, buf_, path, pos)
  BY DEF PhraseInv
<1>5. Means(item, buf_, path, 0, q)
  <2>1. 2 \in 2 .. Len(parser_stack) /\ 2 - 1 = 1
    BY <1>3
  <2>2. Means(parser_stack[2], buf_, path, pos[2 - 1], pos[2])
    BY <1>4, <2>1 DEF Stands
  <2>3. pos[1] = 0 /\ pos[2] = q
    BY <1>3, <1>4 DEF Stands
  <2> QED
    BY <2>1, <2>2, <2>3
<1>6. 3 <= q /\ path[q].code = "End_expression" /\ IsPhrase(item, buf_, path, "T", 2, q - 1)
  <2>1. Symbol[item.st_num] = "S"
    BY <1>3, SymbolTable
  <2> HIDE DEF item
  <2> QED
    BY <1>5, <2>1 DEF Means
<1>7. buf_ \in Derivations(path)[y]
  <2>1. Begins(path, path)
    BY <1>2 DEF Begins
  <2>2. Segment(buf_, item.begin, item.end) \in Derivations(path)[y]
    BY <1>2, <1>6, <2>1 DEF IsPhrase
  <2>3. Segment(buf_, item.begin, item.end) = buf_
    BY <1>2, <1>3, SegmentWhole
  <2> QED
    BY <2>2, <2>3
<1>8. y \in Parts(path)
  BY <1>2, <1>6 DEF Parts
<1>9. \A a \in Derivations(path)[y] : a = buf_
  <2> HIDE DEF y
  <2> QED
    BY <1>2, <1>7, <1>8, PhrasesAreUnique
<1>10. Phrases(path) = {buf_}
  BY <1>7, <1>9 DEF Phrases
<1> QED
  BY <1>1, <1>6, <1>10 DEF Last

(* In every state the stack stands for what was read before the first       *)
(* message, symbol by symbol, and the commands of each symbol are those     *)
(* that the grammar gives to its part of the text.                          *)
THEOREM PhraseInvariant == Spec => []PhraseInv
<1>1. Init => PhraseInv
  BY InitPhrase
<1>2. PhraseInv /\ OperandsInv' /\ [Next]_rvars => PhraseInv'
  BY NextPhrase
<1> QED
  BY <1>1, <1>2, OperandsInvariant, PTL DEF Spec

(* A text accepted without a message is a phrase of the grammar up to its   *)
(* closing brace, and the buffer is what the grammar makes of it and        *)
(* nothing else (the driver of include/lr_parser.h with the tables of       *)
(* src/expr_lr_tables.cpp, attrib_calc and the generators of commands).     *)
THEOREM QuietTextsAreRight == Spec => []QuietMeansRight
<1>1. PhraseInv /\ QuietInv => QuietMeansRight
  BY PhraseIsRight
<1> QED
  BY <1>1, PhraseInvariant, QuietInvariant, PTL

=============================================================================
