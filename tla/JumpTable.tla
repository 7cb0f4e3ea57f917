----------------------------- MODULE JumpTable ------------------------------
(***************************************************************************)
(* The transition table that is generated for delimiters (and would be for *)
(* keywords): Attributed_char_trie::jumps numbers the nodes of a prefix    *)
(* tree level by level, one subtree of the root after the other, and the   *)
(* generated procedure delimiter_proc runs over that table.                *)
(*                                                                         *)
(* Words are sequences of characters, characters are natural numbers; a    *)
(* node of the prefix tree is the beginning of a word that it stands for.  *)
(* The state 0 of the code is 1 here.                                      *)
(***************************************************************************)
EXTENDS Integers, Sequences, SequencesExt, FiniteSets

CONSTANTS WordLists,        \* the lists of strings a table is built for
          DelimiterTexts,   \* the texts that are read with it
          default_attr      \* the code of what only begins a string (1)

ASSUME WordsAreNotEmpty ==
    /\ \A l \in WordLists : l \in Seq(Seq(Nat) \ {<<>>})
    /\ \A t \in DelimiterTexts : t \in Seq(Nat) \ {<<>>}
ASSUME AttributeAssumption == default_attr \in Int

VARIABLES words,    \* the strings, in the order of their insertion
          layer,    \* the nodes of the level that is numbered
          roots,    \* the children of the root that are not treated yet
          jumps,    \* Jumps_and_inits::jumps
          inits,    \* Jumps_and_inits::init_table, by the character
          numbered, \* history: the node that each state stands for
          reader    \* the generated scanner within delimiter_proc

jumpVars == <<words, layer, roots, jumps, inits, numbered, reader>>

(* node_buffer, without the root: the beginnings of the words *)
Beginnings == UNION {{SubSeq(words[k], 1, n) : n \in 1 .. Len(words[k])} : k \in DOMAIN words}

(* The k-th word goes on behind the node p where no word before it did.     *)
Branches(p, k) ==
    /\ IsStrictPrefix(p, words[k])
    /\ \A j \in 1 .. k - 1 : ~IsPrefix(SubSeq(words[k], 1, Len(p) + 1), words[j])

(* The list of the children of a node, in the order of their creation *)
ChildrenOf(p) ==
    LET grown[k \in 0 .. Len(words)] ==
            IF k = 0 THEN <<>>
            ELSE IF Branches(p, k)
                 THEN Append(grown[k - 1], SubSeq(words[k], 1, Len(p) + 1))
            ELSE grown[k - 1]
    IN  grown[Len(words)]

(* The code of the k-th word is k above the codes that any scanner has. *)
code(k) == default_attr + k
attribute(p) == IF \E k \in DOMAIN words : words[k] = p
                THEN code(CHOOSE k \in DOMAIN words : words[k] = p)
                ELSE default_attr

JumpsInit ==
    /\ words \in WordLists
    /\ layer = <<>> /\ roots = ChildrenOf(<<>>)
    /\ jumps = <<>> /\ inits = <<>> /\ numbered = <<>>
    /\ reader = [text |-> <<>>, pos |-> 1, state |-> -1, code |-> 0, status |-> "idle"]

(* jumps(): the next subtree gets the next state and an entry of init_table *)
BeginSubtrie ==
    /\ layer = <<>> /\ roots # <<>>
    /\ layer' = <<Head(roots)>>
    /\ roots' = Tail(roots)
    /\ inits' = Append(inits, [state |-> Len(jumps) + 1, char |-> Last(Head(roots))])
    /\ UNCHANGED <<words, jumps, numbered, reader>>

(* mutant: every node with children adds all of them *)
correction_of_all(l, i) ==
    LET before[k \in 0 .. i - 1] ==
            IF k = 0 THEN 0 ELSE before[k - 1] + Len(ChildrenOf(l[k]))
    IN  before[i - 1]

(* What the nodes of the level before the i-th one add to its first state:  *)
(* their children less one each.  Nodes without children add nothing.       *)
correction(l, i) ==
    LET before[k \in 0 .. i - 1] ==
            IF k = 0 THEN 0
            ELSE before[k - 1] + IF ChildrenOf(l[k]) = <<>> THEN 0
                                 ELSE Len(ChildrenOf(l[k])) - 1
    IN  before[i - 1]

jump(l, i) ==
    LET children == ChildrenOf(l[i])
    IN  [chars |-> [k \in DOMAIN children |-> Last(children[k])],
         code  |-> attribute(l[i]),
         first_state |-> IF children = <<>> THEN 1
                         ELSE Len(jumps) + i + Len(l) + correction(l, i)]

(* get_next_level: the children of the nodes of a level, one after another *)
next_level(l) ==
    LET upto[k \in 0 .. Len(l)] ==
            IF k = 0 THEN <<>> ELSE upto[k - 1] \o ChildrenOf(l[k])
    IN  upto[Len(l)]

(* jumps_for_subtrie: the entries of one level; its children are the next. *)
NumberLayer ==
    /\ layer # <<>>
    /\ jumps' = jumps \o [i \in DOMAIN layer |-> jump(layer, i)]
    /\ numbered' = numbered \o layer
    /\ layer' = next_level(layer)
    /\ UNCHANGED <<words, roots, inits, reader>>

TableReady == layer = <<>> /\ roots = <<>>

(* get_init_state: the binary search in init_table, which is sorted *)
get_init_state(c) ==
    IF \E i \in DOMAIN inits : inits[i].char = c
    THEN (CHOOSE e \in {inits[i] : i \in DOMAIN inits} : e.char = c).state
    ELSE -1

(* start_proc enters delimiter_proc at a character that begins a delimiter. *)
BeginReading(t) ==
    /\ TableReady /\ reader.status = "idle"
    /\ get_init_state(t[1]) # -1
    /\ reader' = [reader EXCEPT !.text = t, !.status = "reading"]
    /\ UNCHANGED <<words, layer, roots, jumps, inits, numbered>>

Reading == reader.status = "reading"
Rest == UNCHANGED <<words, layer, roots, jumps, inits, numbered>>

(* A state behind the end of the table: what is read there is undefined. *)
OutOfTable ==
    /\ Reading /\ reader.state > Len(jumps)
    /\ reader' = [reader EXCEPT !.status = "undefined"]
    /\ Rest

delimiter_begin ==
    /\ Reading /\ reader.state = -1
    /\ LET s == get_init_state(reader.text[1])
       IN  reader' = [reader EXCEPT !.state = s, !.code = jumps[s].code, !.pos = 2]
    /\ Rest

Returned(code_) == [reader EXCEPT !.code = code_, !.status = "returned"]

(* mutant: the code of the state before is returned *)
delimiter_late ==
    /\ Reading /\ reader.state \in DOMAIN jumps /\ reader.pos \in DOMAIN reader.text
    /\ LET elem == jumps[reader.state]
           c == reader.text[reader.pos]
       IN  reader' = IF Contains(elem.chars, c)
                     THEN [reader EXCEPT !.pos = @ + 1, !.code = elem.code,
                             !.state = elem.first_state + SelectInSeq(elem.chars,
                                                              LAMBDA d : d = c) - 1]
                     ELSE Returned(reader.code)
    /\ Rest

delimiter_proc ==
    /\ Reading /\ reader.state \in DOMAIN jumps /\ reader.pos \in DOMAIN reader.text
    /\ LET elem == jumps[reader.state]
           c == reader.text[reader.pos]
       IN  reader' = IF Contains(elem.chars, c)
                     THEN [reader EXCEPT !.pos = @ + 1, !.code = elem.code,
                             !.state = elem.first_state + SelectInSeq(elem.chars,
                                                              LAMBDA d : d = c) - 1]
                     ELSE Returned(elem.code)
    /\ Rest

(* The text ends within the delimiter. *)
delimiter_final_proc ==
    /\ Reading /\ reader.state \in DOMAIN jumps /\ reader.pos > Len(reader.text)
    /\ reader' = Returned(jumps[reader.state].code)
    /\ Rest

JumpsNext ==
    \/ BeginSubtrie \/ NumberLayer
    \/ \E t \in DelimiterTexts : BeginReading(t)
    \/ delimiter_begin \/ delimiter_proc \/ delimiter_final_proc \/ OutOfTable

----------------------------------------------------------------------------
(* The nodes without children that are numbered before the state s, within  *)
(* its level: nodes of the same subtree and depth                           *)
LeavesBefore(s) ==
    {i \in 1 .. s - 1 : /\ Len(numbered[i]) = Len(numbered[s])
                        /\ numbered[i][1] = numbered[s][1]
                        /\ ChildrenOf(numbered[i]) = <<>>}

StateOf(p) == CHOOSE s \in DOMAIN numbered : numbered[s] = p

LeadsRight(s) == \A k \in DOMAIN ChildrenOf(numbered[s]) :
                     jumps[s].first_state + k - 1 = StateOf(ChildrenOf(numbered[s])[k])

(* "If the current character matches symbols[0], then the transition to the *)
(* state first_state; if the current character matches symbols[1], then the *)
(* transition to the state first_state + 1", says the comment on Elem that  *)
(* src/scaner_class_builder.cpp:83 generates.  The transitions of a state   *)
(* do lead to its children exactly if no node without children is numbered  *)
(* before it in its level; otherwise they lead beyond                       *)
(* (src/attributed_char_trie.cpp:142, the correction).                      *)
JumpsRight ==
    TableReady =>
        \A s \in DOMAIN jumps :
            LeadsRight(s) <=> LeavesBefore(s) = {} \/ ChildrenOf(numbered[s]) = <<>>

(* Where all transitions are right, delimiter_proc takes the longest        *)
(* beginning of a delimiter and returns its code: that of the delimiter, or *)
(* default_attr if it is only a part of one.                                *)
LongestBeginning(t) ==
    CHOOSE n \in 1 .. Len(t) :
        /\ SubSeq(t, 1, n) \in Beginnings
        /\ \A m \in n + 1 .. Len(t) : SubSeq(t, 1, m) \notin Beginnings

DelimitersRead ==
    reader.status \in {"returned", "undefined"}
        /\ (\A s \in DOMAIN jumps : LeavesBefore(s) = {} \/ ChildrenOf(numbered[s]) = <<>>)
    => LET n == LongestBeginning(reader.text)
       IN  /\ reader.status = "returned"
           /\ reader.pos = n + 1
           /\ reader.code = attribute(SubSeq(reader.text, 1, n))
=============================================================================
