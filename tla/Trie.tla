-------------------------------- MODULE Trie --------------------------------
(***************************************************************************)
(* The prefix tree of include/trie.h in which the generator interns every  *)
(* identifier, string literal and set of characters.  All other tables of  *)
(* the program are keyed by the indices this structure returns, so its     *)
(* contract is that an index stands for one word for ever.                 *)
(*                                                                         *)
(* Trie<T>::insert calls add_child once per character, and add_child walks *)
(* the linked list of the children of a node; there is one action per      *)
(* iteration of these two loops.                                           *)
(***************************************************************************)
EXTENDS Integers, Sequences, FiniteSets, FiniteSetsExt

CONSTANTS Char,        \* the characters, the parameter T of the template
          Words,       \* the words the callers insert
          NoChar,      \* T(), the label of the root, which may be a character too
          MaxInserts   \* bound on the number of calls of insert

ASSUME WordsAssumption == Words \subseteq Seq(Char)
ASSUME BoundAssumption == MaxInserts \in Nat

VARIABLES
    size,            \* node_buffer.size()
    node_buffer,     \* the nodes 0 .. size-1; node 0 is the root
    nodes_indeces,   \* what the calls of insert returned, in order
    pc,              \* idle, or in the loop of insert, or in that of add_child
    word, i,         \* the parameter s of insert and the characters done
    current_root,    \* the node the first i characters lead to
    current, previous,   \* the cursors of add_child
    requests,        \* auxiliary: the words of the completed calls, in order
    spelled          \* auxiliary: the word each node was created for

vars == <<size, node_buffer, nodes_indeces, pc, word, i, current_root,
          current, previous, requests, spelled>>
cursors == <<current, previous>>

Nodes == 0 .. size - 1

Node == [parent : Nat, first_child : Nat, next : Nat, path_len : Nat,
         degree : Nat, c : Char \cup {NoChar}]

Init ==
    /\ size = 1
    /\ node_buffer = [n \in {0} |-> [parent |-> 0, first_child |-> 0, next |-> 0,
                                     path_len |-> 0, degree |-> 0, c |-> NoChar]]
    /\ nodes_indeces = <<>>
    /\ pc = "idle"
    /\ word = <<>>
    /\ i = 0
    /\ current_root = 0
    /\ current = 0
    /\ previous = 0
    /\ requests = <<>>
    /\ spelled = [n \in {0} |-> <<>>]

-----------------------------------------------------------------------------
(* insert(s): start at the root. *)
Insert(s) ==
    /\ pc = "idle"
    /\ Len(nodes_indeces) < MaxInserts
    /\ pc' = "insert"
    /\ word' = s
    /\ i' = 0
    /\ current_root' = 0
    /\ UNCHANGED <<size, node_buffer, nodes_indeces, cursors, requests, spelled>>

(* The node add_child makes for the next character of the word. *)
NewNode == [parent |-> current_root, first_child |-> 0, next |-> 0,
            path_len |-> node_buffer[current_root].path_len + 1,
            degree |-> 0, c |-> word[i + 1]]

(* Append NewNode; old is the node buffer with the links of the old nodes   *)
(* brought up to date.  The new node is what add_child returns.             *)
PushNode(old) ==
    /\ node_buffer' = [n \in 0 .. size |-> IF n = size THEN NewNode ELSE old[n]]
    /\ spelled' = [n \in 0 .. size |-> IF n = size
                                       THEN Append(spelled[current_root], word[i + 1])
                                       ELSE spelled[n]]
    /\ size' = size + 1
    /\ current_root' = size
    /\ i' = i + 1
    /\ pc' = "insert"
    /\ UNCHANGED <<nodes_indeces, word, requests>>

(* add_child for a node without children: the new node begins the list. *)
AddFirstChild ==
    /\ pc = "insert"
    /\ i < Len(word)
    /\ node_buffer[current_root].first_child = 0
    /\ PushNode([node_buffer EXCEPT ![current_root] =
                    [@ EXCEPT !.first_child = size, !.degree = 1]])
    /\ current' = 0
    /\ previous' = 0

(* Mutant: the walk begins at the second child. *)
EnterListAtSecond ==
    /\ pc = "insert"
    /\ i < Len(word)
    /\ node_buffer[current_root].first_child # 0
    /\ previous' = node_buffer[current_root].first_child
    /\ current' = node_buffer[previous'].next
    /\ pc' = "walk"
    /\ UNCHANGED <<size, node_buffer, nodes_indeces, word, i, current_root,
                   requests, spelled>>

(* add_child for a node with children: begin the walk over the list. *)
EnterList ==
    /\ pc = "insert"
    /\ i < Len(word)
    /\ node_buffer[current_root].first_child # 0
    /\ current' = node_buffer[current_root].first_child
    /\ previous' = node_buffer[current_root].first_child
    /\ pc' = "walk"
    /\ UNCHANGED <<size, node_buffer, nodes_indeces, word, i, current_root,
                   requests, spelled>>

(* The walk has met a child with the wanted label: it is returned. *)
FoundChild ==
    /\ pc = "walk"
    /\ current # 0
    /\ node_buffer[current].c = word[i + 1]
    /\ current_root' = current
    /\ i' = i + 1
    /\ pc' = "insert"
    /\ UNCHANGED <<size, node_buffer, nodes_indeces, word, cursors, requests, spelled>>

(* Mutant: previous stays at the first child. *)
NextChildOnly ==
    /\ pc = "walk"
    /\ current # 0
    /\ node_buffer[current].c # word[i + 1]
    /\ current' = node_buffer[current].next
    /\ UNCHANGED <<size, node_buffer, nodes_indeces, pc, word, i, current_root,
                   previous, requests, spelled>>

(* Mutant: the walk goes back to the first child. *)
NextChildRestarts ==
    /\ pc = "walk"
    /\ current # 0
    /\ node_buffer[current].c # word[i + 1]
    /\ previous' = current
    /\ current' = node_buffer[current_root].first_child
    /\ UNCHANGED <<size, node_buffer, nodes_indeces, pc, word, i, current_root,
                   requests, spelled>>

NextChild ==
    /\ pc = "walk"
    /\ current # 0
    /\ node_buffer[current].c # word[i + 1]
    /\ previous' = current
    /\ current' = node_buffer[current].next
    /\ UNCHANGED <<size, node_buffer, nodes_indeces, pc, word, i, current_root,
                   requests, spelled>>

(* The list has no such child: the new node is linked after its last one. *)
AppendChild ==
    /\ pc = "walk"
    /\ current = 0
    /\ PushNode([n \in Nodes |-> [node_buffer[n] EXCEPT
                    !.next = IF n = previous THEN size ELSE @,
                    !.degree = IF n = current_root THEN @ + 1 ELSE @]])
    /\ UNCHANGED cursors

(* Mutant: the index of the last child examined is returned. *)
ReturnPrevious ==
    /\ pc = "insert"
    /\ i = Len(word)
    /\ nodes_indeces' = Append(nodes_indeces, previous)
    /\ requests' = Append(requests, word)
    /\ pc' = "idle"
    /\ UNCHANGED <<size, node_buffer, word, i, current_root, cursors, spelled>>

(* The end of insert: the index is remembered and returned. *)
Return ==
    /\ pc = "insert"
    /\ i = Len(word)
    /\ nodes_indeces' = Append(nodes_indeces, current_root)
    /\ requests' = Append(requests, word)
    /\ pc' = "idle"
    /\ UNCHANGED <<size, node_buffer, word, i, current_root, cursors, spelled>>

AddChild == AddFirstChild \/ EnterList \/ FoundChild \/ NextChild \/ AppendChild

Next ==
    \/ \E s \in Words : Insert(s)
    \/ AddChild
    \/ Return

Spec == Init /\ [][Next]_vars

(* The structure is used by one thread, which runs insert to its end. *)
FairSpec == Spec /\ WF_vars(AddChild \/ Return)

-----------------------------------------------------------------------------
(* Char_trie::get_string and Char_trie::get_length: walk from a node to the *)
(* root.                                                                    *)
get_string(idx) ==
    LET read[n \in Nodes] == IF n = 0 THEN <<>>
                             ELSE Append(read[node_buffer[n].parent], node_buffer[n].c)
    IN  read[idx]

get_length(idx) == node_buffer[idx].path_len

(* Trie_for_set::get_set collects the labels on the same walk. *)
get_set(idx) ==
    LET read[n \in Nodes] == IF n = 0 THEN {}
                             ELSE read[node_buffer[n].parent] \cup {node_buffer[n].c}
    IN  read[idx]

(* maximal_degree: the root does not count. *)
maximal_degree == Max({0} \cup {node_buffer[n].degree : n \in Nodes \ {0}})

-----------------------------------------------------------------------------
(* The variables have the types of the fields of the class. *)
TypeOK ==
    /\ size \in Nat \ {0}
    /\ node_buffer \in [Nodes -> Node]
    /\ nodes_indeces \in Seq(Nodes)
    /\ pc \in {"idle", "insert", "walk"}
    /\ word \in Seq(Char)
    /\ i \in 0 .. Len(word)
    /\ current_root \in Nodes
    /\ current \in Nodes
    /\ previous \in Nodes
    /\ requests \in Seq(Seq(Char))
    /\ Len(requests) = Len(nodes_indeces)
    /\ spelled \in [Nodes -> Seq(Char)]

Children(p) == {n \in Nodes \ {0} : node_buffer[n].parent = p}

(* first_child and next link exactly the children of a node, in the order  *)
(* of their creation: the list that add_child walks misses no child.       *)
ListsComplete ==
    /\ \A p \in Nodes :
          LET f == node_buffer[p].first_child
          IN  IF f = 0 THEN Children(p) = {}
              ELSE f \in Children(p) /\ \A n \in Children(p) : f <= n
    /\ \A m \in Nodes \ {0} :
          LET f == node_buffer[m].next
              siblings == Children(node_buffer[m].parent)
          IN  IF f = 0 THEN \A n \in siblings : n <= m
              ELSE f \in siblings /\ f > m /\ \A n \in siblings : n > m => f <= n

(* No two children of a node have the same label (the purpose of the walk   *)
(* of add_child): a word leads to one node only.                            *)
SiblingsDiffer ==
    \A m, n \in Nodes \ {0} :
        /\ node_buffer[m].parent = node_buffer[n].parent
        /\ node_buffer[m].c = node_buffer[n].c
        => m = n

(* The contract of insert, over any number of calls: two calls return the   *)
(* same index exactly when they were given the same word.                   *)
SameIndexIffSameWord ==
    \A j, k \in DOMAIN nodes_indeces :
        nodes_indeces[j] = nodes_indeces[k] <=> requests[j] = requests[k]

(* What is read back from an index is the word that was inserted, however   *)
(* many words were inserted since, and the path length is its length; no    *)
(* node but the root has more children than maximal_degree says.            *)
ReadBack ==
    /\ \A k \in DOMAIN nodes_indeces :
          /\ get_string(nodes_indeces[k]) = requests[k]
          /\ get_length(nodes_indeces[k]) = Len(requests[k])
          /\ get_set(nodes_indeces[k]) = {requests[k][j] : j \in DOMAIN requests[k]}
    /\ \A p \in Nodes \ {0} : Cardinality(Children(p)) <= maximal_degree

(* Every call of insert comes to its end: the lists are not cyclic. *)
InsertReturns == pc # "idle" ~> pc = "idle"

-----------------------------------------------------------------------------
(* The inductive strengthening of the invariants above.                     *)

(* A node is created after its parent, so no walk towards the root loops.   *)
ParentsPrecede == \A n \in Nodes \ {0} : node_buffer[n].parent \in 0 .. n - 1

(* Between two iterations of add_child: the children before current do not  *)
(* have the wanted label, and previous is the last one of them, where the   *)
(* new node will be linked if the list ends.                                *)
WalkOK ==
    pc = "walk" =>
        /\ i < Len(word)
        /\ previous \in Children(current_root)
        /\ current # 0 => current \in Children(current_root)
        /\ current = 0 => node_buffer[previous].next = 0
        /\ \A n \in Children(current_root) :
              current = 0 \/ n < current => node_buffer[n].c # word[i + 1]

(* The auxiliary variable spelled is right, and no two nodes spell a word.  *)
Spelling ==
    /\ spelled[0] = <<>>
    /\ \A n \in Nodes \ {0} :
          spelled[n] = Append(spelled[node_buffer[n].parent], node_buffer[n].c)
    /\ \A m, n \in Nodes : spelled[m] = spelled[n] => m = n
    /\ pc # "idle" => spelled[current_root] = SubSeq(word, 1, i)
    /\ \A k \in DOMAIN nodes_indeces : spelled[nodes_indeces[k]] = requests[k]

(* Every reachable state satisfies this, and every step preserves it.       *)
IInv ==
    /\ TypeOK
    /\ ParentsPrecede
    /\ ListsComplete
    /\ SiblingsDiffer
    /\ WalkOK
    /\ Spelling

-----------------------------------------------------------------------------
(* The abstract table this structure implements.                            *)
Table == INSTANCE WordTable WITH
            table <- {<<spelled[n], n>> : n \in Nodes},
            answers <- [k \in DOMAIN nodes_indeces |-> <<requests[k], nodes_indeces[k]>>]

(* The prefix tree implements the table of words of module WordTable. *)
ImplementsTable == Table!Spec
=============================================================================
