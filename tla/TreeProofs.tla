----------------------------- MODULE TreeProofs -----------------------------
(***************************************************************************)
(* Proofs about trees and the tables made of them.  About the prefix tree  *)
(* of module Trie: its inductive invariant, the contract of insert, that   *)
(* it implements the table of module WordTable, and that words are read    *)
(* back as they were inserted, for every set of characters and words.      *)
(* About the tables of module GeneratedTables: that the table of           *)
(* categories is right for all categories, where the transitions of the    *)
(* table of delimiters are right, and that delimiter_proc reads the longest*)
(* beginning of a delimiter where they are, for all delimiters and texts.  *)
(***************************************************************************)
EXTENDS Trie, GeneratedTables, SequenceTheorems, FiniteSetTheorems, WellFoundedInduction, TLAPS

(* The parent of a node is a node that was created before it. *)
LEMMA ParentIsNode ==
    ASSUME IInv, NEW n \in Nodes \ {0}
    PROVE  node_buffer[n].parent \in Nodes /\ node_buffer[n].parent < n
<1>1. node_buffer[n].parent \in 0 .. n - 1
  BY DEF IInv, ParentsPrecede
<1>2. size \in Nat /\ n \in Nat /\ n < size
  BY DEF IInv, TypeOK, Nodes
<1> HIDE DEF IInv
<1> DEFINE p == node_buffer[n].parent
<1>3. p \in 0 .. n - 1
  BY <1>1
<1> HIDE DEF p
<1>4. p \in 0 .. size - 1 /\ p < n
  BY <1>2, <1>3
<1> QED
  BY <1>4 DEF p, Nodes

(* The empty tree satisfies the inductive invariant. *)
LEMMA InitIInv == Init => IInv
<1> SUFFICES ASSUME Init PROVE IInv
  OBVIOUS
<1> USE DEF Init, Nodes, Children
<1>1. TypeOK
  BY DEF TypeOK, Node
<1>2. ParentsPrecede /\ ListsComplete /\ SiblingsDiffer /\ WalkOK
  BY DEF ParentsPrecede, ListsComplete, SiblingsDiffer, WalkOK
<1>3. Spelling
  BY DEF Spelling
<1> QED
  BY <1>1, <1>2, <1>3 DEF IInv

-----------------------------------------------------------------------------
(* What push_back of a new child preserves, wherever it is linked: old is   *)
(* the node buffer with the links of the old nodes changed.                 *)
LEMMA PushPreserves ==
    ASSUME IInv, pc \in {"insert", "walk"}, i < Len(word),
           NEW old \in [Nodes -> Node],
           \A n \in Nodes : /\ old[n].parent = node_buffer[n].parent
                            /\ old[n].c = node_buffer[n].c,
           \A n \in Children(current_root) : node_buffer[n].c # word[i + 1],
           PushNode(old),
           current' \in Nodes, previous' \in Nodes
    PROVE  /\ TypeOK'
           /\ ParentsPrecede'
           /\ SiblingsDiffer'
           /\ WalkOK'
           /\ Spelling'
           /\ Nodes' = Nodes \cup {size}
           /\ size \notin Nodes
           /\ NewNode \in Node
           /\ \A p \in Nodes : Children(p)' = IF p = current_root
                                              THEN Children(p) \cup {size}
                                              ELSE Children(p)
           /\ \A p \in Nodes' : p = size => Children(p)' = {}
<1>p. /\ size' = size + 1
      /\ current_root' = size
      /\ i' = i + 1
      /\ pc' = "insert"
      /\ nodes_indeces' = nodes_indeces
      /\ word' = word
      /\ requests' = requests
  BY DEF PushNode
<1>t. TypeOK
  BY DEF IInv
<1>0. /\ size \in Nat \ {0}
      /\ current_root \in Nodes
      /\ i \in Nat
      /\ word \in Seq(Char)
      /\ word[i + 1] \in Char
      /\ node_buffer \in [Nodes -> Node]
      /\ spelled \in [Nodes -> Seq(Char)]
  BY <1>t DEF TypeOK
<1>1. /\ Nodes' = Nodes \cup {size}
      /\ Nodes' = 0 .. size
      /\ size \notin Nodes
      /\ Nodes \subseteq Nat
  BY <1>0, <1>p DEF Nodes
<1>2. NewNode \in Node
  <2>1. node_buffer[current_root] \in Node /\ current_root \in Nat
    BY <1>0, <1>1
  <2>2. node_buffer[current_root].path_len + 1 \in Nat
    <3> DEFINE r == node_buffer[current_root]
    <3>1. r \in Node
      BY <2>1
    <3> HIDE DEF r
    <3>2. r.path_len \in Nat
      BY <3>1 DEF Node
    <3> QED
      BY <3>2 DEF r
  <2> DEFINE l == node_buffer[current_root].path_len + 1
             x == word[i + 1]
  <2>3. l \in Nat /\ x \in Char
    BY <2>2, <1>0
  <2> HIDE DEF l, x
  <2>4. [parent |-> current_root, first_child |-> 0, next |-> 0,
         path_len |-> l, degree |-> 0, c |-> x] \in Node
    BY <2>1, <2>3 DEF Node
  <2> QED
    BY <2>4 DEF NewNode, l, x
<1>3. /\ node_buffer' \in [Nodes' -> Node]
      /\ node_buffer'[size] = NewNode
      /\ \A n \in Nodes : node_buffer'[n] = old[n]
  BY <1>0, <1>1, <1>2 DEF Nodes, PushNode
<1>4. /\ spelled' \in [Nodes' -> Seq(Char)]
      /\ spelled'[size] = Append(spelled[current_root], word[i + 1])
      /\ \A n \in Nodes : spelled'[n] = spelled[n]
  <2> DEFINE s == Append(spelled[current_root], word[i + 1])
  <2>1. s \in Seq(Char)
    <3>1. spelled[current_root] \in Seq(Char)
      BY <1>0
    <3> QED
      BY <3>1, <1>0
  <2>2. spelled' = [n \in 0 .. size |-> IF n = size THEN s ELSE spelled[n]]
    BY DEF PushNode
  <2> HIDE DEF s
  <2>3. /\ spelled' \in [Nodes' -> Seq(Char)]
        /\ spelled'[size] = s
        /\ \A n \in Nodes : spelled'[n] = spelled[n]
    BY <2>1, <2>2, <1>0, <1>1
  <2> QED
    BY <2>3 DEF s
<1>5. TypeOK'
  <2>1. nodes_indeces' \in Seq(Nodes')
    <3>1. nodes_indeces \in Seq(Nodes) /\ Nodes \subseteq Nodes'
      BY <1>1, <1>t DEF TypeOK
    <3> QED
      BY <3>1, <1>p
  <2>2. i' \in 0 .. Len(word')
    BY <1>0, <1>p
  <2>3. /\ size' \in Nat \ {0}
        /\ current_root' \in Nodes'
        /\ pc' \in {"idle", "insert", "walk"}
    BY <1>0, <1>1, <1>p
  <2>4. /\ word' \in Seq(Char)
        /\ requests' \in Seq(Seq(Char))
        /\ Len(requests') = Len(nodes_indeces')
    <3>1. /\ requests \in Seq(Seq(Char))
          /\ Len(requests) = Len(nodes_indeces)
      BY <1>t DEF TypeOK
    <3> QED
      BY <3>1, <1>0, <1>p
  <2>5. current' \in Nodes' /\ previous' \in Nodes'
    BY <1>1
  <2> QED
    BY <1>3, <1>4, <2>1, <2>2, <2>3, <2>4, <2>5 DEF TypeOK
<1>6. NewNode.parent = current_root /\ NewNode.c = word[i + 1]
  BY DEF NewNode
<1>7. ParentsPrecede'
  <2> SUFFICES ASSUME NEW n \in Nodes' \ {0}
               PROVE  node_buffer'[n].parent \in 0 .. n - 1
    BY DEF ParentsPrecede
  <2>1. CASE n = size
    BY <2>1, <1>0, <1>3, <1>6 DEF Nodes
  <2>2. CASE n \in Nodes
    BY <2>2, <1>3 DEF IInv, ParentsPrecede
  <2> QED
    BY <2>1, <2>2, <1>1
<1>8. ASSUME NEW p \in Nodes
      PROVE  Children(p)' = IF p = current_root THEN Children(p) \cup {size}
                                                ELSE Children(p)
  BY <1>0, <1>1, <1>3, <1>6 DEF Children
<1>9. ASSUME NEW p \in Nodes', p = size
      PROVE  Children(p)' = {}
  <2> SUFFICES ASSUME NEW n \in Nodes' \ {0}, node_buffer'[n].parent = size
               PROVE  FALSE
    BY <1>9 DEF Children
  <2> QED
    <3>1. n \in Nat /\ n <= size /\ size \in Nat
      BY <1>0, <1>1
    <3>2. node_buffer'[n].parent \in 0 .. n - 1
      BY <1>7 DEF ParentsPrecede
    <3> QED
      BY <3>1, <3>2
<1>10. SiblingsDiffer'
  <2> SUFFICES ASSUME NEW m \in Nodes' \ {0}, NEW n \in Nodes' \ {0},
                      node_buffer'[m].parent = node_buffer'[n].parent,
                      node_buffer'[m].c = node_buffer'[n].c
               PROVE  m = n
    BY DEF SiblingsDiffer
  <2>1. CASE m \in Nodes /\ n \in Nodes
    <3>1. /\ node_buffer[m].parent = node_buffer[n].parent
          /\ node_buffer[m].c = node_buffer[n].c
      BY <2>1, <1>3
    <3> QED
      BY <2>1, <3>1 DEF IInv, SiblingsDiffer
  <2>2. CASE m = size /\ n \in Nodes
    BY <2>2, <1>3, <1>6 DEF Children
  <2>3. CASE n = size /\ m \in Nodes
    BY <2>3, <1>3, <1>6 DEF Children
  <2> QED
    BY <2>1, <2>2, <2>3, <1>1
<1>11. WalkOK'
  BY <1>p DEF WalkOK
<1>12. Spelling'
  <2>1. spelled'[0] = <<>>
    <3>1. 0 \in Nodes /\ spelled[0] = <<>>
      BY <1>0 DEF IInv, Spelling, Nodes
    <3> QED
      BY <3>1, <1>4
  <2>2. ASSUME NEW n \in Nodes' \ {0}
        PROVE  spelled'[n] = Append(spelled'[node_buffer'[n].parent], node_buffer'[n].c)
    <3>1. CASE n = size
      BY <3>1, <1>0, <1>3, <1>4, <1>6
    <3>2. CASE n \in Nodes
      <4>1. node_buffer[n].parent \in Nodes
        BY <3>2, ParentIsNode
      <4> QED
        <5>1. spelled[n] = Append(spelled[node_buffer[n].parent], node_buffer[n].c)
          BY <3>2 DEF IInv, Spelling
        <5>2. /\ node_buffer'[n].parent = node_buffer[n].parent
              /\ node_buffer'[n].c = node_buffer[n].c
          BY <3>2, <1>3
        <5> QED
          BY <3>2, <4>1, <5>1, <5>2, <1>4
    <3> QED
      BY <3>1, <3>2, <1>1
  <2>3. ASSUME NEW m \in Nodes, spelled[m] = Append(spelled[current_root], word[i + 1])
        PROVE  FALSE
    <3>1. m # 0
      BY <2>3, <1>0 DEF IInv, Spelling
    <3>2. /\ node_buffer[m].parent \in Nodes
          /\ spelled[m] = Append(spelled[node_buffer[m].parent], node_buffer[m].c)
      <4>1. node_buffer[m].parent \in Nodes
        BY <2>3, <3>1, ParentIsNode
      <4> QED
        BY <2>3, <3>1, <4>1 DEF IInv, Spelling
    <3>3. /\ spelled[node_buffer[m].parent] = spelled[current_root]
          /\ node_buffer[m].c = word[i + 1]
      <4> DEFINE s == spelled[current_root]
                 t == spelled[node_buffer[m].parent]
                 x == word[i + 1]
                 y == node_buffer[m].c
      <4>1. s \in Seq(Char) /\ t \in Seq(Char)
        BY <1>0, <3>2
      <4>2. Append(s, x) = Append(t, y)
        BY <2>3, <3>2
      <4> HIDE DEF s, t, x, y
      <4>3. /\ Len(s) = Len(t)
            /\ \A k \in 1 .. Len(s) : s[k] = t[k]
            /\ x = y
        <5>1. Len(Append(s, x)) = Len(s) + 1 /\ Len(Append(t, y)) = Len(t) + 1
          BY <4>1
        <5>2. Len(s) = Len(t) /\ Len(s) \in Nat
          BY <4>1, <4>2, <5>1
        <5>3. \A k \in 1 .. Len(s) : Append(s, x)[k] = s[k] /\ Append(t, y)[k] = t[k]
          BY <4>1, <5>2
        <5>4. Append(s, x)[Len(s) + 1] = x /\ Append(t, y)[Len(t) + 1] = y
          BY <4>1
        <5> QED
          BY <4>2, <5>2, <5>3, <5>4
      <4>4. s = t
        BY <4>1, <4>3
      <4> QED
        BY <4>3, <4>4 DEF s, t, x, y
    <3>4. node_buffer[m].parent = current_root
      BY <3>2, <3>3, <1>0 DEF IInv, Spelling
    <3> QED
      BY <3>1, <3>3, <3>4 DEF Children
  <2>4. ASSUME NEW m \in Nodes', NEW n \in Nodes', spelled'[m] = spelled'[n]
        PROVE  m = n
    <3>1. CASE m \in Nodes /\ n \in Nodes
      <4>1. spelled[m] = spelled[n]
        BY <2>4, <3>1, <1>4
      <4> QED
        BY <3>1, <4>1 DEF IInv, Spelling
    <3>2. CASE m = size /\ n \in Nodes
      BY <3>2, <2>3, <2>4, <1>4
    <3>3. CASE n = size /\ m \in Nodes
      BY <3>3, <2>3, <2>4, <1>4
    <3> QED
      BY <3>1, <3>2, <3>3, <1>1
  <2>5. spelled'[current_root'] = SubSeq(word', 1, i')
    <3>1. spelled[current_root] = SubSeq(word, 1, i)
      BY DEF IInv, Spelling
    <3>2. SubSeq(word, 1, i + 1) = Append(SubSeq(word, 1, i), word[i + 1])
      BY <1>0
    <3> QED
      BY <3>1, <3>2, <1>4, <1>p
  <2>6. ASSUME NEW k \in DOMAIN nodes_indeces'
        PROVE  spelled'[nodes_indeces'[k]] = requests'[k]
    <3>2. nodes_indeces[k] \in Nodes /\ spelled[nodes_indeces[k]] = requests[k]
      BY <1>t, <1>p DEF IInv, Spelling, TypeOK
    <3> QED
      BY <1>4, <1>p, <3>2
  <2> QED
    BY <2>1, <2>2, <2>4, <2>5, <2>6 DEF Spelling
<1> QED
  BY <1>1, <1>2, <1>5, <1>7, <1>8, <1>9, <1>10, <1>11, <1>12

-----------------------------------------------------------------------------
(* A first child makes a list of one element; the other lists stay.         *)
LEMMA AddFirstChildInv == IInv /\ AddFirstChild => IInv'
<1> DEFINE old == [node_buffer EXCEPT ![current_root] =
                      [@ EXCEPT !.first_child = size, !.degree = 1]]
<1> SUFFICES ASSUME IInv, AddFirstChild PROVE IInv'
  OBVIOUS
<1>0. /\ size \in Nat \ {0}
      /\ current_root \in Nodes
      /\ node_buffer \in [Nodes -> Node]
      /\ 0 \in Nodes
      /\ Nodes \subseteq Nat
  BY DEF IInv, TypeOK, Nodes
<1>1. /\ pc = "insert"
      /\ i < Len(word)
      /\ node_buffer[current_root].first_child = 0
      /\ PushNode(old)
      /\ current' = 0
      /\ previous' = 0
  BY DEF AddFirstChild
<1>2. Children(current_root) = {}
  BY <1>0, <1>1 DEF IInv, ListsComplete
<1>3. old \in [Nodes -> Node]
  <2>1. [node_buffer[current_root] EXCEPT !.first_child = size, !.degree = 1] \in Node
    BY <1>0 DEF Node
  <2> QED
    BY <1>0, <2>1
<1>4. \A n \in Nodes : /\ old[n].parent = node_buffer[n].parent
                       /\ old[n].c = node_buffer[n].c
                       /\ old[n].next = node_buffer[n].next
                       /\ old[n].first_child = IF n = current_root THEN size
                                               ELSE node_buffer[n].first_child
  BY <1>0 DEF Node
<1> HIDE DEF old
<1>5. /\ TypeOK' /\ ParentsPrecede' /\ SiblingsDiffer' /\ WalkOK' /\ Spelling'
      /\ Nodes' = Nodes \cup {size}
      /\ size \notin Nodes
      /\ \A p \in Nodes : Children(p)' = IF p = current_root
                                         THEN Children(p) \cup {size}
                                         ELSE Children(p)
      /\ \A p \in Nodes' : p = size => Children(p)' = {}
  BY <1>0, <1>1, <1>2, <1>3, <1>4, PushPreserves
<1>6. /\ node_buffer'[size].first_child = 0
      /\ node_buffer'[size].next = 0
      /\ node_buffer'[size].parent = current_root
      /\ \A n \in Nodes : node_buffer'[n] = old[n]
  BY <1>0, <1>1 DEF PushNode, NewNode, Nodes
<1>7. ASSUME NEW p \in Nodes'
      PROVE  LET f == node_buffer'[p].first_child
             IN  IF f = 0 THEN Children(p)' = {}
                 ELSE f \in Children(p)' /\ \A n \in Children(p)' : f <= n
  <2>1. CASE p = size
    BY <2>1, <1>5, <1>6
  <2>2. CASE p = current_root
    BY <2>2, <1>0, <1>2, <1>4, <1>5, <1>6
  <2>3. CASE p \in Nodes /\ p # current_root
    BY <2>3, <1>4, <1>5, <1>6 DEF IInv, ListsComplete
  <2> QED
    BY <2>1, <2>2, <2>3, <1>5
<1>8. ASSUME NEW m \in Nodes' \ {0}
      PROVE  LET f == node_buffer'[m].next
                 siblings == Children(node_buffer[m].parent)'
             IN  IF f = 0 THEN \A n \in siblings : n <= m
                 ELSE f \in siblings /\ f > m /\ \A n \in siblings : n > m => f <= n
  <2>1. CASE m = size
    <3>1. Children(node_buffer[m].parent)' = {size}
      BY <2>1, <1>0, <1>2, <1>5, <1>6
    <3> QED
      BY <2>1, <3>1, <1>0, <1>6
  <2>2. CASE m \in Nodes
    <3>1. /\ node_buffer'[m].next = node_buffer[m].next
          /\ node_buffer'[m].parent = node_buffer[m].parent
      BY <2>2, <1>4, <1>6
    <3>2. node_buffer[m].parent \in Nodes /\ node_buffer[m].parent # current_root
      <4>1. m \in Children(node_buffer[m].parent)
        BY <2>2 DEF Children
      <4> QED
        BY <2>2, <4>1, <1>2, ParentIsNode
    <3>3. Children(node_buffer[m].parent)' = Children(node_buffer[m].parent)
      BY <3>1, <3>2, <1>5
    <3> QED
      BY <2>2, <3>1, <3>3 DEF IInv, ListsComplete
  <2> QED
    BY <2>1, <2>2, <1>5
<1>9. ListsComplete'
  BY <1>7, <1>8 DEF ListsComplete
<1> QED
  BY <1>5, <1>9 DEF IInv

(* A new last child is linked after the child that was last.                *)
LEMMA AppendChildInv == IInv /\ AppendChild => IInv'
<1> DEFINE old == [n \in Nodes |-> [node_buffer[n] EXCEPT
                      !.next = IF n = previous THEN size ELSE @,
                      !.degree = IF n = current_root THEN @ + 1 ELSE @]]
<1> SUFFICES ASSUME IInv, AppendChild PROVE IInv'
  OBVIOUS
<1>0. /\ size \in Nat \ {0}
      /\ current_root \in Nodes
      /\ previous \in Nodes
      /\ node_buffer \in [Nodes -> Node]
      /\ 0 \in Nodes
      /\ Nodes \subseteq Nat
      /\ \A n \in Nodes : n < size
  BY DEF IInv, TypeOK, Nodes
<1>1. /\ pc = "walk"
      /\ current = 0
      /\ PushNode(old)
      /\ current' = current
      /\ previous' = previous
  BY DEF AppendChild, cursors
<1>2. /\ i < Len(word)
      /\ previous \in Children(current_root)
      /\ node_buffer[previous].next = 0
      /\ \A n \in Children(current_root) : node_buffer[n].c # word[i + 1]
  BY <1>1 DEF IInv, WalkOK
<1>3. /\ previous # 0
      /\ node_buffer[previous].parent = current_root
      /\ \A n \in Children(current_root) : n <= previous
      /\ previous # current_root
  <2>1. previous \in Nodes \ {0} /\ node_buffer[previous].parent = current_root
    BY <1>2 DEF Children
  <2>2. current_root \in 0 .. previous - 1
    BY <2>1 DEF IInv, ParentsPrecede
  <2>3. \A n \in Children(current_root) : n <= previous
    BY <2>1, <1>2 DEF IInv, ListsComplete
  <2> QED
    BY <2>1, <2>2, <2>3, <1>0
<1>4. old \in [Nodes -> Node]
  <2> SUFFICES ASSUME NEW n \in Nodes PROVE old[n] \in Node
    OBVIOUS
  <2> DEFINE nx == IF n = previous THEN size ELSE node_buffer[n].next
             dg == IF n = current_root THEN node_buffer[n].degree + 1
                                       ELSE node_buffer[n].degree
  <2>1. node_buffer[n] \in Node
    BY <1>0
  <2>2. nx \in Nat /\ dg \in Nat
    BY <2>1, <1>0 DEF Node
  <2>3. old[n] = [node_buffer[n] EXCEPT !.next = nx, !.degree = dg]
    OBVIOUS
  <2> HIDE DEF nx, dg, old
  <2> QED
    BY <2>1, <2>2, <2>3 DEF Node
<1>5. \A n \in Nodes : /\ old[n].parent = node_buffer[n].parent
                       /\ old[n].c = node_buffer[n].c
                       /\ old[n].first_child = node_buffer[n].first_child
                       /\ old[n].next = IF n = previous THEN size
                                        ELSE node_buffer[n].next
  BY <1>0, <1>3 DEF Node
<1> HIDE DEF old
<1>6. /\ TypeOK' /\ ParentsPrecede' /\ SiblingsDiffer' /\ WalkOK' /\ Spelling'
      /\ Nodes' = Nodes \cup {size}
      /\ size \notin Nodes
      /\ \A p \in Nodes : Children(p)' = IF p = current_root
                                         THEN Children(p) \cup {size}
                                         ELSE Children(p)
      /\ \A p \in Nodes' : p = size => Children(p)' = {}
  <2>1. current' \in Nodes /\ previous' \in Nodes
    BY <1>0, <1>1
  <2> QED
    BY <2>1, <1>1, <1>2, <1>4, <1>5, PushPreserves
<1>7. /\ node_buffer'[size].first_child = 0
      /\ node_buffer'[size].next = 0
      /\ node_buffer'[size].parent = current_root
      /\ \A n \in Nodes : node_buffer'[n] = old[n]
  BY <1>0, <1>1 DEF PushNode, NewNode, Nodes
<1>8. ASSUME NEW p \in Nodes'
      PROVE  LET f == node_buffer'[p].first_child
             IN  IF f = 0 THEN Children(p)' = {}
                 ELSE f \in Children(p)' /\ \A n \in Children(p)' : f <= n
  <2>1. CASE p = size
    BY <2>1, <1>6, <1>7
  <2>2. CASE p = current_root
    <3>1. /\ node_buffer[p].first_child # 0
          /\ node_buffer[p].first_child \in Children(p)
          /\ \A n \in Children(p) : node_buffer[p].first_child <= n
      BY <2>2, <1>0, <1>2 DEF IInv, ListsComplete
    <3>2. node_buffer[p].first_child < size
      BY <3>1, <1>0 DEF Children
    <3>3. /\ Children(p)' = Children(p) \cup {size}
          /\ node_buffer'[p].first_child = node_buffer[p].first_child
      BY <2>2, <1>0, <1>5, <1>6, <1>7
    <3>4. node_buffer[p].first_child \in Nat
      BY <3>1, <1>0 DEF Children
    <3> QED
      BY <3>1, <3>2, <3>3, <3>4, <1>0
  <2>3. CASE p \in Nodes /\ p # current_root
    BY <2>3, <1>5, <1>6, <1>7 DEF IInv, ListsComplete
  <2> QED
    BY <2>1, <2>2, <2>3, <1>6
<1>9. ASSUME NEW m \in Nodes' \ {0}
      PROVE  LET f == node_buffer'[m].next
                 siblings == Children(node_buffer[m].parent)'
             IN  IF f = 0 THEN \A n \in siblings : n <= m
                 ELSE f \in siblings /\ f > m /\ \A n \in siblings : n > m => f <= n
  <2>0. \A n \in Children(current_root) : n \in Nat /\ n # 0 /\ n < size /\ n # size
    BY <1>0 DEF Children
  <2>1. CASE m = size
    <3>1. Children(node_buffer[m].parent)' = Children(current_root) \cup {size}
      BY <2>1, <1>0, <1>6, <1>7
    <3>2. node_buffer'[m].next = 0
      BY <2>1, <1>7
    <3>3. \A n \in Children(current_root) \cup {size} : n <= m
      BY <2>0, <2>1, <1>0
    <3> QED
      BY <3>1, <3>2, <3>3
  <2>2. CASE m = previous
    <3>1. node_buffer'[m].parent = current_root /\ node_buffer'[m].next = size
      BY <2>2, <1>0, <1>3, <1>5, <1>7
    <3>2. Children(node_buffer[m].parent)' = Children(current_root) \cup {size}
      BY <3>1, <1>0, <1>6
    <3>3. size # 0 /\ size > m
      BY <2>2, <1>0
    <3>4. \A n \in Children(current_root) \cup {size} : n > m => size <= n
      BY <2>0, <2>2, <1>0, <1>3
    <3> QED
      BY <3>1, <3>2, <3>3, <3>4
  <2>3. CASE m \in Nodes /\ m # previous
    <3>1. /\ node_buffer'[m].next = node_buffer[m].next
          /\ node_buffer'[m].parent = node_buffer[m].parent
      BY <2>3, <1>5, <1>7
    <3>2. /\ node_buffer[m].parent \in Nodes
          /\ m \in Children(node_buffer[m].parent)
      <4>1. node_buffer[m].parent \in Nodes
        BY <2>3, ParentIsNode
      <4> QED
        BY <4>1, <2>3 DEF Children
    <3>3. CASE node_buffer[m].parent # current_root
      <4>1. Children(node_buffer[m].parent)' = Children(node_buffer[m].parent)
        BY <3>1, <3>2, <3>3, <1>6
      <4> QED
        BY <2>3, <3>1, <4>1 DEF IInv, ListsComplete
    <3>4. CASE node_buffer[m].parent = current_root
      <4>1. Children(node_buffer[m].parent)' = Children(current_root) \cup {size}
        BY <3>1, <3>4, <1>0, <1>6
      <4>2. m < previous
        BY <2>3, <3>2, <3>4, <1>0, <1>3
      <4>3. /\ node_buffer[m].next # 0
            /\ node_buffer[m].next \in Children(current_root)
            /\ node_buffer[m].next > m
            /\ \A n \in Children(current_root) : n > m => node_buffer[m].next <= n
        BY <2>3, <3>4, <4>2, <1>0, <1>2 DEF IInv, ListsComplete
      <4>4. \A n \in Children(current_root) \cup {size} :
               n > m => node_buffer[m].next <= n
        BY <2>0, <4>3, <1>0
      <4> QED
        BY <3>1, <4>1, <4>3, <4>4
    <3> QED
      BY <3>3, <3>4
  <2> QED
    BY <2>1, <2>2, <2>3, <1>6
<1>10. ListsComplete'
  BY <1>8, <1>9 DEF ListsComplete
<1> QED
  BY <1>6, <1>10 DEF IInv
-----------------------------------------------------------------------------
(* The actions that leave the tree alone.                                   *)
LEMMA TreeUnchanged ==
    ASSUME IInv, UNCHANGED <<size, node_buffer, spelled>>
    PROVE  /\ ParentsPrecede' /\ ListsComplete' /\ SiblingsDiffer'
           /\ Nodes' = Nodes
           /\ Children(current_root)' = {n \in Nodes \ {0} : node_buffer[n].parent = current_root'}
BY DEF IInv, ParentsPrecede, ListsComplete, SiblingsDiffer, Children, Nodes

(* The call of insert preserves the invariant. *)
LEMMA InsertInv == ASSUME IInv, NEW s \in Words, Insert(s) PROVE IInv'
<1>1. /\ ParentsPrecede' /\ ListsComplete' /\ SiblingsDiffer' /\ Nodes' = Nodes
  BY TreeUnchanged DEF Insert
<1>2. TypeOK'
  BY <1>1, WordsAssumption DEF Insert, IInv, TypeOK, Nodes, cursors
<1>3. WalkOK'
  BY DEF Insert, WalkOK
<1>4. Spelling'
  <2>1. spelled'[current_root'] = SubSeq(word', 1, i')
    <3>1. s \in Seq(Char)
      BY WordsAssumption
    <3>2. SubSeq(s, 1, 0) = <<>>
      BY <3>1
    <3> QED
      BY <3>2 DEF Insert, IInv, Spelling
  <2> QED
    BY <2>1, <1>1 DEF Insert, IInv, Spelling
<1> QED
  BY <1>1, <1>2, <1>3, <1>4 DEF IInv

(* So does entering the list of the children of a node, *)
LEMMA EnterListInv == ASSUME IInv, EnterList PROVE IInv'
<1>1. /\ ParentsPrecede' /\ ListsComplete' /\ SiblingsDiffer' /\ Nodes' = Nodes
      /\ Children(current_root)' = Children(current_root)
  BY TreeUnchanged DEF EnterList, Children
<1>2. /\ current' \in Children(current_root)
      /\ \A n \in Children(current_root) : current' <= n
      /\ current' \in Nodes /\ current' # 0
  BY DEF EnterList, IInv, TypeOK, ListsComplete, Children
<1>3. TypeOK'
  BY <1>1, <1>2 DEF EnterList, IInv, TypeOK
<1>4. WalkOK'
  <2>1. current' \in Nat /\ Children(current_root) \subseteq Nat
    BY <1>2 DEF Children, Nodes
  <2>2. \A n \in Children(current_root) : ~ (n < current')
    BY <1>2, <2>1
  <2> QED
    BY <1>1, <1>2, <2>2 DEF EnterList, WalkOK
<1>5. Spelling'
  BY <1>1 DEF EnterList, IInv, Spelling
<1> QED
  BY <1>1, <1>3, <1>4, <1>5 DEF IInv

(* finding the child of the character, *)
LEMMA FoundChildInv == ASSUME IInv, FoundChild PROVE IInv'
<1>1. /\ ParentsPrecede' /\ ListsComplete' /\ SiblingsDiffer' /\ Nodes' = Nodes
  BY TreeUnchanged DEF FoundChild
<1>2. /\ pc = "walk" /\ pc' = "insert" /\ current_root' = current
      /\ current \in Nodes \ {0} /\ i < Len(word)
      /\ node_buffer[current].parent = current_root
      /\ node_buffer[current].c = word[i + 1]
  BY DEF FoundChild, IInv, WalkOK, Children
<1>3. i \in Nat /\ word \in Seq(Char) /\ i' = i + 1 /\ word' = word
  BY DEF FoundChild, IInv, TypeOK
<1>4. TypeOK'
  BY <1>1, <1>2, <1>3 DEF FoundChild, IInv, TypeOK, cursors
<1>5. WalkOK'
  BY <1>2 DEF WalkOK
<1>6. Spelling'
  <2>1. spelled[current] = Append(SubSeq(word, 1, i), word[i + 1])
    BY <1>2 DEF IInv, Spelling
  <2>2. Append(SubSeq(word, 1, i), word[i + 1]) = SubSeq(word, 1, i + 1)
    BY <1>2, <1>3
  <2>3. spelled'[current_root'] = SubSeq(word', 1, i')
    BY <1>2, <1>3, <2>1, <2>2 DEF FoundChild
  <2> QED
    BY <2>3, <1>1 DEF FoundChild, IInv, Spelling
<1> QED
  BY <1>1, <1>4, <1>5, <1>6 DEF IInv

(* going on to the next child, *)
LEMMA NextChildInv == ASSUME IInv, NextChild PROVE IInv'
<1>1. /\ ParentsPrecede' /\ ListsComplete' /\ SiblingsDiffer' /\ Nodes' = Nodes
      /\ Children(current_root)' = Children(current_root)
  BY TreeUnchanged DEF NextChild, Children
<1>2. /\ current \in Children(current_root)
      /\ current \in Nodes \ {0}
      /\ node_buffer[current].parent = current_root
      /\ \A n \in Children(current_root) : n < current => node_buffer[n].c # word[i + 1]
      /\ i < Len(word)
  BY DEF NextChild, IInv, WalkOK, Children
<1>3. IF current' = 0 THEN \A n \in Children(current_root) : n <= current
      ELSE /\ current' \in Children(current_root)
           /\ \A n \in Children(current_root) : n > current => current' <= n
  BY <1>2 DEF NextChild, IInv, ListsComplete
<1>4. TypeOK'
  <2>1. current' \in Nodes
    BY <1>3 DEF Children, Nodes, IInv, TypeOK
  <2> QED
    BY <1>1, <1>2, <2>1 DEF NextChild, IInv, TypeOK
<1>5. WalkOK'
  <2>1. Children(current_root) \subseteq Nat /\ current \in Nat /\ current' \in Nat
    BY <1>2, <1>4 DEF Children, Nodes, TypeOK, IInv
  <2>2. ASSUME NEW n \in Children(current_root), current' = 0 \/ n < current'
        PROVE  node_buffer[n].c # word[i + 1]
    <3>1. n <= current
      BY <2>1, <2>2, <1>3
    <3> QED
      BY <2>1, <3>1, <1>2 DEF NextChild
  <2>3. current' = 0 => node_buffer[previous'].next = 0
    BY DEF NextChild
  <2>4. previous' \in Children(current_root)
    BY <1>2 DEF NextChild
  <2>5. current' # 0 => current' \in Children(current_root)
    BY <1>3
  <2> QED
    BY <1>1, <1>2, <2>2, <2>3, <2>4, <2>5 DEF NextChild, WalkOK
<1>6. Spelling'
  BY <1>1 DEF NextChild, IInv, Spelling
<1> QED
  BY <1>1, <1>4, <1>5, <1>6 DEF IInv

(* and returning the index of the word. *)
LEMMA ReturnInv == ASSUME IInv, Return PROVE IInv'
<1>1. /\ ParentsPrecede' /\ ListsComplete' /\ SiblingsDiffer' /\ Nodes' = Nodes
  BY TreeUnchanged DEF Return
<1>2. /\ current_root \in Nodes /\ nodes_indeces \in Seq(Nodes)
      /\ word \in Seq(Char) /\ requests \in Seq(Seq(Char))
      /\ Len(requests) = Len(nodes_indeces)
      /\ nodes_indeces' = Append(nodes_indeces, current_root)
      /\ requests' = Append(requests, word)
      /\ spelled' = spelled
  BY DEF Return, IInv, TypeOK
<1>3. TypeOK'
  <2>1. /\ nodes_indeces' \in Seq(Nodes)
        /\ requests' \in Seq(Seq(Char))
        /\ Len(requests') = Len(nodes_indeces')
    BY <1>2
  <2> QED
    BY <1>1, <2>1 DEF Return, IInv, TypeOK, cursors
<1>4. WalkOK'
  BY DEF Return, WalkOK
<1>5. Spelling'
  <2>1. spelled[current_root] = word
    BY <1>2 DEF Return, IInv, Spelling, TypeOK
  <2>2. ASSUME NEW k \in DOMAIN nodes_indeces'
        PROVE  spelled'[nodes_indeces'[k]] = requests'[k]
    <3>1. CASE k = Len(nodes_indeces) + 1
      BY <3>1, <1>2, <2>1
    <3>2. CASE k \in DOMAIN nodes_indeces
      <4>1. nodes_indeces'[k] = nodes_indeces[k] /\ requests'[k] = requests[k]
        BY <3>2, <1>2
      <4> QED
        BY <3>2, <4>1, <1>2 DEF IInv, Spelling
    <3> QED
      BY <3>1, <3>2, <1>2
  <2> QED
    BY <1>1, <2>2 DEF Return, IInv, Spelling
<1> QED
  BY <1>1, <1>3, <1>4, <1>5 DEF IInv

(* Every step of the tree preserves the invariant. *)
LEMMA NextIInv == IInv /\ [Next]_vars => IInv'
<1> SUFFICES ASSUME IInv, [Next]_vars PROVE IInv'
  OBVIOUS
<1>1. CASE \E s \in Words : Insert(s)
  BY <1>1, InsertInv
<1>2. CASE AddFirstChild
  BY <1>2, AddFirstChildInv
<1>3. CASE EnterList
  BY <1>3, EnterListInv
<1>4. CASE FoundChild
  BY <1>4, FoundChildInv
<1>5. CASE NextChild
  BY <1>5, NextChildInv
<1>6. CASE AppendChild
  BY <1>6, AppendChildInv
<1>7. CASE Return
  BY <1>7, ReturnInv
<1>8. CASE UNCHANGED vars
  <2>1. ParentsPrecede' /\ ListsComplete' /\ SiblingsDiffer' /\ Nodes' = Nodes
    BY <1>8, TreeUnchanged DEF vars
  <2>2. TypeOK'
    BY <1>8, <2>1 DEF vars, IInv, TypeOK
  <2>3. WalkOK'
    BY <1>8 DEF vars, IInv, WalkOK, Children, Nodes
  <2>4. Spelling'
    BY <1>8, <2>1 DEF vars, IInv, Spelling
  <2> QED
    BY <2>1, <2>2, <2>3, <2>4 DEF IInv
<1> QED
  BY <1>1, <1>2, <1>3, <1>4, <1>5, <1>6, <1>7, <1>8 DEF Next, AddChild

-----------------------------------------------------------------------------
(* Every reachable state of the tree satisfies the inductive invariant.     *)
THEOREM Inductive == Spec => []IInv
BY InitIInv, NextIInv, PTL DEF Spec

(* The lists that add_child walks are complete, and a label occurs once     *)
(* among siblings, for every alphabet and every sequence of inserts.        *)
THEOREM ListsCorrect == Spec => [](ListsComplete /\ SiblingsDiffer)
<1>1. IInv => ListsComplete /\ SiblingsDiffer
  BY DEF IInv
<1> QED
  BY <1>1, Inductive, PTL

(* The contract of Trie::insert: equal indices for equal words only.        *)
THEOREM InsertContract == Spec => []SameIndexIffSameWord
<1>1. IInv => SameIndexIffSameWord
  <2> SUFFICES ASSUME IInv, NEW j \in DOMAIN nodes_indeces, NEW k \in DOMAIN nodes_indeces
               PROVE  nodes_indeces[j] = nodes_indeces[k] <=> requests[j] = requests[k]
    BY DEF SameIndexIffSameWord
  <2>1. /\ nodes_indeces[j] \in Nodes /\ nodes_indeces[k] \in Nodes
        /\ spelled[nodes_indeces[j]] = requests[j]
        /\ spelled[nodes_indeces[k]] = requests[k]
    <3>1. nodes_indeces \in Seq(Nodes)
      BY DEF IInv, TypeOK
    <3> QED
      BY <3>1 DEF IInv, Spelling
  <2> QED
    BY <2>1 DEF IInv, Spelling
<1> QED
  BY <1>1, Inductive, PTL

(* The tree implements the table of words: no index is ever changed, a new  *)
(* word gets a new index, and insert answers from the table.                *)
THEOREM Implements == Spec => ImplementsTable
<1> DEFINE t == {<<spelled[n], n>> : n \in Nodes}
           ans == [k \in DOMAIN nodes_indeces |-> <<requests[k], nodes_indeces[k]>>]
<1>1. Init => Table!Init
  <2> SUFFICES ASSUME Init PROVE Table!Init
    OBVIOUS
  <2>1. t = {<<<<>>, 0>>}
    BY DEF Init, Nodes
  <2>2. ans = <<>>
    BY DEF Init
  <2> QED
    BY <2>1, <2>2 DEF Table!Init
<1>2. ASSUME IInv, IInv', NEW old, PushNode(old)
      PROVE  Table!Learn
  <2> DEFINE e == <<spelled'[size], size>>
  <2>1. /\ Nodes' = Nodes \cup {size}
        /\ size \notin Nodes
        /\ \A n \in Nodes : spelled'[n] = spelled[n]
        /\ nodes_indeces' = nodes_indeces
        /\ requests' = requests
    BY <1>2 DEF PushNode, IInv, TypeOK, Nodes
  <2>2. t' = t \cup {e}
    BY <2>1
  <2>3. ans' = ans
    BY <2>1
  <2>4. ASSUME NEW known \in t
        PROVE  known[1] # e[1] /\ known[2] # e[2]
    <3>1. PICK n \in Nodes : known = <<spelled[n], n>>
      OBVIOUS
    <3>2. n # size /\ spelled'[n] # spelled'[size]
      BY <1>2, <2>1 DEF IInv, Spelling
    <3> QED
      BY <2>1, <3>1, <3>2
  <2>5. e \in t' \ t
    BY <2>2, <2>4
  <2> HIDE DEF t, ans, e
  <2> QED
    BY <2>2, <2>3, <2>4, <2>5 DEF Table!Learn, t, ans
<1>3. ASSUME IInv, Return
      PROVE  Table!Answer
  <2> DEFINE e == <<spelled[current_root], current_root>>
  <2>1. /\ current_root \in Nodes
        /\ word = spelled[current_root]
        /\ nodes_indeces \in Seq(Nodes) /\ requests \in Seq(Seq(Char))
        /\ Len(requests) = Len(nodes_indeces)
    <3>1. /\ current_root \in Nodes /\ nodes_indeces \in Seq(Nodes)
          /\ requests \in Seq(Seq(Char)) /\ Len(requests) = Len(nodes_indeces)
          /\ word \in Seq(Char) /\ i = Len(word) /\ pc = "insert"
      BY <1>3 DEF Return, IInv, TypeOK
    <3>2. SubSeq(word, 1, Len(word)) = word
      BY <3>1
    <3> QED
      BY <1>3, <3>1, <3>2 DEF IInv, Spelling
  <2>2. /\ nodes_indeces' = Append(nodes_indeces, current_root)
        /\ requests' = Append(requests, word)
        /\ size' = size /\ spelled' = spelled
    BY <1>3 DEF Return
  <2>3. e \in t
    BY <2>1
  <2>4. t' = t
    BY <2>2 DEF Nodes
  <2>5. ans' = Append(ans, e)
    <3>1. ans \in Seq(Seq(Char) \X Nodes) /\ Len(ans) = Len(nodes_indeces)
      BY <2>1
    <3>2. DOMAIN nodes_indeces' = 1 .. Len(nodes_indeces) + 1
      BY <2>1, <2>2
    <3>3. DOMAIN ans' = 1 .. Len(nodes_indeces) + 1
      BY <2>1, <2>2, <3>2
    <3>4. ASSUME NEW k \in 1 .. Len(nodes_indeces)
          PROVE  ans'[k] = ans[k]
      <4>1. nodes_indeces'[k] = nodes_indeces[k] /\ requests'[k] = requests[k]
        BY <2>1, <2>2
      <4>2. ans[k] = <<requests[k], nodes_indeces[k]>>
        BY <2>1
      <4>3. k \in DOMAIN nodes_indeces'
        BY <2>1, <3>2
      <4>4. ans'[k] = <<requests'[k], nodes_indeces'[k]>>
        BY <4>3
      <4> QED
        BY <4>1, <4>2, <4>4
    <3>5. ans'[Len(nodes_indeces) + 1] = e
      BY <2>1, <2>2, <3>3
    <3>6. ans' = [k \in 1 .. Len(nodes_indeces) + 1 |-> ans'[k]]
      BY <3>3
    <3> HIDE DEF ans, e
    <3> QED
      BY <3>1, <3>3, <3>4, <3>5, <3>6
  <2> HIDE DEF t, ans, e
  <2> QED
    BY <2>3, <2>4, <2>5 DEF Table!Answer, t, ans
<1>4. ASSUME UNCHANGED <<size, spelled, nodes_indeces, requests>>
      PROVE  UNCHANGED Table!tvars
  BY <1>4 DEF Table!tvars, Nodes
<1>5. IInv /\ IInv' /\ [Next]_vars => [Table!Next]_(Table!tvars)
  <2> SUFFICES ASSUME IInv, IInv', [Next]_vars
               PROVE  Table!Learn \/ Table!Answer \/ UNCHANGED Table!tvars
    BY DEF Table!Next
  <2>1. CASE AddFirstChild \/ AppendChild
    BY <2>1, <1>2 DEF AddFirstChild, AppendChild
  <2>2. CASE Return
    BY <2>2, <1>3
  <2>3. CASE \E s \in Words : Insert(s)
    BY <2>3, <1>4 DEF Insert
  <2>4. CASE EnterList \/ FoundChild \/ NextChild \/ UNCHANGED vars
    BY <2>4, <1>4 DEF EnterList, FoundChild, NextChild, vars
  <2> QED
    BY <2>1, <2>2, <2>3, <2>4 DEF Next, AddChild
<1> QED
  BY <1>1, <1>5, Inductive, PTL DEF Spec, ImplementsTable, Table!Spec

-----------------------------------------------------------------------------
(* A set of natural numbers has a least element: induction, for what the    *)
(* recursive functions of this module compute.                              *)
LEMMA LeastNumber ==
    ASSUME NEW S \in SUBSET Nat, NEW n \in S
    PROVE  \E m \in S : \A k \in S : m <= k
<1> DEFINE R == {p \in Nat \X Nat : p[1] < p[2]}
<1>1. IsWellFoundedOn(R, Nat)
  BY NatLessThanWellFounded DEF OpToRel
<1>2. \E x \in S : \A y \in S : ~ (<<y, x>> \in R)
  BY <1>1, WFMin
<1>3. \A x, y \in S : <<y, x>> \notin R => x <= y
  <2> TAKE x, y \in S
  <2>1. <<y, x>> \in Nat \X Nat /\ <<y, x>>[1] = y /\ <<y, x>>[2] = x
    OBVIOUS
  <2>2. x \in Nat /\ y \in Nat
    OBVIOUS
  <2> QED
    BY <2>1, <2>2
<1> QED
  BY <1>2, <1>3, Zenon

(* A set of natural numbers with a bound has a largest element. *)
LEMMA LargestNumber ==
    ASSUME NEW S \in SUBSET Nat, NEW n \in S, NEW b \in Nat, \A x \in S : x <= b
    PROVE  \E m \in S : \A k \in S : m >= k
<1> DEFINE U == {u \in Nat : \A x \in S : x <= u}
<1>1. PICK u \in U : \A v \in U : u <= v
  <2>1. U \in SUBSET Nat /\ b \in U
    OBVIOUS
  <2> HIDE DEF U
  <2> QED
    BY <2>1, LeastNumber
<1>2. u \in Nat /\ \A x \in S : x <= u /\ x \in Nat
  OBVIOUS
<1>3. u \in S
  <2> SUFFICES ASSUME u \notin S PROVE FALSE
    OBVIOUS
  <2>1. \A x \in S : x <= u - 1
    BY <1>2
  <2>2. u - 1 \in Nat
    BY <1>2, <2>1
  <2>3. u - 1 \in U
    BY <2>1, <2>2
  <2> QED
    BY <1>1, <1>2, <2>3
<1> QED
  BY <1>2, <1>3

(* The fields that count: the length of a node's path, and its children.    *)
Counted ==
    \A n \in Nodes : /\ node_buffer[n].path_len = Len(spelled[n])
                     /\ node_buffer[n].degree = Cardinality(Children(n))

(* There are fewer children than nodes. *)
LEMMA ChildrenAreFinite ==
    ASSUME IInv, NEW p \in Nodes
    PROVE  IsFiniteSet(Children(p)) /\ Cardinality(Children(p)) \in 0 .. size
<1>1. size \in Nat \ {0}
  BY DEF IInv, TypeOK
<1>2. IsFiniteSet(0 .. size - 1) /\ Cardinality(0 .. size - 1) = size
  BY <1>1, FS_Interval
<1>3. Children(p) \in SUBSET (0 .. size - 1)
  BY DEF Children, Nodes
<1>4. IsFiniteSet(Children(p)) /\ Cardinality(Children(p)) <= size
  BY <1>2, <1>3, FS_Subset
<1>5. Cardinality(Children(p)) \in Nat
  BY <1>4, FS_CardinalityType
<1> QED
  BY <1>1, <1>4, <1>5

(* A new node has a path one longer than its parent, and gives it a child.  *)
LEMMA PushCounts ==
    ASSUME IInv, Counted,
           NEW old \in [Nodes -> Node],
           \A n \in Nodes : old[n].path_len = node_buffer[n].path_len,
           \A n \in Nodes : old[n].degree =
               IF n = current_root THEN node_buffer[n].degree + 1 ELSE node_buffer[n].degree,
           word[i + 1] \in Char,
           PushNode(old),
           Nodes' = Nodes \cup {size},
           size \notin Nodes,
           \A p \in Nodes : Children(p)' = IF p = current_root THEN Children(p) \cup {size}
                                           ELSE Children(p),
           \A p \in Nodes' : p = size => Children(p)' = {}
    PROVE  Counted'
<1>1. /\ current_root \in Nodes /\ size \in Nat \ {0}
      /\ spelled \in [Nodes -> Seq(Char)]
  BY DEF IInv, TypeOK
<1>2. /\ \A n \in Nodes : node_buffer'[n] = old[n] /\ spelled'[n] = spelled[n]
      /\ node_buffer'[size] = NewNode
      /\ spelled'[size] = Append(spelled[current_root], word[i + 1])
  BY <1>1 DEF PushNode, Nodes
<1> SUFFICES ASSUME NEW n \in Nodes'
             PROVE  /\ node_buffer'[n].path_len = Len(spelled'[n])
                    /\ node_buffer'[n].degree = Cardinality(Children(n)')
  BY DEF Counted
<1>3. CASE n = size
  <2>1. NewNode.path_len = node_buffer[current_root].path_len + 1 /\ NewNode.degree = 0
    BY DEF NewNode
  <2>2. node_buffer[current_root].path_len = Len(spelled[current_root])
    BY <1>1 DEF Counted
  <2>3. Len(Append(spelled[current_root], word[i + 1])) = Len(spelled[current_root]) + 1
    <3>1. spelled[current_root] \in Seq(Char)
      BY <1>1
    <3> QED
      BY <3>1
  <2>4. Cardinality(Children(n)') = 0
    BY <1>3, FS_EmptySet
  <2> QED
    BY <1>2, <1>3, <2>1, <2>2, <2>3, <2>4
<1>4. CASE n \in Nodes
  <2>1. node_buffer'[n].path_len = Len(spelled'[n])
    BY <1>2, <1>4 DEF Counted
  <2>2. CASE n = current_root
    <3>1. IsFiniteSet(Children(n)) /\ size \notin Children(n)
      BY <1>4, ChildrenAreFinite DEF Children
    <3>2. Cardinality(Children(n) \cup {size}) = Cardinality(Children(n)) + 1
      BY <3>1, FS_AddElement
    <3>3. node_buffer'[n].degree = node_buffer[n].degree + 1
      BY <1>2, <1>4, <2>2
    <3> QED
      BY <1>4, <2>1, <2>2, <3>2, <3>3 DEF Counted
  <2>3. CASE n # current_root
    BY <1>2, <1>4, <2>1, <2>3 DEF Counted
  <2> QED
    BY <2>2, <2>3
<1> QED
  BY <1>3, <1>4

(* Both ways to add a node count the child. *)
LEMMA AddFirstChildCounts == IInv /\ Counted /\ AddFirstChild => Counted'
<1> DEFINE old == [node_buffer EXCEPT ![current_root] =
                      [@ EXCEPT !.first_child = size, !.degree = 1]]
<1> SUFFICES ASSUME IInv, Counted, AddFirstChild PROVE Counted'
  OBVIOUS
<1>0. /\ current_root \in Nodes /\ 0 \in Nodes
      /\ node_buffer \in [Nodes -> Node]
      /\ i \in Nat /\ word \in Seq(Char)
  BY DEF IInv, TypeOK, Nodes
<1>1. /\ pc = "insert" /\ i < Len(word)
      /\ node_buffer[current_root].first_child = 0
      /\ PushNode(old) /\ current' = 0 /\ previous' = 0
  BY DEF AddFirstChild
<1>2. Children(current_root) = {} /\ node_buffer[current_root].degree = 0
  BY <1>0, <1>1, FS_EmptySet DEF IInv, ListsComplete, Counted
<1>3. old \in [Nodes -> Node]
  <2>1. [node_buffer[current_root] EXCEPT !.first_child = size, !.degree = 1] \in Node
    BY <1>0 DEF Node, IInv, TypeOK
  <2> QED
    BY <1>0, <2>1
<1>4. \A n \in Nodes : /\ old[n].parent = node_buffer[n].parent
                       /\ old[n].c = node_buffer[n].c
                       /\ old[n].path_len = node_buffer[n].path_len
                       /\ old[n].degree = IF n = current_root THEN node_buffer[n].degree + 1
                                          ELSE node_buffer[n].degree
  BY <1>0, <1>2 DEF Node
<1>5. word[i + 1] \in Char
  BY <1>0, <1>1
<1> HIDE DEF old
<1>6. /\ Nodes' = Nodes \cup {size}
      /\ size \notin Nodes
      /\ \A p \in Nodes : Children(p)' = IF p = current_root
                                         THEN Children(p) \cup {size}
                                         ELSE Children(p)
      /\ \A p \in Nodes' : p = size => Children(p)' = {}
  BY <1>0, <1>1, <1>2, <1>3, <1>4, PushPreserves
<1> QED
  BY <1>1, <1>3, <1>4, <1>5, <1>6, PushCounts

(* A child at the end of the list is counted. *)
LEMMA AppendChildCounts == IInv /\ Counted /\ AppendChild => Counted'
<1> DEFINE old == [n \in Nodes |-> [node_buffer[n] EXCEPT
                      !.next = IF n = previous THEN size ELSE @,
                      !.degree = IF n = current_root THEN @ + 1 ELSE @]]
<1> SUFFICES ASSUME IInv, Counted, AppendChild PROVE Counted'
  OBVIOUS
<1>0. /\ current_root \in Nodes /\ current \in Nodes /\ previous \in Nodes
      /\ size \in Nat
      /\ node_buffer \in [Nodes -> Node]
      /\ i \in Nat /\ word \in Seq(Char)
  BY DEF IInv, TypeOK
<1>1. /\ pc = "walk" /\ current = 0
      /\ PushNode(old) /\ current' = current /\ previous' = previous
  BY DEF AppendChild, cursors
<1>2. i < Len(word) /\ \A n \in Children(current_root) : node_buffer[n].c # word[i + 1]
  BY <1>1 DEF IInv, WalkOK
<1>3. old \in [Nodes -> Node]
  <2> SUFFICES ASSUME NEW n \in Nodes PROVE old[n] \in Node
    OBVIOUS
  <2> DEFINE nx == IF n = previous THEN size ELSE node_buffer[n].next
             dg == IF n = current_root THEN node_buffer[n].degree + 1
                                       ELSE node_buffer[n].degree
  <2>1. node_buffer[n] \in Node
    BY <1>0
  <2>2. nx \in Nat /\ dg \in Nat
    BY <2>1, <1>0 DEF Node
  <2>3. old[n] = [node_buffer[n] EXCEPT !.next = nx, !.degree = dg]
    OBVIOUS
  <2> HIDE DEF nx, dg, old
  <2> QED
    BY <2>1, <2>2, <2>3 DEF Node
<1>4. \A n \in Nodes : /\ old[n].parent = node_buffer[n].parent
                       /\ old[n].c = node_buffer[n].c
                       /\ old[n].path_len = node_buffer[n].path_len
                       /\ old[n].degree = IF n = current_root THEN node_buffer[n].degree + 1
                                          ELSE node_buffer[n].degree
  <2> TAKE n \in Nodes
  <2> DEFINE r == node_buffer[n]
  <2>1. r \in Node /\ old[n] = [r EXCEPT !.next = IF n = previous THEN size ELSE @,
                                         !.degree = IF n = current_root THEN @ + 1 ELSE @]
    BY <1>0
  <2> HIDE DEF r, old
  <2>2. /\ old[n].parent = r.parent /\ old[n].c = r.c /\ old[n].path_len = r.path_len
        /\ old[n].degree = IF n = current_root THEN r.degree + 1 ELSE r.degree
    BY <2>1 DEF Node
  <2> QED
    BY <2>2 DEF r
<1>5. word[i + 1] \in Char
  BY <1>0, <1>2
<1> HIDE DEF old
<1>6. /\ Nodes' = Nodes \cup {size}
      /\ size \notin Nodes
      /\ \A p \in Nodes : Children(p)' = IF p = current_root
                                         THEN Children(p) \cup {size}
                                         ELSE Children(p)
      /\ \A p \in Nodes' : p = size => Children(p)' = {}
  BY <1>0, <1>1, <1>2, <1>3, <1>4, PushPreserves
<1> QED
  BY <1>1, <1>3, <1>4, <1>5, <1>6, PushCounts

(* The other steps change no node. *)
LEMMA NextCounts == IInv /\ Counted /\ [Next]_vars => Counted'
<1> SUFFICES ASSUME IInv, Counted, [Next]_vars PROVE Counted'
  OBVIOUS
<1>1. CASE UNCHANGED <<size, node_buffer, spelled>>
  BY <1>1 DEF Counted, Children, Nodes
<1>2. CASE AddFirstChild
  BY <1>2, AddFirstChildCounts
<1>3. CASE AppendChild
  BY <1>3, AppendChildCounts
<1> QED
  BY <1>1, <1>2, <1>3
     DEF Next, AddChild, Insert, EnterList, FoundChild, NextChild, Return, vars

(* path_len and degree are right in every node of every reachable tree.     *)
THEOREM FieldsCount == Spec => []Counted
<1>1. Init => Counted
  <2> SUFFICES ASSUME Init PROVE Counted
    OBVIOUS
  <2>1. Nodes = {0} /\ Children(0) = {}
    BY DEF Init, Nodes, Children
  <2>2. Cardinality({}) = 0
    BY FS_EmptySet
  <2>3. node_buffer[0].path_len = 0 /\ node_buffer[0].degree = 0 /\ spelled[0] = <<>>
    BY DEF Init
  <2>4. Len(spelled[0]) = 0
    BY <2>3
  <2>5. Cardinality(Children(0)) = 0
    BY <2>1, <2>2
  <2> QED
    BY <2>1, <2>3, <2>4, <2>5 DEF Counted
<1> QED
  BY <1>1, NextCounts, Inductive, PTL DEF Spec

-----------------------------------------------------------------------------
(* Two functions that follow from their values at the parents are equal:    *)
(* the parent of the least node at which they differ is a lesser one.       *)
LEMMA FollowParents ==
    ASSUME IInv, NEW f, NEW g, f[0] = g[0],
           \A n \in Nodes \ {0} :
               f[node_buffer[n].parent] = g[node_buffer[n].parent] => f[n] = g[n],
           NEW idx \in Nodes
    PROVE  f[idx] = g[idx]
<1> DEFINE wrong == {n \in Nodes : f[n] # g[n]}
<1> SUFFICES ASSUME idx \in wrong PROVE FALSE
  OBVIOUS
<1>1. Nodes \subseteq Nat
  BY DEF IInv, TypeOK, Nodes
<1>2. PICK n \in wrong : \A k \in wrong : n <= k
  <2>1. wrong \in SUBSET Nat
    BY <1>1
  <2> HIDE DEF wrong
  <2> QED
    BY <2>1, LeastNumber
<1>3. n \in Nodes \ {0}
  OBVIOUS
<1> DEFINE p == node_buffer[n].parent
<1>4. p \in Nodes /\ p < n
  BY <1>3, ParentIsNode
<1>5. f[p] # g[p]
  BY <1>3
<1> HIDE DEF p
<1>6. n <= p
  BY <1>2, <1>4, <1>5
<1> QED
  BY <1>1, <1>3, <1>4, <1>6

(* The walk from a node to the root reads the word the node spells: the     *)
(* recursive function has one value only, since parents precede.            *)
LEMMA StringOfNode ==
    ASSUME IInv, NEW idx \in Nodes
    PROVE  get_string(idx) = spelled[idx]
<1> DEFINE Def(f) == [n \in Nodes |-> IF n = 0 THEN <<>>
                                      ELSE Append(f[node_buffer[n].parent], node_buffer[n].c)]
<1>1. 0 \in Nodes /\ spelled \in [Nodes -> Seq(Char)]
  BY DEF IInv, TypeOK, Nodes
<1>2. spelled = Def(spelled)
  BY <1>1 DEF IInv, Spelling
<1>3. ASSUME NEW f, f = Def(f)
      PROVE  f[idx] = spelled[idx]
  <2>1. \A m \in Nodes : f[m] = IF m = 0 THEN <<>>
                                ELSE Append(f[node_buffer[m].parent], node_buffer[m].c)
    BY <1>3
  <2>2. \A m \in Nodes : spelled[m] = IF m = 0 THEN <<>>
                            ELSE Append(spelled[node_buffer[m].parent], node_buffer[m].c)
    BY <1>2
  <2>3. f[0] = spelled[0]
    BY <1>1, <2>1, <2>2
  <2> QED
    BY <2>1, <2>2, <2>3, FollowParents
<1> DEFINE read == CHOOSE f : f = Def(f)
<1>4. read = Def(read)
  <2> HIDE DEF Def
  <2> QED
    BY <1>2, Zenon
<1>5. get_string(idx) = read[idx]
  BY DEF get_string
<1> HIDE DEF read, Def
<1> QED
  BY <1>3, <1>4, <1>5

(* The set of a node is that of the letters of its word. *)
LEMMA SetOfNode ==
    ASSUME IInv, NEW idx \in Nodes
    PROVE  get_set(idx) = {spelled[idx][j] : j \in DOMAIN spelled[idx]}
<1> DEFINE Letters(w) == {w[j] : j \in DOMAIN w}
           Def(f) == [n \in Nodes |-> IF n = 0 THEN {}
                                      ELSE f[node_buffer[n].parent] \cup {node_buffer[n].c}]
           letters == [n \in Nodes |-> Letters(spelled[n])]
<1>1. 0 \in Nodes /\ spelled \in [Nodes -> Seq(Char)]
  BY DEF IInv, TypeOK, Nodes
<1>2. letters = Def(letters)
  <2>1. ASSUME NEW n \in Nodes
        PROVE  Letters(spelled[n]) =
                   IF n = 0 THEN {}
                   ELSE letters[node_buffer[n].parent] \cup {node_buffer[n].c}
    <3>1. CASE n = 0
      BY <3>1 DEF IInv, Spelling
    <3>2. CASE n # 0
      <4> DEFINE p == node_buffer[n].parent
                 x == node_buffer[n].c
      <4>1. p \in Nodes
        BY <3>2, ParentIsNode
      <4>2. spelled[n] = Append(spelled[p], x)
        BY <3>2 DEF IInv, Spelling
      <4>3. spelled[p] \in Seq(Char)
        BY <1>1, <4>1
      <4> HIDE DEF p, x
      <4> DEFINE w == spelled[p]
      <4>4. Letters(Append(w, x)) = Letters(w) \cup {x}
        <5>1. w \in Seq(Char)
          BY <4>3
        <5> HIDE DEF w
        <5>2. /\ Len(w) \in Nat /\ DOMAIN w = 1 .. Len(w)
              /\ DOMAIN Append(w, x) = 1 .. Len(w) + 1
              /\ \A j \in 1 .. Len(w) : Append(w, x)[j] = w[j]
              /\ Append(w, x)[Len(w) + 1] = x
          BY <5>1
        <5>3. 1 .. Len(w) + 1 = (1 .. Len(w)) \cup {Len(w) + 1}
          BY <5>2
        <5> QED
          BY <5>2, <5>3
      <4> QED
        BY <3>2, <4>1, <4>2, <4>4 DEF p, x
    <3> QED
      BY <3>1, <3>2
  <2> HIDE DEF Letters
  <2> QED
    BY <2>1
<1>3. ASSUME NEW f, f = Def(f)
      PROVE  f[idx] = letters[idx]
  <2> HIDE DEF letters
  <2>1. \A m \in Nodes : f[m] = IF m = 0 THEN {}
                                ELSE f[node_buffer[m].parent] \cup {node_buffer[m].c}
    BY <1>3
  <2>2. \A m \in Nodes : letters[m] = IF m = 0 THEN {}
                            ELSE letters[node_buffer[m].parent] \cup {node_buffer[m].c}
    BY <1>2
  <2> HIDE DEF Def
  <2>3. f[0] = letters[0]
    BY <1>1, <2>1, <2>2
  <2>4. ASSUME NEW m \in Nodes \ {0},
               f[node_buffer[m].parent] = letters[node_buffer[m].parent]
        PROVE  f[m] = letters[m]
    <3>1. f[m] = f[node_buffer[m].parent] \cup {node_buffer[m].c}
      BY <2>1
    <3>2. letters[m] = letters[node_buffer[m].parent] \cup {node_buffer[m].c}
      BY <2>2
    <3> QED
      BY <2>4, <3>1, <3>2
  <2> QED
    BY <2>3, <2>4, FollowParents
<1> DEFINE read == CHOOSE f : f = Def(f)
<1>4. read = Def(read)
  <2> HIDE DEF Def, letters
  <2> QED
    BY <1>2, Zenon
<1>5. get_set(idx) = read[idx]
  BY DEF get_set
<1>6. letters[idx] = Letters(spelled[idx])
  OBVIOUS
<1> HIDE DEF read, Def, letters
<1> QED
  BY <1>3, <1>4, <1>5, <1>6

(* maximal_degree is the largest degree of a node, the root apart.          *)
LEMMA DegreesAreBounded ==
    ASSUME IInv, Counted, NEW p \in Nodes \ {0}
    PROVE  Cardinality(Children(p)) <= maximal_degree
<1> DEFINE S == {0} \cup {node_buffer[n].degree : n \in Nodes \ {0}}
<1>1. S \in SUBSET Nat /\ size \in Nat /\ \A x \in S : x <= size
  <2>1. \A n \in Nodes : node_buffer[n].degree \in 0 .. size
    BY ChildrenAreFinite DEF Counted
  <2>2. size \in Nat
    BY DEF IInv, TypeOK
  <2> QED
    BY <2>1, <2>2
<1>2. node_buffer[p].degree \in S /\ node_buffer[p].degree = Cardinality(Children(p))
  BY DEF Counted
<1>3. 0 \in S
  OBVIOUS
<1>4. maximal_degree = Max(S)
  BY DEF maximal_degree
<1> HIDE DEF S
<1>5. \E m \in S : \A k \in S : m >= k
  BY <1>1, <1>3, LargestNumber
<1>6. Max(S) \in S /\ \A k \in S : Max(S) >= k
  BY <1>5, Zenon DEF Max
<1> QED
  BY <1>1, <1>2, <1>4, <1>6

(* What get_string, get_length and get_set read back from an index is the   *)
(* word that was inserted, its length and its letters, after any insertions *)
(* since; and no list of children is longer than maximal_degree.            *)
THEOREM WordsAreReadBack == Spec => []ReadBack
<1>1. IInv /\ Counted => ReadBack
  <2> SUFFICES ASSUME IInv, Counted PROVE ReadBack
    OBVIOUS
  <2>1. ASSUME NEW k \in DOMAIN nodes_indeces
        PROVE  /\ get_string(nodes_indeces[k]) = requests[k]
               /\ get_length(nodes_indeces[k]) = Len(requests[k])
               /\ get_set(nodes_indeces[k]) = {requests[k][j] : j \in DOMAIN requests[k]}
    <3>1. nodes_indeces[k] \in Nodes
      BY DEF IInv, TypeOK
    <3>2. spelled[nodes_indeces[k]] = requests[k]
      BY DEF IInv, Spelling
    <3> QED
      BY <3>1, <3>2, StringOfNode, SetOfNode DEF get_length, Counted
  <2> QED
    BY <2>1, DegreesAreBounded DEF ReadBack
<1> QED
  BY <1>1, FieldsCount, Inductive, PTL

-----------------------------------------------------------------------------
(* The table of categories.  The tree of its permutation is a binary tree   *)
(* whose sons have the numbers 2p and 2p + 1; the traversal meets the nodes *)
(* in order, so that what is left of a node is before it in the segments.   *)

(* The sets of nodes that contain with a node its parent *)
Upward(S) == \A p \in Nat \ {0} : 2 * p \in S \/ 2 * p + 1 \in S => p \in S

(* The nodes on the way from the node u to the root *)
Way(u) == {v \in Nat : \A S \in SUBSET Nat : u \in S /\ Upward(S) => v \in S}

(* Of the nodes from 1 to n: those below v, v among them *)
Below(n, v) == {u \in 1 .. n : v \in Way(u)}

(* Those that come before the whole subtree of v in the order of the        *)
(* traversal                                                                *)
Ahead(n, v) == {u \in 1 .. n : \E p \in 1 .. n : /\ u = p \/ u \in Below(n, 2 * p)
                                                 /\ v \in Below(n, 2 * p + 1)}

(* Those that come before v itself *)
Before(n, v) == Ahead(n, v) \cup Below(n, 2 * v)

(* A way begins at its node. *)
LEMMA WayStart == \A u \in Nat : u \in Way(u)
BY DEF Way

(* The way of the root is the root. *)
LEMMA WayOfRoot == Way(1) = {1}
<1>1. Upward({1})
  BY DEF Upward
<1>2. \A v \in Way(1) : v = 1
  BY <1>1 DEF Way
<1> QED
  BY <1>2, WayStart

(* The way of a son goes on at its father. *)
LEMMA WayOfSons ==
    ASSUME NEW p \in Nat \ {0}, NEW u \in {2 * p, 2 * p + 1}
    PROVE  Way(u) = {u} \cup Way(p)
<1>1. ASSUME NEW v \in Way(u), v # u PROVE v \in Way(p)
  <2> SUFFICES ASSUME NEW S \in SUBSET Nat, p \in S, Upward(S)
               PROVE  v \in S
    BY <1>1 DEF Way
  <2>1. u \in Nat
    OBVIOUS
  <2>2. Upward(S \cup {u})
    <3> SUFFICES ASSUME NEW q \in Nat \ {0}, 2 * q \in S \cup {u} \/ 2 * q + 1 \in S \cup {u}
                 PROVE  q \in S \cup {u}
      BY DEF Upward
    <3>1. CASE 2 * q \in S \/ 2 * q + 1 \in S
      BY <3>1 DEF Upward
    <3>2. CASE u \in {2 * q, 2 * q + 1}
      <4>1. q = p
        BY <3>2
      <4> QED
        BY <4>1
    <3> QED
      BY <3>1, <3>2
  <2>3. v \in S \cup {u}
    BY <2>1, <2>2, <1>1 DEF Way
  <2> QED
    BY <2>3, <1>1
<1>2. ASSUME NEW v \in Way(p) PROVE v \in Way(u)
  <2> SUFFICES ASSUME NEW S \in SUBSET Nat, u \in S, Upward(S)
               PROVE  v \in S
    BY <1>2 DEF Way
  <2>1. p \in S
    BY DEF Upward
  <2> QED
    BY <2>1, <1>2 DEF Way
<1>3. u \in Way(u)
  BY WayStart
<1> QED
  BY <1>1, <1>2, <1>3

(* A way goes to smaller numbers. *)
LEMMA WayUp == \A u \in Nat \ {0} : Way(u) \subseteq 1 .. u
<1> TAKE u \in Nat \ {0}
<1>1. Upward(1 .. u)
  BY DEF Upward
<1> QED
  BY <1>1 DEF Way

(* Every node but the root is a son. *)
LEMMA Sons == \A u \in Nat \ {0, 1} : \E p \in 1 .. u - 1 : u = 2 * p \/ u = 2 * p + 1
<1> TAKE u \in Nat \ {0, 1}
<1>1. u \div 2 \in 1 .. u - 1 /\ (u = 2 * (u \div 2) \/ u = 2 * (u \div 2) + 1)
  OBVIOUS
<1> QED
  BY <1>1

(* A way goes through one of two sons only. *)
LEMMA OneSon ==
    \A u \in Nat \ {0} : \A p \in Nat \ {0} : ~(2 * p \in Way(u) /\ 2 * p + 1 \in Way(u))
<1> SUFFICES ASSUME NEW p \in Nat \ {0},
                    NEW w \in Nat \ {0}, 2 * p \in Way(w), 2 * p + 1 \in Way(w)
             PROVE  FALSE
  OBVIOUS
<1> DEFINE Bad == {u \in Nat : u # 0 /\ 2 * p \in Way(u) /\ 2 * p + 1 \in Way(u)}
<1>1. PICK u \in Bad : \A v \in Bad : u <= v
  <2>1. w \in Bad
    OBVIOUS
  <2> HIDE DEF Bad
  <2>2. Bad \subseteq Nat /\ Bad # {}
    BY <2>1 DEF Bad
  <2> QED
    BY <2>1, <2>2, LeastNumber
<1>2. u # 1
  BY <1>1, WayOfRoot
<1>3. PICK q \in 1 .. u - 1 : u = 2 * q \/ u = 2 * q + 1
  BY <1>1, <1>2, Sons
<1>4. Way(u) = {u} \cup Way(q)
  <2>1. q \in Nat \ {0} /\ u \in {2 * q, 2 * q + 1}
    BY <1>1, <1>3
  <2> HIDE DEF Bad
  <2> QED
    BY <2>1, WayOfSons
<1>5. Way(q) \subseteq 1 .. q
  BY <1>1, <1>3, WayUp
<1>6. q \notin Bad
  BY <1>1, <1>3
<1>7. ~(2 * p \in Way(q) /\ 2 * p + 1 \in Way(q))
  BY <1>1, <1>3, <1>6
<1>8. \/ u = 2 * p /\ 2 * p + 1 \in Way(q)
      \/ u = 2 * p + 1 /\ 2 * p \in Way(q)
  BY <1>1, <1>4, <1>7
<1>9. CASE u = 2 * p /\ 2 * p + 1 \in Way(q)
  <2>1. 2 * p + 1 <= q
    BY <1>9, <1>5
  <2> QED
    BY <2>1, <1>9, <1>3
<1>10. CASE u = 2 * p + 1 /\ 2 * p \in Way(q)
  <2>1. 2 * p <= q
    BY <1>10, <1>5
  <2> QED
    BY <2>1, <1>10, <1>3
<1> QED
  BY <1>8, <1>9, <1>10

-----------------------------------------------------------------------------
(* What is below a node: the node, and what is below its sons *)
LEMMA BelowParts ==
    ASSUME NEW n \in Nat, NEW v \in Nat \ {0}
    PROVE  /\ Below(n, v) = ({v} \cap 1 .. n) \cup Below(n, 2 * v) \cup Below(n, 2 * v + 1)
           /\ Below(n, v) \subseteq v .. n
<1>1. \A u \in 1 .. n : Way(u) \subseteq 1 .. u
  BY WayUp
<1>2. Below(n, v) \subseteq v .. n
  BY <1>1 DEF Below
<1>3. ASSUME NEW u \in Below(n, v), u # v
      PROVE  u \in Below(n, 2 * v) \cup Below(n, 2 * v + 1)
  <2> DEFINE Bad == {w \in Nat : /\ w \in Below(n, v) /\ w # v
                                 /\ w \notin Below(n, 2 * v) \cup Below(n, 2 * v + 1)}
  <2> SUFFICES ASSUME u \in Bad PROVE FALSE
    BY <1>3 DEF Below
  <2>1. PICK w \in Bad : \A x \in Bad : w <= x
    <3>1. Bad \in SUBSET Nat /\ u \in Bad
      OBVIOUS
    <3> HIDE DEF Bad
    <3> QED
      BY <3>1, LeastNumber
  <2>2. w \in 1 .. n /\ w \in v .. n /\ w # v /\ v \in Way(w)
    BY <2>1, <1>2 DEF Below
  <2>3. PICK q \in 1 .. w - 1 : w = 2 * q \/ w = 2 * q + 1
    <3>1. w \in Nat \ {0, 1}
      BY <2>2
    <3> QED
      BY <3>1, Sons
  <2>4. Way(w) = {w} \cup Way(q)
    <3>1. q \in Nat \ {0} /\ w \in {2 * q, 2 * q + 1}
      BY <2>2, <2>3
    <3> HIDE DEF Bad
    <3> QED
      BY <3>1, WayOfSons
  <2>5. v \in Way(q) /\ q \in 1 .. n
    BY <2>2, <2>3, <2>4
  <2>6. CASE q = v
    <3>1. w \in Way(w)
      BY <2>2, WayStart
    <3>2. w \in Below(n, 2 * v) \cup Below(n, 2 * v + 1)
      BY <2>2, <2>3, <2>6, <3>1 DEF Below
    <3> QED
      BY <3>2, <2>1
  <2>7. CASE q # v
    <3>1. q \in Below(n, v)
      BY <2>5 DEF Below
    <3>2. q \in Below(n, 2 * v) \cup Below(n, 2 * v + 1)
      BY <3>1, <2>1, <2>3, <2>7
    <3>3. w \in Below(n, 2 * v) \cup Below(n, 2 * v + 1)
      BY <3>2, <2>4, <2>2 DEF Below
    <3> QED
      BY <3>3, <2>1
  <2> QED
    BY <2>6, <2>7
<1>4. ASSUME NEW u \in Below(n, 2 * v) \cup Below(n, 2 * v + 1)
      PROVE  u \in Below(n, v)
  <2>1. PICK s \in {2 * v, 2 * v + 1} : s \in Way(u) /\ u \in 1 .. n
    BY <1>4 DEF Below
  <2>2. v \in Way(u)
    <3> SUFFICES ASSUME NEW S \in SUBSET Nat, u \in S, Upward(S) PROVE v \in S
      BY DEF Way
    <3>1. s \in S
      BY <2>1 DEF Way
    <3> QED
      BY <3>1, <2>1 DEF Upward
  <2> QED
    BY <2>1, <2>2 DEF Below
<1>5. v \in 1 .. n => v \in Below(n, v)
  BY WayStart DEF Below
<1> QED
  BY <1>2, <1>3, <1>4, <1>5

(* All nodes are below the root. *)
LEMMA BelowRoot == \A n \in Nat \ {0} : Below(n, 1) = 1 .. n
<1> TAKE n \in Nat \ {0}
<1> DEFINE Bad == {u \in 1 .. n : 1 \notin Way(u)}
<1> SUFFICES ASSUME NEW w \in Bad PROVE FALSE
  BY DEF Below
<1>1. PICK u \in Bad : \A x \in Bad : u <= x
  <2>1. Bad \in SUBSET Nat /\ w \in Bad
    OBVIOUS
  <2> HIDE DEF Bad
  <2> QED
    BY <2>1, LeastNumber
<1>2. u # 1
  BY <1>1, WayOfRoot
<1>3. PICK q \in 1 .. u - 1 : u = 2 * q \/ u = 2 * q + 1
  <2>1. u \in Nat \ {0, 1}
    BY <1>1, <1>2
  <2> QED
    BY <2>1, Sons
<1>4. Way(u) = {u} \cup Way(q)
  <2>1. q \in Nat \ {0} /\ u \in {2 * q, 2 * q + 1}
    BY <1>1, <1>3
  <2> HIDE DEF Bad
  <2> QED
    BY <2>1, WayOfSons
<1> QED
  BY <1>1, <1>3, <1>4

(* Nothing comes before the subtree of the root; what comes before a left   *)
(* subtree comes before that of its parent; before a right subtree come     *)
(* also the parent and its left subtree.                                    *)
LEMMA AheadOfRoot == \A n \in Nat : Ahead(n, 1) = {}
<1> SUFFICES ASSUME NEW n \in Nat, NEW p \in 1 .. n, 1 \in Below(n, 2 * p + 1) PROVE FALSE
  BY DEF Ahead
<1>1. 2 * p + 1 \in Way(1)
  BY DEF Below
<1> QED
  BY <1>1, WayOfRoot

(* Nothing comes before the subtree of a left son but what comes before    *)
(* its father's.                                                           *)
LEMMA AheadOfLeft ==
    ASSUME NEW n \in Nat, NEW v \in 1 .. n, 2 * v <= n
    PROVE  Ahead(n, 2 * v) = Ahead(n, v)
<1>1. Way(2 * v) = {2 * v} \cup Way(v)
  BY WayOfSons
<1>2. \A p \in 1 .. n : 2 * v \in Below(n, 2 * p + 1) <=> v \in Below(n, 2 * p + 1)
  BY <1>1 DEF Below
<1> QED
  BY <1>2 DEF Ahead

(* Before the subtree of a right son come its father and what comes before *)
(* him.                                                                    *)
LEMMA AheadOfRight ==
    ASSUME NEW n \in Nat, NEW v \in 1 .. n, 2 * v + 1 <= n
    PROVE  Ahead(n, 2 * v + 1) = Before(n, v) \cup {v}
<1>1. Way(2 * v + 1) = {2 * v + 1} \cup Way(v)
  BY WayOfSons
<1>2. \A p \in 1 .. n : 2 * v + 1 \in Below(n, 2 * p + 1) <=> p = v \/ v \in Below(n, 2 * p + 1)
  BY <1>1 DEF Below
<1>3. Below(n, 2 * v) \subseteq 1 .. n /\ v \in 1 .. n
  BY DEF Below
<1> QED
  BY <1>2, <1>3 DEF Ahead, Before

(* A node does not come before itself. *)
LEMMA NotBeforeItself == \A n \in Nat : \A v \in 1 .. n : v \notin Before(n, v)
<1> SUFFICES ASSUME NEW n \in Nat, NEW v \in 1 .. n, v \in Before(n, v) PROVE FALSE
  OBVIOUS
<1>1. Way(v) \subseteq 1 .. v
  BY WayUp
<1>2. v \notin Below(n, 2 * v)
  BY <1>1 DEF Below
<1>3. PICK p \in 1 .. n : /\ v = p \/ v \in Below(n, 2 * p)
                          /\ v \in Below(n, 2 * p + 1)
  BY <1>2 DEF Before, Ahead
<1>4. v # p
  BY <1>1, <1>3 DEF Below
<1> QED
  BY <1>3, <1>4, OneSon DEF Below

(* Before every node that the traversal has met, it has met exactly the     *)
(* nodes that come before it.                                               *)
InOrder(n, r) == \A j \in DOMAIN r : {r[y] : y \in 1 .. j - 1} = Before(n, r[j])

(* What the traversal has met in each state of the automaton *)
Met(n, state, v, r) ==
    /\ state = "Start" => IF r = <<>> THEN v = 1 ELSE Range(r) = 1 .. n
    /\ state = "Left" => Range(r) = Ahead(n, v)
    /\ state = "Right" => Range(r) = Before(n, v)
    /\ state = "Parent" => Range(r) = Ahead(n, v) \cup Below(n, v)

(* The inductive invariant of the traversal *)
TraversalOK(n, t) ==
    /\ t \in [state : {"Start", "Left", "Right", "Parent"}, node : 1 .. n, result : Seq(1 .. n)]
    /\ InOrder(n, t.result)
    /\ Met(n, t.state, t.node, t.result)

(* The next node in order prolongs an order. *)
LEMMA AppendInOrder ==
    ASSUME NEW n \in Nat, NEW r \in Seq(1 .. n), InOrder(n, r),
           NEW v \in 1 .. n, Range(r) = Before(n, v)
    PROVE  /\ Append(r, v) \in Seq(1 .. n)
           /\ InOrder(n, Append(r, v))
           /\ Range(Append(r, v)) = Range(r) \cup {v}
<1> DEFINE a == Append(r, v)
<1>1. /\ a \in Seq(1 .. n) /\ DOMAIN a = 1 .. Len(r) + 1 /\ DOMAIN r = 1 .. Len(r) /\ Len(r) \in Nat
      /\ \A y \in 1 .. Len(r) : a[y] = r[y]
      /\ a[Len(r) + 1] = v
  OBVIOUS
<1>2. ASSUME NEW j \in DOMAIN a PROVE {a[y] : y \in 1 .. j - 1} = Before(n, a[j])
  <2>1. CASE j \in 1 .. Len(r)
    <3>1. {a[y] : y \in 1 .. j - 1} = {r[y] : y \in 1 .. j - 1}
      BY <1>1, <2>1
    <3>2. {r[y] : y \in 1 .. j - 1} = Before(n, r[j])
      BY <1>1, <2>1 DEF InOrder
    <3> QED
      BY <1>1, <2>1, <3>1, <3>2
  <2>2. CASE j = Len(r) + 1
    <3>1. {a[y] : y \in 1 .. j - 1} = {r[y] : y \in 1 .. Len(r)}
      BY <1>1, <2>2
    <3> QED
      BY <1>1, <2>2, <3>1 DEF Range
  <2>3. j \in 1 .. Len(r) + 1 /\ Len(r) \in Nat
    BY <1>1
  <2>4. j \in 1 .. Len(r) \/ j = Len(r) + 1
    BY <2>3
  <2> QED
    BY <2>1, <2>2, <2>4
<1>3. Range(a) = Range(r) \cup {v}
  <2>1. \A y \in 1 .. Len(r) + 1 : y \in 1 .. Len(r) \/ y = Len(r) + 1
    BY <1>1
  <2>2. \A y \in 1 .. Len(r) : y \in 1 .. Len(r) + 1
    BY <1>1
  <2>3. Len(r) + 1 \in 1 .. Len(r) + 1
    BY <1>1
  <2> HIDE DEF a
  <2> QED
    BY <1>1, <2>1, <2>2, <2>3 DEF Range
<1> HIDE DEF a
<1>4. InOrder(n, a)
  BY <1>2 DEF InOrder
<1> QED
  BY <1>1, <1>3, <1>4 DEF a

(* The tree as it is built *)
TreeOK(n) == n \in Nat \ {0} /\ tree = create_permutation_tree(n)

(* The links of the tree that create_permutation_tree builds *)
LEMMA TreeLinks ==
    ASSUME NEW n, TreeOK(n), NEW v \in 1 .. n
    PROVE  /\ tree[v].left = IF 2 * v <= n THEN 2 * v ELSE 0
           /\ tree[v].right = IF 2 * v + 1 <= n THEN 2 * v + 1 ELSE 0
           /\ tree[v].parent = v \div 2
BY DEF TreeOK, create_permutation_tree

(* Below a node that is not in the tree there is nothing. *)
LEMMA NothingBelow ==
    \A n \in Nat : \A v \in Nat \ {0} : v > n => Below(n, v) = {}
BY BelowParts

(* The step at Start preserves what the traversal has met. *)
LEMMA StartStep ==
    ASSUME NEW n, TreeOK(n), TraversalOK(n, traversal), TraverseStart
    PROVE  TraversalOK(n, traversal')
<1> DEFINE v == traversal.node
           r == traversal.result
<1>1. /\ v \in 1 .. n /\ r = <<>> /\ v = 1
      /\ traversal' = [traversal EXCEPT !.state = "Left", !.node = v]
  BY DEF TraverseStart, At, GoTo, TraversalOK, Met
<1>2. /\ traversal' \in [state : {"Start", "Left", "Right", "Parent"}, node : 1 .. n, result : Seq(1 .. n)]
      /\ traversal'.state = "Left" /\ traversal'.node = v /\ traversal'.result = r
  BY <1>1 DEF TraversalOK
<1>3. Range(r) = Ahead(n, v)
  BY <1>1, AheadOfRoot DEF Range, TreeOK
<1>4. InOrder(n, r)
  BY DEF TraversalOK
<1> HIDE DEF v, r
<1> QED
  BY <1>2, <1>3, <1>4 DEF TraversalOK, Met

(* So does the step at Left, *)
LEMMA LeftStep ==
    ASSUME NEW n, TreeOK(n), TraversalOK(n, traversal), TraverseLeft
    PROVE  TraversalOK(n, traversal')
<1> DEFINE v == traversal.node
           r == traversal.result
<1>1. /\ v \in 1 .. n /\ n \in Nat /\ InOrder(n, r) /\ Range(r) = Ahead(n, v)
  BY DEF TraverseLeft, At, TraversalOK, Met, TreeOK
<1>2. tree[v].left = IF 2 * v <= n THEN 2 * v ELSE 0
  BY <1>1, TreeLinks
<1>3. CASE 2 * v <= n
  <2>1. tree[v].left = 2 * v /\ 2 * v # 0 /\ 2 * v \in 1 .. n
    BY <1>1, <1>2, <1>3
  <2>2. traversal' = [traversal EXCEPT !.state = "Left", !.node = 2 * v]
    BY <2>1 DEF TraverseLeft, GoTo
  <2>3. /\ traversal' \in [state : {"Start", "Left", "Right", "Parent"}, node : 1 .. n, result : Seq(1 .. n)]
        /\ traversal'.state = "Left" /\ traversal'.node = 2 * v /\ traversal'.result = r
    BY <2>1, <2>2 DEF TraversalOK
  <2>4. Range(r) = Ahead(n, 2 * v)
    BY <1>1, <1>3, AheadOfLeft
  <2> HIDE DEF v, r
  <2> QED
    BY <2>3, <2>4, <1>1 DEF TraversalOK, Met
<1>4. CASE ~(2 * v <= n)
  <2>1. tree[v].left = 0
    BY <1>1, <1>2, <1>4
  <2>2. traversal' = [traversal EXCEPT !.state = "Right", !.node = v]
    BY <2>1 DEF TraverseLeft, GoTo
  <2>3. /\ traversal' \in [state : {"Start", "Left", "Right", "Parent"}, node : 1 .. n, result : Seq(1 .. n)]
        /\ traversal'.state = "Right" /\ traversal'.node = v /\ traversal'.result = r
    BY <2>1, <2>2 DEF TraversalOK
  <2>4. Range(r) = Before(n, v)
    <3>1. 2 * v \in Nat \ {0} /\ 2 * v > n
      BY <1>1, <1>4
    <3>2. Below(n, 2 * v) = {}
      BY <1>1, <3>1, NothingBelow
    <3> QED
      BY <1>1, <3>2 DEF Before
  <2> HIDE DEF v, r
  <2> QED
    BY <2>3, <2>4, <1>1 DEF TraversalOK, Met
<1> QED
  BY <1>3, <1>4

(* the step at Right, which writes the node down, *)
LEMMA RightStep ==
    ASSUME NEW n, TreeOK(n), TraversalOK(n, traversal), TraverseRight
    PROVE  TraversalOK(n, traversal')
<1> DEFINE v == traversal.node
           r == traversal.result
           a == Append(r, v)
<1>1. /\ v \in 1 .. n /\ n \in Nat /\ InOrder(n, r) /\ Range(r) = Before(n, v)
      /\ r \in Seq(1 .. n)
  BY DEF TraverseRight, At, TraversalOK, Met, TreeOK
<1>2. tree[v].right = IF 2 * v + 1 <= n THEN 2 * v + 1 ELSE 0
  BY <1>1, TreeLinks
<1>3. a \in Seq(1 .. n) /\ InOrder(n, a) /\ Range(a) = Before(n, v) \cup {v}
  <2> HIDE DEF r, v
  <2> QED
    BY <1>1, AppendInOrder
<1>4. CASE 2 * v + 1 <= n
  <2>1. tree[v].right = 2 * v + 1 /\ 2 * v + 1 # 0 /\ 2 * v + 1 \in 1 .. n
    BY <1>1, <1>2, <1>4
  <2>2. traversal' = [[traversal EXCEPT !.state = "Left", !.node = 2 * v + 1] EXCEPT !.result = a]
    BY <2>1 DEF TraverseRight, GoTo, TraversalOK
  <2>3. /\ traversal' \in [state : {"Start", "Left", "Right", "Parent"}, node : 1 .. n, result : Seq(1 .. n)]
        /\ traversal'.state = "Left" /\ traversal'.node = 2 * v + 1 /\ traversal'.result = a
    <3> HIDE DEF a
    <3> QED
      BY <2>1, <2>2, <1>3 DEF TraversalOK
  <2>4. Range(a) = Ahead(n, 2 * v + 1)
    <3> HIDE DEF a
    <3> QED
      BY <1>1, <1>3, <1>4, AheadOfRight
  <2> HIDE DEF v, r, a
  <2> QED
    BY <2>3, <2>4, <1>3 DEF TraversalOK, Met
<1>5. CASE ~(2 * v + 1 <= n)
  <2>1. tree[v].right = 0
    BY <1>1, <1>2, <1>5
  <2>2. traversal' = [[traversal EXCEPT !.state = "Parent", !.node = v] EXCEPT !.result = a]
    BY <2>1 DEF TraverseRight, GoTo, TraversalOK
  <2>3. /\ traversal' \in [state : {"Start", "Left", "Right", "Parent"}, node : 1 .. n, result : Seq(1 .. n)]
        /\ traversal'.state = "Parent" /\ traversal'.node = v /\ traversal'.result = a
    <3> HIDE DEF a
    <3> QED
      BY <2>1, <2>2, <1>3 DEF TraversalOK
  <2>4. Range(a) = Ahead(n, v) \cup Below(n, v)
    <3>1. 2 * v + 1 \in Nat \ {0} /\ 2 * v + 1 > n /\ v \in Nat \ {0}
      BY <1>1, <1>5
    <3>2. Below(n, 2 * v + 1) = {}
      BY <1>1, <3>1, NothingBelow
    <3>3. Below(n, v) = ({v} \cap 1 .. n) \cup Below(n, 2 * v) \cup Below(n, 2 * v + 1)
      BY <1>1, <3>1, BelowParts
    <3> HIDE DEF a, v
    <3> QED
      BY <1>1, <1>3, <3>2, <3>3 DEF Before
  <2> HIDE DEF v, r, a
  <2> QED
    BY <2>3, <2>4, <1>3 DEF TraversalOK, Met
<1> QED
  BY <1>4, <1>5

(* and the step at Parent. *)
LEMMA ParentStep ==
    ASSUME NEW n, TreeOK(n), TraversalOK(n, traversal), TraverseParent
    PROVE  TraversalOK(n, traversal')
<1> DEFINE v == traversal.node
           r == traversal.result
<1>1. /\ v \in 1 .. n /\ n \in Nat /\ InOrder(n, r) /\ Range(r) = Ahead(n, v) \cup Below(n, v)
  BY DEF TraverseParent, At, TraversalOK, Met, TreeOK
<1>2. tree[v].parent = v \div 2
  BY <1>1, TreeLinks
<1>3. CASE v = 1
  <2>1. tree[v].parent = 0
    BY <1>2, <1>3
  <2>2. traversal' = [traversal EXCEPT !.state = "Start", !.node = v]
    BY <2>1 DEF TraverseParent, GoTo
  <2>3. /\ traversal' \in [state : {"Start", "Left", "Right", "Parent"}, node : 1 .. n, result : Seq(1 .. n)]
        /\ traversal'.state = "Start" /\ traversal'.node = v /\ traversal'.result = r
    BY <2>2, <1>1 DEF TraversalOK
  <2>4. Range(r) = 1 .. n /\ 1 \in 1 .. n
    BY <1>1, <1>3, AheadOfRoot, BelowRoot DEF TreeOK
  <2> HIDE DEF v, r
  <2> QED
    BY <2>3, <2>4, <1>1, <1>3 DEF TraversalOK, Met
<1>4. CASE v # 1
  <2>1. PICK p \in 1 .. v - 1 : v = 2 * p \/ v = 2 * p + 1
    <3>1. v \in Nat \ {0, 1}
      BY <1>1, <1>4
    <3> QED
      BY <3>1, Sons
  <2>2. /\ p \in 1 .. n /\ tree[v].parent = p /\ p # 0 /\ p \in Nat \ {0}
        /\ tree[p].left = IF 2 * p <= n THEN 2 * p ELSE 0
        /\ tree[p].left = v <=> v = 2 * p
    <3>1. p \in 1 .. n /\ v \div 2 = p
      BY <1>1, <2>1
    <3>2. tree[p].left = IF 2 * p <= n THEN 2 * p ELSE 0
      BY <3>1, TreeLinks
    <3> HIDE DEF v
    <3> QED
      BY <1>1, <1>2, <2>1, <3>1, <3>2
  <2>3. Below(n, p) = ({p} \cap 1 .. n) \cup Below(n, 2 * p) \cup Below(n, 2 * p + 1)
    BY <1>1, <2>2, BelowParts
  <2>4. CASE v = 2 * p
    <3>1. traversal' = [traversal EXCEPT !.state = "Right", !.node = p]
      BY <2>2, <2>4 DEF TraverseParent, GoTo
    <3>2. /\ traversal' \in [state : {"Start", "Left", "Right", "Parent"}, node : 1 .. n, result : Seq(1 .. n)]
          /\ traversal'.state = "Right" /\ traversal'.node = p /\ traversal'.result = r
      BY <3>1, <2>2 DEF TraversalOK
    <3>3. Range(r) = Before(n, p)
      <4>1. 2 * p <= n
        BY <1>1, <2>4
      <4>2. Ahead(n, 2 * p) = Ahead(n, p)
        BY <1>1, <2>2, <4>1, AheadOfLeft
      <4> QED
        BY <1>1, <2>4, <4>2 DEF Before
    <3> HIDE DEF v, r
    <3> QED
      BY <3>2, <3>3, <1>1 DEF TraversalOK, Met
  <2>5. CASE v = 2 * p + 1
    <3>0. v # 2 * p
      BY <2>5, <2>2
    <3>1. traversal' = [traversal EXCEPT !.state = "Parent", !.node = p]
      BY <2>2, <3>0 DEF TraverseParent, GoTo
    <3>2. /\ traversal' \in [state : {"Start", "Left", "Right", "Parent"}, node : 1 .. n, result : Seq(1 .. n)]
          /\ traversal'.state = "Parent" /\ traversal'.node = p /\ traversal'.result = r
      BY <3>1, <2>2 DEF TraversalOK
    <3>3. Range(r) = Ahead(n, p) \cup Below(n, p)
      <4>1. 2 * p + 1 <= n
        BY <1>1, <2>5
      <4>2. Ahead(n, 2 * p + 1) = Before(n, p) \cup {p}
        BY <1>1, <2>2, <4>1, AheadOfRight
      <4> HIDE DEF v, r
      <4> QED
        BY <1>1, <2>2, <2>3, <2>5, <4>2 DEF Before
    <3> HIDE DEF v, r
    <3> QED
      BY <3>2, <3>3, <1>1 DEF TraversalOK, Met
  <2> QED
    BY <2>1, <2>4, <2>5
<1> QED
  BY <1>3, <1>4

(* A traversal that has met all nodes has met each of them once.            *)
MetOnce(n, r) ==
    /\ r \in Seq(1 .. n) /\ Len(r) = n /\ InOrder(n, r)
    /\ \A p \in 1 .. n : \E y \in 1 .. n : r[y] = p
    /\ \A y, j \in 1 .. n : r[y] = r[j] => y = j

(* A finished traversal has met every node once. *)
LEMMA AllAreMetOnce ==
    ASSUME NEW n \in Nat, NEW r \in Seq(1 .. n), InOrder(n, r), Range(r) = 1 .. n
    PROVE  MetOnce(n, r)
<1> DEFINE L == Len(r)
<1>1. /\ L \in Nat /\ DOMAIN r = 1 .. L /\ r \in [1 .. L -> 1 .. n]
  OBVIOUS
<1>2. ASSUME NEW y \in 1 .. L, NEW j \in 1 .. L, r[y] = r[j], y < j PROVE FALSE
  <2>1. r[y] \in {r[k] : k \in 1 .. j - 1}
    BY <1>1, <1>2
  <2>2. {r[k] : k \in 1 .. j - 1} = Before(n, r[j])
    BY <1>1 DEF InOrder
  <2>3. r[j] \in 1 .. n
    BY <1>1
  <2> QED
    BY <2>1, <2>2, <2>3, <1>2, NotBeforeItself
<1>3. \A y, j \in 1 .. L : r[y] = r[j] => y = j
  <2> SUFFICES ASSUME NEW y \in 1 .. L, NEW j \in 1 .. L, r[y] = r[j], y # j PROVE FALSE
    OBVIOUS
  <2>1. y < j \/ j < y
    BY <1>1
  <2> HIDE DEF L
  <2> QED
    BY <2>1, <1>2
<1>4. \A p \in 1 .. n : \E y \in 1 .. L : r[y] = p
  BY <1>1 DEF Range
<1>5. r \in Injection(1 .. L, 1 .. n) /\ r \in Surjection(1 .. L, 1 .. n)
  <2> HIDE DEF L
  <2> QED
    BY <1>1, <1>3, <1>4 DEF Injection, Surjection, IsInjective
<1>6. /\ IsFiniteSet(1 .. L) /\ Cardinality(1 .. L) = L
      /\ IsFiniteSet(1 .. n) /\ Cardinality(1 .. n) = n
  <2>1. L \in Int /\ n \in Int /\ 1 \in Int
    BY <1>1
  <2> HIDE DEF L
  <2> QED
    BY <2>1, <1>1, FS_Interval
<1>7. L = n
  <2> HIDE DEF L
  <2>1. n <= L
    BY <1>5, <1>6, FS_Surjection
  <2>2. L <= n
    BY <1>5, <1>6, FS_Injection
  <2> QED
    BY <1>1, <2>1, <2>2
<1> HIDE DEF L
<1>8. Len(r) = n
  BY <1>7 DEF L
<1> QED
  BY <1>3, <1>4, <1>7, <1>8 DEF MetOnce

(* When the traversal has met a node *)
Turn(n, r, p) == CHOOSE y \in 1 .. n : r[y] = p

(* The turns of the nodes are a permutation that respects the order. *)
LEMMA Turns ==
    ASSUME NEW n \in Nat, NEW r, MetOnce(n, r)
    PROVE  /\ \A p \in 1 .. n : Turn(n, r, p) \in 1 .. n /\ r[Turn(n, r, p)] = p
           /\ \A y \in 1 .. n : r[y] \in 1 .. n /\ Turn(n, r, r[y]) = y
           /\ \A p \in 1 .. n : \A u \in Before(n, p) : Turn(n, r, u) < Turn(n, r, p)
<1>1. \A p \in 1 .. n : Turn(n, r, p) \in 1 .. n /\ r[Turn(n, r, p)] = p
  BY DEF MetOnce, Turn
<1>2. \A y \in 1 .. n : r[y] \in 1 .. n
  BY DEF MetOnce
<1>3. \A y \in 1 .. n : Turn(n, r, r[y]) = y
  BY <1>1, <1>2 DEF MetOnce
<1>4. ASSUME NEW p \in 1 .. n, NEW u \in Before(n, p)
      PROVE  Turn(n, r, u) < Turn(n, r, p)
  <2> DEFINE j == Turn(n, r, p)
  <2>1. j \in 1 .. n /\ r[j] = p
    BY <1>1
  <2> HIDE DEF j
  <2>2. {r[y] : y \in 1 .. j - 1} = Before(n, p)
    <3>1. j \in DOMAIN r
      BY <2>1 DEF MetOnce
    <3> QED
      BY <2>1, <3>1 DEF MetOnce, InOrder
  <2>3. PICK y \in 1 .. j - 1 : r[y] = u
    BY <2>2, <1>4
  <2>4. y \in 1 .. n
    BY <2>1, <2>3
  <2>5. Turn(n, r, u) = y
    BY <2>3, <2>4, <1>3
  <2>6. y < j
    BY <2>1, <2>3
  <2> QED
    BY <2>5, <2>6 DEF j
<1> QED
  BY <1>1, <1>2, <1>3, <1>4

(* The left subtree of a node comes before it, and the node before its      *)
(* right subtree.                                                           *)
LEMMA SonsInOrder ==
    ASSUME NEW n \in Nat, NEW p \in 1 .. n
    PROVE  /\ Below(n, 2 * p) \subseteq Before(n, p)
           /\ \A u \in Below(n, 2 * p + 1) : u \in 1 .. n /\ p \in Before(n, u)
BY DEF Before, Ahead, Below

-----------------------------------------------------------------------------
(* A segment of characters with the same categories *)
Segment == [lower : Chars, upper : Chars, value : SUBSET Int]

(* What group_pairs has made of the characters below c *)
Grouped(s, c) ==
    /\ s \in Seq(Segment)
    /\ \A y \in 1 .. Len(s) : s[y].lower <= s[y].upper /\ s[y].upper < c
    /\ \A y, j \in 1 .. Len(s) : y < j => s[y].upper < s[j].lower
    /\ \A d \in Chars : d \in categorized_chars /\ d < c =>
           \E y \in 1 .. Len(s) : s[y].lower <= d /\ d <= s[y].upper
    /\ \A y \in 1 .. Len(s) : \A d \in Chars :
           s[y].lower <= d /\ d <= s[y].upper =>
               d \in categorized_chars /\ CategoriesOf(d) = s[y].value

(* The segments in the order of the search *)
Placed(n, r) == [p \in 1 .. n |-> segments[Turn(n, r, p)]]

(* What the search relies on: the segments below the left son of a node are *)
(* less, those below its right son greater.                                 *)
Searchable(n) ==
    /\ n \in Nat
    /\ table \in [1 .. n -> Segment]
    /\ \A p \in 1 .. n : table[p].lower <= table[p].upper
    /\ \A p, q \in 1 .. n : p # q => table[p].upper < table[q].lower \/ table[q].upper < table[p].lower
    /\ \A p \in 1 .. n : \A u \in Below(n, 2 * p) : table[u].upper < table[p].lower
    /\ \A p \in 1 .. n : \A u \in Below(n, 2 * p + 1) : table[p].upper < table[u].lower
    /\ \A d \in categorized_chars : \E p \in 1 .. n : table[p].lower <= d /\ d <= table[p].upper
    /\ \A p \in 1 .. n : \A d \in Chars :
           table[p].lower <= d /\ d <= table[p].upper =>
               d \in categorized_chars /\ CategoriesOf(d) = table[p].value

(* The table that permutate makes of grouped segments can be searched. *)
LEMMA PlacedIsSearchable ==
    ASSUME NEW n, n = Len(segments), NEW r, MetOnce(n, r),
           NEW c, Grouped(segments, c), \A d \in categorized_chars : d \in Chars /\ d < c,
           table = Placed(n, r)
    PROVE  Searchable(n)
<1>1. /\ segments \in Seq(Segment) /\ n \in Nat
      /\ \A y \in 1 .. n : segments[y] \in Segment
  BY DEF Grouped
<1>2. /\ \A p \in 1 .. n : Turn(n, r, p) \in 1 .. n /\ r[Turn(n, r, p)] = p
      /\ \A y \in 1 .. n : r[y] \in 1 .. n /\ Turn(n, r, r[y]) = y
      /\ \A p \in 1 .. n : \A u \in Before(n, p) : Turn(n, r, u) < Turn(n, r, p)
  BY <1>1, Turns
<1>3. /\ \A p \in 1 .. n : table[p] = segments[Turn(n, r, p)]
      /\ table \in [1 .. n -> Segment]
  BY <1>1, <1>2 DEF Placed
<1>4. \A p, q \in 1 .. n : Turn(n, r, p) < Turn(n, r, q) => table[p].upper < table[q].lower
  BY <1>2, <1>3 DEF Grouped
<1>5. ASSUME NEW p \in 1 .. n, NEW q \in 1 .. n, p # q
      PROVE  table[p].upper < table[q].lower \/ table[q].upper < table[p].lower
  <2>1. Turn(n, r, p) # Turn(n, r, q)
    BY <1>2, <1>5
  <2>2. Turn(n, r, p) \in 1 .. n /\ Turn(n, r, q) \in 1 .. n
    BY <1>2
  <2>3. Turn(n, r, p) < Turn(n, r, q) \/ Turn(n, r, q) < Turn(n, r, p)
    BY <2>1, <2>2, <1>1
  <2> QED
    BY <2>3, <1>4
<1>6. ASSUME NEW p \in 1 .. n, NEW u \in Below(n, 2 * p)
      PROVE  table[u].upper < table[p].lower
  <2>1. u \in Before(n, p) /\ u \in 1 .. n
    BY <1>1, SonsInOrder DEF Below
  <2> QED
    BY <2>1, <1>2, <1>4
<1>7. ASSUME NEW p \in 1 .. n, NEW u \in Below(n, 2 * p + 1)
      PROVE  table[p].upper < table[u].lower
  <2>1. p \in Before(n, u) /\ u \in 1 .. n
    BY <1>1, SonsInOrder
  <2> QED
    BY <2>1, <1>2, <1>4
<1>8. ASSUME NEW d \in categorized_chars
      PROVE  \E p \in 1 .. n : table[p].lower <= d /\ d <= table[p].upper
  <2>1. PICK y \in 1 .. n : segments[y].lower <= d /\ d <= segments[y].upper
    BY DEF Grouped
  <2>2. r[y] \in 1 .. n /\ table[r[y]] = segments[y]
    BY <1>2, <1>3
  <2> QED
    BY <2>1, <2>2
<1>9. ASSUME NEW p \in 1 .. n, NEW d \in Chars, table[p].lower <= d, d <= table[p].upper
      PROVE  d \in categorized_chars /\ CategoriesOf(d) = table[p].value
  BY <1>2, <1>3, <1>9 DEF Grouped
<1>10. \A p \in 1 .. n : table[p].lower <= table[p].upper
  BY <1>2, <1>3 DEF Grouped
<1> QED
  BY <1>1, <1>3, <1>5, <1>6, <1>7, <1>8, <1>9, <1>10 DEF Searchable

(* The segment at a place has the character c. *)
Has(p, c) == table[p].lower <= c /\ c <= table[p].upper

(* The place below i that has c, or 0 *)
Target(n, y, c) == IF \E p \in Below(n, y) : Has(p, c)
                   THEN CHOOSE p \in Below(n, y) : Has(p, c) ELSE 0

(* At most one place below a node has a character. *)
LEMMA TargetIs ==
    ASSUME NEW n, Searchable(n), NEW y, NEW c \in Chars, NEW p \in Below(n, y), Has(p, c)
    PROVE  Target(n, y, c) = p
<1>1. \A q \in Below(n, y) : Has(q, c) => q = p
  <2> SUFFICES ASSUME NEW q \in Below(n, y), Has(q, c), q # p PROVE FALSE
    OBVIOUS
  <2>1. p \in 1 .. n /\ q \in 1 .. n
    BY DEF Below
  <2>2. table[p].upper < table[q].lower \/ table[q].upper < table[p].lower
    BY <2>1 DEF Searchable
  <2>3. table[p] \in Segment /\ table[q] \in Segment
    BY <2>1 DEF Searchable
  <2> QED
    BY <2>2, <2>3, CharAssumption DEF Has, Segment, Chars
<1> QED
  BY <1>1 DEF Target

(* One turn of the search goes where the character can be. *)
LEMMA SearchStep ==
    ASSUME NEW n, Searchable(n), NEW y \in Nat \ {0}, NEW c \in Chars
    PROVE  Target(n, y, c) = IF y > n THEN 0
                             ELSE IF c < table[y].lower THEN Target(n, 2 * y, c)
                             ELSE IF c > table[y].upper THEN Target(n, 2 * y + 1, c)
                             ELSE y
<1>1. n \in Nat /\ \A p \in 1 .. n : table[p] \in Segment
  BY DEF Searchable
<1>2. /\ Below(n, y) = ({y} \cap 1 .. n) \cup Below(n, 2 * y) \cup Below(n, 2 * y + 1)
      /\ Below(n, y) \subseteq y .. n
      /\ \A u \in Below(n, 2 * y) \cup Below(n, 2 * y + 1) : u \in 1 .. n
  BY <1>1, BelowParts DEF Below
<1>3. CASE y > n
  <2>1. Below(n, y) = {}
    BY <1>1, <1>2, <1>3
  <2> QED
    BY <1>3, <2>1 DEF Target
<1>4. CASE y \in 1 .. n /\ c < table[y].lower
  <2>1. ASSUME NEW u \in {y} \cup Below(n, 2 * y + 1) PROVE ~Has(u, c)
    <3>1. u \in 1 .. n /\ table[u] \in Segment /\ table[y] \in Segment
      BY <1>1, <1>2, <1>4
    <3>2. table[y].lower <= table[y].upper /\ (u = y \/ table[y].upper < table[u].lower)
      BY <1>4 DEF Searchable
    <3>3. c < table[u].lower
      BY <1>4, <3>1, <3>2, CharAssumption DEF Segment, Chars
    <3> QED
      BY <3>1, <3>3, CharAssumption DEF Has, Segment, Chars
  <2>2. Target(n, y, c) = Target(n, 2 * y, c)
    <3>1. CASE \E p \in Below(n, 2 * y) : Has(p, c)
      <4>1. PICK p \in Below(n, 2 * y) : Has(p, c)
        BY <3>1
      <4>2. p \in Below(n, y)
        BY <1>2
      <4>3. Target(n, y, c) = p
        BY <4>1, <4>2, TargetIs
      <4>4. Target(n, 2 * y, c) = p
        BY <4>1, TargetIs
      <4> QED
        BY <4>3, <4>4
    <3>2. CASE ~ \E p \in Below(n, 2 * y) : Has(p, c)
      <4>1. ~ \E p \in Below(n, y) : Has(p, c)
        BY <1>2, <2>1, <3>2
      <4> QED
        BY <3>2, <4>1 DEF Target
    <3> QED
      BY <3>1, <3>2
  <2>3. ~(y > n)
    BY <1>1, <1>4
  <2> QED
    BY <1>4, <2>2, <2>3
<1>5. CASE y \in 1 .. n /\ ~(c < table[y].lower) /\ c > table[y].upper
  <2>1. ASSUME NEW u \in {y} \cup Below(n, 2 * y) PROVE ~Has(u, c)
    <3>1. u \in 1 .. n /\ table[u] \in Segment /\ table[y] \in Segment
      BY <1>1, <1>2, <1>5
    <3>2. table[y].lower <= table[y].upper /\ (u = y \/ table[u].upper < table[y].lower)
      BY <1>5 DEF Searchable
    <3>3. c > table[u].upper
      BY <1>5, <3>1, <3>2, CharAssumption DEF Segment, Chars
    <3> QED
      BY <3>1, <3>3, CharAssumption DEF Has, Segment, Chars
  <2>2. Target(n, y, c) = Target(n, 2 * y + 1, c)
    <3>1. CASE \E p \in Below(n, 2 * y + 1) : Has(p, c)
      <4>1. PICK p \in Below(n, 2 * y + 1) : Has(p, c)
        BY <3>1
      <4>2. p \in Below(n, y)
        BY <1>2
      <4>3. Target(n, y, c) = p
        BY <4>1, <4>2, TargetIs
      <4>4. Target(n, 2 * y + 1, c) = p
        BY <4>1, TargetIs
      <4> QED
        BY <4>3, <4>4
    <3>2. CASE ~ \E p \in Below(n, 2 * y + 1) : Has(p, c)
      <4>1. ~ \E p \in Below(n, y) : Has(p, c)
        BY <1>2, <2>1, <3>2
      <4> QED
        BY <3>2, <4>1 DEF Target
    <3> QED
      BY <3>1, <3>2
  <2>3. ~(y > n)
    BY <1>1, <1>5
  <2> QED
    BY <1>5, <2>2, <2>3
<1>6. CASE y \in 1 .. n /\ ~(c < table[y].lower) /\ ~(c > table[y].upper)
  <2>1. y \in Below(n, y) /\ table[y] \in Segment
    BY <1>1, <1>2, <1>6
  <2>2. Has(y, c)
    BY <2>1, <1>6, CharAssumption DEF Has, Segment, Chars
  <2>3. Target(n, y, c) = y /\ ~(y > n)
    BY <1>1, <1>6, <2>1, <2>2, TargetIs
  <2> QED
    BY <1>6, <2>3
<1> QED
  BY <1>1, <1>3, <1>4, <1>5, <1>6

(* The search finds the place that has the character. *)
LEMMA SearchFinds ==
    ASSUME NEW n, Searchable(n), n # 0, NEW c \in Chars
    PROVE  knuth_find(c) = Target(n, 1, c)
<1>1. n \in Nat \ {0} /\ Len(table) = n
  BY DEF Searchable
<1> DEFINE D == 1 .. 2 * n + 1
           Turn1(f, y) == IF y > n THEN 0
                          ELSE IF c < table[y].lower THEN f[2 * y]
                          ELSE IF c > table[y].upper THEN f[2 * y + 1]
                          ELSE y
           Def(f) == [y \in D |-> Turn1(f, y)]
           goal == [y \in D |-> Target(n, y, c)]
           from == CHOOSE f : f = Def(f)
<1>2. knuth_find(c) = from[1]
  BY <1>1 DEF knuth_find
<1>3. \A y \in D : y \in Nat \ {0}
  BY <1>1
<1>4. \A y \in D : ~(y > n) => 2 * y \in D /\ 2 * y + 1 \in D
  BY <1>1
<1>5. goal = Def(goal)
  <2> SUFFICES ASSUME NEW y \in D PROVE Target(n, y, c) = Turn1(goal, y)
    OBVIOUS
  <2>1. Target(n, y, c) = IF y > n THEN 0
                          ELSE IF c < table[y].lower THEN Target(n, 2 * y, c)
                          ELSE IF c > table[y].upper THEN Target(n, 2 * y + 1, c)
                          ELSE y
    <3>1. y \in Nat \ {0}
      BY <1>3
    <3> HIDE DEF D
    <3> QED
      BY <3>1, SearchStep
  <2>2. ~(y > n) => goal[2 * y] = Target(n, 2 * y, c) /\ goal[2 * y + 1] = Target(n, 2 * y + 1, c)
    <3> HIDE DEF D
    <3> QED
      BY <1>4
  <2> HIDE DEF D, goal
  <2> QED
    BY <2>1, <2>2
<1>6. from = Def(from)
  <2> HIDE DEF Def, goal
  <2> QED
    BY <1>5
<1> HIDE DEF from
<1>7. \A y \in D : from[y] = Turn1(from, y)
  <2> HIDE DEF D, Turn1
  <2> QED
    BY <1>6
<1>8. ASSUME NEW w \in D, from[w] # Target(n, w, c) PROVE FALSE
  <2> DEFINE Bad == {y \in D : from[y] # Target(n, y, c)}
  <2>1. PICK y \in Bad : \A j \in Bad : y >= j
    <3>1. Bad \in SUBSET Nat /\ w \in Bad /\ \A x \in Bad : x <= 2 * n + 1
      BY <1>1, <1>8
    <3>2. 2 * n + 1 \in Nat
      BY <1>1
    <3> HIDE DEF Bad
    <3> QED
      BY <3>1, <3>2, LargestNumber
  <2>2. y \in D /\ y \in Nat \ {0}
    BY <2>1, <1>3
  <2>3. ~(y > n) => from[2 * y] = Target(n, 2 * y, c) /\ from[2 * y + 1] = Target(n, 2 * y + 1, c)
    <3>1. \A j \in D : j > y => j \notin Bad
      BY <2>1, <2>2, <1>3
    <3>2. 2 * y > y /\ 2 * y + 1 > y
      BY <2>2
    <3> QED
      BY <1>4, <2>2, <3>1, <3>2
  <2>4. Target(n, y, c) = IF y > n THEN 0
                          ELSE IF c < table[y].lower THEN Target(n, 2 * y, c)
                          ELSE IF c > table[y].upper THEN Target(n, 2 * y + 1, c)
                          ELSE y
    <3> HIDE DEF D, Bad
    <3> QED
      BY <2>2, SearchStep
  <2>5. from[y] = Turn1(from, y)
    BY <1>7, <2>2
  <2>6. from[y] = Target(n, y, c)
    <3> HIDE DEF D, Bad
    <3> QED
      BY <2>3, <2>4, <2>5
  <2> QED
    BY <2>1, <2>6
<1>9. 1 \in D
  BY <1>1
<1> QED
  BY <1>2, <1>8, <1>9

(* What the table promises follows from the order of its segments. *)
LEMMA SearchableIsRight ==
    ASSUME NEW n, Searchable(n), n # 0
    PROVE  TableRight
<1> SUFFICES ASSUME NEW c \in Chars
             PROVE  get_categories_set(c) =
                        IF c \in categorized_chars THEN CategoriesOf(c) ELSE {Other}
  BY DEF TableRight
<1>1. knuth_find(c) = Target(n, 1, c)
  BY SearchFinds
<1>2. n \in Nat \ {0} /\ Below(n, 1) = 1 .. n
  BY BelowRoot DEF Searchable
<1>3. CASE c \in categorized_chars
  <2>1. PICK p \in 1 .. n : Has(p, c)
    BY <1>3 DEF Searchable, Has
  <2>2. Target(n, 1, c) = p
    BY <1>2, <2>1, TargetIs
  <2>3. CategoriesOf(c) = table[p].value
    BY <2>1 DEF Searchable, Has
  <2>4. p # 0
    BY <1>2
  <2> QED
    BY <1>1, <1>3, <2>2, <2>3, <2>4 DEF get_categories_set
<1>4. CASE c \notin categorized_chars
  <2>1. ~ \E p \in Below(n, 1) : Has(p, c)
    BY <1>2, <1>4 DEF Searchable, Has
  <2>2. Target(n, 1, c) = 0
    BY <2>1 DEF Target
  <2> QED
    BY <1>1, <1>4, <2>2 DEF get_categories_set
<1> QED
  BY <1>3, <1>4

(* The categorized characters have a greatest one. *)
LEMMA CategorizedChars ==
    ASSUME categories \in CategoryLists
    PROVE  /\ categorized_chars \subseteq Chars
           /\ Max(categorized_chars) \in categorized_chars
           /\ \A d \in categorized_chars : d <= Max(categorized_chars)
           /\ \A d : CategoriesOf(d) \in SUBSET Int
<1>1. categories \in Seq(SUBSET Chars) /\ UNION Range(categories) # {}
  BY ListsAssumption
<1>2. categorized_chars \subseteq Chars /\ categorized_chars # {}
  BY <1>1 DEF categorized_chars, Range
<1>3. Chars \subseteq Nat /\ \A d \in Chars : d <= LastChar
  BY CharAssumption DEF Chars
<1>4. \E m \in categorized_chars : \A k \in categorized_chars : m >= k
  <2>1. PICK w : w \in categorized_chars
    BY <1>2
  <2> QED
    BY <1>2, <1>3, <2>1, CharAssumption, LargestNumber
<1>5. /\ Max(categorized_chars) \in categorized_chars
      /\ \A d \in categorized_chars : Max(categorized_chars) >= d
  BY <1>4 DEF Max
<1>6. \A d \in categorized_chars : d <= Max(categorized_chars)
  BY <1>2, <1>3, <1>5
<1>7. ASSUME NEW d PROVE CategoriesOf(d) \in SUBSET Int
  <2>1. DOMAIN categories \subseteq Int
    BY <1>1
  <2>2. \A y \in DOMAIN categories : y - 1 \in Int
    BY <2>1
  <2> QED
    BY <2>2 DEF CategoriesOf
<1> QED
  BY <1>2, <1>5, <1>6, <1>7

(* One more character keeps the segments right. *)
LEMMA GroupingStep ==
    ASSUME categories \in CategoryLists, NEW c \in Chars, NEW s, Grouped(s, c)
    PROVE  Grouped(Grouping(s, c), c + 1)
<1> DEFINE L == Len(s)
<1>1. /\ s \in Seq(Segment) /\ L \in Nat /\ c \in Nat
      /\ \A y \in 1 .. L : /\ s[y] \in Segment /\ s[y].lower \in Nat /\ s[y].upper \in Nat
                           /\ s[y].lower <= s[y].upper /\ s[y].upper < c
      /\ \A y, j \in 1 .. L : y < j => s[y].upper < s[j].lower
      /\ \A d \in Chars : d \in Nat
      /\ \A d \in Chars : d < c + 1 => d < c \/ d = c
  <2>1. s \in Seq(Segment) /\ L \in Nat /\ \A y \in 1 .. L : s[y] \in Segment
    BY DEF Grouped
  <2>2. \A d \in Chars : d \in Nat
    BY CharAssumption DEF Chars
  <2>3. \A y \in 1 .. L : s[y].lower \in Nat /\ s[y].upper \in Nat
    BY <2>1, <2>2 DEF Segment
  <2>4. /\ \A y \in 1 .. L : s[y].lower <= s[y].upper /\ s[y].upper < c
        /\ \A y, j \in 1 .. L : y < j => s[y].upper < s[j].lower
    BY DEF Grouped
  <2>5. c \in Nat
    BY <2>2
  <2>6. \A d \in Chars : d < c + 1 => d < c \/ d = c
    BY <2>2, <2>5
  <2> HIDE DEF L
  <2> QED
    BY <2>1, <2>2, <2>3, <2>4, <2>5, <2>6
<1>2. categorized_chars \subseteq Chars /\ CategoriesOf(c) \in SUBSET Int
  BY CategorizedChars
<1>3. CASE c \notin categorized_chars
  <2>1. Grouping(s, c) = s
    BY <1>3 DEF Grouping
  <2>2. \A d \in Chars : d \in categorized_chars /\ d < c + 1 => d < c
    <3>1. \A d \in Chars : d < c + 1 => d < c \/ d = c
      BY <1>1
    <3> QED
      BY <3>1, <1>3
  <2>3. \A y \in 1 .. Len(s) : s[y].lower <= s[y].upper /\ s[y].upper < c + 1
    BY <1>1
  <2> QED
    BY <2>1, <2>2, <2>3 DEF Grouped
<1>4. CASE c \in categorized_chars /\ Continues(c)
  <2>1. /\ Grouping(s, c) = [s EXCEPT ![L].upper = c]
        /\ c - 1 \in categorized_chars /\ CategoriesOf(c) = CategoriesOf(c - 1)
    BY <1>4 DEF Grouping, Continues
  <2>2. c - 1 \in Chars /\ c - 1 < c
    BY <1>1, <1>2, <2>1
  <2>3. PICK k \in 1 .. L : s[k].lower <= c - 1 /\ c - 1 <= s[k].upper
    BY <2>1, <2>2 DEF Grouped
  <2>4. k = L /\ L \in 1 .. L
    <3>1. L \in 1 .. L
      BY <1>1
    <3>2. k < L => FALSE
      <4> SUFFICES ASSUME k < L PROVE FALSE
        OBVIOUS
      <4>1. s[k].upper < s[L].lower /\ s[L].lower <= s[L].upper /\ s[L].upper < c
        BY <1>1, <3>1
      <4>2. s[k].upper \in Nat /\ s[L].lower \in Nat /\ s[L].upper \in Nat
        BY <1>1, <3>1
      <4> HIDE DEF L
      <4> QED
        BY <4>1, <4>2, <2>3, <1>1
    <3> QED
      BY <3>1, <3>2, <1>1
  <2>5. s[L].upper = c - 1 /\ s[L].lower <= c - 1
    BY <1>1, <2>3, <2>4
  <2> DEFINE t == [s EXCEPT ![L].upper = c]
  <2>6. /\ Len(t) = L
        /\ \A y \in 1 .. L : y # L => t[y] = s[y]
        /\ t[L] = [s[L] EXCEPT !.upper = c]
    BY <1>1, <2>4
  <2>7. [s[L] EXCEPT !.upper = c] \in Segment
    BY <1>1, <2>4 DEF Segment
  <2>8. t \in Seq(Segment)
    BY <1>1, <2>4, <2>7
  <2>9. t[L].lower = s[L].lower /\ t[L].upper = c /\ t[L].value = s[L].value
    BY <1>1, <2>4, <2>6 DEF Segment
  <2> HIDE DEF t, L
  <2>10. \A y \in 1 .. L : t[y].lower <= t[y].upper /\ t[y].upper < c + 1
    <3> SUFFICES ASSUME NEW y \in 1 .. L PROVE t[y].lower <= t[y].upper /\ t[y].upper < c + 1
      OBVIOUS
    <3>1. CASE y = L
      BY <3>1, <1>1, <2>4, <2>5, <2>9
    <3>2. CASE y # L
      BY <3>2, <1>1, <2>6
    <3> QED
      BY <3>1, <3>2
  <2>11. \A y, j \in 1 .. L : y < j => t[y].upper < t[j].lower
    <3> SUFFICES ASSUME NEW y \in 1 .. L, NEW j \in 1 .. L, y < j PROVE t[y].upper < t[j].lower
      OBVIOUS
    <3>1. y # L /\ t[y] = s[y]
      BY <1>1, <2>6
    <3>2. t[j].lower = s[j].lower
      BY <2>6, <2>9
    <3> QED
      BY <1>1, <3>1, <3>2
  <2>12. ASSUME NEW d \in Chars, d \in categorized_chars, d < c + 1
         PROVE  \E y \in 1 .. L : t[y].lower <= d /\ d <= t[y].upper
    <3>1. CASE d = c
      BY <3>1, <1>1, <2>4, <2>5, <2>9
    <3>2. CASE d # c
      <4>1. d < c
        <5>1. \A x \in Chars : x < c + 1 => x < c \/ x = c
          BY <1>1
        <5> QED
          BY <5>1, <2>12, <3>2
      <4>2. PICK y \in 1 .. L : s[y].lower <= d /\ d <= s[y].upper
        <5>1. \A x \in Chars : x \in categorized_chars /\ x < c =>
                 \E y \in 1 .. L : s[y].lower <= x /\ x <= s[y].upper
          BY DEF Grouped, L
        <5> QED
          BY <5>1, <4>1, <2>12
      <4>3. CASE y = L
        <5>1. t[L].lower <= d
          BY <4>2, <4>3, <2>9
        <5>2. d <= t[L].upper
          <6>1. d \in Nat /\ c \in Nat
            BY <1>1
          <6> QED
            BY <6>1, <4>1, <2>9
        <5> QED
          BY <5>1, <5>2, <2>4
      <4>4. CASE y # L
        BY <4>2, <4>4, <2>6
      <4> QED
        BY <4>3, <4>4
    <3> QED
      BY <3>1, <3>2
  <2>13. ASSUME NEW y \in 1 .. L, NEW d \in Chars, t[y].lower <= d, d <= t[y].upper
         PROVE  d \in categorized_chars /\ CategoriesOf(d) = t[y].value
    <3>1. CASE y # L
      <4>1. t[y] = s[y]
        BY <3>1, <2>6
      <4> QED
        BY <4>1, <2>13 DEF Grouped, L
    <3>2. CASE y = L /\ d = c
      <4>1. CategoriesOf(c - 1) = s[L].value
        BY <2>2, <2>3, <2>4 DEF Grouped, L
      <4> QED
        BY <4>1, <3>2, <1>4, <2>1, <2>9
    <3>3. CASE y = L /\ d # c
      <4>1. s[L].lower <= d /\ d <= s[L].upper
        BY <3>3, <2>13, <2>9, <2>5, <1>1
      <4>2. d \in categorized_chars /\ CategoriesOf(d) = s[L].value
        BY <4>1, <2>4 DEF Grouped, L
      <4> QED
        BY <4>2, <3>3, <2>9
    <3> QED
      BY <3>1, <3>2, <3>3
  <2>14. Grouped(t, c + 1)
    BY <2>6, <2>8, <2>10, <2>11, <2>12, <2>13 DEF Grouped
  <2> QED
    BY <2>1, <2>14 DEF t
<1>5. CASE c \in categorized_chars /\ ~Continues(c)
  <2> DEFINE e == [lower |-> c, upper |-> c, value |-> CategoriesOf(c)]
             t == Append(s, e)
  <2>1. Grouping(s, c) = t
    BY <1>5 DEF Grouping
  <2>2. e \in Segment /\ e.lower = c /\ e.upper = c /\ e.value = CategoriesOf(c)
    BY <1>2 DEF Segment
  <2> HIDE DEF e
  <2>3. /\ t \in Seq(Segment) /\ Len(t) = L + 1
        /\ \A y \in 1 .. L : t[y] = s[y]
        /\ t[L + 1] = e
    BY <1>1, <2>2
  <2> HIDE DEF t, L
  <2>4. \A y \in 1 .. L + 1 : y \in 1 .. L \/ y = L + 1
    BY <1>1
  <2>5. \A y \in 1 .. L : y \in 1 .. L + 1
    BY <1>1
  <2>6. L + 1 \in 1 .. L + 1
    BY <1>1
  <2>7. \A y \in 1 .. L + 1 : t[y].lower <= t[y].upper /\ t[y].upper < c + 1
    <3> SUFFICES ASSUME NEW y \in 1 .. L + 1 PROVE t[y].lower <= t[y].upper /\ t[y].upper < c + 1
      OBVIOUS
    <3>1. CASE y = L + 1
      BY <3>1, <1>1, <2>2, <2>3
    <3>2. CASE y \in 1 .. L
      BY <3>2, <1>1, <2>3
    <3> QED
      BY <3>1, <3>2, <2>4
  <2>8. \A y, j \in 1 .. L + 1 : y < j => t[y].upper < t[j].lower
    <3> SUFFICES ASSUME NEW y \in 1 .. L + 1, NEW j \in 1 .. L + 1, y < j
                 PROVE  t[y].upper < t[j].lower
      OBVIOUS
    <3>1. y \in 1 .. L
      BY <1>1, <2>4
    <3>2. CASE j = L + 1
      BY <3>1, <3>2, <1>1, <2>2, <2>3
    <3>3. CASE j \in 1 .. L
      BY <3>1, <3>3, <1>1, <2>3
    <3> QED
      BY <3>2, <3>3, <2>4
  <2>9. ASSUME NEW d \in Chars, d \in categorized_chars, d < c + 1
        PROVE  \E y \in 1 .. L + 1 : t[y].lower <= d /\ d <= t[y].upper
    <3>1. CASE d = c
      BY <3>1, <1>1, <2>2, <2>3, <2>6
    <3>2. CASE d # c
      <4>1. d < c
        BY <1>1, <2>9, <3>2
      <4>2. PICK y \in 1 .. L : s[y].lower <= d /\ d <= s[y].upper
        BY <4>1, <2>9 DEF Grouped, L
      <4> QED
        BY <4>2, <2>3, <2>5
    <3> QED
      BY <3>1, <3>2
  <2>10. ASSUME NEW y \in 1 .. L + 1, NEW d \in Chars, t[y].lower <= d, d <= t[y].upper
         PROVE  d \in categorized_chars /\ CategoriesOf(d) = t[y].value
    <3>1. CASE y = L + 1
      <4>1. d = c
        <5>1. c <= d /\ d <= c
          BY <3>1, <2>10, <2>2, <2>3
        <5>2. d \in Nat /\ c \in Nat
          BY <1>1
        <5> QED
          BY <5>1, <5>2
      <4> QED
        BY <4>1, <3>1, <1>5, <2>2, <2>3
    <3>2. CASE y \in 1 .. L
      <4>1. t[y] = s[y]
        BY <3>2, <2>3
      <4> QED
        BY <4>1, <3>2, <2>10 DEF Grouped, L
    <3> QED
      BY <3>1, <3>2, <2>4
  <2>11. Grouped(t, c + 1)
    BY <2>3, <2>7, <2>8, <2>9, <2>10 DEF Grouped
  <2> QED
    BY <2>1, <2>11
<1> QED
  BY <1>3, <1>4, <1>5

(* The loop over the characters below k *)
GroupedBelow(f, k) ==
    \A n \in 0 .. k : f[n] = IF n = 0 THEN <<>> ELSE Grouping(f[n - 1], n - 1)

(* What group_pairs computes step by step exists. *)
LEMMA GroupingExists == \A k \in Nat : \E f : GroupedBelow(f, k)
<1> SUFFICES ASSUME NEW w \in Nat, ~ \E f : GroupedBelow(f, w) PROVE FALSE
  OBVIOUS
<1> DEFINE Bad == {k \in Nat : ~ \E f : GroupedBelow(f, k)}
<1>1. PICK k \in Bad : \A j \in Bad : k <= j
  <2>1. Bad \in SUBSET Nat /\ w \in Bad
    OBVIOUS
  <2> HIDE DEF Bad
  <2> QED
    BY <2>1, LeastNumber
<1>2. k \in Nat
  BY <1>1
<1>3. CASE k = 0
  <2> DEFINE f == [n \in 0 .. 0 |-> <<>>]
  <2>1. GroupedBelow(f, 0)
    BY DEF GroupedBelow
  <2> QED
    BY <2>1, <1>1, <1>3
<1>4. CASE k # 0
  <2>1. k - 1 \in Nat /\ k - 1 \notin Bad
    BY <1>1, <1>2, <1>4
  <2>2. PICK g : GroupedBelow(g, k - 1)
    BY <2>1
  <2> DEFINE f == [n \in 0 .. k |-> IF n = k THEN Grouping(g[k - 1], k - 1) ELSE g[n]]
  <2>3. \A n \in 0 .. k - 1 : f[n] = g[n] /\ n \in 0 .. k /\ n # k
    BY <1>2
  <2>4. f[k] = Grouping(g[k - 1], k - 1)
    BY <1>2
  <2> HIDE DEF f
  <2>5. ASSUME NEW n \in 0 .. k
        PROVE  f[n] = IF n = 0 THEN <<>> ELSE Grouping(f[n - 1], n - 1)
    <3>1. CASE n = k
      <4>1. k - 1 \in 0 .. k - 1
        BY <1>2, <1>4
      <4> QED
        BY <3>1, <4>1, <2>3, <2>4, <1>4
    <3>2. CASE n # k
      <4>1. n \in 0 .. k - 1 /\ (n # 0 => n - 1 \in 0 .. k - 1)
        BY <1>2, <3>2
      <4>2. g[n] = IF n = 0 THEN <<>> ELSE Grouping(g[n - 1], n - 1)
        BY <4>1, <2>2 DEF GroupedBelow
      <4> QED
        BY <4>1, <4>2, <2>3
    <3> QED
      BY <3>1, <3>2
  <2>6. GroupedBelow(f, k)
    BY <2>5 DEF GroupedBelow
  <2> QED
    BY <2>6, <1>1
<1> QED
  BY <1>3, <1>4

(* group_pairs makes right segments of all characters. *)
LEMMA GroupPairs ==
    ASSUME categories \in CategoryLists
    PROVE  Grouped(group_pairs, Max(categorized_chars) + 1) /\ group_pairs # <<>>
<1> DEFINE last == Max(categorized_chars)
           D == 0 .. last + 1
           Def(f) == [n \in D |-> IF n = 0 THEN <<>> ELSE Grouping(f[n - 1], n - 1)]
           grouped == CHOOSE f : f = Def(f)
<1>1. /\ last \in categorized_chars /\ last \in Nat /\ last <= LastChar
      /\ \A d \in categorized_chars : d <= last /\ d \in Chars
      /\ \A n \in 0 .. last : n \in Chars
  <2>1. /\ categorized_chars \subseteq Chars /\ last \in categorized_chars
        /\ \A d \in categorized_chars : d <= last
    BY CategorizedChars
  <2> HIDE DEF last
  <2> QED
    BY <2>1, CharAssumption DEF Chars
<1>2. group_pairs = grouped[last + 1]
  BY DEF group_pairs
<1> HIDE DEF last
<1>3. PICK f : GroupedBelow(f, last + 1)
  BY <1>1, GroupingExists
<1> DEFINE goal == [n \in D |-> f[n]]
<1>4. goal = Def(goal)
  <2> SUFFICES ASSUME NEW n \in D
               PROVE  f[n] = IF n = 0 THEN <<>> ELSE Grouping(goal[n - 1], n - 1)
    OBVIOUS
  <2>1. f[n] = IF n = 0 THEN <<>> ELSE Grouping(f[n - 1], n - 1)
    BY <1>3 DEF GroupedBelow
  <2>2. n # 0 => n - 1 \in D
    BY <1>1
  <2>3. n # 0 => goal[n - 1] = f[n - 1]
    <3> HIDE DEF D
    <3> QED
      BY <2>2
  <2> HIDE DEF goal, D
  <2> QED
    BY <2>1, <2>3
<1>5. grouped = Def(grouped)
  <2> HIDE DEF Def, goal
  <2> QED
    BY <1>4
<1> HIDE DEF grouped, goal
<1>6. \A n \in D : grouped[n] = IF n = 0 THEN <<>> ELSE Grouping(grouped[n - 1], n - 1)
  <2> HIDE DEF D
  <2> QED
    BY <1>5
<1>7. ASSUME NEW w \in D, ~Grouped(grouped[w], w) PROVE FALSE
  <2> DEFINE Bad == {n \in D : ~Grouped(grouped[n], n)}
  <2>1. PICK n \in Bad : \A j \in Bad : n <= j
    <3>1. Bad \in SUBSET Nat /\ w \in Bad
      BY <1>1, <1>7
    <3> HIDE DEF Bad
    <3> QED
      BY <3>1, LeastNumber
  <2>2. n \in D /\ n \in Nat /\ n <= last + 1
    BY <2>1, <1>1
  <2>3. CASE n = 0
    <3>1. grouped[0] = <<>>
      BY <1>6, <2>2, <2>3
    <3>2. Grouped(<<>>, 0)
      BY CharAssumption DEF Grouped, Chars
    <3> QED
      BY <2>1, <2>3, <3>1, <3>2
  <2>4. CASE n # 0
    <3>1. n - 1 \in D /\ n - 1 \in 0 .. last /\ n - 1 < n
      BY <2>2, <2>4, <1>1
    <3>2. Grouped(grouped[n - 1], n - 1)
      BY <3>1, <2>1, <2>2
    <3>3. grouped[n] = Grouping(grouped[n - 1], n - 1)
      BY <1>6, <2>2, <2>4
    <3>4. n - 1 \in Chars
      BY <3>1, <1>1
    <3>5. Grouped(grouped[n], (n - 1) + 1)
      <4> HIDE DEF D, Bad
      <4> QED
        BY <3>2, <3>3, <3>4, GroupingStep
    <3>6. (n - 1) + 1 = n
      BY <2>2
    <3> QED
      BY <2>1, <3>5, <3>6
  <2> QED
    BY <2>3, <2>4
<1>8. last + 1 \in D
  BY <1>1
<1>9. Grouped(group_pairs, last + 1)
  BY <1>2, <1>7, <1>8
<1>10. group_pairs # <<>>
  <2>1. last < last + 1
    BY <1>1
  <2>2. \E y \in 1 .. Len(group_pairs) : group_pairs[y].lower <= last
    BY <1>1, <1>9, <2>1 DEF Grouped
  <2> QED
    BY <2>2
<1> QED
  BY <1>9, <1>10 DEF last

-----------------------------------------------------------------------------
(* While the table of categories is built: the segments are right, the      *)
(* traversal has met what comes before where it is, and the table has the   *)
(* segments in the order of a finished traversal.                           *)
CategoriesInv ==
    /\ categories \in CategoryLists
    /\ segments # <<>> => Grouped(segments, Max(categorized_chars) + 1)
    /\ tree = <<>> => traversal.state = "none" /\ traversal.node = 1 /\ table = <<>>
    /\ tree # <<>> => /\ segments # <<>> /\ TreeOK(Len(segments))
                      /\ TraversalOK(Len(segments), traversal)
    /\ table # <<>> => /\ MetOnce(Len(segments), traversal.result)
                       /\ table = Placed(Len(segments), traversal.result)

(* The finished table is right. *)
LEMMA TableFromInv == CategoriesInv => TableRight
<1> SUFFICES ASSUME CategoriesInv, table # <<>> PROVE TableRight
  BY DEF TableRight
<1> DEFINE n == Len(segments)
           c == Max(categorized_chars) + 1
<1>1. /\ Grouped(segments, c) /\ MetOnce(n, traversal.result) /\ table = Placed(n, traversal.result)
      /\ n \in Nat /\ n # 0
  BY DEF CategoriesInv, TreeOK
<1>2. \A d \in categorized_chars : d \in Chars /\ d < c
  <2>1. /\ categorized_chars \subseteq Chars /\ Max(categorized_chars) \in categorized_chars
        /\ \A d \in categorized_chars : d <= Max(categorized_chars)
    BY CategorizedChars DEF CategoriesInv
  <2>2. \A d \in Chars : d \in Nat
    BY CharAssumption DEF Chars
  <2> QED
    BY <2>1, <2>2
<1> HIDE DEF n, c
<1>3. Searchable(n)
  BY <1>1, <1>2, PlacedIsSearchable DEF n
<1> QED
  BY <1>1, <1>3, SearchableIsRight

(* The segments stay right while they and the categories stay the same.     *)
LEMMA SegmentsStay ==
    ASSUME segments' = segments, categories' = categories,
           Grouped(segments, Max(categorized_chars) + 1)
    PROVE  Grouped(segments, Max(categorized_chars) + 1)'
<1>1. categorized_chars' = categorized_chars
  BY DEF categorized_chars
<1>2. \A d : CategoriesOf(d)' = CategoriesOf(d)
  BY DEF CategoriesOf
<1> QED
  BY <1>1, <1>2 DEF Grouped

(* Every step that builds the table preserves the invariant. *)
LEMMA CategoriesStep == CategoriesInv /\ CategoriesNext => CategoriesInv'
<1> SUFFICES ASSUME CategoriesInv, CategoriesNext PROVE CategoriesInv'
  OBVIOUS
<1> DEFINE n == Len(segments)
           c == Max(categorized_chars) + 1
<1>1. CASE Group
  <2>1. /\ segments = <<>> /\ segments' = group_pairs /\ categories' = categories
        /\ tree' = tree /\ traversal' = traversal /\ table' = table
    BY <1>1 DEF Group
  <2>2. Grouped(group_pairs, c)
    BY GroupPairs DEF CategoriesInv
  <2>3. Grouped(segments, c)'
    BY <2>1, <2>2 DEF Grouped, categorized_chars, CategoriesOf
  <2>4. tree = <<>> /\ table = <<>>
    BY <2>1 DEF CategoriesInv
  <2> QED
    BY <2>1, <2>3, <2>4 DEF CategoriesInv
<1>2. CASE BuildTree
  <2>1. /\ segments # <<>> /\ tree = <<>> /\ tree' = create_permutation_tree(n)
        /\ traversal' = [state |-> "Start", node |-> 1, result |-> <<>>]
        /\ segments' = segments /\ categories' = categories /\ table' = table /\ table = <<>>
    BY <1>2 DEF BuildTree, CategoriesInv
  <2>2. Grouped(segments, c) /\ n \in Nat \ {0}
    BY <2>1 DEF CategoriesInv, Grouped
  <2>3. Grouped(segments, c)'
    BY <2>1, <2>2, SegmentsStay
  <2>4. TreeOK(n)'
    BY <2>1, <2>2 DEF TreeOK, create_permutation_tree
  <2>5. TraversalOK(n, traversal')
    <3>1. traversal' \in [state : {"Start", "Left", "Right", "Parent"}, node : 1 .. n, result : Seq(1 .. n)]
      <4>1. 1 \in 1 .. n
        BY <2>2
      <4> HIDE DEF n
      <4> QED
        BY <2>1, <4>1
    <3>2. InOrder(n, <<>>)
      BY DEF InOrder
    <3>3. traversal'.state = "Start" /\ traversal'.node = 1 /\ traversal'.result = <<>>
      BY <2>1
    <3> QED
      BY <3>1, <3>2, <3>3 DEF TraversalOK, Met
  <2>6. tree' # <<>>
    <3>1. DOMAIN tree' = 1 .. n
      BY <2>1 DEF create_permutation_tree
    <3>2. DOMAIN tree' # {}
      BY <2>2, <3>1
    <3> QED
      BY <3>2
  <2> QED
    BY <2>1, <2>3, <2>4, <2>5, <2>6 DEF CategoriesInv
<1>3. ASSUME TraverseStart \/ TraverseLeft \/ TraverseRight \/ TraverseParent
      PROVE  CategoriesInv'
  <2>1. /\ segments' = segments /\ categories' = categories /\ table' = table
        /\ table = <<>> /\ tree' = tree
        /\ traversal.state \in {"Start", "Left", "Right", "Parent"}
    BY <1>3 DEF TraverseStart, TraverseLeft, TraverseRight, TraverseParent, OnlyTraversal, At
  <2>2. tree # <<>> /\ segments # <<>> /\ TreeOK(n) /\ TraversalOK(n, traversal)
    BY <2>1 DEF CategoriesInv
  <2>3. TraversalOK(n, traversal')
    <3>1. CASE TraverseStart
      BY <2>2, <3>1, StartStep
    <3>2. CASE TraverseLeft
      BY <2>2, <3>2, LeftStep
    <3>3. CASE TraverseRight
      BY <2>2, <3>3, RightStep
    <3>4. CASE TraverseParent
      BY <2>2, <3>4, ParentStep
    <3> QED
      BY <1>3, <3>1, <3>2, <3>3, <3>4
  <2>4. Grouped(segments, c)'
    BY <2>1, <2>2, SegmentsStay DEF CategoriesInv
  <2>5. TreeOK(n)'
    BY <2>1, <2>2 DEF TreeOK
  <2> QED
    BY <2>1, <2>2, <2>3, <2>4, <2>5 DEF CategoriesInv
<1>4. CASE Permutate
  <2> DEFINE r == traversal.result
  <2>1. /\ traversal.state = "Start" /\ r # <<>> /\ table = <<>>
        /\ table' = [p \in DOMAIN segments |->
                        segments[CHOOSE y \in DOMAIN segments : traversal.result[y] = p]]
        /\ segments' = segments /\ categories' = categories /\ tree' = tree
        /\ traversal' = traversal
    BY <1>4 DEF Permutate, At
  <2>2. /\ tree # <<>> /\ segments # <<>> /\ TreeOK(n) /\ TraversalOK(n, traversal)
        /\ Grouped(segments, c) /\ n \in Nat /\ DOMAIN segments = 1 .. n
    BY <2>1 DEF CategoriesInv, Grouped, TreeOK
  <2>3. r \in Seq(1 .. n) /\ InOrder(n, r) /\ Range(r) = 1 .. n
    <3> HIDE DEF n
    <3> QED
      BY <2>1, <2>2 DEF TraversalOK, Met
  <2>4. MetOnce(n, r)
    <3> HIDE DEF n, r
    <3> QED
      BY <2>2, <2>3, AllAreMetOnce
  <2>5. table' = Placed(n, r)
    <3> HIDE DEF n
    <3> QED
      BY <2>1, <2>2 DEF Placed, Turn
  <2>6. Placed(n, r)' = Placed(n, r)
    BY <2>1 DEF Placed
  <2>7. Grouped(segments, c)'
    BY <2>1, <2>2, SegmentsStay
  <2>8. TreeOK(n)'
    BY <2>1, <2>2 DEF TreeOK
  <2> QED
    BY <2>1, <2>2, <2>4, <2>5, <2>6, <2>7, <2>8 DEF CategoriesInv
<1> QED
  BY <1>1, <1>2, <1>3, <1>4 DEF CategoriesNext

(* CategoriesInv speaks of these variables only.                            *)
LEMMA CategoriesStay ==
    ASSUME CategoriesInv, UNCHANGED <<categories, segments, tree, traversal, table>>
    PROVE  CategoriesInv'
<1>1. segments # <<>> => Grouped(segments, Max(categorized_chars) + 1)'
  BY SegmentsStay DEF CategoriesInv
<1> QED
  BY <1>1 DEF CategoriesInv, TreeOK, Placed

(* f has what m turns of a loop compute: F takes the number of a turn and   *)
(* what there was before it.                                                *)
LoopBody(F, X, m) == F \in [(1 .. m) \X X -> X]
LoopOf(f, F, x, X, m) ==
    /\ f \in [0 .. m -> X]
    /\ \A k \in 0 .. m : f[k] = IF k = 0 THEN x ELSE F[<<k, f[k - 1]>>]

(* What a loop computes step by step exists. *)
LEMMA Iterates ==
    ASSUME NEW X, NEW x \in X, NEW m \in Nat, NEW F, LoopBody(F, X, m)
    PROVE  \E f : LoopOf(f, F, x, X, m)
<1> USE DEF LoopBody, LoopOf
<1> DEFINE Steps(f, l) == /\ f \in [0 .. l -> X]
                          /\ \A k \in 0 .. l : f[k] = IF k = 0 THEN x ELSE F[<<k, f[k - 1]>>]
           Bad == {l \in 0 .. m : ~ \E f : Steps(f, l)}
<1>1. ASSUME NEW w \in Bad PROVE FALSE
  <2>1. PICK l \in Bad : \A j \in Bad : l <= j
    <3>1. Bad \in SUBSET Nat
      OBVIOUS
    <3> HIDE DEF Bad
    <3> QED
      BY <3>1, <1>1, LeastNumber
  <2>2. l \in 0 .. m /\ l \in Nat
    BY <2>1
  <2>3. CASE l = 0
    <3> DEFINE f == [k \in 0 .. 0 |-> x]
    <3>1. Steps(f, 0)
      OBVIOUS
    <3> QED
      BY <3>1, <2>1, <2>3
  <2>4. CASE l # 0
    <3>1. l - 1 \in 0 .. m /\ l - 1 \notin Bad /\ l \in 1 .. m
      <4>1. l - 1 \in 0 .. m /\ l \in 1 .. m /\ ~(l <= l - 1)
        BY <2>2, <2>4
      <4> HIDE DEF Bad
      <4> QED
        BY <4>1, <2>1
    <3>2. PICK g : Steps(g, l - 1)
      BY <3>1
    <3> DEFINE f == [k \in 0 .. l |-> IF k = l THEN F[<<l, g[l - 1]>>] ELSE g[k]]
    <3>3. \A k \in 0 .. l - 1 : k \in 0 .. l /\ k # l /\ f[k] = g[k]
      BY <2>2
    <3>4. f[l] = F[<<l, g[l - 1]>>] /\ l - 1 \in 0 .. l - 1
      BY <2>2, <2>4
    <3>5. g[l - 1] \in X /\ F[<<l, g[l - 1]>>] \in X
      BY <3>1, <3>2, <3>4
    <3>6. f \in [0 .. l -> X]
      <4>1. \A k \in 0 .. l : k # l => g[k] \in X
        <5>1. \A k \in 0 .. l : k # l => k \in 0 .. l - 1
          BY <2>2
        <5> QED
          BY <5>1, <3>2
      <4> QED
        BY <3>5, <4>1
    <3> HIDE DEF f
    <3>7. ASSUME NEW k \in 0 .. l
          PROVE  f[k] = IF k = 0 THEN x ELSE F[<<k, f[k - 1]>>]
      <4>1. CASE k = l
        BY <4>1, <2>4, <3>3, <3>4
      <4>2. CASE k # l
        <5>1. k \in 0 .. l - 1 /\ (k # 0 => k - 1 \in 0 .. l - 1)
          BY <2>2, <4>2
        <5>2. g[k] = IF k = 0 THEN x ELSE F[<<k, g[k - 1]>>]
          BY <5>1, <3>2
        <5> QED
          BY <5>1, <5>2, <3>3
      <4> QED
        BY <4>1, <4>2
    <3>8. Steps(f, l)
      BY <3>6, <3>7
    <3> QED
      BY <3>8, <2>1
  <2> QED
    BY <2>3, <2>4
<1>2. m \notin Bad /\ m \in 0 .. m
  BY <1>1
<1> QED
  BY <1>2

-----------------------------------------------------------------------------
(* The first n characters of a word *)
LEMMA FirstElements ==
    ASSUME NEW w \in Seq(Nat), NEW n \in 0 .. Len(w)
    PROVE  /\ SubSeq(w, 1, n) \in Seq(Nat)
           /\ Len(SubSeq(w, 1, n)) = n
           /\ \A y \in 1 .. n : SubSeq(w, 1, n)[y] = w[y]
<1>1. \A y \in 1 .. n : w[y] \in Nat /\ 1 + y - 1 = y
  OBVIOUS
<1>2. n - 1 + 1 = n /\ n \in Int /\ 1 \in Int /\ (n = 0 \/ 1 <= n)
  OBVIOUS
<1>3. /\ SubSeq(w, 1, n) \in Seq(Nat)
      /\ Len(SubSeq(w, 1, n)) = IF 1 <= n THEN n - 1 + 1 ELSE 0
      /\ \A y \in 1 .. n - 1 + 1 : SubSeq(w, 1, n)[y] = w[1 + y - 1]
  BY <1>1, <1>2, SubSeqProperties
<1> QED
  BY <1>1, <1>2, <1>3

(* A beginning of a beginning of a word is one of the word. *)
LEMMA BeginningOfBeginning ==
    ASSUME NEW w \in Seq(Nat), NEW m \in 0 .. Len(w), NEW n \in 0 .. m
    PROVE  SubSeq(SubSeq(w, 1, m), 1, n) = SubSeq(w, 1, n)
<1> DEFINE b == SubSeq(w, 1, m)
           s == SubSeq(b, 1, n)
           t == SubSeq(w, 1, n)
<1>1. b \in Seq(Nat) /\ Len(b) = m /\ \A y \in 1 .. m : b[y] = w[y]
  BY FirstElements
<1>2. n \in 0 .. Len(w) /\ m \in Nat /\ n \in Nat
  OBVIOUS
<1>3. t \in Seq(Nat) /\ Len(t) = n /\ \A y \in 1 .. n : t[y] = w[y]
  BY <1>2, FirstElements
<1> HIDE DEF b, t
<1>4. s \in Seq(Nat) /\ Len(s) = n /\ \A y \in 1 .. n : s[y] = b[y]
  BY <1>1, FirstElements
<1> HIDE DEF s
<1>5. \A y \in 1 .. n : y \in 1 .. m
  BY <1>2
<1>6. \A y \in 1 .. Len(s) : s[y] = t[y]
  BY <1>1, <1>3, <1>4, <1>5
<1>7. s = t
  BY <1>3, <1>4, <1>6, SeqEqual
<1> QED
  BY <1>7 DEF s, t, b

(* IsPrefix and IsStrictPrefix speak of beginnings. *)
LEMMA PrefixIsBeginning ==
    ASSUME NEW p \in Seq(Nat), NEW w \in Seq(Nat)
    PROVE  /\ IsPrefix(p, w) <=> Len(p) <= Len(w) /\ p = SubSeq(w, 1, Len(p))
           /\ IsStrictPrefix(p, w) <=> Len(p) < Len(w) /\ p = SubSeq(w, 1, Len(p))
<1>1. SubSeq(p, 1, Len(p)) = p /\ SubSeq(w, 1, Len(w)) = w /\ Len(p) \in Nat /\ Len(w) \in Nat
  BY SubSeqFull
<1>2. IsPrefix(p, w) <=> Len(p) <= Len(w) /\ p = SubSeq(w, 1, Len(p))
  BY <1>1 DEF IsPrefix
<1>3. ASSUME Len(p) <= Len(w), p = SubSeq(w, 1, Len(p)), p # w PROVE Len(p) < Len(w)
  BY <1>1, <1>3
<1>4. Len(p) < Len(w) => p # w /\ Len(p) <= Len(w)
  BY <1>1
<1> QED
  BY <1>2, <1>3, <1>4 DEF IsStrictPrefix

-----------------------------------------------------------------------------
(* The k-th word goes through the node p and on, to NextOf(p, k). *)
Passes(p, k) == IsStrictPrefix(p, words[k])
NextOf(p, k) == SubSeq(words[k], 1, Len(p) + 1)

(* The words of a table are not empty. *)
WordsOK == words \in Seq(Seq(Nat) \ {<<>>})

(* The node after p on the way of a word through p *)
LEMMA NextNode ==
    ASSUME WordsOK, NEW p \in Seq(Nat), NEW k \in 1 .. Len(words), Passes(p, k)
    PROVE  /\ NextOf(p, k) \in Seq(Nat) /\ Len(NextOf(p, k)) = Len(p) + 1
           /\ SubSeq(NextOf(p, k), 1, Len(p)) = p
           /\ Len(p) + 1 <= Len(words[k])
<1>1. words[k] \in Seq(Nat) /\ Len(words[k]) \in Nat /\ Len(p) \in Nat
  BY DEF WordsOK
<1>2. Len(p) < Len(words[k]) /\ p = SubSeq(words[k], 1, Len(p))
  BY <1>1, PrefixIsBeginning DEF Passes
<1>3. Len(p) + 1 \in 0 .. Len(words[k]) /\ Len(p) \in 0 .. Len(p) + 1
  BY <1>1, <1>2
<1>4. SubSeq(NextOf(p, k), 1, Len(p)) = SubSeq(words[k], 1, Len(p))
  BY <1>1, <1>3, BeginningOfBeginning DEF NextOf
<1> QED
  BY <1>1, <1>2, <1>3, <1>4, FirstElements DEF NextOf

(* A word branches off where no earlier one continued in the same way. *)
LEMMA BranchesIff ==
    ASSUME WordsOK, NEW p \in Seq(Nat), NEW k \in 1 .. Len(words)
    PROVE  Branches(p, k) <=> /\ Passes(p, k)
                              /\ \A j \in 1 .. k - 1 : Passes(p, j) => NextOf(p, j) # NextOf(p, k)
<1> SUFFICES ASSUME Passes(p, k), NEW j \in 1 .. k - 1
             PROVE  IsPrefix(NextOf(p, k), words[j]) <=> Passes(p, j) /\ NextOf(p, j) = NextOf(p, k)
  BY DEF Branches, Passes, NextOf
<1>1. j \in 1 .. Len(words) /\ words[j] \in Seq(Nat) /\ Len(words[j]) \in Nat /\ Len(p) \in Nat
  BY DEF WordsOK
<1>2. /\ NextOf(p, k) \in Seq(Nat) /\ Len(NextOf(p, k)) = Len(p) + 1
      /\ SubSeq(NextOf(p, k), 1, Len(p)) = p
  BY NextNode
<1>3. IsPrefix(NextOf(p, k), words[j]) <=>
         Len(p) + 1 <= Len(words[j]) /\ NextOf(p, k) = SubSeq(words[j], 1, Len(p) + 1)
  BY <1>1, <1>2, PrefixIsBeginning
<1>4. ASSUME Len(p) + 1 <= Len(words[j]), NextOf(p, k) = SubSeq(words[j], 1, Len(p) + 1)
      PROVE  Passes(p, j) /\ NextOf(p, j) = NextOf(p, k)
  <2>1. Len(p) + 1 \in 0 .. Len(words[j]) /\ Len(p) \in 0 .. Len(p) + 1 /\ Len(p) < Len(words[j])
    BY <1>1, <1>4
  <2>2. SubSeq(SubSeq(words[j], 1, Len(p) + 1), 1, Len(p)) = SubSeq(words[j], 1, Len(p))
    BY <1>1, <2>1, BeginningOfBeginning
  <2>3. p = SubSeq(words[j], 1, Len(p))
    BY <1>2, <1>4, <2>2
  <2>4. IsStrictPrefix(p, words[j])
    BY <1>1, <2>1, <2>3, PrefixIsBeginning
  <2> QED
    BY <1>4, <2>4 DEF Passes, NextOf
<1>5. ASSUME Passes(p, j), NextOf(p, j) = NextOf(p, k)
      PROVE  Len(p) + 1 <= Len(words[j]) /\ NextOf(p, k) = SubSeq(words[j], 1, Len(p) + 1)
  BY <1>1, <1>5, NextNode DEF NextOf
<1> QED
  BY <1>3, <1>4, <1>5

(* The children of p that the words up to k added *)
ChildrenUpTo(s, p, k) ==
    /\ s \in Seq(Seq(Nat))
    /\ \A y \in 1 .. Len(s) : \E j \in 1 .. k : Passes(p, j) /\ s[y] = NextOf(p, j)
    /\ \A j \in 1 .. k : Passes(p, j) => \E y \in 1 .. Len(s) : s[y] = NextOf(p, j)
    /\ \A y, j \in 1 .. Len(s) : s[y] = s[j] => y = j

(* One more word adds a child or none. *)
LEMMA ChildAdded ==
    ASSUME WordsOK, NEW p \in Seq(Nat), NEW k \in 1 .. Len(words),
           NEW s, ChildrenUpTo(s, p, k - 1)
    PROVE  ChildrenUpTo(IF Branches(p, k) THEN Append(s, NextOf(p, k)) ELSE s, p, k)
<1>0. /\ k \in Nat /\ s \in Seq(Seq(Nat)) /\ Len(s) \in Nat
      /\ \A j \in 1 .. k : j \in 1 .. k - 1 \/ j = k
      /\ \A j \in 1 .. k - 1 : j \in 1 .. k
      /\ k \in 1 .. k
  BY DEF ChildrenUpTo
<1>1. CASE ~Branches(p, k)
  <2>1. Passes(p, k) => \E y \in 1 .. Len(s) : s[y] = NextOf(p, k)
    <3> SUFFICES ASSUME Passes(p, k) PROVE \E y \in 1 .. Len(s) : s[y] = NextOf(p, k)
      OBVIOUS
    <3>1. PICK j \in 1 .. k - 1 : Passes(p, j) /\ NextOf(p, j) = NextOf(p, k)
      BY <1>1, BranchesIff
    <3>2. \E y \in 1 .. Len(s) : s[y] = NextOf(p, j)
      BY <3>1 DEF ChildrenUpTo
    <3> QED
      BY <3>1, <3>2
  <2>2. ChildrenUpTo(s, p, k)
    BY <1>0, <2>1 DEF ChildrenUpTo
  <2> QED
    BY <1>1, <2>2
<1>2. CASE Branches(p, k)
  <2> DEFINE e == NextOf(p, k)
             t == Append(s, e)
             L == Len(s)
  <2>1. Passes(p, k) /\ \A j \in 1 .. k - 1 : Passes(p, j) => NextOf(p, j) # e
    BY <1>2, BranchesIff
  <2>2. e \in Seq(Nat)
    BY <2>1, NextNode
  <2> HIDE DEF e
  <2>3. /\ t \in Seq(Seq(Nat)) /\ Len(t) = L + 1
        /\ \A y \in 1 .. L : t[y] = s[y]
        /\ t[L + 1] = e
    BY <1>0, <2>2
  <2>4. /\ \A y \in 1 .. L + 1 : y \in 1 .. L \/ y = L + 1
        /\ \A y \in 1 .. L : y \in 1 .. L + 1
        /\ L + 1 \in 1 .. L + 1
    BY <1>0
  <2>5. \A y \in 1 .. L : s[y] # e
    BY <2>1 DEF ChildrenUpTo
  <2> HIDE DEF t
  <2>6. \A y \in 1 .. L + 1 : \E j \in 1 .. k : Passes(p, j) /\ t[y] = NextOf(p, j)
    <3> SUFFICES ASSUME NEW y \in 1 .. L + 1 PROVE \E j \in 1 .. k : Passes(p, j) /\ t[y] = NextOf(p, j)
      OBVIOUS
    <3>1. CASE y = L + 1
      BY <3>1, <1>0, <2>1, <2>3 DEF e
    <3>2. CASE y \in 1 .. L
      <4>1. PICK j \in 1 .. k - 1 : Passes(p, j) /\ s[y] = NextOf(p, j)
        BY <3>2 DEF ChildrenUpTo
      <4> QED
        BY <4>1, <3>2, <1>0, <2>3
    <3> QED
      BY <3>1, <3>2, <2>4
  <2>7. ASSUME NEW j \in 1 .. k, Passes(p, j) PROVE \E y \in 1 .. L + 1 : t[y] = NextOf(p, j)
    <3>1. CASE j = k
      BY <3>1, <2>3, <2>4 DEF e
    <3>2. CASE j \in 1 .. k - 1
      <4>1. PICK y \in 1 .. L : s[y] = NextOf(p, j)
        BY <3>2, <2>7 DEF ChildrenUpTo
      <4> QED
        BY <4>1, <2>3, <2>4
    <3> QED
      BY <3>1, <3>2, <1>0
  <2>8. \A y, j \in 1 .. L + 1 : t[y] = t[j] => y = j
    <3> SUFFICES ASSUME NEW y \in 1 .. L + 1, NEW j \in 1 .. L + 1, t[y] = t[j] PROVE y = j
      OBVIOUS
    <3>1. CASE y = L + 1 /\ j = L + 1
      BY <3>1
    <3>2. CASE y \in 1 .. L /\ j \in 1 .. L
      BY <3>2, <2>3 DEF ChildrenUpTo
    <3>3. ~(y \in 1 .. L /\ j = L + 1) /\ ~(y = L + 1 /\ j \in 1 .. L)
      BY <2>3, <2>5
    <3> QED
      BY <3>1, <3>2, <3>3, <2>4
  <2>9. ChildrenUpTo(t, p, k)
    BY <2>3, <2>6, <2>7, <2>8 DEF ChildrenUpTo
  <2> QED
    BY <1>2, <2>9 DEF t, e
<1> QED
  BY <1>1, <1>2

(* What the list of the children of a node has *)
LEMMA ChildrenList ==
    ASSUME WordsOK, NEW p \in Seq(Nat)
    PROVE  ChildrenUpTo(ChildrenOf(p), p, Len(words))
<1> DEFINE m == Len(words)
           X == Seq(Seq(Nat))
           F == [a \in (1 .. m) \X X |-> IF Branches(p, a[1])
                                        THEN Append(a[2], NextOf(p, a[1])) ELSE a[2]]
           Def(f) == [k \in 0 .. m |-> IF k = 0 THEN <<>>
                                      ELSE IF Branches(p, k) THEN Append(f[k - 1], SubSeq(words[k], 1, Len(p) + 1))
                                      ELSE f[k - 1]]
           grown == CHOOSE f : f = Def(f)
<1>1. ChildrenOf(p) = grown[m]
  BY DEF ChildrenOf
<1>2. m \in Nat
  BY DEF WordsOK
<1>3. F \in [(1 .. m) \X X -> X]
  <2> SUFFICES ASSUME NEW a \in (1 .. m) \X X
               PROVE  (IF Branches(p, a[1]) THEN Append(a[2], NextOf(p, a[1])) ELSE a[2]) \in X
    OBVIOUS
  <2>1. a[1] \in 1 .. m /\ a[2] \in X
    OBVIOUS
  <2>2. Branches(p, a[1]) => NextOf(p, a[1]) \in Seq(Nat)
    BY <2>1, BranchesIff, NextNode
  <2> QED
    BY <2>1, <2>2
<1>4. \A k \in 1 .. m : \A x \in X : F[<<k, x>>] = IF Branches(p, k) THEN Append(x, NextOf(p, k)) ELSE x
  OBVIOUS
<1>5. <<>> \in X
  OBVIOUS
<1> HIDE DEF F, X
<1>6. PICK f : LoopOf(f, F, <<>>, X, m)
  <2> HIDE DEF m
  <2>1. LoopBody(F, X, m)
    BY <1>3 DEF LoopBody
  <2> QED
    BY <1>2, <1>5, <2>1, Iterates
<1>7. f = Def(f)
  <2> SUFFICES ASSUME NEW k \in 0 .. m
               PROVE  f[k] = IF k = 0 THEN <<>>
                             ELSE IF Branches(p, k) THEN Append(f[k - 1], SubSeq(words[k], 1, Len(p) + 1))
                             ELSE f[k - 1]
    <3> HIDE DEF m
    <3>1. DOMAIN f = 0 .. m /\ f = [k \in 0 .. m |-> f[k]]
      BY <1>6 DEF LoopOf
    <3> QED
      BY <3>1
  <2>1. k # 0 => k \in 1 .. m /\ k - 1 \in 0 .. m
    BY <1>2
  <2> HIDE DEF m
  <2>2. k # 0 => f[k] = IF Branches(p, k) THEN Append(f[k - 1], NextOf(p, k)) ELSE f[k - 1]
    <3>1. f[k - 1] \in X \/ k = 0
      BY <2>1, <1>6 DEF LoopOf
    <3>2. f[k] = IF k = 0 THEN <<>> ELSE F[<<k, f[k - 1]>>]
      BY <1>6 DEF LoopOf
    <3> QED
      BY <3>1, <3>2, <2>1, <1>4
  <2>3. k = 0 => f[k] = <<>>
    BY <1>6 DEF LoopOf
  <2> QED
    BY <2>2, <2>3 DEF NextOf
<1>8. grown = Def(grown)
  <2> HIDE DEF Def
  <2> QED
    BY <1>7
<1> HIDE DEF grown
<1>9. \A k \in 0 .. m : grown[k] = IF k = 0 THEN <<>>
                                   ELSE IF Branches(p, k) THEN Append(grown[k - 1], NextOf(p, k))
                                   ELSE grown[k - 1]
  <2> HIDE DEF m
  <2> QED
    BY <1>8 DEF NextOf
<1>10. ASSUME NEW w \in 0 .. m, ~ChildrenUpTo(grown[w], p, w) PROVE FALSE
  <2> DEFINE Bad == {k \in 0 .. m : ~ChildrenUpTo(grown[k], p, k)}
  <2>1. PICK k \in Bad : \A j \in Bad : k <= j
    <3>1. Bad \in SUBSET Nat /\ w \in Bad
      BY <1>2, <1>10
    <3> HIDE DEF Bad
    <3> QED
      BY <3>1, LeastNumber
  <2>2. k \in 0 .. m /\ k \in Nat
    BY <2>1, <1>2
  <2>3. CASE k = 0
    <3>1. grown[0] = <<>>
      BY <1>9, <2>2, <2>3
    <3>2. ChildrenUpTo(<<>>, p, 0)
      BY DEF ChildrenUpTo
    <3> QED
      BY <3>1, <3>2, <2>1, <2>3
  <2>4. CASE k # 0
    <3>1. k \in 1 .. m /\ k - 1 \in 0 .. m /\ k - 1 < k
      BY <2>2, <2>4, <1>2
    <3>2. ChildrenUpTo(grown[k - 1], p, k - 1)
      BY <3>1, <2>1, <2>2
    <3>3. grown[k] = IF Branches(p, k) THEN Append(grown[k - 1], NextOf(p, k)) ELSE grown[k - 1]
      BY <1>9, <2>2, <2>4
    <3>4. ChildrenUpTo(grown[k], p, k)
      <4> HIDE DEF Bad
      <4> QED
        BY <3>1, <3>2, <3>3, ChildAdded
    <3> QED
      BY <3>4, <2>1
  <2> QED
    BY <2>3, <2>4
<1>11. m \in 0 .. m
  BY <1>2
<1>12. ChildrenUpTo(grown[m], p, m)
  BY <1>10, <1>11
<1> QED
  BY <1>1, <1>12 DEF m

(* The children of a node are nodes. *)
LEMMA ChildrenType ==
    ASSUME WordsOK
    PROVE  \A p \in Seq(Nat) : ChildrenOf(p) \in Seq(Seq(Nat))
BY ChildrenList DEF ChildrenUpTo

(* f[k] has the children of the first k nodes of the level l. *)
LevelLoop(f, l) ==
    /\ \A k \in 0 .. Len(l) : f[k] \in Seq(Seq(Nat))
    /\ f[0] = <<>>
    /\ \A k \in 1 .. Len(l) : f[k] = f[k - 1] \o ChildrenOf(l[k])

(* What get_next_level computes step by step *)
LEMMA NextLevelLoop ==
    ASSUME WordsOK, NEW l \in Seq(Seq(Nat))
    PROVE  \E f : LevelLoop(f, l) /\ next_level(l) = f[Len(l)]
<1> DEFINE m == Len(l)
           X == Seq(Seq(Nat))
           F == [a \in (1 .. m) \X X |-> a[2] \o ChildrenOf(l[a[1]])]
           Def(f) == [k \in 0 .. m |-> IF k = 0 THEN <<>> ELSE f[k - 1] \o ChildrenOf(l[k])]
           upto == CHOOSE f : f = Def(f)
<1>1. next_level(l) = upto[m]
  BY DEF next_level
<1>2. m \in Nat /\ \A k \in 1 .. m : l[k] \in Seq(Nat)
  OBVIOUS
<1>3. \A k \in 1 .. m : ChildrenOf(l[k]) \in X
  BY <1>2, ChildrenType
<1>4. F \in [(1 .. m) \X X -> X]
  <2> SUFFICES ASSUME NEW a \in (1 .. m) \X X PROVE a[2] \o ChildrenOf(l[a[1]]) \in X
    OBVIOUS
  <2>1. a[1] \in 1 .. m /\ a[2] \in X
    OBVIOUS
  <2>2. ChildrenOf(l[a[1]]) \in X
    BY <1>3, <2>1
  <2> QED
    BY <2>1, <2>2
<1>5. \A k \in 1 .. m : \A x \in X : F[<<k, x>>] = x \o ChildrenOf(l[k])
  OBVIOUS
<1>6. <<>> \in X
  OBVIOUS
<1> HIDE DEF F, X
<1>7. PICK f : LoopOf(f, F, <<>>, X, m)
  <2> HIDE DEF m
  <2>1. LoopBody(F, X, m)
    BY <1>4 DEF LoopBody
  <2> QED
    BY <1>2, <1>6, <2>1, Iterates
<1>8. f = Def(f)
  <2> SUFFICES ASSUME NEW k \in 0 .. m
               PROVE  f[k] = IF k = 0 THEN <<>> ELSE f[k - 1] \o ChildrenOf(l[k])
    <3> HIDE DEF m
    <3>1. DOMAIN f = 0 .. m /\ f = [k \in 0 .. m |-> f[k]]
      BY <1>7 DEF LoopOf
    <3> QED
      BY <3>1
  <2>1. k # 0 => k \in 1 .. m /\ k - 1 \in 0 .. m
    BY <1>2
  <2> HIDE DEF m
  <2>2. k # 0 => f[k] = f[k - 1] \o ChildrenOf(l[k])
    <3>1. f[k - 1] \in X \/ k = 0
      BY <2>1, <1>7 DEF LoopOf
    <3>2. f[k] = IF k = 0 THEN <<>> ELSE F[<<k, f[k - 1]>>]
      BY <1>7 DEF LoopOf
    <3> QED
      BY <3>1, <3>2, <2>1, <1>5
  <2>3. k = 0 => f[k] = <<>>
    BY <1>7 DEF LoopOf
  <2> QED
    BY <2>2, <2>3
<1>9. upto = Def(upto)
  <2> HIDE DEF Def
  <2> QED
    BY <1>8
<1> HIDE DEF upto
<1>10. \A k \in 0 .. m : upto[k] = IF k = 0 THEN <<>> ELSE upto[k - 1] \o ChildrenOf(l[k])
  <2> HIDE DEF m
  <2> QED
    BY <1>9
<1>11. ASSUME NEW w \in 0 .. m, upto[w] \notin X PROVE FALSE
  <2> DEFINE Bad == {k \in 0 .. m : upto[k] \notin X}
  <2>1. PICK k \in Bad : \A j \in Bad : k <= j
    <3>1. Bad \in SUBSET Nat /\ w \in Bad
      BY <1>2, <1>11
    <3> HIDE DEF Bad
    <3> QED
      BY <3>1, LeastNumber
  <2>2. k \in 0 .. m /\ k \in Nat
    BY <2>1, <1>2
  <2>3. upto[k] = IF k = 0 THEN <<>> ELSE upto[k - 1] \o ChildrenOf(l[k])
    BY <1>10, <2>2
  <2>4. CASE k = 0
    BY <2>1, <2>3, <2>4, <1>6
  <2>5. CASE k # 0
    <3>1. k \in 1 .. m /\ k - 1 \in 0 .. m /\ ~(k <= k - 1)
      BY <2>2, <2>5, <1>2
    <3>2. upto[k - 1] \in X
      BY <3>1, <2>1
    <3>3. upto[k - 1] \o ChildrenOf(l[k]) \in X
      BY <3>1, <3>2, <1>3 DEF X
    <3> QED
      BY <2>1, <2>3, <2>5, <3>3
  <2> QED
    BY <2>4, <2>5
<1>12. LevelLoop(upto, l)
  <2>1. 0 \in 0 .. m /\ \A k \in 1 .. m : k \in 0 .. m /\ k # 0
    BY <1>2
  <2>2. \A k \in 0 .. m : upto[k] \in X
    BY <1>11
  <2> QED
    BY <1>10, <2>1, <2>2 DEF LevelLoop, X
<1> QED
  BY <1>1, <1>12

(* The sequence t starts with s. *)
Starts(s, t) == Len(s) <= Len(t) /\ \A x \in 1 .. Len(s) : t[x] = s[x]

(* The children that were there stay where they are. *)
LEMMA LevelGrows ==
    ASSUME WordsOK, NEW l \in Seq(Seq(Nat)), NEW f, LevelLoop(f, l),
           NEW y \in 0 .. Len(l), NEW w \in y .. Len(l)
    PROVE  Starts(f[y], f[w])
<1> DEFINE Bad == {k \in y .. Len(l) : ~Starts(f[y], f[k])}
<1> SUFFICES ASSUME w \in Bad PROVE FALSE
  OBVIOUS
<1>1. PICK k \in Bad : \A j \in Bad : k <= j
  <2>1. Bad \in SUBSET Nat
    OBVIOUS
  <2> HIDE DEF Bad
  <2> QED
    BY <2>1, LeastNumber
<1>2. k \in y .. Len(l) /\ k \in Nat /\ Len(l) \in Nat /\ y \in Nat
  BY <1>1
<1>3. f[y] \in Seq(Seq(Nat)) /\ k \in 0 .. Len(l)
  BY <1>2 DEF LevelLoop
<1>4. CASE k = y
  BY <1>1, <1>3, <1>4 DEF Starts
<1>5. CASE k # y
  <2>1. k \in 1 .. Len(l) /\ k - 1 \in y .. Len(l) /\ k - 1 \in 0 .. Len(l) /\ ~(k <= k - 1)
    BY <1>2, <1>5
  <2>2. Starts(f[y], f[k - 1])
    BY <2>1, <1>1
  <2>3. f[k - 1] \in Seq(Seq(Nat)) /\ f[k] = f[k - 1] \o ChildrenOf(l[k])
    BY <2>1 DEF LevelLoop
  <2>4. ChildrenOf(l[k]) \in Seq(Seq(Nat))
    BY <2>1, ChildrenType
  <2> DEFINE s == f[y]
             t == f[k - 1]
             c == ChildrenOf(l[k])
  <2>5. s \in Seq(Seq(Nat)) /\ t \in Seq(Seq(Nat)) /\ c \in Seq(Seq(Nat)) /\ Starts(s, t)
    BY <1>3, <2>2, <2>3, <2>4
  <2> HIDE DEF s, t, c
  <2>6. Starts(s, t \o c)
    <3>1. /\ Len(t \o c) = Len(t) + Len(c) /\ Len(t) \in Nat /\ Len(c) \in Nat /\ Len(s) \in Nat
          /\ \A x \in 1 .. Len(t) : (t \o c)[x] = t[x]
      BY <2>5
    <3>2. Len(s) <= Len(t) /\ \A x \in 1 .. Len(s) : t[x] = s[x]
      BY <2>5 DEF Starts
    <3>3. \A x \in 1 .. Len(s) : x \in 1 .. Len(t)
      BY <3>1, <3>2
    <3>4. Len(s) <= Len(t \o c)
      BY <3>1, <3>2
    <3> QED
      BY <3>1, <3>2, <3>3, <3>4 DEF Starts
  <2>7. Starts(f[y], f[k])
    BY <2>3, <2>6 DEF s, t, c
  <2> QED
    BY <1>1, <2>7
<1> QED
  BY <1>4, <1>5

(* The children of the i-th node of a level stand in the next one behind    *)
(* those of the nodes before it, and nothing else stands there.             *)
Places(f, l, n) ==
    /\ n \in Seq(Seq(Nat))
    /\ \A y \in 1 .. Len(l) : /\ Len(f[y - 1]) \in Nat
                              /\ Len(f[y - 1]) + Len(ChildrenOf(l[y])) <= Len(n)
                              /\ \A j \in 1 .. Len(ChildrenOf(l[y])) :
                                    n[Len(f[y - 1]) + j] = ChildrenOf(l[y])[j]
    /\ \A x \in 1 .. Len(n) :
           \E y \in 1 .. Len(l) : \E j \in 1 .. Len(ChildrenOf(l[y])) :
               x = Len(f[y - 1]) + j

(* The children of a level stand where Places says. *)
LEMMA LevelPlaces ==
    ASSUME WordsOK, NEW l \in Seq(Seq(Nat)), NEW f, LevelLoop(f, l), NEW n, n = f[Len(l)]
    PROVE  Places(f, l, n)
<1>0. Len(l) \in Nat /\ n \in Seq(Seq(Nat)) /\ Len(n) \in Nat
  BY DEF LevelLoop
<1>1. ASSUME NEW y \in 1 .. Len(l)
      PROVE  /\ Len(f[y - 1]) \in Nat
             /\ Len(f[y]) = Len(f[y - 1]) + Len(ChildrenOf(l[y]))
             /\ Len(f[y]) <= Len(n)
             /\ \A j \in 1 .. Len(ChildrenOf(l[y])) : n[Len(f[y - 1]) + j] = ChildrenOf(l[y])[j]
  <2> DEFINE t == f[y - 1]
             c == ChildrenOf(l[y])
             u == f[y]
  <2>1. y \in 0 .. Len(l) /\ y - 1 \in 0 .. Len(l) /\ Len(l) \in y .. Len(l)
    BY <1>0
  <2>2. t \in Seq(Seq(Nat)) /\ c \in Seq(Seq(Nat)) /\ u = t \o c
    <3>1. l[y] \in Seq(Nat)
      OBVIOUS
    <3> QED
      BY <2>1, <3>1, ChildrenType DEF LevelLoop
  <2>3. Starts(u, n)
    BY <2>1, LevelGrows
  <2> HIDE DEF t, c, u
  <2>4. /\ Len(t) \in Nat /\ Len(c) \in Nat /\ Len(u) = Len(t) + Len(c)
        /\ \A j \in 1 .. Len(c) : u[Len(t) + j] = c[j]
    BY <2>2
  <2>5. \A j \in 1 .. Len(c) : Len(t) + j \in 1 .. Len(u)
    BY <2>4
  <2>6. Len(u) <= Len(n) /\ \A j \in 1 .. Len(c) : n[Len(t) + j] = c[j]
    BY <2>3, <2>4, <2>5 DEF Starts
  <2> QED
    BY <2>4, <2>6 DEF t, c, u
<1>2. ASSUME NEW x \in 1 .. Len(n)
      PROVE  \E y \in 1 .. Len(l) : \E j \in 1 .. Len(ChildrenOf(l[y])) : x = Len(f[y - 1]) + j
  <2> DEFINE Far == {k \in 0 .. Len(l) : x <= Len(f[k])}
  <2>1. Len(l) \in Far
    BY <1>0, <1>2
  <2>2. PICK y \in Far : \A k \in Far : y <= k
    <3>1. Far \in SUBSET Nat
      OBVIOUS
    <3> HIDE DEF Far
    <3> QED
      BY <2>1, <3>1, LeastNumber
  <2>3. y \in 0 .. Len(l) /\ x <= Len(f[y])
    BY <2>2
  <2>4. y # 0
    <3>1. Len(f[0]) = 0
      BY DEF LevelLoop
    <3> QED
      BY <2>3, <3>1, <1>0
  <2>5. y \in 1 .. Len(l) /\ y - 1 \in 0 .. Len(l) /\ ~(y <= y - 1)
    BY <2>3, <2>4, <1>0
  <2>6. ~(x <= Len(f[y - 1]))
    BY <2>2, <2>5
  <2>7. /\ Len(f[y - 1]) \in Nat
        /\ Len(f[y]) = Len(f[y - 1]) + Len(ChildrenOf(l[y]))
    BY <1>1, <2>5
  <2>8. Len(ChildrenOf(l[y])) \in Nat
    <3>1. l[y] \in Seq(Nat)
      BY <2>5
    <3>2. ChildrenOf(l[y]) \in Seq(Seq(Nat))
      BY <3>1, ChildrenType
    <3> QED
      BY <3>2
  <2> DEFINE j == x - Len(f[y - 1])
  <2>9. j \in 1 .. Len(ChildrenOf(l[y])) /\ x = Len(f[y - 1]) + j
    <3> DEFINE a == Len(f[y - 1])
               b == Len(f[y])
               c == Len(ChildrenOf(l[y]))
    <3>1. a \in Nat /\ c \in Nat /\ b = a + c /\ x \in Nat /\ x <= b /\ ~(x <= a)
      <4>1. x \in Nat
        BY <1>0
      <4>2. a \in Nat /\ b = a + c
        BY <2>7
      <4>3. c \in Nat
        BY <2>8
      <4>4. x <= b
        BY <2>3
      <4>5. ~(x <= a)
        BY <2>6
      <4> QED
        BY <4>1, <4>2, <4>3, <4>4, <4>5
    <3> HIDE DEF a, b, c
    <3>2. x - a \in 1 .. c /\ x = a + (x - a)
      BY <3>1
    <3> QED
      BY <3>2 DEF a, c
  <2> QED
    BY <2>5, <2>9
<1>3. \A y \in 1 .. Len(l) : Len(f[y - 1]) + Len(ChildrenOf(l[y])) <= Len(n)
  BY <1>1
<1> QED
  BY <1>0, <1>1, <1>2, <1>3 DEF Places

(* What one node adds to the first states of the nodes behind it *)
Shift(p) == IF ChildrenOf(p) = <<>> THEN 0 ELSE Len(ChildrenOf(p)) - 1

(* The correction is the number of the children before, less the number of  *)
(* the nodes before, plus the number of those that have no children.        *)
LEMMA CorrectionCounts ==
    ASSUME WordsOK, NEW l \in Seq(Seq(Nat)), NEW f, LevelLoop(f, l), NEW h \in 1 .. Len(l)
    PROVE  \E v \in Nat : /\ correction(l, h) \in Int
                          /\ correction(l, h) + (h - 1) = Len(f[h - 1]) + v
                          /\ v = 0 <=> \A k \in 1 .. h - 1 : ChildrenOf(l[k]) # <<>>
<1> DEFINE m == h - 1
           F == [a \in (1 .. m) \X Int |-> a[2] + Shift(l[a[1]])]
           Def(g) == [k \in 0 .. m |-> IF k = 0 THEN 0
                                      ELSE g[k - 1] + IF ChildrenOf(l[k]) = <<>> THEN 0
                                                      ELSE Len(ChildrenOf(l[k])) - 1]
           before == CHOOSE g : g = Def(g)
<1>1. correction(l, h) = before[m]
  BY DEF correction
<1>2. /\ m \in Nat /\ Len(l) \in Nat
      /\ \A k \in 1 .. m : k \in 1 .. Len(l) /\ l[k] \in Seq(Nat)
  OBVIOUS
<1>3. \A k \in 1 .. m : ChildrenOf(l[k]) \in Seq(Seq(Nat)) /\ Len(ChildrenOf(l[k])) \in Nat
  <2> SUFFICES ASSUME NEW k \in 1 .. m
               PROVE  ChildrenOf(l[k]) \in Seq(Seq(Nat)) /\ Len(ChildrenOf(l[k])) \in Nat
    OBVIOUS
  <2>1. ChildrenOf(l[k]) \in Seq(Seq(Nat))
    BY <1>2, ChildrenType
  <2> QED
    BY <2>1
<1>4. \A k \in 1 .. m : Shift(l[k]) \in Int
  BY <1>3 DEF Shift
<1>5. F \in [(1 .. m) \X Int -> Int]
  <2> SUFFICES ASSUME NEW a \in (1 .. m) \X Int PROVE a[2] + Shift(l[a[1]]) \in Int
    OBVIOUS
  <2>1. a[1] \in 1 .. m /\ a[2] \in Int
    OBVIOUS
  <2>2. Shift(l[a[1]]) \in Int
    BY <1>4, <2>1
  <2> QED
    BY <2>1, <2>2
<1>6. \A k \in 1 .. m : \A x \in Int : F[<<k, x>>] = x + Shift(l[k])
  OBVIOUS
<1> HIDE DEF F
<1>7. PICK g : LoopOf(g, F, 0, Int, m)
  <2> HIDE DEF m
  <2>1. LoopBody(F, Int, m)
    BY <1>5 DEF LoopBody
  <2>2. 0 \in Int
    OBVIOUS
  <2> QED
    BY <1>2, <2>1, <2>2, Iterates
<1>8. g = Def(g)
  <2> SUFFICES ASSUME NEW k \in 0 .. m
               PROVE  g[k] = IF k = 0 THEN 0
                             ELSE g[k - 1] + IF ChildrenOf(l[k]) = <<>> THEN 0
                                             ELSE Len(ChildrenOf(l[k])) - 1
    <3> HIDE DEF m
    <3>1. DOMAIN g = 0 .. m /\ g = [k \in 0 .. m |-> g[k]]
      BY <1>7 DEF LoopOf
    <3> QED
      BY <3>1
  <2>1. k # 0 => k \in 1 .. m /\ k - 1 \in 0 .. m
    BY <1>2
  <2> HIDE DEF m
  <2>2. k # 0 => g[k] = g[k - 1] + Shift(l[k])
    <3>1. g[k - 1] \in Int \/ k = 0
      BY <2>1, <1>7 DEF LoopOf
    <3>2. g[k] = IF k = 0 THEN 0 ELSE F[<<k, g[k - 1]>>]
      BY <1>7 DEF LoopOf
    <3> QED
      BY <3>1, <3>2, <2>1, <1>6
  <2>3. k = 0 => g[k] = 0
    BY <1>7 DEF LoopOf
  <2> QED
    BY <2>2, <2>3 DEF Shift
<1>9. before = Def(before)
  <2> HIDE DEF Def
  <2> QED
    BY <1>8
<1> HIDE DEF before
<1>10. before[0] = 0 /\ \A k \in 1 .. m : before[k] = before[k - 1] + Shift(l[k])
  <2>1. 0 \in 0 .. m /\ \A k \in 1 .. m : k \in 0 .. m /\ k # 0
    BY <1>2
  <2>2. \A k \in 0 .. m : before[k] = IF k = 0 THEN 0
                                      ELSE before[k - 1] + IF ChildrenOf(l[k]) = <<>> THEN 0
                                                           ELSE Len(ChildrenOf(l[k])) - 1
    <3> HIDE DEF m
    <3> QED
      BY <1>9
  <2> HIDE DEF m
  <2> QED
    BY <2>1, <2>2 DEF Shift
<1> DEFINE Good(k) == \E v \in Nat : /\ before[k] \in Int
                                     /\ before[k] + k = Len(f[k]) + v
                                     /\ v = 0 <=> \A j \in 1 .. k : ChildrenOf(l[j]) # <<>>
           Bad == {k \in 0 .. m : ~Good(k)}
<1>11. ASSUME NEW w \in Bad PROVE FALSE
  <2>1. PICK k \in Bad : \A j \in Bad : k <= j
    <3>1. Bad \in SUBSET Nat
      <4> HIDE DEF Good
      <4> QED
        BY <1>2
    <3> HIDE DEF Bad
    <3> QED
      BY <3>1, <1>11, LeastNumber
  <2>2. k \in 0 .. m /\ k \in Nat /\ ~Good(k)
    <3> HIDE DEF Good
    <3> QED
      BY <2>1, <1>2
  <2>3. CASE k = 0
    <3>1. before[0] + 0 = Len(f[0]) + 0
      BY <1>10 DEF LevelLoop
    <3>2. before[0] \in Int /\ 0 \in Nat /\ \A j \in 1 .. 0 : ChildrenOf(l[j]) # <<>>
      BY <1>10
    <3>3. Good(0)
      BY <3>1, <3>2
    <3> QED
      BY <2>2, <2>3, <3>3
  <2>4. CASE k # 0
    <3>1. k \in 1 .. m /\ k - 1 \in 0 .. m /\ ~(k <= k - 1) /\ k \in 1 .. Len(l) /\ k - 1 \in 0 .. Len(l)
      BY <2>2, <2>4, <1>2
    <3>2. Good(k - 1)
      <4> HIDE DEF Good
      <4> QED
        BY <3>1, <2>1
    <3>3. PICK v \in Nat : /\ before[k - 1] \in Int
                           /\ before[k - 1] + (k - 1) = Len(f[k - 1]) + v
                           /\ v = 0 <=> \A j \in 1 .. k - 1 : ChildrenOf(l[j]) # <<>>
      BY <3>2
    <3>4. before[k] = before[k - 1] + Shift(l[k])
      BY <1>10, <3>1
    <3> DEFINE c == ChildrenOf(l[k])
               t == f[k - 1]
    <3>5. c \in Seq(Seq(Nat)) /\ t \in Seq(Seq(Nat)) /\ f[k] = t \o c
      BY <1>3, <3>1 DEF LevelLoop
    <3>6. Len(f[k]) = Len(t) + Len(c) /\ Len(t) \in Nat /\ Len(c) \in Nat
      <4> HIDE DEF c, t
      <4> QED
        BY <3>5
    <3>7. \A j \in 1 .. k : j \in 1 .. k - 1 \/ j = k
      BY <2>2
    <3>8. before[k - 1] \in Int /\ before[k] \in Int
      BY <3>3, <3>4, <3>1, <1>4
    <3>9. CASE c = <<>>
      <4>1. before[k] = before[k - 1] + 0 /\ Len(c) = 0
        BY <3>4, <3>9 DEF Shift
      <4>2. before[k] + k = Len(f[k]) + (v + 1)
        <5>1. before[k - 1] + (k - 1) = Len(t) + v
          BY <3>3
        <5> HIDE DEF c, t
        <5> DEFINE x == before[k]
                   y == before[k - 1]
                   z == Len(f[k])
                   a == Len(t)
                   d == Len(c)
        <5>2. x \in Int /\ y \in Int /\ a \in Nat /\ d = 0 /\ x = y + 0 /\ z = a + d /\ y + (k - 1) = a + v
          BY <5>1, <4>1, <3>6, <3>8
        <5> HIDE DEF x, y, z, a, d
        <5>3. x + k = z + (v + 1)
          BY <5>2, <2>2
        <5> QED
          BY <5>3 DEF x, z
      <4>3. v + 1 \in Nat /\ v + 1 # 0 /\ k \in 1 .. k
        BY <3>1
      <4>4. Good(k)
        BY <4>2, <4>3, <3>8, <3>9
      <4> QED
        BY <4>4, <2>2
    <3>10. CASE c # <<>>
      <4>1. before[k] = before[k - 1] + (Len(c) - 1)
        BY <3>4, <3>10 DEF Shift
      <4>2. before[k] + k = Len(f[k]) + v
        <5>1. before[k - 1] + (k - 1) = Len(t) + v
          BY <3>3
        <5> HIDE DEF c, t
        <5> DEFINE x == before[k]
                   y == before[k - 1]
                   z == Len(f[k])
                   a == Len(t)
                   d == Len(c)
        <5>2. x \in Int /\ y \in Int /\ a \in Nat /\ d \in Nat /\ x = y + (d - 1) /\ z = a + d
              /\ y + (k - 1) = a + v
          BY <5>1, <4>1, <3>6, <3>8
        <5> HIDE DEF x, y, z, a, d
        <5>3. x + k = z + v
          BY <5>2, <2>2
        <5> QED
          BY <5>3 DEF x, z
      <4>3. v = 0 <=> \A j \in 1 .. k : ChildrenOf(l[j]) # <<>>
        <5>1. \A j \in 1 .. k - 1 : j \in 1 .. k
          BY <2>2
        <5> QED
          BY <3>3, <3>7, <3>10, <5>1
      <4>4. Good(k)
        BY <4>2, <4>3, <3>8
      <4> QED
        BY <4>4, <2>2
    <3> QED
      BY <3>9, <3>10
  <2> QED
    BY <2>3, <2>4
<1>12. m \in 0 .. m
  BY <1>2
<1>13. Good(m)
  <2> HIDE DEF Good
  <2> QED
    BY <1>11, <1>12
<1> HIDE DEF m
<1>14. m = h - 1
  BY DEF m
<1> QED
  BY <1>1, <1>13, <1>14

(* Two lists of nodes one behind the other *)
LEMMA TwoLists ==
    ASSUME NEW s \in Seq(Seq(Nat)), NEW t \in Seq(Seq(Nat))
    PROVE  /\ s \o t \in Seq(Seq(Nat)) /\ Len(s \o t) = Len(s) + Len(t)
           /\ Len(s) \in Nat /\ Len(t) \in Nat
           /\ \A h \in 1 .. Len(s) : h \in 1 .. Len(s \o t) /\ (s \o t)[h] = s[h]
           /\ \A j \in 1 .. Len(t) : Len(s) + j \in 1 .. Len(s \o t) /\ (s \o t)[Len(s) + j] = t[j]
           /\ \A h \in 1 .. Len(s \o t) : h \in 1 .. Len(s) \/ \E j \in 1 .. Len(t) : h = Len(s) + j
<1> DEFINE u == s \o t
           a == Len(s)
           b == Len(t)
<1>1. /\ u \in Seq(Seq(Nat)) /\ Len(u) = a + b /\ a \in Nat /\ b \in Nat
      /\ \A h \in 1 .. a : u[h] = s[h]
      /\ \A j \in 1 .. b : u[a + j] = t[j]
  OBVIOUS
<1> HIDE DEF u, a, b
<1>2. ASSUME NEW h \in 1 .. a + b, h \notin 1 .. a PROVE \E j \in 1 .. b : h = a + j
  <2>1. h - a \in 1 .. b /\ h = a + (h - a)
    BY <1>1, <1>2
  <2> QED
    BY <2>1
<1>3. /\ \A h \in 1 .. a : h \in 1 .. a + b
      /\ \A j \in 1 .. b : a + j \in 1 .. a + b
  BY <1>1
<1> QED
  BY <1>1, <1>2, <1>3 DEF u, a, b

(* A child is its parent with one more character. *)
LEMMA ChildOfNode ==
    ASSUME WordsOK, NEW p \in Seq(Nat), NEW j \in 1 .. Len(ChildrenOf(p))
    PROVE  /\ ChildrenOf(p)[j] \in Seq(Nat)
           /\ Len(ChildrenOf(p)[j]) = Len(p) + 1
           /\ SubSeq(ChildrenOf(p)[j], 1, Len(p)) = p
           /\ p # <<>> => ChildrenOf(p)[j][1] = p[1]
<1>1. PICK k \in 1 .. Len(words) : Passes(p, k) /\ ChildrenOf(p)[j] = NextOf(p, k)
  BY ChildrenList DEF ChildrenUpTo
<1> DEFINE c == NextOf(p, k)
<1>2. c \in Seq(Nat) /\ Len(c) = Len(p) + 1 /\ SubSeq(c, 1, Len(p)) = p
  BY <1>1, NextNode
<1>3. p # <<>> => c[1] = p[1]
  <2> HIDE DEF c
  <2> SUFFICES ASSUME p # <<>> PROVE c[1] = p[1]
    OBVIOUS
  <2>1. Len(p) \in 0 .. Len(c) /\ 1 \in 1 .. Len(p)
    BY <1>2
  <2>2. SubSeq(c, 1, Len(p))[1] = c[1]
    BY <1>2, <2>1, FirstElements
  <2> QED
    BY <1>2, <2>2
<1> HIDE DEF c
<1> QED
  BY <1>1, <1>2, <1>3 DEF c

(* No child is listed twice. *)
LEMMA ChildrenDiffer ==
    ASSUME WordsOK, NEW p \in Seq(Nat)
    PROVE  \A h, j \in 1 .. Len(ChildrenOf(p)) : ChildrenOf(p)[h] = ChildrenOf(p)[j] => h = j
BY ChildrenList DEF ChildrenUpTo

(* Nodes that differ; nodes of one length and one subtree; nodes below the *)
(* root                                                                    *)
Distinct(l) == \A h, j \in 1 .. Len(l) : l[h] = l[j] => h = j
OneLevel(l) == \A h, j \in 1 .. Len(l) : Len(l[h]) = Len(l[j]) /\ l[h][1] = l[j][1]
Filled(l) == \A h \in 1 .. Len(l) : l[h] # <<>>

(* The next level of a level: different nodes, one longer and of the same  *)
(* subtree                                                                 *)
LEMMA NextLevelOK ==
    ASSUME WordsOK, NEW l \in Seq(Seq(Nat)), Distinct(l), OneLevel(l), Filled(l)
    PROVE  /\ next_level(l) \in Seq(Seq(Nat))
           /\ Distinct(next_level(l))
           /\ Filled(next_level(l))
           /\ \A x \in 1 .. Len(next_level(l)) : \A h \in 1 .. Len(l) :
                 Len(next_level(l)[x]) = Len(l[h]) + 1 /\ next_level(l)[x][1] = l[h][1]
<1>1. PICK f : LevelLoop(f, l) /\ next_level(l) = f[Len(l)]
  BY NextLevelLoop
<1> DEFINE n == next_level(l)
<1> HIDE DEF n
<1>0. n = f[Len(l)] /\ LevelLoop(f, l)
  BY <1>1 DEF n
<1>2. /\ n \in Seq(Seq(Nat))
      /\ \A h \in 1 .. Len(l) : /\ Len(f[h - 1]) \in Nat
                                /\ Len(f[h - 1]) + Len(ChildrenOf(l[h])) <= Len(n)
                                /\ \A j \in 1 .. Len(ChildrenOf(l[h])) :
                                      n[Len(f[h - 1]) + j] = ChildrenOf(l[h])[j]
      /\ \A x \in 1 .. Len(n) :
             \E h \in 1 .. Len(l) : \E j \in 1 .. Len(ChildrenOf(l[h])) :
                 x = Len(f[h - 1]) + j
  <2>1. Places(f, l, n)
    BY <1>0, LevelPlaces
  <2> QED
    BY <2>1 DEF Places
<1>3. ASSUME NEW x \in 1 .. Len(n)
      PROVE  \E h \in 1 .. Len(l) : \E j \in 1 .. Len(ChildrenOf(l[h])) :
                 /\ x = Len(f[h - 1]) + j /\ n[x] = ChildrenOf(l[h])[j]
                 /\ l[h] \in Seq(Nat) /\ l[h] # <<>>
                 /\ n[x] \in Seq(Nat) /\ Len(n[x]) = Len(l[h]) + 1
                 /\ SubSeq(n[x], 1, Len(l[h])) = l[h] /\ n[x][1] = l[h][1]
  <2>1. PICK h \in 1 .. Len(l) : \E j \in 1 .. Len(ChildrenOf(l[h])) : x = Len(f[h - 1]) + j
    BY <1>2
  <2>2. PICK j \in 1 .. Len(ChildrenOf(l[h])) : x = Len(f[h - 1]) + j
    BY <2>1
  <2>3. n[x] = ChildrenOf(l[h])[j]
    BY <1>2, <2>1, <2>2
  <2>4. l[h] \in Seq(Nat) /\ l[h] # <<>>
    BY DEF Filled
  <2>5. /\ ChildrenOf(l[h])[j] \in Seq(Nat) /\ Len(ChildrenOf(l[h])[j]) = Len(l[h]) + 1
        /\ SubSeq(ChildrenOf(l[h])[j], 1, Len(l[h])) = l[h]
        /\ l[h] # <<>> => ChildrenOf(l[h])[j][1] = l[h][1]
    BY <2>4, ChildOfNode
  <2> QED
    BY <2>2, <2>3, <2>4, <2>5
<1>4. Distinct(n)
  <2> SUFFICES ASSUME NEW x \in 1 .. Len(n), NEW y \in 1 .. Len(n), n[x] = n[y] PROVE x = y
    BY DEF Distinct
  <2>1. PICK h \in 1 .. Len(l) : \E j \in 1 .. Len(ChildrenOf(l[h])) :
                 /\ x = Len(f[h - 1]) + j /\ n[x] = ChildrenOf(l[h])[j]
                 /\ l[h] \in Seq(Nat)
                 /\ SubSeq(n[x], 1, Len(l[h])) = l[h]
    BY <1>3
  <2>2. PICK j \in 1 .. Len(ChildrenOf(l[h])) :
                 /\ x = Len(f[h - 1]) + j /\ n[x] = ChildrenOf(l[h])[j]
                 /\ SubSeq(n[x], 1, Len(l[h])) = l[h]
    BY <2>1
  <2>3. PICK k \in 1 .. Len(l) : \E m \in 1 .. Len(ChildrenOf(l[k])) :
                 /\ y = Len(f[k - 1]) + m /\ n[y] = ChildrenOf(l[k])[m]
                 /\ SubSeq(n[y], 1, Len(l[k])) = l[k]
    BY <1>3
  <2>4. PICK m \in 1 .. Len(ChildrenOf(l[k])) :
                 /\ y = Len(f[k - 1]) + m /\ n[y] = ChildrenOf(l[k])[m]
                 /\ SubSeq(n[y], 1, Len(l[k])) = l[k]
    BY <2>3
  <2>5. Len(l[h]) = Len(l[k])
    BY DEF OneLevel
  <2>6. l[h] = l[k]
    BY <2>2, <2>4, <2>5
  <2>7. h = k
    BY <2>6 DEF Distinct
  <2>8. j = m
    <3>1. l[h] \in Seq(Nat)
      BY <2>1
    <3> QED
      BY <2>2, <2>4, <2>7, <3>1, ChildrenDiffer
  <2> QED
    BY <2>2, <2>4, <2>7, <2>8
<1>5. Filled(n)
  <2> SUFFICES ASSUME NEW x \in 1 .. Len(n) PROVE n[x] # <<>>
    BY DEF Filled
  <2>1. PICK h \in 1 .. Len(l) : l[h] \in Seq(Nat) /\ Len(n[x]) = Len(l[h]) + 1
    BY <1>3
  <2> QED
    BY <2>1
<1>6. ASSUME NEW x \in 1 .. Len(n), NEW h \in 1 .. Len(l)
      PROVE  Len(n[x]) = Len(l[h]) + 1 /\ n[x][1] = l[h][1]
  <2>1. PICK k \in 1 .. Len(l) : Len(n[x]) = Len(l[k]) + 1 /\ n[x][1] = l[k][1]
    BY <1>3
  <2> QED
    BY <2>1 DEF OneLevel
<1> QED
  BY <1>2, <1>4, <1>5, <1>6 DEF n

-----------------------------------------------------------------------------
(* Every node of l is the beginning of a word. *)
InWords(l) == \A h \in 1 .. Len(l) : l[h] \in Beginnings

(* A child is the beginning of a word. *)
LEMMA ChildInWords ==
    ASSUME WordsOK, NEW p \in Seq(Nat), NEW j \in 1 .. Len(ChildrenOf(p))
    PROVE  ChildrenOf(p)[j] \in Beginnings
<1>1. PICK k \in 1 .. Len(words) : Passes(p, k) /\ ChildrenOf(p)[j] = NextOf(p, k)
  BY ChildrenList DEF ChildrenUpTo
<1>2. Len(p) + 1 <= Len(words[k]) /\ Len(p) \in Nat /\ words[k] \in Seq(Nat)
  BY <1>1, NextNode DEF WordsOK
<1>3. Len(p) + 1 \in 1 .. Len(words[k]) /\ k \in DOMAIN words
  BY <1>2 DEF WordsOK
<1> QED
  BY <1>1, <1>3 DEF NextOf, Beginnings

(* A beginning has a character, and what has no child goes nowhere. *)
LEMMA BeginningIsNode ==
    ASSUME WordsOK, NEW p \in Beginnings
    PROVE  p \in Seq(Nat) /\ Len(p) \in Nat \ {0}
<1>1. PICK k \in DOMAIN words : \E n \in 1 .. Len(words[k]) : p = SubSeq(words[k], 1, n)
  BY DEF Beginnings
<1>2. PICK n \in 1 .. Len(words[k]) : p = SubSeq(words[k], 1, n)
  BY <1>1
<1>3. words[k] \in Seq(Nat) /\ n \in 0 .. Len(words[k]) /\ n # 0
  BY DEF WordsOK
<1> QED
  BY <1>2, <1>3, FirstElements

-----------------------------------------------------------------------------
(* The predicates below speak of any table: nb are the nodes that are       *)
(* numbered, ly is the level that is not yet, known the two together.       *)

(* The roots that are left are one character each, and no node that is      *)
(* known begins with one of them.                                           *)
RootsOK(rt, known) ==
    /\ \A h \in 1 .. Len(rt) : Len(rt[h]) = 1
    /\ Distinct(rt)
    /\ \A h \in 1 .. Len(rt) : \A k \in 1 .. Len(known) : known[k][1] # rt[h][1]

(* The nodes of a level have one length, and those of its subtree that are  *)
(* numbered already are shorter.                                            *)
LayerOK(nb, ly) ==
    /\ OneLevel(ly)
    /\ \A s \in 1 .. Len(nb) : \A h \in 1 .. Len(ly) :
           nb[s][1] = ly[h][1] => Len(nb[s]) < Len(ly[h])

(* An entry of the table, and the characters of its transitions *)
JumpRecord == [chars : Seq(Nat), code : Int, first_state : Nat \ {0}]

Lasts(p) == [k \in DOMAIN ChildrenOf(p) |-> Last(ChildrenOf(p)[k])]

(* LeavesBefore(s), of the nodes nb *)
Leaves(nb, s) == {h \in 1 .. s - 1 : /\ Len(nb[h]) = Len(nb[s])
                                     /\ nb[h][1] = nb[s][1]
                                     /\ ChildrenOf(nb[h]) = <<>>}

(* The children of a state stand in a row from q + 1; its first state is    *)
(* later by v, which is 0 exactly if no node without children is before it. *)
PointsTo(e, nb, s, known, q, v) ==
    /\ e.first_state = q + 1 + v
    /\ v = 0 <=> Leaves(nb, s) = {}
    /\ q + Len(ChildrenOf(nb[s])) <= Len(known)
    /\ \A j \in 1 .. Len(ChildrenOf(nb[s])) : known[q + j] = ChildrenOf(nb[s])[j]

(* The entry e of the state s: its characters, code and transitions *)
EntryOK(e, nb, s, known) ==
    /\ e.chars = Lasts(nb[s])
    /\ e.code = attribute(nb[s])
    /\ ChildrenOf(nb[s]) # <<>> => \E q \in Nat : \E v \in Nat : PointsTo(e, nb, s, known, q, v)

(* An entry of init_table: the state of a node of one character *)
InitsOK(is, known) ==
    /\ is \in Seq([state : Nat, char : Nat])
    /\ \A h \in 1 .. Len(is) : /\ is[h].state \in 1 .. Len(known)
                               /\ known[is[h].state] = <<is[h].char>>

(* What is right of the nodes, of the entries of the table, and of all     *)
(* together                                                                *)
NodesOK(nb, ly, rt) ==
    /\ nb \in Seq(Seq(Nat)) /\ ly \in Seq(Seq(Nat)) /\ rt \in Seq(Seq(Nat))
    /\ Distinct(nb \o ly) /\ InWords(nb \o ly) /\ InWords(rt)
    /\ RootsOK(rt, nb \o ly) /\ LayerOK(nb, ly)

EntriesOK(js, nb, known) ==
    /\ js \in Seq(JumpRecord) /\ Len(js) = Len(nb)
    /\ \A s \in 1 .. Len(nb) : EntryOK(js[s], nb, s, known)

(* The inductive invariant of the table of delimiters while it is numbered *)
JumpsInv ==
    /\ WordsOK
    /\ NodesOK(numbered, layer, roots)
    /\ EntriesOK(jumps, numbered, numbered \o layer)
    /\ InitsOK(inits, numbered \o layer)

(* Before anything is numbered the invariant holds. *)
LEMMA JumpsStart ==
    ASSUME WordsOK, layer = <<>>, roots = ChildrenOf(<<>>), jumps = <<>>, inits = <<>>,
           numbered = <<>>
    PROVE  JumpsInv
<1> DEFINE e == <<>>
<1>1. e \in Seq(Nat) /\ Len(e) = 0 /\ e \in Seq(Seq(Nat)) /\ e \o e = e /\ e \in Seq(JumpRecord)
      /\ e \in Seq([state : Nat, char : Nat]) /\ \A h \in 1 .. Len(e) : FALSE
  OBVIOUS
<1>2. layer = e /\ roots = ChildrenOf(e) /\ jumps = e /\ inits = e /\ numbered = e
  OBVIOUS
<1> HIDE DEF e
<1>3. roots \in Seq(Seq(Nat))
  BY <1>1, <1>2, ChildrenType
<1>4. InWords(roots)
  BY <1>1, <1>2, ChildInWords DEF InWords
<1>5. \A h \in 1 .. Len(roots) : Len(roots[h]) = 1
  <2>1. \A h \in 1 .. Len(ChildrenOf(e)) : Len(ChildrenOf(e)[h]) = Len(e) + 1
    BY <1>1, ChildOfNode
  <2> QED
    BY <1>1, <1>2, <2>1
<1>6. Distinct(roots)
  <2>1. \A h, j \in 1 .. Len(ChildrenOf(e)) : ChildrenOf(e)[h] = ChildrenOf(e)[j] => h = j
    BY <1>1, ChildrenDiffer
  <2> QED
    BY <1>2, <2>1 DEF Distinct
<1>7. RootsOK(roots, e)
  BY <1>1, <1>5, <1>6 DEF RootsOK
<1>8. NodesOK(numbered, layer, roots)
  BY <1>1, <1>2, <1>3, <1>4, <1>7 DEF NodesOK, Distinct, InWords, LayerOK, OneLevel
<1>9. EntriesOK(jumps, numbered, numbered \o layer)
  BY <1>1, <1>2 DEF EntriesOK
<1>10. InitsOK(inits, numbered \o layer)
  BY <1>1, <1>2 DEF InitsOK
<1> QED
  BY <1>8, <1>9, <1>10 DEF JumpsInv

(* What the words give does not change while they stay the same. *)
LEMMA WordsStay ==
    ASSUME words' = words
    PROVE  /\ WordsOK' <=> WordsOK
           /\ Beginnings' = Beginnings
           /\ \A p : ChildrenOf(p)' = ChildrenOf(p)
           /\ \A p : attribute(p)' = attribute(p)
<1>1. \A p : ChildrenOf(p)' = ChildrenOf(p)
  BY DEF ChildrenOf, Branches
<1>2. \A p : attribute(p)' = attribute(p)
  BY DEF attribute, code
<1> QED
  BY <1>1, <1>2 DEF WordsOK, Beginnings

(* Nor do the predicates about a table change. *)
LEMMA TablesStay ==
    ASSUME words' = words, NEW nb, NEW ly, NEW rt, NEW js, NEW is, NEW known
    PROVE  /\ NodesOK(nb, ly, rt)' <=> NodesOK(nb, ly, rt)
           /\ EntriesOK(js, nb, known)' <=> EntriesOK(js, nb, known)
           /\ InitsOK(is, known)' <=> InitsOK(is, known)
<1>1. InWords(nb \o ly)' <=> InWords(nb \o ly)
  BY WordsStay DEF InWords
<1>2. InWords(rt)' <=> InWords(rt)
  BY WordsStay DEF InWords
<1>3. NodesOK(nb, ly, rt)' <=> NodesOK(nb, ly, rt)
  BY <1>1, <1>2 DEF NodesOK, Distinct, RootsOK, LayerOK, OneLevel
<1>4. ASSUME NEW s, NEW e PROVE EntryOK(e, nb, s, known)' <=> EntryOK(e, nb, s, known)
  <2>1. ChildrenOf(nb[s])' = ChildrenOf(nb[s]) /\ attribute(nb[s])' = attribute(nb[s])
    BY WordsStay
  <2>2. Lasts(nb[s])' = Lasts(nb[s])
    BY <2>1 DEF Lasts
  <2>3. Leaves(nb, s)' = Leaves(nb, s)
    BY WordsStay DEF Leaves
  <2>4. \A q, v : PointsTo(e, nb, s, known, q, v)' <=> PointsTo(e, nb, s, known, q, v)
    BY <2>1, <2>3 DEF PointsTo
  <2> QED
    BY <2>1, <2>2, <2>4 DEF EntryOK
<1>5. EntriesOK(js, nb, known)' <=> EntriesOK(js, nb, known)
  BY <1>4 DEF EntriesOK
<1>6. InitsOK(is, known)' <=> InitsOK(is, known)
  BY DEF InitsOK
<1> QED
  BY <1>3, <1>5, <1>6

(* The nodes of the next level are beginnings of words. *)
LEMMA ChildrenInWords ==
    ASSUME WordsOK, NEW l \in Seq(Seq(Nat))
    PROVE  InWords(next_level(l))
<1>1. PICK f : LevelLoop(f, l) /\ next_level(l) = f[Len(l)]
  BY NextLevelLoop
<1> DEFINE n == next_level(l)
<1> HIDE DEF n
<1>2. Places(f, l, n)
  <2>1. n = f[Len(l)]
    BY <1>1 DEF n
  <2> QED
    BY <1>1, <2>1, LevelPlaces
<1>3. ASSUME NEW x \in 1 .. Len(n) PROVE n[x] \in Beginnings
  <2>1. PICK g \in 1 .. Len(l) : \E j \in 1 .. Len(ChildrenOf(l[g])) : x = Len(f[g - 1]) + j
    BY <1>2 DEF Places
  <2>2. PICK j \in 1 .. Len(ChildrenOf(l[g])) : x = Len(f[g - 1]) + j
    BY <2>1
  <2>3. n[x] = ChildrenOf(l[g])[j]
    BY <1>2, <2>1, <2>2 DEF Places
  <2>4. l[g] \in Seq(Nat)
    OBVIOUS
  <2>5. ChildrenOf(l[g])[j] \in Beginnings
    BY <2>4, ChildInWords
  <2> QED
    BY <2>3, <2>5
<1> QED
  BY <1>3 DEF InWords, n

(* A level that is numbered: its children are the next. *)
LEMMA LevelOfNodes ==
    ASSUME WordsOK, NEW nb, NEW ly, NEW rt, NodesOK(nb, ly, rt), ly # <<>>
    PROVE  NodesOK(nb \o ly, next_level(ly), rt)
<1> DEFINE K == nb \o ly
           n == next_level(ly)
           K2 == K \o n
<1>1. /\ nb \in Seq(Seq(Nat)) /\ ly \in Seq(Seq(Nat)) /\ rt \in Seq(Seq(Nat))
      /\ Distinct(K) /\ InWords(K) /\ InWords(rt)
      /\ RootsOK(rt, K) /\ LayerOK(nb, ly)
  BY DEF NodesOK
<1>2. /\ K \in Seq(Seq(Nat)) /\ Len(K) = Len(nb) + Len(ly)
      /\ Len(nb) \in Nat /\ Len(ly) \in Nat
      /\ \A g \in 1 .. Len(nb) : g \in 1 .. Len(K) /\ K[g] = nb[g]
      /\ \A j \in 1 .. Len(ly) : Len(nb) + j \in 1 .. Len(K) /\ K[Len(nb) + j] = ly[j]
      /\ \A g \in 1 .. Len(K) : g \in 1 .. Len(nb) \/ \E j \in 1 .. Len(ly) : g = Len(nb) + j
  BY <1>1, TwoLists
<1> HIDE DEF K
<1>3. Distinct(ly)
  <2> SUFFICES ASSUME NEW g \in 1 .. Len(ly), NEW j \in 1 .. Len(ly), ly[g] = ly[j] PROVE g = j
    BY DEF Distinct
  <2>1. K[Len(nb) + g] = K[Len(nb) + j]
    BY <1>2
  <2>2. Len(nb) + g = Len(nb) + j
    BY <2>1, <1>1, <1>2 DEF Distinct
  <2> QED
    BY <2>2, <1>2
<1>4. \A g \in 1 .. Len(ly) : ly[g] \in Seq(Nat) /\ ly[g] # <<>> /\ Len(ly[g]) \in Nat
  <2> SUFFICES ASSUME NEW g \in 1 .. Len(ly) PROVE ly[g] \in Seq(Nat) /\ ly[g] # <<>> /\ Len(ly[g]) \in Nat
    OBVIOUS
  <2>1. ly[g] \in Beginnings
    BY <1>1, <1>2 DEF InWords
  <2>2. ly[g] \in Seq(Nat) /\ Len(ly[g]) \in Nat \ {0}
    BY <2>1, BeginningIsNode
  <2> QED
    BY <2>2
<1>5. Filled(ly) /\ OneLevel(ly)
  BY <1>1, <1>4 DEF Filled, LayerOK
<1>6. /\ n \in Seq(Seq(Nat))
      /\ Distinct(n)
      /\ \A x \in 1 .. Len(n) : \A g \in 1 .. Len(ly) :
             Len(n[x]) = Len(ly[g]) + 1 /\ n[x][1] = ly[g][1]
  BY <1>1, <1>3, <1>5, NextLevelOK
<1>7. InWords(n)
  BY <1>1, ChildrenInWords
<1> HIDE DEF n
<1>8. /\ K2 \in Seq(Seq(Nat)) /\ Len(K2) = Len(K) + Len(n)
      /\ Len(K) \in Nat /\ Len(n) \in Nat
      /\ \A g \in 1 .. Len(K) : g \in 1 .. Len(K2) /\ K2[g] = K[g]
      /\ \A j \in 1 .. Len(n) : Len(K) + j \in 1 .. Len(K2) /\ K2[Len(K) + j] = n[j]
      /\ \A g \in 1 .. Len(K2) : g \in 1 .. Len(K) \/ \E j \in 1 .. Len(n) : g = Len(K) + j
  BY <1>2, <1>6, TwoLists
<1> HIDE DEF K2
<1>9. 1 \in 1 .. Len(ly)
  BY <1>1
<1>10. ASSUME NEW k \in 1 .. Len(K), NEW x \in 1 .. Len(n), K[k][1] = n[x][1]
       PROVE  Len(K[k]) < Len(n[x])
  <2>1. Len(n[x]) = Len(ly[1]) + 1 /\ n[x][1] = ly[1][1] /\ Len(ly[1]) \in Nat
    BY <1>4, <1>6, <1>9
  <2>2. CASE k \in 1 .. Len(nb)
    <3>1. K[k] = nb[k] /\ Len(nb[k]) \in Nat
      BY <2>2, <1>1, <1>2
    <3>2. Len(nb[k]) < Len(ly[1])
      BY <3>1, <2>1, <2>2, <1>1, <1>9, <1>10 DEF LayerOK
    <3> DEFINE a == Len(nb[k])
               b == Len(ly[1])
    <3>3. a \in Nat /\ b \in Nat /\ a < b
      BY <2>1, <3>1, <3>2
    <3> HIDE DEF a, b
    <3>4. a < b + 1
      BY <3>3
    <3> QED
      BY <2>1, <3>1, <3>4 DEF a, b
  <2>3. ASSUME NEW j \in 1 .. Len(ly), k = Len(nb) + j PROVE Len(K[k]) < Len(n[x])
    <3>1. K[k] = ly[j] /\ Len(n[x]) = Len(ly[j]) + 1 /\ Len(ly[j]) \in Nat
      BY <2>3, <1>2, <1>4, <1>6
    <3> QED
      BY <3>1
  <2> QED
    BY <2>2, <2>3, <1>2
<1>11. Distinct(K2)
  <2> SUFFICES ASSUME NEW g \in 1 .. Len(K2), NEW j \in 1 .. Len(K2), K2[g] = K2[j] PROVE g = j
    BY DEF Distinct
  <2>1. ASSUME NEW k \in 1 .. Len(K), NEW x \in 1 .. Len(n) PROVE K[k] # n[x]
    <3>1. K[k] = n[x] => Len(K[k]) < Len(n[x])
      BY <1>10
    <3>2. Len(n[x]) \in Nat
      BY <1>6
    <3> QED
      BY <3>1, <3>2
  <2>2. CASE g \in 1 .. Len(K) /\ j \in 1 .. Len(K)
    BY <2>2, <1>1, <1>8 DEF Distinct
  <2>3. ASSUME NEW x \in 1 .. Len(n), NEW y \in 1 .. Len(n), g = Len(K) + x, j = Len(K) + y
        PROVE  g = j
    <3>1. n[x] = n[y]
      BY <2>3, <1>8
    <3> QED
      BY <3>1, <2>3, <1>6 DEF Distinct
  <2>4. ASSUME NEW x \in 1 .. Len(n), g \in 1 .. Len(K), j = Len(K) + x PROVE FALSE
    <3>1. K2[g] = K[g] /\ K2[j] = n[x]
      BY <2>4, <1>8
    <3> QED
      BY <3>1, <2>1, <2>4
  <2>5. ASSUME NEW x \in 1 .. Len(n), j \in 1 .. Len(K), g = Len(K) + x PROVE FALSE
    <3>1. K2[j] = K[j] /\ K2[g] = n[x]
      BY <2>5, <1>8
    <3> QED
      BY <3>1, <2>1, <2>5
  <2> QED
    BY <2>2, <2>3, <2>4, <2>5, <1>8
<1>12. InWords(K2)
  <2> SUFFICES ASSUME NEW g \in 1 .. Len(K2) PROVE K2[g] \in Beginnings
    BY DEF InWords
  <2>1. CASE g \in 1 .. Len(K)
    BY <2>1, <1>1, <1>8 DEF InWords
  <2>2. ASSUME NEW j \in 1 .. Len(n), g = Len(K) + j PROVE K2[g] \in Beginnings
    BY <2>2, <1>7, <1>8 DEF InWords
  <2> QED
    BY <2>1, <2>2, <1>8
<1>13. RootsOK(rt, K2)
  <2>1. ASSUME NEW g \in 1 .. Len(rt), NEW k \in 1 .. Len(K2) PROVE K2[k][1] # rt[g][1]
    <3>1. CASE k \in 1 .. Len(K)
      BY <3>1, <1>1, <1>8 DEF RootsOK
    <3>2. ASSUME NEW j \in 1 .. Len(n), k = Len(K) + j PROVE K2[k][1] # rt[g][1]
      <4>1. K2[k] = n[j] /\ n[j][1] = ly[1][1]
        BY <3>2, <1>6, <1>8, <1>9
      <4>2. Len(nb) + 1 \in 1 .. Len(K) /\ K[Len(nb) + 1] = ly[1]
        BY <1>2, <1>9
      <4>3. K[Len(nb) + 1][1] # rt[g][1]
        BY <4>2, <1>1 DEF RootsOK
      <4> QED
        BY <4>1, <4>2, <4>3
    <3> QED
      BY <3>1, <3>2, <1>8
  <2> QED
    BY <2>1, <1>1 DEF RootsOK
<1>14. LayerOK(K, n)
  <2>1. OneLevel(n)
    <3> SUFFICES ASSUME NEW x \in 1 .. Len(n), NEW y \in 1 .. Len(n)
                 PROVE  Len(n[x]) = Len(n[y]) /\ n[x][1] = n[y][1]
      BY DEF OneLevel
    <3>1. /\ Len(n[x]) = Len(ly[1]) + 1 /\ n[x][1] = ly[1][1]
          /\ Len(n[y]) = Len(ly[1]) + 1 /\ n[y][1] = ly[1][1]
      BY <1>6, <1>9
    <3> QED
      BY <3>1
  <2> QED
    BY <2>1, <1>10 DEF LayerOK
<1>15. NodesOK(K, n, rt)
  BY <1>1, <1>2, <1>6, <1>11, <1>12, <1>13, <1>14 DEF NodesOK, K2
<1> QED
  BY <1>15 DEF K, n

(* The characters of the transitions of a node, one for every child *)
LEMMA LastsType ==
    ASSUME WordsOK, NEW p \in Seq(Nat)
    PROVE  Lasts(p) \in Seq(Nat) /\ DOMAIN Lasts(p) = 1 .. Len(ChildrenOf(p))
<1> DEFINE c == ChildrenOf(p)
<1>1. c \in Seq(Seq(Nat)) /\ Len(c) \in Nat /\ DOMAIN c = 1 .. Len(c)
  <2>1. c \in Seq(Seq(Nat))
    BY ChildrenType
  <2> HIDE DEF c
  <2> QED
    BY <2>1
<1>2. ASSUME NEW k \in 1 .. Len(c) PROVE Last(c[k]) \in Nat
  <2>1. c[k] \in Seq(Nat) /\ Len(c[k]) = Len(p) + 1
    BY ChildOfNode
  <2> DEFINE x == c[k]
  <2> HIDE DEF x
  <2>2. x \in Seq(Nat) /\ Len(x) \in 1 .. Len(x)
    BY <2>1 DEF x
  <2>3. x[Len(x)] \in Nat
    BY <2>2
  <2> QED
    BY <2>3 DEF Last, x
<1>3. Lasts(p) = [k \in 1 .. Len(c) |-> Last(c[k])]
  BY <1>1 DEF Lasts
<1> HIDE DEF c
<1>4. Lasts(p) \in Seq(Nat) /\ DOMAIN Lasts(p) = 1 .. Len(c)
  BY <1>1, <1>2, <1>3
<1> QED
  BY <1>4 DEF c

(* An attribute is a number. *)
LEMMA AttributeType == ASSUME WordsOK PROVE \A p : attribute(p) \in Int
<1> SUFFICES ASSUME NEW p PROVE attribute(p) \in Int
  OBVIOUS
<1>1. CASE \E k \in DOMAIN words : words[k] = p
  <2> DEFINE h == CHOOSE k \in DOMAIN words : words[k] = p
  <2>1. h \in DOMAIN words
    BY <1>1
  <2>2. attribute(p) = default_attr + h
    BY <1>1 DEF attribute, code
  <2> HIDE DEF h
  <2>3. h \in Int
    BY <2>1 DEF WordsOK
  <2> QED
    BY <2>2, <2>3, AttributeAssumption
<1>2. CASE ~ \E k \in DOMAIN words : words[k] = p
  BY <1>2, AttributeAssumption DEF attribute
<1> QED
  BY <1>1, <1>2

(* What was right of an entry stays right when more nodes are numbered.     *)
LEMMA EntryStays ==
    ASSUME NEW e, NEW nb, NEW nb2, NEW K, NEW K2, NEW N \in Nat, NEW s \in 1 .. N,
           Len(K) \in Nat, Len(K2) \in Nat, Len(ChildrenOf(nb[s])) \in Nat,
           Len(K) <= Len(K2), \A y \in 1 .. Len(K) : K2[y] = K[y],
           \A y \in 1 .. N : nb2[y] = nb[y],
           EntryOK(e, nb, s, K)
    PROVE  EntryOK(e, nb2, s, K2)
<1>1. nb2[s] = nb[s] /\ Leaves(nb2, s) = Leaves(nb, s)
  <2>1. \A y \in 1 .. s - 1 : y \in 1 .. N
    OBVIOUS
  <2> QED
    BY <2>1 DEF Leaves
<1>2. ASSUME ChildrenOf(nb[s]) # <<>>
      PROVE  \E q \in Nat : \E v \in Nat : PointsTo(e, nb2, s, K2, q, v)
  <2>1. PICK q \in Nat : \E v \in Nat : PointsTo(e, nb, s, K, q, v)
    BY <1>2 DEF EntryOK
  <2>2. PICK v \in Nat : PointsTo(e, nb, s, K, q, v)
    BY <2>1
  <2> DEFINE c == ChildrenOf(nb[s])
             m == Len(c)
  <2>3. /\ e.first_state = q + 1 + v /\ (v = 0 <=> Leaves(nb, s) = {})
        /\ q + m <= Len(K) /\ \A j \in 1 .. m : K[q + j] = c[j]
    BY <2>2 DEF PointsTo
  <2> HIDE DEF m, c
  <2>4. m \in Nat
    BY DEF m, c
  <2>5. q + m <= Len(K2) /\ \A j \in 1 .. m : q + j \in 1 .. Len(K)
    BY <2>3, <2>4
  <2>6. \A j \in 1 .. m : K2[q + j] = c[j]
    BY <2>3, <2>5
  <2>7. PointsTo(e, nb2, s, K2, q, v)
    BY <1>1, <2>3, <2>5, <2>6 DEF PointsTo, c, m
  <2> QED
    BY <2>7
<1> QED
  BY <1>1, <1>2 DEF EntryOK

(* The entries of a level that is numbered                                  *)
LEMMA LevelOfEntries ==
    ASSUME WordsOK, NEW nb, NEW ly, NEW rt, NodesOK(nb, ly, rt), ly # <<>>,
           EntriesOK(jumps, nb, nb \o ly)
    PROVE  EntriesOK(jumps \o [y \in DOMAIN ly |-> jump(ly, y)],
                     nb \o ly, (nb \o ly) \o next_level(ly))
<1> DEFINE K == nb \o ly
           n == next_level(ly)
           K2 == K \o n
           more == [y \in DOMAIN ly |-> jump(ly, y)]
           js == jumps \o more
           N == Len(nb)
           L == Len(ly)
<1>1. /\ nb \in Seq(Seq(Nat)) /\ ly \in Seq(Seq(Nat)) /\ LayerOK(nb, ly) /\ InWords(K)
  BY DEF NodesOK
<1>2. /\ K \in Seq(Seq(Nat)) /\ Len(K) = N + L
      /\ N \in Nat /\ L \in Nat
      /\ \A y \in 1 .. N : y \in 1 .. Len(K) /\ K[y] = nb[y]
      /\ \A j \in 1 .. L : N + j \in 1 .. Len(K) /\ K[N + j] = ly[j]
      /\ \A y \in 1 .. Len(K) : y \in 1 .. N \/ \E j \in 1 .. L : y = N + j
  BY <1>1, TwoLists
<1>3. DOMAIN ly = 1 .. L
  BY <1>1
<1>4. PICK f : LevelLoop(f, ly) /\ next_level(ly) = f[Len(ly)]
  BY <1>1, NextLevelLoop
<1> HIDE DEF n, K, N, L
<1>5. Places(f, ly, n)
  <2>1. n = f[Len(ly)]
    BY <1>4 DEF n
  <2> QED
    BY <1>1, <1>4, <2>1, LevelPlaces
<1>6. n \in Seq(Seq(Nat)) /\ Len(n) \in Nat
  BY <1>5 DEF Places
<1>7. /\ K2 \in Seq(Seq(Nat)) /\ Len(K2) = Len(K) + Len(n) /\ Len(K) \in Nat
      /\ \A y \in 1 .. Len(K) : y \in 1 .. Len(K2) /\ K2[y] = K[y]
      /\ \A j \in 1 .. Len(n) : Len(K) + j \in 1 .. Len(K2) /\ K2[Len(K) + j] = n[j]
  BY <1>2, <1>6, TwoLists
<1> HIDE DEF K2
<1>8. jumps \in Seq(JumpRecord) /\ Len(jumps) = N
  BY DEF EntriesOK, N
<1>9. \A y \in 1 .. L : ly[y] \in Seq(Nat)
  BY <1>1 DEF L
<1>10. ASSUME NEW y \in 1 .. L
       PROVE  jump(ly, y) \in JumpRecord /\ EntryOK(jump(ly, y), K, N + y, K2)
  <2> DEFINE c == ChildrenOf(ly[y])
             e == jump(ly, y)
             q == Len(K) + Len(f[y - 1])
  <2>1. ly[y] \in Seq(Nat)
    BY <1>9
  <2>2. c \in Seq(Seq(Nat)) /\ Len(c) \in Nat
    <3>1. c \in Seq(Seq(Nat))
      BY <2>1, ChildrenType
    <3> HIDE DEF c
    <3> QED
      BY <3>1
  <2>3. /\ Len(f[y - 1]) \in Nat
        /\ Len(f[y - 1]) + Len(c) <= Len(n)
        /\ \A j \in 1 .. Len(c) : n[Len(f[y - 1]) + j] = c[j]
    BY <1>5 DEF Places, L
  <2>4. PICK v \in Nat : /\ correction(ly, y) \in Int
                         /\ correction(ly, y) + (y - 1) = Len(f[y - 1]) + v
                         /\ v = 0 <=> \A k \in 1 .. y - 1 : ChildrenOf(ly[k]) # <<>>
    BY <1>1, <1>4, CorrectionCounts DEF L
  <2>5. e = [chars |-> Lasts(ly[y]), code |-> attribute(ly[y]),
             first_state |-> IF c = <<>> THEN 1 ELSE N + y + L + correction(ly, y)]
    BY <1>8 DEF jump, Lasts, L
  <2>6. K[N + y] = ly[y]
    BY <1>2
  <2>7. q \in Nat /\ q + Len(c) <= Len(K2) /\ \A j \in 1 .. Len(c) : K2[q + j] = c[j]
    <3> DEFINE a == Len(f[y - 1])
               b == Len(c)
    <3> HIDE DEF a, b, c
    <3>1. a \in Nat /\ b \in Nat /\ a + b <= Len(n) /\ \A j \in 1 .. b : n[a + j] = c[j]
      BY <2>2, <2>3 DEF a, b
    <3>2. \A j \in 1 .. b : a + j \in 1 .. Len(n) /\ Len(K) + (a + j) = Len(K) + a + j
      BY <3>1, <1>6, <1>7
    <3>3. Len(K) + a \in Nat /\ Len(K) + a + b <= Len(K2)
      BY <3>1, <1>6, <1>7
    <3>4. \A j \in 1 .. b : K2[Len(K) + a + j] = c[j]
      BY <3>1, <3>2, <1>7
    <3> QED
      BY <3>3, <3>4 DEF a, b
  <2>8. N + y + L + correction(ly, y) = q + 1 + v
    <3> DEFINE x == correction(ly, y)
               a == Len(f[y - 1])
    <3>1. x + (y - 1) = a + v /\ a \in Nat /\ y \in Nat /\ Len(K) = N + L /\ x \in Int
      BY <2>3, <2>4, <1>2
    <3> HIDE DEF x, a
    <3>2. N + y + L + x = Len(K) + a + 1 + v
      BY <3>1, <1>2
    <3> QED
      BY <3>2 DEF x, a
  <2>9. v = 0 <=> Leaves(K, N + y) = {}
    <3>1. ASSUME NEW r \in Leaves(K, N + y)
          PROVE  \E k \in 1 .. y - 1 : ChildrenOf(ly[k]) = <<>>
      <4>1. r \in 1 .. (N + y) - 1 /\ Len(K[r]) = Len(ly[y]) /\ K[r][1] = ly[y][1]
            /\ ChildrenOf(K[r]) = <<>>
        <5>1. r \in 1 .. (N + y) - 1 /\ Len(K[r]) = Len(K[N + y]) /\ K[r][1] = K[N + y][1]
              /\ ChildrenOf(K[r]) = <<>>
          BY <3>1 DEF Leaves
        <5> QED
          BY <5>1, <2>6
      <4>2. r \in 1 .. Len(K) /\ r < N + y
        BY <4>1, <1>2
      <4>3. r \notin 1 .. N
        <5> SUFFICES ASSUME r \in 1 .. N PROVE FALSE
          OBVIOUS
        <5>1. K[r] = nb[r]
          BY <1>2
        <5>2. Len(nb[r]) < Len(ly[y])
          BY <4>1, <5>1, <1>1 DEF LayerOK, N, L
        <5>3. Len(ly[y]) \in Nat
          BY <2>1
        <5> QED
          BY <4>1, <5>1, <5>2, <5>3
      <4>4. PICK k \in 1 .. L : r = N + k
        BY <4>2, <4>3, <1>2
      <4>5. k \in 1 .. y - 1 /\ K[r] = ly[k]
        BY <4>2, <4>4, <1>2
      <4> QED
        BY <4>1, <4>5
    <3>2. ASSUME NEW k \in 1 .. y - 1, ChildrenOf(ly[k]) = <<>>
          PROVE  N + k \in Leaves(K, N + y)
      <4>1. k \in 1 .. L /\ N + k \in 1 .. (N + y) - 1
        BY <1>2
      <4>2. K[N + k] = ly[k]
        BY <4>1, <1>2
      <4>3. Len(ly[k]) = Len(ly[y]) /\ ly[k][1] = ly[y][1]
        BY <4>1, <1>1 DEF LayerOK, OneLevel, L
      <4>4. /\ Len(K[N + k]) = Len(K[N + y]) /\ K[N + k][1] = K[N + y][1]
            /\ ChildrenOf(K[N + k]) = <<>>
        BY <2>6, <3>2, <4>2, <4>3
      <4>5. N + k \in 1 .. (N + y) - 1
        BY <4>1
      <4> QED
        BY <4>4, <4>5 DEF Leaves
    <3> QED
      BY <3>1, <3>2, <2>4
  <2>10. e \in JumpRecord
    <3>1. Lasts(ly[y]) \in Seq(Nat) /\ attribute(ly[y]) \in Int
      BY <2>1, LastsType, AttributeType
    <3>2. q + 1 + v \in Nat \ {0} /\ 1 \in Nat \ {0}
      <4> HIDE DEF q
      <4> QED
        BY <2>7
    <3> DEFINE fs == IF c = <<>> THEN 1 ELSE N + y + L + correction(ly, y)
    <3>3. fs \in Nat \ {0}
      BY <3>2, <2>8
    <3> HIDE DEF fs
    <3>4. [chars |-> Lasts(ly[y]), code |-> attribute(ly[y]), first_state |-> fs] \in JumpRecord
      BY <3>1, <3>3 DEF JumpRecord
    <3> QED
      BY <3>4, <2>5 DEF fs
  <2>11. EntryOK(e, K, N + y, K2)
    <3>1. e.chars = Lasts(K[N + y]) /\ e.code = attribute(K[N + y])
      BY <2>5, <2>6
    <3>2. ASSUME ChildrenOf(K[N + y]) # <<>>
          PROVE  \E q_ \in Nat : \E v_ \in Nat : PointsTo(e, K, N + y, K2, q_, v_)
      <4>1. c # <<>>
        BY <2>6, <3>2
      <4>2. e.first_state = q + 1 + v
        BY <2>5, <2>8, <4>1
      <4> HIDE DEF q, e
      <4>3. PointsTo(e, K, N + y, K2, q, v)
        BY <2>6, <2>7, <2>9, <4>2 DEF PointsTo
      <4> QED
        BY <4>3, <2>7
    <3> HIDE DEF e
    <3> QED
      BY <3>1, <3>2 DEF EntryOK
  <2> QED
    BY <2>10, <2>11
<1>11. more \in Seq(JumpRecord) /\ Len(more) = L /\ \A y \in 1 .. L : more[y] = jump(ly, y)
  BY <1>2, <1>3, <1>10
<1> HIDE DEF more
<1>12. /\ js \in Seq(JumpRecord) /\ Len(js) = Len(K)
       /\ \A s \in 1 .. N : js[s] = jumps[s]
       /\ \A y \in 1 .. L : js[N + y] = more[y]
  <2>1. /\ jumps \in Seq(JumpRecord) /\ Len(jumps) = N /\ N \in Nat
        /\ more \in Seq(JumpRecord) /\ Len(more) = L /\ L \in Nat /\ Len(K) = N + L
    BY <1>2, <1>8, <1>11
  <2>2. js \in Seq(JumpRecord) /\ Len(js) = N + L
    BY <2>1
  <2>3. \A s \in 1 .. N : js[s] = jumps[s]
    BY <2>1
  <2>4. \A y \in 1 .. L : js[N + y] = more[y]
    BY <2>1
  <2> QED
    BY <2>1, <2>2, <2>3, <2>4
<1> HIDE DEF js
<1>13. ASSUME NEW s \in 1 .. Len(K) PROVE EntryOK(js[s], K, s, K2)
  <2>1. CASE s \in 1 .. N
    <3>1. EntryOK(jumps[s], nb, s, K)
      BY <2>1 DEF EntriesOK, N, K
    <3>2. Len(ChildrenOf(nb[s])) \in Nat
      <4>1. nb[s] \in Seq(Nat)
        BY <2>1, <1>1 DEF N
      <4>2. ChildrenOf(nb[s]) \in Seq(Seq(Nat))
        BY <4>1, ChildrenType
      <4> QED
        BY <4>2
    <3>3. Len(K2) \in Nat /\ Len(K) <= Len(K2) /\ Len(K) \in Nat
      BY <1>6, <1>7
    <3>5. (\A y \in 1 .. Len(K) : K2[y] = K[y]) /\ (\A y \in 1 .. N : K[y] = nb[y]) /\ N \in Nat
      BY <1>2, <1>7
    <3>4. EntryOK(jumps[s], K, s, K2)
      BY <2>1, <3>1, <3>2, <3>3, <3>5, EntryStays
    <3> QED
      BY <2>1, <3>4, <1>12
  <2>2. ASSUME NEW y \in 1 .. L, s = N + y PROVE EntryOK(js[s], K, s, K2)
    BY <2>2, <1>10, <1>11, <1>12
  <2> QED
    BY <2>1, <2>2, <1>2
<1>14. EntriesOK(js, K, K2)
  BY <1>12, <1>13 DEF EntriesOK
<1> QED
  BY <1>14 DEF js, more, K, K2, n

(* A new subtree is begun. *)
LEMMA SubtrieOfNodes ==
    ASSUME WordsOK, NEW nb, NEW rt, NodesOK(nb, <<>>, rt), rt # <<>>
    PROVE  /\ NodesOK(nb, <<Head(rt)>>, Tail(rt))
           /\ nb \o <<>> = nb
           /\ Head(rt) = <<Last(Head(rt))>> /\ Last(Head(rt)) \in Nat
<1> DEFINE h == Head(rt)
           ly == <<h>>
           t == Tail(rt)
           K == nb \o ly
           N == Len(nb)
<1>1. nb \o <<>> = nb /\ nb \in Seq(Seq(Nat)) /\ rt \in Seq(Seq(Nat))
  <2>1. nb \in Seq(Seq(Nat)) /\ rt \in Seq(Seq(Nat))
    BY DEF NodesOK
  <2> QED
    BY <2>1
<1>2. Distinct(nb) /\ InWords(nb) /\ InWords(rt) /\ RootsOK(rt, nb)
  BY <1>1 DEF NodesOK
<1>3. /\ h = rt[1] /\ 1 \in 1 .. Len(rt) /\ h \in Seq(Nat)
      /\ t \in Seq(Seq(Nat)) /\ Len(t) \in Nat
      /\ \A y \in 1 .. Len(t) : y + 1 \in 1 .. Len(rt) /\ t[y] = rt[y + 1] /\ y + 1 # 1
  BY <1>1
<1> HIDE DEF h, t
<1>4. ly \in Seq(Seq(Nat)) /\ Len(ly) = 1 /\ ly[1] = h /\ \A y \in 1 .. Len(ly) : y = 1
  BY <1>3
<1> HIDE DEF ly
<1>5. /\ K \in Seq(Seq(Nat)) /\ Len(K) = N + 1 /\ N \in Nat
      /\ \A k \in 1 .. N : k \in 1 .. Len(K) /\ K[k] = nb[k]
      /\ K[N + 1] = h
      /\ \A k \in 1 .. Len(K) : k \in 1 .. N \/ k = N + 1
  <2>1. /\ K \in Seq(Seq(Nat)) /\ Len(K) = N + Len(ly) /\ N \in Nat
        /\ \A k \in 1 .. N : k \in 1 .. Len(K) /\ K[k] = nb[k]
        /\ \A j \in 1 .. Len(ly) : N + j \in 1 .. Len(K) /\ K[N + j] = ly[j]
        /\ \A k \in 1 .. Len(K) : k \in 1 .. N \/ \E j \in 1 .. Len(ly) : k = N + j
    BY <1>1, <1>4, TwoLists
  <2> HIDE DEF K, N
  <2>2. 1 \in 1 .. Len(ly)
    BY <1>4
  <2> QED
    BY <2>1, <2>2, <1>4
<1> HIDE DEF K, N
<1>6. \A k \in 1 .. N : nb[k][1] # h[1] /\ nb[k] # h
  BY <1>2, <1>3 DEF RootsOK, N
<1>7. Len(h) = 1 /\ h = <<h[1]>> /\ h[1] \in Nat
  <2>1. Len(h) = 1
    BY <1>2, <1>3 DEF RootsOK
  <2> QED
    BY <1>3, <2>1
<1>8. Distinct(K)
  <2> SUFFICES ASSUME NEW y \in 1 .. Len(K), NEW j \in 1 .. Len(K), K[y] = K[j] PROVE y = j
    BY DEF Distinct
  <2>1. CASE y \in 1 .. N /\ j \in 1 .. N
    BY <2>1, <1>2, <1>5 DEF Distinct, N
  <2>2. CASE y = N + 1 /\ j = N + 1
    BY <2>2
  <2>3. ~(y \in 1 .. N /\ j = N + 1) /\ ~(j \in 1 .. N /\ y = N + 1)
    BY <1>5, <1>6
  <2> QED
    BY <2>1, <2>2, <2>3, <1>5
<1>9. InWords(K) /\ InWords(t)
  <2>1. h \in Beginnings
    BY <1>2, <1>3 DEF InWords
  <2>2. InWords(K)
    <3>1. \A k \in 1 .. N : nb[k] \in Beginnings
      BY <1>2 DEF InWords, N
    <3> QED
      BY <2>1, <3>1, <1>5 DEF InWords
  <2>3. InWords(t)
    BY <1>2, <1>3 DEF InWords
  <2> QED
    BY <2>2, <2>3
<1>10. RootsOK(t, K)
  <2>1. \A y \in 1 .. Len(t) : Len(t[y]) = 1 /\ t[y] \in Seq(Nat)
    <3> SUFFICES ASSUME NEW y \in 1 .. Len(t) PROVE Len(t[y]) = 1 /\ t[y] \in Seq(Nat)
      OBVIOUS
    <3>1. y + 1 \in 1 .. Len(rt) /\ t[y] = rt[y + 1]
      BY <1>3
    <3>2. Len(rt[y + 1]) = 1
      BY <3>1, <1>2 DEF RootsOK
    <3>3. t[y] \in Seq(Nat)
      BY <1>3
    <3> QED
      BY <3>1, <3>2, <3>3
  <2>2. Distinct(t)
    <3> SUFFICES ASSUME NEW y \in 1 .. Len(t), NEW j \in 1 .. Len(t), t[y] = t[j] PROVE y = j
      BY DEF Distinct
    <3>1. y + 1 = j + 1
      BY <1>2, <1>3 DEF RootsOK, Distinct
    <3> QED
      BY <3>1
  <2>3. ASSUME NEW y \in 1 .. Len(t), NEW k \in 1 .. Len(K) PROVE K[k][1] # t[y][1]
    <3>1. CASE k \in 1 .. N
      <4>1. y + 1 \in 1 .. Len(rt) /\ t[y] = rt[y + 1]
        BY <1>3
      <4>2. K[k] = nb[k] /\ k \in 1 .. Len(nb)
        BY <3>1, <1>5 DEF N
      <4>3. nb[k][1] # rt[y + 1][1]
        BY <4>1, <4>2, <1>2 DEF RootsOK
      <4> QED
        BY <4>1, <4>2, <4>3
    <3>2. CASE k = N + 1
      <4>1. t[y] # h
        BY <1>2, <1>3 DEF RootsOK, Distinct
      <4>2. t[y] = <<t[y][1]>>
        BY <2>1
      <4> QED
        BY <3>2, <4>1, <4>2, <1>5, <1>7
    <3> QED
      BY <3>1, <3>2, <1>5
  <2> QED
    BY <2>1, <2>2, <2>3 DEF RootsOK
<1>11. LayerOK(nb, ly)
  <2>1. OneLevel(ly)
    BY <1>4 DEF OneLevel
  <2>2. \A s \in 1 .. Len(nb) : \A y \in 1 .. Len(ly) : nb[s][1] # ly[y][1]
    BY <1>4, <1>6 DEF N
  <2> QED
    BY <2>1, <2>2 DEF LayerOK
<1>12. NodesOK(nb, ly, t)
  BY <1>1, <1>3, <1>4, <1>8, <1>9, <1>10, <1>11 DEF NodesOK, K
<1>13. Last(h) = h[1]
  BY <1>7 DEF Last
<1> QED
  BY <1>1, <1>7, <1>12, <1>13 DEF h, ly, t

(* The initial states stay right when more nodes are known. *)
LEMMA InitsStay ==
    ASSUME NEW is, NEW K, NEW K2, InitsOK(is, K), Len(K) \in Nat, Len(K2) \in Nat,
           Len(K) <= Len(K2), \A k \in 1 .. Len(K) : K2[k] = K[k]
    PROVE  InitsOK(is, K2)
<1>1. \A x \in 1 .. Len(K) : x \in 1 .. Len(K2)
  OBVIOUS
<1> QED
  BY <1>1 DEF InitsOK

-----------------------------------------------------------------------------
(* To begin a subtree preserves the invariant. *)
LEMMA BeginSubtrieStep == ASSUME JumpsInv, BeginSubtrie PROVE JumpsInv'
<1> DEFINE h == Head(roots)
           c == Last(h)
           N == Len(jumps)
           K == numbered \o <<h>>
<1>1. /\ layer = <<>> /\ roots # <<>> /\ layer' = <<h>> /\ roots' = Tail(roots)
      /\ inits' = Append(inits, [state |-> N + 1, char |-> c])
      /\ words' = words /\ jumps' = jumps /\ numbered' = numbered
  BY DEF BeginSubtrie
<1>2. /\ WordsOK /\ NodesOK(numbered, <<>>, roots)
      /\ EntriesOK(jumps, numbered, numbered \o <<>>)
      /\ InitsOK(inits, numbered \o <<>>)
  BY <1>1 DEF JumpsInv
<1>3. /\ NodesOK(numbered, <<h>>, Tail(roots))
      /\ numbered \o <<>> = numbered
      /\ h = <<c>> /\ c \in Nat
  BY <1>1, <1>2, SubtrieOfNodes
<1> HIDE DEF c
<1>4. numbered \in Seq(Seq(Nat)) /\ <<h>> \in Seq(Seq(Nat))
  BY <1>3 DEF NodesOK
<1>5. N = Len(numbered) /\ N \in Nat
  BY <1>2, <1>4 DEF EntriesOK
<1> HIDE DEF h, N
<1>6. /\ Len(K) = N + 1 /\ K[N + 1] = h
      /\ \A k \in 1 .. N : K[k] = numbered[k]
  BY <1>4, <1>5
<1> HIDE DEF K
<1>7. EntriesOK(jumps, numbered, K)
  <2>1. ASSUME NEW s \in 1 .. Len(numbered) PROVE EntryOK(jumps[s], numbered, s, K)
    <3>1. EntryOK(jumps[s], numbered, s, numbered)
      BY <1>2, <1>3 DEF EntriesOK
    <3>2. Len(ChildrenOf(numbered[s])) \in Nat
      <4>1. numbered[s] \in Seq(Nat)
        BY <1>4
      <4>2. ChildrenOf(numbered[s]) \in Seq(Seq(Nat))
        BY <4>1, <1>2, ChildrenType
      <4> QED
        BY <4>2
    <3>3. /\ Len(numbered) \in Nat /\ Len(K) \in Nat /\ Len(numbered) <= Len(K)
          /\ \A y \in 1 .. Len(numbered) : K[y] = numbered[y]
      BY <1>5, <1>6
    <3>4. \A y \in 1 .. Len(numbered) : numbered[y] = numbered[y]
      OBVIOUS
    <3> QED
      BY <3>1, <3>2, <3>3, <3>4, EntryStays
  <2> QED
    BY <2>1, <1>2 DEF EntriesOK
<1>8. InitsOK(inits', K)
  <2>1. InitsOK(inits, K)
    <3>1. InitsOK(inits, numbered)
      BY <1>2, <1>3
    <3>2. /\ Len(numbered) \in Nat /\ Len(K) \in Nat /\ Len(numbered) <= Len(K)
          /\ \A y \in 1 .. Len(numbered) : K[y] = numbered[y]
      BY <1>5, <1>6
    <3> QED
      BY <3>1, <3>2, InitsStay
  <2> DEFINE e == [state |-> N + 1, char |-> c]
             I == [state : Nat, char : Nat]
  <2>2. e \in I /\ e.state = N + 1 /\ e.char = c
    BY <1>3, <1>5
  <2>3. inits \in Seq(I) /\ inits' = Append(inits, e)
    BY <1>1, <2>1 DEF InitsOK
  <2> HIDE DEF e, I
  <2>4. /\ inits' \in Seq(I) /\ Len(inits') = Len(inits) + 1 /\ inits'[Len(inits) + 1] = e
        /\ \A y \in 1 .. Len(inits) : inits'[y] = inits[y]
        /\ \A y \in 1 .. Len(inits') : y \in 1 .. Len(inits) \/ y = Len(inits) + 1
    BY <2>2, <2>3
  <2>5. N + 1 \in 1 .. Len(K) /\ K[N + 1] = <<c>>
    BY <1>3, <1>5, <1>6
  <2>6. ASSUME NEW y \in 1 .. Len(inits')
        PROVE  inits'[y].state \in 1 .. Len(K) /\ K[inits'[y].state] = <<inits'[y].char>>
    <3>1. CASE y \in 1 .. Len(inits)
      BY <3>1, <2>1, <2>4 DEF InitsOK
    <3>2. CASE y = Len(inits) + 1
      BY <3>2, <2>2, <2>4, <2>5
    <3> QED
      BY <3>1, <3>2, <2>4
  <2> QED
    BY <2>4, <2>6 DEF InitsOK, I
<1>9. /\ NodesOK(numbered', layer', roots') /\ EntriesOK(jumps', numbered', numbered' \o layer')
      /\ InitsOK(inits', numbered' \o layer')
  BY <1>1, <1>3, <1>7, <1>8 DEF K
<1>10. /\ NodesOK(numbered, layer, roots)'
       /\ EntriesOK(jumps, numbered, numbered \o layer)'
       /\ InitsOK(inits, numbered \o layer)'
  BY <1>1, <1>9, TablesStay
<1> QED
  BY <1>1, <1>2, <1>10, WordsStay DEF JumpsInv

(* So does numbering a level. *)
LEMMA NumberLayerStep == ASSUME JumpsInv, NumberLayer PROVE JumpsInv'
<1> DEFINE K == numbered \o layer
           n == next_level(layer)
           js == jumps \o [y \in DOMAIN layer |-> jump(layer, y)]
<1>1. /\ layer # <<>> /\ jumps' = js /\ numbered' = K /\ layer' = n
      /\ words' = words /\ roots' = roots /\ inits' = inits
  BY DEF NumberLayer
<1>2. WordsOK /\ NodesOK(numbered, layer, roots) /\ EntriesOK(jumps, numbered, K) /\ InitsOK(inits, K)
  BY DEF JumpsInv
<1>3. NodesOK(K, n, roots)
  BY <1>1, <1>2, LevelOfNodes
<1>4. EntriesOK(js, K, K \o n)
  BY <1>1, <1>2, LevelOfEntries
<1>5. InitsOK(inits, K \o n)
  <2>1. K \in Seq(Seq(Nat)) /\ n \in Seq(Seq(Nat))
    BY <1>3 DEF NodesOK
  <2> HIDE DEF K, n
  <2>2. /\ Len(K) \in Nat /\ Len(K \o n) = Len(K) + Len(n) /\ Len(n) \in Nat
        /\ \A y \in 1 .. Len(K) : (K \o n)[y] = K[y]
    BY <2>1, TwoLists
  <2>3. Len(K \o n) \in Nat /\ Len(K) <= Len(K \o n)
    BY <2>2
  <2> QED
    BY <1>2, <2>2, <2>3, InitsStay
<1>6. /\ NodesOK(numbered', layer', roots') /\ EntriesOK(jumps', numbered', numbered' \o layer')
      /\ InitsOK(inits', numbered' \o layer')
  BY <1>1, <1>3, <1>4, <1>5
<1>7. /\ NodesOK(numbered, layer, roots)'
      /\ EntriesOK(jumps, numbered, numbered \o layer)'
      /\ InitsOK(inits, numbered \o layer)'
  <2> HIDE DEF K, n, js
  <2> QED
    BY <1>1, <1>6, TablesStay
<1> QED
  BY <1>1, <1>2, <1>7, WordsStay DEF JumpsInv

(* What the generated scanner does leaves the table as it is. *)
LEMMA JumpsStay ==
    ASSUME JumpsInv, words' = words, layer' = layer, roots' = roots, jumps' = jumps,
           inits' = inits, numbered' = numbered
    PROVE  JumpsInv'
<1>1. /\ WordsOK /\ NodesOK(numbered, layer, roots)
      /\ EntriesOK(jumps, numbered, numbered \o layer) /\ InitsOK(inits, numbered \o layer)
  BY DEF JumpsInv
<1>2. /\ NodesOK(numbered', layer', roots') /\ EntriesOK(jumps', numbered', numbered' \o layer')
      /\ InitsOK(inits', numbered' \o layer')
  BY <1>1
<1>3. /\ NodesOK(numbered, layer, roots)'
      /\ EntriesOK(jumps, numbered, numbered \o layer)'
      /\ InitsOK(inits, numbered \o layer)'
  BY <1>2, TablesStay
<1> QED
  BY <1>1, <1>3, WordsStay DEF JumpsInv

(* The child whose last character is the next one of a text is the text up  *)
(* to that character.                                                       *)
LEMMA ChildIsRead ==
    ASSUME WordsOK, NEW t \in Seq(Nat), NEW x \in 1 .. Len(t), NEW p, p = SubSeq(t, 1, x - 1),
           NEW k \in 1 .. Len(ChildrenOf(p)), Last(ChildrenOf(p)[k]) = t[x]
    PROVE  ChildrenOf(p)[k] = SubSeq(t, 1, x)
<1> DEFINE c == ChildrenOf(p)[k]
           b == SubSeq(t, 1, x)
<1>1. x \in Nat /\ x - 1 \in 0 .. Len(t) /\ x \in 0 .. Len(t)
  OBVIOUS
<1>2. p \in Seq(Nat) /\ Len(p) = x - 1 /\ \A h \in 1 .. x - 1 : p[h] = t[h]
  BY <1>1, FirstElements
<1>3. b \in Seq(Nat) /\ Len(b) = x /\ \A h \in 1 .. x : b[h] = t[h]
  BY <1>1, FirstElements
<1>4. c \in Seq(Nat) /\ Len(c) = Len(p) + 1 /\ SubSeq(c, 1, Len(p)) = p
  BY <1>2, ChildOfNode
<1>5. Last(c) = t[x]
  OBVIOUS
<1> HIDE DEF c, b
<1>6. Len(c) = x /\ x - 1 \in 0 .. Len(c)
  BY <1>1, <1>2, <1>4
<1>7. \A h \in 1 .. x - 1 : p[h] = c[h]
  BY <1>2, <1>4, <1>6, FirstElements
<1>8. c[x] = t[x]
  BY <1>5, <1>6 DEF Last
<1>9. \A h \in 1 .. x : h \in 1 .. x - 1 \/ h = x
  BY <1>1
<1>10. \A h \in 1 .. x : c[h] = b[h]
  BY <1>2, <1>3, <1>7, <1>8, <1>9
<1>11. c = b
  BY <1>3, <1>4, <1>6, <1>10, SeqEqual
<1> QED
  BY <1>11 DEF c, b

(* Where no child has the next character, no longer part of the text is the *)
(* beginning of a word.                                                     *)
LEMMA NothingLonger ==
    ASSUME WordsOK, NEW t \in Seq(Nat), NEW x \in 1 .. Len(t), NEW p, p = SubSeq(t, 1, x - 1),
           \A k \in 1 .. Len(ChildrenOf(p)) : Last(ChildrenOf(p)[k]) # t[x],
           NEW m \in x .. Len(t)
    PROVE  SubSeq(t, 1, m) \notin Beginnings
<1> SUFFICES ASSUME SubSeq(t, 1, m) \in Beginnings PROVE FALSE
  OBVIOUS
<1>1. PICK k \in DOMAIN words : \E n \in 1 .. Len(words[k]) : SubSeq(t, 1, m) = SubSeq(words[k], 1, n)
  BY DEF Beginnings
<1>2. PICK n \in 1 .. Len(words[k]) : SubSeq(t, 1, m) = SubSeq(words[k], 1, n)
  BY <1>1
<1>3. /\ k \in 1 .. Len(words) /\ words[k] \in Seq(Nat) /\ Len(words[k]) \in Nat
      /\ n \in 0 .. Len(words[k]) /\ m \in 0 .. Len(t) /\ Len(t) \in Nat
      /\ x - 1 \in 0 .. m /\ x \in 0 .. m /\ x \in Nat /\ x - 1 \in 0 .. Len(t) /\ x \in 1 .. x
  BY DEF WordsOK
<1>4. n = m
  BY <1>2, <1>3, FirstElements
<1>5. SubSeq(words[k], 1, x - 1) = p
  <2>1. SubSeq(SubSeq(t, 1, m), 1, x - 1) = SubSeq(t, 1, x - 1)
    BY <1>3, BeginningOfBeginning
  <2>2. SubSeq(SubSeq(words[k], 1, n), 1, x - 1) = SubSeq(words[k], 1, x - 1)
    BY <1>3, <1>4, BeginningOfBeginning
  <2> QED
    BY <2>1, <2>2, <1>2
<1>6. SubSeq(words[k], 1, x) = SubSeq(t, 1, x)
  <2>1. SubSeq(SubSeq(t, 1, m), 1, x) = SubSeq(t, 1, x)
    BY <1>3, BeginningOfBeginning
  <2>2. SubSeq(SubSeq(words[k], 1, n), 1, x) = SubSeq(words[k], 1, x)
    BY <1>3, <1>4, BeginningOfBeginning
  <2> QED
    BY <2>1, <2>2, <1>2
<1>7. p \in Seq(Nat) /\ Len(p) = x - 1
  BY <1>3, FirstElements
<1>8. Passes(p, k)
  <2>1. Len(p) < Len(words[k]) /\ p = SubSeq(words[k], 1, Len(p))
    BY <1>3, <1>4, <1>5, <1>7
  <2> QED
    BY <2>1, <1>3, <1>7, PrefixIsBeginning DEF Passes
<1>9. PICK h \in 1 .. Len(ChildrenOf(p)) : ChildrenOf(p)[h] = NextOf(p, k)
  BY <1>3, <1>7, <1>8, ChildrenList DEF ChildrenUpTo
<1>10. NextOf(p, k) = SubSeq(t, 1, x)
  <2>1. Len(p) + 1 = x
    BY <1>3, <1>7
  <2> QED
    BY <2>1, <1>6 DEF NextOf
<1> DEFINE b == SubSeq(t, 1, x)
<1>11. b \in Seq(Nat) /\ Len(b) = x /\ b[x] = t[x]
  BY <1>3, FirstElements
<1> HIDE DEF b
<1>12. Last(b) = t[x]
  BY <1>11 DEF Last
<1> QED
  BY <1>9, <1>10, <1>12 DEF b

-----------------------------------------------------------------------------
(* The place of a character in a list that has it                           *)
Place(l, c) == Min({h \in 1 .. Len(l) : l[h] = c})

(* The place is one of the list and has the character. *)
LEMMA PlaceInList ==
    ASSUME NEW l \in Seq(Nat), NEW c, Contains(l, c)
    PROVE  Place(l, c) \in 1 .. Len(l) /\ l[Place(l, c)] = c
<1> DEFINE I == {h \in 1 .. Len(l) : l[h] = c}
<1>1. PICK h \in I : TRUE
  BY DEF Contains
<1>2. I \in SUBSET Nat /\ Place(l, c) = Min(I)
  BY DEF Place
<1> HIDE DEF I
<1>3. \E m \in I : \A k \in I : m <= k
  BY <1>1, <1>2, LeastNumber
<1>4. Place(l, c) \in I
  BY <1>2, <1>3 DEF Min
<1> QED
  BY <1>4 DEF I

(* No node without children is numbered before one that has some. *)
AllRight == \A s \in DOMAIN jumps : LeavesBefore(s) = {} \/ ChildrenOf(numbered[s]) = <<>>

(* What the scanner has read of a text: a node of the table, and in the end *)
(* the longest one                                                          *)
IsRead(t, x, s) == /\ t \in Seq(Nat) /\ x \in 2 .. Len(t) + 1
                   /\ s \in 1 .. Len(numbered) /\ numbered[s] = SubSeq(t, 1, x - 1)

(* In the end no longer part of the text is the beginning of a word, and c *)
(* is the code.                                                            *)
IsLongest(t, x, c) == /\ t \in Seq(Nat) /\ x \in 2 .. Len(t) + 1
                      /\ SubSeq(t, 1, x - 1) \in Beginnings
                      /\ \A m \in x .. Len(t) : SubSeq(t, 1, m) \notin Beginnings
                      /\ c = attribute(SubSeq(t, 1, x - 1))

(* What the generated scanner keeps while it reads, and what is right of   *)
(* it                                                                      *)
ReaderType == [text : Seq(Nat), pos : Nat, state : Int, code : Int,
               status : {"idle", "reading", "returned", "undefined"}]

(* While it reads, the scanner is in the state of what it has read. *)
ReaderInv ==
    /\ reader \in ReaderType
    /\ reader.status = "idle" => reader.state = -1
    /\ reader.status # "idle" => /\ TableReady
                                 /\ reader.text # <<>> /\ get_init_state(reader.text[1]) # -1
    /\ AllRight => /\ reader.status # "undefined"
                   /\ reader.status = "reading" /\ reader.state # -1
                          => IsRead(reader.text, reader.pos, reader.state)
                   /\ reader.status = "returned"
                          => IsLongest(reader.text, reader.pos, reader.code)

(* At the end all nodes that are known are numbered.                        *)
LEMMA ReadyTable ==
    ASSUME JumpsInv, TableReady
    PROVE  /\ WordsOK /\ numbered \in Seq(Seq(Nat)) /\ Distinct(numbered) /\ InWords(numbered)
           /\ EntriesOK(jumps, numbered, numbered) /\ InitsOK(inits, numbered)
           /\ DOMAIN jumps = 1 .. Len(numbered) /\ Len(numbered) \in Nat
<1>1. /\ WordsOK /\ NodesOK(numbered, <<>>, roots)
      /\ EntriesOK(jumps, numbered, numbered \o <<>>) /\ InitsOK(inits, numbered \o <<>>)
  BY DEF JumpsInv, TableReady
<1>2. numbered \in Seq(Seq(Nat))
  BY <1>1 DEF NodesOK
<1>3. numbered \o <<>> = numbered
  BY <1>2
<1>4. Distinct(numbered) /\ InWords(numbered)
  BY <1>1, <1>3 DEF NodesOK
<1>5. EntriesOK(jumps, numbered, numbered)
  BY <1>1, <1>3
<1>6. DOMAIN jumps = 1 .. Len(numbered)
  BY <1>5 DEF EntriesOK
<1> QED
  BY <1>1, <1>2, <1>3, <1>4, <1>5, <1>6

(* Behind no node without children, a transition leads to its child. *)
LEMMA RightEntry ==
    ASSUME JumpsInv, TableReady, NEW s \in 1 .. Len(numbered), LeavesBefore(s) = {},
           NEW k \in 1 .. Len(ChildrenOf(numbered[s]))
    PROVE  /\ jumps[s].first_state + k - 1 \in 1 .. Len(numbered)
           /\ numbered[jumps[s].first_state + k - 1] = ChildrenOf(numbered[s])[k]
<1> DEFINE c == ChildrenOf(numbered[s])
<1>1. WordsOK /\ numbered \in Seq(Seq(Nat)) /\ Len(numbered) \in Nat /\ EntryOK(jumps[s], numbered, s, numbered)
  BY ReadyTable DEF EntriesOK
<1>2. c \in Seq(Seq(Nat)) /\ c # <<>> /\ Len(c) \in Nat
  <2>1. numbered[s] \in Seq(Nat)
    BY <1>1
  <2>2. c \in Seq(Seq(Nat))
    BY <1>1, <2>1, ChildrenType
  <2> HIDE DEF c
  <2> QED
    BY <2>2 DEF c
<1>3. PICK q \in Nat : \E v \in Nat : PointsTo(jumps[s], numbered, s, numbered, q, v)
  BY <1>1, <1>2 DEF EntryOK
<1>4. PICK v \in Nat : PointsTo(jumps[s], numbered, s, numbered, q, v)
  BY <1>3
<1>5. Leaves(numbered, s) = {}
  BY DEF Leaves, LeavesBefore
<1>6. /\ jumps[s].first_state = q + 1 + v /\ v = 0
      /\ q + Len(c) <= Len(numbered) /\ numbered[q + k] = c[k]
  BY <1>4, <1>5 DEF PointsTo
<1> HIDE DEF c
<1>7. k \in 1 .. Len(c)
  BY DEF c
<1>8. jumps[s].first_state + k - 1 = q + k /\ q + k \in 1 .. Len(numbered)
  <2> DEFINE y == jumps[s].first_state
  <2>1. y = q + 1
    BY <1>6
  <2> HIDE DEF y
  <2>2. y + k - 1 = q + k /\ q + k \in 1 .. Len(numbered)
    BY <1>1, <1>2, <1>6, <1>7, <2>1
  <2> QED
    BY <2>2 DEF y
<1> QED
  BY <1>6, <1>8 DEF c

(* The state in which a text is begun                                       *)
LEMMA FirstState ==
    ASSUME JumpsInv, TableReady, NEW c, get_init_state(c) # -1
    PROVE  get_init_state(c) \in 1 .. Len(numbered) /\ numbered[get_init_state(c)] = <<c>>
<1> DEFINE I == {inits[y] : y \in DOMAIN inits}
           e == CHOOSE x \in I : x.char = c
<1>1. \E y \in DOMAIN inits : inits[y].char = c
  BY DEF get_init_state
<1>2. get_init_state(c) = e.state
  BY <1>1 DEF get_init_state
<1>3. e \in I /\ e.char = c
  BY <1>1
<1> HIDE DEF e
<1>4. PICK y \in DOMAIN inits : e = inits[y]
  BY <1>3
<1>5. y \in 1 .. Len(inits) /\ InitsOK(inits, numbered)
  BY <1>4, ReadyTable DEF InitsOK
<1>6. inits[y].state \in 1 .. Len(numbered) /\ numbered[inits[y].state] = <<inits[y].char>>
  BY <1>5 DEF InitsOK
<1> QED
  BY <1>2, <1>3, <1>4, <1>6

(* The first character of a delimiter is read. *)
LEMMA DelimiterBeginStep ==
    ASSUME JumpsInv, ReaderInv, delimiter_begin
    PROVE  reader' \in ReaderType /\ (AllRight => IsRead(reader'.text, reader'.pos, reader'.state))
<1> DEFINE s == get_init_state(reader.text[1])
           t == reader.text
<1>1. /\ reader.status = "reading" /\ TableReady /\ reader \in ReaderType
      /\ s # -1 /\ t # <<>>
      /\ reader' = [reader EXCEPT !.state = s, !.code = jumps[s].code, !.pos = 2]
  BY DEF delimiter_begin, Reading, ReaderInv
<1>2. s \in 1 .. Len(numbered) /\ numbered[s] = <<t[1]>>
  BY <1>1, FirstState
<1>3. t \in Seq(Nat)
  BY <1>1 DEF ReaderType
<1>4. jumps[s] \in JumpRecord /\ Len(numbered) \in Nat
  BY <1>1, <1>2, ReadyTable DEF EntriesOK
<1>5. jumps[s].code \in Int /\ s \in Int
  BY <1>2, <1>4 DEF JumpRecord
<1> HIDE DEF s, t
<1>6. reader' \in ReaderType /\ reader'.text = t /\ reader'.pos = 2 /\ reader'.state = s
  BY <1>1, <1>5 DEF ReaderType, t
<1>7. SubSeq(t, 1, 1) = <<t[1]>> /\ 2 \in 2 .. Len(t) + 1
  <2>1. Len(t) \in Nat \ {0} /\ 1 \in 0 .. Len(t) /\ 1 \in 1 .. 1
    BY <1>1, <1>3
  <2> DEFINE b == SubSeq(t, 1, 1)
  <2>2. b \in Seq(Nat) /\ Len(b) = 1 /\ b[1] = t[1]
    BY <1>3, <2>1, FirstElements
  <2> HIDE DEF b
  <2>3. b = <<t[1]>>
    BY <2>2
  <2> QED
    BY <2>1, <2>3 DEF b
<1>8. SubSeq(t, 1, 2 - 1) = <<t[1]>>
  <2>1. 2 - 1 = 1
    OBVIOUS
  <2> QED
    BY <1>7, <2>1
<1>9. IsRead(t, 2, s)
  BY <1>2, <1>3, <1>7, <1>8 DEF IsRead
<1> QED
  BY <1>6, <1>9

(* A node that is read, and no longer one                                   *)
LEMMA ReadIsLongest ==
    ASSUME JumpsInv, TableReady, NEW t, NEW x, NEW s, IsRead(t, x, s),
           \A m \in x .. Len(t) : SubSeq(t, 1, m) \notin Beginnings
    PROVE  IsLongest(t, x, jumps[s].code)
<1>1. /\ InWords(numbered) /\ EntryOK(jumps[s], numbered, s, numbered)
      /\ s \in 1 .. Len(numbered)
  BY ReadyTable DEF EntriesOK, IsRead
<1>2. numbered[s] \in Beginnings
  BY <1>1 DEF InWords
<1>3. jumps[s].code = attribute(numbered[s])
  BY <1>1 DEF EntryOK
<1> QED
  BY <1>2, <1>3 DEF IsRead, IsLongest

(* delimiter_proc reads one more character, or returns at the longest      *)
(* beginning.                                                              *)
LEMMA DelimiterProcStep ==
    ASSUME JumpsInv, ReaderInv, delimiter_proc
    PROVE  /\ reader' \in ReaderType /\ reader'.status \in {"reading", "returned"}
           /\ AllRight => /\ reader'.status = "reading"
                                => IsRead(reader'.text, reader'.pos, reader'.state)
                          /\ reader'.status = "returned"
                                => IsLongest(reader'.text, reader'.pos, reader'.code)
<1> DEFINE s == reader.state
           t == reader.text
           x == reader.pos
           e == jumps[s]
           c == t[x]
           k == SelectInSeq(e.chars, LAMBDA d : d = c)
           p == numbered[s]
<1>1. /\ reader.status = "reading" /\ TableReady /\ reader \in ReaderType
      /\ s \in DOMAIN jumps /\ x \in DOMAIN t
      /\ reader' = IF Contains(e.chars, c)
                   THEN [reader EXCEPT !.pos = @ + 1, !.code = e.code, !.state = e.first_state + k - 1]
                   ELSE [reader EXCEPT !.code = e.code, !.status = "returned"]
  BY DEF delimiter_proc, Reading, ReaderInv, Returned
<1>2. t \in Seq(Nat) /\ x \in 1 .. Len(t) /\ x \in Nat /\ Len(t) \in Nat
  BY <1>1 DEF ReaderType
<1>3. /\ s \in 1 .. Len(numbered) /\ e \in JumpRecord /\ EntryOK(e, numbered, s, numbered)
      /\ WordsOK /\ p \in Seq(Nat)
  BY <1>1, ReadyTable DEF EntriesOK
<1>4. e.chars \in Seq(Nat) /\ e.code \in Int /\ e.first_state \in Nat \ {0}
  BY <1>3 DEF JumpRecord
<1>5. e.chars = Lasts(p) /\ DOMAIN Lasts(p) = 1 .. Len(ChildrenOf(p))
      /\ \A j \in 1 .. Len(ChildrenOf(p)) : e.chars[j] = Last(ChildrenOf(p)[j])
  <2>1. e.chars = Lasts(p)
    BY <1>3 DEF EntryOK
  <2>2. DOMAIN Lasts(p) = 1 .. Len(ChildrenOf(p))
    BY <1>3, LastsType
  <2>3. \A j \in DOMAIN Lasts(p) : Lasts(p)[j] = Last(ChildrenOf(p)[j])
    BY DEF Lasts
  <2> QED
    BY <2>1, <2>2, <2>3
<1>6. Len(e.chars) = Len(ChildrenOf(p)) /\ Len(ChildrenOf(p)) \in Nat
  <2>1. ChildrenOf(p) \in Seq(Seq(Nat))
    BY <1>3, ChildrenType
  <2> DEFINE l == e.chars
             h == ChildrenOf(p)
  <2>2. l \in Seq(Nat) /\ h \in Seq(Seq(Nat)) /\ DOMAIN l = 1 .. Len(h)
    BY <1>4, <1>5, <2>1
  <2> HIDE DEF l, h
  <2>3. Len(l) = Len(h) /\ Len(h) \in Nat
    BY <2>2
  <2> QED
    BY <2>3 DEF l, h
<1>7. AllRight => IsRead(t, x, s) /\ (LeavesBefore(s) = {} \/ ChildrenOf(p) = <<>>)
  <2> SUFFICES ASSUME AllRight PROVE IsRead(t, x, s) /\ (LeavesBefore(s) = {} \/ ChildrenOf(p) = <<>>)
    OBVIOUS
  <2>1. s # -1
    BY <1>3
  <2>2. IsRead(t, x, s)
    BY <1>1, <2>1 DEF ReaderInv
  <2> QED
    BY <2>2, <1>1 DEF AllRight
<1>8. CASE Contains(e.chars, c)
  <2>1. k \in 1 .. Len(e.chars) /\ e.chars[k] = c
    <3>1. k = Place(e.chars, c)
      BY <1>8 DEF Place, SelectInSeq, Contains
    <3> DEFINE l == e.chars
    <3>2. l \in Seq(Nat) /\ Contains(l, c)
      BY <1>4, <1>8
    <3> HIDE DEF l, c
    <3>3. Place(l, c) \in 1 .. Len(l) /\ l[Place(l, c)] = c
      BY <3>2, PlaceInList
    <3> QED
      BY <3>1, <3>3 DEF l
  <2> HIDE DEF k
  <2>2. k \in 1 .. Len(ChildrenOf(p)) /\ Last(ChildrenOf(p)[k]) = c
    BY <2>1, <1>5, <1>6
  <2>3. e.first_state + k - 1 \in Int
    <3> DEFINE f == e.first_state
    <3>1. f \in Nat /\ k \in Int
      BY <1>4, <2>2
    <3> HIDE DEF f
    <3>2. f + k - 1 \in Int
      BY <3>1
    <3> QED
      BY <3>2 DEF f
  <2> DEFINE z == e.first_state + k - 1
  <2> HIDE DEF z, e
  <2>4. /\ reader' \in ReaderType /\ reader'.text = t /\ reader'.pos = x + 1
        /\ reader'.state = z /\ reader'.status = "reading"
    <3>1. reader' = [reader EXCEPT !.pos = @ + 1, !.code = e.code, !.state = z]
      BY <1>1, <1>8 DEF z
    <3>2. z \in Int /\ e.code \in Int /\ x + 1 \in Nat
      BY <1>2, <1>4, <2>3 DEF z
    <3> QED
      BY <1>1, <3>1, <3>2 DEF ReaderType
  <2>5. ASSUME AllRight PROVE IsRead(t, x + 1, z)
    <3>1. ChildrenOf(p) # <<>>
      BY <2>2
    <3>2. LeavesBefore(s) = {} /\ IsRead(t, x, s)
      BY <1>7, <2>5, <3>1
    <3>3. z \in 1 .. Len(numbered) /\ numbered[z] = ChildrenOf(p)[k]
      BY <1>1, <1>3, <2>2, <3>2, RightEntry DEF z, e
    <3>4. p = SubSeq(t, 1, x - 1) /\ x \in 2 .. Len(t) + 1
      BY <3>2 DEF IsRead
    <3> HIDE DEF p, t, x, s
    <3>5. ChildrenOf(p)[k] = SubSeq(t, 1, x)
      BY <1>2, <1>3, <2>2, <3>4, ChildIsRead DEF c
    <3>6. (x + 1) - 1 = x /\ x + 1 \in 2 .. Len(t) + 1
      BY <1>2, <3>4
    <3> QED
      BY <1>2, <3>3, <3>5, <3>6 DEF IsRead
  <2> QED
    BY <2>4, <2>5
<1>9. CASE ~Contains(e.chars, c)
  <2>1. /\ reader' \in ReaderType /\ reader'.text = t /\ reader'.pos = x
        /\ reader'.code = e.code /\ reader'.status = "returned"
    <3> HIDE DEF e, k
    <3>1. reader' = [reader EXCEPT !.code = e.code, !.status = "returned"]
      BY <1>1, <1>9
    <3> QED
      BY <1>1, <1>4, <3>1 DEF ReaderType
  <2>2. \A j \in 1 .. Len(ChildrenOf(p)) : Last(ChildrenOf(p)[j]) # c
    BY <1>5, <1>6, <1>9 DEF Contains
  <2>3. ASSUME AllRight PROVE IsLongest(t, x, e.code)
    <3>1. IsRead(t, x, s)
      BY <1>7, <2>3
    <3>2. p = SubSeq(t, 1, x - 1)
      BY <3>1 DEF IsRead
    <3>3. \A m \in x .. Len(t) : SubSeq(t, 1, m) \notin Beginnings
      <4> HIDE DEF p, t, x, s
      <4> QED
        BY <1>2, <1>3, <2>2, <3>2, NothingLonger DEF c
    <3> QED
      BY <1>1, <3>1, <3>3, ReadIsLongest
  <2> QED
    BY <2>1, <2>3
<1> QED
  BY <1>8, <1>9

(* At the end of the text it returns, too. *)
LEMMA DelimiterFinalStep ==
    ASSUME JumpsInv, ReaderInv, delimiter_final_proc
    PROVE  /\ reader' \in ReaderType /\ reader'.status = "returned"
           /\ AllRight => IsLongest(reader'.text, reader'.pos, reader'.code)
<1> DEFINE s == reader.state
           t == reader.text
           x == reader.pos
<1>1. /\ reader.status = "reading" /\ TableReady /\ reader \in ReaderType
      /\ s \in DOMAIN jumps /\ x > Len(t)
      /\ reader' = [reader EXCEPT !.code = jumps[s].code, !.status = "returned"]
  BY DEF delimiter_final_proc, Reading, ReaderInv, Returned
<1>2. s \in 1 .. Len(numbered) /\ jumps[s] \in JumpRecord
  BY <1>1, ReadyTable DEF EntriesOK
<1>3. jumps[s].code \in Int
  BY <1>2 DEF JumpRecord
<1>4. /\ reader' \in ReaderType /\ reader'.text = t /\ reader'.pos = x
      /\ reader'.code = jumps[s].code /\ reader'.status = "returned"
  BY <1>1, <1>3 DEF ReaderType
<1>5. ASSUME AllRight PROVE IsLongest(t, x, jumps[s].code)
  <2>1. s # -1
    BY <1>2
  <2>2. IsRead(t, x, s)
    BY <1>1, <1>5, <2>1 DEF ReaderInv
  <2>3. x \in Nat /\ Len(t) \in Nat
    BY <1>1 DEF ReaderType
  <2>4. \A m \in x .. Len(t) : FALSE
    BY <1>1, <2>3
  <2> QED
    BY <1>1, <2>2, <2>4, ReadIsLongest
<1> QED
  BY <1>4, <1>5

(* The transitions of a finished table *)
LEMMA JumpsFromInv == JumpsInv => JumpsRight
<1> SUFFICES ASSUME JumpsInv, TableReady, NEW s \in DOMAIN jumps
             PROVE  LeadsRight(s) <=> LeavesBefore(s) = {} \/ ChildrenOf(numbered[s]) = <<>>
  BY DEF JumpsRight
<1> DEFINE c == ChildrenOf(numbered[s])
           f == jumps[s].first_state
<1>1. /\ WordsOK /\ numbered \in Seq(Seq(Nat)) /\ Distinct(numbered) /\ Len(numbered) \in Nat
      /\ s \in 1 .. Len(numbered) /\ EntryOK(jumps[s], numbered, s, numbered)
  BY ReadyTable DEF EntriesOK
<1>2. c \in Seq(Seq(Nat)) /\ DOMAIN c = 1 .. Len(c) /\ Len(c) \in Nat
  <2>1. numbered[s] \in Seq(Nat)
    BY <1>1
  <2>2. c \in Seq(Seq(Nat))
    BY <1>1, <2>1, ChildrenType
  <2> HIDE DEF c
  <2> QED
    BY <2>2
<1>3. LeadsRight(s) <=> \A k \in DOMAIN c : f + k - 1 = StateOf(c[k])
  BY DEF LeadsRight
<1>4. CASE c = <<>>
  <2>1. DOMAIN c = {}
    BY <1>4
  <2> QED
    BY <1>3, <1>4, <2>1
<1>5. CASE c # <<>>
  <2>1. PICK q \in Nat : \E v \in Nat : PointsTo(jumps[s], numbered, s, numbered, q, v)
    BY <1>1, <1>5 DEF EntryOK
  <2>2. PICK v \in Nat : PointsTo(jumps[s], numbered, s, numbered, q, v)
    BY <2>1
  <2>3. Leaves(numbered, s) = LeavesBefore(s)
    BY DEF Leaves, LeavesBefore
  <2>4. /\ f = q + 1 + v /\ (v = 0 <=> LeavesBefore(s) = {})
        /\ q + Len(c) <= Len(numbered) /\ \A k \in 1 .. Len(c) : numbered[q + k] = c[k]
    BY <2>2, <2>3 DEF PointsTo
  <2> HIDE DEF c, f
  <2>5. ASSUME NEW k \in 1 .. Len(c) PROVE StateOf(c[k]) = q + k
    <3>1. q + k \in DOMAIN numbered /\ numbered[q + k] = c[k]
      BY <1>1, <1>2, <2>4
    <3>2. StateOf(c[k]) \in DOMAIN numbered /\ numbered[StateOf(c[k])] = c[k]
      BY <3>1 DEF StateOf
    <3>3. DOMAIN numbered = 1 .. Len(numbered)
      BY <1>1
    <3> QED
      BY <3>1, <3>2, <3>3, <1>1 DEF Distinct
  <2>6. 1 \in 1 .. Len(c)
    BY <1>2, <1>5
  <2>7. \A k \in 1 .. Len(c) : f + k - 1 = q + k <=> v = 0
    BY <1>2, <2>4
  <2>8. (\A k \in 1 .. Len(c) : f + k - 1 = StateOf(c[k])) <=> v = 0
    BY <2>5, <2>6, <2>7
  <2> QED
    BY <1>2, <1>3, <1>5, <2>4, <2>8 DEF c
<1> QED
  BY <1>4, <1>5

(* What has been read when delimiter_proc returns *)
LEMMA ReadFromInv == ReaderInv => DelimitersRead
<1> SUFFICES ASSUME ReaderInv, reader.status \in {"returned", "undefined"}, AllRight
             PROVE  LET n == LongestBeginning(reader.text)
                    IN  /\ reader.status = "returned"
                        /\ reader.pos = n + 1
                        /\ reader.code = attribute(SubSeq(reader.text, 1, n))
  BY DEF DelimitersRead, AllRight
<1> DEFINE t == reader.text
           x == reader.pos
           Good(n) == /\ SubSeq(t, 1, n) \in Beginnings
                      /\ \A m \in n + 1 .. Len(t) : SubSeq(t, 1, m) \notin Beginnings
           n == LongestBeginning(t)
<1>1. reader.status = "returned" /\ IsLongest(t, x, reader.code)
  BY DEF ReaderInv
<1>2. x \in 2 .. Len(t) + 1 /\ Len(t) \in Nat /\ (x - 1) + 1 = x /\ x - 1 \in 1 .. Len(t) /\ x \in Nat
  BY <1>1 DEF IsLongest
<1>3. Good(x - 1)
  BY <1>1, <1>2 DEF IsLongest
<1>4. n = CHOOSE y \in 1 .. Len(t) : Good(y)
  BY DEF LongestBeginning
<1> HIDE DEF n, t, x
<1>5. n \in 1 .. Len(t) /\ Good(n)
  <2> HIDE DEF Good
  <2> QED
    BY <1>2, <1>3, <1>4
<1>6. n = x - 1
  <2>1. ~(n < x - 1)
    <3> SUFFICES ASSUME n < x - 1 PROVE FALSE
      OBVIOUS
    <3>1. x - 1 \in n + 1 .. Len(t)
      BY <1>2, <1>5
    <3> QED
      BY <3>1, <1>3, <1>5
  <2>2. ~(x - 1 < n)
    <3> SUFFICES ASSUME x - 1 < n PROVE FALSE
      OBVIOUS
    <3>1. n \in (x - 1) + 1 .. Len(t)
      BY <1>2, <1>5
    <3> QED
      BY <3>1, <1>3, <1>5
  <2> QED
    BY <2>1, <2>2, <1>2, <1>5
<1> QED
  BY <1>1, <1>2, <1>6 DEF n, t, x, IsLongest

-----------------------------------------------------------------------------
(* Of the table of delimiters and its reader, step by step                  *)
LEMMA ReaderStays ==
    ASSUME ReaderInv, UNCHANGED <<words, layer, roots, jumps, inits, numbered, reader>>
    PROVE  ReaderInv'
<1>1. AllRight' <=> AllRight
  BY WordsStay DEF AllRight, LeavesBefore
<1>2. TableReady' <=> TableReady
  BY DEF TableReady
<1>3. \A c : get_init_state(c)' = get_init_state(c)
  BY DEF get_init_state
<1>4. \A t, x, s : IsRead(t, x, s)' <=> IsRead(t, x, s)
  BY DEF IsRead
<1>5. \A t, x, c : IsLongest(t, x, c)' <=> IsLongest(t, x, c)
  BY WordsStay DEF IsLongest
<1> QED
  BY <1>1, <1>2, <1>3, <1>4, <1>5 DEF ReaderInv

(* Every step of the table and of its reader preserves both invariants. *)
LEMMA JumpsStep == ASSUME JumpsInv, ReaderInv, JumpsNext PROVE JumpsInv' /\ ReaderInv'
<1>1. CASE BeginSubtrie \/ NumberLayer
  <2>1. JumpsInv'
    BY <1>1, BeginSubtrieStep, NumberLayerStep
  <2>2. reader' = reader /\ ~TableReady
    BY <1>1 DEF BeginSubtrie, NumberLayer, TableReady
  <2>3. reader \in ReaderType /\ reader.status = "idle" /\ reader.state = -1
    BY <2>2 DEF ReaderInv
  <2>4. ReaderInv'
    BY <2>2, <2>3 DEF ReaderInv
  <2> QED
    BY <2>1, <2>4
<1>2. ASSUME UNCHANGED <<words, layer, roots, jumps, inits, numbered>>, TableReady,
             reader' \in ReaderType, reader'.status # "idle",
             reader'.text # <<>>, get_init_state(reader'.text[1]) # -1,
             AllRight => /\ reader'.status # "undefined"
                         /\ reader'.status = "reading" /\ reader'.state # -1
                                => IsRead(reader'.text, reader'.pos, reader'.state)
                         /\ reader'.status = "returned"
                                => IsLongest(reader'.text, reader'.pos, reader'.code)
      PROVE  JumpsInv' /\ ReaderInv'
  <2>1. JumpsInv'
    BY <1>2, JumpsStay
  <2>2. AllRight' <=> AllRight
    BY <1>2, WordsStay DEF AllRight, LeavesBefore
  <2>3. TableReady'
    BY <1>2 DEF TableReady
  <2>4. \A c : get_init_state(c)' = get_init_state(c)
    BY <1>2 DEF get_init_state
  <2>5. \A t, x, s : IsRead(t, x, s)' <=> IsRead(t, x, s)
    BY <1>2 DEF IsRead
  <2>6. \A t, x, c : IsLongest(t, x, c)' <=> IsLongest(t, x, c)
    BY <1>2, WordsStay DEF IsLongest
  <2>7. ReaderInv'
    BY <1>2, <2>2, <2>3, <2>4, <2>5, <2>6 DEF ReaderInv
  <2> QED
    BY <2>1, <2>7
<1>3. ASSUME NEW t \in DelimiterTexts, BeginReading(t) PROVE JumpsInv' /\ ReaderInv'
  <2>1. /\ UNCHANGED <<words, layer, roots, jumps, inits, numbered>> /\ TableReady
        /\ reader.status = "idle" /\ get_init_state(t[1]) # -1
        /\ reader' = [reader EXCEPT !.text = t, !.status = "reading"]
    BY <1>3 DEF BeginReading
  <2>2. t \in Seq(Nat) /\ t # <<>>
    BY WordsAreNotEmpty
  <2>3. reader \in ReaderType /\ reader.state = -1
    BY <2>1 DEF ReaderInv
  <2>4. reader' \in ReaderType /\ reader'.status = "reading" /\ reader'.text = t /\ reader'.state = -1
    BY <2>1, <2>2, <2>3 DEF ReaderType
  <2> QED
    BY <1>2, <2>1, <2>2, <2>4
<1>4. ASSUME Reading
      PROVE  TableReady /\ reader.text # <<>> /\ get_init_state(reader.text[1]) # -1
             /\ reader \in ReaderType /\ reader.status = "reading"
  BY <1>4 DEF ReaderInv, Reading
<1>5. CASE delimiter_begin
  <2>1. UNCHANGED <<words, layer, roots, jumps, inits, numbered>> /\ Reading
    BY <1>5 DEF delimiter_begin, Rest
  <2>2. reader'.text = reader.text /\ reader'.status = "reading"
    BY <1>4, <1>5, <2>1 DEF delimiter_begin, ReaderType
  <2>3. reader' \in ReaderType /\ (AllRight => IsRead(reader'.text, reader'.pos, reader'.state))
    BY <1>5, DelimiterBeginStep
  <2> QED
    BY <1>2, <1>4, <2>1, <2>2, <2>3
<1>6. CASE delimiter_proc
  <2>1. UNCHANGED <<words, layer, roots, jumps, inits, numbered>> /\ Reading
    BY <1>6 DEF delimiter_proc, Rest
  <2>2. reader'.text = reader.text
    BY <1>4, <1>6, <2>1 DEF delimiter_proc, ReaderType, Returned
  <2>3. /\ reader' \in ReaderType /\ reader'.status \in {"reading", "returned"}
        /\ AllRight => /\ reader'.status = "reading"
                             => IsRead(reader'.text, reader'.pos, reader'.state)
                       /\ reader'.status = "returned"
                             => IsLongest(reader'.text, reader'.pos, reader'.code)
    BY <1>6, DelimiterProcStep
  <2> QED
    BY <1>2, <1>4, <2>1, <2>2, <2>3
<1>7. CASE delimiter_final_proc
  <2>1. UNCHANGED <<words, layer, roots, jumps, inits, numbered>> /\ Reading
    BY <1>7 DEF delimiter_final_proc, Rest
  <2>2. reader'.text = reader.text
    BY <1>4, <1>7, <2>1 DEF delimiter_final_proc, ReaderType, Returned
  <2>3. /\ reader' \in ReaderType /\ reader'.status = "returned"
        /\ AllRight => IsLongest(reader'.text, reader'.pos, reader'.code)
    BY <1>7, DelimiterFinalStep
  <2> QED
    BY <1>2, <1>4, <2>1, <2>2, <2>3
<1>8. CASE OutOfTable
  <2>1. /\ UNCHANGED <<words, layer, roots, jumps, inits, numbered>> /\ Reading
        /\ reader.state > Len(jumps) /\ reader' = [reader EXCEPT !.status = "undefined"]
    BY <1>8 DEF OutOfTable, Rest
  <2>2. reader' \in ReaderType /\ reader'.status = "undefined" /\ reader'.text = reader.text
    BY <1>4, <2>1 DEF ReaderType
  <2>3. ~AllRight
    <3> SUFFICES ASSUME AllRight PROVE FALSE
      OBVIOUS
    <3>1. Len(jumps) = Len(numbered) /\ Len(numbered) \in Nat
      BY <1>4, <2>1, ReadyTable DEF EntriesOK
    <3>2. reader.state # -1 /\ reader.state > Len(numbered)
      BY <2>1, <3>1
    <3>3. reader.state \in 1 .. Len(numbered)
      BY <1>4, <2>1, <3>2 DEF ReaderInv, IsRead
    <3> QED
      BY <3>1, <3>2, <3>3
  <2> QED
    BY <1>2, <1>4, <2>1, <2>2, <2>3
<1> QED
  BY <1>1, <1>3, <1>5, <1>6, <1>7, <1>8 DEF JumpsNext

-----------------------------------------------------------------------------
(* The tables of a generated scanner: the one that is built, and the other, *)
(* of which there is nothing                                                *)
TablesInv ==
    /\ task \in {"delimiters", "categories"}
    /\ JumpsInv /\ ReaderInv
    /\ task = "delimiters" => tree = <<>> /\ table = <<>> /\ traversal.state = "none" /\ traversal.node = 1
    /\ task = "categories" => CategoriesInv

(* Of neither table there is anything wrong at first, *)
LEMMA TablesStart == TablesInit => TablesInv
<1> SUFFICES ASSUME TablesInit PROVE TablesInv
  OBVIOUS
<1>1. reader = [text |-> <<>>, pos |-> 1, state |-> -1, code |-> 0, status |-> "idle"]
  BY DEF TablesInit, JumpsInit, NoDelimiters
<1>2. ReaderInv
  <2>1. reader \in ReaderType
    BY <1>1 DEF ReaderType
  <2> QED
    BY <1>1, <2>1 DEF ReaderInv
<1>3. CASE task = "delimiters" /\ JumpsInit /\ NoCategories
  <2>1. WordsOK
    BY <1>3, WordsAreNotEmpty DEF JumpsInit, WordsOK
  <2>2. JumpsInv
    BY <1>3, <2>1, JumpsStart DEF JumpsInit
  <2> QED
    BY <1>2, <1>3, <2>2 DEF TablesInv, NoCategories
<1>4. CASE task = "categories" /\ CategoriesInit /\ NoDelimiters
  <2>1. words = <<>> /\ WordsOK
    BY <1>4 DEF NoDelimiters, WordsOK
  <2>2. ChildrenOf(<<>>) = <<>>
    <3> DEFINE e == <<>>
    <3>1. e \in Seq(Nat) /\ Len(words) = 0
      BY <2>1
    <3> HIDE DEF e
    <3>2. ChildrenUpTo(ChildrenOf(e), e, Len(words))
      BY <2>1, <3>1, ChildrenList
    <3> DEFINE c == ChildrenOf(e)
    <3>3. c \in Seq(Seq(Nat)) /\ \A h \in 1 .. Len(c) : FALSE
      BY <3>1, <3>2 DEF ChildrenUpTo
    <3> HIDE DEF c
    <3>4. c = <<>>
      BY <3>3
    <3> QED
      BY <3>4 DEF c, e
  <2>3. JumpsInv
    BY <1>4, <2>1, <2>2, JumpsStart DEF NoDelimiters
  <2>4. CategoriesInv
    BY <1>4 DEF CategoriesInit, CategoriesInv
  <2> QED
    BY <1>2, <1>4, <2>3, <2>4 DEF TablesInv
<1> QED
  BY <1>3, <1>4 DEF TablesInit

(* and no step does anything wrong. *)
LEMMA TablesStep == TablesInv /\ [TablesNext]_tableVars => TablesInv'
<1> SUFFICES ASSUME TablesInv, [TablesNext]_tableVars PROVE TablesInv'
  OBVIOUS
<1>1. CASE task = "delimiters" /\ JumpsNext /\ UNCHANGED <<categoryVars, task>>
  <2>1. JumpsInv' /\ ReaderInv'
    BY <1>1, JumpsStep DEF TablesInv
  <2> QED
    BY <1>1, <2>1 DEF TablesInv, categoryVars
<1>2. CASE task = "categories" /\ CategoriesNext /\ UNCHANGED <<jumpVars, task>>
  <2>1. UNCHANGED <<words, layer, roots, jumps, inits, numbered, reader>>
    BY <1>2 DEF jumpVars
  <2>2. JumpsInv' /\ ReaderInv'
    BY <2>1, JumpsStay, ReaderStays DEF TablesInv
  <2>3. CategoriesInv'
    BY <1>2, CategoriesStep DEF TablesInv
  <2> QED
    BY <1>2, <2>2, <2>3 DEF TablesInv
<1>3. CASE UNCHANGED tableVars
  <2>1. /\ UNCHANGED <<words, layer, roots, jumps, inits, numbered, reader>>
        /\ UNCHANGED <<categories, segments, tree, traversal, table>> /\ task' = task
    BY <1>3 DEF tableVars, jumpVars, categoryVars
  <2>2. JumpsInv' /\ ReaderInv'
    BY <2>1, JumpsStay, ReaderStays DEF TablesInv
  <2>3. task = "categories" => CategoriesInv'
    BY <2>1, CategoriesStay DEF TablesInv
  <2> QED
    BY <2>1, <2>2, <2>3 DEF TablesInv
<1> QED
  BY <1>1, <1>2, <1>3 DEF TablesNext

(* The invariant of the tables holds always. *)
LEMMA TablesInvariant == TablesSpec => []TablesInv
BY TablesStart, TablesStep, PTL DEF TablesSpec

(* The table of categories is right, whatever the categories are            *)
(* (src/category_table_builder.cpp:109).                                    *)
THEOREM CategoriesAreRight == TablesSpec => []TableRight
<1>1. TablesInv => TableRight
  BY TableFromInv DEF TablesInv, TableRight
<1> QED
  BY <1>1, TablesInvariant, PTL

(* The transitions of a table of delimiters are right exactly where no node *)
(* without children is numbered before, whatever the delimiters are         *)
(* (src/attributed_char_trie.cpp:142).                                      *)
THEOREM TransitionsAreRight == TablesSpec => []TransitionsRight
<1>1. TablesInv => TablesTypeOK
  <2> SUFFICES ASSUME TablesInv PROVE TablesTypeOK
    OBVIOUS
  <2>1. jumps \in Seq(JumpRecord) /\ Len(jumps) = Len(numbered)
    BY DEF TablesInv, JumpsInv, EntriesOK
  <2>2. \A s \in DOMAIN jumps : jumps[s].first_state \in Nat \ {0}
    <3> SUFFICES ASSUME NEW s \in DOMAIN jumps PROVE jumps[s].first_state \in Nat \ {0}
      OBVIOUS
    <3>1. jumps[s] \in JumpRecord
      BY <2>1
    <3> QED
      BY <3>1 DEF JumpRecord
  <2>3. reader.status \in {"idle", "reading", "returned", "undefined"}
    BY DEF TablesInv, ReaderInv, ReaderType
  <2>4. /\ traversal.state \in {"none", "Start", "Left", "Right", "Parent"}
        /\ traversal.node \in 1 .. Len(tree) \cup {1}
    <3>1. CASE tree = <<>>
      BY <3>1 DEF TablesInv, CategoriesInv
    <3>2. CASE tree # <<>>
      <4>1. TreeOK(Len(segments)) /\ TraversalOK(Len(segments), traversal)
        BY <3>2 DEF TablesInv, CategoriesInv
      <4> DEFINE n == Len(segments)
      <4> HIDE DEF n
      <4>2. /\ n \in Nat /\ tree = create_permutation_tree(n)
            /\ traversal.state \in {"Start", "Left", "Right", "Parent"} /\ traversal.node \in 1 .. n
        BY <4>1 DEF TreeOK, TraversalOK, n
      <4>3. Len(tree) = n
        BY <4>2 DEF create_permutation_tree
      <4> QED
        BY <4>2, <4>3
    <3> QED
      BY <3>1, <3>2
  <2> QED
    BY <2>1, <2>2, <2>3, <2>4 DEF TablesTypeOK, TablesInv
<1>2. TablesInv => TransitionsRight
  BY <1>1, JumpsFromInv DEF TransitionsRight, TablesInv
<1> QED
  BY <1>2, TablesInvariant, PTL

(* Where the transitions are right, delimiter_proc takes the longest        *)
(* beginning of a delimiter, of any text                                    *)
(* (src/attributed_char_trie.cpp:142).                                      *)
THEOREM DelimitersAreRead == TablesSpec => []DelimitersRead
<1>1. TablesInv => DelimitersRead
  BY ReadFromInv DEF TablesInv
<1> QED
  BY <1>1, TablesInvariant, PTL
=============================================================================
