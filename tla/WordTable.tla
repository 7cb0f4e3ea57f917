----------------------------- MODULE WordTable ------------------------------
(***************************************************************************)
(* What the users of a prefix tree (include/trie.h) rely on: a table that  *)
(* gives every word an index of its own, never changes an index once it is *)
(* given, and answers a request for a word with the index of that word.    *)
(***************************************************************************)
EXTENDS Integers, Sequences

VARIABLES table,     \* the pairs <<word, index>> known so far
          answers    \* the pairs <<word, index>> returned, in order

tvars == <<table, answers>>

Init == table = {<<<<>>, 0>>} /\ answers = <<>>

(* A new word gets an index that no word has. *)
Learn ==
    /\ \E e \in table' \ table :
          /\ table' = table \cup {e}
          /\ \A known \in table : known[1] # e[1] /\ known[2] # e[2]
    /\ UNCHANGED answers

(* A request is answered from the table. *)
Answer ==
    /\ \E e \in table : answers' = Append(answers, e)
    /\ UNCHANGED table

Next == Learn \/ Answer

Spec == Init /\ [][Next]_tvars
=============================================================================
