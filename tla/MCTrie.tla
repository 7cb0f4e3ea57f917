------------------------------- MODULE MCTrie -------------------------------
(* A small instance of Trie: words that share prefixes, are prefixes of     *)
(* each other, and give nodes one, two and three children.                  *)
EXTENDS Trie

CONSTANTS a, b, c

MCChar == {a, b, c}
MCWords == {<<>>, <<a>>, <<a, b>>, <<a, a>>, <<a, c>>, <<b>>, <<b, a, c>>, <<c, c>>}
=============================================================================
