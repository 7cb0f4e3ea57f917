---------------------------- MODULE LexemeSource ----------------------------
(***************************************************************************)
(* The description of a scanner as all the section parsers see it: a       *)
(* stream of lexemes behind one shared Location (include/location.h).      *)
(*                                                                         *)
(* current_lexem() reads the lexeme at the current position; back() of     *)
(* include/abstract_scaner.h returns to its beginning, so that it is read  *)
(* again, its own lexical error included.  A lexeme that is read and not   *)
(* given back is never seen again.  The text is chosen lexeme by lexeme.   *)
(***************************************************************************)
EXTENDS Naturals, FiniteSets

CONSTANTS Lexeme,         \* the lexemes the text may have
          SourceLength,   \* bound: the number of lexemes of the text
          ErrorCap        \* the count of errors saturates here

(* A lexeme has a code, an index in a prefix tree where it is an identifier *)
(* or a string, and may be lexically wrong (bad): unknown, or a string      *)
(* without a closing quote.                                                 *)
ASSUME LexemeAssumption ==
    \A l \in Lexeme : /\ DOMAIN l = {"code", "idx", "bad"}
                      /\ l.code # "None" /\ l.idx \in Nat
                      /\ l.bad \in BOOLEAN
                      /\ l.bad => l.code \in {"Unknown", "String"}
ASSUME SourceLengthAssumption == SourceLength \in Nat
ASSUME ErrorCapAssumption == ErrorCap \in Nat \ {0}

VARIABLES next,     \* the lexeme at the current position of the location
          left,     \* how many more lexemes the text may have
          errors    \* Error_count::number_of_errors

source == <<next, left>>

(* The lexeme that current_lexem returns, again and again, after the text.  *)
EndOfText == [code |-> "None", idx |-> 0, bad |-> FALSE]

SourceInit ==
    /\ next \in Lexeme \cup {EndOfText}
    /\ left = SourceLength
    /\ errors = 0

SourceTypeOK ==
    /\ next \in Lexeme \cup {EndOfText}
    /\ left \in 0 .. SourceLength
    /\ errors \in 0 .. ErrorCap

(* n calls of increment_number_of_errors *)
Report(n) == errors' = IF errors + n > ErrorCap THEN ErrorCap ELSE errors + n

(* The errors that reading the next lexeme itself reports. *)
Lexical == IF next.bad THEN 1 ELSE 0

(* The position moves behind the lexeme.  A bad string has no closing quote *)
(* and ends the text.                                                       *)
Advance ==
    IF left = 0 \/ next = EndOfText \/ (next.code = "String" /\ next.bad)
    THEN next' = EndOfText /\ left' = 0
    ELSE next' \in Lexeme \cup {EndOfText} /\ left' = left - 1

(* current_lexem(), after which the parser reports n errors of its own. *)
Take(n) == Advance /\ Report(n + Lexical)

(* current_lexem(), n errors of the parser, and back(). *)
GiveBack(n) == UNCHANGED source /\ Report(n + Lexical)
=============================================================================
