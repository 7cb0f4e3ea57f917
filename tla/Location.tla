------------------------------ MODULE Location ------------------------------
(***************************************************************************)
(* The text of a description and the position in it (include/location.h),  *)
(* shared by the main scanner and the scanner of regular expressions.  A   *)
(* text is a sequence of characters, which are strings of length one;      *)
(* pos = Len(text) + 1 is its terminating zero.                            *)
(***************************************************************************)
EXTENDS Naturals, Sequences, FiniteSets

CONSTANT Descriptions     \* the texts that are scanned

ASSUME DescriptionsAssumption == Descriptions \subseteq Seq(STRING)

VARIABLES text,     \* the processed text
          pos,      \* Location::pcurrent_char
          line,     \* Location::current_line
          number_of_errors   \* of Error_count

location == <<pos, line, number_of_errors>>

LocationInit ==
    /\ text \in Descriptions
    /\ pos = 1
    /\ line = 1
    /\ number_of_errors = 0

Zero  == ""
Quote == "\""
Char(i) == IF i \in 1 .. Len(text) THEN text[i] ELSE Zero
AtZero == pos = Len(text) + 1

Letters == {"a", "b", "c", "d", "e", "f", "g", "h", "i", "j", "k", "l", "m", "n",
            "o", "p", "q", "r", "s", "t", "u", "v", "w", "x", "y", "z",
            "A", "B", "C", "D", "E", "F", "G", "H", "I", "J", "K", "L", "M", "N",
            "O", "P", "Q", "R", "S", "T", "U", "V", "W", "X", "Y", "Z", "_"}
Digits  == {"0", "1", "2", "3", "4", "5", "6", "7", "8", "9"}
Spaces  == {" ", "\t", "\r", "\n"}

(* The characters of a word that is written as a string *)
Spelled(w) == [i \in 1 .. Len(w) |-> SubSeq(w, i, i)]

(* A pass over a space in start_proc of either scanner. *)
PassSpace ==
    /\ line' = IF Char(pos) = "\n" THEN line + 1 ELSE line
    /\ pos' = pos + 1
    /\ UNCHANGED number_of_errors

MoveTo(p) == pos' = p /\ UNCHANGED <<line, number_of_errors>>
MoveAndReport(p, n) == pos' = p /\ number_of_errors' = number_of_errors + n /\ UNCHANGED line

(* Scaner::back(): to the position where the reading of the last lexeme     *)
(* began, and to the line where the lexeme itself begins.                   *)
BackTo(begin, beginLine) == pos' = begin /\ line' = beginLine /\ UNCHANGED number_of_errors

(* The number of line ends in the positions a .. b *)
LineEnds(a, b) == Cardinality({i \in a .. b : Char(i) = "\n"})

(* The proper beginnings of a set of words, and the words. *)
Beginnings(words) == UNION {{SubSeq(w, 1, n) : n \in 1 .. Len(w)} : w \in words}

(* The words that a beginning may become *)
Extending(p, words) ==
    {w \in words : Len(w) >= Len(p) /\ SubSeq(w, 1, Len(p)) = p}
=============================================================================
