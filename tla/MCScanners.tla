----------------------------- MODULE MCScanners -----------------------------
(* Scanners on all short texts over the characters that begin or end        *)
(* something, and on every beginning of a keyword and of the name of a      *)
(* class, cut off or followed by another character.                         *)
EXTENDS Scanners

TextsOver(chars, length) ==
    LET over[n \in 0 .. length] ==
            IF n = 0 THEN {<<>>}
            ELSE over[n - 1] \cup {Append(s, c) : s \in over[n - 1], c \in chars}
    IN  over[length]

MCTexts ==
    TextsOver({"%", "\"", "\n", " ", "c", "{", "7"}, 4)
    \cup TextsOver({"[", "^", "]", ":", "\\", "$", "n", "\n"}, 4)
    \cup {<<"%">> \o p \o Spelled(c) : p \in KeywordPrefixes, c \in {"", "x", "\n"}}
    \cup {<<"[", ":">> \o p \o Spelled(c) : p \in ClassPrefixes, c \in {"", "x", "*"}}
    \cup {Spelled("[^" \o m \o e) : m \in {"^", "^]", "a^", "[:digits:]b", "[:ndq:]", "a[:nsq:]b", "a\n(b"},
                           e \in {"", "^]", "^]c", "\n^]", "^][^b^]"}}
    \cup {Spelled(t) : t \in {"\"a\nb\" c", "a\n{\n[^b^]\n}c", "\"a\"\"b\"", "%%codes\n:\nx",
                              "{$a1 $ }x"}}
=============================================================================
