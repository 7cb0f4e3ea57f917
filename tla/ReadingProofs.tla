---------------------------- MODULE ReadingProofs ----------------------------
(***************************************************************************)
(* How a description is read, from its characters to a whole section.      *)
(* First the automaton of the sections %keywords and %delimiters: what it  *)
(* reads without an error begins as documented and names only codes that   *)
(* are defined, and it takes nothing for an error that the documented form *)
(* and the scope allow.  Then the scanners below every parser, for texts   *)
(* of any length: what an automaton has read of a lexeme is what the text  *)
(* says that it is, for either scanner, within the complement of a set and *)
(* whatever was given back before.                                         *)
(***************************************************************************)
EXTENDS KeywordDelimiterParser, ScopeProofs, Scanners, FiniteSetTheorems,
        WellFoundedInduction

(* The beginning of a section, before it is known whether its first string *)
(* is the body of an action or a representation                            *)
Beginning == {"Maybe_repres_str", "Colon_sep0", "Maybe_code_kw_or_del"}

(* How many lexemes p has before its first representation *)
Optional(p) == IF p[3].code = "String" THEN 2 ELSE 0

(* The state after the lexeme r of a representation, code and comma *)
StateAfter(r) ==
    CASE r = 0 -> "Repres_str"
      [] r = 1 -> "Colon_sep"
      [] r = 2 -> "Code_kw_or_del"
      [] r = 3 -> "Kw_del_comma_sep"

(* What has been read is what the state says. *)
ReadSoFar ==
    /\ state = "Maybe_repres_str" => Len(path) = 0
    /\ state = "Colon_sep0" => Len(path) = 1 /\ path[1].code = "String"
    /\ state = "Maybe_code_kw_or_del" =>
          Len(path) = 2 /\ path[1].code = "String" /\ path[2].code = "Colon"
    /\ state \notin Beginning =>
          /\ Len(path) >= 3
          /\ path[3].code \in {"String", "Id"}
          /\ \A j \in 1 .. Len(path) : path[j].code = Letter(Optional(path), j)
          /\ state = StateAfter((Len(path) - Optional(path) - 1) % 4)

(* The strings that are remembered are those of the text. *)
StringsKept ==
    /\ state \in {"Colon_sep0", "Maybe_code_kw_or_del"} => maybe_repres_str_idx = path[1].idx
    /\ state = "Repres_str" => idx = path[Len(path)].idx
    /\ state = "Colon_sep" => idx = path[Len(path) - 1].idx
    /\ postaction = IF Len(path) >= 3 /\ path[3].code = "String" THEN path[1].idx ELSE 0

(* Every identifier that was read is in the scope. *)
CodesDefined == \A j \in 1 .. Len(path) : path[j].code = "Id" => path[j].idx \in DOMAIN idsc

SectionInv ==
    /\ TypeOK
    /\ ~Recording => path = <<>> /\ failed = FALSE
    /\ ~failed /\ Recording => ReadSoFar /\ StringsKept /\ CodesDefined

-----------------------------------------------------------------------------
(* An entry of the table leads to a state of the parser. *)
LEMMA KeywordsTable ==
    ASSUME NEW s \in States
    PROVE  /\ DOMAIN procs[s] = {"String", "Colon", "Id", "Comma"}
           /\ \A c \in DOMAIN procs[s] : procs[s][c].to \in States /\ procs[s][c].errors \in {0, 1}
<1> USE DEF States, procs, Go, Err
<1>1. CASE s = "Maybe_repres_str"
  BY <1>1 DEF maybe_repres_str_proc
<1>2. CASE s = "Colon_sep0"
  BY <1>2 DEF colon_sep0_proc
<1>3. CASE s = "Maybe_code_kw_or_del"
  BY <1>3 DEF maybe_code_kw_or_del_proc
<1>4. CASE s = "Repres_str"
  BY <1>4 DEF repres_str_proc
<1>5. CASE s = "Code_kw_or_del"
  BY <1>5 DEF code_kw_or_del_proc
<1>6. CASE s = "Colon_sep"
  BY <1>6 DEF colon_sep_proc
<1>7. CASE s = "Kw_del_comma_sep"
  BY <1>7 DEF kw_del_comma_sep_proc
<1> QED
  BY <1>1, <1>2, <1>3, <1>4, <1>5, <1>6, <1>7

(* The entries that are not errors are exactly these. *)
Clean(s, c) ==
    \/ s = "Maybe_repres_str" /\ c = "String"
    \/ s = "Colon_sep0" /\ c = "Colon"
    \/ s = "Maybe_code_kw_or_del" /\ c \in {"Id", "String"}
    \/ s = "Repres_str" /\ c = "Colon"
    \/ s = "Colon_sep" /\ c = "Id"
    \/ s = "Code_kw_or_del" /\ c = "Comma"
    \/ s = "Kw_del_comma_sep" /\ c = "String"

(* Clean is the complement of the errors in the table. *)
LEMMA CleanEntries ==
    ASSUME NEW s \in States, NEW c \in DOMAIN procs[s]
    PROVE  /\ procs[s][c].errors = 0 <=> Clean(s, c)
           /\ Clean(s, c) => procs[s][c].to =
                 CASE s = "Maybe_repres_str" -> "Colon_sep0"
                   [] s = "Colon_sep0" -> "Maybe_code_kw_or_del"
                   [] OTHER -> CASE c = "String" -> "Repres_str"
                                 [] c = "Colon" -> "Colon_sep"
                                 [] c = "Id" -> "Code_kw_or_del"
                                 [] c = "Comma" -> "Kw_del_comma_sep"
<1> USE DEF States, procs, Go, Err, Clean
<1>1. CASE s = "Maybe_repres_str"
  BY <1>1 DEF maybe_repres_str_proc
<1>2. CASE s = "Colon_sep0"
  BY <1>2 DEF colon_sep0_proc
<1>3. CASE s = "Maybe_code_kw_or_del"
  BY <1>3 DEF maybe_code_kw_or_del_proc
<1>4. CASE s = "Repres_str"
  BY <1>4 DEF repres_str_proc
<1>5. CASE s = "Code_kw_or_del"
  BY <1>5 DEF code_kw_or_del_proc
<1>6. CASE s = "Colon_sep"
  BY <1>6 DEF colon_sep_proc
<1>7. CASE s = "Kw_del_comma_sep"
  BY <1>7 DEF kw_del_comma_sep_proc
<1> QED
  BY <1>1, <1>2, <1>3, <1>4, <1>5, <1>6, <1>7

(* The letters of the documented form: its beginning, with the optional     *)
(* part and without it, and what repeats after that                         *)
LEMMA FirstLetters ==
    /\ Letter(0, 1) = "String" /\ Letter(0, 2) = "Colon" /\ Letter(0, 3) = "Id"
    /\ Letter(2, 1) = "String" /\ Letter(2, 2) = "Colon" /\ Letter(2, 3) = "String"
BY DEF Letter

(* The letters that repeat, of both forms *)
LEMMA LaterLetters ==
    ASSUME NEW k \in {0, 2}, NEW j \in Nat, j > k
    PROVE  Letter(k, j) = CASE (j - k - 1) % 4 = 0 -> "String"
                            [] (j - k - 1) % 4 = 1 -> "Colon"
                            [] (j - k - 1) % 4 = 2 -> "Id"
                            [] (j - k - 1) % 4 = 3 -> "Comma"
<1> DEFINE r == (j - k - 1) % 4
<1>1. r \in {0, 1, 2, 3}
  OBVIOUS
<1>2. Letter(k, j) = <<"String", "Colon", "Id", "Comma">>[r + 1]
  BY DEF Letter
<1> HIDE DEF r
<1>3. Letter(k, j) = CASE r = 0 -> "String" [] r = 1 -> "Colon" [] r = 2 -> "Id"
                       [] r = 3 -> "Comma"
  BY <1>1, <1>2
<1> QED
  BY <1>3 DEF r

(* What the next lexeme of a representation, a code and a comma is *)
LEMMA NextLetter ==
    ASSUME NEW n \in Nat, NEW k \in {0, 2}, n >= 3,
           NEW s, s = StateAfter((n - k - 1) % 4)
    PROVE  /\ s \in {"Repres_str", "Colon_sep", "Code_kw_or_del", "Kw_del_comma_sep"}
           /\ s = "Repres_str" =>
                 Letter(k, n + 1) = "Colon" /\ StateAfter((n + 1 - k - 1) % 4) = "Colon_sep"
           /\ s = "Colon_sep" =>
                 Letter(k, n + 1) = "Id" /\ StateAfter((n + 1 - k - 1) % 4) = "Code_kw_or_del"
           /\ s = "Code_kw_or_del" =>
                 Letter(k, n + 1) = "Comma" /\ StateAfter((n + 1 - k - 1) % 4) = "Kw_del_comma_sep"
           /\ s = "Kw_del_comma_sep" =>
                 Letter(k, n + 1) = "String" /\ StateAfter((n + 1 - k - 1) % 4) = "Repres_str"
<1> DEFINE r == (n - k - 1) % 4
           m == n + 1
           q == (m - k - 1) % 4
<1>1. r \in {0, 1, 2, 3} /\ q = IF r = 3 THEN 0 ELSE r + 1
  OBVIOUS
<1>2. m \in Nat /\ m > k
  OBVIOUS
<1>3. Letter(k, m) = CASE q = 0 -> "String" [] q = 1 -> "Colon" [] q = 2 -> "Id"
                       [] q = 3 -> "Comma"
  <2> HIDE DEF m, q
  <2>1. Letter(k, m) = CASE (m - k - 1) % 4 = 0 -> "String"
                         [] (m - k - 1) % 4 = 1 -> "Colon"
                         [] (m - k - 1) % 4 = 2 -> "Id"
                         [] (m - k - 1) % 4 = 3 -> "Comma"
    BY <1>2, LaterLetters
  <2> QED
    BY <2>1, Zenon DEF q
<1> HIDE DEF r, q
<1>4. s = StateAfter(r)
  BY DEF r
<1>5. /\ s \in {"Repres_str", "Colon_sep", "Code_kw_or_del", "Kw_del_comma_sep"}
      /\ s = "Repres_str" => Letter(k, n + 1) = "Colon" /\ StateAfter(q) = "Colon_sep"
      /\ s = "Colon_sep" => Letter(k, n + 1) = "Id" /\ StateAfter(q) = "Code_kw_or_del"
      /\ s = "Code_kw_or_del" =>
            Letter(k, n + 1) = "Comma" /\ StateAfter(q) = "Kw_del_comma_sep"
      /\ s = "Kw_del_comma_sep" => Letter(k, n + 1) = "String" /\ StateAfter(q) = "Repres_str"
  BY <1>1, <1>3, <1>4 DEF StateAfter
<1> QED
  BY <1>5 DEF q, m

-----------------------------------------------------------------------------
(* The initial state and the types *)
LEMMA InitInv == Init => SectionInv
<1> SUFFICES ASSUME Init PROVE SectionInv
  OBVIOUS
<1>1. SourceTypeOK
  BY SourceLengthAssumption, ErrorCapAssumption DEF Init, SourceInit, SourceTypeOK
<1>2. HistoryTypeOK /\ Len(path) = 0
  <2>1. <<>> \in Seq(Lexeme) /\ FALSE \in BOOLEAN /\ Len(<<>>) = 0
    OBVIOUS
  <2> QED
    BY <2>1, Zenon DEF Init, HistoryTypeOK
<1>3. TypeOK
  BY <1>1, <1>2, ScopeInitTypes DEF Init, TypeOK, States
<1>4. ReadSoFar /\ StringsKept /\ CodesDefined
  BY <1>2 DEF Init, ReadSoFar, StringsKept, CodesDefined, Beginning
<1> QED
  BY <1>3, <1>4 DEF Init, SectionInv

(* A step of the automaton: what it reads and where it leads *)
LEMMA StepReads ==
    ASSUME TypeOK, Step
    PROVE  /\ state \in States /\ state' \in States /\ running \in Sections
           /\ next.code \in {"String", "Colon", "Id", "Comma"}
           /\ next \in Lexeme /\ next.idx \in Nat
           /\ next.code \in DOMAIN procs[state] /\ state' = procs[state][next.code].to
           /\ procs[state][next.code].errors \in {0, 1}
           /\ \E n \in AddErrors : /\ Take(procs[state][next.code].errors + n)
                                   /\ Record(procs[state][next.code].errors + n)
<1>1. /\ state \in States /\ running \in Sections /\ next.code \in DOMAIN procs[state]
      /\ state' = procs[state][next.code].to
      /\ \E n \in AddErrors : /\ Take(procs[state][next.code].errors + n)
                              /\ Record(procs[state][next.code].errors + n)
  BY DEF Step, TypeOK
<1>2. /\ next.code \in {"String", "Colon", "Id", "Comma"}
      /\ procs[state][next.code].to \in States
      /\ procs[state][next.code].errors \in {0, 1}
  BY <1>1, KeywordsTable
<1>3. next \in Lexeme /\ next.idx \in Nat
  BY <1>2, NextLexeme DEF TypeOK
<1> QED
  BY <1>1, <1>2, <1>3

(* A handler reports no error or one. *)
LEMMA AddErrorsTypes == AddErrors \in {{0}, {1}, {0, 1}}
BY DEF AddErrors, StringErrors

(* Other sections enter codes and actions in the scope, and remove nothing. *)
LEMMA OtherSectionsScope ==
    ASSUME TypeOK, OtherSections
    PROVE  ScopeTypeOK' /\ DOMAIN idsc \subseteq DOMAIN idsc'
<1>1. CASE UNCHANGED scope
  BY <1>1 DEF scope, TypeOK, ScopeTypeOK
<1>2. ASSUME NEW id \in Idents, AddNewLexemCode(id), UNCHANGED strsc
      PROVE  ScopeTypeOK' /\ DOMAIN idsc \subseteq DOMAIN idsc'
  <2>1. id \in Nat
    BY LexemeAssumption DEF Idents
  <2>2. ScopeTypeOK'
    BY <1>2, <2>1, NewCodeKeepsTypes DEF TypeOK
  <2>3. UNCHANGED idsc \/ idsc' = Put(idsc, id, CodeOfLexem(last_code_val_'))
    BY <1>2 DEF AddNewLexemCode
  <2>4. DOMAIN idsc \subseteq DOMAIN idsc'
    BY <2>3 DEF Put
  <2> QED
    BY <2>2, <2>4
<1>3. ASSUME NEW id \in Idents, NEW str \in Strings, AddActionDefinition(id, str),
             UNCHANGED table
      PROVE  ScopeTypeOK' /\ DOMAIN idsc \subseteq DOMAIN idsc'
  <2>1. id \in Nat /\ str \in Nat
    BY LexemeAssumption DEF Idents, Strings
  <2>2. ScopeTypeOK'
    BY <1>3, <2>1, ActionKeepsTypes DEF TypeOK
  <2>3. UNCHANGED idsc \/ idsc' = Put(idsc, id, ActionName(str))
    BY <1>3 DEF AddActionDefinition
  <2>4. DOMAIN idsc \subseteq DOMAIN idsc'
    BY <2>3 DEF Put
  <2> QED
    BY <2>2, <2>4
<1> QED
  BY <1>1, <1>2, <1>3 DEF OtherSections

(* Every step keeps the types. *)
LEMMA TypesKept ==
    ASSUME TypeOK, Next
    PROVE  TypeOK'
<1>1. SourceTypeOK'
  <2>1. CASE Step
    <3>1. PICK n \in AddErrors : Take(procs[state][next.code].errors + n)
      BY <2>1, StepReads
    <3>2. n \in {0, 1}
      BY AddErrorsTypes
    <3>3. procs[state][next.code].errors + n \in Nat
      BY <2>1, <3>2, StepReads
    <3> QED
      BY <3>1, <3>3, ReadingKeepsSource DEF TypeOK
  <2>2. CASE Call \/ Return
    <3>1. Take(0) \/ GiveBack(0)
      BY <2>2 DEF Call, Return
    <3> QED
      BY <3>1, ReadingKeepsSource DEF TypeOK
  <2>3. CASE OtherSections
    <3>1. PICK n \in 0 .. 1 : Take(n)
      BY <2>3 DEF OtherSections
    <3> QED
      BY <3>1, ReadingKeepsSource DEF TypeOK
  <2>4. CASE Finished
    BY <2>4 DEF Finished, kvars, TypeOK, SourceTypeOK
  <2> QED
    BY <2>1, <2>2, <2>3, <2>4 DEF Next, Section
<1>2. ScopeTypeOK'
  BY OtherSectionsScope DEF Next, Section, Call, Step, Return, Finished, kvars, scope,
     ScopeTypeOK, TypeOK
<1>3. /\ running' \in Sections \cup {"main"} /\ state' \in States
      /\ maybe_repres_str_idx' \in Nat /\ idx' \in Nat /\ postaction' \in Nat
  <2>1. CASE Step
    <3>1. NewIdx \in Nat
      BY <2>1, StepReads DEF NewIdx, TypeOK
    <3> QED
      BY <2>1, <3>1, StepReads DEF Step, TypeOK
  <2>2. CASE Call
    BY <2>2 DEF Call, Sections, States
  <2>3. CASE Return \/ OtherSections \/ Finished
    BY <2>3 DEF Return, OtherSections, Finished, kvars, fields, TypeOK
  <2> QED
    BY <2>1, <2>2, <2>3 DEF Next, Section
<1>4. HistoryTypeOK'
  <2>1. CASE Step
    <3>1. \E n : Record(n)
      BY <2>1, StepReads
    <3>2. next \in Lexeme
      BY <2>1, StepReads
    <3>3. (path' = path \/ path' = Append(path, next)) /\ failed' \in BOOLEAN
      BY <3>1, RecordingAssumption DEF Record, TypeOK, HistoryTypeOK
    <3> QED
      BY <3>2, <3>3 DEF TypeOK, HistoryTypeOK
  <2>2. CASE Call
    <3>1. <<>> \in Seq(Lexeme) /\ FALSE \in BOOLEAN
      OBVIOUS
    <3> QED
      BY <2>2, <3>1, Zenon DEF Call, Forget, HistoryTypeOK
  <2>3. CASE Return \/ OtherSections \/ Finished
    BY <2>3 DEF Return, OtherSections, SameHistory, Finished, kvars, history, TypeOK,
       HistoryTypeOK
  <2> QED
    BY <2>1, <2>2, <2>3 DEF Next, Section
<1> QED
  BY <1>1, <1>2, <1>3, <1>4 DEF TypeOK

-----------------------------------------------------------------------------
(* A step without an error reads the next lexeme of the documented form. *)
LEMMA CleanStep ==
    ASSUME SectionInv, Step, Recording, ~failed'
    PROVE  /\ ~failed /\ Clean(state, next.code)
           /\ next.code = "Id" => next.idx \in DOMAIN idsc
           /\ state' = CASE state = "Maybe_repres_str" -> "Colon_sep0"
                         [] state = "Colon_sep0" -> "Maybe_code_kw_or_del"
                         [] OTHER -> CASE next.code = "String" -> "Repres_str"
                                       [] next.code = "Colon" -> "Colon_sep"
                                       [] next.code = "Id" -> "Code_kw_or_del"
                                       [] next.code = "Comma" -> "Kw_del_comma_sep"
           /\ path \in Seq(Lexeme) /\ next \in Lexeme
           /\ Len(path) \in Nat /\ Len(path') = Len(path) + 1
           /\ \A j \in 1 .. Len(path) : path'[j] = path[j]
           /\ path'[Len(path) + 1] = next
<1> DEFINE e == procs[state][next.code].errors
<1>1. /\ state \in States /\ next.code \in DOMAIN procs[state] /\ next \in Lexeme
      /\ state' = procs[state][next.code].to /\ e \in {0, 1}
      /\ \E n \in AddErrors : Record(e + n)
  BY StepReads DEF SectionInv
<1> HIDE DEF e
<1>2. PICK n \in AddErrors : Record(e + n)
  BY <1>1
<1>3. n \in {0, 1}
  BY AddErrorsTypes
<1>4. failed' = (failed \/ e + n > 0) /\ path' = Append(path, next)
  BY <1>2, Zenon DEF Record
<1>5. ~failed /\ ~(e + n > 0)
  BY <1>4, Zenon
<1>6. e = 0 /\ n = 0
  BY <1>1, <1>3, <1>5
<1>7. Clean(state, next.code)
  BY <1>1, <1>6, CleanEntries DEF e
<1>8. state' = CASE state = "Maybe_repres_str" -> "Colon_sep0"
                 [] state = "Colon_sep0" -> "Maybe_code_kw_or_del"
                 [] OTHER -> CASE next.code = "String" -> "Repres_str"
                               [] next.code = "Colon" -> "Colon_sep"
                               [] next.code = "Id" -> "Code_kw_or_del"
                               [] next.code = "Comma" -> "Kw_del_comma_sep"
  BY <1>1, <1>7, CleanEntries
<1>9. next.code = "Id" => next.idx \in DOMAIN idsc
  BY <1>6 DEF AddErrors, StringErrors
<1>10. path \in Seq(Lexeme)
  BY DEF SectionInv, TypeOK, HistoryTypeOK
<1> QED
  BY <1>1, <1>4, <1>5, <1>7, <1>8, <1>9, <1>10

(* A step without an error leaves in the path what the new state says. *)
LEMMA StepReadsOn ==
    ASSUME SectionInv, Step, Recording, ~failed'
    PROVE  ReadSoFar' /\ StringsKept' /\ CodesDefined'
<1>1. /\ ~failed /\ Clean(state, next.code)
      /\ next.code = "Id" => next.idx \in DOMAIN idsc
      /\ path \in Seq(Lexeme) /\ next \in Lexeme
      /\ Len(path) \in Nat /\ Len(path') = Len(path) + 1
      /\ \A j \in 1 .. Len(path) : path'[j] = path[j]
      /\ path'[Len(path) + 1] = next
  BY CleanStep
<1>2. state' = CASE state = "Maybe_repres_str" -> "Colon_sep0"
                [] state = "Colon_sep0" -> "Maybe_code_kw_or_del"
                [] OTHER -> CASE next.code = "String" -> "Repres_str"
                              [] next.code = "Colon" -> "Colon_sep"
                              [] next.code = "Id" -> "Code_kw_or_del"
                              [] next.code = "Comma" -> "Kw_del_comma_sep"
  BY CleanStep
<1>3. ReadSoFar /\ StringsKept /\ CodesDefined /\ state \in States
  BY <1>1 DEF SectionInv, TypeOK
<1>4. /\ maybe_repres_str_idx' = IF state = "Maybe_repres_str" /\ next.code = "String"
                                 THEN next.idx ELSE maybe_repres_str_idx
      /\ postaction' = IF state \in {"Colon_sep0", "Maybe_code_kw_or_del"} /\ next.code = "String"
                       THEN maybe_repres_str_idx ELSE postaction
      /\ idx' = NewIdx /\ idsc' = idsc
  BY DEF Step, scope
<1>5. CodesDefined'
  <2>1. ASSUME NEW j \in 1 .. Len(path'), path'[j].code = "Id"
        PROVE  path'[j].idx \in DOMAIN idsc
    <3>1. CASE j \in 1 .. Len(path)
      BY <1>1, <1>3, <2>1, <3>1 DEF CodesDefined
    <3>2. CASE j = Len(path) + 1
      BY <1>1, <2>1, <3>2
    <3> QED
      BY <1>1, <3>1, <3>2
  <2> QED
    BY <1>4, <2>1 DEF CodesDefined
<1>6. CASE state = "Maybe_repres_str"
  <2>1. next.code = "String" /\ state' = "Colon_sep0" /\ Len(path) = 0
    BY <1>1, <1>2, <1>3, <1>6 DEF Clean, ReadSoFar
  <2>2. Len(path') = 1 /\ path'[1] = next /\ maybe_repres_str_idx' = next.idx /\ postaction' = 0
    BY <1>1, <1>3, <1>4, <1>6, <2>1 DEF StringsKept
  <2> QED
    BY <1>5, <2>1, <2>2 DEF ReadSoFar, StringsKept, Beginning
<1>7. CASE state = "Colon_sep0"
  <2>1. /\ next.code = "Colon" /\ state' = "Maybe_code_kw_or_del"
        /\ Len(path) = 1 /\ path[1].code = "String"
    BY <1>1, <1>2, <1>3, <1>7 DEF Clean, ReadSoFar
  <2>2. /\ Len(path') = 2 /\ path'[1] = path[1] /\ path'[2] = next
        /\ maybe_repres_str_idx' = path[1].idx /\ postaction' = 0
    BY <1>1, <1>3, <1>4, <1>7, <2>1 DEF StringsKept
  <2> QED
    BY <1>5, <2>1, <2>2 DEF ReadSoFar, StringsKept, Beginning
<1>8. CASE state = "Maybe_code_kw_or_del"
  <2>1. /\ next.code \in {"Id", "String"}
        /\ state' = IF next.code = "String" THEN "Repres_str" ELSE "Code_kw_or_del"
        /\ Len(path) = 2 /\ path[1].code = "String" /\ path[2].code = "Colon"
    BY <1>1, <1>2, <1>3, <1>8 DEF Clean, ReadSoFar
  <2>2. /\ Len(path') = 3 /\ path'[1] = path[1] /\ path'[2] = path[2] /\ path'[3] = next
        /\ postaction' = IF next.code = "String" THEN path[1].idx ELSE 0
        /\ next.code = "String" => idx' = next.idx
    BY <1>1, <1>3, <1>4, <1>8, <2>1 DEF StringsKept, NewIdx
  <2>3. Optional(path') = IF next.code = "String" THEN 2 ELSE 0
    BY <2>2 DEF Optional
  <2>4. \A j \in 1 .. Len(path') : path'[j].code = Letter(Optional(path'), j)
    <3>1. \A j \in 1 .. Len(path') : j = 1 \/ j = 2 \/ j = 3
      BY <2>2
    <3> QED
      BY <2>1, <2>2, <2>3, <3>1, FirstLetters
  <2>5. state' = StateAfter((Len(path') - Optional(path') - 1) % 4)
    <3>1. CASE next.code = "String"
      <4>1. (Len(path') - Optional(path') - 1) % 4 = 0
        BY <2>2, <2>3, <3>1
      <4> QED
        BY <2>1, <3>1, <4>1 DEF StateAfter
    <3>2. CASE next.code # "String"
      <4>1. (Len(path') - Optional(path') - 1) % 4 = 2
        BY <2>2, <2>3, <3>2
      <4> QED
        BY <2>1, <3>2, <4>1 DEF StateAfter
    <3> QED
      BY <3>1, <3>2
  <2>6. ReadSoFar'
    BY <2>1, <2>2, <2>4, <2>5 DEF ReadSoFar, Beginning
  <2>7. StringsKept'
    BY <2>1, <2>2 DEF StringsKept
  <2> QED
    BY <1>5, <2>6, <2>7
<1>9. CASE state \notin Beginning
  <2> DEFINE k == Optional(path)
  <2>1. /\ Len(path) >= 3 /\ path[3].code \in {"String", "Id"}
        /\ \A j \in 1 .. Len(path) : path[j].code = Letter(k, j)
        /\ state = StateAfter((Len(path) - k - 1) % 4)
    BY <1>3, <1>9 DEF ReadSoFar
  <2>2. k \in {0, 2} /\ Optional(path') = k /\ path'[3] = path[3] /\ path'[1] = path[1]
    BY <1>1, <2>1 DEF Optional
  <2> HIDE DEF k
  <2>3. /\ next.code = Letter(k, Len(path) + 1)
        /\ state' = StateAfter((Len(path) + 1 - k - 1) % 4)
    <3>1. /\ state \in {"Repres_str", "Colon_sep", "Code_kw_or_del", "Kw_del_comma_sep"}
          /\ state = "Repres_str" =>
                /\ Letter(k, Len(path) + 1) = "Colon"
                /\ StateAfter((Len(path) + 1 - k - 1) % 4) = "Colon_sep"
          /\ state = "Colon_sep" =>
                /\ Letter(k, Len(path) + 1) = "Id"
                /\ StateAfter((Len(path) + 1 - k - 1) % 4) = "Code_kw_or_del"
          /\ state = "Code_kw_or_del" =>
                /\ Letter(k, Len(path) + 1) = "Comma"
                /\ StateAfter((Len(path) + 1 - k - 1) % 4) = "Kw_del_comma_sep"
          /\ state = "Kw_del_comma_sep" =>
                /\ Letter(k, Len(path) + 1) = "String"
                /\ StateAfter((Len(path) + 1 - k - 1) % 4) = "Repres_str"
      BY <1>1, <2>1, <2>2, NextLetter
    <3> QED
      BY <1>1, <1>2, <3>1 DEF Clean
  <2>4. state' \in States \ Beginning
    BY <1>1, <1>2, <1>3, <1>9 DEF Clean, Beginning, States
  <2>5. ReadSoFar'
    <3>1. ASSUME NEW j \in 1 .. Len(path')
          PROVE  path'[j].code = Letter(k, j)
      <4>1. CASE j \in 1 .. Len(path)
        BY <1>1, <2>1, <4>1
      <4>2. CASE j = Len(path) + 1
        BY <1>1, <2>3, <4>2
      <4> QED
        BY <1>1, <4>1, <4>2
    <3>2. Len(path') >= 3 /\ path'[3].code \in {"String", "Id"}
      BY <1>1, <2>1, <2>2
    <3>3. state' = StateAfter((Len(path') - Optional(path') - 1) % 4)
      BY <1>1, <2>2, <2>3
    <3>4. \A j \in 1 .. Len(path') : path'[j].code = Letter(Optional(path'), j)
      BY <2>2, <3>1
    <3> QED
      BY <2>4, <3>2, <3>3, <3>4 DEF ReadSoFar, Beginning
  <2>6. StringsKept'
    <3>1. postaction' = postaction
      BY <1>4, <1>9 DEF Beginning
    <3>2. postaction' = IF Len(path') >= 3 /\ path'[3].code = "String" THEN path'[1].idx ELSE 0
      BY <1>1, <1>3, <2>1, <2>2, <3>1 DEF StringsKept
    <3>3. state' = "Repres_str" => idx' = path'[Len(path')].idx
      <4>1. SUFFICES ASSUME state' = "Repres_str" PROVE idx' = path'[Len(path')].idx
        OBVIOUS
      <4>2. next.code = "String"
        BY <1>1, <1>2, <1>3, <1>9, <4>1 DEF Clean, Beginning
      <4> QED
        BY <1>1, <1>4, <1>9, <4>2 DEF NewIdx, Beginning
    <3>4. state' = "Colon_sep" => idx' = path'[Len(path') - 1].idx
      <4>1. SUFFICES ASSUME state' = "Colon_sep" PROVE idx' = path'[Len(path') - 1].idx
        OBVIOUS
      <4>2. next.code = "Colon" /\ state = "Repres_str"
        BY <1>1, <1>2, <1>3, <1>9, <4>1 DEF Clean, Beginning
      <4>3. idx' = idx /\ idx = path[Len(path)].idx
        BY <1>3, <1>4, <4>2 DEF NewIdx, AtBeginning, StringsKept
      <4>4. Len(path') - 1 = Len(path) /\ path'[Len(path)] = path[Len(path)]
        BY <1>1, <2>1
      <4> QED
        BY <4>3, <4>4
    <3> QED
      BY <2>4, <3>2, <3>3, <3>4 DEF StringsKept, Beginning
  <2> QED
    BY <1>5, <2>5, <2>6
<1> QED
  BY <1>6, <1>7, <1>8, <1>9 DEF Beginning

(* Every step keeps the invariant. *)
LEMMA NextKeepsInv == SectionInv /\ [Next]_kvars => SectionInv'
<1> SUFFICES ASSUME SectionInv, [Next]_kvars PROVE SectionInv'
  OBVIOUS
<1>0. CASE UNCHANGED kvars
  BY <1>0 DEF kvars, fields, history, scope, SectionInv, TypeOK, SourceTypeOK, ScopeTypeOK,
     HistoryTypeOK, ReadSoFar, StringsKept, CodesDefined
<1>1. CASE Next
  <2>1. TypeOK'
    BY <1>1, TypesKept DEF SectionInv
  <2>2. ~Recording => path' = <<>> /\ failed' = FALSE
    <3>1. CASE Step
      <4>1. \E n : Record(n)
        BY <3>1, StepReads DEF SectionInv
      <4> QED
        BY <4>1 DEF SectionInv, Record
    <3>2. CASE Call
      BY <3>2 DEF Call, Forget
    <3>3. CASE Return \/ OtherSections \/ Finished
      BY <3>3 DEF SectionInv, Return, OtherSections, SameHistory, Finished, kvars, history
    <3> QED
      BY <1>1, <3>1, <3>2, <3>3 DEF Next, Section
  <2>3. ~failed' /\ Recording => ReadSoFar' /\ StringsKept' /\ CodesDefined'
    <3> SUFFICES ASSUME ~failed', Recording
                 PROVE  ReadSoFar' /\ StringsKept' /\ CodesDefined'
      OBVIOUS
    <3>1. CASE Step
      BY <3>1, StepReadsOn
    <3>2. CASE Call
      <4>1. Len(path') = 0 /\ state' = "Maybe_repres_str" /\ postaction' = 0
        BY <3>2 DEF Call, Forget
      <4> QED
        BY <4>1 DEF ReadSoFar, StringsKept, CodesDefined, Beginning
    <3>3. CASE Return \/ OtherSections \/ Finished
      <4>1. /\ UNCHANGED <<path, failed, state, maybe_repres_str_idx, idx, postaction>>
            /\ DOMAIN idsc \subseteq DOMAIN idsc'
        BY <3>3, OtherSectionsScope DEF SectionInv, Return, OtherSections, SameHistory,
           Finished, kvars, history, fields, scope
      <4> QED
        BY <4>1 DEF SectionInv, ReadSoFar, StringsKept, CodesDefined
    <3> QED
      BY <1>1, <3>1, <3>2, <3>3 DEF Next, Section
  <2> QED
    BY <2>1, <2>2, <2>3 DEF SectionInv
<1> QED
  BY <1>0, <1>1

(* The strengthening of SectionRight is an invariant: without an error the  *)
(* automaton has read what its state says, and remembers the strings of it. *)
THEOREM SectionInvariant == Spec => []SectionInv
<1>1. Init => SectionInv
  BY InitInv
<1>2. SectionInv /\ [Next]_kvars => SectionInv'
  BY NextKeepsInv
<1> QED
  BY <1>1, <1>2, PTL DEF Spec

(* A section that is parsed without an error begins as documented, its      *)
(* postaction is the string of the optional part, and every lexeme code it  *)
(* names was defined before (compile_ of src/keyword_delimiter_parser.cpp). *)
THEOREM DocumentedSections == Spec => []SectionRight
<1>1. SectionInv => SectionRight
  <2> SUFFICES ASSUME SectionInv, path # <<>>, ~failed
               PROVE  CleanSectionBeginsDocumented
    BY DEF SectionRight, SectionInv, CleanSectionBeginsDocumented, Returned
  <2>1. ReadSoFar /\ StringsKept /\ CodesDefined /\ state \in States /\ path \in Seq(Lexeme)
    BY RecordingAssumption DEF SectionInv, TypeOK, HistoryTypeOK
  <2>2. DOMAIN path = 1 .. Len(path) /\ Len(path) \in Nat
    BY <2>1
  <2>3. BeginsDocumented(path)
    <3>1. CASE state \in Beginning
      <4>1. \A j \in DOMAIN path : path[j].code = Letter(0, j)
        <5>1. \A j \in DOMAIN path : j = 1 \/ j = 2
          BY <2>1, <2>2, <3>1 DEF ReadSoFar, Beginning
        <5> QED
          BY <2>1, <2>2, <3>1, <5>1, FirstLetters DEF ReadSoFar, Beginning
      <4> QED
        BY <4>1 DEF BeginsDocumented
    <3>2. CASE state \notin Beginning
      <4>1. \A j \in DOMAIN path : path[j].code = Letter(Optional(path), j)
        BY <2>1, <2>2, <3>2 DEF ReadSoFar
      <4>2. Optional(path) \in {0, 2}
        BY DEF Optional
      <4> QED
        BY <4>1, <4>2 DEF BeginsDocumented
    <3> QED
      BY <3>1, <3>2
  <2>4. ASSUME NEW l \in Range(path), l.code = "Id"
        PROVE  l.idx \in DOMAIN idsc
    <3>1. PICK j \in DOMAIN path : l = path[j]
      BY DEF Range
    <3> QED
      BY <2>1, <2>2, <2>4, <3>1 DEF CodesDefined
  <2> QED
    BY <2>1, <2>3, <2>4 DEF StringsKept, CleanSectionBeginsDocumented
<1> QED
  BY <1>1, SectionInvariant, PTL

-----------------------------------------------------------------------------
(* A lexeme with which the text still begins as documented has an entry     *)
(* without an error.                                                        *)
LEMMA DocumentedIsClean ==
    ASSUME ReadSoFar, state \in States, path \in Seq(Lexeme), next \in Lexeme,
           BeginsDocumented(Append(path, next))
    PROVE  Clean(state, next.code)
<1> DEFINE a == Append(path, next)
<1>1. /\ Len(path) \in Nat /\ DOMAIN a = 1 .. Len(path) + 1
      /\ \A j \in 1 .. Len(path) : a[j] = path[j]
      /\ a[Len(path) + 1] = next
  OBVIOUS
<1>2. PICK k \in {0, 2} : \A j \in DOMAIN a : a[j].code = Letter(k, j)
  BY DEF BeginsDocumented
<1> HIDE DEF a
<1>3. /\ \A j \in 1 .. Len(path) : path[j].code = Letter(k, j)
      /\ next.code = Letter(k, Len(path) + 1)
  BY <1>1, <1>2
<1>4. CASE state = "Maybe_repres_str"
  <2>1. next.code = Letter(k, 1)
    <3>1. Len(path) + 1 = 1
      BY <1>4 DEF ReadSoFar
    <3> QED
      BY <1>3, <3>1
  <2> QED
    BY <1>4, <2>1, FirstLetters DEF Clean
<1>5. CASE state = "Colon_sep0"
  <2>1. next.code = Letter(k, 2)
    <3>0. Len(path) = 1
      BY <1>5, Zenon DEF ReadSoFar
    <3>1. Len(path) + 1 = 2
      BY <3>0
    <3> QED
      BY <1>3, <3>1
  <2> QED
    BY <1>5, <2>1, FirstLetters DEF Clean
<1>6. CASE state = "Maybe_code_kw_or_del"
  <2>1. next.code = Letter(k, 3)
    <3>0. Len(path) = 2
      BY <1>6, Zenon DEF ReadSoFar
    <3>1. Len(path) + 1 = 3
      BY <3>0
    <3> QED
      BY <1>3, <3>1
  <2> QED
    BY <1>6, <2>1, FirstLetters DEF Clean
<1>7. CASE state \notin Beginning
  <2>1. Len(path) >= 3 /\ state = StateAfter((Len(path) - Optional(path) - 1) % 4)
    BY <1>7 DEF ReadSoFar
  <2>2. path[3].code = Letter(k, 3)
    BY <1>1, <1>3, <2>1
  <2>3. k = Optional(path)
    BY <2>2, FirstLetters DEF Optional
  <2>4. state = StateAfter((Len(path) - k - 1) % 4)
    BY <2>1, <2>3
  <2>5. /\ state \in {"Repres_str", "Colon_sep", "Code_kw_or_del", "Kw_del_comma_sep"}
        /\ state = "Repres_str" => Letter(k, Len(path) + 1) = "Colon"
        /\ state = "Colon_sep" => Letter(k, Len(path) + 1) = "Id"
        /\ state = "Code_kw_or_del" => Letter(k, Len(path) + 1) = "Comma"
        /\ state = "Kw_del_comma_sep" => Letter(k, Len(path) + 1) = "String"
    BY <1>1, <2>1, <2>4, NextLetter
  <2> QED
    BY <1>3, <2>5 DEF Clean
<1> QED
  BY <1>4, <1>5, <1>6, <1>7 DEF Beginning

(* An error is reported only where the text departs from the documented     *)
(* form, or at the code of a representation, when the code is not defined   *)
(* or the string that represents it has another role already.               *)
THEOREM OnlyDeparturesAreErrors == Spec => ErrorsAreDepartures
<1> DEFINE Justified == \/ ~ BeginsDocumented(Append(path, next))
                        \/ /\ next.code = "Id"
                           /\ \/ next.idx \notin DOMAIN idsc
                              \/ path[Len(path) - 1].idx \in DOMAIN strsc
<1>1. ASSUME SectionInv, Next, ~failed, failed'
      PROVE  Justified
  <2>1. Step
    BY <1>1 DEF Next, Section, Call, Forget, Return, OtherSections, SameHistory, Finished,
       kvars, history
  <2> DEFINE e == procs[state][next.code].errors
  <2>2. /\ state \in States /\ next.code \in DOMAIN procs[state] /\ next \in Lexeme
        /\ e \in {0, 1} /\ \E n \in AddErrors : Record(e + n)
    BY <1>1, <2>1, StepReads DEF SectionInv
  <2> HIDE DEF e
  <2>3. PICK n \in AddErrors : Record(e + n)
    BY <2>2
  <2>4. Recording /\ e + n > 0
    <3>1. failed' = (failed \/ (Recording /\ e + n > 0))
      BY <2>3, Zenon DEF Record
    <3> QED
      BY <1>1, <3>1, Zenon
  <2>5. ReadSoFar /\ StringsKept /\ path \in Seq(Lexeme)
    BY <1>1, <2>4 DEF SectionInv, TypeOK, HistoryTypeOK
  <2>6. SUFFICES ASSUME BeginsDocumented(Append(path, next))
                 PROVE  /\ next.code = "Id"
                        /\ \/ next.idx \notin DOMAIN idsc
                           \/ path[Len(path) - 1].idx \in DOMAIN strsc
    BY DEF Justified
  <2>7. Clean(state, next.code)
    BY <2>2, <2>5, <2>6, DocumentedIsClean
  <2>8. e = 0
    BY <2>2, <2>7, CleanEntries DEF e
  <2>9. n = 1
    <3>1. n \in {0, 1}
      BY AddErrorsTypes
    <3> QED
      BY <2>4, <2>8, <3>1
  <2>10. next.code = "Id" /\ StringErrors(NewIdx, next.idx) = 1
    BY <2>3, <2>7, <2>9 DEF AddErrors, Clean
  <2>11. NewIdx = path[Len(path) - 1].idx
    <3>1. state \in {"Maybe_code_kw_or_del", "Colon_sep"}
      BY <2>7, <2>10 DEF Clean
    <3>2. CASE state = "Maybe_code_kw_or_del"
      <4>1. Len(path) - 1 = 1
        BY <2>5, <3>2 DEF ReadSoFar
      <4> QED
        BY <2>5, <2>10, <3>2, <4>1 DEF NewIdx, AtBeginning, StringsKept
    <3>3. CASE state = "Colon_sep"
      BY <2>5, <2>10, <3>3 DEF NewIdx, AtBeginning, StringsKept
    <3> QED
      BY <3>1, <3>2, <3>3
  <2> QED
    BY <2>10, <2>11 DEF StringErrors
<1> HIDE DEF Justified
<1>2. SectionInv /\ [Next]_kvars => [~failed /\ failed' => Justified]_kvars
  BY <1>1
<1> QED
  BY <1>2, SectionInvariant, PTL DEF Spec, ErrorsAreDepartures, Justified

----------------------------------------------------------------------------
(* The beginning of the lexeme that is read from the position p *)
First(p) == RunEnd(p, Spaces)

Places == 1 .. Len(text) + 1

(* The members of the scanners *)
IsMain(m) ==
    /\ m = [automaton |-> m.automaton, state |-> m.state, buffer |-> m.buffer,
            token |-> m.token, begin |-> m.begin, beginLine |-> m.beginLine,
            running |-> m.running, undefined |-> m.undefined]
    /\ m.automaton \in {"A_start", "A_unknown", "A_id", "A_keyword", "A_delimiter", "A_string"}
    /\ m.begin \in Places /\ m.beginLine \in Nat
    /\ m.running \in BOOLEAN /\ m.undefined \in BOOLEAN
IsAux(a) ==
    /\ a = [automaton |-> a.automaton, state |-> a.state, buffer |-> a.buffer,
            token |-> a.token, begin |-> a.begin, beginLine |-> a.beginLine,
            running |-> a.running]
    /\ a.automaton \in {"A_start", "A_action", "A_delimiter", "A_class", "A_char", "A_hat"}
    /\ a.begin \in Places /\ a.beginLine \in Nat
    /\ a.running \in BOOLEAN
IsExpr(e) ==
    /\ e = [state |-> e.state, set |-> e.set, begin |-> e.begin, beginLine |-> e.beginLine,
            token |-> e.token, running |-> e.running]
    /\ e.state \in {"none", "Begin_class_complement", "First_char", "Body_chars"}
    /\ e.begin \in Places /\ e.beginLine \in Nat
    /\ e.running \in BOOLEAN

Types ==
    /\ text \in Seq(STRING) /\ pos \in Places
    /\ line \in Nat /\ number_of_errors \in Nat /\ errorsBefore \in Nat
    /\ miscounted \in BOOLEAN
    /\ last \in {"none", "main", "expr", "back"}
    /\ IsMain(main) /\ IsAux(aux) /\ IsExpr(expr)

Turns ==
    /\ main.running => last = "main"
    /\ expr.running => last = "expr"
    /\ aux.running => expr.running

(* What the automaton of m has read, up to p, of the string that begins at b *)
StringRead(m, p, b) ==
    /\ m.token = Token("String", <<>>)
    /\ m.state \in {<<>>, String_body, End_string}
    /\ m.state = <<>> => p = b /\ m.buffer = <<>>
    /\ m.state # <<>> => b < p /\ m.buffer = StringBody(b)[p - 1]
    /\ m.state = String_body => /\ ~EvenQuotes(b, p - 1)
                                /\ \A k \in b + 1 .. p - 1 : ~Closes(b, k)
    /\ m.state = End_string => /\ b + 1 < p /\ Char(p - 1) = Quote /\ EvenQuotes(b, p - 1)
                               /\ \A k \in b + 1 .. p - 2 : ~Closes(b, k)

KeywordRead(m, p, b) ==
    /\ m.state = <<>> => p = b + 1 /\ m.token = Token("Unknown", <<>>)
    /\ m.state # <<>> => /\ b + 1 < p /\ m.state = SubSeq(text, b + 1, p - 1)
                         /\ m.state \in KeywordPrefixes

(* What the automaton of m has read, up to p, of the lexeme that begins at b *)
MainRead(m, p, b) ==
    /\ m.automaton = "A_start" =>
           /\ m.begin <= p /\ \A k \in m.begin .. p - 1 : Char(k) \in Spaces
           /\ m.token = Token("None", <<>>)
    /\ m.automaton # "A_start" => b <= Len(text) /\ b <= p
    /\ m.automaton = "A_unknown" =>
           /\ Char(b) \in Digits \cup Other /\ b < p
           /\ \A k \in b + 1 .. p - 1 : Char(k) \in Other
           /\ m.token = Token("Unknown", <<>>)
    /\ m.automaton = "A_id" =>
           /\ Char(b) \in Letters /\ b < p
           /\ \A k \in b .. p - 1 : Char(k) \in Letters \cup Digits
           /\ m.token = Token("Id", <<>>) /\ m.buffer = SubSeq(text, b, p - 1)
    /\ m.automaton = "A_delimiter" =>
           Char(b) \in DOMAIN Delimiter /\ p = b /\ m.token = Token("Unknown", <<>>)
    /\ m.automaton = "A_keyword" => Char(b) = "%" /\ KeywordRead(m, p, b)
    /\ m.automaton = "A_string" => Char(b) = Quote /\ StringRead(m, p, b)

MainScanInv ==
    /\ main.running => number_of_errors = errorsBefore /\ MainRead(main, pos, First(main.begin))
    /\ main.undefined => Char(Len(text)) = "%"
    /\ last = "main" /\ ~main.running /\ ~main.undefined =>
           Found(main.token, pos, number_of_errors - errorsBefore) = MainLexeme(main.begin)

(* What the auxiliary scanner a has read, up to p, of the lexeme at b        *)
ActionRead(a, p, b) ==
    /\ Char(b) = "$" /\ a.token = AuxToken("Action", <<>>)
    /\ a.state \in {<<>>, ActionBody}
    /\ a.state = <<>> => p = b + 1
    /\ a.state = ActionBody => b + 1 < p /\ Char(b + 1) \in Letters
    /\ b < p /\ a.buffer = SubSeq(text, b + 1, p - 1)
    /\ \A k \in b + 1 .. p - 1 : Char(k) \in Letters \cup Digits

ClassRead(a, p, b) ==
    /\ Char(b) = "["
    /\ a.state = <<>> => p = b + 1
    /\ a.state = Colon => p = b + 2
    /\ a.state \in {<<>>, Colon} => a.token = AuxToken("Character", <<"[">>)
    /\ a.state # <<>> => Char(b + 1) = ":" /\ b < Len(text)
    /\ a.state \notin {<<>>, Colon} => /\ b + 2 < p /\ a.state = SubSeq(text, b + 2, p - 1)
                                       /\ a.state \in ClassPrefixes

AuxRead(a, p, b) ==
    /\ a.automaton = "A_start" =>
           /\ a.begin <= p /\ \A k \in a.begin .. p - 1 : Char(k) \in Spaces
           /\ a.token = AuxToken("Nothing", <<>>)
    /\ a.automaton # "A_start" => b <= Len(text) /\ b <= p
    /\ a.automaton = "A_delimiter" =>
           /\ Char(b) \in DOMAIN AuxDelimiter /\ p = b
           /\ a.token = AuxToken("UnknownLexem", <<>>)
    /\ a.automaton = "A_char" =>
           Char(b) = "\\" /\ p = b + 1 /\ a.token = AuxToken("Character", <<>>)
    /\ a.automaton = "A_hat" =>
           Char(b) = "^" /\ p = b + 1 /\ a.token = AuxToken("Character", <<"^">>)
    /\ a.automaton = "A_action" => ActionRead(a, p, b)
    /\ a.automaton = "A_class" => ClassRead(a, p, b)

(* The auxiliary scanner a has read a lexeme, the one of the text.           *)
AuxFound(a, p) == a.token = AuxLexeme(a.begin).token /\ p = AuxLexeme(a.begin).end

(* The errors of the lexeme of the auxiliary scanner, when it is read *)
LexemeErrors(a) == IF a.running THEN 0 ELSE AuxLexeme(a.begin).errors

(* What is gathered from a.begin on completes what e has gathered, with n    *)
(* errors until now, since start.                                           *)
Completes(e, a, n, start) ==
    LET m == Members(start)[a.begin]
    IN  Members(start)[start] =
            Gathered(e.set \cup m.set, m.end, n - LexemeErrors(a) + m.errors, m.cut)

InComplement(e, a, n) ==
    LET x == AuxLexeme(e.begin)
    IN  /\ x.token.code = "Begin_char_class_complement"
        /\ e.state = "Begin_class_complement" =>
               a.begin = e.begin /\ e.set = {} /\ n = LexemeErrors(a)
        /\ e.state = "First_char" => a.begin = x.end /\ e.set = {} /\ n = LexemeErrors(a)
        /\ e.state = "Body_chars" => x.end < a.begin /\ Completes(e, a, n, x.end)

(* The scanner of expressions e above a has read up to p, with n errors.     *)
ExprRead(e, a, p, n) ==
    /\ a.running => AuxRead(a, p, First(a.begin))
    /\ e.running /\ ~a.running => AuxFound(a, p)
    /\ e.running /\ e.state = "none" => n = LexemeErrors(a)
    /\ e.running /\ e.state # "none" => InComplement(e, a, n)
    /\ ~e.running => Found(e.token, p, n) = ExprLexeme(e.begin)

ExprScanInv == last = "expr" => ExprRead(expr, aux, pos, number_of_errors - errorsBefore)

(* The line l is that of the position p, and where a lexeme is known, it     *)
(* begins in its line, as long as no line was miscounted.                   *)
LineRight(mis, l, p) == ~mis => l = 1 + LineEnds(1, p - 1)
Begun(mis, p, begin, beginLine) ==
    First(begin) <= p /\ (~mis => BeginsAt(begin, beginLine))
MainPlaced(mis, p, m) ==
    /\ m.automaton # "A_start" => Begun(mis, p, m.begin, m.beginLine)
    /\ m.automaton = "A_start" => m.token.code = "None"
AuxPlaced(mis, p, a) ==
    a.automaton # "A_start" \/ a.token.code # "Nothing" => Begun(mis, p, a.begin, a.beginLine)
ExprPlaced(mis, p, e) ==
    /\ ~e.running /\ e.token.code # "Nothing" => Begun(mis, p, e.begin, e.beginLine)
    /\ e.running /\ e.state # "none" /\ ~mis => BeginsAt(e.begin, e.beginLine)

LinesInv ==
    /\ LineRight(miscounted, line, pos)
    /\ last = "main" => MainPlaced(miscounted, pos, main)
    /\ expr.running => AuxPlaced(miscounted, pos, aux)
    /\ last = "expr" => ExprPlaced(miscounted, pos, expr)

ScannersInv == Types /\ Turns /\ MainScanInv /\ ExprScanInv /\ LinesInv

(* A step of the main scanner takes it to m at p, with n errors.             *)
MainGoes(m, p, n) ==
    /\ IsMain(m) /\ m.begin = main.begin /\ p \in Places /\ pos <= p /\ n \in {0, 1}
    /\ m.running => n = 0 /\ MainRead(m, p, First(m.begin))
    /\ m.undefined => Char(Len(text)) = "%"
    /\ ~m.running /\ ~m.undefined => Found(m.token, p, n) = MainLexeme(m.begin)
    /\ m.automaton = "A_start" => m.token.code = "None"
    /\ m.automaton # "A_start" => First(m.begin) <= p
    /\ m.automaton # "A_start" /\ main.automaton = "A_start" =>
           pos = First(m.begin) /\ m.beginLine = line
    /\ m.automaton # "A_start" /\ main.automaton # "A_start" => m.beginLine = main.beginLine

(* A step of the auxiliary scanner takes it to a at p and line l, with n errors. *)
AuxGoes(a, p, l, n) ==
    /\ IsAux(a) /\ a.begin = aux.begin /\ p \in Places /\ n \in {0, 1}
    /\ p = pos \/ p = pos + 1
    /\ a.running => n = 0 /\ AuxRead(a, p, First(a.begin))
    /\ ~a.running => AuxFound(a, p) /\ n = AuxLexeme(a.begin).errors
    /\ l = line + LineEnds(pos, p - 1)
    /\ a.automaton # "A_start" \/ a.token.code # "Nothing" => First(a.begin) <= p
    /\ (a.automaton # "A_start" \/ a.token.code # "Nothing") /\ aux.automaton = "A_start" =>
           pos = First(a.begin) /\ a.beginLine = line
    /\ aux.automaton # "A_start" => a.automaton # "A_start" /\ a.beginLine = aux.beginLine

(* A set of natural numbers has a least element: induction, for what the    *)
(* recursive functions of this module compute.                              *)
LEMMA LeastNumber ==
    ASSUME NEW S \in SUBSET Nat, NEW n \in S
    PROVE  \E m \in S : \A k \in S : m <= k
<1> DEFINE R == {p \in Nat \X Nat : p[1] < p[2]}
<1>1. IsWellFoundedOn(R, Nat)
  BY NatLessThanWellFounded DEF OpToRel
<1>2. \E x \in S : \A y \in S : ~ (<<y, x>> \in R)
  BY <1>1, WFMin
<1>3. \A x, y \in S : <<y, x>> \notin R => x <= y
  <2> TAKE x, y \in S
  <2>1. <<y, x>> \in Nat \X Nat /\ <<y, x>>[1] = y /\ <<y, x>>[2] = x
    OBVIOUS
  <2>2. x \in Nat /\ y \in Nat
    OBVIOUS
  <2> QED
    BY <2>1, <2>2
<1> QED
  BY <1>2, <1>3, Zenon

(* The first place behind p whose character is not in a set exists.         *)
LEMMA RunEndIs ==
    ASSUME text \in Seq(STRING), NEW p \in Places, NEW S
    PROVE  /\ RunEnd(p, S) \in p .. Len(text) + 1
           /\ \A k \in p .. RunEnd(p, S) - 1 : Char(k) \in S
           /\ RunEnd(p, S) <= Len(text) => Char(RunEnd(p, S)) \notin S
<1> DEFINE Good(q) == /\ \A k \in p .. q - 1 : Char(k) \in S
                      /\ q <= Len(text) => Char(q) \notin S
           Stops == {q \in p .. Len(text) + 1 : q = Len(text) + 1 \/ Char(q) \notin S}
<1>1. Len(text) \in Nat /\ p \in Nat /\ p \in 1 .. Len(text) + 1
  BY DEF Places
<1>2. Stops \in SUBSET Nat /\ Len(text) + 1 \in Stops
  BY <1>1
<1>3. PICK q \in Stops : \A k \in Stops : q <= k
  <2> HIDE DEF Stops
  <2> QED
    BY <1>2, LeastNumber
<1>4. q \in p .. Len(text) + 1 /\ (q <= Len(text) => Char(q) \notin S)
  BY <1>1, <1>3
<1>5. ASSUME NEW k \in p .. q - 1 PROVE Char(k) \in S
  <2>1. k \in p .. Len(text) + 1 /\ k # Len(text) + 1 /\ ~(q <= k)
    BY <1>1, <1>4
  <2> QED
    BY <2>1, <1>3
<1>6. \E x \in p .. Len(text) + 1 : Good(x)
  BY <1>4, <1>5
<1>7. RunEnd(p, S) = CHOOSE x \in p .. Len(text) + 1 : Good(x)
  BY DEF RunEnd
<1> HIDE DEF Good
<1>8. RunEnd(p, S) \in p .. Len(text) + 1 /\ Good(RunEnd(p, S))
  BY <1>6, <1>7
<1> QED
  BY <1>8 DEF Good

(* It is the only such place. *)
LEMMA RunEndUnique ==
    ASSUME text \in Seq(STRING), NEW p \in Places, NEW S, NEW q \in p .. Len(text) + 1,
           \A k \in p .. q - 1 : Char(k) \in S, q <= Len(text) => Char(q) \notin S
    PROVE  RunEnd(p, S) = q
<1> DEFINE r == RunEnd(p, S)
<1>1. /\ r \in p .. Len(text) + 1
      /\ \A k \in p .. r - 1 : Char(k) \in S
      /\ r <= Len(text) => Char(r) \notin S
  BY RunEndIs
<1>2. Len(text) \in Nat /\ p \in Nat
  BY DEF Places
<1> HIDE DEF r
<1>3. r < q => r \in p .. q - 1 /\ r <= Len(text)
  BY <1>1, <1>2
<1>4. q < r => q \in p .. r - 1 /\ q <= Len(text)
  BY <1>1, <1>2
<1>5. r = q
  BY <1>1, <1>2, <1>3, <1>4
<1> QED
  BY <1>5 DEF r

(* Characters of the text, and the zero behind it *)
LEMMA CharType ==
    ASSUME text \in Seq(STRING)
    PROVE  /\ Len(text) \in Nat
           /\ \A k \in 1 .. Len(text) : Char(k) = text[k] /\ Char(k) \in STRING
           /\ Char(Len(text) + 1) = Zero
<1>1. Len(text) \in Nat /\ \A k \in 1 .. Len(text) : text[k] \in STRING
  OBVIOUS
<1>2. \A k \in 1 .. Len(text) : Char(k) = text[k]
  BY DEF Char
<1>3. ~(Len(text) + 1 \in 1 .. Len(text))
  BY <1>1
<1>4. Char(Len(text) + 1) = Zero
  BY <1>3 DEF Char
<1> QED
  BY <1>1, <1>2, <1>4

(* A piece of the text, and the same piece with one character more          *)
LEMMA Piece ==
    ASSUME text \in Seq(STRING), NEW a \in Places, NEW e \in a - 1 .. Len(text)
    PROVE  /\ SubSeq(text, a, e) \in Seq(STRING)
           /\ Len(SubSeq(text, a, e)) = e + 1 - a
           /\ \A k \in 1 .. e + 1 - a : SubSeq(text, a, e)[k] = Char(a + k - 1)
<1>1. /\ Len(text) \in Nat /\ a \in 1 .. Len(text) + 1
      /\ \A k \in 1 .. Len(text) : text[k] \in STRING /\ Char(k) = text[k]
  BY CharType DEF Places
<1>2. SubSeq(text, a, e) = [k \in 1 .. e + 1 - a |-> text[a + k - 1]]
  BY <1>1
<1>3. \A k \in 1 .. e + 1 - a : a + k - 1 \in 1 .. Len(text)
  BY <1>1
<1>4. e + 1 - a \in Nat
  BY <1>1
<1>5. \A k \in 1 .. e + 1 - a : text[a + k - 1] \in STRING /\ Char(a + k - 1) = text[a + k - 1]
  BY <1>1, <1>3
<1> DEFINE f == SubSeq(text, a, e)
           n == e + 1 - a
<1>6. f = [k \in 1 .. n |-> text[a + k - 1]] /\ n \in Nat /\ \A k \in 1 .. n : text[a + k - 1] \in STRING
  BY <1>2, <1>4, <1>5
<1> HIDE DEF f, n
<1>7. f \in Seq(STRING) /\ Len(f) = n /\ \A k \in 1 .. n : f[k] = text[a + k - 1]
  BY <1>6
<1> QED
  BY <1>5, <1>7 DEF f, n

(* One more character makes a piece of the text longer by that character.   *)
LEMMA LongerPiece ==
    ASSUME text \in Seq(STRING), NEW a \in Places, NEW e \in a - 1 .. Len(text), e # Len(text)
    PROVE  SubSeq(text, a, e + 1) = Append(SubSeq(text, a, e), Char(e + 1))
<1>1. Len(text) \in Nat /\ a \in 1 .. Len(text) + 1
  BY CharType DEF Places
<1>2. e + 1 \in a - 1 .. Len(text)
  BY <1>1
<1> DEFINE s == SubSeq(text, a, e)
           tok == SubSeq(text, a, e + 1)
           n == e + 1 - a
<1>3. s \in Seq(STRING) /\ Len(s) = n /\ \A k \in 1 .. n : s[k] = Char(a + k - 1)
  BY Piece
<1>4. tok \in Seq(STRING) /\ Len(tok) = n + 1 /\ \A k \in 1 .. n + 1 : tok[k] = Char(a + k - 1)
  <2>1. e + 1 + 1 - a = n + 1
    BY <1>1
  <2>2. tok \in Seq(STRING) /\ Len(tok) = e + 1 + 1 - a /\ \A k \in 1 .. e + 1 + 1 - a : tok[k] = Char(a + k - 1)
    BY <1>2, Piece
  <2> QED
    BY <2>1, <2>2
<1>5. n \in Nat /\ a + (n + 1) - 1 = e + 1
  BY <1>1
<1> HIDE DEF s, tok, n
<1>6. tok[n + 1] = Char(e + 1)
  BY <1>4, <1>5
<1>7. Char(e + 1) \in STRING
  <2>1. e + 1 \in 1 .. Len(text)
    BY <1>1
  <2> QED
    BY <2>1, CharType
<1>8. tok = Append(s, Char(e + 1))
  <2> DEFINE u == Append(s, Char(e + 1))
  <2>1. u \in Seq(STRING) /\ Len(u) = n + 1 /\ u[n + 1] = Char(e + 1) /\ \A k \in 1 .. n : u[k] = s[k]
    BY <1>3, <1>5, <1>7
  <2> HIDE DEF u
  <2>2. \A k \in 1 .. n + 1 : tok[k] = u[k]
    <3> TAKE k \in 1 .. n + 1
    <3>1. k = n + 1 \/ k \in 1 .. n
      BY <1>5
    <3> QED
      BY <3>1, <2>1, <1>3, <1>4, <1>6
  <2>3. tok = u
    BY <2>1, <2>2, <1>4, SeqEqual
  <2> QED
    BY <2>3 DEF u
<1> QED
  BY <1>8 DEF s, tok

(* An empty piece, and one of a character *)
LEMMA ShortPieces ==
    ASSUME text \in Seq(STRING), NEW a \in Places
    PROVE  /\ SubSeq(text, a, a - 1) = <<>>
           /\ a <= Len(text) => SubSeq(text, a, a) = <<Char(a)>>
<1>1. Len(text) \in Nat /\ a \in 1 .. Len(text) + 1
  BY CharType DEF Places
<1>2. a - 1 \in a - 1 .. Len(text)
  BY <1>1
<1>3. SubSeq(text, a, a - 1) \in Seq(STRING) /\ Len(SubSeq(text, a, a - 1)) = 0
  <2>1. a - 1 + 1 - a = 0
    BY <1>1
  <2> QED
    BY <1>2, <2>1, Piece
<1>4. SubSeq(text, a, a - 1) = <<>>
  BY <1>3, EmptySeq
<1>5. ASSUME a <= Len(text) PROVE SubSeq(text, a, a) = <<Char(a)>>
  <2>1. a - 1 # Len(text) /\ a - 1 + 1 = a
    BY <1>1, <1>5
  <2>2. SubSeq(text, a, a - 1 + 1) = Append(<<>>, Char(a - 1 + 1))
    BY <1>2, <1>4, <2>1, LongerPiece
  <2> QED
    BY <2>1, <2>2
<1> QED
  BY <1>4, <1>5

(* What the text alone defines stays as it is while the text does.            *)
LEMMA TextOnly ==
    ASSUME text' = text
    PROVE  /\ \A k : Char(k)' = Char(k)
           /\ \A p, S : RunEnd(p, S)' = RunEnd(p, S)
           /\ \A p : MainLexeme(p)' = MainLexeme(p)
           /\ \A p : AuxLexeme(p)' = AuxLexeme(p)
           /\ \A p : ExprLexeme(p)' = ExprLexeme(p)
           /\ \A p : StringBody(p)' = StringBody(p)
           /\ \A p : Members(p)' = Members(p)
           /\ \A a, b : LineEnds(a, b)' = LineEnds(a, b)
           /\ \A p : First(p)' = First(p)
           /\ \A m, p, b : MainRead(m, p, b)' = MainRead(m, p, b)
           /\ \A e, a, p, n : ExprRead(e, a, p, n)' = ExprRead(e, a, p, n)
           /\ \A m : IsMain(m)' = IsMain(m)
           /\ \A a : IsAux(a)' = IsAux(a)
           /\ \A e : IsExpr(e)' = IsExpr(e)
           /\ \A b, l : BeginsAt(b, l)' = BeginsAt(b, l)
<1>1. \A k : Char(k)' = Char(k)
  BY DEF Char
<1>2. \A p, S : RunEnd(p, S)' = RunEnd(p, S)
  BY <1>1 DEF RunEnd
<1>3. \A a, b : LineEnds(a, b)' = LineEnds(a, b)
  BY <1>1 DEF LineEnds
<1>4. \A b, i : EvenQuotes(b, i)' = EvenQuotes(b, i)
  BY <1>1 DEF EvenQuotes
<1>5. \A b, i : Closes(b, i)' = Closes(b, i)
  BY <1>1, <1>4 DEF Closes, CharBehind
<1>6. \A p : StringBody(p)' = StringBody(p)
  BY <1>1, <1>4 DEF StringBody
<1>7. \A p, W : LongestAt(p, W)' = LongestAt(p, W)
  BY DEF LongestAt
<1>8. \A p : MainLexeme(p)' = MainLexeme(p)
  <2>1. \A p : StringLexeme(p)' = StringLexeme(p)
    <3> TAKE p
    <3> DEFINE ends == {i \in p + 1 .. Len(text) : Closes(p, i)}
               e == IF ends = {} THEN Len(text) ELSE CHOOSE i \in ends : \A k \in ends : i <= k
    <3>1. StringLexeme(p) = Found(Token("String", StringBody(p)[e]), e + 1, OneIf(ends = {}))
      BY DEF StringLexeme
    <3>2. StringLexeme(p)' = Found(Token("String", (StringBody(p)')[e']), e' + 1, OneIf(ends' = {}))
      BY DEF StringLexeme, Found, Token, OneIf
    <3>3. ends' = ends
      BY <1>5
    <3> HIDE DEF ends
    <3>4. e' = e
      BY <3>3
    <3> HIDE DEF e
    <3> QED
      BY <1>6, <3>1, <3>2, <3>3, <3>4
  <2>2. \A p : KeywordLexeme(p)' = KeywordLexeme(p)
    BY <1>7 DEF KeywordLexeme
  <2> QED
    BY <1>1, <1>2, <2>1, <2>2 DEF MainLexeme
<1>9. \A p : AuxLexeme(p)' = AuxLexeme(p)
  <2>1. \A p : ClassLexeme(p)' = ClassLexeme(p)
    BY <1>1, <1>7 DEF ClassLexeme, CharBehind
  <2>2. \A p : ActionLexeme(p)' = ActionLexeme(p)
    BY <1>1, <1>2 DEF ActionLexeme, CharBehind
  <2> QED
    BY <1>1, <1>2, <2>1, <2>2 DEF AuxLexeme, CharBehind
<1>10. \A p : Members(p)' = Members(p)
  BY <1>9 DEF Members
<1>11. \A p : ExprLexeme(p)' = ExprLexeme(p)
  BY <1>9, <1>10 DEF ExprLexeme
<1>12. \A p : First(p)' = First(p)
  BY <1>2 DEF First
<1>13. \A a, e : SubSeq(text, a, e)' = SubSeq(text, a, e)
  OBVIOUS
<1>14. \A m, p, b : MainRead(m, p, b)' = MainRead(m, p, b)
  <2>1. \A m, p, b : StringRead(m, p, b)' = StringRead(m, p, b)
    <3> TAKE m, p, b
    <3> QED
      BY <1>1, <1>4, <1>5, <1>6, ZenonT(60) DEF StringRead, Token, String_body, End_string
  <2>2. \A m, p, b : KeywordRead(m, p, b)' = KeywordRead(m, p, b)
    BY DEF KeywordRead
  <2> QED
    <3> TAKE m, p, b
    <3> QED
      BY <1>1, <2>1, <2>2, ZenonT(60) DEF MainRead
<1>15. \A a, p, b : AuxRead(a, p, b)' = AuxRead(a, p, b)
  <2>1. \A a, p, b : ActionRead(a, p, b)' = ActionRead(a, p, b)
    BY <1>1 DEF ActionRead
  <2>2. \A a, p, b : ClassRead(a, p, b)' = ClassRead(a, p, b)
    BY <1>1 DEF ClassRead
  <2> QED
    BY <1>1, <2>1, <2>2 DEF AuxRead
<1>16. \A e, a, p, n : ExprRead(e, a, p, n)' = ExprRead(e, a, p, n)
  <2>1. \A a : LexemeErrors(a)' = LexemeErrors(a)
    BY <1>9 DEF LexemeErrors
  <2>2. \A e, a, n, b : Completes(e, a, n, b)' = Completes(e, a, n, b)
    BY <1>10, <2>1 DEF Completes
  <2>3. \A e, a, n : InComplement(e, a, n)' = InComplement(e, a, n)
    BY <1>9, <2>1, <2>2 DEF InComplement
  <2>4. \A a, p : AuxFound(a, p)' = AuxFound(a, p)
    BY <1>9 DEF AuxFound
  <2> QED
    BY <1>11, <1>12, <1>15, <2>1, <2>3, <2>4 DEF ExprRead
<1>17. \A m : IsMain(m)' = IsMain(m)
  BY DEF IsMain, Places
<1>18. \A a : IsAux(a)' = IsAux(a)
  BY DEF IsAux, Places
<1>19. \A e : IsExpr(e)' = IsExpr(e)
  BY DEF IsExpr, Places
<1>20. \A b, l : BeginsAt(b, l)' = BeginsAt(b, l)
  BY <1>2, <1>3 DEF BeginsAt
<1> QED
  BY <1>1, <1>2, <1>3, <1>6, <1>8, <1>9, <1>10, <1>11, <1>12, <1>14, <1>16, <1>17, <1>18, <1>19, <1>20

(* The proper words of a finite set have no empty word and are closed       *)
(* under beginnings.                                                        *)
LEMMA PrefixesClosed ==
    ASSUME NEW S, NEW words \in SUBSET Seq(S), NEW p \in Beginnings(words)
    PROVE  /\ p \in Seq(S) /\ Len(p) >= 1
           /\ \A n \in 1 .. Len(p) : SubSeq(p, 1, n) \in Beginnings(words)
<1>0. PICK w \in words : p \in {SubSeq(w, 1, n) : n \in 1 .. Len(w)}
  BY DEF Beginnings
<1>1. PICK n \in 1 .. Len(w) : p = SubSeq(w, 1, n)
  BY <1>0
<1>2. w \in Seq(S) /\ Len(w) \in Nat /\ n \in Nat /\ n >= 1 /\ n <= Len(w)
  BY <1>1
<1>3. p = [i \in 1 .. n |-> w[i]]
  BY <1>1, <1>2
<1>4. p \in Seq(S) /\ Len(p) = n
  <2>1. \A i \in 1 .. n : w[i] \in S
    BY <1>2
  <2> QED
    BY <1>2, <1>3, <2>1
<1>5. ASSUME NEW m \in 1 .. n PROVE SubSeq(p, 1, m) = SubSeq(w, 1, m) /\ m \in 1 .. Len(w)
  <2>1. m \in 1 .. Len(w) /\ m \in Nat
    BY <1>2
  <2>2. SubSeq(w, 1, m) = [i \in 1 .. m |-> w[i]]
    BY <1>2, <2>1
  <2>3. SubSeq(p, 1, m) = [i \in 1 .. m |-> p[i]]
    BY <1>4, <2>1
  <2>4. \A i \in 1 .. m : i \in 1 .. n /\ p[i] = w[i]
    BY <1>2, <1>3
  <2> QED
    BY <2>1, <2>2, <2>3, <2>4
<1>6. \A m \in 1 .. n : SubSeq(w, 1, m) \in Beginnings(words)
  BY <1>5 DEF Beginnings
<1> QED
  BY <1>2, <1>4, <1>5, <1>6

(* A piece of the text that is a beginning is the longest one at its place  *)
(* if it cannot be continued.                                               *)
LEMMA LongestIs ==
    ASSUME text \in Seq(STRING), NEW S, NEW words \in SUBSET Seq(S),
           NEW a \in Places, NEW q \in a .. Len(text) + 1,
           q # a => SubSeq(text, a, q - 1) \in Beginnings(words),
           q <= Len(text) => SubSeq(text, a, q) \notin Beginnings(words)
    PROVE  LongestAt(a, Beginnings(words)) = SubSeq(text, a, q - 1)
<1> DEFINE W == Beginnings(words)
           lengths == {n \in 1 .. Len(text) + 1 - a : SubSeq(text, a, a + n - 1) \in W}
<1>0. Len(text) \in Nat /\ a \in 1 .. Len(text) + 1
  BY CharType DEF Places
<1>1. Len(text) \in Nat /\ a \in Nat /\ a >= 1 /\ a <= Len(text) + 1 /\ q \in Nat /\ q >= a /\ q <= Len(text) + 1
  BY <1>0
<1>2. ASSUME NEW n \in lengths, NEW m \in 1 .. n PROVE m \in lengths
  <2>1. n \in 1 .. Len(text) + 1 - a /\ SubSeq(text, a, a + n - 1) \in W
    OBVIOUS
  <2>2. n \in Nat /\ m \in Nat /\ m \in 1 .. Len(text) + 1 - a /\ a + n - 1 \in a - 1 .. Len(text)
        /\ a + m - 1 \in a - 1 .. Len(text) /\ a + n - 1 + 1 - a = n /\ a + m - 1 + 1 - a = m
    BY <1>1, <2>1
  <2> DEFINE s == SubSeq(text, a, a + n - 1)
             tok == SubSeq(text, a, a + m - 1)
  <2>3. s \in Seq(STRING) /\ Len(s) = n /\ \A k \in 1 .. n : s[k] = Char(a + k - 1)
    BY <2>2, Piece
  <2>4. tok \in Seq(STRING) /\ Len(tok) = m /\ \A k \in 1 .. m : tok[k] = Char(a + k - 1)
    BY <2>2, Piece
  <2>5. s \in W
    BY <2>1
  <2> HIDE DEF s, tok
  <2>6. SubSeq(s, 1, m) \in W
    <3>1. \A k \in 1 .. Len(s) : SubSeq(s, 1, k) \in Beginnings(words)
      BY <2>5, PrefixesClosed
    <3> QED
      BY <3>1, <2>3
  <2>7. SubSeq(s, 1, m) = tok
    <3>1. SubSeq(s, 1, m) = [i \in 1 .. m |-> s[i]]
      BY <2>2, <2>3
    <3>2. tok = [i \in 1 .. m |-> tok[i]]
      BY <2>4
    <3>3. \A i \in 1 .. m : i \in 1 .. n /\ s[i] = tok[i]
      BY <2>2, <2>3, <2>4
    <3> QED
      BY <3>1, <3>2, <3>3
  <2>8. tok \in W
    BY <2>6, <2>7
  <2> QED
    BY <2>2, <2>8 DEF tok
<1>3. q # a => q - a \in lengths
  <2>1. a + (q - a) - 1 = q - 1
    BY <1>1
  <2>2. q # a => q - a \in 1 .. Len(text) + 1 - a
    BY <1>1
  <2> QED
    BY <2>1, <2>2
<1>4. ~(q - a + 1 \in lengths)
  <2>1. a + (q - a + 1) - 1 = q
    BY <1>1
  <2>2. q - a + 1 \in 1 .. Len(text) + 1 - a => q <= Len(text)
    BY <1>1
  <2> QED
    BY <2>1, <2>2
<1>5. \A m \in lengths : m \in Nat /\ m >= 1 /\ m <= q - a
  <2> TAKE m \in lengths
  <2>1. m \in Nat /\ m >= 1
    BY <1>1
  <2> HIDE DEF lengths
  <2>2. ~(m >= q - a + 1)
    <3>1. m >= q - a + 1 => q - a + 1 \in 1 .. m
      BY <2>1, <1>1
    <3> QED
      BY <3>1, <1>2, <1>4
  <2> QED
    BY <2>1, <2>2, <1>1
<1>6. LongestAt(a, W) = IF lengths = {} THEN <<>>
        ELSE SubSeq(text, a, a - 1 + CHOOSE n \in lengths : \A m \in lengths : m <= n)
  BY DEF LongestAt
<1>7. CASE q = a
  <2>1. lengths = {}
    <3> HIDE DEF lengths
    <3> QED
      BY <1>5, <1>7, <1>1
  <2>2. SubSeq(text, a, q - 1) = <<>>
    BY <1>7, ShortPieces
  <2> QED
    BY <1>6, <2>1, <2>2
<1>8. CASE q # a
  <2> HIDE DEF lengths
  <2> DEFINE n == CHOOSE n \in lengths : \A m \in lengths : m <= n
  <2>1. \E x \in lengths : \A m \in lengths : m <= x
    BY <1>3, <1>5, <1>8
  <2>2. n \in lengths /\ \A m \in lengths : m <= n
    BY <2>1
  <2> HIDE DEF n
  <2>3. n = q - a
    BY <2>2, <1>3, <1>5, <1>8, <1>1
  <2>4. a - 1 + n = q - 1
    BY <2>3, <1>1
  <2>5. LongestAt(a, W) = SubSeq(text, a, a - 1 + n)
    BY <1>6, <1>3, <1>8 DEF n
  <2> QED
    BY <2>4, <2>5
<1> QED
  BY <1>7, <1>8

(* The words of the keywords and of the classes are sequences. *)
LEMMA SpelledType ==
    ASSUME NEW w, Len(w) \in Nat, \A i \in 1 .. Len(w) : SubSeq(w, i, i) \in Letters
    PROVE  /\ Spelled(w) \in Seq(Letters) /\ Len(Spelled(w)) = Len(w)
<1> DEFINE n == Len(w)
           f == Spelled(w)
<1>1. f = [i \in 1 .. n |-> SubSeq(w, i, i)]
  BY DEF Spelled
<1>2. \A i \in 1 .. n : f[i] \in Letters
  BY <1>1
<1>3. n \in Nat
  OBVIOUS
<1>4. DOMAIN f = 1 .. n /\ f = [i \in 1 .. n |-> f[i]]
  BY <1>1
<1> HIDE DEF f, n
<1>5. f \in Seq(Letters) /\ Len(f) = n
  BY <1>2, <1>3, <1>4
<1> QED
  BY <1>5 DEF f, n

(* Keywords are sequences of letters.                                       *)
LEMMA KeywordType == Keyword \in SUBSET Seq(Letters)
<1>1. ASSUME NEW w \in KeywordNames PROVE Spelled(w) \in Seq(Letters)
  BY KeywordAssumption, SpelledType
<1> QED
  BY <1>1 DEF Keyword

(* No word of a class has the end of a line. *)
LEMMA ClassType ==
    /\ ClassWord \in SUBSET Seq(Letters \cup {":", "]"})
    /\ \A p \in ClassPrefixes : \A i \in 1 .. Len(p) : p[i] # "\n"
<1> DEFINE S == Letters \cup {":", "]"}
           end == <<":", "]">>
<1>1. end \in Seq(S)
  <2>1. ":" \in S /\ "]" \in S
    OBVIOUS
  <2> HIDE DEF S
  <2> QED
    BY <2>1
<1>2. Letters \subseteq S /\ "\n" \notin S
  BY DEF Letters
<1> HIDE DEF S, end
<1>3. ASSUME NEW w \in ClassNames PROVE Spelled(w) \o end \in Seq(S)
  <2>1. Spelled(w) \in Seq(Letters)
    BY ClassAssumption, SpelledType
  <2>2. Spelled(w) \in Seq(S)
    BY <2>1, <1>2, SeqMonotonic
  <2> QED
    BY <2>2, <1>1, ConcatProperties
<1>4. ClassWord \in SUBSET Seq(S)
  BY <1>3 DEF ClassWord, end
<1>5. ASSUME NEW p \in ClassPrefixes, NEW i \in 1 .. Len(p) PROVE p[i] # "\n"
  <2>1. p \in Seq(S)
    BY <1>4, PrefixesClosed DEF ClassPrefixes
  <2>2. p[i] \in S
    BY <2>1
  <2> QED
    BY <2>2, <1>2
<1> QED
  BY <1>4, <1>5 DEF S

(* The sets of characters that the automata tell apart are disjoint.        *)
LEMMA CharacterKinds ==
    /\ DOMAIN Delimiter = {",", ":", "{", "}"}
    /\ \A c \in Letters : c \notin Spaces /\ c \notin DOMAIN Delimiter /\ c # "%" /\ c # Quote /\ c # Zero
    /\ \A c \in Digits \cup Other : c \notin Spaces /\ c \notin DOMAIN Delimiter /\ c \notin Letters
                                    /\ c # "%" /\ c # Quote
    /\ \A c \in DOMAIN Delimiter : c \notin Spaces /\ c # "%" /\ c # Quote /\ c \notin Letters
    /\ "%" \notin Spaces /\ Quote \notin Spaces /\ "%" # Quote /\ Quote # Zero
<1>1. DOMAIN Delimiter = {",", ":", "{", "}"}
  BY DEF Delimiter
<1>2. ASSUME NEW c \in Letters
      PROVE  c \notin Spaces /\ c \notin DOMAIN Delimiter /\ c # "%" /\ c # Quote /\ c # Zero /\ c \notin Digits
  <2>1. c \notin Spaces
    BY ZenonT(60) DEF Letters, Spaces
  <2>2. c \notin DOMAIN Delimiter
    BY <1>1, ZenonT(60) DEF Letters
  <2>3. c # "%" /\ c # Quote /\ c # Zero
    BY ZenonT(60) DEF Letters, Quote, Zero
  <2>4. c \notin Digits
    BY ZenonT(60) DEF Letters, Digits
  <2> QED
    BY <2>1, <2>2, <2>3, <2>4
<1>3. ASSUME NEW c \in Digits
      PROVE  c \notin Spaces /\ c \notin DOMAIN Delimiter /\ c # "%" /\ c # Quote
  <2>1. c \notin Spaces
    BY ZenonT(60) DEF Digits, Spaces
  <2>2. c \notin DOMAIN Delimiter
    BY <1>1, ZenonT(60) DEF Digits
  <2>3. c # "%" /\ c # Quote
    BY ZenonT(60) DEF Digits, Quote
  <2> QED
    BY <2>1, <2>2, <2>3
<1>4. \A c \in Other : c \notin Spaces /\ c \notin DOMAIN Delimiter /\ c # "%" /\ c # Quote /\ c \notin Letters
  BY DEF Other
<1>5. ASSUME NEW c \in DOMAIN Delimiter PROVE c \notin Spaces /\ c # "%" /\ c # Quote
  <2>1. c \notin Spaces
    BY <1>1, ZenonT(60) DEF Spaces
  <2>2. c # "%" /\ c # Quote
    BY <1>1, ZenonT(60) DEF Quote
  <2> QED
    BY <2>1, <2>2
<1>6. "%" \notin Spaces /\ Quote \notin Spaces /\ "%" # Quote /\ Quote # Zero
  BY ZenonT(60) DEF Spaces, Quote, Zero
<1> QED
  BY <1>1, <1>2, <1>3, <1>4, <1>5, <1>6, Zenon

(* The number of quotation marks becomes odd or even with each of them.     *)
LEMMA QuoteParity ==
    ASSUME text \in Seq(STRING), NEW b \in 1 .. Len(text), NEW i \in b .. Len(text)
    PROVE  /\ Char(b) = Quote => ~EvenQuotes(b, b)
           /\ i < Len(text) => (EvenQuotes(b, i + 1) <=> IF Char(i + 1) = Quote
                                                         THEN ~EvenQuotes(b, i) ELSE EvenQuotes(b, i))
<1> DEFINE Quotes(e) == {k \in b .. e : Char(k) = Quote}
<1>0. Len(text) \in Nat
  BY CharType
<1>1. Len(text) \in Nat /\ b \in Nat /\ i \in Nat /\ b >= 1 /\ i >= b /\ i <= Len(text)
  BY <1>0
<1>2. IsFiniteSet(Quotes(i)) /\ Cardinality(Quotes(i)) \in Nat
  <2>1. IsFiniteSet(b .. i)
    BY <1>1, FS_Interval
  <2>2. Quotes(i) \subseteq b .. i
    OBVIOUS
  <2> HIDE DEF Quotes
  <2>3. IsFiniteSet(Quotes(i))
    BY <2>1, <2>2, FS_Subset
  <2> QED
    BY <2>3, FS_CardinalityType
<1>3. i + 1 \notin Quotes(i)
  BY <1>1
<1>4. Quotes(i + 1) = IF Char(i + 1) = Quote THEN Quotes(i) \cup {i + 1} ELSE Quotes(i)
  BY <1>1
<1>5. Char(b) = Quote => Quotes(b) = {b}
  BY <1>1
<1>6. \A e : EvenQuotes(b, e) <=> Cardinality(Quotes(e)) % 2 = 0
  BY DEF EvenQuotes
<1> HIDE DEF Quotes
<1>7. Cardinality({b}) = 1
  BY FS_Singleton
<1>8. Cardinality(Quotes(i) \cup {i + 1}) = Cardinality(Quotes(i)) + 1
  BY <1>2, <1>3, FS_AddElement
<1>9. Char(b) = Quote => ~EvenQuotes(b, b)
  <2>1. Char(b) = Quote => Cardinality(Quotes(b)) = 1
    BY <1>5, <1>7
  <2>2. EvenQuotes(b, b) <=> Cardinality(Quotes(b)) % 2 = 0
    BY <1>6
  <2>3. ~(1 % 2 = 0)
    OBVIOUS
  <2> QED
    BY <2>1, <2>2, <2>3
<1>10. EvenQuotes(b, i + 1) <=> IF Char(i + 1) = Quote THEN ~EvenQuotes(b, i) ELSE EvenQuotes(b, i)
  <2>1. CASE Char(i + 1) = Quote
    <3>1. Cardinality(Quotes(i + 1)) = Cardinality(Quotes(i)) + 1
      BY <1>4, <1>8, <2>1
    <3>2. (Cardinality(Quotes(i)) + 1) % 2 = 0 <=> ~(Cardinality(Quotes(i)) % 2 = 0)
      BY <1>2
    <3>3. EvenQuotes(b, i) <=> Cardinality(Quotes(i)) % 2 = 0
      BY <1>6
    <3>4. EvenQuotes(b, i + 1) <=> Cardinality(Quotes(i + 1)) % 2 = 0
      BY <1>6
    <3> QED
      BY <2>1, <3>1, <3>2, <3>3, <3>4
  <2>2. CASE Char(i + 1) # Quote
    BY <2>2, <1>4, <1>6
  <2> QED
    BY <2>1, <2>2
<1> QED
  BY <1>9, <1>10

(* What a string has is computed character by character.                    *)
LEMMA StringBodyIs ==
    ASSUME text \in Seq(STRING), NEW b \in 1 .. Len(text), NEW i \in b .. Len(text)
    PROVE  StringBody(b)[i] = IF i = b THEN <<>>
               ELSE IF Char(i) = Quote /\ EvenQuotes(b, i) THEN StringBody(b)[i - 1]
               ELSE Append(StringBody(b)[i - 1], Char(i))
<1> DEFINE size == Len(text)
           Turn(f, k) == IF k = b THEN <<>>
                         ELSE IF Char(k) = Quote /\ EvenQuotes(b, k) THEN f[k - 1]
                         ELSE Append(f[k - 1], Char(k))
           Def(f, l) == f = [k \in b .. l |-> Turn(f, k)]
           Bad == {l \in b .. size : ~ \E f : Def(f, l)}
<1>0. size \in Nat
  BY CharType
<1>1. size \in Nat /\ b \in Nat /\ b >= 1 /\ b <= size
  BY <1>0
<1>2. ASSUME NEW w \in Bad PROVE FALSE
  <2>1. PICK l \in Bad : \A j \in Bad : l <= j
    <3>1. Bad \in SUBSET Nat
      BY <1>1
    <3> HIDE DEF Bad
    <3> QED
      BY <3>1, <1>2, LeastNumber
  <2>2. l \in b .. size /\ l \in Nat
    BY <2>1, <1>1
  <2>3. CASE l = b
    <3> DEFINE f == [k \in b .. b |-> <<>>]
    <3>1. f = [k \in b .. b |-> Turn(f, k)]
      <4>1. \A k \in b .. b : k = b
        BY <1>1
      <4> QED
        BY <4>1
    <3> QED
      BY <3>1, <2>1, <2>3
  <2>4. CASE l # b
    <3>1. l - 1 \in b .. size /\ l - 1 \notin Bad
      <4>1. l - 1 \in b .. size /\ ~(l <= l - 1)
        BY <2>2, <2>4, <1>1
      <4> HIDE DEF Bad
      <4> QED
        BY <4>1, <2>1
    <3>2. PICK g : Def(g, l - 1)
      BY <3>1
    <3> DEFINE f == [k \in b .. l |-> IF k = l THEN Turn(g, l) ELSE g[k]]
    <3>3. DOMAIN f = b .. l /\ \A k \in b .. l : f[k] = IF k = l THEN Turn(g, l) ELSE g[k]
      OBVIOUS
    <3>4. f = [k \in b .. l |-> f[k]]
      OBVIOUS
    <3> HIDE DEF f
    <3>5. \A k \in b .. l - 1 : g[k] = Turn(g, k)
      BY <3>2
    <3>6. ASSUME NEW k \in b .. l PROVE f[k] = Turn(f, k)
      <4>1. k # b => k - 1 \in b .. l /\ k - 1 # l
        BY <1>1, <2>2
      <4>2. k # b => f[k - 1] = g[k - 1]
        BY <4>1, <3>3
      <4>3. Turn(f, k) = Turn(g, k)
        BY <4>2
      <4>4. k # l => k \in b .. l - 1
        BY <1>1, <2>2
      <4> HIDE DEF Turn
      <4> QED
        BY <4>3, <4>4, <3>3, <3>5
    <3>7. f = [k \in b .. l |-> Turn(f, k)]
      <4> HIDE DEF Turn
      <4> QED
        BY <3>4, <3>6
    <3> QED
      BY <3>7, <2>1
  <2> QED
    BY <2>3, <2>4
<1>3. size \notin Bad /\ size \in b .. size
  <2>1. size \in b .. size
    BY <1>1
  <2>2. size \notin Bad
    <3> HIDE DEF Bad
    <3> QED
      BY <1>2
  <2> QED
    BY <2>1, <2>2
<1>4. \E f : Def(f, size)
  BY <1>3
<1> DEFINE body == CHOOSE f : Def(f, size)
<1>5. StringBody(b) = body
  BY DEF StringBody
<1> HIDE DEF Turn
<1>6. body = [k \in b .. size |-> Turn(body, k)]
  BY <1>4
<1> HIDE DEF body
<1>7. body[i] = Turn(body, i)
  BY <1>6
<1> QED
  BY <1>5, <1>7 DEF Turn

(* Where the lexeme begins, and what it is by its first character           *)
LEMMA FirstIs ==
    ASSUME text \in Seq(STRING), NEW p \in Places, NEW q \in Places, p <= q,
           \A k \in p .. q - 1 : Char(k) \in Spaces, q <= Len(text) => Char(q) \notin Spaces
    PROVE  First(p) = q
<1>1. Len(text) \in Nat /\ p \in 1 .. Len(text) + 1 /\ q \in 1 .. Len(text) + 1
  BY CharType DEF Places
<1>2. q \in p .. Len(text) + 1
  BY <1>1
<1> QED
  BY <1>2, RunEndUnique DEF First

(* What a lexeme is, by the character that it begins with                   *)
LEMMA MainLexemeIs ==
    ASSUME NEW p, NEW b, b = First(p)
    PROVE  /\ b > Len(text) => MainLexeme(p) = Found(Token("None", <<>>), b, 0)
           /\ ~(b > Len(text)) =>
              /\ Char(b) = "%" => MainLexeme(p) = KeywordLexeme(b)
              /\ Char(b) = Quote => MainLexeme(p) = StringLexeme(b)
              /\ Char(b) \in Letters =>
                 MainLexeme(p) = Found(Token("Id", SubSeq(text, b, RunEnd(b, Letters \cup Digits) - 1)),
                                       RunEnd(b, Letters \cup Digits), 0)
              /\ Char(b) \in DOMAIN Delimiter =>
                 MainLexeme(p) = Found(Token(Delimiter[Char(b)], <<>>), b + 1, 0)
              /\ Char(b) \in Digits \cup Other =>
                 MainLexeme(p) = Found(Token("Unknown", <<>>), RunEnd(b + 1, Other), 0)
BY CharacterKinds DEF MainLexeme, First

(* What holds while the main scanner reads                                  *)
MainTurn ==
    /\ Types /\ main.running /\ MainRead(main, pos, First(main.begin))
    /\ main.undefined => Char(Len(text)) = "%"

(* What the steps of the main scanner need of MainTurn                      *)
LEMMA TurnFacts ==
    ASSUME MainTurn
    PROVE  /\ text \in Seq(STRING) /\ Len(text) \in Nat /\ pos \in Nat /\ pos \in Places
           /\ pos >= 1 /\ pos <= Len(text) + 1 /\ main.begin \in Places
           /\ (~AtZero => pos <= Len(text) /\ pos + 1 \in Places) /\ (AtZero => pos = Len(text) + 1)
           /\ number_of_errors \in Nat /\ line \in Nat /\ IsMain(main) /\ main.running
           /\ pos <= pos /\ pos <= pos + 1 /\ 0 \in {0, 1} /\ 1 \in {0, 1}
           /\ number_of_errors - number_of_errors = 0 /\ number_of_errors + 1 - number_of_errors = 1
           /\ number_of_errors + 0 = number_of_errors
<1>1. text \in Seq(STRING) /\ Len(text) \in Nat /\ pos \in 1 .. Len(text) + 1
  BY CharType DEF MainTurn, Types, Places
<1>2. IsMain(main) /\ number_of_errors \in Nat /\ line \in Nat /\ main.running
  BY DEF MainTurn, Types
<1>3. pos \in Nat /\ pos >= 1 /\ pos <= Len(text) + 1
  BY <1>1
<1>4. ~AtZero => pos <= Len(text) /\ pos + 1 \in 1 .. Len(text) + 1
  BY <1>1, <1>3 DEF AtZero
<1> QED
  BY <1>1, <1>2, <1>3, <1>4 DEF AtZero, Places, IsMain

(* Over a space, the scanner goes on. *)
LEMMA StartSpaceGoes ==
    ASSUME MainTurn, start_space
    PROVE  MainGoes(main', pos', number_of_errors' - number_of_errors)
<1>1. /\ main' = [main EXCEPT !.state = <<>>] /\ pos' = pos + 1
      /\ number_of_errors' = number_of_errors /\ main.automaton = "A_start" /\ ~AtZero
      /\ Char(pos) \in Spaces
  BY DEF start_space, Become, PassSpace, In
<1>2. /\ text \in Seq(STRING) /\ Len(text) \in Nat /\ pos \in Nat /\ pos <= Len(text)
      /\ pos + 1 \in Places /\ number_of_errors' - number_of_errors = 0 /\ IsMain(main)
      /\ main.begin \in Nat
  BY <1>1, TurnFacts DEF Places
<1>3. IsMain(main') /\ main'.begin = main.begin /\ main'.automaton = "A_start" /\ main'.token = main.token
      /\ main'.undefined = main.undefined /\ main'.running
  BY <1>1, <1>2, TurnFacts DEF IsMain
<1>4. main.begin <= pos /\ (\A k \in main.begin .. pos - 1 : Char(k) \in Spaces)
      /\ main.token = Token("None", <<>>)
  BY <1>1 DEF MainTurn, MainRead
<1>5. \A k \in main.begin .. (pos + 1) - 1 : Char(k) \in Spaces
  <2> TAKE k \in main.begin .. (pos + 1) - 1
  <2>1. k = pos \/ k \in main.begin .. pos - 1
    BY <1>2
  <2> QED
    BY <2>1, <1>1, <1>4
<1>6. MainRead(main', pos + 1, First(main'.begin))
  BY <1>2, <1>3, <1>4, <1>5 DEF MainRead
<1> QED
  BY <1>1, <1>2, <1>3, <1>4, <1>6 DEF MainGoes, MainTurn, Token

(* Where the spaces end, the lexeme begins: that of the text, or none.      *)
LEMMA StartFacts ==
    ASSUME MainTurn, main.automaton = "A_start", ~AtZero => Char(pos) \notin Spaces
    PROVE  First(main.begin) = pos /\ main.token = Token("None", <<>>)
<1>1. main.begin <= pos /\ (\A k \in main.begin .. pos - 1 : Char(k) \in Spaces)
      /\ main.token = Token("None", <<>>)
  BY DEF MainTurn, MainRead
<1>2. text \in Seq(STRING) /\ main.begin \in Places /\ pos \in Places /\ (pos <= Len(text) => ~AtZero)
  BY TurnFacts
<1> QED
  BY <1>1, <1>2, FirstIs

(* A step from the beginning to an automaton *)
LEMMA EnterGoes ==
    ASSUME MainTurn, main.automaton = "A_start", First(main.begin) = pos, NEW m, NEW p,
           IsMain(m), m.begin = main.begin, m.running, m.undefined = main.undefined,
           m.automaton # "A_start", m.beginLine = line, p \in {pos, pos + 1}, p \in Places,
           MainRead(m, p, pos)
    PROVE  MainGoes(m, p, 0)
<1>1. pos \in Nat /\ pos <= p
  BY TurnFacts
<1> QED
  BY <1>1 DEF MainGoes, MainTurn

(* The members behind GoMain                                                    *)
LEMMA GoMainIs ==
    ASSUME IsMain(main), line \in Nat, NEW code, NEW buffer, NEW a, main' = GoMain(a, code, buffer),
           a \in {"A_unknown", "A_id", "A_keyword", "A_delimiter", "A_string"}
    PROVE  /\ IsMain(main') /\ main'.begin = main.begin /\ main'.running = main.running
           /\ main'.undefined = main.undefined /\ main'.automaton = a /\ a # "A_start"
           /\ main'.beginLine = line /\ main'.state = <<>> /\ main'.token = Token(code, <<>>)
           /\ main'.buffer = buffer
<1>1. main' = [automaton |-> a, state |-> <<>>, buffer |-> buffer, token |-> Token(code, <<>>),
           begin |-> main.begin, beginLine |-> line, running |-> main.running,
           undefined |-> main.undefined]
  BY DEF GoMain, IsMain
<1>2. main.begin \in Places /\ main.running \in BOOLEAN /\ main.undefined \in BOOLEAN
  BY DEF IsMain
<1>3. main'.begin = main.begin /\ main'.running = main.running
           /\ main'.undefined = main.undefined /\ main'.automaton = a /\ a # "A_start"
           /\ main'.beginLine = line /\ main'.state = <<>> /\ main'.token = Token(code, <<>>)
           /\ main'.buffer = buffer
  BY <1>1
<1>4. main' = [automaton |-> main'.automaton, state |-> main'.state, buffer |-> main'.buffer,
            token |-> main'.token, begin |-> main'.begin, beginLine |-> main'.beginLine,
            running |-> main'.running, undefined |-> main'.undefined]
  BY <1>1, <1>3
<1> QED
  BY <1>2, <1>3, <1>4 DEF IsMain

(* What an identifier that is being read is                                  *)
LEMMA ReadId ==
    ASSUME NEW m, NEW b, NEW p, m.automaton = "A_id", Char(b) \in Letters, m.token = Token("Id", <<>>),
           m.buffer = SubSeq(text, b, p - 1), b < p, b <= p, b <= Len(text),
           \A k \in b .. p - 1 : Char(k) \in Letters \cup Digits
    PROVE  MainRead(m, p, b)
BY DEF MainRead

(* start_proc hands the first character to the automaton of its kind.       *)
LEMMA StartGoes ==
    ASSUME MainTurn, start_proc
    PROVE  MainGoes(main', pos', number_of_errors' - number_of_errors)
<1> DEFINE c == Char(pos)
<1>1. main.automaton = "A_start" /\ ~AtZero /\ c \notin Spaces /\ main.running
  BY DEF start_proc, In
<1>2. First(main.begin) = pos
  BY <1>1, StartFacts
<1>3. /\ text \in Seq(STRING) /\ Len(text) \in Nat /\ pos \in Nat /\ pos <= Len(text) /\ pos >= 1
      /\ pos + 1 \in Places /\ IsMain(main) /\ pos \in Places /\ line \in Nat
      /\ number_of_errors - number_of_errors = 0
  BY <1>1, TurnFacts
<1>5. CASE c = "%"
  <2>1. main' = GoMain("A_keyword", "Unknown", main.buffer) /\ pos' = pos + 1 /\ number_of_errors' = number_of_errors
    BY <1>5, CharacterKinds DEF start_proc, Become, MoveTo
  <2>2. /\ IsMain(main') /\ main'.begin = main.begin /\ main'.running /\ main'.undefined = main.undefined
        /\ main'.automaton = "A_keyword" /\ main'.beginLine = line /\ main'.state = <<>>
        /\ main'.token = Token("Unknown", <<>>)
    BY <1>1, <1>3, <2>1, GoMainIs
  <2>3. MainRead(main', pos + 1, pos)
    BY <1>3, <1>5, <2>2 DEF MainRead, KeywordRead
  <2> QED
    BY <1>1, <1>2, <1>3, <2>1, <2>2, <2>3, EnterGoes
<1>6. CASE c \in Letters
  <2>1. main' = GoMain("A_id", "Id", <<c>>) /\ pos' = pos + 1 /\ number_of_errors' = number_of_errors
    BY <1>6, CharacterKinds DEF start_proc, Become, MoveTo
  <2>2. /\ IsMain(main') /\ main'.begin = main.begin /\ main'.running /\ main'.undefined = main.undefined
        /\ main'.automaton = "A_id" /\ main'.beginLine = line
        /\ main'.token = Token("Id", <<>>) /\ main'.buffer = <<c>>
    BY <1>1, <1>3, <2>1, GoMainIs
  <2>3. SubSeq(text, pos, (pos + 1) - 1) = <<c>>
    <3>1. SubSeq(text, pos, pos) = <<c>> /\ (pos + 1) - 1 = pos
      BY <1>3, ShortPieces
    <3> QED
      BY <3>1
  <2>4. (\A k \in pos .. (pos + 1) - 1 : k = pos) /\ pos < pos + 1 /\ pos <= pos + 1
    BY <1>3
  <2>5. MainRead(main', pos + 1, pos)
    <3>1. \A k \in pos .. (pos + 1) - 1 : Char(k) \in Letters \cup Digits
      BY <2>4, <1>6
    <3>2. Char(pos) \in Letters /\ main'.token = Token("Id", <<>>)
          /\ main'.buffer = SubSeq(text, pos, (pos + 1) - 1) /\ main'.automaton = "A_id"
          /\ pos < pos + 1 /\ pos <= pos + 1 /\ pos <= Len(text)
      BY <1>3, <1>6, <2>2, <2>3, <2>4
    <3> HIDE DEF c
    <3> QED
      BY <3>1, <3>2, ReadId
  <2> QED
    BY <1>1, <1>2, <1>3, <2>1, <2>2, <2>5, EnterGoes
<1>7. CASE c \in DOMAIN Delimiter
  <2>1. main' = GoMain("A_delimiter", "Unknown", main.buffer) /\ pos' = pos /\ number_of_errors' = number_of_errors
    BY <1>7, CharacterKinds DEF start_proc, Become, MoveTo
  <2>2. /\ IsMain(main') /\ main'.begin = main.begin /\ main'.running /\ main'.undefined = main.undefined
        /\ main'.automaton = "A_delimiter" /\ main'.beginLine = line
        /\ main'.token = Token("Unknown", <<>>)
    BY <1>1, <1>3, <2>1, GoMainIs
  <2>3. MainRead(main', pos, pos)
    BY <1>3, <1>7, <2>2 DEF MainRead
  <2> QED
    BY <1>1, <1>2, <1>3, <2>1, <2>2, <2>3, EnterGoes
<1>8. CASE c = Quote
  <2>1. main' = GoMain("A_string", "String", <<>>) /\ pos' = pos /\ number_of_errors' = number_of_errors
    BY <1>8, CharacterKinds DEF start_proc, Become, MoveTo
  <2>2. /\ IsMain(main') /\ main'.begin = main.begin /\ main'.running /\ main'.undefined = main.undefined
        /\ main'.automaton = "A_string" /\ main'.beginLine = line /\ main'.state = <<>>
        /\ main'.token = Token("String", <<>>) /\ main'.buffer = <<>>
    BY <1>1, <1>3, <2>1, GoMainIs
  <2>3. MainRead(main', pos, pos)
    BY <1>3, <1>8, <2>2 DEF MainRead, StringRead, String_body, End_string
  <2> QED
    BY <1>1, <1>2, <1>3, <2>1, <2>2, <2>3, EnterGoes
<1>9. CASE c \in Digits \cup Other
  <2>1. main' = GoMain("A_unknown", "Unknown", main.buffer) /\ pos' = pos + 1 /\ number_of_errors' = number_of_errors
    BY <1>9, CharacterKinds DEF start_proc, Become, MoveTo
  <2>2. /\ IsMain(main') /\ main'.begin = main.begin /\ main'.running /\ main'.undefined = main.undefined
        /\ main'.automaton = "A_unknown" /\ main'.beginLine = line
        /\ main'.token = Token("Unknown", <<>>)
    BY <1>1, <1>3, <2>1, GoMainIs
  <2>3. MainRead(main', pos + 1, pos)
    BY <1>3, <1>9, <2>2 DEF MainRead
  <2> QED
    BY <1>1, <1>2, <1>3, <2>1, <2>2, <2>3, EnterGoes
<1>10. c = "%" \/ c \in Letters \/ c \in DOMAIN Delimiter \/ c = Quote \/ c \in Digits \cup Other
  BY DEF start_proc
<1> QED
  BY <1>5, <1>6, <1>7, <1>8, <1>9, <1>10

(* A step that ends a lexeme: its token, its place and its errors           *)
LEMMA ReturnGoes ==
    ASSUME MainTurn, NEW m, NEW p, NEW n \in {0, 1}, IsMain(m), ~m.running,
           m.begin = main.begin, m.automaton = main.automaton, m.beginLine = main.beginLine,
           p \in {pos, pos + 1}, p \in Places, m.undefined => Char(Len(text)) = "%",
           main.automaton = "A_start" => m.token.code = "None",
           ~m.undefined => Found(m.token, p, n) = MainLexeme(main.begin)
    PROVE  MainGoes(m, p, n)
<1>1. pos \in Nat /\ pos <= p /\ p \in Nat
  BY TurnFacts
<1>2. main.automaton # "A_start" => First(main.begin) <= pos
  BY DEF MainTurn, MainRead
<1>3. First(main.begin) \in Nat
  <2>1. text \in Seq(STRING) /\ main.begin \in Places /\ Len(text) \in Nat
    BY TurnFacts
  <2>2. First(main.begin) \in main.begin .. Len(text) + 1
    BY <2>1, RunEndIs DEF First
  <2>3. main.begin \in Nat
    BY <2>1 DEF Places
  <2> QED
    BY <2>1, <2>2, <2>3
<1>4. main.automaton # "A_start" => First(m.begin) <= p
  BY <1>1, <1>2, <1>3
<1> QED
  BY <1>1, <1>4 DEF MainGoes

(* The members of the main scanner when it returns                          *)
LEMMA ReturnMainIs ==
    ASSUME NEW r, NEW p, IsMain(r), ReturnMain(r, p)
    PROVE  /\ IsMain(main') /\ ~main'.running /\ main'.begin = r.begin
           /\ main'.automaton = r.automaton /\ main'.beginLine = r.beginLine
           /\ main'.undefined = r.undefined
           /\ main'.token = Token(r.token.code, IF r.token.code \in {"Id", "String"}
                                                THEN r.buffer ELSE r.token.value)
           /\ pos' = p
           /\ number_of_errors' = number_of_errors
                 + (IF r.automaton = "A_keyword" /\ r.token.likely THEN 1 ELSE 0)
BY DEF ReturnMain, IsMain, MoveAndReport

(* A step within a lexeme                                                   *)
LEMMA WithinGoes ==
    ASSUME MainTurn, main.automaton # "A_start", ~AtZero, NEW m, NEW p, p = pos + 1,
           IsMain(m), m.begin = main.begin, m.running, m.undefined = main.undefined,
           m.automaton = main.automaton, m.beginLine = main.beginLine,
           MainRead(m, p, First(main.begin))
    PROVE  MainGoes(m, p, 0)
<1>1. pos \in Nat /\ pos <= p /\ p \in Places
  BY TurnFacts
<1>2. First(main.begin) <= p
  BY DEF MainRead
<1> QED
  BY <1>1, <1>2 DEF MainGoes, MainTurn

(* Where the lexeme that is being read begins                               *)
LEMMA WithinFacts ==
    ASSUME MainTurn, main.automaton # "A_start", NEW b, b = First(main.begin)
    PROVE  /\ b \in Nat /\ b >= 1 /\ b <= Len(text) /\ b <= pos /\ b \in Places
           /\ b + 1 \in Places /\ b \in 1 .. Len(text) /\ ~(b > Len(text))
<1>1. text \in Seq(STRING) /\ main.begin \in Places /\ Len(text) \in Nat
  BY TurnFacts
<1>2. b \in main.begin .. Len(text) + 1
  BY <1>1, RunEndIs DEF First
<1>3. main.begin \in 1 .. Len(text) + 1
  BY <1>1 DEF Places
<1>4. b <= Len(text) /\ b <= pos
  BY DEF MainTurn, MainRead
<1>5. b \in Nat /\ b >= 1 /\ b \in 1 .. Len(text) + 1 /\ b + 1 \in 1 .. Len(text) + 1
      /\ b \in 1 .. Len(text) /\ ~(b > Len(text))
  BY <1>1, <1>2, <1>3, <1>4
<1> QED
  BY <1>4, <1>5 DEF Places

(* An unknown lexeme ends before the next character that may begin another. *)
LEMMA UnknownReturns ==
    ASSUME MainTurn, main.automaton = "A_unknown", ReturnMain(main, pos),
           pos <= Len(text) => Char(pos) \notin Other
    PROVE  MainGoes(main', pos', number_of_errors' - number_of_errors)
<1> DEFINE b == First(main.begin)
<1>1. main.automaton = "A_unknown" /\ main.running
  BY DEF MainTurn
<1>2. /\ Char(b) \in Digits \cup Other /\ b < pos
      /\ \A k \in b + 1 .. pos - 1 : Char(k) \in Other
      /\ main.token = Token("Unknown", <<>>)
  BY <1>1 DEF MainTurn, MainRead
<1>3. /\ text \in Seq(STRING) /\ Len(text) \in Nat /\ pos \in Nat /\ pos <= Len(text) + 1 /\ pos >= 1
      /\ IsMain(main) /\ pos \in Places /\ number_of_errors \in Nat
  BY <1>1, TurnFacts
<1>4. b \in Nat /\ b >= 1 /\ b <= Len(text) /\ b + 1 \in Places /\ ~(b > Len(text))
  BY <1>1, WithinFacts
<1>12. /\ IsMain(main') /\ ~main'.running /\ main'.begin = main.begin
      /\ main'.automaton = main.automaton /\ main'.beginLine = main.beginLine
      /\ main'.undefined = main.undefined /\ main'.token = Token("Unknown", <<>>)
      /\ pos' = pos /\ number_of_errors' = number_of_errors + 0
  BY <1>1, <1>2, <1>3, ReturnMainIs DEF Token
<1>13. RunEnd(b + 1, Other) = pos
  <2>1. pos \in b + 1 .. Len(text) + 1
    BY <1>2, <1>3, <1>4
  <2> HIDE DEF b
  <2> QED
    BY <1>2, <1>3, <1>4, <2>1, RunEndUnique
<1>14. MainLexeme(main.begin) = Found(Token("Unknown", <<>>), pos, 0)
  <2> HIDE DEF b
  <2>1. MainLexeme(main.begin) = Found(Token("Unknown", <<>>), RunEnd(b + 1, Other), 0)
    BY <1>2, <1>4, MainLexemeIs DEF b
  <2> QED
    BY <2>1, <1>13
<1>15. number_of_errors' - number_of_errors = 0
  BY <1>12, <1>3
<1> QED
  BY <1>1, <1>3, <1>12, <1>14, <1>15, ReturnGoes DEF MainTurn

(* unknown_proc                                                             *)
LEMMA UnknownGoes ==
    ASSUME MainTurn, unknown_proc
    PROVE  MainGoes(main', pos', number_of_errors' - number_of_errors)
<1> DEFINE b == First(main.begin)
<1>1. main.automaton = "A_unknown" /\ ~AtZero /\ main.running
  BY DEF unknown_proc, In
<1>2. /\ Char(b) \in Digits \cup Other /\ b < pos
      /\ \A k \in b + 1 .. pos - 1 : Char(k) \in Other
      /\ main.token = Token("Unknown", <<>>)
  BY <1>1 DEF MainTurn, MainRead
<1>3. /\ text \in Seq(STRING) /\ Len(text) \in Nat /\ pos \in Nat /\ pos <= Len(text) /\ pos >= 1
      /\ pos + 1 \in Places /\ IsMain(main) /\ pos \in Places /\ number_of_errors \in Nat
  BY <1>1, TurnFacts
<1>4. b \in Nat /\ b >= 1 /\ b <= Len(text) /\ b + 1 \in Places /\ ~(b > Len(text))
  BY <1>1, WithinFacts
<1>5. CASE Char(pos) \in Other
  <2>1. main' = main /\ pos' = pos + 1 /\ number_of_errors' = number_of_errors
    BY <1>5 DEF unknown_proc, Become, MoveTo
  <2>2. PICK p : p = pos + 1
    OBVIOUS
  <2>3. b < p /\ b <= p /\ \A k \in b + 1 .. p - 1 : k = pos \/ k \in b + 1 .. pos - 1
    BY <1>2, <1>3, <1>4, <2>2
  <2>4. \A k \in b + 1 .. p - 1 : Char(k) \in Other
    BY <1>2, <1>5, <2>3
  <2> HIDE DEF b
  <2>5. MainRead(main, p, b)
    BY <1>1, <1>2, <1>4, <2>3, <2>4 DEF MainRead
  <2>6. MainGoes(main, p, 0)
    BY <1>1, <1>3, <2>2, <2>5, WithinGoes DEF b
  <2>7. number_of_errors' - number_of_errors = 0
    BY <2>1, <1>3
  <2> QED
    BY <2>1, <2>2, <2>6, <2>7
<1>6. CASE Char(pos) \notin Other
  BY <1>1, <1>6, UnknownReturns DEF unknown_proc
<1> QED
  BY <1>5, <1>6

(* An identifier ends behind its last letter or digit.                      *)
LEMMA IdReturns ==
    ASSUME MainTurn, main.automaton = "A_id", ReturnMain(main, pos),
           pos <= Len(text) => Char(pos) \notin Letters \cup Digits
    PROVE  MainGoes(main', pos', number_of_errors' - number_of_errors)
<1> DEFINE b == First(main.begin)
           S == Letters \cup Digits
<1>1. main.automaton = "A_id" /\ main.running
  BY DEF MainTurn
<1>2. /\ Char(b) \in Letters /\ b < pos
      /\ \A k \in b .. pos - 1 : Char(k) \in S
      /\ main.token = Token("Id", <<>>) /\ main.buffer = SubSeq(text, b, pos - 1)
  BY <1>1 DEF MainTurn, MainRead
<1>3. /\ text \in Seq(STRING) /\ Len(text) \in Nat /\ pos \in Nat /\ pos <= Len(text) + 1 /\ pos >= 1
      /\ IsMain(main) /\ pos \in Places /\ number_of_errors \in Nat
      /\ (pos <= Len(text) => Char(pos) \notin S)
  BY <1>1, TurnFacts
<1>4. b \in Nat /\ b >= 1 /\ b <= Len(text) /\ b \in Places /\ ~(b > Len(text))
  BY <1>1, WithinFacts
<1>12. /\ IsMain(main') /\ ~main'.running /\ main'.begin = main.begin
      /\ main'.automaton = main.automaton /\ main'.beginLine = main.beginLine
      /\ main'.undefined = main.undefined /\ main'.token = Token("Id", main.buffer)
      /\ pos' = pos /\ number_of_errors' = number_of_errors + 0
  <2>1. main.token.code = "Id" /\ "Id" \in {"Id", "String"} /\ main.automaton # "A_keyword"
    BY <1>1, <1>2 DEF Token
  <2> HIDE DEF b, S
  <2> QED
    BY <1>3, <2>1, ReturnMainIs
<1>13. RunEnd(b, S) = pos
  <2>1. pos \in b .. Len(text) + 1
    BY <1>2, <1>3, <1>4
  <2> HIDE DEF b, S
  <2> QED
    BY <1>2, <1>3, <1>4, <2>1, RunEndUnique
<1>14. MainLexeme(main.begin) = Found(Token("Id", main.buffer), pos, 0)
  <2> HIDE DEF b
  <2>1. MainLexeme(main.begin) = Found(Token("Id", SubSeq(text, b, RunEnd(b, S) - 1)), RunEnd(b, S), 0)
    BY <1>2, <1>4, MainLexemeIs DEF b
  <2> QED
    BY <2>1, <1>13, <1>2
<1>15. number_of_errors' - number_of_errors = 0
  BY <1>12, <1>3
<1> QED
  BY <1>1, <1>3, <1>12, <1>14, <1>15, ReturnGoes DEF MainTurn

(* id_proc                                                                  *)
LEMMA IdGoes ==
    ASSUME MainTurn, id_proc
    PROVE  MainGoes(main', pos', number_of_errors' - number_of_errors)
<1> DEFINE b == First(main.begin)
           S == Letters \cup Digits
<1>1. main.automaton = "A_id" /\ ~AtZero /\ main.running
  BY DEF id_proc, In
<1>2. /\ Char(b) \in Letters /\ b < pos
      /\ \A k \in b .. pos - 1 : Char(k) \in S
      /\ main.token = Token("Id", <<>>) /\ main.buffer = SubSeq(text, b, pos - 1)
  BY <1>1 DEF MainTurn, MainRead
<1>3. /\ text \in Seq(STRING) /\ Len(text) \in Nat /\ pos \in Nat /\ pos <= Len(text) /\ pos >= 1
      /\ pos + 1 \in Places /\ IsMain(main) /\ pos \in Places /\ number_of_errors \in Nat
  BY <1>1, TurnFacts
<1>4. b \in Nat /\ b >= 1 /\ b <= Len(text) /\ b \in Places /\ ~(b > Len(text))
  BY <1>1, WithinFacts
<1>5. CASE Char(pos) \in S
  <2>1. main' = [main EXCEPT !.buffer = Append(@, Char(pos))] /\ pos' = pos + 1
        /\ number_of_errors' = number_of_errors
    BY <1>5 DEF id_proc, Become, MoveTo
  <2>2. /\ IsMain(main') /\ main'.begin = main.begin /\ main'.running /\ main'.undefined = main.undefined
        /\ main'.automaton = "A_id" /\ main'.beginLine = main.beginLine
        /\ main'.token = Token("Id", <<>>) /\ main'.buffer = Append(main.buffer, Char(pos))
    BY <1>1, <1>2, <1>3, <2>1 DEF IsMain
  <2>3. PICK p : p = pos + 1
    OBVIOUS
  <2>4. b < p /\ b <= p /\ p - 1 = pos /\ \A k \in b .. p - 1 : k = pos \/ k \in b .. pos - 1
    BY <1>2, <1>3, <1>4, <2>3
  <2>5. \A k \in b .. p - 1 : Char(k) \in S
    BY <1>2, <1>5, <2>4
  <2>6. main'.buffer = SubSeq(text, b, p - 1)
    <3>1. pos - 1 \in b - 1 .. Len(text) /\ pos - 1 # Len(text) /\ (pos - 1) + 1 = pos
      BY <1>2, <1>3, <1>4
    <3> HIDE DEF b
    <3>2. SubSeq(text, b, (pos - 1) + 1) = Append(SubSeq(text, b, pos - 1), Char((pos - 1) + 1))
      BY <1>3, <1>4, <3>1, LongerPiece
    <3> QED
      BY <3>1, <3>2, <2>2, <2>4, <1>2
  <2> HIDE DEF b
  <2>7. MainRead(main', p, b)
    BY <1>2, <1>4, <2>2, <2>4, <2>5, <2>6, ReadId
  <2>8. MainGoes(main', p, 0)
    BY <1>1, <1>3, <2>2, <2>3, <2>7, WithinGoes DEF b
  <2>9. number_of_errors' - number_of_errors = 0
    BY <2>1, <1>3
  <2> QED
    BY <2>1, <2>3, <2>8, <2>9
<1>6. CASE Char(pos) \notin S
  BY <1>1, <1>6, IdReturns DEF id_proc
<1> QED
  BY <1>5, <1>6

(* delimiter_proc                                                           *)
LEMMA DelimiterGoes ==
    ASSUME MainTurn, delimiter_proc
    PROVE  MainGoes(main', pos', number_of_errors' - number_of_errors)
<1> DEFINE b == First(main.begin)
           r == [main EXCEPT !.token = Token(Delimiter[Char(pos)], <<>>)]
<1>1. main.automaton = "A_delimiter" /\ ~AtZero /\ main.running /\ ReturnMain(r, pos + 1)
  BY DEF delimiter_proc, In
<1>2. Char(b) \in DOMAIN Delimiter /\ pos = b
  BY <1>1 DEF MainTurn, MainRead
<1>3. /\ text \in Seq(STRING) /\ Len(text) \in Nat /\ pos \in Nat /\ pos <= Len(text) /\ pos >= 1
      /\ pos + 1 \in Places /\ IsMain(main) /\ pos \in Places /\ number_of_errors \in Nat
  BY <1>1, TurnFacts
<1>4. ~(b > Len(text))
  BY <1>1, WithinFacts
<1>5. Delimiter[Char(b)] \notin {"Id", "String"}
  BY <1>2 DEF Delimiter
<1>6. /\ IsMain(r) /\ r.begin = main.begin /\ r.automaton = main.automaton
      /\ r.beginLine = main.beginLine /\ r.undefined = main.undefined
      /\ r.token = Token(Delimiter[Char(pos)], <<>>)
  BY <1>3 DEF IsMain
<1> HIDE DEF r, b
<1>7. /\ IsMain(main') /\ ~main'.running /\ main'.begin = main.begin
      /\ main'.automaton = main.automaton /\ main'.beginLine = main.beginLine
      /\ main'.undefined = main.undefined /\ main'.token = Token(Delimiter[Char(b)], <<>>)
      /\ pos' = pos + 1 /\ number_of_errors' = number_of_errors + 0
  BY <1>1, <1>2, <1>5, <1>6, ReturnMainIs DEF Token
<1>8. MainLexeme(main.begin) = Found(Token(Delimiter[Char(b)], <<>>), pos + 1, 0)
  BY <1>2, <1>4, MainLexemeIs DEF b
<1>9. number_of_errors' - number_of_errors = 0
  BY <1>7, <1>3
<1> QED
  BY <1>1, <1>3, <1>7, <1>8, <1>9, ReturnGoes DEF MainTurn

(* The keyword that a beginning at the position b + 1 is taken for, if the  *)
(* text cannot continue it                                                  *)
LEMMA KeywordLexemeIs ==
    ASSUME text \in Seq(STRING), NEW b \in 1 .. Len(text), NEW q \in b + 1 .. Len(text) + 1,
           NEW p, p = SubSeq(text, b + 1, q - 1),
           q # b + 1 => p \in KeywordPrefixes,
           q <= Len(text) => SubSeq(text, b + 1, q) \notin KeywordPrefixes
    PROVE  /\ q = b + 1 => KeywordLexeme(b) = Found(Token("Unknown", <<>>), q, 1)
           /\ q # b + 1 => KeywordLexeme(b) =
                  Found(Token("Kw", KeywordCode(p).value), q, IF KeywordCode(p).likely THEN 1 ELSE 0)
<1>1. Len(text) \in Nat
  BY CharType
<1>2. b \in Nat /\ q \in Nat /\ b + 1 \in Places /\ q - 1 \in (b + 1) - 1 .. Len(text)
      /\ (q - 1) + 1 - (b + 1) = q - (b + 1) /\ (q # b + 1 => q - (b + 1) >= 1)
      /\ q = (b + 1) + (q - (b + 1))
  BY <1>1 DEF Places
<1>3. LongestAt(b + 1, KeywordPrefixes) = p
  BY <1>2, KeywordType, LongestIs DEF KeywordPrefixes
<1>4. Len(p) = q - (b + 1)
  BY <1>2, Piece
<1>5. CASE q = b + 1
  <2>1. p = <<>>
    <3>1. q - 1 = (b + 1) - 1
      BY <1>2, <1>5
    <3> QED
      BY <1>2, <3>1, ShortPieces
  <2> QED
    BY <1>3, <1>5, <2>1 DEF KeywordLexeme
<1>6. CASE q # b + 1
  <2>1. p # <<>>
    <3>1. Len(p) >= 1
      BY <1>2, <1>4, <1>6
    <3> QED
      BY <3>1
  <2>2. b + 1 + Len(p) = q
    BY <1>2, <1>4
  <2>3. KeywordCode(p).value = (IF p \in Keyword THEN p ELSE MostLikely(p))
        /\ KeywordCode(p).likely = (p \notin Keyword)
    BY DEF KeywordCode, Token, LikelyToken
  <2>4. KeywordLexeme(b) = Found(Token("Kw", IF p \in Keyword THEN p ELSE MostLikely(p)),
                                 b + 1 + Len(p), OneIf(p \notin Keyword))
    BY <1>3, <2>1 DEF KeywordLexeme
  <2> QED
    BY <1>6, <2>2, <2>3, <2>4 DEF OneIf
<1> QED
  BY <1>5, <1>6

(* What is known of a keyword that is being read                            *)
LEMMA KeywordFacts ==
    ASSUME MainTurn, main.automaton = "A_keyword", NEW b, b = First(main.begin)
    PROVE  /\ Char(b) = "%" /\ KeywordRead(main, pos, b) /\ b \in 1 .. Len(text) /\ b \in Nat
           /\ b + 1 \in Places /\ pos \in b + 1 .. Len(text) + 1
           /\ text \in Seq(STRING) /\ Len(text) \in Nat /\ IsMain(main) /\ main.running
           /\ pos \in Nat /\ pos \in Places /\ number_of_errors \in Nat
           /\ (pos - 1) + 1 = pos /\ pos - 1 \in (b + 1) - 1 .. Len(text)
           /\ (~AtZero => pos <= Len(text) /\ pos + 1 \in Places)
           /\ MainLexeme(main.begin) = KeywordLexeme(b)
<1>1. /\ text \in Seq(STRING) /\ Len(text) \in Nat /\ IsMain(main) /\ main.running
      /\ pos \in Nat /\ pos \in Places /\ number_of_errors \in Nat /\ pos <= Len(text) + 1
      /\ (~AtZero => pos <= Len(text) /\ pos + 1 \in Places)
  BY TurnFacts
<1>2. b \in 1 .. Len(text) /\ b \in Nat /\ b + 1 \in Places /\ ~(b > Len(text))
  BY WithinFacts
<1>3. Char(b) = "%" /\ KeywordRead(main, pos, b)
  BY DEF MainTurn, MainRead
<1>4. MainLexeme(main.begin) = KeywordLexeme(b)
  BY <1>2, <1>3, MainLexemeIs
<1>5. pos = b + 1 \/ b + 1 < pos
  BY <1>3 DEF KeywordRead
<1>6. (pos - 1) + 1 = pos /\ pos - 1 \in (b + 1) - 1 .. Len(text) /\ pos \in b + 1 .. Len(text) + 1
  BY <1>1, <1>2, <1>5
<1> QED
  BY <1>1, <1>2, <1>3, <1>4, <1>6

(* keyword_begin: the first letter behind the per cent sign                 *)
LEMMA KeywordBeginGoes ==
    ASSUME MainTurn, keyword_begin
    PROVE  MainGoes(main', pos', number_of_errors' - number_of_errors)
<1>0. PICK b : b = First(main.begin)
  OBVIOUS
<1> DEFINE c == <<Char(pos)>>
<1>1. main.automaton = "A_keyword" /\ ~AtZero /\ main.state = <<>>
  BY DEF keyword_begin, In
<1>2. /\ Char(b) = "%" /\ b \in 1 .. Len(text) /\ b \in Nat /\ text \in Seq(STRING) /\ Len(text) \in Nat
      /\ b + 1 \in Places /\ IsMain(main) /\ main.running /\ pos <= Len(text) /\ pos + 1 \in Places
      /\ pos \in Nat /\ pos \in Places /\ number_of_errors \in Nat /\ pos \in b + 1 .. Len(text) + 1
      /\ MainLexeme(main.begin) = KeywordLexeme(b)
  BY <1>0, <1>1, KeywordFacts
<1>3. pos = b + 1 /\ main.token = Token("Unknown", <<>>)
  BY <1>0, <1>1, KeywordFacts DEF KeywordRead
<1>4. SubSeq(text, b + 1, pos) = c
  BY <1>2, <1>3, ShortPieces
<1>5. CASE c \in KeywordPrefixes
  <2>1. main' = [main EXCEPT !.state = c, !.token = KeywordCode(c)] /\ pos' = pos + 1
        /\ number_of_errors' = number_of_errors
    BY <1>5 DEF keyword_begin, Become, MoveTo
  <2>2. /\ IsMain(main') /\ main'.begin = main.begin /\ main'.running /\ main'.undefined = main.undefined
        /\ main'.automaton = "A_keyword" /\ main'.beginLine = main.beginLine /\ main'.state = c
    BY <1>1, <1>2, <2>1 DEF IsMain
  <2>3. PICK p : p = pos + 1
    OBVIOUS
  <2>4. b + 1 < p /\ p - 1 = pos /\ b <= Len(text) /\ b <= p
    BY <1>2, <1>3, <2>3
  <2>5. c # <<>>
    OBVIOUS
  <2> HIDE DEF c
  <2>6. MainRead(main', p, b)
    BY <1>2, <1>4, <1>5, <2>2, <2>4, <2>5 DEF MainRead, KeywordRead
  <2>7. MainGoes(main', p, 0)
    BY <1>0, <1>1, <1>2, <2>2, <2>3, <2>6, WithinGoes
  <2>8. number_of_errors' - number_of_errors = 0
    BY <2>1, <1>2
  <2> QED
    BY <2>1, <2>3, <2>7, <2>8
<1>6. CASE c \notin KeywordPrefixes
  <2>1. main' = [main EXCEPT !.running = FALSE] /\ pos' = pos /\ number_of_errors' = number_of_errors + 1
    BY <1>6 DEF keyword_begin, MoveAndReport
  <2>2. /\ IsMain(main') /\ ~main'.running /\ main'.begin = main.begin
        /\ main'.automaton = main.automaton /\ main'.beginLine = main.beginLine
        /\ main'.undefined = main.undefined /\ main'.token = Token("Unknown", <<>>)
    BY <1>1, <1>2, <1>3, <2>1 DEF IsMain
  <2>3. KeywordLexeme(b) = Found(Token("Unknown", <<>>), pos, 1)
    <3> HIDE DEF c
    <3> QED
      BY <1>2, <1>3, <1>4, <1>6, KeywordLexemeIs
  <2>4. number_of_errors' - number_of_errors = 1
    BY <2>1, <1>2
  <2> QED
    BY <1>1, <1>2, <2>1, <2>2, <2>3, <2>4, ReturnGoes DEF MainTurn
<1> QED
  BY <1>5, <1>6

(* The beginning that was read is the keyword.                              *)
LEMMA KeywordReturns ==
    ASSUME MainTurn, main.automaton = "A_keyword", main.state # <<>>,
           ReturnMain([main EXCEPT !.token = KeywordCode(main.state)], pos),
           ~AtZero => Append(main.state, Char(pos)) \notin KeywordPrefixes
    PROVE  MainGoes(main', pos', number_of_errors' - number_of_errors)
<1>0. PICK b : b = First(main.begin)
  OBVIOUS
<1> DEFINE r == [main EXCEPT !.token = KeywordCode(main.state)]
           n == IF KeywordCode(main.state).likely THEN 1 ELSE 0
<1>1. /\ Char(b) = "%" /\ b \in 1 .. Len(text) /\ b \in Nat /\ text \in Seq(STRING) /\ Len(text) \in Nat
      /\ b + 1 \in Places /\ IsMain(main) /\ pos \in Nat /\ pos \in Places /\ number_of_errors \in Nat
      /\ pos \in b + 1 .. Len(text) + 1 /\ MainLexeme(main.begin) = KeywordLexeme(b)
      /\ (pos - 1) + 1 = pos /\ pos - 1 \in (b + 1) - 1 .. Len(text)
      /\ (pos <= Len(text) => ~AtZero)
  BY <1>0, KeywordFacts DEF AtZero
<1>2. b + 1 < pos /\ main.state = SubSeq(text, b + 1, pos - 1) /\ main.state \in KeywordPrefixes
  BY <1>0, KeywordFacts DEF KeywordRead
<1>3. pos <= Len(text) => SubSeq(text, b + 1, pos) = Append(main.state, Char(pos))
  <2>1. pos <= Len(text) => pos - 1 # Len(text)
    BY <1>1
  <2>2. pos <= Len(text) =>
            SubSeq(text, b + 1, (pos - 1) + 1) = Append(SubSeq(text, b + 1, pos - 1), Char((pos - 1) + 1))
    BY <1>1, <2>1, LongerPiece
  <2> QED
    BY <1>1, <1>2, <2>2
<1>4. KeywordLexeme(b) = Found(Token("Kw", KeywordCode(main.state).value), pos, n)
  <2>1. pos # b + 1
    BY <1>1, <1>2
  <2> QED
    BY <1>1, <1>2, <1>3, <2>1, KeywordLexemeIs
<1>5. /\ IsMain(r) /\ r.begin = main.begin /\ r.automaton = "A_keyword" /\ r.beginLine = main.beginLine
      /\ r.undefined = main.undefined /\ r.token = KeywordCode(main.state)
  BY <1>1 DEF IsMain
<1>6. KeywordCode(main.state).code = "Kw" /\ "Kw" \notin {"Id", "String"}
  BY DEF KeywordCode, Token, LikelyToken
<1>7. n \in {0, 1} /\ (number_of_errors + n) - number_of_errors = n
  BY <1>1
<1> HIDE DEF r
<1>8. /\ IsMain(main') /\ ~main'.running /\ main'.begin = main.begin
      /\ main'.automaton = main.automaton /\ main'.beginLine = main.beginLine
      /\ main'.undefined = main.undefined /\ main'.token = Token("Kw", KeywordCode(main.state).value)
      /\ pos' = pos /\ number_of_errors' = number_of_errors + n
  <2>1. ReturnMain(r, pos)
    BY DEF r
  <2> QED
    BY <1>5, <1>6, <2>1, ReturnMainIs
<1> HIDE DEF n
<1>9. pos \in {pos, pos + 1} /\ main.automaton # "A_start" /\ (main.undefined => Char(Len(text)) = "%")
  BY DEF MainTurn
<1>10. MainGoes(main', pos, n)
  BY <1>1, <1>4, <1>7, <1>8, <1>9, ReturnGoes
<1> QED
  BY <1>7, <1>8, <1>10

(* keyword_proc                                                             *)
LEMMA KeywordGoes ==
    ASSUME MainTurn, keyword_proc
    PROVE  MainGoes(main', pos', number_of_errors' - number_of_errors)
<1>0. PICK b : b = First(main.begin)
  OBVIOUS
<1> DEFINE longer == Append(main.state, Char(pos))
<1>1. main.automaton = "A_keyword" /\ ~AtZero /\ main.state # <<>>
  BY DEF keyword_proc, In
<1>2. CASE longer \notin KeywordPrefixes
  <2>1. ReturnMain([main EXCEPT !.token = KeywordCode(main.state)], pos)
    BY <1>2 DEF keyword_proc
  <2> QED
    BY <1>1, <1>2, <2>1, KeywordReturns
<1>3. CASE longer \in KeywordPrefixes
  <2>1. /\ Char(b) = "%" /\ b \in 1 .. Len(text) /\ b \in Nat /\ text \in Seq(STRING) /\ Len(text) \in Nat
        /\ b + 1 \in Places /\ IsMain(main) /\ main.running /\ pos <= Len(text) /\ pos + 1 \in Places
        /\ pos \in Nat /\ pos \in Places /\ number_of_errors \in Nat
        /\ (pos - 1) + 1 = pos /\ pos - 1 \in (b + 1) - 1 .. Len(text)
    BY <1>0, <1>1, KeywordFacts
  <2>2. b + 1 < pos /\ main.state = SubSeq(text, b + 1, pos - 1)
    BY <1>0, <1>1, KeywordFacts DEF KeywordRead
  <2>3. main' = [main EXCEPT !.token = KeywordCode(main.state), !.state = longer] /\ pos' = pos + 1
        /\ number_of_errors' = number_of_errors
    BY <1>3 DEF keyword_proc, Become, MoveTo
  <2>4. /\ IsMain(main') /\ main'.begin = main.begin /\ main'.running /\ main'.undefined = main.undefined
        /\ main'.automaton = "A_keyword" /\ main'.beginLine = main.beginLine /\ main'.state = longer
    BY <1>1, <2>1, <2>3 DEF IsMain
  <2>5. SubSeq(text, b + 1, pos) = longer
    <3>1. pos - 1 # Len(text)
      BY <2>1
    <3>2. SubSeq(text, b + 1, (pos - 1) + 1) = Append(SubSeq(text, b + 1, pos - 1), Char((pos - 1) + 1))
      BY <2>1, <3>1, LongerPiece
    <3> QED
      BY <2>1, <2>2, <3>2
  <2>6. PICK p : p = pos + 1
    OBVIOUS
  <2>7. b + 1 < p /\ p - 1 = pos /\ b <= Len(text) /\ b <= p
    BY <2>1, <2>2, <2>6
  <2>8. longer # <<>>
    <3>1. longer \in KeywordPrefixes => Len(longer) >= 1
      BY KeywordType, PrefixesClosed DEF KeywordPrefixes
    <3> HIDE DEF longer
    <3> QED
      BY <3>1, <1>3
  <2> HIDE DEF longer
  <2>9. MainRead(main', p, b)
    BY <2>1, <1>3, <2>4, <2>5, <2>7, <2>8 DEF MainRead, KeywordRead
  <2>10. MainGoes(main', p, 0)
    BY <1>0, <1>1, <2>1, <2>4, <2>6, <2>9, WithinGoes
  <2>11. number_of_errors' - number_of_errors = 0
    BY <2>1, <2>3
  <2> QED
    BY <2>3, <2>6, <2>10, <2>11
<1> QED
  BY <1>2, <1>3

(* What is known of a string that is being read                             *)
LEMMA StringFacts ==
    ASSUME MainTurn, main.automaton = "A_string", NEW b, b = First(main.begin)
    PROVE  /\ Char(b) = Quote /\ StringRead(main, pos, b) /\ b \in 1 .. Len(text) /\ b \in Nat
           /\ pos \in b .. Len(text) + 1
           /\ text \in Seq(STRING) /\ Len(text) \in Nat /\ IsMain(main) /\ main.running
           /\ pos \in Nat /\ pos \in Places /\ number_of_errors \in Nat
           /\ (~AtZero => pos <= Len(text) /\ pos + 1 \in Places)
           /\ (AtZero => pos = Len(text) + 1)
           /\ MainLexeme(main.begin) = StringLexeme(b)
<1>1. /\ text \in Seq(STRING) /\ Len(text) \in Nat /\ IsMain(main) /\ main.running
      /\ pos \in Nat /\ pos \in Places /\ number_of_errors \in Nat /\ pos <= Len(text) + 1
      /\ (~AtZero => pos <= Len(text) /\ pos + 1 \in Places) /\ (AtZero => pos = Len(text) + 1)
  BY TurnFacts
<1>2. b \in 1 .. Len(text) /\ b \in Nat /\ ~(b > Len(text)) /\ b <= pos
  BY WithinFacts
<1>3. Char(b) = Quote /\ StringRead(main, pos, b)
  BY DEF MainTurn, MainRead
<1>4. MainLexeme(main.begin) = StringLexeme(b)
  BY <1>2, <1>3, MainLexemeIs
<1>5. pos \in b .. Len(text) + 1
  BY <1>1, <1>2
<1> QED
  BY <1>1, <1>2, <1>3, <1>4, <1>5

(* The string that ends where it is closed first, and the one that does not *)
LEMMA StringLexemeIs ==
    ASSUME text \in Seq(STRING), NEW b \in 1 .. Len(text)
    PROVE  /\ \A e \in b + 1 .. Len(text) : Closes(b, e) /\ (\A k \in b + 1 .. e - 1 : ~Closes(b, k)) =>
                  StringLexeme(b) = Found(Token("String", StringBody(b)[e]), e + 1, 0)
           /\ (\A k \in b + 1 .. Len(text) : ~Closes(b, k)) =>
                  StringLexeme(b) = Found(Token("String", StringBody(b)[Len(text)]), Len(text) + 1, 1)
<1> DEFINE ends == {i \in b + 1 .. Len(text) : Closes(b, i)}
           e == IF ends = {} THEN Len(text) ELSE CHOOSE i \in ends : \A k \in ends : i <= k
<1>1. StringLexeme(b) = Found(Token("String", StringBody(b)[e]), e + 1, OneIf(ends = {}))
  BY DEF StringLexeme
<1>2. Len(text) \in Nat /\ \A i \in b + 1 .. Len(text) : i \in Nat
  <2>1. Len(text) \in Nat
    BY CharType
  <2> QED
    BY <2>1
<1>3. ASSUME NEW i \in b + 1 .. Len(text), Closes(b, i), \A k \in b + 1 .. i - 1 : ~Closes(b, k)
      PROVE  e = i /\ ends # {}
  <2>1. i \in ends /\ \A k \in ends : k \in Nat
    BY <1>2, <1>3
  <2>2. \A k \in ends : i <= k
    <3> TAKE k \in ends
    <3>1. k \in b + 1 .. Len(text) /\ Closes(b, k)
      OBVIOUS
    <3>2. ~(k < i)
      <4>1. k < i => k \in b + 1 .. i - 1
        BY <1>2, <3>1
      <4> QED
        BY <4>1, <3>1, <1>3
    <3> QED
      BY <1>2, <3>1, <3>2
  <2> HIDE DEF ends
  <2>3. \A k \in ends : (\A l \in ends : k <= l) => k = i
    BY <2>1, <2>2
  <2>4. (CHOOSE k \in ends : \A l \in ends : k <= l) = i
    BY <2>1, <2>2, <2>3
  <2> QED
    BY <2>1, <2>4
<1>4. ASSUME \A k \in b + 1 .. Len(text) : ~Closes(b, k) PROVE ends = {}
  BY <1>4
<1> HIDE DEF e, ends
<1>5. ASSUME NEW i \in b + 1 .. Len(text), Closes(b, i), \A k \in b + 1 .. i - 1 : ~Closes(b, k)
      PROVE  StringLexeme(b) = Found(Token("String", StringBody(b)[i]), i + 1, 0)
  <2>1. e = i /\ ends # {}
    BY <1>3, <1>5
  <2> QED
    BY <1>1, <2>1 DEF OneIf
<1>6. ASSUME \A k \in b + 1 .. Len(text) : ~Closes(b, k)
      PROVE  StringLexeme(b) = Found(Token("String", StringBody(b)[Len(text)]), Len(text) + 1, 1)
  <2>1. ends = {}
    BY <1>4, <1>6
  <2>2. e = Len(text)
    BY <2>1 DEF e
  <2> QED
    BY <1>1, <2>1, <2>2 DEF OneIf
<1> QED
  BY <1>5, <1>6

(* The buffer and the state behind one more character of a string           *)
LEMMA StringGoesToBody ==
    ASSUME MainTurn, main.automaton = "A_string", ~AtZero, NEW b, b = First(main.begin), NEW v,
           main' = [main EXCEPT !.buffer = v, !.state = String_body], pos' = pos + 1,
           number_of_errors' = number_of_errors, b < pos + 1, v = StringBody(b)[pos],
           ~EvenQuotes(b, pos), \A k \in b + 1 .. pos : ~Closes(b, k)
    PROVE  MainGoes(main', pos', number_of_errors' - number_of_errors)
<1>1. /\ Char(b) = Quote /\ b \in 1 .. Len(text) /\ b \in Nat /\ IsMain(main) /\ main.running
      /\ pos \in Nat /\ number_of_errors \in Nat /\ main.token = Token("String", <<>>)
      /\ Len(text) \in Nat
  BY StringFacts DEF StringRead
<1>2. /\ IsMain(main') /\ main'.begin = main.begin /\ main'.running /\ main'.undefined = main.undefined
      /\ main'.automaton = "A_string" /\ main'.beginLine = main.beginLine /\ main'.state = String_body
      /\ main'.buffer = v /\ main'.token = Token("String", <<>>)
  BY <1>1 DEF IsMain
<1>3. PICK p : p = pos + 1
  OBVIOUS
<1>4. p - 1 = pos /\ p - 2 = pos - 1 /\ b < p /\ b <= p /\ b <= Len(text)
  BY <1>1, <1>3
<1>5. String_body # <<>> /\ String_body # End_string
  BY DEF String_body, End_string
<1>6. StringRead(main', p, b)
  BY <1>2, <1>4, <1>5 DEF StringRead
<1>7. MainRead(main', p, b)
  BY <1>1, <1>2, <1>4, <1>6 DEF MainRead
<1>8. MainGoes(main', p, 0)
  BY <1>1, <1>2, <1>3, <1>7, WithinGoes
<1>9. number_of_errors' - number_of_errors = 0
  BY <1>1
<1> QED
  BY <1>3, <1>8, <1>9

(* A quotation mark may end the string or be the first one of two.          *)
LEMMA StringGoesToEnd ==
    ASSUME MainTurn, main.automaton = "A_string", ~AtZero, NEW b, b = First(main.begin), NEW v,
           main' = [main EXCEPT !.buffer = v, !.state = End_string], pos' = pos + 1,
           number_of_errors' = number_of_errors, b < pos + 1, v = StringBody(b)[pos],
           b + 1 < pos + 1, Char(pos) = Quote, EvenQuotes(b, pos),
           \A k \in b + 1 .. pos - 1 : ~Closes(b, k)
    PROVE  MainGoes(main', pos', number_of_errors' - number_of_errors)
<1>1. /\ Char(b) = Quote /\ b \in 1 .. Len(text) /\ b \in Nat /\ IsMain(main) /\ main.running
      /\ pos \in Nat /\ number_of_errors \in Nat /\ main.token = Token("String", <<>>)
      /\ Len(text) \in Nat
  BY StringFacts DEF StringRead
<1>2. /\ IsMain(main') /\ main'.begin = main.begin /\ main'.running /\ main'.undefined = main.undefined
      /\ main'.automaton = "A_string" /\ main'.beginLine = main.beginLine /\ main'.state = End_string
      /\ main'.buffer = v /\ main'.token = Token("String", <<>>)
  BY <1>1 DEF IsMain
<1>3. PICK p : p = pos + 1
  OBVIOUS
<1>4. p - 1 = pos /\ p - 2 = pos - 1 /\ b < p /\ b <= p /\ b <= Len(text) /\ b + 1 < p
  BY <1>1, <1>3
<1>5. End_string # <<>> /\ End_string # String_body
  BY DEF String_body, End_string
<1>6. StringRead(main', p, b)
  BY <1>2, <1>4, <1>5 DEF StringRead
<1>7. MainRead(main', p, b)
  BY <1>1, <1>2, <1>4, <1>6 DEF MainRead
<1>8. MainGoes(main', p, 0)
  BY <1>1, <1>2, <1>3, <1>7, WithinGoes
<1>9. number_of_errors' - number_of_errors = 0
  BY <1>1
<1> QED
  BY <1>3, <1>8, <1>9

(* string_proc                                                              *)
LEMMA StringGoes ==
    ASSUME MainTurn, string_proc
    PROVE  MainGoes(main', pos', number_of_errors' - number_of_errors)
<1>0. PICK b : b = First(main.begin)
  OBVIOUS
<1> DEFINE c == Char(pos)
<1>1. main.automaton = "A_string" /\ ~AtZero
  BY DEF string_proc, In
<1>2. /\ Char(b) = Quote /\ b \in 1 .. Len(text) /\ b \in Nat /\ pos \in b .. Len(text) + 1
      /\ text \in Seq(STRING) /\ Len(text) \in Nat /\ IsMain(main) /\ main.running
      /\ pos \in Nat /\ pos \in Places /\ number_of_errors \in Nat /\ pos <= Len(text)
      /\ MainLexeme(main.begin) = StringLexeme(b)
  BY <1>0, <1>1, StringFacts
<1>3. StringRead(main, pos, b)
  BY <1>0, <1>1, StringFacts
<1>4. <<>> # String_body /\ <<>> # End_string /\ String_body # End_string
  BY DEF String_body, End_string
<1>5. CASE main.state = <<>>
  <2>1. main' = [main EXCEPT !.state = String_body] /\ pos' = pos + 1 /\ number_of_errors' = number_of_errors
    BY <1>4, <1>5 DEF string_proc, Become, MoveTo
  <2>2. pos = b /\ main.buffer = <<>>
    BY <1>3, <1>5 DEF StringRead
  <2>3. main' = [main EXCEPT !.buffer = <<>>, !.state = String_body]
    BY <1>2, <2>1, <2>2 DEF IsMain
  <2>4. StringBody(b)[pos] = <<>> /\ ~EvenQuotes(b, pos) /\ b < pos + 1 /\ (\A k \in b + 1 .. pos : FALSE)
    <3>1. b \in b .. Len(text)
      BY <1>2
    <3>2. StringBody(b)[b] = <<>> /\ ~EvenQuotes(b, b)
      BY <1>2, <3>1, StringBodyIs, QuoteParity
    <3> QED
      BY <1>2, <2>2, <3>2
  <2> QED
    BY <1>0, <1>1, <2>1, <2>3, <2>4, StringGoesToBody
<1>6. ASSUME main.state # <<>>
      PROVE  /\ b < pos /\ pos - 1 \in b .. Len(text) /\ (pos - 1) + 1 = pos /\ pos - 1 < Len(text)
             /\ pos \in b .. Len(text) /\ pos # b /\ b < pos + 1 /\ pos \in b + 1 .. Len(text)
             /\ main.buffer = StringBody(b)[pos - 1]
             /\ EvenQuotes(b, pos) <=> IF c = Quote THEN ~EvenQuotes(b, pos - 1) ELSE EvenQuotes(b, pos - 1)
             /\ StringBody(b)[pos] = IF c = Quote /\ EvenQuotes(b, pos) THEN StringBody(b)[pos - 1]
                                     ELSE Append(StringBody(b)[pos - 1], c)
  <2>1. b < pos /\ main.buffer = StringBody(b)[pos - 1]
    BY <1>3, <1>6 DEF StringRead
  <2>2. /\ pos - 1 \in b .. Len(text) /\ (pos - 1) + 1 = pos /\ pos - 1 < Len(text)
        /\ pos \in b .. Len(text) /\ pos # b /\ b < pos + 1 /\ pos \in b + 1 .. Len(text)
    BY <1>2, <2>1
  <2>3. EvenQuotes(b, (pos - 1) + 1) <=> IF Char((pos - 1) + 1) = Quote THEN ~EvenQuotes(b, pos - 1)
                                         ELSE EvenQuotes(b, pos - 1)
    BY <1>2, <2>2, QuoteParity
  <2>4. StringBody(b)[pos] = IF c = Quote /\ EvenQuotes(b, pos) THEN StringBody(b)[pos - 1]
                             ELSE Append(StringBody(b)[pos - 1], c)
    BY <1>2, <2>2, StringBodyIs
  <2> QED
    BY <2>1, <2>2, <2>3, <2>4
<1>7. ASSUME main.state # <<>>, NEW k \in b + 1 .. pos PROVE k = pos \/ k \in b + 1 .. pos - 1
  BY <1>2
<1>8. CASE main.state = String_body
  <2>1. ~EvenQuotes(b, pos - 1) /\ \A k \in b + 1 .. pos - 1 : ~Closes(b, k)
    BY <1>3, <1>8 DEF StringRead
  <2>2. CASE c # Quote
    <3>1. main' = [main EXCEPT !.buffer = Append(@, c)] /\ pos' = pos + 1 /\ number_of_errors' = number_of_errors
      BY <1>4, <1>8, <2>2 DEF string_proc, Become, MoveTo
    <3>2. main' = [main EXCEPT !.buffer = Append(main.buffer, c), !.state = String_body]
      BY <1>2, <1>8, <3>1 DEF IsMain
    <3>3. Append(main.buffer, c) = StringBody(b)[pos] /\ ~EvenQuotes(b, pos) /\ b < pos + 1
      BY <1>4, <1>6, <1>8, <2>1, <2>2
    <3>4. \A k \in b + 1 .. pos : ~Closes(b, k)
      <4>1. ~Closes(b, pos)
        BY <2>2 DEF Closes
      <4> QED
        BY <1>4, <1>7, <1>8, <2>1, <4>1
    <3> QED
      BY <1>0, <1>1, <3>1, <3>2, <3>3, <3>4, StringGoesToBody
  <2>3. CASE c = Quote
    <3>1. main' = [main EXCEPT !.state = End_string] /\ pos' = pos + 1 /\ number_of_errors' = number_of_errors
      BY <1>4, <1>8, <2>3 DEF string_proc, Become, MoveTo
    <3>2. main' = [main EXCEPT !.buffer = main.buffer, !.state = End_string]
      BY <1>2, <3>1 DEF IsMain
    <3>3. main.buffer = StringBody(b)[pos] /\ EvenQuotes(b, pos) /\ b < pos + 1 /\ b + 1 < pos + 1
      <4>1. b < pos
        BY <1>4, <1>6, <1>8
      <4>2. b + 1 < pos + 1
        BY <4>1, <1>2
      <4> QED
        BY <1>4, <1>6, <1>8, <2>1, <2>3, <4>2
    <3> QED
      BY <1>0, <1>1, <2>1, <2>3, <3>1, <3>2, <3>3, StringGoesToEnd
  <2> QED
    BY <2>2, <2>3
<1>9. CASE main.state = End_string
  <2>1. b + 1 < pos /\ Char(pos - 1) = Quote /\ EvenQuotes(b, pos - 1)
        /\ \A k \in b + 1 .. pos - 2 : ~Closes(b, k)
    BY <1>3, <1>9 DEF StringRead
  <2>2. /\ pos - 1 \in b + 1 .. Len(text) /\ (pos - 1) - 1 = pos - 2 /\ (pos - 1) + 1 = pos
        /\ CharBehind(pos - 1) = c
    <3>1. pos - 1 \in b + 1 .. Len(text) /\ (pos - 1) - 1 = pos - 2 /\ (pos - 1) + 1 = pos
      BY <1>2, <2>1
    <3> QED
      BY <3>1 DEF CharBehind
  <2>3. CASE c = Quote
    <3>1. main' = [main EXCEPT !.buffer = Append(main.buffer, c), !.state = String_body] /\ pos' = pos + 1
          /\ number_of_errors' = number_of_errors
      BY <1>4, <1>9, <2>3 DEF string_proc, Become, MoveTo
    <3>2. Append(main.buffer, c) = StringBody(b)[pos] /\ ~EvenQuotes(b, pos) /\ b < pos + 1
      BY <1>4, <1>6, <1>9, <2>1, <2>3
    <3>3. ASSUME NEW k \in b + 1 .. pos PROVE ~Closes(b, k)
      <4>1. k = pos \/ k = pos - 1 \/ k \in b + 1 .. pos - 2
        BY <1>2
      <4>2. ~Closes(b, pos)
        BY <3>2 DEF Closes
      <4>3. ~Closes(b, pos - 1)
        BY <2>2, <2>3 DEF Closes
      <4> QED
        BY <2>1, <4>1, <4>2, <4>3
    <3> QED
      BY <1>0, <1>1, <3>1, <3>2, <3>3, StringGoesToBody
  <2>4. CASE c # Quote
    <3>1. ReturnMain(main, pos)
      BY <1>4, <1>9, <2>4 DEF string_proc
    <3>2. main.token.code = "String" /\ "String" \in {"Id", "String"} /\ main.automaton # "A_keyword"
      BY <1>1, <1>3 DEF Token, StringRead
    <3>3. /\ IsMain(main') /\ ~main'.running /\ main'.begin = main.begin
          /\ main'.automaton = main.automaton /\ main'.beginLine = main.beginLine
          /\ main'.undefined = main.undefined /\ main'.token = Token("String", main.buffer)
          /\ pos' = pos /\ number_of_errors' = number_of_errors + 0
      <4> HIDE DEF c
      <4> QED
        BY <1>2, <3>1, <3>2, ReturnMainIs
    <3>4. StringLexeme(b) = Found(Token("String", main.buffer), pos, 0)
      <4>1. Closes(b, pos - 1)
        BY <2>1, <2>2, <2>4 DEF Closes
      <4>2. \A k \in b + 1 .. (pos - 1) - 1 : ~Closes(b, k)
        BY <2>1, <2>2
      <4>3. StringLexeme(b) = Found(Token("String", StringBody(b)[pos - 1]), (pos - 1) + 1, 0)
        BY <1>2, <2>2, <4>1, <4>2, StringLexemeIs
      <4> QED
        BY <4>3, <2>2, <1>4, <1>6, <1>9
    <3>5. number_of_errors' - number_of_errors = 0
      BY <3>3, <1>2
    <3> QED
      BY <1>1, <1>2, <3>3, <3>4, <3>5, ReturnGoes DEF MainTurn
  <2> QED
    BY <2>3, <2>4
<1> QED
  BY <1>3, <1>5, <1>8, <1>9 DEF StringRead

(* At the end of the text *)
LEMMA StartEndGoes ==
    ASSUME MainTurn, main.automaton = "A_start", AtZero, ReturnMain(main, pos)
    PROVE  MainGoes(main', pos', number_of_errors' - number_of_errors)
<1>1. /\ text \in Seq(STRING) /\ Len(text) \in Nat /\ pos = Len(text) + 1 /\ IsMain(main)
      /\ pos \in Places /\ number_of_errors \in Nat
  BY TurnFacts
<1>2. First(main.begin) = pos /\ main.token = Token("None", <<>>)
  BY StartFacts
<1>3. pos > Len(text)
  BY <1>1
<1>4. MainLexeme(main.begin) = Found(Token("None", <<>>), pos, 0)
  BY <1>2, <1>3, MainLexemeIs
<1>5. main.token.code = "None" /\ main.token.value = <<>> /\ "None" \notin {"Id", "String"}
  BY <1>2 DEF Token
<1>6. /\ IsMain(main') /\ ~main'.running /\ main'.begin = main.begin
      /\ main'.automaton = main.automaton /\ main'.beginLine = main.beginLine
      /\ main'.undefined = main.undefined /\ main'.token = Token("None", <<>>)
      /\ pos' = pos /\ number_of_errors' = number_of_errors + 0
  BY <1>1, <1>5, ReturnMainIs
<1>7. main'.token.code = "None"
  BY <1>6 DEF Token
<1>8. number_of_errors' - number_of_errors = 0
  BY <1>6, <1>1
<1> QED
  BY <1>1, <1>4, <1>6, <1>7, <1>8, ReturnGoes DEF MainTurn

(* The text ends within spaces, an unknown lexeme or an identifier.         *)
LEMMA SilentEndGoes ==
    ASSUME MainTurn, silent_final_procs
    PROVE  MainGoes(main', pos', number_of_errors' - number_of_errors)
<1>1. /\ AtZero /\ ReturnMain(main, pos)
      /\ main.automaton = "A_start" \/ main.automaton = "A_unknown" \/ main.automaton = "A_id"
  BY DEF silent_final_procs, EndsIn
<1>2. ~(pos <= Len(text))
  BY <1>1, TurnFacts
<1> QED
  BY <1>1, <1>2, StartEndGoes, UnknownReturns, IdReturns

(* Behind a lone per cent sign at the end of the text anything may be returned. *)
LEMMA UndefinedIs ==
    ASSUME IsMain(main), NEW tok, NEW r, r = [main EXCEPT !.token = tok, !.undefined = TRUE]
    PROVE  /\ IsMain(r) /\ r.begin = main.begin /\ r.automaton = main.automaton
           /\ r.beginLine = main.beginLine /\ r.undefined
<1>1. r = [automaton |-> main.automaton, state |-> main.state, buffer |-> main.buffer,
           token |-> tok, begin |-> main.begin, beginLine |-> main.beginLine,
           running |-> main.running, undefined |-> TRUE]
  BY DEF IsMain
<1>2. /\ r.automaton = main.automaton /\ r.begin = main.begin /\ r.beginLine = main.beginLine
      /\ r.running = main.running /\ r.undefined
  BY <1>1
<1>3. r = [automaton |-> r.automaton, state |-> r.state, buffer |-> r.buffer, token |-> r.token,
           begin |-> r.begin, beginLine |-> r.beginLine, running |-> r.running,
           undefined |-> r.undefined]
  BY <1>1, <1>2
<1>4. r.undefined \in BOOLEAN
  BY <1>1
<1> QED
  BY <1>2, <1>3, <1>4 DEF IsMain

(* keyword_final_proc                                                       *)
LEMMA KeywordEndGoes ==
    ASSUME MainTurn, keyword_final_proc
    PROVE  MainGoes(main', pos', number_of_errors' - number_of_errors)
<1>0. PICK b : b = First(main.begin)
  OBVIOUS
<1>1. main.automaton = "A_keyword" /\ AtZero
  BY DEF keyword_final_proc, EndsIn
<1>2. CASE main.state # <<>>
  BY <1>1, <1>2, KeywordReturns DEF keyword_final_proc
<1>3. CASE main.state = <<>>
  <2>1. /\ Char(b) = "%" /\ b \in Nat /\ Len(text) \in Nat /\ IsMain(main) /\ pos \in Nat
        /\ pos \in Places /\ number_of_errors \in Nat
    BY <1>0, <1>1, KeywordFacts
  <2>2. pos = b + 1 /\ pos = Len(text) + 1
    BY <1>0, <1>1, <1>3, KeywordFacts DEF KeywordRead, AtZero
  <2>3. Char(Len(text)) = "%"
    <3>1. b = Len(text)
      BY <2>1, <2>2
    <3> QED
      BY <2>1, <3>1
  <2>4. PICK tok : /\ tok \in {Token("None", <<>>), Token("Kw", Spelled("codes")),
                           LikelyToken("Kw", Spelled("codes"))}
                 /\ ReturnMain([main EXCEPT !.token = tok, !.undefined = TRUE], pos)
    BY <1>3 DEF keyword_final_proc
  <2> DEFINE r == [main EXCEPT !.token = tok, !.undefined = TRUE]
             n == IF r.automaton = "A_keyword" /\ r.token.likely THEN 1 ELSE 0
  <2>5. /\ IsMain(r) /\ r.begin = main.begin /\ r.automaton = main.automaton
        /\ r.beginLine = main.beginLine /\ r.undefined
    BY <2>1, UndefinedIs
  <2> HIDE DEF r
  <2>6. /\ IsMain(main') /\ ~main'.running /\ main'.begin = main.begin
        /\ main'.automaton = main.automaton /\ main'.beginLine = main.beginLine
        /\ main'.undefined /\ pos' = pos /\ number_of_errors' = number_of_errors + n
    <3>1. ReturnMain(r, pos)
      BY <2>4 DEF r
    <3> QED
      BY <2>5, <3>1, ReturnMainIs
  <2>7. n \in {0, 1} /\ number_of_errors' - number_of_errors = n
    <3>1. n \in {0, 1}
      OBVIOUS
    <3> HIDE DEF n
    <3> QED
      BY <2>1, <2>6, <3>1
  <2> HIDE DEF n
  <2> QED
    BY <1>1, <2>1, <2>3, <2>6, <2>7, ReturnGoes
<1> QED
  BY <1>2, <1>3

(* string_final_proc                                                        *)
LEMMA StringEndGoes ==
    ASSUME MainTurn, string_final_proc
    PROVE  MainGoes(main', pos', number_of_errors' - number_of_errors)
<1>0. PICK b : b = First(main.begin)
  OBVIOUS
<1> DEFINE n == IF main.state = End_string THEN 0 ELSE 1
<1>1. /\ main.automaton = "A_string" /\ AtZero
      /\ main' = [main EXCEPT !.running = FALSE, !.token = Token("String", main.buffer)]
      /\ pos' = pos /\ number_of_errors' = number_of_errors + n
  BY DEF string_final_proc, EndsIn, MoveAndReport
<1>2. /\ Char(b) = Quote /\ StringRead(main, pos, b) /\ b \in 1 .. Len(text) /\ b \in Nat
      /\ text \in Seq(STRING) /\ Len(text) \in Nat /\ IsMain(main)
      /\ pos \in Places /\ number_of_errors \in Nat /\ pos = Len(text) + 1
      /\ MainLexeme(main.begin) = StringLexeme(b)
  BY <1>0, <1>1, StringFacts
<1>3. /\ IsMain(main') /\ ~main'.running /\ main'.begin = main.begin
      /\ main'.automaton = main.automaton /\ main'.beginLine = main.beginLine
      /\ main'.undefined = main.undefined /\ main'.token = Token("String", main.buffer)
  BY <1>1, <1>2 DEF IsMain
<1>4. n \in {0, 1}
  OBVIOUS
<1>5. /\ pos - 1 = Len(text) /\ Len(text) \in b .. Len(text) /\ (pos - 1) - 1 = pos - 2
      /\ Len(text) # pos /\ pos # b
  BY <1>2
<1>6. <<>> # String_body /\ <<>> # End_string /\ String_body # End_string
  BY DEF String_body, End_string
<1>7. main.state # <<>> /\ main.buffer = StringBody(b)[Len(text)]
  BY <1>2, <1>5 DEF StringRead
<1>8. CASE main.state = End_string
  <2>1. b + 1 < pos /\ Char(pos - 1) = Quote /\ EvenQuotes(b, pos - 1)
        /\ \A k \in b + 1 .. pos - 2 : ~Closes(b, k)
    BY <1>2, <1>8 DEF StringRead
  <2>2. Len(text) \in b + 1 .. Len(text) /\ CharBehind(Len(text)) = Zero /\ Zero # Quote
    <3>1. Char(Len(text) + 1) = Zero /\ Zero # Quote
      BY <1>2, CharType, CharacterKinds
    <3> QED
      BY <1>2, <2>1, <3>1 DEF CharBehind
  <2>3. Closes(b, Len(text))
    BY <1>5, <2>1, <2>2 DEF Closes
  <2>4. \A k \in b + 1 .. Len(text) - 1 : ~Closes(b, k)
    BY <1>5, <2>1
  <2>5. StringLexeme(b) = Found(Token("String", main.buffer), Len(text) + 1, 0)
    BY <1>2, <1>7, <2>2, <2>3, <2>4, StringLexemeIs
  <2>6. n = 0
    BY <1>8
  <2> HIDE DEF n
  <2>7. number_of_errors' - number_of_errors = 0
    BY <1>1, <1>2, <2>6
  <2> QED
    BY <1>1, <1>2, <1>3, <2>5, <2>7, ReturnGoes DEF MainTurn
<1>9. CASE main.state # End_string
  <2>1. \A k \in b + 1 .. pos - 1 : ~Closes(b, k)
    BY <1>2, <1>7, <1>9 DEF StringRead
  <2>2. StringLexeme(b) = Found(Token("String", main.buffer), Len(text) + 1, 1)
    BY <1>2, <1>5, <1>7, <2>1, StringLexemeIs
  <2>3. n = 1
    BY <1>9
  <2> HIDE DEF n
  <2>4. number_of_errors' - number_of_errors = 1
    BY <1>1, <1>2, <2>3
  <2> QED
    BY <1>1, <1>2, <1>3, <2>2, <2>4, ReturnGoes DEF MainTurn
<1> QED
  BY <1>8, <1>9

(* Every step of the main scanner *)
LEMMA MainStepGoes ==
    ASSUME MainTurn, MainStep
    PROVE  MainGoes(main', pos', number_of_errors' - number_of_errors)
BY StartSpaceGoes, StartGoes, UnknownGoes, IdGoes, KeywordBeginGoes, KeywordGoes, DelimiterGoes,
   StringGoes, SilentEndGoes, KeywordEndGoes, StringEndGoes DEF MainStep

(* The characters that begin and continue the lexemes of expressions        *)
LEMMA AuxKinds ==
    /\ DOMAIN AuxDelimiter = {"(", ")", "{", "}", "|", "*", "+", "?"}
    /\ \A c \in DOMAIN AuxDelimiter : c \notin {"$", "[", "\\", "^", "\n"} /\ c \notin Spaces
    /\ \A c \in AfterBackslash : c # "\n" /\ c # Zero
    /\ \A c \in Letters \cup Digits : c # "\n" /\ c # Zero
    /\ "\n" \in Spaces /\ Zero # ":" /\ Zero # "^" /\ Zero # "]"
<1>1. /\ DOMAIN AuxDelimiter = {"(", ")", "{", "}", "|", "*", "+", "?"}
      /\ \A c \in DOMAIN AuxDelimiter : c \notin {"$", "[", "\\", "^", "\n"}
  BY DEF AuxDelimiter
<1>2. \A c \in DOMAIN AuxDelimiter : c \notin Spaces
  BY DEF AuxDelimiter, Spaces
<1>3. \A c \in AfterBackslash : c # "\n" /\ c # Zero
  BY Zenon DEF AfterBackslash, Quote, Zero
<1>4. \A c \in Letters : c # "\n" /\ c # Zero
  BY Zenon DEF Letters, Zero
<1>5. \A c \in Digits : c # "\n" /\ c # Zero
  BY Zenon DEF Digits, Zero
<1>6. "\n" \in Spaces /\ Zero # ":" /\ Zero # "^" /\ Zero # "]"
  BY Zenon DEF Spaces, Zero
<1> QED
  BY <1>1, <1>2, <1>3, <1>4, <1>5, <1>6

(* The line ends in no position and in one                                  *)
LEMMA LineEndsShort ==
    ASSUME NEW p \in Nat
    PROVE  /\ LineEnds(p, p - 1) = 0
           /\ LineEnds(p, (p + 1) - 1) = IF Char(p) = "\n" THEN 1 ELSE 0
<1>1. p .. p - 1 = {} /\ p .. (p + 1) - 1 = {p}
  BY SMT
<1>2. {i \in p .. p - 1 : Char(i) = "\n"} = {}
  BY <1>1
<1>3. {i \in p .. (p + 1) - 1 : Char(i) = "\n"} = IF Char(p) = "\n" THEN {p} ELSE {}
  BY <1>1
<1>4. Cardinality({}) = 0 /\ Cardinality({p}) = 1
  BY FS_EmptySet, FS_Singleton
<1> QED
  BY <1>2, <1>3, <1>4 DEF LineEnds

(* What holds while the auxiliary scanner reads                             *)
AuxTurn == Types /\ aux.running /\ AuxRead(aux, pos, First(aux.begin))

(* What the steps of the auxiliary scanner need of AuxTurn                  *)
LEMMA AuxTurnFacts ==
    ASSUME AuxTurn
    PROVE  /\ text \in Seq(STRING) /\ Len(text) \in Nat /\ pos \in Nat /\ pos \in Places
           /\ pos >= 1 /\ pos <= Len(text) + 1 /\ aux.begin \in Places /\ aux.begin \in Nat
           /\ (~AtZero => pos <= Len(text) /\ pos + 1 \in Places) /\ (AtZero => pos = Len(text) + 1)
           /\ (pos <= Len(text) => ~AtZero)
           /\ number_of_errors \in Nat /\ line \in Nat /\ IsAux(aux) /\ aux.running
           /\ number_of_errors - number_of_errors = 0 /\ (number_of_errors + 1) - number_of_errors = 1
           /\ number_of_errors + 0 = number_of_errors
           /\ line = line + LineEnds(pos, pos - 1)
           /\ (Char(pos) # "\n" => line = line + LineEnds(pos, (pos + 1) - 1))
           /\ (Char(pos) = "\n" => line + 1 = line + LineEnds(pos, (pos + 1) - 1))
<1>1. text \in Seq(STRING) /\ Len(text) \in Nat /\ pos \in 1 .. Len(text) + 1
  BY CharType DEF AuxTurn, Types, Places
<1>2. IsAux(aux) /\ number_of_errors \in Nat /\ line \in Nat /\ aux.running
  BY DEF AuxTurn, Types
<1>3. pos \in Nat /\ pos >= 1 /\ pos <= Len(text) + 1
  BY <1>1
<1>4. (~AtZero => pos <= Len(text) /\ pos + 1 \in 1 .. Len(text) + 1) /\ (pos <= Len(text) => ~AtZero)
  BY <1>1, <1>3 DEF AtZero
<1>5. aux.begin \in 1 .. Len(text) + 1
  BY <1>2 DEF IsAux, Places
<1>6. aux.begin \in Nat
  BY <1>1, <1>5
<1>7. LineEnds(pos, pos - 1) = 0 /\ (Char(pos) # "\n" => LineEnds(pos, (pos + 1) - 1) = 0)
      /\ (Char(pos) = "\n" => LineEnds(pos, (pos + 1) - 1) = 1)
  BY <1>3, LineEndsShort
<1>8. number_of_errors - number_of_errors = 0 /\ (number_of_errors + 1) - number_of_errors = 1
      /\ number_of_errors + 0 = number_of_errors /\ line = line + 0
  BY <1>2
<1> QED
  BY <1>1, <1>2, <1>3, <1>4, <1>5, <1>6, <1>7, <1>8 DEF AtZero, Places

(* Where the lexeme that is being read begins                               *)
LEMMA AuxWithinFacts ==
    ASSUME AuxTurn, aux.automaton # "A_start", NEW b, b = First(aux.begin)
    PROVE  /\ b \in Nat /\ b >= 1 /\ b <= Len(text) /\ b <= pos /\ b \in Places
           /\ b + 1 \in Places /\ b \in 1 .. Len(text) /\ ~(b > Len(text))
           /\ AuxRead(aux, pos, b)
<1>1. text \in Seq(STRING) /\ aux.begin \in Places /\ Len(text) \in Nat
  BY AuxTurnFacts
<1>2. b \in aux.begin .. Len(text) + 1
  BY <1>1, RunEndIs DEF First
<1>3. aux.begin \in 1 .. Len(text) + 1
  BY <1>1 DEF Places
<1>4. b <= Len(text) /\ b <= pos /\ AuxRead(aux, pos, b)
  BY DEF AuxTurn, AuxRead
<1>5. b \in Nat /\ b >= 1 /\ b \in 1 .. Len(text) + 1 /\ b + 1 \in 1 .. Len(text) + 1
      /\ b \in 1 .. Len(text) /\ ~(b > Len(text))
  BY <1>1, <1>2, <1>3, <1>4
<1> QED
  BY <1>4, <1>5 DEF Places

(* Where the spaces end, the lexeme begins: that of the text, or none.      *)
LEMMA AuxStartFacts ==
    ASSUME AuxTurn, aux.automaton = "A_start", ~AtZero => Char(pos) \notin Spaces
    PROVE  First(aux.begin) = pos /\ aux.token = AuxToken("Nothing", <<>>)
<1>1. aux.begin <= pos /\ (\A k \in aux.begin .. pos - 1 : Char(k) \in Spaces)
      /\ aux.token = AuxToken("Nothing", <<>>)
  BY DEF AuxTurn, AuxRead
<1>2. text \in Seq(STRING) /\ aux.begin \in Places /\ pos \in Places /\ (pos <= Len(text) => ~AtZero)
  BY AuxTurnFacts
<1> QED
  BY <1>1, <1>2, FirstIs

(* A step to an automaton, one that ends a lexeme, and one within a lexeme  *)
LEMMA AuxEnterGoes ==
    ASSUME AuxTurn, aux.automaton = "A_start", First(aux.begin) = pos, NEW a, NEW p, NEW l,
           IsAux(a), a.begin = aux.begin, a.running, a.automaton # "A_start", a.beginLine = line,
           p \in {pos, pos + 1}, p \in Places, l = line + LineEnds(pos, p - 1), AuxRead(a, p, pos)
    PROVE  AuxGoes(a, p, l, 0)
<1>1. pos \in Nat /\ pos <= p
  BY AuxTurnFacts
<1> QED
  BY <1>1 DEF AuxGoes

(* The auxiliary scanner returns the lexeme of the text.                    *)
LEMMA AuxReturnGoes ==
    ASSUME AuxTurn, aux.automaton # "A_start", NEW a, NEW p, NEW l, NEW n \in {0, 1},
           IsAux(a), ~a.running, a.begin = aux.begin, a.automaton = aux.automaton,
           a.beginLine = aux.beginLine, p \in {pos, pos + 1}, p \in Places,
           l = line + LineEnds(pos, p - 1), AuxLexeme(aux.begin) = Found(a.token, p, n)
    PROVE  AuxGoes(a, p, l, n)
<1>1. pos \in Nat /\ pos <= p /\ p \in Nat
  BY AuxTurnFacts
<1>2. First(aux.begin) \in Nat /\ First(aux.begin) <= pos
  BY AuxWithinFacts
<1>3. First(aux.begin) <= p
  BY <1>1, <1>2
<1>4. AuxFound(a, p) /\ n = AuxLexeme(a.begin).errors
  BY DEF AuxFound, Found
<1> QED
  BY <1>3, <1>4 DEF AuxGoes

(* The auxiliary scanner reads on within a lexeme.                          *)
LEMMA AuxWithinGoes ==
    ASSUME AuxTurn, aux.automaton # "A_start", ~AtZero, NEW a, NEW p, NEW l, p = pos + 1,
           IsAux(a), a.begin = aux.begin, a.running, a.automaton = aux.automaton,
           a.beginLine = aux.beginLine, l = line + LineEnds(pos, p - 1),
           AuxRead(a, p, First(aux.begin))
    PROVE  AuxGoes(a, p, l, 0)
<1>1. pos \in Nat /\ pos <= p /\ p \in Places
  BY AuxTurnFacts
<1>2. First(aux.begin) <= p
  BY DEF AuxRead
<1> QED
  BY <1>1, <1>2 DEF AuxGoes

(* The members of the auxiliary scanner when it returns                     *)
LEMMA ReturnAuxIs ==
    ASSUME NEW r, NEW p, IsAux(r), ReturnAux(r, p) \/ FailAux(r, p)
    PROVE  /\ IsAux(aux') /\ ~aux'.running /\ aux'.begin = r.begin
           /\ aux'.automaton = r.automaton /\ aux'.beginLine = r.beginLine
           /\ aux'.token = AuxToken(r.token.code, IF r.token.code = "Action"
                                                  THEN r.buffer ELSE r.token.value)
           /\ pos' = p /\ line' = line
           /\ FailAux(r, p) => number_of_errors' = number_of_errors + 1
           /\ ReturnAux(r, p) => number_of_errors' = number_of_errors
                 + (IF r.automaton = "A_class" /\ r.token.likely THEN 1 ELSE 0)
BY DEF ReturnAux, FailAux, IsAux, MoveAndReport

(* What the lexeme is by its first character                                *)
LEMMA AuxLexemeIs ==
    ASSUME NEW p, NEW b, b = First(p)
    PROVE  /\ b > Len(text) => AuxLexeme(p) = Found(AuxToken("Nothing", <<>>), b, 0)
           /\ ~(b > Len(text)) =>
              /\ Char(b) \in DOMAIN AuxDelimiter =>
                 AuxLexeme(p) = Found(AuxToken(AuxDelimiter[Char(b)], <<>>), b + 1, 0)
              /\ Char(b) = "$" => AuxLexeme(p) = ActionLexeme(b)
              /\ Char(b) = "[" => AuxLexeme(p) = ClassLexeme(b)
              /\ Char(b) = "\\" => AuxLexeme(p) =
                 IF CharBehind(b) \in AfterBackslash
                 THEN Found(AuxToken("Character", <<IF CharBehind(b) = "n" THEN "\n" ELSE CharBehind(b)>>),
                            b + 2, 0)
                 ELSE Found(AuxToken("Character", <<"\\">>), b + 1, 0)
              /\ Char(b) = "^" => AuxLexeme(p) =
                 IF CharBehind(b) = "]"
                 THEN Found(AuxToken("End_char_class_complement", <<"^">>), b + 2, 0)
                 ELSE Found(AuxToken("Character", <<"^">>), b + 1, 0)
              /\ Char(b) \notin DOMAIN AuxDelimiter \cup {"$", "[", "\\", "^"} =>
                 AuxLexeme(p) = Found(AuxToken("Character", <<Char(b)>>), b + 1, 0)
<1>1. b > Len(text) => AuxLexeme(p) = Found(AuxToken("Nothing", <<>>), b, 0)
  BY DEF AuxLexeme, First
<1>2. ASSUME ~(b > Len(text)) PROVE
              /\ Char(b) \in DOMAIN AuxDelimiter =>
                 AuxLexeme(p) = Found(AuxToken(AuxDelimiter[Char(b)], <<>>), b + 1, 0)
              /\ Char(b) = "$" => AuxLexeme(p) = ActionLexeme(b)
              /\ Char(b) = "[" => AuxLexeme(p) = ClassLexeme(b)
  BY <1>2, AuxKinds DEF AuxLexeme, First
<1>3. ASSUME ~(b > Len(text)), Char(b) = "\\" PROVE AuxLexeme(p) =
                 IF CharBehind(b) \in AfterBackslash
                 THEN Found(AuxToken("Character", <<IF CharBehind(b) = "n" THEN "\n" ELSE CharBehind(b)>>),
                            b + 2, 0)
                 ELSE Found(AuxToken("Character", <<"\\">>), b + 1, 0)
  BY <1>3, AuxKinds DEF AuxLexeme, First
<1>4. ASSUME ~(b > Len(text)), Char(b) = "^" PROVE AuxLexeme(p) =
                 IF CharBehind(b) = "]"
                 THEN Found(AuxToken("End_char_class_complement", <<"^">>), b + 2, 0)
                 ELSE Found(AuxToken("Character", <<"^">>), b + 1, 0)
  BY <1>4, AuxKinds DEF AuxLexeme, First
<1>5. ASSUME ~(b > Len(text)), Char(b) \notin DOMAIN AuxDelimiter \cup {"$", "[", "\\", "^"}
      PROVE  AuxLexeme(p) = Found(AuxToken("Character", <<Char(b)>>), b + 1, 0)
  BY <1>5 DEF AuxLexeme, First
<1> QED
  BY <1>1, <1>2, <1>3, <1>4, <1>5

(* aux_start_space                                                          *)
LEMMA AuxStartSpaceGoes ==
    ASSUME AuxTurn, aux_start_space
    PROVE  AuxGoes(aux', pos', line', number_of_errors' - number_of_errors)
<1>1. /\ aux' = [aux EXCEPT !.state = <<>>] /\ pos' = pos + 1
      /\ line' = (IF Char(pos) = "\n" THEN line + 1 ELSE line)
      /\ number_of_errors' = number_of_errors /\ aux.automaton = "A_start" /\ ~AtZero
      /\ Char(pos) \in Spaces
  BY DEF aux_start_space, AuxBecome, PassSpace, AuxIn
<1>2. /\ text \in Seq(STRING) /\ Len(text) \in Nat /\ pos \in Nat /\ pos <= Len(text)
      /\ pos + 1 \in Places /\ number_of_errors' - number_of_errors = 0 /\ IsAux(aux)
      /\ aux.begin \in Nat /\ line' = line + LineEnds(pos, (pos + 1) - 1) /\ aux.running
  BY <1>1, AuxTurnFacts
<1>3. aux.begin <= pos /\ (\A k \in aux.begin .. pos - 1 : Char(k) \in Spaces)
      /\ aux.token = AuxToken("Nothing", <<>>)
  BY <1>1 DEF AuxTurn, AuxRead
<1>4. IsAux(aux') /\ aux'.begin = aux.begin /\ aux'.automaton = "A_start"
      /\ aux'.token = AuxToken("Nothing", <<>>) /\ aux'.running
  BY <1>1, <1>2, <1>3 DEF IsAux
<1>5. PICK p : p = pos + 1
  OBVIOUS
<1>6. aux.begin <= p /\ \A k \in aux.begin .. p - 1 : k = pos \/ k \in aux.begin .. pos - 1
  BY <1>2, <1>3, <1>5
<1>7. \A k \in aux.begin .. p - 1 : Char(k) \in Spaces
  BY <1>1, <1>3, <1>6
<1>8. AuxRead(aux', p, First(aux'.begin))
  BY <1>4, <1>6, <1>7 DEF AuxRead
<1>9. aux'.token.code = "Nothing"
  BY <1>4 DEF AuxToken
<1>10. AuxGoes(aux', p, line', 0)
  BY <1>1, <1>2, <1>4, <1>5, <1>8, <1>9 DEF AuxGoes
<1> QED
  BY <1>1, <1>2, <1>5, <1>10

(* The members behind GoAux                                                 *)
LEMMA GoAuxIs ==
    ASSUME IsAux(aux), line \in Nat, NEW code, NEW v, NEW a, aux' = GoAux(a, code, v),
           a \in {"A_start", "A_action", "A_delimiter", "A_class", "A_char", "A_hat"}
    PROVE  /\ IsAux(aux') /\ aux'.begin = aux.begin /\ aux'.running = aux.running
           /\ aux'.automaton = a /\ aux'.beginLine = line /\ aux'.state = <<>> /\ aux'.token = AuxToken(code, v)
           /\ aux'.buffer = aux.buffer
<1>1. aux' = [automaton |-> a, state |-> <<>>, buffer |-> aux.buffer, token |-> AuxToken(code, v),
           begin |-> aux.begin, beginLine |-> line, running |-> aux.running]
  BY DEF GoAux, IsAux
<1>2. aux.begin \in Places /\ aux.running \in BOOLEAN
  BY DEF IsAux
<1>3. /\ aux'.begin = aux.begin /\ aux'.running = aux.running
      /\ aux'.automaton = a /\ aux'.beginLine = line /\ aux'.state = <<>> /\ aux'.token = AuxToken(code, v)
      /\ aux'.buffer = aux.buffer
  BY <1>1
<1>4. aux' = [automaton |-> aux'.automaton, state |-> aux'.state, buffer |-> aux'.buffer, token |-> aux'.token,
           begin |-> aux'.begin, beginLine |-> aux'.beginLine, running |-> aux'.running]
  BY <1>1, <1>3
<1> QED
  BY <1>2, <1>3, <1>4 DEF IsAux

(* The members behind GoAux at a character that is a lexeme by itself       *)
LEMMA PlainGoAuxIs ==
    ASSUME IsAux(aux), line \in Nat, NEW code, NEW v, NEW a, NEW r, r = GoAux(a, code, v),
           a \in {"A_start", "A_action", "A_delimiter", "A_class", "A_char", "A_hat"}
    PROVE  /\ IsAux(r) /\ r.begin = aux.begin /\ r.running = aux.running
           /\ r.automaton = a /\ r.beginLine = line /\ r.state = <<>> /\ r.token = AuxToken(code, v)
           /\ r.buffer = aux.buffer
<1>1. r = [automaton |-> a, state |-> <<>>, buffer |-> aux.buffer, token |-> AuxToken(code, v),
           begin |-> aux.begin, beginLine |-> line, running |-> aux.running]
  BY DEF GoAux, IsAux
<1>2. aux.begin \in Places /\ aux.running \in BOOLEAN
  BY DEF IsAux
<1>3. /\ r.begin = aux.begin /\ r.running = aux.running
      /\ r.automaton = a /\ r.beginLine = line /\ r.state = <<>> /\ r.token = AuxToken(code, v)
      /\ r.buffer = aux.buffer
  BY <1>1
<1>4. r = [automaton |-> r.automaton, state |-> r.state, buffer |-> r.buffer, token |-> r.token,
           begin |-> r.begin, beginLine |-> r.beginLine, running |-> r.running]
  BY <1>1, <1>3
<1> QED
  BY <1>2, <1>3, <1>4 DEF IsAux

(* A character by itself *)
LEMMA AuxCharGoes ==
    ASSUME AuxTurn, aux.automaton = "A_start", ~AtZero, NEW c, c = Char(pos), c \notin Spaces,
           c \notin DOMAIN AuxDelimiter \cup {"$", "[", "\\", "^"},
           ReturnAux(GoAux("A_start", "Character", <<c>>), pos + 1)
    PROVE  AuxGoes(aux', pos', line', number_of_errors' - number_of_errors)
<1>1. First(aux.begin) = pos
  BY AuxStartFacts
<1>2. PICK r : r = GoAux("A_start", "Character", <<c>>)
  OBVIOUS
<1>3. /\ text \in Seq(STRING) /\ Len(text) \in Nat /\ pos \in Nat /\ pos <= Len(text)
      /\ pos + 1 \in Places /\ IsAux(aux) /\ line \in Nat /\ number_of_errors \in Nat
  BY AuxTurnFacts
<1>4. /\ IsAux(r) /\ r.begin = aux.begin /\ r.running = aux.running
      /\ r.automaton = "A_start" /\ r.beginLine = line /\ r.token = AuxToken("Character", <<c>>)
  BY <1>2, <1>3, PlainGoAuxIs
<1>5. r.token.code = "Character" /\ r.token.value = <<c>> /\ "Character" # "Action"
      /\ r.automaton # "A_class"
  BY <1>4 DEF AuxToken
<1>6. /\ IsAux(aux') /\ ~aux'.running /\ aux'.begin = aux.begin /\ aux'.automaton = "A_start"
      /\ aux'.beginLine = line /\ aux'.token = AuxToken("Character", <<c>>)
      /\ pos' = pos + 1 /\ line' = line /\ number_of_errors' = number_of_errors + 0
  BY <1>2, <1>4, <1>5, ReturnAuxIs
<1>7. PICK p : p = pos + 1
  OBVIOUS
<1>8. AuxLexeme(aux.begin) = Found(AuxToken("Character", <<c>>), p, 0)
  <2>1. ~(pos > Len(text))
    BY <1>3
  <2> QED
    BY <1>1, <1>7, <2>1, AuxLexemeIs
<1>9. AuxFound(aux', p) /\ AuxLexeme(aux'.begin).errors = 0
  BY <1>6, <1>8 DEF AuxFound, Found
<1>10. c # "\n"
  BY AuxKinds
<1>11. line' = line + LineEnds(pos, p - 1)
  BY <1>6, <1>7, <1>10, AuxTurnFacts
<1>12. pos <= p
  BY <1>3, <1>7
<1>13. AuxGoes(aux', p, line', 0)
  BY <1>1, <1>3, <1>6, <1>7, <1>9, <1>11, <1>12 DEF AuxGoes
<1>14. number_of_errors' - number_of_errors = 0
  BY <1>3, <1>6
<1> QED
  BY <1>6, <1>7, <1>13, <1>14

(* start_proc of the auxiliary scanner                                      *)
LEMMA AuxStartGoes ==
    ASSUME AuxTurn, aux_start_proc
    PROVE  AuxGoes(aux', pos', line', number_of_errors' - number_of_errors)
<1> DEFINE c == Char(pos)
<1>1. aux.automaton = "A_start" /\ ~AtZero /\ c \notin Spaces /\ aux.running
  BY DEF aux_start_proc, AuxIn
<1>2. First(aux.begin) = pos
  BY <1>1, AuxStartFacts
<1>3. /\ text \in Seq(STRING) /\ Len(text) \in Nat /\ pos \in Nat /\ pos <= Len(text) /\ pos >= 1
      /\ pos + 1 \in Places /\ IsAux(aux) /\ pos \in Places /\ line \in Nat
      /\ number_of_errors - number_of_errors = 0
  BY <1>1, AuxTurnFacts
<1>4. c # "\n" /\ line = line + LineEnds(pos, pos - 1) /\ line = line + LineEnds(pos, (pos + 1) - 1)
  BY <1>1, AuxKinds, AuxTurnFacts
<1>5. CASE c \in DOMAIN AuxDelimiter
  <2>1. aux' = GoAux("A_delimiter", "UnknownLexem", <<>>) /\ pos' = pos /\ line' = line
        /\ number_of_errors' = number_of_errors
    BY <1>5, AuxKinds DEF aux_start_proc, AuxBecome, MoveTo
  <2>2. /\ IsAux(aux') /\ aux'.begin = aux.begin /\ aux'.running /\ aux'.automaton = "A_delimiter"
        /\ aux'.beginLine = line /\ aux'.token = AuxToken("UnknownLexem", <<>>)
    BY <1>1, <1>3, <2>1, GoAuxIs
  <2>3. AuxRead(aux', pos, pos)
    BY <1>3, <1>5, <2>2 DEF AuxRead
  <2> QED
    BY <1>1, <1>2, <1>3, <1>4, <2>1, <2>2, <2>3, AuxEnterGoes
<1>6. CASE c = "$"
  <2>1. aux' = [GoAux("A_action", "Action", <<>>) EXCEPT !.buffer = <<>>] /\ pos' = pos + 1
        /\ line' = line /\ number_of_errors' = number_of_errors
    BY <1>6, AuxKinds DEF aux_start_proc, AuxBecome, MoveTo
  <2>2. /\ IsAux(aux') /\ aux'.begin = aux.begin /\ aux'.running /\ aux'.automaton = "A_action"
        /\ aux'.beginLine = line /\ aux'.token = AuxToken("Action", <<>>) /\ aux'.state = <<>>
        /\ aux'.buffer = <<>>
    <3>0. IsAux(aux) /\ line \in Nat
      BY <1>3
    <3>1. PICK r : r = GoAux("A_action", "Action", <<>>)
      OBVIOUS
    <3>2. aux' = [r EXCEPT !.buffer = <<>>]
      BY <2>1, <3>1
    <3>3. /\ IsAux(r) /\ r.begin = aux.begin /\ r.running = aux.running /\ r.automaton = "A_action"
          /\ r.beginLine = line /\ r.token = AuxToken("Action", <<>>) /\ r.state = <<>>
      BY <3>1, <3>0, PlainGoAuxIs
    <3> QED
      BY <1>1, <3>2, <3>3 DEF IsAux
  <2>3. PICK p : p = pos + 1
    OBVIOUS
  <2>4. pos < p /\ pos <= p /\ p - 1 = pos /\ (\A k \in pos + 1 .. p - 1 : FALSE) /\ pos = (pos + 1) - 1
    BY <1>3, <2>3
  <2>5. SubSeq(text, pos + 1, p - 1) = <<>>
    BY <1>3, <2>4, ShortPieces
  <2>6. <<>> # ActionBody
    BY DEF ActionBody
  <2>7. ActionRead(aux', p, pos)
    BY <1>6, <2>2, <2>3, <2>4, <2>5, <2>6 DEF ActionRead
  <2>8. AuxRead(aux', p, pos)
    BY <1>3, <2>2, <2>4, <2>7 DEF AuxRead
  <2>9. AuxGoes(aux', p, line', 0)
    BY <1>1, <1>2, <1>3, <1>4, <2>1, <2>2, <2>3, <2>8, AuxEnterGoes
  <2> QED
    BY <1>3, <2>1, <2>3, <2>9
<1>7. CASE c = "["
  <2>1. aux' = GoAux("A_class", "Character", <<"[">>) /\ pos' = pos + 1 /\ line' = line
        /\ number_of_errors' = number_of_errors
    BY <1>7, AuxKinds DEF aux_start_proc, AuxBecome, MoveTo
  <2>2. /\ IsAux(aux') /\ aux'.begin = aux.begin /\ aux'.running /\ aux'.automaton = "A_class"
        /\ aux'.beginLine = line /\ aux'.token = AuxToken("Character", <<"[">>) /\ aux'.state = <<>>
    BY <1>1, <1>3, <2>1, GoAuxIs
  <2>3. <<>> # Colon
    BY DEF Colon
  <2>4. ClassRead(aux', pos + 1, pos)
    BY <1>7, <2>2, <2>3 DEF ClassRead
  <2>5. AuxRead(aux', pos + 1, pos)
    BY <1>3, <2>2, <2>4 DEF AuxRead
  <2> QED
    BY <1>1, <1>2, <1>3, <1>4, <2>1, <2>2, <2>5, AuxEnterGoes
<1>8. CASE c = "\\"
  <2>1. aux' = GoAux("A_char", "Character", <<>>) /\ pos' = pos + 1 /\ line' = line
        /\ number_of_errors' = number_of_errors
    BY <1>8, AuxKinds DEF aux_start_proc, AuxBecome, MoveTo
  <2>2. /\ IsAux(aux') /\ aux'.begin = aux.begin /\ aux'.running /\ aux'.automaton = "A_char"
        /\ aux'.beginLine = line /\ aux'.token = AuxToken("Character", <<>>)
    BY <1>1, <1>3, <2>1, GoAuxIs
  <2>3. AuxRead(aux', pos + 1, pos)
    BY <1>3, <1>8, <2>2 DEF AuxRead
  <2> QED
    BY <1>1, <1>2, <1>3, <1>4, <2>1, <2>2, <2>3, AuxEnterGoes
<1>9. CASE c = "^"
  <2>1. aux' = GoAux("A_hat", "Character", <<"^">>) /\ pos' = pos + 1 /\ line' = line
        /\ number_of_errors' = number_of_errors
    BY <1>9, AuxKinds DEF aux_start_proc, AuxBecome, MoveTo
  <2>2. /\ IsAux(aux') /\ aux'.begin = aux.begin /\ aux'.running /\ aux'.automaton = "A_hat"
        /\ aux'.beginLine = line /\ aux'.token = AuxToken("Character", <<"^">>)
    BY <1>1, <1>3, <2>1, GoAuxIs
  <2>3. AuxRead(aux', pos + 1, pos)
    BY <1>3, <1>9, <2>2 DEF AuxRead
  <2> QED
    BY <1>1, <1>2, <1>3, <1>4, <2>1, <2>2, <2>3, AuxEnterGoes
<1>10. CASE c \notin DOMAIN AuxDelimiter \cup {"$", "[", "\\", "^"}
  <2>1. ReturnAux(GoAux("A_start", "Character", <<c>>), pos + 1)
    BY <1>10 DEF aux_start_proc
  <2> QED
    BY <1>1, <1>10, <2>1, AuxCharGoes
<1> QED
  BY <1>5, <1>6, <1>7, <1>8, <1>9, <1>10

(* What is known of a lexeme that is being read                             *)
LEMMA AuxReadFacts ==
    ASSUME AuxTurn, aux.automaton # "A_start", NEW b, b = First(aux.begin)
    PROVE  /\ b \in Nat /\ b <= Len(text) /\ b \in 1 .. Len(text) /\ b \in Places /\ b + 1 \in Places
           /\ b <= pos /\ ~(b > Len(text)) /\ AuxRead(aux, pos, b)
           /\ text \in Seq(STRING) /\ Len(text) \in Nat /\ IsAux(aux) /\ aux.running
           /\ pos \in Nat /\ pos \in Places /\ pos <= Len(text) + 1 /\ number_of_errors \in Nat /\ line \in Nat
           /\ (~AtZero => pos <= Len(text) /\ pos + 1 \in Places)
           /\ (AtZero => pos = Len(text) + 1 /\ Char(pos) = Zero)
           /\ (pos <= Len(text) => ~AtZero)
BY AuxWithinFacts, AuxTurnFacts, CharType

(* The end of a lexeme: its token, its place and its errors                 *)
LEMMA AuxLexemeEnds ==
    ASSUME AuxTurn, aux.automaton # "A_start", NEW r, NEW p, p \in {pos, pos + 1}, p \in Places,
           IsAux(r), r.begin = aux.begin, r.automaton = aux.automaton,
           r.beginLine = aux.beginLine, NEW n \in {0, 1},
           \/ ReturnAux(r, p) /\ n = IF r.automaton = "A_class" /\ r.token.likely THEN 1 ELSE 0
           \/ FailAux(r, p) /\ n = 1,
           p = pos + 1 => Char(pos) # "\n", NEW v,
           v = (IF r.token.code = "Action" THEN r.buffer ELSE r.token.value),
           AuxLexeme(aux.begin) = Found(AuxToken(r.token.code, v), p, n)
    PROVE  AuxGoes(aux', pos', line', number_of_errors' - number_of_errors)
<1>1. /\ IsAux(aux') /\ ~aux'.running /\ aux'.begin = aux.begin /\ aux'.automaton = aux.automaton
      /\ aux'.beginLine = aux.beginLine /\ aux'.token = AuxToken(r.token.code, v)
      /\ pos' = p /\ line' = line /\ number_of_errors' = number_of_errors + n
  BY ReturnAuxIs
<1>2. number_of_errors \in Nat /\ line = line + LineEnds(pos, p - 1)
  BY AuxTurnFacts
<1>3. number_of_errors' - number_of_errors = n
  BY <1>1, <1>2
<1>4. AuxGoes(aux', p, line', n)
  BY <1>1, <1>2, AuxReturnGoes
<1> QED
  BY <1>1, <1>3, <1>4

(* aux_delimiter_proc                                                       *)
LEMMA AuxDelimiterGoes ==
    ASSUME AuxTurn, aux_delimiter_proc
    PROVE  AuxGoes(aux', pos', line', number_of_errors' - number_of_errors)
<1>0. PICK b : b = First(aux.begin)
  OBVIOUS
<1> DEFINE r == WithToken(AuxDelimiter[Char(pos)], aux.token.value)
<1>1. aux.automaton = "A_delimiter" /\ ~AtZero /\ ReturnAux(r, pos + 1)
  BY DEF aux_delimiter_proc, AuxIn
<1>2. Char(b) \in DOMAIN AuxDelimiter /\ pos = b /\ aux.token = AuxToken("UnknownLexem", <<>>)
  BY <1>0, <1>1, AuxReadFacts DEF AuxRead
<1>3. IsAux(aux) /\ ~(b > Len(text)) /\ pos + 1 \in Places
  BY <1>0, <1>1, AuxReadFacts
<1>4. /\ IsAux(r) /\ r.begin = aux.begin /\ r.automaton = aux.automaton /\ r.beginLine = aux.beginLine
      /\ r.token = AuxToken(AuxDelimiter[Char(pos)], aux.token.value)
  BY <1>3 DEF IsAux, WithToken
<1> HIDE DEF r
<1>5. r.token.code = AuxDelimiter[Char(pos)] /\ r.token.value = <<>>
  BY <1>2, <1>4 DEF AuxToken
<1>6. AuxDelimiter[Char(b)] # "Action"
  BY <1>2 DEF AuxDelimiter
<1>7. AuxLexeme(aux.begin) = Found(AuxToken(AuxDelimiter[Char(b)], <<>>), b + 1, 0)
  BY <1>0, <1>2, <1>3, AuxLexemeIs
<1>8. Char(pos) # "\n"
  BY <1>2, AuxKinds
<1>9. r.automaton # "A_class"
  BY <1>1, <1>4
<1> QED
  BY <1>1, <1>2, <1>3, <1>4, <1>5, <1>6, <1>7, <1>8, <1>9, AuxLexemeEnds

(* char_proc: the character behind a backslash                              *)
LEMMA CharGoes ==
    ASSUME AuxTurn, char_proc
    PROVE  AuxGoes(aux', pos', line', number_of_errors' - number_of_errors)
<1>0. PICK b : b = First(aux.begin)
  OBVIOUS
<1>1. aux.automaton = "A_char" /\ ~AtZero
  BY DEF char_proc, AuxIn
<1>2. Char(b) = "\\" /\ pos = b + 1 /\ aux.token = AuxToken("Character", <<>>)
  BY <1>0, <1>1, AuxReadFacts DEF AuxRead
<1>3. IsAux(aux) /\ ~(b > Len(text)) /\ pos + 1 \in Places /\ pos \in Places /\ b \in Nat
  BY <1>0, <1>1, AuxReadFacts
<1>4. CharBehind(b) = Char(pos) /\ pos + 1 = b + 2
  BY <1>2, <1>3 DEF CharBehind
<1>5. ASSUME NEW w, NEW r, r = WithToken(aux.token.code, w)
      PROVE  /\ IsAux(r) /\ r.begin = aux.begin /\ r.automaton = aux.automaton
             /\ r.beginLine = aux.beginLine /\ r.token.code = "Character" /\ r.token.value = w
             /\ r.automaton # "A_class"
  <2>1. aux.token.code = "Character"
    BY <1>2 DEF AuxToken
  <2>2. /\ IsAux(r) /\ r.begin = aux.begin /\ r.automaton = aux.automaton
        /\ r.beginLine = aux.beginLine /\ r.token = AuxToken("Character", w)
    BY <1>3, <1>5, <2>1 DEF IsAux, WithToken
  <2> QED
    BY <1>1, <2>2 DEF AuxToken
<1>6. CASE Char(pos) \in AfterBackslash
  <2> DEFINE w == <<IF Char(pos) = "n" THEN "\n" ELSE Char(pos)>>
  <2>1. PICK r : r = WithToken(aux.token.code, w)
    OBVIOUS
  <2>2. ReturnAux(r, pos + 1)
    BY <1>6, <2>1 DEF char_proc
  <2>3. Char(pos) # "\n"
    BY <1>6, AuxKinds
  <2>4. AuxLexeme(aux.begin) = Found(AuxToken("Character", w), pos + 1, 0)
    BY <1>0, <1>2, <1>3, <1>4, <1>6, AuxLexemeIs
  <2> HIDE DEF w
  <2>5. /\ IsAux(r) /\ r.begin = aux.begin /\ r.automaton = aux.automaton
        /\ r.beginLine = aux.beginLine /\ r.token.code = "Character" /\ r.token.value = w
        /\ r.automaton # "A_class"
    BY <1>5, <2>1
  <2> QED
    BY <1>1, <1>3, <2>2, <2>3, <2>4, <2>5, AuxLexemeEnds
<1>7. CASE Char(pos) \notin AfterBackslash
  <2>1. PICK r : r = WithToken(aux.token.code, <<"\\">>)
    OBVIOUS
  <2>2. ReturnAux(r, pos)
    BY <1>7, <2>1 DEF char_proc
  <2>4. AuxLexeme(aux.begin) = Found(AuxToken("Character", <<"\\">>), pos, 0)
    BY <1>0, <1>2, <1>3, <1>4, <1>7, AuxLexemeIs
  <2>5. /\ IsAux(r) /\ r.begin = aux.begin /\ r.automaton = aux.automaton
        /\ r.beginLine = aux.beginLine /\ r.token.code = "Character" /\ r.token.value = <<"\\">>
        /\ r.automaton # "A_class"
    BY <1>5, <2>1
  <2>6. pos # pos + 1
    BY <1>3 DEF Places
  <2> QED
    BY <1>1, <1>3, <2>2, <2>4, <2>5, <2>6, AuxLexemeEnds
<1> QED
  BY <1>6, <1>7

(* hat_proc: the character behind ^                                         *)
LEMMA HatGoes ==
    ASSUME AuxTurn, hat_proc
    PROVE  AuxGoes(aux', pos', line', number_of_errors' - number_of_errors)
<1>0. PICK b : b = First(aux.begin)
  OBVIOUS
<1>1. aux.automaton = "A_hat" /\ ~AtZero
  BY DEF hat_proc, AuxIn
<1>2. Char(b) = "^" /\ pos = b + 1 /\ aux.token = AuxToken("Character", <<"^">>)
  BY <1>0, <1>1, AuxReadFacts DEF AuxRead
<1>3. IsAux(aux) /\ ~(b > Len(text)) /\ pos + 1 \in Places /\ pos \in Places /\ b \in Nat
  BY <1>0, <1>1, AuxReadFacts
<1>4. CharBehind(b) = Char(pos) /\ pos + 1 = b + 2 /\ pos # pos + 1
  BY <1>2, <1>3 DEF CharBehind
<1>5. aux.token.code = "Character" /\ aux.token.value = <<"^">> /\ aux.automaton # "A_class"
  BY <1>1, <1>2 DEF AuxToken
<1>6. CASE Char(pos) = "]"
  <2>1. PICK r : r = WithToken("End_char_class_complement", aux.token.value)
    OBVIOUS
  <2>2. ReturnAux(r, pos + 1)
    BY <1>6, <2>1 DEF hat_proc
  <2>3. AuxLexeme(aux.begin) = Found(AuxToken("End_char_class_complement", <<"^">>), pos + 1, 0)
    BY <1>0, <1>2, <1>3, <1>4, <1>6, AuxLexemeIs
  <2>4. /\ IsAux(r) /\ r.begin = aux.begin /\ r.automaton = aux.automaton
        /\ r.beginLine = aux.beginLine
        /\ r.token = AuxToken("End_char_class_complement", aux.token.value)
    BY <1>3, <2>1 DEF IsAux, WithToken
  <2>5. r.token.code = "End_char_class_complement" /\ r.token.value = <<"^">>
    BY <1>5, <2>4 DEF AuxToken
  <2> QED
    BY <1>1, <1>3, <1>5, <1>6, <2>2, <2>3, <2>4, <2>5, AuxLexemeEnds
<1>7. CASE Char(pos) # "]"
  <2>1. ReturnAux(aux, pos)
    BY <1>7 DEF hat_proc
  <2>2. AuxLexeme(aux.begin) = Found(AuxToken("Character", <<"^">>), pos, 0)
    BY <1>0, <1>2, <1>3, <1>4, <1>7, AuxLexemeIs
  <2> QED
    BY <1>1, <1>3, <1>4, <1>5, <2>1, <2>2, AuxLexemeEnds
<1> QED
  BY <1>6, <1>7

(* The name of an action that ends before e                                 *)
LEMMA ActionLexemeIs ==
    ASSUME text \in Seq(STRING), NEW b \in 1 .. Len(text), NEW e \in b + 1 .. Len(text) + 1,
           \A k \in b + 1 .. e - 1 : Char(k) \in Letters \cup Digits,
           e # b + 1 => Char(b + 1) \in Letters,
           e # b + 1 /\ e <= Len(text) => Char(e) \notin Letters \cup Digits,
           e = b + 1 => Char(b + 1) \notin Letters
    PROVE  ActionLexeme(b) = Found(AuxToken("Action", SubSeq(text, b + 1, e - 1)), e,
                                   IF e = b + 1 /\ b < Len(text) THEN 1 ELSE 0)
<1>1. Len(text) \in Nat
  BY CharType
<1>2. b + 1 \in Places
  BY <1>1 DEF Places
<1> DEFINE q == IF CharBehind(b) \in Letters THEN RunEnd(b + 1, Letters \cup Digits) ELSE b + 1
<1>3. q = e
  <2>1. CASE e = b + 1
    BY <2>1 DEF CharBehind
  <2>2. CASE e # b + 1
    <3>1. CharBehind(b) \in Letters
      BY <2>2 DEF CharBehind
    <3>2. RunEnd(b + 1, Letters \cup Digits) = e
      BY <1>2, <2>2, RunEndUnique
    <3> QED
      BY <3>1, <3>2
  <2> QED
    BY <2>1, <2>2
<1>4. ActionLexeme(b) = Found(AuxToken("Action", SubSeq(text, b + 1, q - 1)), q,
                              OneIf(q = b + 1 /\ b < Len(text)))
  BY DEF ActionLexeme
<1> HIDE DEF q
<1> QED
  BY <1>3, <1>4 DEF OneIf

(* What is known while the name of an action is read                        *)
LEMMA ActionFacts ==
    ASSUME AuxTurn, aux.automaton = "A_action", NEW b, b = First(aux.begin)
    PROVE  /\ ActionRead(aux, pos, b) /\ AuxLexeme(aux.begin) = ActionLexeme(b)
           /\ b \in 1 .. Len(text) /\ b \in Nat /\ b + 1 \in Places /\ text \in Seq(STRING)
           /\ Len(text) \in Nat /\ IsAux(aux) /\ aux.running /\ pos \in Nat /\ pos \in Places
           /\ pos \in b + 1 .. Len(text) + 1 /\ pos <= Len(text) + 1 /\ number_of_errors \in Nat /\ line \in Nat
           /\ (~AtZero => pos <= Len(text) /\ pos + 1 \in Places)
           /\ (AtZero => pos = Len(text) + 1 /\ Char(pos) = Zero)
           /\ (pos <= Len(text) => ~AtZero)
           /\ aux.token.code = "Action" /\ pos # pos + 1 /\ b + 1 # pos + 1
           /\ (pos - 1) + 1 = pos /\ pos - 1 \in (b + 1) - 1 .. Len(text)
<1>1. /\ b \in 1 .. Len(text) /\ b \in Nat /\ b + 1 \in Places /\ text \in Seq(STRING)
      /\ Len(text) \in Nat /\ IsAux(aux) /\ aux.running /\ pos \in Nat /\ pos \in Places
      /\ pos <= Len(text) + 1 /\ number_of_errors \in Nat /\ line \in Nat
      /\ (~AtZero => pos <= Len(text) /\ pos + 1 \in Places) /\ ~(b > Len(text))
      /\ (AtZero => pos = Len(text) + 1 /\ Char(pos) = Zero)
      /\ (pos <= Len(text) => ~AtZero) /\ AuxRead(aux, pos, b)
  BY AuxReadFacts
<1>2. ActionRead(aux, pos, b)
  BY <1>1 DEF AuxRead
<1>3. Char(b) = "$" /\ aux.token = AuxToken("Action", <<>>) /\ b < pos
  BY <1>2 DEF ActionRead
<1>4. AuxLexeme(aux.begin) = ActionLexeme(b)
  BY <1>1, <1>3, AuxLexemeIs
<1>5. aux.token.code = "Action"
  BY <1>3 DEF AuxToken
<1>6. pos \in b + 1 .. Len(text) + 1 /\ pos # pos + 1 /\ b + 1 # pos + 1
      /\ (pos - 1) + 1 = pos /\ pos - 1 \in (b + 1) - 1 .. Len(text)
  BY <1>1, <1>3
<1> QED
  BY <1>1, <1>2, <1>4, <1>5, <1>6

(* The name is read.                                                        *)
LEMMA ActionReturns ==
    ASSUME AuxTurn, aux.automaton = "A_action", ReturnAux(aux, pos),
           pos <= Len(text) => aux.state # <<>> /\ Char(pos) \notin Letters \cup Digits
    PROVE  AuxGoes(aux', pos', line', number_of_errors' - number_of_errors)
<1>0. PICK b : b = First(aux.begin)
  OBVIOUS
<1>1. /\ ActionRead(aux, pos, b) /\ AuxLexeme(aux.begin) = ActionLexeme(b)
      /\ b \in 1 .. Len(text) /\ b \in Nat /\ text \in Seq(STRING)
      /\ Len(text) \in Nat /\ IsAux(aux) /\ pos \in Nat /\ pos \in Places
      /\ pos \in b + 1 .. Len(text) + 1 /\ pos <= Len(text) + 1
      /\ (AtZero => pos = Len(text) + 1 /\ Char(pos) = Zero)
      /\ (pos <= Len(text) => ~AtZero) /\ (~AtZero => pos <= Len(text))
      /\ aux.token.code = "Action" /\ pos # pos + 1
  BY <1>0, ActionFacts
<1>2. /\ aux.state \in {<<>>, ActionBody} /\ (aux.state = <<>> => pos = b + 1)
      /\ (aux.state = ActionBody => b + 1 < pos /\ Char(b + 1) \in Letters)
      /\ aux.buffer = SubSeq(text, b + 1, pos - 1)
      /\ \A k \in b + 1 .. pos - 1 : Char(k) \in Letters \cup Digits
  BY <1>1 DEF ActionRead
<1>3. pos = b + 1 => AtZero /\ Char(b + 1) \notin Letters /\ ~(b < Len(text))
  <2>1. pos = b + 1 => aux.state # ActionBody
    BY <1>1, <1>2
  <2>2. pos = b + 1 => AtZero
    BY <1>1, <1>2, <2>1
  <2>3. \A c \in Letters : c # Zero
    BY AuxKinds
  <2> QED
    BY <1>1, <2>2, <2>3
<1>4. pos # b + 1 => Char(b + 1) \in Letters
  BY <1>2
<1>5. ActionLexeme(b) = Found(AuxToken("Action", SubSeq(text, b + 1, pos - 1)), pos,
                              IF pos = b + 1 /\ b < Len(text) THEN 1 ELSE 0)
  BY <1>1, <1>2, <1>3, <1>4, ActionLexemeIs
<1>6. ActionLexeme(b) = Found(AuxToken("Action", aux.buffer), pos, 0)
  BY <1>2, <1>3, <1>5
<1> QED
  BY <1>1, <1>6, AuxLexemeEnds

(* action_proc                                                              *)
LEMMA ActionGoes ==
    ASSUME AuxTurn, action_proc
    PROVE  AuxGoes(aux', pos', line', number_of_errors' - number_of_errors)
<1>0. PICK b : b = First(aux.begin)
  OBVIOUS
<1> DEFINE c == Char(pos)
<1>1. aux.automaton = "A_action" /\ ~AtZero
  BY DEF action_proc, AuxIn
<1>2. /\ ActionRead(aux, pos, b) /\ AuxLexeme(aux.begin) = ActionLexeme(b)
      /\ b \in 1 .. Len(text) /\ b \in Nat /\ b + 1 \in Places /\ text \in Seq(STRING)
      /\ Len(text) \in Nat /\ IsAux(aux) /\ aux.running /\ pos \in Nat /\ pos \in Places
      /\ pos \in b + 1 .. Len(text) + 1 /\ number_of_errors \in Nat /\ line \in Nat
      /\ pos <= Len(text) /\ pos + 1 \in Places
      /\ aux.token.code = "Action" /\ pos # pos + 1
      /\ (pos - 1) + 1 = pos /\ pos - 1 \in (b + 1) - 1 .. Len(text)
  BY <1>0, <1>1, ActionFacts
<1>3. /\ aux.state \in {<<>>, ActionBody} /\ (aux.state = <<>> => pos = b + 1)
      /\ (aux.state = ActionBody => b + 1 < pos /\ Char(b + 1) \in Letters)
      /\ aux.buffer = SubSeq(text, b + 1, pos - 1) /\ b < pos
      /\ Char(b) = "$" /\ aux.token = AuxToken("Action", <<>>)
      /\ \A k \in b + 1 .. pos - 1 : Char(k) \in Letters \cup Digits
  BY <1>2 DEF ActionRead
<1>4. <<>> # ActionBody
  BY DEF ActionBody
<1>5. ASSUME c \in Letters \cup Digits, aux.state = <<>> => c \in Letters,
             AuxBecome([aux EXCEPT !.buffer = Append(@, c), !.state = ActionBody]), MoveTo(pos + 1)
      PROVE  AuxGoes(aux', pos', line', number_of_errors' - number_of_errors)
  <2>1. /\ aux' = [aux EXCEPT !.buffer = Append(@, c), !.state = ActionBody]
        /\ pos' = pos + 1 /\ line' = line /\ number_of_errors' = number_of_errors
    BY <1>5 DEF AuxBecome, MoveTo
  <2> HIDE DEF c
  <2>2. /\ IsAux(aux') /\ aux'.begin = aux.begin /\ aux'.running /\ aux'.automaton = "A_action"
        /\ aux'.beginLine = aux.beginLine /\ aux'.state = ActionBody /\ aux'.token = AuxToken("Action", <<>>)
        /\ aux'.buffer = Append(aux.buffer, c)
    BY <1>1, <1>2, <1>3, <2>1 DEF IsAux
  <2>3. PICK p : p = pos + 1
    OBVIOUS
  <2>4. b < p /\ b <= p /\ b <= Len(text) /\ b + 1 < p /\ p - 1 = pos
        /\ \A k \in b + 1 .. p - 1 : k = pos \/ k \in b + 1 .. pos - 1
    BY <1>2, <1>3, <2>3
  <2>5. \A k \in b + 1 .. p - 1 : Char(k) \in Letters \cup Digits
    BY <1>3, <1>5, <2>4 DEF c
  <2>6. Char(b + 1) \in Letters
    BY <1>3, <1>5 DEF c
  <2>7. aux'.buffer = SubSeq(text, b + 1, p - 1)
    <3>1. pos - 1 # Len(text)
      BY <1>2
    <3>2. SubSeq(text, b + 1, (pos - 1) + 1) = Append(SubSeq(text, b + 1, pos - 1), Char((pos - 1) + 1))
      BY <1>2, <3>1, LongerPiece
    <3> QED
      BY <1>2, <1>3, <2>2, <2>4, <3>2 DEF c
  <2>8. ActionRead(aux', p, b)
    BY <1>3, <1>4, <2>2, <2>4, <2>5, <2>6, <2>7 DEF ActionRead
  <2>9. AuxRead(aux', p, b)
    BY <2>2, <2>4, <2>8 DEF AuxRead
  <2>10. c # "\n"
    BY <1>5, AuxKinds
  <2>11. line' = line + LineEnds(pos, p - 1)
    <3>1. Char(pos) # "\n"
      BY <2>10 DEF c
    <3>2. line = line + LineEnds(pos, (pos + 1) - 1)
      BY <3>1, AuxTurnFacts
    <3> QED
      BY <2>1, <2>3, <3>2
  <2>12. AuxGoes(aux', p, line', 0)
    BY <1>0, <1>1, <2>2, <2>3, <2>9, <2>11, AuxWithinGoes
  <2>13. number_of_errors' - number_of_errors = 0
    BY <1>2, <2>1
  <2> QED
    BY <2>1, <2>3, <2>12, <2>13
<1>6. CASE aux.state = <<>> /\ c \in Letters
  BY <1>5, <1>6 DEF action_proc
<1>7. CASE aux.state # <<>> /\ c \in Letters \cup Digits
  BY <1>5, <1>7 DEF action_proc
<1>8. CASE aux.state = <<>> /\ c \notin Letters
  <2>1. FailAux(aux, pos)
    BY <1>8 DEF action_proc
  <2>2. pos = b + 1 /\ b < Len(text)
    BY <1>2, <1>3, <1>8
  <2>3. ActionLexeme(b) = Found(AuxToken("Action", SubSeq(text, b + 1, pos - 1)), pos,
                                IF pos = b + 1 /\ b < Len(text) THEN 1 ELSE 0)
    BY <1>2, <1>3, <1>8, <2>2, ActionLexemeIs
  <2>4. ActionLexeme(b) = Found(AuxToken("Action", aux.buffer), pos, 1)
    BY <1>3, <2>2, <2>3
  <2> HIDE DEF c
  <2> QED
    BY <1>1, <1>2, <2>1, <2>4, AuxLexemeEnds
<1>9. CASE aux.state # <<>> /\ c \notin Letters \cup Digits
  <2>1. ReturnAux(aux, pos)
    BY <1>9 DEF action_proc
  <2> QED
    BY <1>1, <1>9, <2>1, ActionReturns
<1> QED
  BY <1>6, <1>7, <1>8, <1>9

(* What begins with a bracket                                               *)
LEMMA ClassLexemeIs ==
    ASSUME text \in Seq(STRING), NEW b \in 1 .. Len(text)
    PROVE  /\ Char(b + 1) = "^" => ClassLexeme(b) =
                  Found(AuxToken("Begin_char_class_complement", <<"[">>), b + 2, 0)
           /\ Char(b + 1) \notin {":", "^"} => ClassLexeme(b) =
                  Found(AuxToken("Character", <<"[">>), b + 1, 0)
BY DEF ClassLexeme, CharBehind

(* The lexeme that begins with [: , by the longest beginning of a name      *)
LEMMA ClassNameIs ==
    ASSUME text \in Seq(STRING), NEW b \in 1 .. Len(text), b < Len(text), Char(b + 1) = ":",
           NEW q \in b + 2 .. Len(text) + 1, NEW p, p = SubSeq(text, b + 2, q - 1),
           q # b + 2 => p \in ClassPrefixes,
           q <= Len(text) => SubSeq(text, b + 2, q) \notin ClassPrefixes
    PROVE  /\ q = b + 2 => ClassLexeme(b) =
                  IF q <= Len(text) THEN Found(AuxToken("Character", <<"[">>), q, 1)
                  ELSE Found(AuxToken("UnknownLexem", <<"[">>), q, 0)
           /\ q # b + 2 => ClassLexeme(b) =
                  Found(AuxToken("Class", ClassCode(p).value), q, IF ClassCode(p).likely THEN 1 ELSE 0)
<1>1. Len(text) \in Nat
  BY CharType
<1>2. b \in Nat /\ q \in Nat /\ b + 2 \in Places /\ q - 1 \in (b + 2) - 1 .. Len(text)
      /\ (q - 1) + 1 - (b + 2) = q - (b + 2) /\ (q # b + 2 => q - (b + 2) >= 1)
      /\ q = (b + 2) + (q - (b + 2))
  BY <1>1 DEF Places
<1>3. LongestAt(b + 2, ClassPrefixes) = p
  BY <1>2, ClassType, LongestIs DEF ClassPrefixes
<1>4. Len(p) = q - (b + 2)
  BY <1>2, Piece
<1>5. CharBehind(b) = ":" /\ ":" # "^"
  BY DEF CharBehind
<1>6. CASE q = b + 2
  <2>1. p = <<>>
    <3>1. q - 1 = (b + 2) - 1
      BY <1>2, <1>6
    <3> QED
      BY <1>2, <3>1, ShortPieces
  <2>2. b + 1 = Len(text) <=> ~(q <= Len(text))
    BY <1>1, <1>2, <1>6
  <2> QED
    BY <1>3, <1>5, <1>6, <2>1, <2>2 DEF ClassLexeme
<1>7. CASE q # b + 2
  <2>1. p # <<>>
    <3>1. Len(p) >= 1
      BY <1>2, <1>4, <1>7
    <3> QED
      BY <3>1
  <2>2. b + 2 + Len(p) = q
    BY <1>2, <1>4
  <2>3. ClassCode(p).likely = (p \notin ClassWord)
    <3>1. PICK v : ClassCode(p) = [code |-> "Class", value |-> v, likely |-> p \notin ClassWord]
      BY Zenon DEF ClassCode
    <3> QED
      BY <3>1
  <2>4. ClassLexeme(b) = Found(AuxToken("Class", ClassCode(p).value), b + 2 + Len(p),
                               OneIf(p \notin ClassWord))
    BY <1>3, <1>5, <2>1 DEF ClassLexeme
  <2> QED
    BY <1>7, <2>2, <2>3, <2>4 DEF OneIf
<1> QED
  BY <1>6, <1>7

(* What is known while a class is read                                      *)
LEMMA ClassFacts ==
    ASSUME AuxTurn, aux.automaton = "A_class", NEW b, b = First(aux.begin)
    PROVE  /\ ClassRead(aux, pos, b) /\ AuxLexeme(aux.begin) = ClassLexeme(b) /\ Char(b) = "["
           /\ b \in 1 .. Len(text) /\ b \in Nat /\ b + 1 \in Places /\ text \in Seq(STRING)
           /\ Len(text) \in Nat /\ IsAux(aux) /\ aux.running /\ pos \in Nat /\ pos \in Places
           /\ pos <= Len(text) + 1 /\ number_of_errors \in Nat /\ line \in Nat
           /\ (~AtZero => pos <= Len(text) /\ pos + 1 \in Places)
           /\ (AtZero => pos = Len(text) + 1 /\ Char(pos) = Zero)
           /\ (pos <= Len(text) => ~AtZero)
           /\ pos # pos + 1 /\ (pos - 1) + 1 = pos
<1>1. /\ b \in 1 .. Len(text) /\ b \in Nat /\ b + 1 \in Places /\ text \in Seq(STRING)
      /\ Len(text) \in Nat /\ IsAux(aux) /\ aux.running /\ pos \in Nat /\ pos \in Places
      /\ pos <= Len(text) + 1 /\ number_of_errors \in Nat /\ line \in Nat
      /\ (~AtZero => pos <= Len(text) /\ pos + 1 \in Places) /\ ~(b > Len(text))
      /\ (AtZero => pos = Len(text) + 1 /\ Char(pos) = Zero)
      /\ (pos <= Len(text) => ~AtZero) /\ AuxRead(aux, pos, b)
  BY AuxReadFacts
<1>2. ClassRead(aux, pos, b)
  BY <1>1 DEF AuxRead
<1>3. Char(b) = "["
  BY <1>2 DEF ClassRead
<1>4. AuxLexeme(aux.begin) = ClassLexeme(b)
  BY <1>1, <1>3, AuxLexemeIs
<1>5. pos # pos + 1 /\ (pos - 1) + 1 = pos
  BY <1>1
<1> QED
  BY <1>1, <1>2, <1>3, <1>4, <1>5

(* A bracket by itself *)
LEMMA BracketReturns ==
    ASSUME AuxTurn, aux.automaton = "A_class", aux.state = <<>>, Char(pos) \notin {":", "^"},
           ReturnAux(aux, pos)
    PROVE  AuxGoes(aux', pos', line', number_of_errors' - number_of_errors)
<1>0. PICK b : b = First(aux.begin)
  OBVIOUS
<1>1. /\ ClassRead(aux, pos, b) /\ AuxLexeme(aux.begin) = ClassLexeme(b)
      /\ b \in 1 .. Len(text) /\ b \in Nat /\ text \in Seq(STRING) /\ IsAux(aux) /\ pos \in Places
      /\ pos # pos + 1
  BY <1>0, ClassFacts
<1>2. pos = b + 1 /\ aux.token = AuxToken("Character", <<"[">>)
  BY <1>1 DEF ClassRead
<1>3. aux.token.code = "Character" /\ aux.token.value = <<"[">> /\ ~aux.token.likely
  BY <1>2 DEF AuxToken
<1>4. ClassLexeme(b) = Found(AuxToken("Character", <<"[">>), pos, 0)
  BY <1>1, <1>2, ClassLexemeIs
<1> QED
  BY <1>1, <1>3, <1>4, AuxLexemeEnds

(* classes_begin                                                            *)
LEMMA ClassBeginGoes ==
    ASSUME AuxTurn, classes_begin
    PROVE  AuxGoes(aux', pos', line', number_of_errors' - number_of_errors)
<1>0. PICK b : b = First(aux.begin)
  OBVIOUS
<1>1. aux.automaton = "A_class" /\ ~AtZero /\ aux.state = <<>>
  BY DEF classes_begin, AuxIn
<1>2. /\ ClassRead(aux, pos, b) /\ AuxLexeme(aux.begin) = ClassLexeme(b) /\ Char(b) = "["
      /\ b \in 1 .. Len(text) /\ b \in Nat /\ text \in Seq(STRING) /\ IsAux(aux) /\ aux.running
      /\ pos \in Places /\ pos \in Nat /\ Len(text) \in Nat /\ number_of_errors \in Nat /\ line \in Nat
      /\ pos + 1 \in Places /\ pos <= Len(text)
  BY <1>0, <1>1, ClassFacts
<1>3. pos = b + 1 /\ aux.token = AuxToken("Character", <<"[">>)
  BY <1>1, <1>2 DEF ClassRead
<1>4. aux.token.code = "Character" /\ aux.token.value = <<"[">> /\ ~aux.token.likely
  BY <1>3 DEF AuxToken
<1>5. CASE Char(pos) = ":"
  <2>1. /\ aux' = [aux EXCEPT !.state = Colon] /\ pos' = pos + 1 /\ line' = line
        /\ number_of_errors' = number_of_errors
    BY <1>5 DEF classes_begin, AuxBecome, MoveTo
  <2>2. /\ IsAux(aux') /\ aux'.begin = aux.begin /\ aux'.running /\ aux'.automaton = "A_class"
        /\ aux'.beginLine = aux.beginLine /\ aux'.state = Colon
        /\ aux'.token = AuxToken("Character", <<"[">>)
    BY <1>1, <1>2, <1>3, <2>1 DEF IsAux
  <2>3. PICK p : p = pos + 1
    OBVIOUS
  <2>4. p = b + 2 /\ b <= p /\ b <= Len(text) /\ b < Len(text)
    BY <1>2, <1>3, <2>3
  <2>5. <<>> # Colon
    BY DEF Colon
  <2>6. ClassRead(aux', p, b)
    BY <1>2, <1>3, <1>5, <2>2, <2>4, <2>5 DEF ClassRead
  <2>7. AuxRead(aux', p, b)
    BY <2>2, <2>4, <2>6 DEF AuxRead
  <2>8. line' = line + LineEnds(pos, p - 1)
    <3>1. Char(pos) # "\n"
      BY <1>5
    <3> QED
      BY <3>1, <2>1, <2>3, AuxTurnFacts
  <2>9. AuxGoes(aux', p, line', 0)
    BY <1>0, <1>1, <2>2, <2>3, <2>7, <2>8, AuxWithinGoes
  <2>10. number_of_errors' - number_of_errors = 0
    BY <1>2, <2>1
  <2> QED
    BY <2>1, <2>3, <2>9, <2>10
<1>6. CASE Char(pos) = "^"
  <2>1. PICK r : r = WithToken("Begin_char_class_complement", aux.token.value)
    OBVIOUS
  <2>2. ReturnAux(r, pos + 1)
    BY <1>6, <2>1 DEF classes_begin
  <2>3. ClassLexeme(b) = Found(AuxToken("Begin_char_class_complement", <<"[">>), pos + 1, 0)
    <3>1. pos + 1 = b + 2
      BY <1>2, <1>3
    <3> QED
      BY <1>2, <1>3, <1>6, <3>1, ClassLexemeIs
  <2>4. /\ IsAux(r) /\ r.begin = aux.begin /\ r.automaton = aux.automaton
        /\ r.beginLine = aux.beginLine
        /\ r.token = AuxToken("Begin_char_class_complement", aux.token.value)
    BY <1>2, <2>1 DEF IsAux, WithToken
  <2>5. r.token.code = "Begin_char_class_complement" /\ r.token.value = <<"[">> /\ ~r.token.likely
    BY <1>4, <2>4 DEF AuxToken
  <2>6. Char(pos) # "\n"
    BY <1>6
  <2> QED
    BY <1>1, <1>2, <2>2, <2>3, <2>4, <2>5, <2>6, AuxLexemeEnds
<1>7. CASE Char(pos) \notin {":", "^"}
  <2>1. ReturnAux(aux, pos)
    BY <1>7 DEF classes_begin
  <2> QED
    BY <1>1, <1>7, <2>1, BracketReturns
<1> QED
  BY <1>5, <1>6, <1>7

(* A colon begins no name of a class. *)
LEMMA ColonIsNoClass ==
    /\ Colon \notin ClassPrefixes
    /\ \A p \in ClassPrefixes : p # <<>>
<1>1. ASSUME NEW p \in ClassPrefixes PROVE p # <<>>
  <2>1. Len(p) >= 1
    BY ClassType, PrefixesClosed DEF ClassPrefixes
  <2>2. Len(<<>>) = 0
    OBVIOUS
  <2> QED
    BY <2>1, <2>2
<1>2. ASSUME Colon \in ClassPrefixes PROVE FALSE
  <2>0. PICK w \in ClassWord : \E n \in 1 .. Len(w) : Colon = SubSeq(w, 1, n)
    BY <1>2 DEF ClassPrefixes, Beginnings
  <2>1. PICK n \in 1 .. Len(w) : Colon = SubSeq(w, 1, n)
    BY <2>0
  <2>2. PICK x \in ClassNames : w = Spelled(x) \o <<":", "]">>
    BY DEF ClassWord
  <2>3. Len(x) \in Nat /\ Len(x) >= 1 /\ Spelled(x) \in Seq(Letters) /\ Len(Spelled(x)) = Len(x)
    BY ClassAssumption, SpelledType
  <2>4. w \in Seq(Letters \cup {":", "]"}) /\ Len(w) \in Nat
    BY ClassType
  <2>5. w[1] = Spelled(x)[1] /\ Spelled(x)[1] \in Letters
    <3>1. 1 \in 1 .. Len(Spelled(x))
      BY <2>3
    <3>2. Spelled(x)[1] \in Letters
      BY <2>3, <3>1, ElementOfSeq
    <3> HIDE DEF Letters
    <3>3. w[1] = Spelled(x)[1]
      BY <2>2, <2>3, <3>1
    <3> QED
      BY <3>2, <3>3
  <2>6. SubSeq(w, 1, n)[1] = w[1]
    BY <2>4
  <2>7. Colon[1] = ":"
    BY DEF Colon
  <2>8. ":" \notin Letters
    BY DEF Letters
  <2> QED
    BY <2>1, <2>5, <2>6, <2>7, <2>8
<1> QED
  BY <1>1, <1>2

(* The last position of a name within the name                              *)
LEMMA LastOfName ==
    ASSUME NEW b \in Nat, NEW p \in Nat, b + 2 <= p
    PROVE  p + 1 - (b + 2) \in 1 .. p + 1 - (b + 2) /\ b + 2 + (p + 1 - (b + 2)) - 1 = p
OBVIOUS

(* One more character of the name of a class                                *)
LEMMA ClassLonger ==
    ASSUME AuxTurn, aux.automaton = "A_class", ~AtZero, NEW b, b = First(aux.begin),
           Char(b + 1) = ":", b < Len(text), b + 2 <= pos, NEW s, NEW tok,
           s \in ClassPrefixes, s = SubSeq(text, b + 2, pos),
           aux' = [aux EXCEPT !.token = tok, !.state = s], MoveTo(pos + 1)
    PROVE  AuxGoes(aux', pos', line', number_of_errors' - number_of_errors)
<1>1. /\ Char(b) = "["
      /\ b \in 1 .. Len(text) /\ b \in Nat /\ text \in Seq(STRING) /\ IsAux(aux) /\ aux.running
      /\ pos \in Places /\ pos \in Nat /\ Len(text) \in Nat /\ number_of_errors \in Nat /\ line \in Nat
      /\ pos + 1 \in Places /\ pos <= Len(text)
  BY ClassFacts
<1>2. pos' = pos + 1 /\ line' = line /\ number_of_errors' = number_of_errors
  BY DEF MoveTo
<1>3. /\ IsAux(aux') /\ aux'.begin = aux.begin /\ aux'.running /\ aux'.automaton = "A_class"
      /\ aux'.beginLine = aux.beginLine /\ aux'.state = s
  BY <1>1 DEF IsAux
<1>4. PICK p : p = pos + 1
  OBVIOUS
<1>5. b + 2 < p /\ b <= p /\ b <= Len(text) /\ p - 1 = pos
  BY <1>1, <1>4
<1>6. s # <<>> /\ s # Colon
  BY ColonIsNoClass
<1>7. ClassRead(aux', p, b)
  BY <1>1, <1>3, <1>5, <1>6 DEF ClassRead
<1>8. AuxRead(aux', p, b)
  BY <1>3, <1>5, <1>7 DEF AuxRead
<1>9. Char(pos) # "\n"
  <2>2. PICK k : k = pos + 1 - (b + 2)
    OBVIOUS
  <2>1. b + 2 \in Places /\ pos \in (b + 2) - 1 .. Len(text)
    <3>1. b + 2 \in 1 .. Len(text) + 1 /\ pos \in (b + 2) - 1 .. Len(text)
      BY <1>1
    <3> QED
      BY <3>1 DEF Places
  <2>3. Len(s) = k /\ s[k] = Char(b + 2 + k - 1)
    <3>1. k \in 1 .. k
      BY <1>1, <2>2
    <3> QED
      BY <1>1, <2>1, <2>2, <3>1, Piece
  <2>4. k \in 1 .. Len(s) /\ b + 2 + k - 1 = pos
    <3>1. b \in Nat /\ pos \in Nat
      BY <1>1
    <3>2. pos + 1 - (b + 2) \in 1 .. pos + 1 - (b + 2) /\ b + 2 + (pos + 1 - (b + 2)) - 1 = pos
      BY <3>1, LastOfName
    <3>3. k \in 1 .. k /\ b + 2 + k - 1 = pos
      BY <2>2, <3>2
    <3> QED
      BY <2>3, <3>3
  <2> QED
    BY <2>3, <2>4, ClassType
<1>10. line' = line + LineEnds(pos, p - 1)
  <2>1. LineEnds(pos, (pos + 1) - 1) = 0
    BY <1>1, <1>9, LineEndsShort
  <2>2. line = line + 0
    BY <1>1
  <2> QED
    BY <1>2, <1>4, <2>1, <2>2
<1>11. AuxGoes(aux', p, line', 0)
  BY <1>3, <1>4, <1>8, <1>10, AuxWithinGoes
<1>12. number_of_errors' - number_of_errors = 0
  BY <1>1, <1>2
<1> QED
  BY <1>2, <1>4, <1>11, <1>12

(* classes_first                                                            *)
LEMMA ClassFirstGoes ==
    ASSUME AuxTurn, classes_first
    PROVE  AuxGoes(aux', pos', line', number_of_errors' - number_of_errors)
<1>0. PICK b : b = First(aux.begin)
  OBVIOUS
<1>1. aux.automaton = "A_class" /\ ~AtZero /\ aux.state = Colon
  BY DEF classes_first, AuxIn
<1>2. /\ ClassRead(aux, pos, b) /\ AuxLexeme(aux.begin) = ClassLexeme(b)
      /\ b \in 1 .. Len(text) /\ b \in Nat /\ text \in Seq(STRING) /\ IsAux(aux)
      /\ pos \in Places /\ pos \in Nat /\ Len(text) \in Nat /\ pos <= Len(text) /\ pos # pos + 1
  BY <1>0, <1>1, ClassFacts
<1>3. <<>> # Colon
  BY DEF Colon
<1>4. pos = b + 2 /\ Char(b + 1) = ":" /\ b < Len(text) /\ aux.token = AuxToken("Character", <<"[">>)
  BY <1>1, <1>2, <1>3 DEF ClassRead
<1>5. SubSeq(text, b + 2, pos) = <<Char(pos)>> /\ SubSeq(text, b + 2, pos - 1) = <<>>
  BY <1>2, <1>4, ShortPieces
<1>6. CASE <<Char(pos)>> \in ClassPrefixes
  <2>1. aux' = [aux EXCEPT !.state = <<Char(pos)>>, !.token = ClassCode(<<Char(pos)>>)] /\ MoveTo(pos + 1)
    BY <1>6 DEF classes_first, AuxBecome
  <2>2. PICK s : s = <<Char(pos)>>
    OBVIOUS
  <2>3. aux' = [aux EXCEPT !.token = ClassCode(s), !.state = s]
    BY <1>2, <2>1, <2>2 DEF IsAux
  <2>4. b + 2 <= pos /\ s \in ClassPrefixes /\ s = SubSeq(text, b + 2, pos)
    <3>1. b + 2 <= pos
      BY <1>2, <1>4
    <3>2. s \in ClassPrefixes
      BY <1>6, <2>2
    <3>3. s = SubSeq(text, b + 2, pos)
      BY <1>5, <2>2
    <3> QED
      BY <3>1, <3>2, <3>3
  <2>5. /\ aux.automaton = "A_class" /\ ~AtZero /\ b = First(aux.begin) /\ Char(b + 1) = ":"
        /\ b < Len(text) /\ MoveTo(pos + 1)
    BY <1>0, <1>1, <1>4, <2>1
  <2> QED
    BY <2>3, <2>4, <2>5, ClassLonger
<1>7. CASE <<Char(pos)>> \notin ClassPrefixes
  <2>1. FailAux(aux, pos)
    BY <1>7 DEF classes_first
  <2>2. aux.token.code = "Character" /\ aux.token.value = <<"[">>
    BY <1>4 DEF AuxToken
  <2>3. ClassLexeme(b) = Found(AuxToken("Character", <<"[">>), pos, 1)
    <3>1. pos \in b + 2 .. Len(text) + 1
      BY <1>2, <1>4
    <3> QED
      BY <1>2, <1>4, <1>5, <1>7, <3>1, ClassNameIs
  <2> QED
    BY <1>1, <1>2, <2>1, <2>2, <2>3, AuxLexemeEnds
<1> QED
  BY <1>6, <1>7

(* The beginning that was read is the class.                                *)
LEMMA ClassReturns ==
    ASSUME AuxTurn, aux.automaton = "A_class", aux.state \notin {<<>>, Colon},
           ReturnAux([aux EXCEPT !.token = ClassCode(aux.state)], pos),
           ~AtZero => Append(aux.state, Char(pos)) \notin ClassPrefixes
    PROVE  AuxGoes(aux', pos', line', number_of_errors' - number_of_errors)
<1>0. PICK b : b = First(aux.begin)
  OBVIOUS
<1>1. /\ ClassRead(aux, pos, b) /\ AuxLexeme(aux.begin) = ClassLexeme(b)
      /\ b \in 1 .. Len(text) /\ b \in Nat /\ text \in Seq(STRING) /\ IsAux(aux)
      /\ pos \in Places /\ pos \in Nat /\ Len(text) \in Nat /\ pos # pos + 1 /\ pos <= Len(text) + 1
      /\ (pos <= Len(text) => ~AtZero) /\ (pos - 1) + 1 = pos
  BY <1>0, ClassFacts
<1>2. /\ b + 2 < pos /\ aux.state = SubSeq(text, b + 2, pos - 1) /\ aux.state \in ClassPrefixes
      /\ Char(b + 1) = ":" /\ b < Len(text)
  BY <1>1 DEF ClassRead
<1>3. b + 2 \in Places /\ pos - 1 \in (b + 2) - 1 .. Len(text) /\ pos \in b + 2 .. Len(text) + 1
      /\ pos # b + 2
  BY <1>1, <1>2 DEF Places
<1>4. pos <= Len(text) => SubSeq(text, b + 2, pos) = Append(aux.state, Char(pos))
  <2>1. pos <= Len(text) => pos - 1 # Len(text)
    BY <1>1
  <2>2. pos <= Len(text) =>
            SubSeq(text, b + 2, (pos - 1) + 1) = Append(SubSeq(text, b + 2, pos - 1), Char((pos - 1) + 1))
    BY <1>1, <1>3, <2>1, LongerPiece
  <2> QED
    BY <1>1, <1>2, <2>2
<1>5. PICK tok : tok = ClassCode(aux.state)
  OBVIOUS
<1>6. PICK r : r = [aux EXCEPT !.token = tok]
  OBVIOUS
<1>7. PICK n : n = IF tok.likely THEN 1 ELSE 0
  OBVIOUS
<1>8. ClassLexeme(b) = Found(AuxToken("Class", tok.value), pos, n)
  BY <1>1, <1>2, <1>3, <1>4, <1>5, <1>7, ClassNameIs
<1>9. tok.code = "Class"
  <2>1. PICK v : ClassCode(aux.state) =
                     [code |-> "Class", value |-> v, likely |-> aux.state \notin ClassWord]
    BY Zenon DEF ClassCode
  <2> QED
    BY <2>1, <1>5
<1>10. /\ IsAux(r) /\ r.begin = aux.begin /\ r.automaton = "A_class" /\ r.beginLine = aux.beginLine
       /\ r.token = tok
  BY <1>1, <1>6 DEF IsAux
<1>11. n \in {0, 1}
  BY <1>7
<1>12. ReturnAux(r, pos) /\ n = IF r.automaton = "A_class" /\ r.token.likely THEN 1 ELSE 0
  BY <1>5, <1>6, <1>7, <1>10
<1>13. r.token.code = "Class" /\ r.token.value = tok.value /\ "Class" # "Action"
  BY <1>9, <1>10
<1> QED
  BY <1>1, <1>8, <1>10, <1>11, <1>12, <1>13, AuxLexemeEnds

(* classes_proc                                                             *)
LEMMA ClassGoes ==
    ASSUME AuxTurn, classes_proc
    PROVE  AuxGoes(aux', pos', line', number_of_errors' - number_of_errors)
<1>0. PICK b : b = First(aux.begin)
  OBVIOUS
<1>1. aux.automaton = "A_class" /\ ~AtZero /\ aux.state \notin {<<>>, Colon}
  BY DEF classes_proc, AuxIn
<1>2. PICK longer : longer = Append(aux.state, Char(pos))
  OBVIOUS
<1>3. CASE longer \notin ClassPrefixes
  <2>1. ReturnAux([aux EXCEPT !.token = ClassCode(aux.state)], pos)
    BY <1>2, <1>3 DEF classes_proc
  <2> QED
    BY <1>1, <1>2, <1>3, <2>1, ClassReturns
<1>4. CASE longer \in ClassPrefixes
  <2>1. /\ ClassRead(aux, pos, b) /\ b \in 1 .. Len(text) /\ b \in Nat /\ text \in Seq(STRING)
        /\ IsAux(aux) /\ pos \in Nat /\ Len(text) \in Nat /\ pos <= Len(text) /\ (pos - 1) + 1 = pos
    BY <1>0, <1>1, ClassFacts
  <2>2. /\ b + 2 < pos /\ aux.state = SubSeq(text, b + 2, pos - 1)
        /\ Char(b + 1) = ":" /\ b < Len(text)
    BY <1>1, <2>1 DEF ClassRead
  <2>3. aux' = [aux EXCEPT !.token = ClassCode(aux.state), !.state = longer] /\ MoveTo(pos + 1)
    BY <1>2, <1>4 DEF classes_proc, AuxBecome
  <2>4. b + 2 \in Places /\ pos - 1 \in (b + 2) - 1 .. Len(text) /\ pos - 1 # Len(text) /\ b + 2 <= pos
    BY <2>1, <2>2 DEF Places
  <2>5. SubSeq(text, b + 2, pos) = longer
    <3>1. SubSeq(text, b + 2, (pos - 1) + 1) = Append(SubSeq(text, b + 2, pos - 1), Char((pos - 1) + 1))
      BY <2>1, <2>4, LongerPiece
    <3> QED
      BY <1>2, <2>1, <2>2, <3>1
  <2> QED
    BY <1>0, <1>1, <1>4, <2>2, <2>3, <2>4, <2>5, ClassLonger
<1> QED
  BY <1>3, <1>4

(* At the end of the text *)
LEMMA AuxStartEndGoes ==
    ASSUME AuxTurn, aux.automaton = "A_start", AtZero, ReturnAux(aux, pos)
    PROVE  AuxGoes(aux', pos', line', number_of_errors' - number_of_errors)
<1>1. /\ Len(text) \in Nat /\ pos = Len(text) + 1 /\ pos \in Nat /\ IsAux(aux)
      /\ pos \in Places /\ number_of_errors \in Nat /\ line = line + LineEnds(pos, pos - 1)
  BY AuxTurnFacts
<1>2. First(aux.begin) = pos /\ aux.token = AuxToken("Nothing", <<>>)
  BY AuxStartFacts
<1>3. pos > Len(text)
  BY <1>1
<1>4. AuxLexeme(aux.begin) = Found(AuxToken("Nothing", <<>>), pos, 0)
  BY <1>2, <1>3, AuxLexemeIs
<1>5. aux.token.code = "Nothing" /\ aux.token.value = <<>> /\ "Nothing" # "Action"
  BY <1>2 DEF AuxToken
<1>6. /\ IsAux(aux') /\ ~aux'.running /\ aux'.begin = aux.begin /\ aux'.automaton = "A_start"
      /\ aux'.token = AuxToken("Nothing", <<>>) /\ line' = line
      /\ pos' = pos /\ number_of_errors' = number_of_errors + 0
  BY <1>1, <1>5, ReturnAuxIs
<1>7. aux'.token.code = "Nothing" /\ AuxFound(aux', pos) /\ AuxLexeme(aux'.begin).errors = 0
  <2>1. aux'.token.code = "Nothing"
    BY <1>6 DEF AuxToken
  <2>2. AuxLexeme(aux'.begin) = Found(aux'.token, pos, 0)
    BY <1>4, <1>6
  <2> QED
    BY <2>1, <2>2 DEF AuxFound, Found
<1>8. AuxGoes(aux', pos, line', 0)
  BY <1>1, <1>6, <1>7 DEF AuxGoes
<1>9. number_of_errors' - number_of_errors = 0
  BY <1>1, <1>6
<1> QED
  BY <1>6, <1>8, <1>9

(* The text ends behind ^.                                                  *)
LEMMA HatEndGoes ==
    ASSUME AuxTurn, aux.automaton = "A_hat", AtZero, ReturnAux(aux, pos)
    PROVE  AuxGoes(aux', pos', line', number_of_errors' - number_of_errors)
<1>0. PICK b : b = First(aux.begin)
  OBVIOUS
<1>1. Char(b) = "^" /\ pos = b + 1 /\ aux.token = AuxToken("Character", <<"^">>)
  BY <1>0, AuxReadFacts DEF AuxRead
<1>2. IsAux(aux) /\ ~(b > Len(text)) /\ pos \in Places /\ b \in Nat /\ Char(pos) = Zero
  BY <1>0, AuxReadFacts
<1>3. CharBehind(b) # "]" /\ pos # pos + 1
  <2>1. CharBehind(b) = Zero
    BY <1>1, <1>2 DEF CharBehind
  <2>2. pos # pos + 1
    BY <1>1, <1>2
  <2> QED
    BY <2>1, <2>2, AuxKinds
<1>4. aux.token.code = "Character" /\ aux.token.value = <<"^">> /\ aux.automaton # "A_class"
  BY <1>1 DEF AuxToken
<1>5. AuxLexeme(aux.begin) = Found(AuxToken("Character", <<"^">>), pos, 0)
  BY <1>0, <1>1, <1>2, <1>3, AuxLexemeIs
<1> QED
  BY <1>2, <1>3, <1>4, <1>5, AuxLexemeEnds

(* The text ends behind a backslash.                                        *)
LEMMA CharEndGoes ==
    ASSUME AuxTurn, aux.automaton = "A_char", AtZero,
           ReturnAux(WithToken(aux.token.code, <<"\\">>), pos)
    PROVE  AuxGoes(aux', pos', line', number_of_errors' - number_of_errors)
<1>0. PICK b : b = First(aux.begin)
  OBVIOUS
<1>1. Char(b) = "\\" /\ pos = b + 1 /\ aux.token = AuxToken("Character", <<>>)
  BY <1>0, AuxReadFacts DEF AuxRead
<1>2. IsAux(aux) /\ ~(b > Len(text)) /\ pos \in Places /\ b \in Nat /\ Char(pos) = Zero
  BY <1>0, AuxReadFacts
<1>3. CharBehind(b) \notin AfterBackslash /\ pos # pos + 1
  <2>1. CharBehind(b) = Zero
    BY <1>1, <1>2 DEF CharBehind
  <2>2. pos # pos + 1
    BY <1>1, <1>2
  <2> QED
    BY <2>1, <2>2, AuxKinds
<1>4. PICK r : r = WithToken(aux.token.code, <<"\\">>)
  OBVIOUS
<1>5. aux.token.code = "Character"
  BY <1>1 DEF AuxToken
<1>6. /\ IsAux(r) /\ r.begin = aux.begin /\ r.automaton = aux.automaton
      /\ r.beginLine = aux.beginLine /\ r.token = AuxToken("Character", <<"\\">>)
  BY <1>2, <1>4, <1>5 DEF IsAux, WithToken
<1>7. r.token.code = "Character" /\ r.token.value = <<"\\">> /\ r.automaton # "A_class"
  BY <1>6 DEF AuxToken
<1>8. AuxLexeme(aux.begin) = Found(AuxToken("Character", <<"\\">>), pos, 0)
  BY <1>0, <1>1, <1>2, <1>3, AuxLexemeIs
<1> QED
  BY <1>2, <1>3, <1>4, <1>6, <1>7, <1>8, AuxLexemeEnds

(* The text ends behind [: .                                                *)
LEMMA ColonEndGoes ==
    ASSUME AuxTurn, aux.automaton = "A_class", AtZero, aux.state = Colon,
           ReturnAux(WithToken("UnknownLexem", aux.token.value), pos)
    PROVE  AuxGoes(aux', pos', line', number_of_errors' - number_of_errors)
<1>0. PICK b : b = First(aux.begin)
  OBVIOUS
<1>1. /\ ClassRead(aux, pos, b) /\ AuxLexeme(aux.begin) = ClassLexeme(b)
      /\ b \in 1 .. Len(text) /\ b \in Nat /\ text \in Seq(STRING) /\ IsAux(aux)
      /\ pos \in Places /\ pos \in Nat /\ Len(text) \in Nat /\ pos # pos + 1 /\ pos = Len(text) + 1
  BY <1>0, ClassFacts
<1>2. <<>> # Colon
  BY DEF Colon
<1>3. pos = b + 2 /\ Char(b + 1) = ":" /\ b < Len(text) /\ aux.token = AuxToken("Character", <<"[">>)
  BY <1>1, <1>2 DEF ClassRead
<1>4. ClassLexeme(b) = Found(AuxToken("UnknownLexem", <<"[">>), pos, 0)
  <2>1. pos \in b + 2 .. Len(text) + 1 /\ ~(pos <= Len(text))
    BY <1>1, <1>3
  <2> QED
    BY <1>1, <1>3, <2>1, ClassNameIs
<1>5. PICK r : r = WithToken("UnknownLexem", aux.token.value)
  OBVIOUS
<1>6. aux.token.value = <<"[">>
  BY <1>3 DEF AuxToken
<1>7. /\ IsAux(r) /\ r.begin = aux.begin /\ r.automaton = aux.automaton
      /\ r.beginLine = aux.beginLine /\ r.token = AuxToken("UnknownLexem", <<"[">>)
  BY <1>1, <1>5, <1>6 DEF IsAux, WithToken
<1>8. r.token.code = "UnknownLexem" /\ r.token.value = <<"[">> /\ ~r.token.likely
  BY <1>7 DEF AuxToken
<1> QED
  BY <1>1, <1>4, <1>5, <1>7, <1>8, AuxLexemeEnds

(* aux_final_procs                                                          *)
LEMMA AuxEndGoes ==
    ASSUME AuxTurn, aux_final_procs
    PROVE  AuxGoes(aux', pos', line', number_of_errors' - number_of_errors)
<1>1. CASE (AuxEndsIn("A_start") \/ AuxEndsIn("A_action") \/ AuxEndsIn("A_hat")) /\ ReturnAux(aux, pos)
  <2>1. AtZero /\ ~(pos <= Len(text))
    <3>1. AtZero
      BY <1>1 DEF AuxEndsIn
    <3> QED
      BY <3>1, AuxTurnFacts
  <2> QED
    BY <1>1, <2>1, AuxStartEndGoes, ActionReturns, HatEndGoes DEF AuxEndsIn
<1>2. CASE AuxEndsIn("A_char") /\ ReturnAux(WithToken(aux.token.code, <<"\\">>), pos)
  BY <1>2, CharEndGoes DEF AuxEndsIn
<1>3. CASE AuxEndsIn("A_class") /\ aux.state = <<>> /\ ReturnAux(aux, pos)
  <2>1. AtZero /\ aux.automaton = "A_class"
    BY <1>3 DEF AuxEndsIn
  <2>2. Char(pos) = Zero /\ Zero \notin {":", "^"}
    BY <2>1, ClassFacts, AuxKinds
  <2> QED
    BY <1>3, <2>1, <2>2, BracketReturns
<1>4. CASE AuxEndsIn("A_class") /\ aux.state = Colon
           /\ ReturnAux(WithToken("UnknownLexem", aux.token.value), pos)
  BY <1>4, ColonEndGoes DEF AuxEndsIn
<1>5. CASE AuxEndsIn("A_class") /\ aux.state \notin {<<>>, Colon}
           /\ ReturnAux([aux EXCEPT !.token = ClassCode(aux.state)], pos)
  BY <1>5, ClassReturns DEF AuxEndsIn
<1> QED
  BY <1>1, <1>2, <1>3, <1>4, <1>5 DEF aux_final_procs

(* Every step of the auxiliary scanner *)
LEMMA AuxStepGoes ==
    ASSUME AuxTurn, AuxStep
    PROVE  AuxGoes(aux', pos', line', number_of_errors' - number_of_errors)
BY AuxStartSpaceGoes, AuxStartGoes, AuxDelimiterGoes, ActionGoes, ClassBeginGoes, ClassFirstGoes,
   ClassGoes, CharGoes, HatGoes, AuxEndGoes DEF AuxStep

(* The longest word at a place lies within the text.                        *)
LEMMA LongestWithin ==
    ASSUME text \in Seq(STRING), NEW a \in Places, NEW words,
           NEW w, w = LongestAt(a, words), w # <<>>
    PROVE  Len(w) \in Nat /\ a + Len(w) \in Places /\ a < a + Len(w)
<1> DEFINE lengths == {n \in 1 .. Len(text) + 1 - a : SubSeq(text, a, a + n - 1) \in words}
           rest == {k \in 0 .. Len(text) : Len(text) + 1 - a - k \in lengths}
<1>1. Len(text) \in Nat /\ a \in 1 .. Len(text) + 1 /\ a \in Nat
  BY CharType DEF Places
<1>2. lengths # {}
  BY DEF LongestAt
<1>3. \E n \in lengths : \A m \in lengths : m <= n
  <2>1. PICK n \in lengths : TRUE
    BY <1>2
  <2>2. n \in 1 .. Len(text) + 1 - a
    BY <2>1
  <2>3. Len(text) + 1 - a - n \in rest
    <3>1. Len(text) + 1 - a - n \in 0 .. Len(text) /\ Len(text) + 1 - a - (Len(text) + 1 - a - n) = n
      BY <1>1, <2>2
    <3> HIDE DEF lengths
    <3> QED
      BY <2>1, <3>1
  <2>4. rest \in SUBSET Nat
    BY <1>1
  <2>5. PICK k \in rest : \A l \in rest : k <= l
    <3> HIDE DEF rest
    <3> QED
      BY <2>3, <2>4, LeastNumber
  <2>6. k \in 0 .. Len(text) /\ Len(text) + 1 - a - k \in lengths
    BY <2>5
  <2>7. \A m \in lengths : m <= Len(text) + 1 - a - k
    <3> TAKE m \in lengths
    <3>1. m \in 1 .. Len(text) + 1 - a
      OBVIOUS
    <3>2. Len(text) + 1 - a - m \in rest
      <4>1. Len(text) + 1 - a - m \in 0 .. Len(text) /\ Len(text) + 1 - a - (Len(text) + 1 - a - m) = m
        BY <1>1, <3>1
      <4> HIDE DEF lengths
      <4> QED
        BY <4>1
    <3>3. k <= Len(text) + 1 - a - m
      <4> HIDE DEF rest
      <4> QED
        BY <2>5, <3>2
    <3> QED
      BY <1>1, <2>6, <3>1, <3>3
  <2> QED
    BY <2>6, <2>7
<1>4. PICK n : n = CHOOSE k \in lengths : \A m \in lengths : m <= k
  OBVIOUS
<1>5. n \in lengths
  <2> HIDE DEF lengths
  <2> QED
    BY <1>3, <1>4
<1>6. w = SubSeq(text, a, a - 1 + n)
  BY <1>2, <1>4 DEF LongestAt
<1>7. n \in 1 .. Len(text) + 1 - a
  BY <1>5
<1>8. a - 1 + n \in a - 1 .. Len(text) /\ (a - 1 + n) + 1 - a = n /\ n \in Nat /\ n >= 1
      /\ a + n \in 1 .. Len(text) + 1 /\ a < a + n
  BY <1>1, <1>7
<1> HIDE DEF lengths
<1>9. Len(w) = n
  BY <1>6, <1>8, Piece
<1> QED
  BY <1>8, <1>9 DEF Places

(* Characters that are not the terminating zero stand within the text.      *)
LEMMA CharWithin ==
    ASSUME text \in Seq(STRING), NEW b \in 1 .. Len(text), NEW c, CharBehind(b) = c, c # Zero
    PROVE  b < Len(text) /\ b + 2 \in Places
<1>1. Len(text) \in Nat /\ Char(Len(text) + 1) = Zero
  BY CharType
<1>2. b # Len(text)
  BY <1>1 DEF CharBehind
<1>3. b < Len(text) /\ b + 2 \in 1 .. Len(text) + 1
  BY <1>1, <1>2
<1> QED
  BY <1>3 DEF Places

Quiet == {"Nothing", "Begin_char_class_complement", "End_char_class_complement"}

(* A lexeme that is found at b ends behind b, costs an error at most, and   *)
(* none where it begins or ends a complement.                               *)
Sound(x, b) ==
    /\ x.end \in Places /\ b <= x.end /\ (x.token.code # "Nothing" => b < x.end)
    /\ x.errors \in {0, 1} /\ (x.token.code \in Quiet => x.errors = 0)

Stretches(x, b) == Sound(x, b) /\ x.token.code # "Nothing"

(* What is sound, member by member                                          *)
LEMMA SoundIs ==
    ASSUME NEW b, NEW c, NEW v, NEW e, NEW n, e \in Places, b <= e, c # "Nothing" => b < e,
           n \in {0, 1}, c \in Quiet => n = 0
    PROVE  Sound(Found(AuxToken(c, v), e, n), b)
BY DEF Sound, Found, AuxToken

(* A class, or what is taken for one, is sound.                             *)
LEMMA ClassSound ==
    ASSUME text \in Seq(STRING), NEW b \in 1 .. Len(text)
    PROVE  Sound(ClassLexeme(b), b)
<1>1. Len(text) \in Nat /\ b \in Nat /\ b + 1 \in Places /\ b < b + 1 /\ b < b + 2 /\ b <= b + 1 /\ b <= b + 2
  <2>1. Len(text) \in Nat
    BY CharType
  <2>2. b + 1 \in 1 .. Len(text) + 1
    BY <2>1
  <2> QED
    BY <2>1, <2>2 DEF Places
<1>2. PICK p : p = LongestAt(b + 2, ClassPrefixes)
  OBVIOUS
<1>3. "Character" \notin Quiet /\ "Class" \notin Quiet /\ "UnknownLexem" \notin Quiet
      /\ "Begin_char_class_complement" # "Nothing" /\ "Nothing" \in Quiet
  BY DEF Quiet
<1>4. CASE CharBehind(b) = "^"
  <2>1. ClassLexeme(b) = Found(AuxToken("Begin_char_class_complement", <<"[">>), b + 2, 0)
    BY <1>4 DEF ClassLexeme
  <2>2. b + 2 \in Places
    BY <1>4, AuxKinds, CharWithin
  <2> QED
    BY <1>1, <1>3, <2>1, <2>2, SoundIs
<1>5. CASE CharBehind(b) \notin {"^", ":"}
  <2>1. ClassLexeme(b) = Found(AuxToken("Character", <<"[">>), b + 1, 0)
    BY <1>5 DEF ClassLexeme
  <2> QED
    BY <1>1, <1>3, <2>1, SoundIs
<1>6. CASE CharBehind(b) = ":"
  <2>1. b + 2 \in Places
    BY <1>6, AuxKinds, CharWithin
  <2>2. CASE p # <<>>
    <3>1. PICK e : e = b + 2 + Len(p)
      OBVIOUS
    <3>2. PICK n : n = OneIf(p \notin ClassWord)
      OBVIOUS
    <3>3. n \in {0, 1}
      BY <3>2 DEF OneIf
    <3>4. ClassLexeme(b) = Found(AuxToken("Class", ClassCode(p).value), e, n)
      BY <1>2, <1>6, <2>2, <3>1, <3>2 DEF ClassLexeme
    <3>5. e \in Places /\ b + 2 < e /\ Len(p) \in Nat
      BY <1>2, <2>1, <2>2, <3>1, LongestWithin
    <3>6. b < e /\ b <= e
      BY <1>1, <3>1, <3>5
    <3> QED
      BY <1>3, <3>3, <3>4, <3>5, <3>6, SoundIs
  <2>3. CASE p = <<>>
    <3>1. \/ ClassLexeme(b) = Found(AuxToken("UnknownLexem", <<"[">>), b + 2, 0)
          \/ ClassLexeme(b) = Found(AuxToken("Character", <<"[">>), b + 2, 1)
      BY <1>2, <1>6, <2>3 DEF ClassLexeme
    <3> QED
      BY <1>1, <1>3, <2>1, <3>1, SoundIs
  <2> QED
    BY <2>2, <2>3
<1> QED
  BY <1>4, <1>5, <1>6

(* So is an action.                                                         *)
LEMMA ActionSound ==
    ASSUME text \in Seq(STRING), NEW b \in 1 .. Len(text)
    PROVE  Sound(ActionLexeme(b), b)
<1>1. Len(text) \in Nat /\ b \in Nat /\ b + 1 \in Places
  <2>1. Len(text) \in Nat
    BY CharType
  <2>2. b + 1 \in 1 .. Len(text) + 1
    BY <2>1
  <2> QED
    BY <2>1, <2>2 DEF Places
<1>2. PICK e : e = IF CharBehind(b) \in Letters THEN RunEnd(b + 1, Letters \cup Digits) ELSE b + 1
  OBVIOUS
<1>3. PICK n : n = OneIf(e = b + 1 /\ b < Len(text))
  OBVIOUS
<1>4. PICK v : v = SubSeq(text, b + 1, e - 1)
  OBVIOUS
<1>5. ActionLexeme(b) = Found(AuxToken("Action", v), e, n)
  BY <1>2, <1>3, <1>4 DEF ActionLexeme
<1>6. e \in b + 1 .. Len(text) + 1
  <2>1. RunEnd(b + 1, Letters \cup Digits) \in b + 1 .. Len(text) + 1
    BY <1>1, RunEndIs
  <2>2. b + 1 \in b + 1 .. Len(text) + 1
    BY <1>1
  <2> QED
    BY <1>2, <2>1, <2>2
<1>7. e \in 1 .. Len(text) + 1 /\ b < e /\ b <= e
  BY <1>1, <1>6
<1>8. n \in {0, 1}
  BY <1>3 DEF OneIf
<1>9. "Action" \notin Quiet
  BY DEF Quiet
<1> QED
  BY <1>5, <1>7, <1>8, <1>9, SoundIs DEF Places

(* Every lexeme of the auxiliary scanner is sound; only the end is Nothing. *)
LEMMA AuxLexemeSound ==
    ASSUME text \in Seq(STRING), NEW p \in Places
    PROVE  /\ First(p) \in Places /\ p <= First(p)
           /\ Sound(AuxLexeme(p), First(p)) /\ Sound(AuxLexeme(p), p)
           /\ AuxLexeme(p).token.code = "Nothing" <=> First(p) = Len(text) + 1
<1>1. Len(text) \in Nat /\ p \in 1 .. Len(text) + 1
  BY CharType DEF Places
<1>2. PICK b : b = First(p)
  OBVIOUS
<1>3. b \in p .. Len(text) + 1
  BY <1>2, RunEndIs DEF First
<1>4. b \in Nat /\ b \in 1 .. Len(text) + 1 /\ p <= b /\ p \in Nat
  BY <1>1, <1>3
<1>5. "Nothing" \in Quiet /\ "Character" \notin Quiet
  BY DEF Quiet
<1>6. Sound(AuxLexeme(p), b) /\ (AuxLexeme(p).token.code = "Nothing" <=> b = Len(text) + 1)
  <2>1. CASE b = Len(text) + 1
    <3>1. AuxLexeme(p) = Found(AuxToken("Nothing", <<>>), b, 0)
      <4>1. b > Len(text)
        BY <1>1, <2>1
      <4> QED
        BY <1>2, <4>1, AuxLexemeIs
    <3>2. AuxLexeme(p).token.code = "Nothing"
      BY <3>1 DEF Found, AuxToken
    <3>3. b \in Places /\ b <= b
      BY <1>4 DEF Places
    <3> QED
      BY <1>5, <2>1, <3>1, <3>2, <3>3, SoundIs
  <2>2. CASE b # Len(text) + 1
    <3>1. b \in 1 .. Len(text) /\ ~(b > Len(text)) /\ b < b + 1 /\ b <= b + 1 /\ b < b + 2 /\ b <= b + 2
          /\ b + 1 \in 1 .. Len(text) + 1
      BY <1>1, <1>4, <2>2
    <3>2. b + 1 \in Places
      BY <3>1 DEF Places
    <3>3. ASSUME NEW c, NEW v, c \notin Quiet
          PROVE  Stretches(Found(AuxToken(c, v), b + 1, 0), b)
      <4>1. c # "Nothing"
        BY <1>5, <3>3
      <4>2. Found(AuxToken(c, v), b + 1, 0).token.code = c
        BY DEF Found, AuxToken
      <4>3. Sound(Found(AuxToken(c, v), b + 1, 0), b)
        BY <3>1, <3>2, <3>3, SoundIs
      <4> QED
        BY <4>1, <4>2, <4>3 DEF Stretches
    <3>4. ASSUME NEW c, NEW v, c # "Nothing", CharBehind(b) # Zero
          PROVE  Stretches(Found(AuxToken(c, v), b + 2, 0), b)
      <4>1. b + 2 \in Places
        BY <3>1, <3>4, CharWithin
      <4>2. Found(AuxToken(c, v), b + 2, 0).token.code = c
        BY DEF Found, AuxToken
      <4>3. Sound(Found(AuxToken(c, v), b + 2, 0), b)
        BY <3>1, <3>4, <4>1, SoundIs
      <4> QED
        BY <3>4, <4>2, <4>3 DEF Stretches
    <3>5. Stretches(AuxLexeme(p), b)
      <4>5. CASE Char(b) \in DOMAIN AuxDelimiter
        <5>1. AuxDelimiter[Char(b)] \notin Quiet
          BY <4>5 DEF AuxDelimiter, Quiet
        <5> QED
          BY <1>2, <3>1, <3>3, <4>5, <5>1, AuxLexemeIs
      <4>6. CASE Char(b) = "$"
        <5>1. AuxLexeme(p) = ActionLexeme(b)
          BY <1>2, <3>1, <4>6, AuxLexemeIs
        <5>2. ActionLexeme(b).token.code # "Nothing"
          BY Zenon DEF ActionLexeme, Found, AuxToken
        <5> QED
          BY <3>1, <5>1, <5>2, ActionSound DEF Stretches
      <4>7. CASE Char(b) = "["
        <5>1. AuxLexeme(p) = ClassLexeme(b)
          BY <1>2, <3>1, <4>7, AuxLexemeIs
        <5>2. ClassLexeme(b).token.code # "Nothing"
          BY DEF ClassLexeme, Found, AuxToken
        <5> QED
          BY <3>1, <5>1, <5>2, ClassSound DEF Stretches
      <4>8. CASE Char(b) = "\\"
        <5>1. CASE CharBehind(b) \in AfterBackslash
          <6>1. PICK v : v = <<IF CharBehind(b) = "n" THEN "\n" ELSE CharBehind(b)>>
            OBVIOUS
          <6>2. CharBehind(b) # Zero /\ "Character" # "Nothing"
            BY <5>1, AuxKinds
          <6>3. AuxLexeme(p) = Found(AuxToken("Character", v), b + 2, 0)
            BY <1>2, <3>1, <4>8, <5>1, <6>1, AuxLexemeIs
          <6>4. Stretches(Found(AuxToken("Character", v), b + 2, 0), b)
            BY <3>4, <6>2
          <6> QED
            BY <6>3, <6>4
        <5>2. CASE CharBehind(b) \notin AfterBackslash
          BY <1>2, <1>5, <3>1, <3>3, <4>8, <5>2, AuxLexemeIs
        <5> QED
          BY <5>1, <5>2
      <4>9. CASE Char(b) = "^"
        <5>1. CASE CharBehind(b) = "]"
          <6>1. "End_char_class_complement" # "Nothing" /\ CharBehind(b) # Zero
            BY <5>1, AuxKinds
          <6> QED
            BY <1>2, <3>1, <3>4, <4>9, <5>1, <6>1, AuxLexemeIs
        <5>2. CASE CharBehind(b) # "]"
          BY <1>2, <1>5, <3>1, <3>3, <4>9, <5>2, AuxLexemeIs
        <5> QED
          BY <5>1, <5>2
      <4>10. CASE Char(b) \notin DOMAIN AuxDelimiter \cup {"$", "[", "\\", "^"}
        BY <1>2, <1>5, <3>1, <3>3, <4>10, AuxLexemeIs
      <4> QED
        BY <4>5, <4>6, <4>7, <4>8, <4>9, <4>10
    <3> QED
      BY <2>2, <3>5 DEF Stretches
  <2> QED
    BY <2>1, <2>2
<1>7. Sound(AuxLexeme(p), p)
  <2>1. PICK x : x = AuxLexeme(p)
    OBVIOUS
  <2>2. x.end \in 1 .. Len(text) + 1 /\ b <= x.end /\ (x.token.code # "Nothing" => b < x.end)
        /\ x.errors \in {0, 1} /\ (x.token.code \in Quiet => x.errors = 0)
    BY <1>6, <2>1 DEF Sound, Places
  <2>3. p <= x.end /\ (x.token.code # "Nothing" => p < x.end)
    BY <1>1, <1>4, <2>2
  <2> QED
    BY <2>1, <2>2, <2>3 DEF Sound, Places
<1> QED
  BY <1>2, <1>4, <1>6, <1>7 DEF Places

(* The members of a complement from a place on, from those behind it: the   *)
(* recursive definition has a value, since every lexeme takes a character.  *)
MembersTurn(start, f, p) ==
    IF AuxLexeme(p).token.code = "End_char_class_complement" /\ p # start
    THEN Gathered({}, AuxLexeme(p).end, 0, FALSE)
    ELSE IF AuxLexeme(p).token.code = "Nothing" THEN Gathered({}, AuxLexeme(p).end, 0, TRUE)
    ELSE Before(AuxLexeme(p), f[AuxLexeme(p).end])

(* The members from p on depend on those behind the lexeme at p alone.      *)
LEMMA MembersTurnSame ==
    ASSUME NEW start, NEW f, NEW g, NEW p,
           AuxLexeme(p).token.code # "Nothing" => f[AuxLexeme(p).end] = g[AuxLexeme(p).end]
    PROVE  MembersTurn(start, f, p) = MembersTurn(start, g, p)
BY DEF MembersTurn

(* Members fulfils its recursive definition at every place of the text.     *)
LEMMA MembersAre ==
    ASSUME text \in Seq(STRING), NEW start, NEW p \in Places
    PROVE  Members(start)[p] = MembersTurn(start, Members(start), p)
<1> DEFINE size == Len(text)
           Def(f, l) == f = [q \in l .. size + 1 |-> MembersTurn(start, f, q)]
           Bad == {k \in 0 .. size + 1 : ~ \E f : Def(f, size + 2 - k)}
<1>1. size \in Nat
  BY CharType
<1>2. ASSUME NEW w \in Bad PROVE FALSE
  <2>1. PICK k \in Bad : \A j \in Bad : k <= j
    <3>1. Bad \in SUBSET Nat
      BY <1>1
    <3> HIDE DEF Bad
    <3> QED
      BY <3>1, <1>2, LeastNumber
  <2>2. k \in 0 .. size + 1 /\ k \in Nat
    BY <2>1, <1>1
  <2>3. k # 0
    <3>1. CASE k = 0
      <4>1. size + 2 - k .. size + 1 = {}
        BY <1>1, <3>1
      <4> DEFINE f == [q \in {} |-> 0]
      <4>2. f = [q \in {} |-> MembersTurn(start, f, q)]
        OBVIOUS
      <4>3. Def(f, size + 2 - k)
        BY <4>1, <4>2
      <4> QED
        BY <2>1, <4>3
    <3> QED
      BY <3>1
  <2>4. PICK l : l = size + 2 - k
    OBVIOUS
  <2>5. l \in 1 .. size + 1 /\ size + 2 - (k - 1) = l + 1 /\ k - 1 \in 0 .. size + 1 /\ ~(k <= k - 1)
    BY <1>1, <2>2, <2>3, <2>4
  <2>6. k - 1 \notin Bad
    <3> HIDE DEF Bad
    <3> QED
      BY <2>1, <2>5
  <2>7. PICK g : Def(g, l + 1)
    BY <2>5, <2>6
  <2> DEFINE f == [q \in l .. size + 1 |-> IF q = l THEN MembersTurn(start, g, l) ELSE g[q]]
  <2>8. DOMAIN f = l .. size + 1 /\ \A q \in l .. size + 1 : f[q] = IF q = l THEN MembersTurn(start, g, l) ELSE g[q]
    OBVIOUS
  <2>9. f = [q \in l .. size + 1 |-> f[q]]
    OBVIOUS
  <2> HIDE DEF f
  <2>10. \A q \in l + 1 .. size + 1 : g[q] = MembersTurn(start, g, q)
    BY <2>7
  <2>11. ASSUME NEW q \in l .. size + 1 PROVE f[q] = MembersTurn(start, f, q)
    <3>1. q \in Places /\ q \in Nat /\ l \in Nat
      <4>1. q \in 1 .. size + 1 /\ q \in Nat /\ l \in Nat
        BY <1>1, <2>5
      <4> QED
        BY <4>1 DEF Places
    <3>2. PICK e : e = AuxLexeme(q).end
      OBVIOUS
    <3>3. AuxLexeme(q).token.code # "Nothing" => e \in l .. size + 1 /\ e # l
      <4>1. e \in 1 .. size + 1 /\ (AuxLexeme(q).token.code # "Nothing" => q < e)
        BY <3>1, <3>2, AuxLexemeSound DEF Sound, Places
      <4> QED
        BY <1>1, <2>5, <3>1, <4>1
    <3>4. AuxLexeme(q).token.code # "Nothing" => f[e] = g[e]
      BY <2>8, <3>3
    <3>5. MembersTurn(start, f, q) = MembersTurn(start, g, q)
      BY <3>2, <3>4, MembersTurnSame
    <3>6. q # l => q \in l + 1 .. size + 1
      BY <1>1, <2>5
    <3> QED
      BY <2>8, <2>10, <3>5, <3>6
  <2>12. f = [q \in l .. size + 1 |-> MembersTurn(start, f, q)]
    BY <2>9, <2>11
  <2> QED
    BY <2>1, <2>4, <2>12
<1>3. \E f : f = [q \in 1 .. size + 1 |-> MembersTurn(start, f, q)]
  <2>1. size + 1 \in 0 .. size + 1 /\ size + 2 - (size + 1) = 1
    BY <1>1
  <2>2. size + 1 \notin Bad
    <3> HIDE DEF Bad
    <3> QED
      BY <1>2
  <2>3. PICK f : Def(f, size + 2 - (size + 1))
    BY <2>1, <2>2
  <2> QED
    BY <2>1, <2>3
<1>4. Members(start) = CHOOSE f : f = [q \in 1 .. size + 1 |-> MembersTurn(start, f, q)]
  BY Zenon DEF Members, MembersTurn
<1>5. Members(start) = [q \in 1 .. size + 1 |-> MembersTurn(start, Members(start), q)]
  BY <1>3, <1>4
<1>6. p \in 1 .. size + 1
  BY DEF Places
<1> QED
  BY <1>5, <1>6

(* The errors of the members are counted by a natural number.               *)
LEMMA MembersErrors ==
    ASSUME text \in Seq(STRING), NEW start, NEW p \in Places
    PROVE  Members(start)[p].errors \in Nat
<1> DEFINE size == Len(text)
           Bad == {k \in 0 .. size : Members(start)[size + 1 - k].errors \notin Nat}
<1>1. size \in Nat /\ p \in 1 .. size + 1
  BY CharType DEF Places
<1>2. ASSUME NEW w \in Bad PROVE FALSE
  <2>1. PICK k \in Bad : \A j \in Bad : k <= j
    <3>1. Bad \in SUBSET Nat
      BY <1>1
    <3> HIDE DEF Bad
    <3> QED
      BY <3>1, <1>2, LeastNumber
  <2>2. k \in 0 .. size /\ k \in Nat
    BY <2>1, <1>1
  <2>3. PICK l : l = size + 1 - k
    OBVIOUS
  <2>4. l \in 1 .. size + 1 /\ l \in Nat /\ Members(start)[l].errors \notin Nat
    <3>1. Members(start)[l].errors \notin Nat
      BY <2>1, <2>3
    <3>2. l \in 1 .. size + 1 /\ l \in Nat
      BY <1>1, <2>2, <2>3
    <3> QED
      BY <3>1, <3>2
  <2>5. PICK x : x = AuxLexeme(l)
    OBVIOUS
  <2>6. l \in Places
    BY <2>4 DEF Places
  <2>7. x.end \in 1 .. size + 1 /\ x.errors \in {0, 1} /\ (x.token.code # "Nothing" => l < x.end)
    BY <2>5, <2>6, AuxLexemeSound DEF Sound, Places
  <2>8. x.token.code # "Nothing" => Members(start)[x.end].errors \in Nat
    <3>1. SUFFICES ASSUME x.token.code # "Nothing" PROVE Members(start)[x.end].errors \in Nat
      OBVIOUS
    <3>2. size + 1 - x.end \in 0 .. size /\ ~(k <= size + 1 - x.end) /\ size + 1 - (size + 1 - x.end) = x.end
      BY <1>1, <2>2, <2>3, <2>7, <3>1
    <3>3. size + 1 - x.end \notin Bad
      <4> HIDE DEF Bad
      <4> QED
        BY <2>1, <3>2
    <3> QED
      BY <3>2, <3>3
  <2>9. Members(start)[l] = MembersTurn(start, Members(start), l)
    BY <2>6, MembersAre
  <2>10. CASE x.token.code = "Nothing"
    <3>1. "Nothing" # "End_char_class_complement"
      OBVIOUS
    <3>2. Members(start)[l] = Gathered({}, x.end, 0, TRUE)
      BY <2>5, <2>9, <2>10, <3>1 DEF MembersTurn
    <3> QED
      BY <2>4, <3>2 DEF Gathered
  <2>11. CASE x.token.code # "Nothing"
    <3>1. PICK m : m = Members(start)[x.end]
      OBVIOUS
    <3>2. \/ Members(start)[l] = Gathered({}, x.end, 0, FALSE)
          \/ Members(start)[l] = Before(x, m)
      BY <2>5, <2>9, <2>11, <3>1 DEF MembersTurn
    <3>3. Before(x, m).errors = m.errors + x.errors \/ Before(x, m).errors = m.errors + x.errors + 1
      BY DEF Before, Gathered
    <3>4. Before(x, m).errors \in Nat
      BY <2>7, <2>8, <2>11, <3>1, <3>3
    <3>6. Members(start)[l].errors \in Nat
      <4>1. CASE Members(start)[l] = Gathered({}, x.end, 0, FALSE)
        BY <4>1 DEF Gathered
      <4>2. CASE Members(start)[l] = Before(x, m)
        BY <3>4, <4>2
      <4> QED
        BY <3>2, <4>1, <4>2
    <3> QED
      BY <2>4, <3>6
  <2> QED
    BY <2>10, <2>11
<1>3. size + 1 - p \in 0 .. size /\ size + 1 - (size + 1 - p) = p
  BY <1>1
<1>4. size + 1 - p \notin Bad
  <2> HIDE DEF Bad
  <2> QED
    BY <1>2
<1> QED
  BY <1>3, <1>4

(* What holds while the scanner of expressions reads                        *)
ExprTurn ==
    /\ Types /\ Turns /\ expr.running
    /\ ExprRead(expr, aux, pos, number_of_errors - errorsBefore)

(* What the steps of the scanner of expressions need of ExprTurn            *)
LEMMA ExprTurnFacts ==
    ASSUME ExprTurn
    PROVE  /\ text \in Seq(STRING) /\ Len(text) \in Nat /\ pos \in Places /\ pos \in Nat
           /\ number_of_errors \in Nat /\ errorsBefore \in Nat /\ line \in Nat
           /\ number_of_errors - errorsBefore \in Int /\ IsAux(aux) /\ IsExpr(expr)
           /\ aux.begin \in Places /\ aux.begin \in Nat
           /\ expr.begin \in Places /\ expr.running /\ expr.state \in {"none", "Begin_class_complement", "First_char", "Body_chars"}
           /\ (~aux.running => AuxFound(aux, pos))
           /\ (expr.state = "none" => number_of_errors - errorsBefore = LexemeErrors(aux))
           /\ (expr.state # "none" => InComplement(expr, aux, number_of_errors - errorsBefore))
           /\ (~aux.running => LexemeErrors(aux) = AuxLexeme(aux.begin).errors)
<1>1. /\ text \in Seq(STRING) /\ Len(text) \in Nat /\ pos \in 1 .. Len(text) + 1
      /\ number_of_errors \in Nat /\ errorsBefore \in Nat /\ line \in Nat
      /\ number_of_errors - errorsBefore \in Int /\ IsAux(aux) /\ IsExpr(expr)
  BY CharType DEF ExprTurn, Types, Places
<1>2. /\ aux.begin \in 1 .. Len(text) + 1 /\ expr.begin \in 1 .. Len(text) + 1
      /\ expr.state \in {"none", "Begin_class_complement", "First_char", "Body_chars"}
  BY <1>1 DEF IsAux, IsExpr, Places
<1>3. /\ expr.running
      /\ (~aux.running => AuxFound(aux, pos))
      /\ (expr.state = "none" => number_of_errors - errorsBefore = LexemeErrors(aux))
      /\ (expr.state # "none" => InComplement(expr, aux, number_of_errors - errorsBefore))
  BY DEF ExprTurn, ExprRead
<1>4. ~aux.running => LexemeErrors(aux) = AuxLexeme(aux.begin).errors
  BY DEF LexemeErrors
<1>5. pos \in Nat /\ aux.begin \in Nat
  BY <1>1, <1>2
<1> QED
  BY <1>1, <1>2, <1>3, <1>4, <1>5 DEF Places

(* What a step of the scanner of expressions keeps                          *)
ExprGoes ==
    /\ IsAux(aux') /\ IsExpr(expr') /\ pos' \in Places /\ number_of_errors' \in Nat /\ line' \in Nat
    /\ aux'.running => expr'.running
    /\ ExprRead(expr', aux', pos', number_of_errors' - errorsBefore)

(* The auxiliary scanner begins a lexeme.                                   *)
LEMMA AuxBegunIs ==
    ASSUME IsAux(aux), NEW p, p \in Places, NEW a, a = AuxBegun(p)
    PROVE  /\ IsAux(a) /\ a.running /\ a.begin = p /\ LexemeErrors(a) = 0 /\ AuxRead(a, p, First(p))
           /\ a.automaton = "A_start" /\ a.token = AuxToken("Nothing", <<>>)
<1>1. /\ IsAux(a) /\ a.running /\ a.begin = p /\ a.automaton = "A_start"
      /\ a.token = AuxToken("Nothing", <<>>)
  BY DEF AuxBegun, IsAux
<1>2. LexemeErrors(a) = 0
  BY <1>1 DEF LexemeErrors
<1>3. p \in Nat
  <2>1. CASE Len(text) \in Nat
    BY <2>1 DEF Places
  <2>2. CASE Len(text) \notin Nat
    BY <2>2 DEF Places
  <2> QED
    BY <2>1, <2>2
<1>4. p <= p /\ \A k \in p .. p - 1 : FALSE
  BY <1>3
<1>5. AuxRead(a, p, First(p))
  BY <1>1, <1>4 DEF AuxRead
<1> QED
  BY <1>1, <1>2, <1>5

(* A lexeme of the auxiliary scanner is a lexeme of expressions.            *)
LEMMA ExprLexemeGoes ==
    ASSUME ExprTurn, expr_lexeme
    PROVE  ExprGoes
<1>1. /\ expr.running /\ ~aux.running /\ expr.state = "none"
      /\ aux.token.code # "Begin_char_class_complement"
      /\ expr' = [expr EXCEPT !.running = FALSE, !.begin = aux.begin,
                  !.beginLine = aux.beginLine, !.token = convert_lexeme(aux.token)]
      /\ aux' = aux /\ pos' = pos /\ line' = line /\ number_of_errors' = number_of_errors
  BY DEF expr_lexeme, Gathers, location
<1>2. /\ IsAux(aux) /\ IsExpr(expr) /\ pos \in Places /\ number_of_errors \in Nat /\ line \in Nat
      /\ AuxFound(aux, pos) /\ number_of_errors - errorsBefore = AuxLexeme(aux.begin).errors
  BY <1>1, ExprTurnFacts
<1>3. aux.begin \in Places /\ aux.beginLine \in Nat
  BY <1>2 DEF IsAux
<1>4. PICK tok : tok = convert_lexeme(aux.token)
  OBVIOUS
<1>5. /\ IsExpr(expr') /\ ~expr'.running /\ expr'.begin = aux.begin
      /\ expr'.token = tok
  BY <1>1, <1>2, <1>3, <1>4 DEF IsExpr
<1>6. ExprLexeme(aux.begin) = Found(tok, pos, AuxLexeme(aux.begin).errors)
  <2>1. aux.token = AuxLexeme(aux.begin).token /\ pos = AuxLexeme(aux.begin).end
    BY <1>2 DEF AuxFound
  <2> QED
    BY <1>1, <1>4, <2>1 DEF ExprLexeme
<1>7. ExprRead(expr', aux, pos, number_of_errors - errorsBefore)
  BY <1>1, <1>2, <1>5, <1>6 DEF ExprRead
<1> QED
  BY <1>1, <1>2, <1>5, <1>7 DEF ExprGoes

(* get_set_complement: back to the [^ that began the complement             *)
LEMMA ComplementGoes ==
    ASSUME ExprTurn, get_set_complement
    PROVE  ExprGoes
<1>1. /\ expr.running /\ ~aux.running /\ expr.state = "none"
      /\ aux.token.code = "Begin_char_class_complement"
      /\ expr' = [expr EXCEPT !.state = "Begin_class_complement", !.set = {},
                  !.begin = aux.begin, !.beginLine = aux.beginLine]
      /\ aux' = AuxBegun(aux.begin) /\ pos' = aux.begin /\ line' = aux.beginLine
      /\ number_of_errors' = number_of_errors
  BY DEF get_set_complement, Gathers, BackTo
<1>2. /\ IsAux(aux) /\ IsExpr(expr) /\ number_of_errors \in Nat /\ text \in Seq(STRING)
      /\ AuxFound(aux, pos) /\ number_of_errors - errorsBefore = AuxLexeme(aux.begin).errors
  BY <1>1, ExprTurnFacts
<1>3. aux.begin \in Places /\ aux.beginLine \in Nat
  BY <1>2 DEF IsAux
<1>4. /\ IsExpr(expr') /\ expr'.running /\ expr'.begin = aux.begin /\ expr'.set = {}
      /\ expr'.state = "Begin_class_complement"
  BY <1>1, <1>2, <1>3 DEF IsExpr
<1>5. /\ IsAux(aux') /\ aux'.running /\ aux'.begin = aux.begin /\ LexemeErrors(aux') = 0
      /\ AuxRead(aux', aux.begin, First(aux.begin))
  BY <1>1, <1>2, <1>3, AuxBegunIs
<1>6. AuxLexeme(aux.begin).token.code = "Begin_char_class_complement" /\ AuxLexeme(aux.begin).errors = 0
  <2>1. AuxLexeme(aux.begin).token.code = "Begin_char_class_complement"
    BY <1>1, <1>2 DEF AuxFound
  <2> QED
    BY <1>2, <1>3, <2>1, AuxLexemeSound DEF Sound, Quiet
<1>7. InComplement(expr', aux', 0)
  BY <1>4, <1>5, <1>6 DEF InComplement
<1>8. ExprRead(expr', aux', aux.begin, 0)
  BY <1>4, <1>5, <1>7 DEF ExprRead
<1> QED
  BY <1>1, <1>2, <1>3, <1>4, <1>5, <1>6, <1>8 DEF ExprGoes

(* A further member                                                         *)
LEMMA NextMemberIs ==
    ASSUME ExprTurn, NEW turn, NEW s, NEW k \in {0, 1}, NextMember(turn, s, k),
           turn \in {"First_char", "Body_chars"}
    PROVE  /\ IsAux(aux') /\ aux'.running /\ aux'.begin = pos /\ LexemeErrors(aux') = 0
           /\ AuxRead(aux', pos, First(pos)) /\ pos' = pos /\ line' = line
           /\ number_of_errors' = number_of_errors + k
           /\ number_of_errors' \in Nat
           /\ number_of_errors' - errorsBefore = (number_of_errors - errorsBefore) + k
           /\ IsExpr(expr') /\ expr'.running /\ expr'.begin = expr.begin /\ expr'.set = s
           /\ expr'.state = turn
           /\ InComplement(expr', aux', number_of_errors' - errorsBefore) => ExprGoes
<1>1. /\ expr' = [expr EXCEPT !.state = turn, !.set = s] /\ aux' = AuxBegun(pos)
      /\ pos' = pos /\ line' = line /\ number_of_errors' = number_of_errors + k
  BY DEF NextMember, MoveAndReport
<1>2. /\ IsAux(aux) /\ IsExpr(expr) /\ number_of_errors \in Nat /\ errorsBefore \in Nat /\ pos \in Places
      /\ line \in Nat /\ expr.running
  BY ExprTurnFacts
<1>3. /\ IsAux(aux') /\ aux'.running /\ aux'.begin = pos /\ LexemeErrors(aux') = 0
      /\ AuxRead(aux', pos, First(pos))
  BY <1>1, <1>2, AuxBegunIs
<1>4. number_of_errors' \in Nat /\ number_of_errors' - errorsBefore = (number_of_errors - errorsBefore) + k
  BY <1>1, <1>2
<1>5. /\ IsExpr(expr') /\ expr'.running /\ expr'.begin = expr.begin /\ expr'.set = s
      /\ expr'.state = turn
  BY <1>1, <1>2 DEF IsExpr
<1>6. ASSUME InComplement(expr', aux', number_of_errors' - errorsBefore) PROVE ExprGoes
  <2>1. expr'.state # "none"
    BY <1>5
  <2>2. ExprRead(expr', aux', pos, number_of_errors' - errorsBefore)
    BY <1>3, <1>5, <1>6, <2>1 DEF ExprRead
  <2> QED
    BY <1>1, <1>2, <1>3, <1>4, <1>5, <2>2 DEF ExprGoes
<1> QED
  BY <1>1, <1>3, <1>4, <1>5, <1>6

(* The complement is read.                                                  *)
LEMMA ReturnComplementGoes ==
    ASSUME ExprTurn, ~aux.running, NEW s, ReturnComplement(s), NEW m,
           AuxLexeme(expr.begin).token.code = "Begin_char_class_complement",
           m = Members(AuxLexeme(expr.begin).end)[AuxLexeme(expr.begin).end],
           s = (IF m.cut THEN {} ELSE m.set), m.end = pos,
           m.errors = number_of_errors - errorsBefore
    PROVE  ExprGoes
<1>1. /\ expr' = [expr EXCEPT !.running = FALSE, !.token = ExprToken("Class_complement", <<>>, s)]
      /\ aux' = aux /\ pos' = pos /\ line' = line /\ number_of_errors' = number_of_errors
  BY DEF ReturnComplement, location
<1>2. /\ IsAux(aux) /\ IsExpr(expr) /\ pos \in Places /\ number_of_errors \in Nat /\ line \in Nat
  BY ExprTurnFacts
<1>3. /\ IsExpr(expr') /\ ~expr'.running /\ expr'.begin = expr.begin
      /\ expr'.token = ExprToken("Class_complement", <<>>, s)
  BY <1>1, <1>2 DEF IsExpr
<1>4. ExprLexeme(expr.begin) = Found(ExprToken("Class_complement", <<>>, IF m.cut THEN {} ELSE m.set),
                                     m.end, m.errors)
  BY DEF ExprLexeme
<1>5. ExprLexeme(expr.begin) = Found(ExprToken("Class_complement", <<>>, s), pos,
                                     number_of_errors - errorsBefore)
  BY <1>4
<1>6. ExprRead(expr', aux, pos, number_of_errors - errorsBefore)
  BY <1>2, <1>3, <1>5 DEF ExprRead
<1> QED
  BY <1>1, <1>2, <1>3, <1>6 DEF ExprGoes

(* What is known when the auxiliary scanner has returned a lexeme within a  *)
(* complement                                                               *)
LEMMA GathersFacts ==
    ASSUME ExprTurn, NEW turn, Gathers(turn), turn # "none", NEW y, y = AuxLexeme(aux.begin),
           NEW x, x = AuxLexeme(expr.begin)
    PROVE  /\ text \in Seq(STRING) /\ ~aux.running /\ expr.state = turn /\ pos \in Places
           /\ InComplement(expr, aux, number_of_errors - errorsBefore)
           /\ aux.token = y.token /\ pos = y.end /\ LexemeErrors(aux) = y.errors
           /\ aux.begin \in Places /\ aux.begin \in Nat /\ pos \in Nat /\ aux.begin <= pos
           /\ (y.token.code # "Nothing" => aux.begin < pos)
           /\ y.errors \in {0, 1} /\ (y.token.code \in Quiet => y.errors = 0)
           /\ x.token.code = "Begin_char_class_complement" /\ x.end \in Places /\ x.end \in Nat
           /\ expr.begin \in Places
           /\ number_of_errors - errorsBefore \in Int
<1>1. /\ text \in Seq(STRING) /\ ~aux.running /\ expr.state = turn /\ pos \in Places
      /\ InComplement(expr, aux, number_of_errors - errorsBefore)
      /\ AuxFound(aux, pos) /\ LexemeErrors(aux) = AuxLexeme(aux.begin).errors
      /\ aux.begin \in Places /\ aux.begin \in Nat /\ pos \in Nat /\ expr.begin \in Places
      /\ number_of_errors - errorsBefore \in Int /\ Len(text) \in Nat
  BY ExprTurnFacts DEF Gathers
<1>2. aux.token = y.token /\ pos = y.end
  BY <1>1 DEF AuxFound
<1>3. Sound(y, aux.begin)
  BY <1>1, AuxLexemeSound
<1>4. /\ aux.begin <= pos /\ (y.token.code # "Nothing" => aux.begin < pos)
      /\ y.errors \in {0, 1} /\ (y.token.code \in Quiet => y.errors = 0)
  BY <1>2, <1>3 DEF Sound
<1>5. x.token.code = "Begin_char_class_complement"
  BY <1>1 DEF InComplement
<1>6. Sound(x, expr.begin)
  BY <1>1, AuxLexemeSound
<1>7. x.end \in Places
  BY <1>6 DEF Sound
<1>8. x.end \in Nat
  <2>1. x.end \in 1 .. Len(text) + 1
    BY <1>7 DEF Places
  <2> QED
    BY <1>1, <2>1
<1> QED
  BY <1>1, <1>2, <1>4, <1>5, <1>7, <1>8

(* complement_cut: the text ended within the complement.                    *)
LEMMA CutGoes ==
    ASSUME ExprTurn, complement_cut
    PROVE  ExprGoes
<1>1. PICK turn \in {"Begin_class_complement", "First_char", "Body_chars"} : Gathers(turn)
  BY DEF complement_cut
<1>2. aux.token.code = "Nothing" /\ ReturnComplement({})
  BY DEF complement_cut
<1>3. PICK y : y = AuxLexeme(aux.begin)
  OBVIOUS
<1>4. PICK x : x = AuxLexeme(expr.begin)
  OBVIOUS
<1>5. turn # "none"
  BY <1>1
<1>6. PICK n : n = number_of_errors - errorsBefore
  OBVIOUS
<1>7. /\ text \in Seq(STRING) /\ ~aux.running /\ expr.state = turn /\ pos \in Places
      /\ InComplement(expr, aux, n) /\ aux.token = y.token /\ pos = y.end /\ LexemeErrors(aux) = y.errors
      /\ aux.begin \in Places /\ (y.token.code \in Quiet => y.errors = 0)
      /\ x.token.code = "Begin_char_class_complement" /\ x.end \in Places /\ n \in Int
  BY <1>1, <1>3, <1>4, <1>5, <1>6, GathersFacts
<1>8. y.errors = 0
  BY <1>2, <1>7 DEF Quiet
<1>9. Members(x.end)[aux.begin] = Gathered({}, pos, 0, TRUE)
  <2>2. y.token.code = "Nothing"
    BY <1>2, <1>7
  <2>3. Members(x.end)[aux.begin] = MembersTurn(x.end, Members(x.end), aux.begin)
    BY <1>7, MembersAre
  <2>4. "Nothing" # "End_char_class_complement"
    OBVIOUS
  <2>5. Members(x.end)[aux.begin] = Gathered({}, y.end, 0, TRUE)
    BY <1>3, <2>2, <2>3, <2>4 DEF MembersTurn
  <2> QED
    BY <1>7, <2>5
<1>10. turn # "Begin_class_complement"
  <2>1. ASSUME turn = "Begin_class_complement" PROVE FALSE
    <3>1. aux.begin = expr.begin
      BY <1>7, <2>1 DEF InComplement
    <3>2. x = y
      BY <1>3, <1>4, <3>1
    <3> QED
      BY <1>2, <1>7, <3>2
  <2> QED
    BY <2>1
<1>11. PICK m : m = Members(x.end)[x.end]
  OBVIOUS
<1>12. m.cut /\ m.end = pos /\ m.errors = n
  <2>1. CASE turn = "First_char"
    <3>1. aux.begin = x.end /\ n = 0
      BY <1>4, <1>7, <1>8, <2>1 DEF InComplement
    <3>2. m = Gathered({}, pos, 0, TRUE)
      BY <1>9, <1>11, <3>1
    <3> QED
      BY <3>1, <3>2 DEF Gathered
  <2>2. CASE turn = "Body_chars"
    <3>1. Completes(expr, aux, n, x.end)
      BY <1>4, <1>7, <2>2 DEF InComplement
    <3>2. PICK g : g = Gathered({}, pos, 0, TRUE)
      OBVIOUS
    <3>3. m = Gathered(expr.set \cup g.set, g.end, n - 0 + g.errors, g.cut)
      BY <1>7, <1>8, <1>9, <1>11, <3>1, <3>2 DEF Completes
    <3>4. g.end = pos /\ g.errors = 0 /\ g.cut
      BY <3>2 DEF Gathered
    <3>5. m.cut /\ m.end = pos /\ m.errors = n - 0 + 0
      BY <3>3, <3>4 DEF Gathered
    <3> QED
      BY <1>7, <3>5
  <2> QED
    BY <1>1, <1>10, <2>1, <2>2
<1>13. {} = (IF m.cut THEN {} ELSE m.set)
  BY <1>12
<1> QED
  BY <1>2, <1>4, <1>6, <1>7, <1>11, <1>12, <1>13, ReturnComplementGoes

(* The first turn reads [^ again.                                           *)
LEMMA BeginComplementGoes ==
    ASSUME ExprTurn, begin_class_complement_proc
    PROVE  ExprGoes
<1>1. /\ Gathers("Begin_class_complement") /\ aux.token.code # "Nothing"
      /\ NextMember("First_char", expr.set, 0)
  BY DEF begin_class_complement_proc
<1>2. PICK x : x = AuxLexeme(expr.begin)
  OBVIOUS
<1>3. PICK y : y = AuxLexeme(aux.begin)
  OBVIOUS
<1>4. PICK n : n = number_of_errors - errorsBefore
  OBVIOUS
<1>5. "Begin_class_complement" # "none"
  OBVIOUS
<1>6. /\ expr.state = "Begin_class_complement"
      /\ InComplement(expr, aux, n) /\ aux.token = y.token /\ pos = y.end /\ LexemeErrors(aux) = y.errors
      /\ (y.token.code \in Quiet => y.errors = 0)
      /\ x.token.code = "Begin_char_class_complement" /\ n \in Int
  BY <1>1, <1>2, <1>3, <1>4, <1>5, GathersFacts
<1>7. aux.begin = expr.begin /\ expr.set = {} /\ n = LexemeErrors(aux)
  BY <1>6 DEF InComplement
<1>8. x = y
  BY <1>2, <1>3, <1>7
<1>9. n = 0 /\ pos = x.end
  BY <1>6, <1>7, <1>8 DEF Quiet
<1>10. /\ aux'.begin = pos /\ LexemeErrors(aux') = 0
       /\ number_of_errors' - errorsBefore = n + 0
       /\ expr'.begin = expr.begin /\ expr'.set = {} /\ expr'.state = "First_char"
       /\ (InComplement(expr', aux', number_of_errors' - errorsBefore) => ExprGoes)
  BY <1>1, <1>4, <1>7, NextMemberIs
<1>11. InComplement(expr', aux', number_of_errors' - errorsBefore)
  BY <1>2, <1>6, <1>9, <1>10 DEF InComplement
<1> QED
  BY <1>10, <1>11

(* A further lexeme of the complement                                       *)
LEMMA MemberGoes ==
    ASSUME ExprTurn, NEW turn \in {"First_char", "Body_chars"}, Gathers(turn),
           aux.token.code # "Nothing",
           turn = "First_char" \/ aux.token.code # "End_char_class_complement",
           NEW k \in {0, 1}, NEW s, NextMember("Body_chars", s, k),
           IsMember(aux.token) => k = 0 /\ s = expr.set \cup {aux.token.value},
           ~IsMember(aux.token) => k = 1 /\ s = expr.set
    PROVE  ExprGoes
<1>1. PICK x : x = AuxLexeme(expr.begin)
  OBVIOUS
<1>2. PICK y : y = AuxLexeme(aux.begin)
  OBVIOUS
<1>3. PICK n : n = number_of_errors - errorsBefore
  OBVIOUS
<1>4. turn # "none"
  OBVIOUS
<1>5. /\ text \in Seq(STRING) /\ expr.state = turn /\ pos \in Places /\ pos \in Nat
      /\ InComplement(expr, aux, n) /\ aux.token = y.token /\ pos = y.end /\ LexemeErrors(aux) = y.errors
      /\ aux.begin \in Places /\ aux.begin \in Nat /\ aux.begin < pos /\ y.errors \in {0, 1}
      /\ x.token.code = "Begin_char_class_complement" /\ x.end \in Places /\ x.end \in Nat
      /\ n \in Int
  BY <1>1, <1>2, <1>3, <1>4, GathersFacts
<1>6. PICK m : m = Members(x.end)[pos]
  OBVIOUS
<1>7. m.errors \in Nat
  BY <1>5, <1>6, MembersErrors
<1>8. turn = "First_char" => aux.begin = x.end /\ expr.set = {} /\ n = y.errors
  BY <1>1, <1>5 DEF InComplement
<1>9. turn = "Body_chars" => x.end < aux.begin /\ Completes(expr, aux, n, x.end)
  BY <1>1, <1>5 DEF InComplement
<1>10. PICK b : b = Before(y, m)
  OBVIOUS
<1>11. Members(x.end)[aux.begin] = b
  <2>1. y.token.code # "Nothing" /\ (y.token.code # "End_char_class_complement" \/ aux.begin = x.end)
    BY <1>5, <1>8
  <2>2. m = Members(x.end)[y.end]
    BY <1>5, <1>6
  <2>3. text \in Seq(STRING) /\ aux.begin \in Places
    BY <1>5
  <2>4. PICK start : start = x.end
    OBVIOUS
  <2>5. m = Members(start)[y.end]
    BY <2>2, <2>4
  <2>6. Members(start)[aux.begin] = MembersTurn(start, Members(start), aux.begin)
    BY <2>3, MembersAre
  <2>7. Members(x.end)[aux.begin] = Before(y, m)
    BY <1>2, <2>1, <2>4, <2>5, <2>6 DEF MembersTurn
  <2> QED
    BY <1>10, <2>7
<1>12. /\ expr.set \cup b.set = s \cup m.set /\ b.end = m.end /\ b.cut = m.cut
       /\ b.errors = m.errors + y.errors + k
  <2>1. y.errors \in {0, 1} /\ aux.token = y.token
    BY <1>5
  <2>2. PICK z : z = expr.set
    OBVIOUS
  <2>3. /\ IsMember(y.token) => k = 0 /\ s = z \cup {y.token.value}
        /\ ~IsMember(y.token) => k = 1 /\ s = z
    BY <2>1, <2>2
  <2>4. /\ z \cup b.set = s \cup m.set /\ b.end = m.end /\ b.cut = m.cut
        /\ b.errors = m.errors + y.errors + k
    <3>1. CASE IsMember(y.token)
      <4>1. /\ b.set = m.set \cup {y.token.value} /\ b.end = m.end /\ b.cut = m.cut
            /\ b.errors = m.errors + y.errors
        BY <1>10, <3>1 DEF Before, Gathered
      <4>2. k = 0 /\ s = z \cup {y.token.value}
        BY <2>3, <3>1
      <4>3. z \cup b.set = s \cup m.set
        BY <4>1, <4>2
      <4>4. b.errors = m.errors + y.errors + k
        BY <1>7, <2>1, <4>1, <4>2
      <4> QED
        BY <4>1, <4>3, <4>4
    <3>2. CASE ~IsMember(y.token)
      <4>1. /\ b.set = m.set /\ b.end = m.end /\ b.cut = m.cut
            /\ b.errors = m.errors + y.errors + 1
        BY <1>10, <3>2 DEF Before, Gathered
      <4>2. k = 1 /\ s = z
        BY <2>3, <3>2
      <4> QED
        BY <4>1, <4>2
    <3> QED
      BY <3>1, <3>2
  <2> QED
    BY <2>2, <2>4
<1>13. Members(x.end)[x.end] = Gathered(s \cup m.set, m.end, (n + k) + m.errors, m.cut)
  <2>1. CASE turn = "First_char"
    <3>1. b.set = s \cup m.set
      BY <1>8, <1>12, <2>1
    <3>2. b.errors = (n + k) + m.errors
      BY <1>5, <1>7, <1>8, <1>12, <2>1
    <3>3. b = Gathered(b.set, b.end, b.errors, b.cut)
      BY <1>10 DEF Before, Gathered
    <3>4. Members(x.end)[x.end] = b
      BY <1>8, <1>11, <2>1
    <3> QED
      BY <1>12, <3>1, <3>2, <3>3, <3>4
  <2>2. CASE turn = "Body_chars"
    <3>1. Members(x.end)[x.end] = Gathered(expr.set \cup b.set, b.end, n - y.errors + b.errors, b.cut)
      BY <1>5, <1>9, <1>11, <2>2 DEF Completes
    <3>2. n - y.errors + b.errors = (n + k) + m.errors
      <4>1. n \in Int /\ y.errors \in Int /\ m.errors \in Int /\ k \in Int
        BY <1>5, <1>7
      <4> QED
        BY <1>12, <4>1
    <3> QED
      BY <1>12, <3>1, <3>2
  <2> QED
    BY <2>1, <2>2
<1>14. x.end < pos
  BY <1>5, <1>8, <1>9
<1>15. /\ aux'.begin = pos /\ LexemeErrors(aux') = 0
       /\ number_of_errors' - errorsBefore = n + k
       /\ expr'.begin = expr.begin /\ expr'.set = s /\ expr'.state = "Body_chars"
       /\ (InComplement(expr', aux', number_of_errors' - errorsBefore) => ExprGoes)
  BY <1>3, NextMemberIs
<1>16. (n + k) - 0 + m.errors = (n + k) + m.errors
  BY <1>5, <1>7
<1>17. Completes(expr', aux', n + k, x.end)
  BY <1>6, <1>13, <1>15, <1>16 DEF Completes
<1>18. InComplement(expr', aux', n + k)
  BY <1>1, <1>5, <1>14, <1>15, <1>17 DEF InComplement
<1> QED
  BY <1>15, <1>18

(* A ^] behind the first member ends the complement.                        *)
LEMMA EndComplementGoes ==
    ASSUME ExprTurn, Gathers("Body_chars"), aux.token.code = "End_char_class_complement",
           ReturnComplement(expr.set)
    PROVE  ExprGoes
<1>1. PICK x : x = AuxLexeme(expr.begin)
  OBVIOUS
<1>2. PICK y : y = AuxLexeme(aux.begin)
  OBVIOUS
<1>3. PICK n : n = number_of_errors - errorsBefore
  OBVIOUS
<1>4. "Body_chars" # "none"
  OBVIOUS
<1>5. /\ text \in Seq(STRING) /\ ~aux.running /\ expr.state = "Body_chars"
      /\ InComplement(expr, aux, n) /\ aux.token = y.token /\ pos = y.end /\ LexemeErrors(aux) = y.errors
      /\ aux.begin \in Places /\ aux.begin \in Nat /\ (y.token.code \in Quiet => y.errors = 0)
      /\ x.token.code = "Begin_char_class_complement" /\ x.end \in Places /\ x.end \in Nat
      /\ n \in Int
  BY <1>1, <1>2, <1>3, <1>4, GathersFacts
<1>6. y.errors = 0
  BY <1>5 DEF Quiet
<1>7. x.end < aux.begin /\ Completes(expr, aux, n, x.end)
  BY <1>1, <1>5 DEF InComplement
<1>8. PICK g : g = Gathered({}, pos, 0, FALSE)
  OBVIOUS
<1>9. Members(x.end)[aux.begin] = g
  <2>2. y.token.code = "End_char_class_complement" /\ aux.begin # x.end
    BY <1>5, <1>7
  <2>3. text \in Seq(STRING) /\ aux.begin \in Places
    BY <1>5
  <2>4. Members(x.end)[aux.begin] = MembersTurn(x.end, Members(x.end), aux.begin)
    BY <2>3, MembersAre
  <2>5. Members(x.end)[aux.begin] = Gathered({}, y.end, 0, FALSE)
    BY <1>2, <2>2, <2>4 DEF MembersTurn
  <2> QED
    BY <1>5, <1>8, <2>5
<1>10. PICK m : m = Members(x.end)[x.end]
  OBVIOUS
<1>11. m = Gathered(expr.set \cup g.set, g.end, n - 0 + g.errors, g.cut)
  BY <1>5, <1>6, <1>7, <1>9, <1>10 DEF Completes
<1>12. g.set = {} /\ g.end = pos /\ g.errors = 0 /\ ~g.cut
  BY <1>8 DEF Gathered
<1>13. m.set = expr.set /\ m.end = pos /\ m.errors = n /\ ~m.cut
  <2>1. m.set = expr.set \cup {} /\ m.end = pos /\ m.errors = n - 0 + 0 /\ ~m.cut
    BY <1>11, <1>12 DEF Gathered
  <2> QED
    BY <1>5, <2>1
<1>14. expr.set = (IF m.cut THEN {} ELSE m.set)
  BY <1>13
<1> QED
  BY <1>1, <1>3, <1>5, <1>10, <1>13, <1>14, ReturnComplementGoes

(* first_char_proc                                                          *)
LEMMA FirstCharGoes ==
    ASSUME ExprTurn, first_char_proc
    PROVE  ExprGoes
<1>1. Gathers("First_char") /\ aux.token.code # "Nothing"
  BY DEF first_char_proc
<1>2. CASE IsMember(aux.token)
  <2>1. NextMember("Body_chars", expr.set \cup {aux.token.value}, 0)
    BY <1>2 DEF first_char_proc
  <2> QED
    BY <1>1, <1>2, <2>1, MemberGoes
<1>3. CASE ~IsMember(aux.token)
  <2>1. NextMember("Body_chars", expr.set, 1)
    BY <1>3 DEF first_char_proc
  <2> QED
    BY <1>1, <1>3, <2>1, MemberGoes
<1> QED
  BY <1>2, <1>3

(* body_chars_proc                                                          *)
LEMMA BodyCharsGoes ==
    ASSUME ExprTurn, body_chars_proc
    PROVE  ExprGoes
<1>1. Gathers("Body_chars") /\ aux.token.code # "Nothing"
  BY DEF body_chars_proc
<1>2. CASE aux.token.code = "End_char_class_complement"
  <2>1. ReturnComplement(expr.set)
    BY <1>2 DEF body_chars_proc
  <2> QED
    BY <1>1, <1>2, <2>1, EndComplementGoes
<1>3. CASE aux.token.code # "End_char_class_complement" /\ IsMember(aux.token)
  <2>1. NextMember("Body_chars", expr.set \cup {aux.token.value}, 0)
    BY <1>3 DEF body_chars_proc
  <2> QED
    BY <1>1, <1>3, <2>1, MemberGoes
<1>4. CASE aux.token.code # "End_char_class_complement" /\ ~IsMember(aux.token)
  <2>1. NextMember("Body_chars", expr.set, 1)
    BY <1>4 DEF body_chars_proc
  <2> QED
    BY <1>1, <1>4, <2>1, MemberGoes
<1> QED
  BY <1>2, <1>3, <1>4

(* The auxiliary scanner reads below.                                       *)
LEMMA AuxBelowGoes ==
    ASSUME ExprTurn, AuxStep, expr' = expr
    PROVE  /\ ExprGoes
           /\ AuxGoes(aux', pos', line', number_of_errors' - number_of_errors)
<1>1. aux.running
  BY DEF AuxStep, aux_start_space, aux_start_proc, aux_delimiter_proc, action_proc, classes_begin,
         classes_first, classes_proc, char_proc, hat_proc, aux_final_procs, AuxIn, AuxEndsIn
<1>2. AuxTurn
  BY <1>1 DEF AuxTurn, ExprTurn, ExprRead
<1>3. PICK k : k = number_of_errors' - number_of_errors
  OBVIOUS
<1>4. AuxGoes(aux', pos', line', k)
  BY <1>2, <1>3, AuxStepGoes
<1>5. /\ text \in Seq(STRING) /\ pos \in Places /\ number_of_errors \in Nat /\ errorsBefore \in Nat
      /\ line \in Nat /\ IsExpr(expr) /\ expr.running
      /\ (expr.state = "none" => number_of_errors - errorsBefore = LexemeErrors(aux))
      /\ (expr.state # "none" => InComplement(expr, aux, number_of_errors - errorsBefore))
  BY ExprTurnFacts
<1>6. LexemeErrors(aux) = 0
  BY <1>1 DEF LexemeErrors
<1>7. /\ IsAux(aux') /\ aux'.begin = aux.begin /\ pos' \in Places /\ k \in {0, 1}
      /\ (aux'.running => k = 0 /\ AuxRead(aux', pos', First(aux'.begin)))
      /\ (~aux'.running => AuxFound(aux', pos') /\ k = AuxLexeme(aux'.begin).errors)
      /\ line' = line + LineEnds(pos, pos' - 1)
  BY <1>4 DEF AuxGoes
<1>8. LexemeErrors(aux') = k
  BY <1>7 DEF LexemeErrors
<1>9. number_of_errors' = number_of_errors + k /\ number_of_errors' \in Nat
  <2>1. number_of_errors' \in Int
    <3>1. \E i \in {0, 1} : number_of_errors' = number_of_errors + i \/ number_of_errors' = number_of_errors
      BY DEF AuxStep, aux_start_space, aux_start_proc, aux_delimiter_proc, action_proc, classes_begin,
         classes_first, classes_proc, char_proc, hat_proc, aux_final_procs, PassSpace, MoveTo,
         ReturnAux, FailAux, MoveAndReport
    <3> QED
      BY <1>5, <3>1
  <2>2. number_of_errors \in Nat /\ k \in {0, 1}
    BY <1>5, <1>7
  <2>3. PICK e : e = number_of_errors'
    OBVIOUS
  <2>4. e \in Int /\ k = e - number_of_errors
    BY <1>3, <2>1, <2>3
  <2>5. e = number_of_errors + k /\ e \in Nat
    BY <2>2, <2>4
  <2> QED
    BY <2>3, <2>5
<1>10. line' \in Nat
  <2>1. pos \in Nat /\ line \in Nat /\ line' = line + LineEnds(pos, pos' - 1)
        /\ (pos' = pos \/ pos' = pos + 1)
    BY <1>4, <1>7, ExprTurnFacts DEF AuxGoes
  <2>2. LineEnds(pos, pos' - 1) \in {0, 1}
    <3>1. CASE pos' = pos
      BY <2>1, <3>1, LineEndsShort
    <3>2. CASE pos' = pos + 1
      BY <2>1, <3>2, LineEndsShort
    <3> QED
      BY <2>1, <3>1, <3>2
  <2> QED
    BY <2>1, <2>2
<1>11. PICK n : n = number_of_errors - errorsBefore
  OBVIOUS
<1>12. number_of_errors' - errorsBefore = n + k /\ n \in Int /\ n - 0 = (n + k) - k
  BY <1>5, <1>7, <1>9, <1>11
<1>13. expr.state = "none" => n + k = LexemeErrors(aux')
  BY <1>5, <1>6, <1>7, <1>8, <1>11
<1>14. expr.state # "none" => InComplement(expr, aux', n + k)
  <2>1. ASSUME expr.state # "none" PROVE InComplement(expr, aux', n + k)
    <3>1. InComplement(expr, aux, n)
      BY <1>5, <1>11, <2>1
    <3>2. n = 0 => n + k = LexemeErrors(aux')
      BY <1>7, <1>8
    <3>3. ASSUME NEW start, Completes(expr, aux, n, start) PROVE Completes(expr, aux', n + k, start)
      BY <1>6, <1>7, <1>8, <1>12, <3>3 DEF Completes
    <3> QED
      BY <1>6, <1>7, <3>1, <3>2, <3>3 DEF InComplement
  <2> QED
    BY <2>1
<1>15. ExprRead(expr, aux', pos', n + k)
  BY <1>5, <1>7, <1>13, <1>14 DEF ExprRead
<1>16. ExprGoes
  BY <1>5, <1>7, <1>9, <1>10, <1>12, <1>15 DEF ExprGoes
<1> QED
  BY <1>3, <1>4, <1>16

(* Every step of the scanner of expressions                                 *)
LEMMA ExprStepGoes ==
    ASSUME ExprTurn, ExprStep
    PROVE  ExprGoes
BY ExprLexemeGoes, ComplementGoes, CutGoes, BeginComplementGoes, FirstCharGoes, BodyCharsGoes,
   AuxBelowGoes DEF ExprStep

(* The lines depend on nothing that changes but their arguments.            *)
LEMMA LinesTextOnly ==
    ASSUME text' = text
    PROVE  /\ \A m, l, p : LineRight(m, l, p)' = LineRight(m, l, p)
           /\ \A m, p, b, l : Begun(m, p, b, l)' = Begun(m, p, b, l)
           /\ \A i, p, m : MainPlaced(i, p, m)' = MainPlaced(i, p, m)
           /\ \A m, p, a : AuxPlaced(m, p, a)' = AuxPlaced(m, p, a)
           /\ \A m, p, e : ExprPlaced(m, p, e)' = ExprPlaced(m, p, e)
<1>1. \A a, b : LineEnds(a, b)' = LineEnds(a, b)
  BY TextOnly
<1>2. \A p : First(p)' = First(p)
  BY TextOnly
<1>3. \A b, l : BeginsAt(b, l)' = BeginsAt(b, l)
  BY TextOnly
<1>4. \A m, l, p : LineRight(m, l, p)' = LineRight(m, l, p)
  BY <1>1 DEF LineRight
<1>5. \A m, p, b, l : Begun(m, p, b, l)' = Begun(m, p, b, l)
  BY <1>2, <1>3 DEF Begun
<1>6. \A i, p, m : MainPlaced(i, p, m)' = MainPlaced(i, p, m)
  BY <1>5 DEF MainPlaced
<1>7. \A m, p, a : AuxPlaced(m, p, a)' = AuxPlaced(m, p, a)
  BY <1>5 DEF AuxPlaced
<1>8. \A m, p, e : ExprPlaced(m, p, e)' = ExprPlaced(m, p, e)
  BY <1>3, <1>5 DEF ExprPlaced
<1> QED
  BY <1>4, <1>5, <1>6, <1>7, <1>8

(* Line ends are counted piece by piece.                                    *)
LEMMA LineEndsAdd ==
    ASSUME NEW p \in Nat \ {0}, NEW q \in Nat, p <= q
    PROVE  /\ LineEnds(1, p - 1) \in Nat /\ LineEnds(p, q - 1) \in Nat
           /\ LineEnds(1, q - 1) = LineEnds(1, p - 1) + LineEnds(p, q - 1)
<1> DEFINE A == {i \in 1 .. p - 1 : Char(i) = "\n"}
           B == {i \in p .. q - 1 : Char(i) = "\n"}
           Whole == {i \in 1 .. q - 1 : Char(i) = "\n"}
<1>1. IsFiniteSet(1 .. p - 1) /\ IsFiniteSet(p .. q - 1)
  BY FS_Interval
<1>2. A \subseteq 1 .. p - 1 /\ B \subseteq p .. q - 1
  OBVIOUS
<1>3. IsFiniteSet(A) /\ IsFiniteSet(B)
  <2> HIDE DEF A, B
  <2> QED
    BY <1>1, <1>2, FS_Subset
<1>4. A \cap B = {} /\ Whole = A \cup B
  OBVIOUS
<1>5. Cardinality(A) \in Nat /\ Cardinality(B) \in Nat /\ Cardinality({}) = 0
  <2> HIDE DEF A, B
  <2> QED
    BY <1>3, FS_CardinalityType, FS_EmptySet
<1>6. Cardinality(Whole) = Cardinality(A) + Cardinality(B)
  <2> HIDE DEF A, B, Whole
  <2>1. Cardinality(A \cup B) = Cardinality(A) + Cardinality(B) - Cardinality(A \cap B)
    BY <1>3, FS_Union
  <2>2. Cardinality(A \cap B) = 0 /\ Cardinality(Whole) = Cardinality(A \cup B)
    BY <1>4, <1>5
  <2>3. Cardinality(A) + Cardinality(B) - 0 = Cardinality(A) + Cardinality(B)
    BY <1>5
  <2> QED
    BY <2>1, <2>2, <2>3
<1>7. /\ LineEnds(1, p - 1) = Cardinality(A) /\ LineEnds(p, q - 1) = Cardinality(B)
      /\ LineEnds(1, q - 1) = Cardinality(Whole)
  BY DEF LineEnds
<1> QED
  BY <1>5, <1>6, <1>7

(* A place where reading begins again: no line ends were passed since.      *)
LEMMA LineAgain ==
    ASSUME text \in Seq(STRING), NEW b \in Places, NEW p \in Places, NEW l,
           First(b) <= p, BeginsAt(b, l), ~(LineEnds(b, p - 1) > 0)
    PROVE  l = 1 + LineEnds(1, b - 1)
<1>1. Len(text) \in Nat /\ b \in 1 .. Len(text) + 1 /\ p \in 1 .. Len(text) + 1
  BY CharType DEF Places
<1>2. First(b) \in b .. Len(text) + 1
  BY RunEndIs DEF First
<1>3. PICK f : f = First(b)
  OBVIOUS
<1>4. b \in Nat \ {0} /\ p \in Nat /\ f \in Nat \ {0} /\ b <= f /\ f <= p /\ b <= p
  BY <1>1, <1>2, <1>3
<1>5. LineEnds(1, p - 1) = LineEnds(1, f - 1) + LineEnds(f, p - 1)
      /\ LineEnds(1, f - 1) \in Nat /\ LineEnds(f, p - 1) \in Nat
  BY <1>4, LineEndsAdd
<1>6. LineEnds(1, p - 1) = LineEnds(1, b - 1) + LineEnds(b, p - 1)
      /\ LineEnds(1, b - 1) \in Nat /\ LineEnds(b, p - 1) \in Nat
  BY <1>4, LineEndsAdd
<1>7. LineEnds(1, f - 1) = LineEnds(1, b - 1) + LineEnds(b, f - 1)
      /\ LineEnds(b, f - 1) \in Nat
  BY <1>4, LineEndsAdd
<1>8. LineEnds(b, p - 1) = 0
  BY <1>6
<1>9. LineEnds(1, f - 1) = LineEnds(1, b - 1)
  BY <1>5, <1>6, <1>7, <1>8
<1>10. l = 1 + LineEnds(1, f - 1)
  BY <1>3 DEF BeginsAt, First
<1> QED
  BY <1>9, <1>10

(* The steps of the main scanner change the line by one at most.            *)
LEMMA MainCounts ==
    ASSUME MainStep, number_of_errors \in Nat, line \in Nat
    PROVE  number_of_errors' \in Nat /\ line' \in Nat /\ main.running
<1>1. main.running
  BY DEF MainStep, start_space, start_proc, unknown_proc, id_proc, keyword_begin, keyword_proc,
         delimiter_proc, string_proc, silent_final_procs, keyword_final_proc, string_final_proc,
         In, EndsIn
<1>2. number_of_errors' = number_of_errors \/ \E i \in {0, 1} : number_of_errors' = number_of_errors + i
  BY DEF MainStep, start_space, start_proc, unknown_proc, id_proc, keyword_begin, keyword_proc,
         delimiter_proc, string_proc, silent_final_procs, keyword_final_proc, string_final_proc,
         PassSpace, MoveTo, ReturnMain, MoveAndReport
<1>3. line' = line \/ line' = line + 1
  BY DEF MainStep, start_space, start_proc, unknown_proc, id_proc, keyword_begin, keyword_proc,
         delimiter_proc, string_proc, silent_final_procs, keyword_final_proc, string_final_proc,
         PassSpace, MoveTo, ReturnMain, MoveAndReport
<1> QED
  BY <1>1, <1>2, <1>3

(* Every step of the main scanner keeps the invariant.                      *)
LEMMA MainReadsKeeps ==
    ASSUME ScannersInv, MainReads
    PROVE  ScannersInv'
<1>1. /\ Types /\ Turns /\ MainScanInv /\ ExprScanInv /\ LinesInv
  BY DEF ScannersInv
<1>2. /\ MainStep /\ text' = text /\ aux' = aux /\ expr' = expr /\ last' = last
      /\ errorsBefore' = errorsBefore
      /\ miscounted' = (miscounted \/ LineEnds(pos, pos' - 1) # line' - line)
  BY DEF MainReads
<1>3. /\ text \in Seq(STRING) /\ pos \in Places /\ line \in Nat /\ number_of_errors \in Nat
      /\ errorsBefore \in Nat /\ miscounted \in BOOLEAN /\ IsMain(main) /\ IsAux(aux) /\ IsExpr(expr)
      /\ last \in {"none", "main", "expr", "back"}
  BY <1>1 DEF Types
<1>4. number_of_errors' \in Nat /\ line' \in Nat /\ main.running
  BY <1>2, <1>3, MainCounts
<1>5. last = "main" /\ ~expr.running /\ ~aux.running
  BY <1>1, <1>4 DEF Turns
<1>6. number_of_errors = errorsBefore /\ MainRead(main, pos, First(main.begin))
      /\ (main.undefined => Char(Len(text)) = "%")
  BY <1>1, <1>4 DEF MainScanInv
<1>7. PICK n : n = number_of_errors' - number_of_errors
  OBVIOUS
<1>8. MainGoes(main', pos', n)
  BY <1>1, <1>2, <1>4, <1>6, <1>7, MainStepGoes DEF MainTurn
<1>9. /\ IsMain(main') /\ main'.begin = main.begin /\ pos' \in Places /\ pos <= pos' /\ n \in {0, 1}
      /\ (main'.running => n = 0 /\ MainRead(main', pos', First(main'.begin)))
      /\ (main'.undefined => Char(Len(text)) = "%")
      /\ (~main'.running /\ ~main'.undefined => Found(main'.token, pos', n) = MainLexeme(main'.begin))
  BY <1>8 DEF MainGoes
<1>10. /\ (main'.automaton = "A_start" => main'.token.code = "None")
       /\ (main'.automaton # "A_start" => First(main'.begin) <= pos')
       /\ (main'.automaton # "A_start" /\ main.automaton = "A_start" =>
             pos = First(main'.begin) /\ main'.beginLine = line)
       /\ (main'.automaton # "A_start" /\ main.automaton # "A_start" => main'.beginLine = main.beginLine)
  BY <1>8 DEF MainGoes
<1>11. Types'
  <2>1. Places' = Places
    BY <1>2 DEF Places
  <2>2. IsMain(main)' /\ IsAux(aux)' /\ IsExpr(expr)'
    BY <1>2, <1>3, <1>9, TextOnly
  <2>4. pos' \in Places'
    BY <1>9, <2>1
  <2>5. miscounted' \in BOOLEAN
    BY <1>2
  <2> QED
    BY <1>2, <1>3, <1>4, <2>2, <2>4, <2>5 DEF Types
<1>12. Turns'
  BY <1>2, <1>5 DEF Turns
<1>13. MainScanInv'
  <2>1. number_of_errors' - errorsBefore = n
    BY <1>6, <1>7
  <2>2. n = 0 => number_of_errors' = errorsBefore
    <3>1. PICK e : e = number_of_errors'
      OBVIOUS
    <3>2. e \in Nat /\ e - errorsBefore = n
      BY <1>4, <2>1, <3>1
    <3>3. n = 0 => e = errorsBefore
      BY <1>3, <3>2
    <3> QED
      BY <3>1, <3>3
  <2>3. main'.running => number_of_errors' = errorsBefore' /\ MainRead(main, pos, First(main.begin))'
    BY <1>2, <1>9, <2>2, TextOnly
  <2>4. main'.undefined => (Char(Len(text)) = "%")'
    BY <1>2, <1>9 DEF Char
  <2>5. ~main'.running /\ ~main'.undefined =>
            Found(main'.token, pos', number_of_errors' - errorsBefore') = MainLexeme(main.begin)'
    BY <1>2, <1>9, <2>1, TextOnly
  <2> QED
    BY <2>3, <2>4, <2>5 DEF MainScanInv, Found
<1>14. ExprScanInv'
  BY <1>2, <1>5 DEF ExprScanInv
<1>15. LinesInv'
  <2>1. LineRight(miscounted, line, pos) /\ MainPlaced(miscounted, pos, main)
    BY <1>1, <1>5 DEF LinesInv
  <2>2. Len(text) \in Nat /\ pos \in 1 .. Len(text) + 1 /\ pos' \in 1 .. Len(text) + 1
    BY <1>3, <1>9, CharType DEF Places
  <2>3. pos \in Nat \ {0} /\ pos' \in Nat
    BY <2>2
  <2>4. LineRight(miscounted', line', pos')
    <3>1. SUFFICES ASSUME ~miscounted' PROVE line' = 1 + LineEnds(1, pos' - 1)
      BY DEF LineRight
    <3>2. ~miscounted /\ LineEnds(pos, pos' - 1) = line' - line
      BY <1>2, <3>1
    <3>3. line = 1 + LineEnds(1, pos - 1)
      BY <2>1, <3>2 DEF LineRight
    <3>4. PICK p : p = pos'
      OBVIOUS
    <3>5. PICK l : l = line'
      OBVIOUS
    <3>6. /\ LineEnds(1, pos - 1) \in Nat /\ LineEnds(pos, p - 1) \in Nat
          /\ LineEnds(1, p - 1) = LineEnds(1, pos - 1) + LineEnds(pos, p - 1)
      BY <1>9, <2>3, <3>4, LineEndsAdd
    <3>7. LineEnds(pos, p - 1) = l - line /\ l \in Nat
      BY <1>4, <3>2, <3>4, <3>5
    <3>8. l = 1 + LineEnds(1, p - 1)
      BY <1>3, <3>3, <3>6, <3>7
    <3> QED
      BY <3>4, <3>5, <3>8
  <2>5. MainPlaced(miscounted', pos', main')
    <3>1. ASSUME main'.automaton # "A_start" PROVE Begun(miscounted', pos', main'.begin, main'.beginLine)
      <4>1. First(main'.begin) <= pos'
        BY <1>10, <3>1
      <4>2. ASSUME ~miscounted' PROVE BeginsAt(main'.begin, main'.beginLine)
        <5>1. ~miscounted
          BY <1>2, <4>2
        <5>2. CASE main.automaton = "A_start"
          <6>1. line = 1 + LineEnds(1, pos - 1)
            BY <2>1, <5>1 DEF LineRight
          <6>2. pos = First(main'.begin) /\ main'.beginLine = line
            BY <1>10, <3>1, <5>2
          <6> QED
            BY <6>1, <6>2 DEF BeginsAt, First
        <5>3. CASE main.automaton # "A_start"
          <6>1. BeginsAt(main.begin, main.beginLine)
            BY <2>1, <5>1, <5>3 DEF MainPlaced, Begun
          <6> QED
            BY <1>9, <1>10, <3>1, <5>3, <6>1
        <5> QED
          BY <5>2, <5>3
      <4> QED
        BY <4>1, <4>2 DEF Begun
    <3> QED
      BY <1>10, <3>1 DEF MainPlaced
  <2> QED
    BY <1>2, <1>5, <2>4, <2>5, LinesTextOnly DEF LinesInv
<1> QED
  BY <1>11, <1>12, <1>13, <1>14, <1>15 DEF ScannersInv

(* What the lines need of a step of the scanner of expressions              *)
ExprLinesKept ==
    /\ LineRight(miscounted', line', pos')
    /\ expr'.running => AuxPlaced(miscounted', pos', aux')
    /\ ExprPlaced(miscounted', pos', expr')

LinesTurn ==
    /\ LineRight(miscounted, line, pos)
    /\ AuxPlaced(miscounted, pos, aux)
    /\ ExprPlaced(miscounted, pos, expr)
    /\ miscounted' = (miscounted \/ LineEnds(pos', pos - 1) > 0)

(* A step of the auxiliary scanner keeps the lines right.                   *)
LEMMA AuxStepLines ==
    ASSUME ExprTurn, LinesTurn, expr' = expr,
           AuxGoes(aux', pos', line', number_of_errors' - number_of_errors)
    PROVE  ExprLinesKept
<1>1. /\ pos \in Places /\ pos \in Nat /\ Len(text) \in Nat /\ line \in Nat /\ expr.running
      /\ text \in Seq(STRING)
  BY ExprTurnFacts
<1>2. PICK p : p = pos'
  OBVIOUS
<1>3. PICK a : a = aux'
  OBVIOUS
<1>4. PICK l : l = line'
  OBVIOUS
<1>5. /\ a.begin = aux.begin /\ p \in Places /\ (p = pos \/ p = pos + 1)
      /\ l = line + LineEnds(pos, p - 1)
      /\ (a.automaton # "A_start" \/ a.token.code # "Nothing" => First(a.begin) <= p)
      /\ ((a.automaton # "A_start" \/ a.token.code # "Nothing") /\ aux.automaton = "A_start" =>
             pos = First(a.begin) /\ a.beginLine = line)
      /\ (aux.automaton # "A_start" => a.automaton # "A_start" /\ a.beginLine = aux.beginLine)
  BY <1>2, <1>3, <1>4 DEF AuxGoes
<1>6. ~miscounted' => ~miscounted
  BY DEF LinesTurn
<1>7. pos \in Nat \ {0} /\ p \in Nat /\ pos <= p
  <2>1. pos \in 1 .. Len(text) + 1
    BY <1>1 DEF Places
  <2> QED
    BY <1>1, <1>5, <2>1
<1>8. LineRight(miscounted', l, p)
  <2>1. SUFFICES ASSUME ~miscounted' PROVE l = 1 + LineEnds(1, p - 1)
    BY DEF LineRight
  <2>2. line = 1 + LineEnds(1, pos - 1)
    BY <1>6, <2>1 DEF LinesTurn, LineRight
  <2>3. /\ LineEnds(1, pos - 1) \in Nat /\ LineEnds(pos, p - 1) \in Nat
        /\ LineEnds(1, p - 1) = LineEnds(1, pos - 1) + LineEnds(pos, p - 1)
    BY <1>7, LineEndsAdd
  <2> QED
    BY <1>5, <2>2, <2>3
<1>9. AuxPlaced(miscounted', p, a)
  <2>1. SUFFICES ASSUME a.automaton # "A_start" \/ a.token.code # "Nothing"
                 PROVE  Begun(miscounted', p, a.begin, a.beginLine)
    BY DEF AuxPlaced
  <2>2. First(a.begin) <= p
    BY <1>5, <2>1
  <2>3. ASSUME ~miscounted' PROVE BeginsAt(a.begin, a.beginLine)
    <3>1. CASE aux.automaton = "A_start"
      <4>1. pos = First(a.begin) /\ a.beginLine = line
        BY <1>5, <2>1, <3>1
      <4>2. line = 1 + LineEnds(1, pos - 1)
        BY <1>6, <2>3 DEF LinesTurn, LineRight
      <4> QED
        BY <4>1, <4>2 DEF BeginsAt, First
    <3>2. CASE aux.automaton # "A_start"
      <4>1. BeginsAt(aux.begin, aux.beginLine)
        BY <1>6, <2>3, <3>2 DEF LinesTurn, AuxPlaced, Begun
      <4> QED
        BY <1>5, <3>2, <4>1
    <3> QED
      BY <3>1, <3>2
  <2> QED
    BY <2>2, <2>3 DEF Begun
<1>10. ExprPlaced(miscounted', p, expr)
  BY <1>1, <1>6 DEF LinesTurn, ExprPlaced
<1> QED
  BY <1>2, <1>3, <1>4, <1>8, <1>9, <1>10 DEF ExprLinesKept

(* A lexeme of expressions begins where the one of the auxiliary scanner did. *)
LEMMA ExprLexemeLines ==
    ASSUME ExprTurn, LinesTurn, expr_lexeme
    PROVE  ExprLinesKept
<1>1. /\ expr.running
      /\ expr' = [expr EXCEPT !.running = FALSE, !.begin = aux.begin,
                  !.beginLine = aux.beginLine, !.token = convert_lexeme(aux.token)]
      /\ pos' = pos /\ line' = line
  BY DEF expr_lexeme, Gathers, location
<1>2. ~miscounted' => ~miscounted
  BY DEF LinesTurn
<1>3. LineRight(miscounted', line', pos')
  BY <1>1, <1>2 DEF LinesTurn, LineRight
<1>4. IsExpr(expr)
  BY ExprTurnFacts
<1>5. PICK tok : tok = convert_lexeme(aux.token)
  OBVIOUS
<1>6. PICK e : e = expr'
  OBVIOUS
<1>7. ~e.running /\ e.begin = aux.begin /\ e.beginLine = aux.beginLine /\ e.token = tok
  BY <1>1, <1>4, <1>5, <1>6 DEF IsExpr
<1>8. aux.token.code = "Nothing" => tok.code = "Nothing"
  <2>1. "Nothing" # "Class" /\ "Nothing" # "End_char_class_complement"
    OBVIOUS
  <2> QED
    BY <1>5, <2>1 DEF convert_lexeme, ExprToken
<1>9. ExprPlaced(miscounted', pos, e)
  <2>1. ASSUME e.token.code # "Nothing" PROVE Begun(miscounted', pos, e.begin, e.beginLine)
    <3>1. Begun(miscounted, pos, aux.begin, aux.beginLine)
      BY <1>7, <1>8, <2>1 DEF LinesTurn, AuxPlaced
    <3> QED
      BY <1>2, <1>7, <3>1 DEF Begun
  <2> QED
    BY <1>7, <2>1 DEF ExprPlaced
<1> QED
  BY <1>1, <1>3, <1>6, <1>7, <1>9 DEF ExprLinesKept

(* The way back to [^ keeps the lines, unless it passes a line end.         *)
LEMMA ComplementLines ==
    ASSUME ExprTurn, LinesTurn, get_set_complement
    PROVE  ExprLinesKept
<1>1. /\ aux.token.code = "Begin_char_class_complement"
      /\ expr' = [expr EXCEPT !.state = "Begin_class_complement", !.set = {},
                  !.begin = aux.begin, !.beginLine = aux.beginLine]
      /\ aux' = AuxBegun(aux.begin) /\ pos' = aux.begin /\ line' = aux.beginLine
      /\ expr.running
  BY DEF get_set_complement, Gathers, BackTo
<1>2. IsExpr(expr) /\ IsAux(aux) /\ aux.begin \in Places /\ text \in Seq(STRING) /\ pos \in Places
  BY ExprTurnFacts
<1>3. ~miscounted' => ~miscounted /\ ~(LineEnds(aux.begin, pos - 1) > 0)
  BY <1>1 DEF LinesTurn
<1>4. Begun(miscounted, pos, aux.begin, aux.beginLine)
  <2>1. "Begin_char_class_complement" # "Nothing"
    OBVIOUS
  <2> QED
    BY <1>1, <2>1 DEF LinesTurn, AuxPlaced
<1>5. ~miscounted' => BeginsAt(aux.begin, aux.beginLine)
  BY <1>3, <1>4 DEF Begun
<1>6. ~miscounted' => aux.beginLine = 1 + LineEnds(1, aux.begin - 1)
  <2>1. SUFFICES ASSUME ~miscounted' PROVE aux.beginLine = 1 + LineEnds(1, aux.begin - 1)
    OBVIOUS
  <2>2. PICK b : b = aux.begin
    OBVIOUS
  <2>3. PICK l : l = aux.beginLine
    OBVIOUS
  <2>4. /\ b \in Places /\ First(b) <= pos /\ BeginsAt(b, l) /\ ~(LineEnds(b, pos - 1) > 0)
    BY <1>2, <1>3, <1>4, <1>5, <2>1, <2>2, <2>3 DEF Begun
  <2> QED
    BY <1>2, <2>2, <2>3, <2>4, LineAgain
<1>7. LineRight(miscounted', line', pos')
  BY <1>1, <1>6 DEF LineRight
<1>8. PICK e : e = expr'
  OBVIOUS
<1>9. e.running /\ e.begin = aux.begin /\ e.beginLine = aux.beginLine
  BY <1>1, <1>2, <1>8 DEF IsExpr
<1>10. ExprPlaced(miscounted', pos', e)
  BY <1>5, <1>9 DEF ExprPlaced
<1>11. aux'.automaton = "A_start" /\ aux'.token = AuxToken("Nothing", <<>>)
  BY <1>1, <1>2, AuxBegunIs
<1>12. AuxPlaced(miscounted', pos', aux')
  BY <1>11 DEF AuxPlaced, AuxToken
<1> QED
  BY <1>7, <1>8, <1>10, <1>12 DEF ExprLinesKept

(* The complement began before the position.                                *)
LEMMA ComplementBegan ==
    ASSUME ExprTurn, NEW turn, Gathers(turn), turn # "none"
    PROVE  First(expr.begin) <= pos
<1>1. PICK x : x = AuxLexeme(expr.begin)
  OBVIOUS
<1>2. PICK y : y = AuxLexeme(aux.begin)
  OBVIOUS
<1>3. PICK f : f = First(expr.begin)
  OBVIOUS
<1>4. /\ text \in Seq(STRING) /\ InComplement(expr, aux, number_of_errors - errorsBefore)
      /\ pos = y.end /\ aux.begin \in Nat /\ pos \in Nat /\ aux.begin <= pos
      /\ x.end \in Nat /\ expr.begin \in Places /\ expr.state = turn
  BY <1>1, <1>2, GathersFacts
<1>5. f \in Places /\ f <= x.end
  BY <1>1, <1>3, <1>4, AuxLexemeSound DEF Sound
<1>6. f \in Nat
  <2>1. Len(text) \in Nat /\ f \in 1 .. Len(text) + 1
    BY <1>4, <1>5, CharType DEF Places
  <2> QED
    BY <2>1
<1>7. \/ aux.begin = expr.begin \/ aux.begin = x.end \/ x.end < aux.begin
  <2>1. expr.state \in {"none", "Begin_class_complement", "First_char", "Body_chars"}
    BY ExprTurnFacts
  <2> QED
    BY <1>1, <1>4, <2>1 DEF InComplement
<1>8. x.end <= pos
  <2>1. CASE aux.begin = expr.begin
    BY <1>1, <1>2, <1>4, <2>1
  <2>2. CASE aux.begin = x.end
    BY <1>4, <2>2
  <2>3. CASE x.end < aux.begin
    BY <1>4, <2>3
  <2> QED
    BY <1>7, <2>1, <2>2, <2>3
<1> QED
  BY <1>3, <1>4, <1>5, <1>6, <1>8

(* The complement is read.                                                  *)
LEMMA ReturnComplementLines ==
    ASSUME ExprTurn, LinesTurn, NEW turn, Gathers(turn), turn # "none", NEW s, ReturnComplement(s)
    PROVE  ExprLinesKept
<1>1. /\ expr' = [expr EXCEPT !.running = FALSE, !.token = ExprToken("Class_complement", <<>>, s)]
      /\ pos' = pos /\ line' = line /\ expr.running /\ expr.state = turn
  BY DEF ReturnComplement, location, Gathers
<1>2. ~miscounted' => ~miscounted
  BY DEF LinesTurn
<1>3. LineRight(miscounted', line', pos')
  BY <1>1, <1>2 DEF LinesTurn, LineRight
<1>4. IsExpr(expr)
  BY ExprTurnFacts
<1>5. PICK e : e = expr'
  OBVIOUS
<1>6. ~e.running /\ e.begin = expr.begin /\ e.beginLine = expr.beginLine
  BY <1>1, <1>4, <1>5 DEF IsExpr
<1>7. ~miscounted => BeginsAt(expr.begin, expr.beginLine)
  BY <1>1 DEF LinesTurn, ExprPlaced
<1>8. First(expr.begin) <= pos
  BY ComplementBegan
<1>9. ExprPlaced(miscounted', pos, e)
  BY <1>2, <1>6, <1>7, <1>8 DEF ExprPlaced, Begun
<1> QED
  BY <1>1, <1>3, <1>5, <1>6, <1>9 DEF ExprLinesKept

(* A further member is read.                                                *)
LEMMA NextMemberLines ==
    ASSUME ExprTurn, LinesTurn, NEW turn, Gathers(turn), turn # "none",
           NEW after, NEW s, NEW n, NextMember(after, s, n)
    PROVE  ExprLinesKept
<1>1. /\ expr' = [expr EXCEPT !.state = after, !.set = s] /\ aux' = AuxBegun(pos)
      /\ pos' = pos /\ line' = line /\ expr.running /\ expr.state = turn
  BY DEF NextMember, MoveAndReport, Gathers
<1>2. ~miscounted' => ~miscounted
  BY DEF LinesTurn
<1>3. LineRight(miscounted', line', pos')
  BY <1>1, <1>2 DEF LinesTurn, LineRight
<1>4. IsExpr(expr) /\ IsAux(aux) /\ pos \in Places
  BY ExprTurnFacts
<1>5. PICK e : e = expr'
  OBVIOUS
<1>6. e.running /\ e.begin = expr.begin /\ e.beginLine = expr.beginLine
  BY <1>1, <1>4, <1>5 DEF IsExpr
<1>7. ~miscounted => BeginsAt(expr.begin, expr.beginLine)
  BY <1>1 DEF LinesTurn, ExprPlaced
<1>8. ExprPlaced(miscounted', pos, e)
  BY <1>2, <1>6, <1>7 DEF ExprPlaced
<1>9. aux'.automaton = "A_start" /\ aux'.token = AuxToken("Nothing", <<>>)
  BY <1>1, <1>4, AuxBegunIs
<1>10. AuxPlaced(miscounted', pos, aux')
  BY <1>9 DEF AuxPlaced, AuxToken
<1> QED
  BY <1>1, <1>3, <1>5, <1>8, <1>10 DEF ExprLinesKept

(* Every step of the scanner of expressions keeps the lines right.          *)
LEMMA ExprStepLines ==
    ASSUME ExprTurn, LinesTurn, ExprStep
    PROVE  ExprLinesKept
<1>1. CASE AuxStep /\ UNCHANGED expr
  BY <1>1, AuxBelowGoes, AuxStepLines
<1>2. CASE expr_lexeme
  BY <1>2, ExprLexemeLines
<1>3. CASE get_set_complement
  BY <1>3, ComplementLines
<1>4. CASE complement_cut
  <2>1. PICK turn \in {"Begin_class_complement", "First_char", "Body_chars"} : Gathers(turn)
    BY <1>4 DEF complement_cut
  <2>2. turn # "none" /\ ReturnComplement({})
    BY <1>4 DEF complement_cut
  <2> QED
    BY <2>1, <2>2, ReturnComplementLines
<1>5. CASE begin_class_complement_proc
  <2>1. /\ Gathers("Begin_class_complement") /\ "Begin_class_complement" # "none"
        /\ NextMember("First_char", expr.set, 0)
    BY <1>5 DEF begin_class_complement_proc
  <2> QED
    BY <2>1, NextMemberLines
<1>6. CASE first_char_proc
  <2>1. /\ Gathers("First_char") /\ "First_char" # "none"
        /\ \/ NextMember("Body_chars", expr.set \cup {aux.token.value}, 0)
           \/ NextMember("Body_chars", expr.set, 1)
    BY <1>6 DEF first_char_proc
  <2> QED
    BY <2>1, NextMemberLines
<1>7. CASE body_chars_proc
  <2>1. /\ Gathers("Body_chars") /\ "Body_chars" # "none"
        /\ \/ NextMember("Body_chars", expr.set \cup {aux.token.value}, 0)
           \/ NextMember("Body_chars", expr.set, 1)
           \/ ReturnComplement(expr.set)
    BY <1>7 DEF body_chars_proc
  <2> QED
    BY <2>1, NextMemberLines, ReturnComplementLines
<1> QED
  BY <1>1, <1>2, <1>3, <1>4, <1>5, <1>6, <1>7 DEF ExprStep

(* Every step of the scanner of expressions keeps the invariant.            *)
LEMMA ExprReadsKeeps ==
    ASSUME ScannersInv, ExprReads
    PROVE  ScannersInv'
<1>1. /\ Types /\ Turns /\ MainScanInv /\ ExprScanInv /\ LinesInv
  BY DEF ScannersInv
<1>2. /\ ExprStep /\ text' = text /\ main' = main /\ last' = last
      /\ errorsBefore' = errorsBefore
      /\ miscounted' = (miscounted \/ LineEnds(pos', pos - 1) > 0)
  BY DEF ExprReads
<1>3. expr.running
  <2>1. ASSUME AuxStep PROVE aux.running
    BY <2>1 DEF AuxStep, aux_start_space, aux_start_proc, aux_delimiter_proc, action_proc, classes_begin,
         classes_first, classes_proc, char_proc, hat_proc, aux_final_procs, AuxIn, AuxEndsIn
  <2> QED
    BY <1>1, <1>2, <2>1 DEF Turns, ExprStep, expr_lexeme, get_set_complement, complement_cut,
       begin_class_complement_proc, first_char_proc, body_chars_proc, Gathers
<1>4. last = "expr" /\ ~main.running
  BY <1>1, <1>3 DEF Turns
<1>5. ExprTurn
  BY <1>1, <1>3, <1>4 DEF ExprTurn, ExprScanInv
<1>6. ExprGoes
  BY <1>2, <1>5, ExprStepGoes
<1>7. LinesTurn
  BY <1>1, <1>2, <1>3, <1>4 DEF LinesInv, LinesTurn
<1>8. ExprLinesKept
  BY <1>2, <1>5, <1>7, ExprStepLines
<1>9. Types'
  <2>1. Places' = Places
    BY <1>2 DEF Places
  <2>2. /\ text \in Seq(STRING) /\ IsMain(main) /\ errorsBefore \in Nat
        /\ last \in {"none", "main", "expr", "back"}
    BY <1>1 DEF Types
  <2>3. IsMain(main)' /\ IsAux(aux)' /\ IsExpr(expr)'
    BY <1>2, <1>6, <2>2, TextOnly DEF ExprGoes
  <2>4. miscounted' \in BOOLEAN
    BY <1>2
  <2>5. pos' \in Places' /\ line' \in Nat /\ number_of_errors' \in Nat
    BY <1>6, <2>1 DEF ExprGoes
  <2> QED
    BY <1>2, <2>2, <2>3, <2>4, <2>5 DEF Types
<1>10. Turns'
  BY <1>2, <1>4, <1>6 DEF Turns, ExprGoes
<1>11. MainScanInv'
  BY <1>1, <1>2, <1>4 DEF MainScanInv, Char
<1>12. ExprScanInv'
  <2>1. ExprRead(expr', aux', pos', number_of_errors' - errorsBefore')
    BY <1>2, <1>6 DEF ExprGoes
  <2> QED
    BY <1>2, <2>1, TextOnly DEF ExprScanInv
<1>13. LinesInv'
  BY <1>2, <1>4, <1>8, LinesTextOnly DEF LinesInv, ExprLinesKept
<1> QED
  BY <1>9, <1>10, <1>11, <1>12, <1>13 DEF ScannersInv

(* A call of a scanner begins to read at the position.                      *)
LEMMA CallMainKeeps ==
    ASSUME ScannersInv, CallMain
    PROVE  ScannersInv'
<1>1. /\ Types /\ Turns /\ MainScanInv /\ ExprScanInv /\ LinesInv
  BY DEF ScannersInv
<1>2. /\ ~main.running /\ ~expr.running /\ last' = "main" /\ text' = text
      /\ main' = [main EXCEPT !.automaton = "A_start", !.token = Token("None", <<>>),
                            !.begin = pos, !.running = TRUE]
      /\ pos' = pos /\ line' = line /\ number_of_errors' = number_of_errors
      /\ errorsBefore' = number_of_errors /\ aux' = aux /\ expr' = expr /\ miscounted' = miscounted
  BY DEF CallMain, CallOf, Idle, BeginMain, location
<1>3. /\ text \in Seq(STRING) /\ pos \in Places /\ line \in Nat /\ number_of_errors \in Nat
      /\ miscounted \in BOOLEAN /\ IsMain(main) /\ IsAux(aux) /\ IsExpr(expr)
  BY <1>1 DEF Types
<1>4. PICK m : m = main'
  OBVIOUS
<1>5. /\ IsMain(m) /\ m.automaton = "A_start" /\ m.token = Token("None", <<>>) /\ m.begin = pos
      /\ m.running /\ m.undefined = main.undefined
  BY <1>2, <1>3, <1>4 DEF IsMain
<1>6. pos \in Nat
  <2>1. Len(text) \in Nat /\ pos \in 1 .. Len(text) + 1
    BY <1>3, CharType DEF Places
  <2> QED
    BY <2>1
<1>7. MainRead(m, pos, First(pos))
  <2>1. pos <= pos /\ \A k \in pos .. pos - 1 : FALSE
    BY <1>6
  <2> QED
    BY <1>5, <2>1 DEF MainRead
<1>8. Types'
  <2>1. Places' = Places
    BY <1>2 DEF Places
  <2>2. IsMain(main)' /\ IsAux(aux)' /\ IsExpr(expr)'
    BY <1>2, <1>3, <1>4, <1>5, TextOnly
  <2> QED
    BY <1>2, <1>3, <2>1, <2>2 DEF Types
<1>9. Turns'
  BY <1>1, <1>2 DEF Turns
<1>10. MainScanInv'
  <2>1. main'.undefined => (Char(Len(text)) = "%")'
    BY <1>1, <1>2, <1>4, <1>5 DEF MainScanInv, Char
  <2>2. MainRead(main, pos, First(main.begin))'
    BY <1>2, <1>4, <1>5, <1>7, TextOnly
  <2>3. main'.running /\ number_of_errors' = errorsBefore'
    BY <1>2, <1>4, <1>5
  <2> QED
    BY <2>1, <2>2, <2>3 DEF MainScanInv
<1>11. ExprScanInv'
  BY <1>2 DEF ExprScanInv
<1>12. LinesInv'
  <2>1. LineRight(miscounted, line, pos)
    BY <1>1 DEF LinesInv
  <2>2. MainPlaced(miscounted, pos, m)
    BY <1>5 DEF MainPlaced, Token
  <2> QED
    BY <1>2, <1>4, <2>1, <2>2, LinesTextOnly DEF LinesInv
<1> QED
  BY <1>8, <1>9, <1>10, <1>11, <1>12 DEF ScannersInv

(* The scanner of expressions is called.                                    *)
LEMMA CallExprKeeps ==
    ASSUME ScannersInv, CallExpr
    PROVE  ScannersInv'
<1>1. /\ Types /\ Turns /\ MainScanInv /\ ExprScanInv /\ LinesInv
  BY DEF ScannersInv
<1>2. /\ ~main.running /\ ~expr.running /\ last' = "expr" /\ text' = text
      /\ aux' = AuxBegun(pos) /\ expr' = [expr EXCEPT !.running = TRUE, !.state = "none"]
      /\ pos' = pos /\ line' = line /\ number_of_errors' = number_of_errors
      /\ errorsBefore' = number_of_errors /\ main' = main /\ miscounted' = miscounted
  BY DEF CallExpr, CallOf, Idle, BeginExpr, location
<1>3. /\ text \in Seq(STRING) /\ pos \in Places /\ line \in Nat /\ number_of_errors \in Nat
      /\ miscounted \in BOOLEAN /\ IsMain(main) /\ IsAux(aux) /\ IsExpr(expr)
  BY <1>1 DEF Types
<1>4. PICK a : a = aux'
  OBVIOUS
<1>5. PICK e : e = expr'
  OBVIOUS
<1>6. /\ IsAux(a) /\ a.running /\ a.begin = pos /\ LexemeErrors(a) = 0 /\ AuxRead(a, pos, First(pos))
      /\ a.automaton = "A_start" /\ a.token = AuxToken("Nothing", <<>>)
  BY <1>2, <1>3, <1>4, AuxBegunIs
<1>7. IsExpr(e) /\ e.running /\ e.state = "none"
  BY <1>2, <1>3, <1>5 DEF IsExpr
<1>8. ExprRead(e, a, pos, 0)
  BY <1>6, <1>7 DEF ExprRead
<1>9. Types'
  <2>1. Places' = Places
    BY <1>2 DEF Places
  <2>2. IsMain(main)' /\ IsAux(aux)' /\ IsExpr(expr)'
    BY <1>2, <1>3, <1>4, <1>5, <1>6, <1>7, TextOnly
  <2> QED
    BY <1>2, <1>3, <2>1, <2>2 DEF Types
<1>10. Turns'
  BY <1>1, <1>2, <1>5, <1>7 DEF Turns
<1>11. MainScanInv'
  BY <1>1, <1>2 DEF MainScanInv, Char
<1>12. ExprScanInv'
  <2>1. number_of_errors' - errorsBefore' = 0
    BY <1>2, <1>3
  <2>2. ExprRead(expr', aux', pos', number_of_errors' - errorsBefore')
    BY <1>2, <1>4, <1>5, <1>8, <2>1
  <2> QED
    BY <1>2, <2>2, TextOnly DEF ExprScanInv
<1>13. LinesInv'
  <2>1. LineRight(miscounted, line, pos)
    BY <1>1 DEF LinesInv
  <2>2. AuxPlaced(miscounted, pos, a)
    BY <1>6 DEF AuxPlaced, AuxToken
  <2>3. ExprPlaced(miscounted, pos, e)
    BY <1>7 DEF ExprPlaced
  <2> QED
    BY <1>2, <1>4, <1>5, <2>1, <2>2, <2>3, LinesTextOnly DEF LinesInv
<1> QED
  BY <1>9, <1>10, <1>11, <1>12, <1>13 DEF ScannersInv

(* A lexeme is given back.                                                  *)
LEMMA GoBackKeeps ==
    ASSUME ScannersInv, NEW begin \in Places, NEW beginLine \in Nat, NEW atEnd, GoBack(begin, beginLine, atEnd),
           ~atEnd => Begun(miscounted, pos, begin, beginLine)
    PROVE  ScannersInv'
<1>1. /\ Types /\ Turns /\ MainScanInv /\ ExprScanInv /\ LinesInv
  BY DEF ScannersInv
<1>2. /\ ~main.running /\ ~expr.running /\ last' = "back" /\ text' = text
      /\ pos' = begin /\ line' = beginLine /\ number_of_errors' = number_of_errors
      /\ errorsBefore' = errorsBefore /\ main' = main /\ aux' = aux /\ expr' = expr
      /\ miscounted' = (miscounted \/ atEnd \/ LineEnds(begin, pos - 1) > 0)
  BY DEF GoBack, CallOf, Idle, BackTo
<1>3. /\ text \in Seq(STRING) /\ pos \in Places /\ number_of_errors \in Nat /\ errorsBefore \in Nat
      /\ IsMain(main) /\ IsAux(aux) /\ IsExpr(expr)
  BY <1>1 DEF Types
<1>4. Types'
  <2>1. Places' = Places
    BY <1>2 DEF Places
  <2>2. IsMain(main)' /\ IsAux(aux)' /\ IsExpr(expr)'
    BY <1>2, <1>3, TextOnly
  <2>3. miscounted' \in BOOLEAN
    BY <1>2
  <2> QED
    BY <1>2, <1>3, <2>1, <2>2, <2>3 DEF Types
<1>5. Turns'
  BY <1>1, <1>2 DEF Turns
<1>6. MainScanInv'
  BY <1>1, <1>2 DEF MainScanInv, Char
<1>7. ExprScanInv'
  BY <1>2 DEF ExprScanInv
<1>8. LineRight(miscounted', beginLine, begin)
  <2>1. SUFFICES ASSUME ~miscounted' PROVE beginLine = 1 + LineEnds(1, begin - 1)
    BY DEF LineRight
  <2>2. ~miscounted /\ ~atEnd /\ ~(LineEnds(begin, pos - 1) > 0)
    BY <1>2, <2>1
  <2>3. First(begin) <= pos /\ BeginsAt(begin, beginLine)
    BY <2>2 DEF Begun
  <2> QED
    BY <1>3, <2>2, <2>3, LineAgain
<1>9. LinesInv'
  BY <1>2, <1>8, LinesTextOnly DEF LinesInv
<1> QED
  BY <1>4, <1>5, <1>6, <1>7, <1>9 DEF ScannersInv

(* A lexeme of the main scanner is given back.                              *)
LEMMA BackMainKeeps ==
    ASSUME ScannersInv, BackMain
    PROVE  ScannersInv'
<1>1. last = "main" /\ GoBack(main.begin, main.beginLine, main.token.code = "None")
  BY DEF BackMain
<1>2. main.begin \in Places /\ main.beginLine \in Nat
  BY DEF ScannersInv, Types, IsMain
<1>3. MainPlaced(miscounted, pos, main)
  BY <1>1 DEF ScannersInv, LinesInv
<1>4. main.token.code # "None" => Begun(miscounted, pos, main.begin, main.beginLine)
  BY <1>3 DEF MainPlaced
<1> QED
  BY <1>1, <1>2, <1>4, GoBackKeeps

(* A lexeme of expressions is given back.                                   *)
LEMMA BackExprKeeps ==
    ASSUME ScannersInv, BackExpr
    PROVE  ScannersInv'
<1>1. last = "expr" /\ GoBack(expr.begin, expr.beginLine, expr.token.code = "Nothing")
  BY DEF BackExpr
<1>2. expr.begin \in Places /\ expr.beginLine \in Nat
  BY DEF ScannersInv, Types, IsExpr
<1>3. ExprPlaced(miscounted, pos, expr) /\ ~expr.running
  BY <1>1 DEF ScannersInv, LinesInv, GoBack, CallOf, Idle
<1>4. expr.token.code # "Nothing" => Begun(miscounted, pos, expr.begin, expr.beginLine)
  BY <1>3 DEF ExprPlaced
<1> QED
  BY <1>1, <1>2, <1>4, GoBackKeeps

(* At first nothing was read.                                               *)
LEMMA ScannersBegin ==
    ASSUME ScannersInit
    PROVE  ScannersInv
<1>1. /\ text \in Descriptions /\ pos = 1 /\ line = 1 /\ number_of_errors = 0
      /\ MainInit /\ ExprInit /\ last = "none" /\ errorsBefore = 0 /\ miscounted = FALSE
  BY DEF ScannersInit, LocationInit
<1>2. text \in Seq(STRING) /\ Len(text) \in Nat
  BY <1>1, DescriptionsAssumption, CharType
<1>3. 1 \in Places
  BY <1>2 DEF Places
<1>4. IsMain(main) /\ ~main.running /\ ~main.undefined
  BY <1>1, <1>3 DEF MainInit, IsMain
<1>5. IsAux(aux) /\ ~aux.running /\ IsExpr(expr) /\ ~expr.running
  BY <1>1, <1>3 DEF ExprInit, IsAux, IsExpr
<1>6. Types
  BY <1>1, <1>2, <1>3, <1>4, <1>5 DEF Types
<1>7. Turns
  BY <1>4, <1>5 DEF Turns
<1>8. MainScanInv
  BY <1>1, <1>4 DEF MainScanInv
<1>9. ExprScanInv
  BY <1>1 DEF ExprScanInv
<1>10. LinesInv
  <2>1. LineEnds(1, 1 - 1) = 0
    BY LineEndsShort
  <2>2. LineRight(miscounted, line, pos)
    BY <1>1, <2>1 DEF LineRight
  <2> QED
    BY <1>1, <1>5, <2>2 DEF LinesInv
<1> QED
  BY <1>6, <1>7, <1>8, <1>9, <1>10 DEF ScannersInv

(* A step that changes nothing keeps the invariant.                         *)
LEMMA ScannersStutter ==
    ASSUME ScannersInv, UNCHANGED scannersVars
    PROVE  ScannersInv'
<1>1. /\ text' = text /\ pos' = pos /\ line' = line /\ number_of_errors' = number_of_errors
      /\ main' = main /\ aux' = aux /\ expr' = expr
      /\ last' = last /\ errorsBefore' = errorsBefore /\ miscounted' = miscounted
  BY DEF scannersVars, location, scannersHistory
<1>2. /\ Types /\ Turns /\ MainScanInv /\ ExprScanInv /\ LinesInv
  BY DEF ScannersInv
<1>3. Types' /\ Turns'
  <2>1. Places' = Places
    BY <1>1 DEF Places
  <2>2. IsMain(main)' /\ IsAux(aux)' /\ IsExpr(expr)'
    BY <1>1, <1>2, TextOnly DEF Types
  <2> QED
    BY <1>1, <1>2, <2>1, <2>2 DEF Types, Turns
<1>4. MainScanInv'
  <2>1. main.running => MainRead(main, pos, First(main.begin))'
    BY <1>1, <1>2, TextOnly DEF MainScanInv
  <2>2. (Char(Len(text)) = "%")' <=> Char(Len(text)) = "%"
    BY <1>1 DEF Char
  <2>3. MainLexeme(main.begin)' = MainLexeme(main.begin)
    BY <1>1, TextOnly
  <2> QED
    BY <1>1, <1>2, <2>1, <2>2, <2>3 DEF MainScanInv, Found
<1>5. ExprScanInv'
  BY <1>1, <1>2, TextOnly DEF ExprScanInv
<1>6. LinesInv'
  BY <1>1, <1>2, LinesTextOnly DEF LinesInv
<1> QED
  BY <1>3, <1>4, <1>5, <1>6 DEF ScannersInv

(* In every state of the scanners what was read is what the text says, and  *)
(* the lines are right: the invariant is inductive.                         *)
THEOREM ScannersInvariant == ScannersSpec => []ScannersInv
<1>1. ScannersInit => ScannersInv
  BY ScannersBegin
<1>2. ScannersInv /\ [ScannersNext]_scannersVars => ScannersInv'
  BY CallMainKeeps, CallExprKeeps, BackMainKeeps, BackExprKeeps, MainReadsKeeps, ExprReadsKeeps,
     ScannersStutter DEF ScannersNext
<1> QED
  BY <1>1, <1>2, PTL DEF ScannersSpec

(* Every lexeme that the main scanner returns is the one that the text has  *)
(* behind the position, of texts of any length, after any lexemes that were *)
(* read and given back (src/main_scaner.cpp, current_lexem).                *)
THEOREM MainLexemesAreRight == ScannersSpec => []MainReadsRight
<1>1. ScannersInv => MainReadsRight
  <2>1. SUFFICES ASSUME ScannersInv PROVE MainReadsRight
    OBVIOUS
  <2>2. /\ Types /\ Turns /\ MainScanInv
    BY <2>1 DEF ScannersInv
  <2>3. ScannersTypeOK
    BY <2>2 DEF Types, Turns, ScannersTypeOK, IsMain, IsAux, IsExpr, Places
  <2>4. UndefinedAtLonePercent
    BY <2>2 DEF MainScanInv, UndefinedAtLonePercent
  <2>5. last = "main" /\ Idle /\ ~main.undefined =>
            Found(main.token, pos, number_of_errors - errorsBefore) = MainLexeme(main.begin)
    BY <2>2 DEF MainScanInv, Idle
  <2> QED
    BY <2>3, <2>4, <2>5 DEF MainReadsRight
<1> QED
  BY <1>1, ScannersInvariant, PTL

(* So is every lexeme of the scanner of expressions, the complement of a    *)
(* set and its members with it (src/expr_scaner.cpp, get_set_complement).   *)
THEOREM ExprLexemesAreRight == ScannersSpec => []ExprReadsRight
<1>1. ScannersInv => ExprReadsRight
  BY DEF ScannersInv, ExprScanInv, ExprRead, ExprReadsRight, Idle
<1> QED
  BY <1>1, ScannersInvariant, PTL

(* The line of every lexeme is right, until a line end is passed twice or   *)
(* within a string (lexem_begin_line_number, include/abstract_scaner.h).    *)
THEOREM LinesOfLexemesAreRight == ScannersSpec => []LinesRight
<1>1. ScannersInv => LinesRight
  <2>1. SUFFICES ASSUME ScannersInv PROVE LinesRight
    OBVIOUS
  <2>2. LinesInv
    BY <2>1 DEF ScannersInv
  <2>3. last = "main" /\ main.token.code # "None" /\ ~miscounted => BeginsAt(main.begin, main.beginLine)
    BY <2>2 DEF LinesInv, MainPlaced, Begun
  <2>4. last = "expr" /\ ~expr.running /\ expr.token.code # "Nothing" /\ ~miscounted =>
            BeginsAt(expr.begin, expr.beginLine)
    BY <2>2 DEF LinesInv, ExprPlaced, Begun
  <2> QED
    BY <2>3, <2>4 DEF LinesRight, Idle
<1> QED
  BY <1>1, ScannersInvariant, PTL
=============================================================================
