--------------------------- MODULE NumStrIdProofs ---------------------------
(***************************************************************************)
(* The automaton of the headers of %numbers, %strings and %idents          *)
(* recognizes the documented headers, of any length: what it reads without *)
(* an error has that form, the section gets the actions of this header,    *)
(* and nothing is taken for an error that the documented form allows.      *)
(***************************************************************************)
EXTENDS NumStrIdParser, ScopeProofs

(* Where the colon of a header is, and how many lexemes it has before the  *)
(* definitions of actions                                                  *)
ColonAt(p) == IF Len(p) >= 2 /\ p[2].code = "Colon" THEN 2 ELSE 3

HeaderLen(p) ==
    IF Len(p) > ColonAt(p) /\ p[ColonAt(p) + 1].code = "String" THEN ColonAt(p) + 1
                                                                ELSE ColonAt(p)

(* The first n lexemes of p are a header without its expression. *)
HeaderRead(p, n) ==
    /\ ColonAt(p) = 3 => p[2].code = "String" /\ p[3].code = "Colon"
    /\ HeaderLen(p) <= n
    /\ \A j \in HeaderLen(p) + 1 .. n : p[j].code = Definition(HeaderLen(p), j)

(* All of p is a header, and the opening brace of its expression. *)
HeaderComplete(p) ==
    /\ HeaderRead(p, Len(p) - 1)
    /\ p[Len(p)].code = "Opened_fig_brack"
    /\ (Len(p) - HeaderLen(p)) % 3 = 1

(* The state after complete definitions and r more lexemes *)
StateAfter(r) ==
    CASE r = 0 -> "Final_acts" [] r = 1 -> "Action_sec" [] r = 2 -> "Act_def"

(* What has been read is what the state says. *)
ReadSoFar ==
    /\ Len(path) >= 1
    /\ path[1].code = settings[running]
    /\ state = "Maybe_init_acts" => Len(path) = 1
    /\ state = "Init_acts" => Len(path) = 2 /\ path[2].code = "String"
    /\ state = "Maybe_final_acts" => Len(path) = ColonAt(path)
    /\ state \in {"Maybe_final_acts", "Final_acts", "Action_sec", "Act_def"} =>
          HeaderRead(path, Len(path))
    /\ state \in {"Final_acts", "Action_sec", "Act_def"} =>
          /\ Len(path) > ColonAt(path)
          /\ state = StateAfter((Len(path) - HeaderLen(path)) % 3)
    /\ state = "a_parser" => HeaderComplete(path)

(* The actions that the text p has before and after the colon, as far as it *)
(* was read                                                                 *)
ActsRead(p) ==
    [init_acts |-> IF Len(p) >= 2 /\ p[2].code = "String" THEN p[2].idx ELSE 0,
     fin_acts  |-> IF HeaderLen(p) > ColonAt(p) THEN p[HeaderLen(p)].idx ELSE 0]

(* Every definition that was read has entered its action, unless a later   *)
(* one has given it another body.                                          *)
ActionsKept ==
    \A k \in 1 .. Len(path) - 2 : path[k].code = "Kw_action" =>
        \E m \in k .. Len(path) - 2 :
            /\ path[m].code = "Kw_action"
            /\ path[m + 1].idx = path[k + 1].idx
            /\ path[k + 1].idx \in DOMAIN idsc
            /\ idsc[path[k + 1].idx] = ActionName(path[m + 2].idx)

(* While a header is read without an error ... *)
HeaderKept ==
    /\ ReadSoFar
    /\ acts_ = ActsRead(path)
    /\ ActionsKept
    /\ state = "Act_def" => current_action_name_idx = path[Len(path)].idx

(* ... and after its expression was parsed *)
ResultsKept ==
    /\ path[1].code \in {"Kw_numbers", "Kw_strings", "Kw_idents"}
    /\ HeaderComplete(path)
    /\ ParserOf[path[1].code] \in regexps
    /\ acts[ParserOf[path[1].code]] = ActsRead(path)
    /\ ActionsKept

HeaderInv ==
    /\ TypeOK
    /\ \A str \in DOMAIN strsc : strsc[str] = "Action_definition"
    /\ ~Recording => path = <<>> /\ failed = FALSE
    /\ running \in Sections /\ state = "Num_str_kw" =>
          /\ path = <<>>
          /\ next.code \in DOMAIN ParserOf
          /\ running = ParserOf[next.code]
          /\ acts_ = NoActs
    /\ running \in Sections /\ state # "Num_str_kw" /\ Recording /\ ~failed => HeaderKept
    /\ Complete => ResultsKept

-----------------------------------------------------------------------------
(* The lexemes with which a state goes on without an error *)
Allowed(s) ==
    CASE s = "Maybe_init_acts"  -> {"String", "Colon"}
      [] s = "Init_acts"        -> {"Colon"}
      [] s = "Maybe_final_acts" -> {"String", "Kw_action", "Opened_fig_brack"}
      [] s = "Final_acts"       -> {"Kw_action", "Opened_fig_brack"}
      [] s = "Action_sec"       -> {"Id"}
      [] s = "Act_def"          -> {"String"}

(* An entry of the table leads to a state of the parser, and it is no error *)
(* exactly for these lexemes.                                               *)
LEMMA NumbersTable ==
    ASSUME NEW s \in DOMAIN procs, NEW c \in DOMAIN procs[s]
    PROVE  /\ c \in {"String", "Kw_action", "Id", "Opened_fig_brack", "Colon"}
           /\ procs[s][c].to \in States \ {"Num_str_kw"}
           /\ procs[s][c].errors \in {0, 1}
           /\ procs[s][c].errors = 0 => c \in Allowed(s)
           /\ c \notin Allowed(s) => procs[s][c].errors = 1
           /\ (procs[s][c].to = "a_parser") <=> (c = "Opened_fig_brack")
<1> USE DEF procs, Go, Err, States, Allowed
<1>1. CASE s = "Maybe_init_acts"
  BY <1>1 DEF maybe_init_acts_proc
<1>2. CASE s = "Init_acts"
  BY <1>2 DEF init_acts_proc
<1>3. CASE s = "Maybe_final_acts"
  BY <1>3 DEF maybe_final_acts_proc
<1>4. CASE s = "Final_acts"
  BY <1>4 DEF final_acts_proc
<1>5. CASE s = "Action_sec"
  BY <1>5 DEF action_sec_proc
<1>6. CASE s = "Act_def"
  BY <1>6 DEF act_def_proc
<1> QED
  BY <1>1, <1>2, <1>3, <1>4, <1>5, <1>6

(* Conversely, these lexemes are no errors. *)
LEMMA AllowedIsClean ==
    ASSUME NEW s \in DOMAIN procs, NEW c \in DOMAIN procs[s] \cap Allowed(s)
    PROVE  procs[s][c].errors = 0
<1> USE DEF procs, Go, Err, Allowed
<1>1. CASE s = "Maybe_init_acts"
  BY <1>1 DEF maybe_init_acts_proc
<1>2. CASE s = "Init_acts"
  BY <1>2 DEF init_acts_proc
<1>3. CASE s = "Maybe_final_acts"
  BY <1>3 DEF maybe_final_acts_proc
<1>4. CASE s = "Final_acts"
  BY <1>4 DEF final_acts_proc
<1>5. CASE s = "Action_sec"
  BY <1>5 DEF action_sec_proc
<1>6. CASE s = "Act_def"
  BY <1>6 DEF act_def_proc
<1> QED
  BY <1>1, <1>2, <1>3, <1>4, <1>5, <1>6

(* Where the entries without an error lead *)
LEMMA CleanMoves ==
    ASSUME NEW s \in DOMAIN procs, NEW c \in Allowed(s)
    PROVE  /\ c \in DOMAIN procs[s]
           /\ s = "Maybe_init_acts" =>
                 procs[s][c].to = IF c = "String" THEN "Init_acts" ELSE "Maybe_final_acts"
           /\ s = "Init_acts" => procs[s][c].to = "Maybe_final_acts"
           /\ s \in {"Maybe_final_acts", "Final_acts", "Action_sec", "Act_def"} =>
                 procs[s][c].to = CASE c = "Kw_action" -> "Action_sec"
                                    [] c = "Id"        -> "Act_def"
                                    [] c = "String"    -> "Final_acts"
                                    [] c = "Opened_fig_brack" -> "a_parser"
<1> USE DEF procs, Go, Err, Allowed
<1>1. CASE s = "Maybe_init_acts"
  BY <1>1 DEF maybe_init_acts_proc
<1>2. CASE s = "Init_acts"
  BY <1>2 DEF init_acts_proc
<1>3. CASE s = "Maybe_final_acts"
  BY <1>3 DEF maybe_final_acts_proc
<1>4. CASE s = "Final_acts"
  BY <1>4 DEF final_acts_proc
<1>5. CASE s = "Action_sec"
  BY <1>5 DEF action_sec_proc
<1>6. CASE s = "Act_def"
  BY <1>6 DEF act_def_proc
<1> QED
  BY <1>1, <1>2, <1>3, <1>4, <1>5, <1>6

-----------------------------------------------------------------------------
(* The four beginnings, and the definitions that repeat after them *)
LEMMA Shapes ==
    ASSUME NEW kw, NEW h \in Beginnings(kw)
    PROVE  \/ Len(h) = 2 /\ h[1] = kw /\ h[2] = "Colon"
           \/ Len(h) = 3 /\ h[1] = kw /\ h[2] = "String" /\ h[3] = "Colon"
           \/ Len(h) = 3 /\ h[1] = kw /\ h[2] = "Colon" /\ h[3] = "String"
           \/ Len(h) = 4 /\ h[1] = kw /\ h[2] = "String" /\ h[3] = "Colon" /\ h[4] = "String"
BY DEF Beginnings

LEMMA Definitions ==
    ASSUME NEW k \in Nat, NEW j \in Nat, j > k
    PROVE  /\ (j - k - 1) % 3 \in {0, 1, 2}
           /\ (j - k - 1) % 3 = 0 => Definition(k, j) = "Kw_action"
           /\ (j - k - 1) % 3 = 1 => Definition(k, j) = "Id"
           /\ (j - k - 1) % 3 = 2 => Definition(k, j) = "String"
<1> DEFINE r == (j - k - 1) % 3
<1>1. r \in {0, 1, 2}
  OBVIOUS
<1>2. Definition(k, j) = <<"Kw_action", "Id", "String">>[r + 1]
  BY DEF Definition
<1> HIDE DEF r
<1>3. /\ r = 0 => Definition(k, j) = "Kw_action"
      /\ r = 1 => Definition(k, j) = "Id"
      /\ r = 2 => Definition(k, j) = "String"
  BY <1>2
<1> QED
  BY <1>1, <1>3 DEF r

(* What stands where in a header that was read *)
LEMMA HeaderLetters ==
    ASSUME NEW p \in Seq(Lexeme), NEW n \in Nat, n <= Len(p), HeaderRead(p, n)
    PROVE  /\ ColonAt(p) \in {2, 3} /\ HeaderLen(p) \in {ColonAt(p), ColonAt(p) + 1}
           /\ Len(p) >= 2 /\ n >= 2
           /\ p[ColonAt(p)].code = "Colon"
           /\ ColonAt(p) = 3 => p[2].code = "String"
           /\ HeaderLen(p) = ColonAt(p) + 1 => p[HeaderLen(p)].code = "String"
<1>1. ColonAt(p) \in {2, 3} /\ HeaderLen(p) \in {ColonAt(p), ColonAt(p) + 1}
  BY DEF ColonAt, HeaderLen
<1>2. HeaderLen(p) <= n
  BY DEF HeaderRead
<1>3. Len(p) >= 2 /\ n >= 2
  BY <1>1, <1>2
<1>4. ColonAt(p) = 2 => p[2].code = "Colon"
  BY DEF ColonAt
<1>5. ColonAt(p) = 3 => p[2].code = "String" /\ p[3].code = "Colon"
  BY DEF HeaderRead
<1>6. HeaderLen(p) = ColonAt(p) + 1 => p[HeaderLen(p)].code = "String"
  BY <1>1 DEF HeaderLen
<1> QED
  BY <1>1, <1>3, <1>4, <1>5, <1>6

(* A header that was read begins with one of the beginnings. *)
LEMMA HeaderHasBeginning ==
    ASSUME NEW p \in Seq(Lexeme), NEW n \in Nat, n <= Len(p), HeaderRead(p, n)
    PROVE  \E h \in Beginnings(p[1].code) :
               /\ Len(h) = HeaderLen(p)
               /\ \A j \in 1 .. n : p[j].code = Letter(h, j)
<1> DEFINE kw == p[1].code
           c == ColonAt(p)
           k == HeaderLen(p)
           h == IF c = 2 THEN IF k = 2 THEN <<kw, "Colon">> ELSE <<kw, "Colon", "String">>
                         ELSE IF k = 3 THEN <<kw, "String", "Colon">>
                                       ELSE <<kw, "String", "Colon", "String">>
<1>1. /\ c \in {2, 3} /\ k \in {c, c + 1} /\ n >= k
      /\ p[c].code = "Colon"
      /\ c = 3 => p[2].code = "String"
      /\ k = c + 1 => p[k].code = "String"
      /\ \A j \in k + 1 .. n : p[j].code = Definition(k, j)
  BY HeaderLetters DEF HeaderRead
<1>2. h \in Beginnings(kw)
  BY <1>1 DEF Beginnings
<1>3. Len(h) = k
  BY <1>1
<1>4. \A j \in 1 .. k : p[j].code = h[j]
  <2>1. p[1].code = h[1] /\ p[2].code = h[2]
    BY <1>1
  <2>2. k >= 3 => p[3].code = h[3]
    BY <1>1
  <2>3. k >= 4 => p[4].code = h[4]
    BY <1>1
  <2>4. \A j \in 1 .. k : j = 1 \/ j = 2 \/ (j = 3 /\ k >= 3) \/ (j = 4 /\ k >= 4)
    BY <1>1
  <2> HIDE DEF h
  <2> QED
    BY <2>1, <2>2, <2>3, <2>4
<1>5. ASSUME NEW j \in 1 .. n PROVE p[j].code = Letter(h, j)
  BY <1>1, <1>3, <1>4 DEF Letter
<1> QED
  BY <1>2, <1>3, <1>5

(* If more than the colon was read, it is the only one. *)
LEMMA BeginningIsUnique ==
    ASSUME NEW p \in Seq(Lexeme), NEW n \in Nat, n <= Len(p), HeaderRead(p, n),
           n > ColonAt(p), NEW h \in Beginnings(p[1].code),
           \A j \in 1 .. n : p[j].code = Letter(h, j)
    PROVE  Len(h) = HeaderLen(p)
<1> DEFINE c == ColonAt(p)
           k == HeaderLen(p)
<1>1. /\ c \in {2, 3} /\ k \in {c, c + 1}
      /\ p[c].code = "Colon"
      /\ c = 3 => p[2].code = "String"
      /\ k = c + 1 => p[k].code = "String"
      /\ k = c => p[c + 1].code # "String"
  BY HeaderLetters DEF HeaderLen
<1>2. p[2].code = Letter(h, 2) /\ p[3].code = Letter(h, 3) /\ p[c + 1].code = Letter(h, c + 1)
  BY <1>1
<1>3. Definition(2, 3) = "Kw_action" /\ Definition(3, 4) = "Kw_action"
  BY Definitions
<1>s. \/ Len(h) = 2 /\ h[2] = "Colon"
      \/ Len(h) = 3 /\ h[2] = "String" /\ h[3] = "Colon"
      \/ Len(h) = 3 /\ h[2] = "Colon" /\ h[3] = "String"
      \/ Len(h) = 4 /\ h[2] = "String" /\ h[3] = "Colon" /\ h[4] = "String"
  BY Shapes
<1>l. p[2].code = h[2]
  BY <1>2, <1>s DEF Letter
<1>4. Len(h) \in {c, c + 1}
  BY <1>1, <1>s, <1>l DEF ColonAt
<1>5. CASE Len(h) = c
  <2>1. Letter(h, c + 1) = "Kw_action"
    BY <1>1, <1>3, <1>5 DEF Letter
  <2>2. p[c + 1].code # "String"
    BY <1>2, <2>1
  <2>3. k = c + 1 => p[c + 1].code = "String"
    BY <1>1
  <2>4. k # c + 1
    BY <2>2, <2>3
  <2>5. k = c
    BY <1>1, <2>4
  <2> QED
    BY <1>5, <2>5
<1>6. CASE Len(h) = c + 1
  <2>1. Letter(h, c + 1) = h[c + 1]
    BY <1>1, <1>6 DEF Letter
  <2>2. h[c + 1] = "String"
    BY <1>1, <1>s, <1>l, <1>6 DEF ColonAt
  <2>3. k # c
    BY <1>1, <1>2, <2>1, <2>2
  <2> QED
    BY <1>1, <1>6, <2>3
<1> QED
  BY <1>4, <1>5, <1>6

(* The lexeme behind definitions *)
LEMMA NextLetter ==
    ASSUME NEW k \in Nat, NEW n \in Nat, n >= k, n >= 1,
           state = StateAfter((n - k) % 3),
           state \in {"Final_acts", "Action_sec", "Act_def"}
    PROVE  /\ state = "Final_acts" => /\ Definition(k, n + 1) = "Kw_action"
                                      /\ (n - k) % 3 = 0 /\ (n + 1 - k) % 3 = 1
           /\ state = "Action_sec" => /\ Definition(k, n + 1) = "Id"
                                      /\ (n - k) % 3 = 1 /\ (n + 1 - k) % 3 = 2
           /\ state = "Act_def" => /\ Definition(k, n + 1) = "String"
                                   /\ (n - k) % 3 = 2 /\ (n + 1 - k) % 3 = 0
<1> DEFINE r == (n - k) % 3
<1>1. r \in {0, 1, 2} /\ r = (n + 1 - k - 1) % 3
  OBVIOUS
<1>2. /\ r = 0 => (n + 1 - k) % 3 = 1
      /\ r = 1 => (n + 1 - k) % 3 = 2
      /\ r = 2 => (n + 1 - k) % 3 = 0
  OBVIOUS
<1>3. /\ (n + 1 - k - 1) % 3 = 0 => Definition(k, n + 1) = "Kw_action"
      /\ (n + 1 - k - 1) % 3 = 1 => Definition(k, n + 1) = "Id"
      /\ (n + 1 - k - 1) % 3 = 2 => Definition(k, n + 1) = "String"
  BY n + 1 \in Nat, n + 1 > k, Definitions
<1>4. state = StateAfter(r)
  OBVIOUS
<1> HIDE DEF r
<1>5. /\ state = "Final_acts" <=> r = 0
      /\ state = "Action_sec" <=> r = 1
      /\ state = "Act_def" <=> r = 2
  BY <1>1, <1>4 DEF StateAfter
<1> QED
  BY <1>1, <1>2, <1>3, <1>5 DEF r

(* Every other lexeme departs from the documented form. *)
LEMMA OtherLexemesDepart ==
    ASSUME path \in Seq(Lexeme), state \in DOMAIN procs, ReadSoFar,
           NEW x, x.code \notin Allowed(state)
    PROVE  ~ BeginsDocumented(Append(path, x))
<1> DEFINE n == Len(path)
           q == Append(path, x)
<1>1. /\ n \in Nat /\ n >= 1 /\ Len(q) = n + 1
      /\ \A j \in 1 .. n : q[j] = path[j]
      /\ q[n + 1] = x
      /\ DOMAIN q = 1 .. n + 1
  <2>1. path \in Seq(Lexeme \cup {x}) /\ x \in Lexeme \cup {x}
    OBVIOUS
  <2> QED
    BY <2>1 DEF ReadSoFar
<1> HIDE DEF q
<1> SUFFICES ASSUME BeginsDocumented(q) PROVE FALSE
  BY DEF q
<1>2. PICK h \in Beginnings(path[1].code) :
         /\ \A j \in 1 .. n : path[j].code = Letter(h, j)
         /\ \/ x.code = Letter(h, n + 1)
            \/ /\ x.code = "Opened_fig_brack"
               /\ n + 1 > Len(h) /\ (n + 1 - Len(h)) % 3 = 1
  <2>1. /\ q[1] = path[1] /\ Len(q) - 1 = n /\ q[Len(q)] = x
        /\ \A j \in 1 .. n : q[j] = path[j]
    BY <1>1
  <2>2. CASE Documented(q)
    BY <2>1, <2>2, <1>1 DEF Documented
  <2>3. CASE \E h \in Beginnings(q[1].code) : \A j \in DOMAIN q : q[j].code = Letter(h, j)
    <3>1. PICK h \in Beginnings(path[1].code) : \A j \in DOMAIN q : q[j].code = Letter(h, j)
      BY <2>1, <2>3
    <3>2. x.code = Letter(h, n + 1) /\ \A j \in 1 .. n : path[j].code = Letter(h, j)
      BY <1>1, <2>1, <3>1
    <3> QED
      BY <3>2
  <2> QED
    BY <2>2, <2>3 DEF BeginsDocumented
<1>3. \/ Len(h) = 2 /\ h[2] = "Colon"
      \/ Len(h) = 3 /\ h[2] = "String" /\ h[3] = "Colon"
      \/ Len(h) = 3 /\ h[2] = "Colon" /\ h[3] = "String"
      \/ Len(h) = 4 /\ h[2] = "String" /\ h[3] = "Colon" /\ h[4] = "String"
  BY Shapes
<1>4. CASE state = "Maybe_init_acts"
  <2>1. n = 1 /\ x.code \notin {"String", "Colon"}
    BY <1>4 DEF ReadSoFar, Allowed
  <2>2. Letter(h, 2) = h[2]
    BY <1>3 DEF Letter
  <2> QED
    BY <1>2, <1>3, <2>1, <2>2
<1>5. CASE state = "Init_acts"
  <2>1. n = 2 /\ path[2].code = "String" /\ x.code # "Colon"
    BY <1>5 DEF ReadSoFar, Allowed
  <2>2. Letter(h, 2) = h[2] /\ path[2].code = Letter(h, 2)
    BY <1>2, <1>3, <2>1 DEF Letter
  <2>3. Len(h) >= 3 /\ h[3] = "Colon" /\ Letter(h, 3) = h[3]
    BY <1>3, <2>1, <2>2 DEF Letter
  <2> QED
    BY <1>2, <2>1, <2>3
<1>6. CASE state = "Maybe_final_acts"
  <2>1. /\ n = ColonAt(path) /\ HeaderRead(path, n)
        /\ x.code \notin {"String", "Kw_action", "Opened_fig_brack"}
    BY <1>6 DEF ReadSoFar, Allowed
  <2>2. /\ n \in {2, 3} /\ path[n].code = "Colon"
        /\ n = 3 => path[2].code = "String"
    BY <1>1, <2>1, HeaderLetters
  <2>3. path[2].code = h[2]
    BY <1>2, <1>3, <2>2 DEF Letter
  <2>4. Len(h) \in {n, n + 1} /\ Len(h) = n + 1 => h[n + 1] = "String"
    BY <1>3, <2>2, <2>3
  <2>5. Definition(n, n + 1) = "Kw_action"
    BY <1>1, Definitions
  <2>6. Letter(h, n + 1) \in {"String", "Kw_action"}
    BY <1>3, <2>2, <2>3, <2>4, <2>5 DEF Letter
  <2> QED
    BY <1>2, <2>1, <2>6
<1>7. CASE state \in {"Final_acts", "Action_sec", "Act_def"}
  <2> DEFINE k == HeaderLen(path)
  <2>1. /\ n > ColonAt(path) /\ HeaderRead(path, n)
        /\ state = StateAfter((n - k) % 3)
    BY <1>7 DEF ReadSoFar
  <2>2. k \in Nat /\ n >= k
    BY <1>1, <2>1, HeaderLetters DEF HeaderRead
  <2>3. Len(h) = k
    BY <1>1, <1>2, <2>1, BeginningIsUnique
  <2>4. Letter(h, n + 1) = Definition(k, n + 1)
    BY <1>1, <2>2, <2>3 DEF Letter
  <2> HIDE DEF k
  <2>5. /\ state = "Final_acts" => Definition(k, n + 1) = "Kw_action"
        /\ state = "Action_sec" => Definition(k, n + 1) = "Id" /\ (n + 1 - k) % 3 = 2
        /\ state = "Act_def" => Definition(k, n + 1) = "String" /\ (n + 1 - k) % 3 = 0
    BY <1>1, <1>7, <2>1, <2>2, NextLetter
  <2>6. /\ state = "Final_acts" => x.code \notin {"Kw_action", "Opened_fig_brack"}
        /\ state = "Action_sec" => x.code # "Id"
        /\ state = "Act_def" => x.code # "String"
    BY DEF Allowed
  <2> QED
    BY <1>2, <1>7, <2>3, <2>4, <2>5, <2>6
<1> QED
  BY <1>4, <1>5, <1>6, <1>7 DEF procs

(* No lexeme but the last one is an opening brace, and a definition is not *)
(* complete before its body was read.                                      *)
LEMMA LettersRead ==
    ASSUME path \in Seq(Lexeme), state \in DOMAIN procs, running \in Sections, ReadSoFar
    PROVE  /\ path[Len(path)].code # "Opened_fig_brack"
           /\ Len(path) >= 2 /\ path[Len(path) - 1].code = "Kw_action" => state = "Act_def"
           /\ state = "Act_def" => /\ Len(path) >= 3
                                   /\ path[Len(path)].code = "Id"
                                   /\ path[Len(path) - 1].code = "Kw_action"
<1> DEFINE n == Len(path)
           k == HeaderLen(path)
           c == ColonAt(path)
<1>1. n \in Nat /\ n >= 1
  BY DEF ReadSoFar
<1>2. path[1].code \in {"Kw_numbers", "Kw_strings", "Kw_idents"}
  BY DEF ReadSoFar, Sections, settings
<1>3. CASE state = "Maybe_init_acts"
  <2>1. n = 1
    BY <1>3 DEF ReadSoFar
  <2> QED
    BY <1>2, <1>3, <2>1
<1>4. CASE state = "Init_acts"
  <2>1. n = 2 /\ path[2].code = "String"
    BY <1>4 DEF ReadSoFar
  <2>2. n - 1 = 1
    BY <2>1
  <2> QED
    BY <1>2, <1>4, <2>1, <2>2
<1>5. CASE state = "Maybe_final_acts"
  <2>1. n = c /\ HeaderRead(path, n)
    BY <1>5 DEF ReadSoFar
  <2>2. /\ c \in {2, 3} /\ path[c].code = "Colon"
        /\ c = 3 => path[2].code = "String"
    BY <1>1, <2>1, HeaderLetters
  <2>3. path[n - 1].code # "Kw_action"
    BY <1>2, <2>1, <2>2
  <2> QED
    BY <1>5, <2>1, <2>2, <2>3
<1>6. CASE state \in {"Final_acts", "Action_sec", "Act_def"}
  <2>1. n > c /\ HeaderRead(path, n) /\ state = StateAfter((n - k) % 3)
    BY <1>6 DEF ReadSoFar
  <2>2. /\ c \in {2, 3} /\ k \in {c, c + 1} /\ n >= k
        /\ path[c].code = "Colon"
        /\ c = 3 => path[2].code = "String"
        /\ k = c + 1 => path[k].code = "String"
        /\ \A j \in k + 1 .. n : path[j].code = Definition(k, j)
    BY <1>1, <2>1, HeaderLetters DEF HeaderRead
  <2>3. ASSUME NEW j \in 1 .. k
        PROVE  path[j].code \notin {"Opened_fig_brack", "Kw_action"}
    <3>1. \/ j = 1 \/ j = c \/ (j = 2 /\ c = 3) \/ (j = k /\ k = c + 1)
      BY <2>2
    <3> QED
      BY <1>2, <2>2, <3>1
  <2>4. /\ state = "Final_acts" => (n - k) % 3 = 0
        /\ state = "Action_sec" => (n - k) % 3 = 1
        /\ state = "Act_def" => (n - k) % 3 = 2
    BY <1>1, <1>6, <2>1, <2>2, NextLetter
  <2> HIDE DEF k, c
  <2>5. ASSUME NEW j \in k + 1 .. n
        PROVE  /\ path[j].code \in {"Kw_action", "Id", "String"}
               /\ path[j].code = "Kw_action" <=> (j - k - 1) % 3 = 0
               /\ path[j].code = "Id" <=> (j - k - 1) % 3 = 1
    <3>1. j \in Nat /\ j > k /\ k \in Nat
      BY <2>2
    <3> QED
      BY <2>2, <3>1, Definitions
  <2>6. path[n].code # "Opened_fig_brack"
    BY <1>1, <2>2, <2>3, <2>5
  <2>7. ASSUME n >= 2, path[n - 1].code = "Kw_action" PROVE state = "Act_def"
    <3>1. n - 1 \in k + 1 .. n
      BY <1>1, <2>2, <2>3, <2>7
    <3>2. (n - 1 - k - 1) % 3 = 0
      BY <2>5, <2>7, <3>1
    <3>3. (n - k) % 3 = 2
      BY <1>1, <2>2, <3>1, <3>2
    <3> QED
      BY <1>6, <2>4, <3>3
  <2>8. ASSUME state = "Act_def"
        PROVE  n >= 3 /\ path[n].code = "Id" /\ path[n - 1].code = "Kw_action"
    <3>1. (n - k) % 3 = 2
      BY <2>4, <2>8
    <3>2. /\ n - k >= 2 /\ n >= 3 /\ n \in k + 1 .. n /\ n - 1 \in k + 1 .. n
          /\ (n - k - 1) % 3 = 1 /\ (n - 1 - k - 1) % 3 = 0
      BY <1>1, <2>2, <3>1
    <3> QED
      BY <2>5, <3>2
  <2> QED
    BY <2>6, <2>7, <2>8
<1> QED
  BY <1>3, <1>4, <1>5, <1>6 DEF procs

-----------------------------------------------------------------------------
(* The section begins with nothing read. *)
LEMMA InitInv == Init => HeaderInv
<1> SUFFICES ASSUME Init PROVE HeaderInv
  OBVIOUS
<1>1. SourceTypeOK
  BY SourceLengthAssumption, ErrorCapAssumption DEF Init, SourceInit, SourceTypeOK
<1>2. HistoryTypeOK /\ path = <<>> /\ failed = FALSE
  <2>1. <<>> \in Seq(Lexeme) /\ FALSE \in BOOLEAN
    OBVIOUS
  <2> QED
    BY <2>1, Zenon DEF Init, HistoryTypeOK
<1>3. /\ acts_ \in [init_acts : Nat, fin_acts : Nat]
      /\ acts \in [Sections -> [init_acts : Nat, fin_acts : Nat]]
      /\ running \in Sections \cup {"main"} /\ state \in States
      /\ current_action_name_idx \in Nat /\ regexps \subseteq Sections
  BY DEF Init, NoActs, States
<1>4. TypeOK
  BY <1>1, <1>2, <1>3, ScopeInitTypes DEF Init, TypeOK
<1>5. \A str \in DOMAIN strsc : strsc[str] = "Action_definition"
  BY DEF Init, ScopeInit
<1>6. running \notin Sections /\ ~ Complete
  BY <1>2 DEF Init, Sections, settings, Complete, Returned
<1> QED
  BY <1>2, <1>4, <1>5, <1>6 DEF HeaderInv

(* What a step of the automaton reads and where it leads *)
LEMMA StepReads ==
    ASSUME TypeOK, Step
    PROVE  /\ running \in Sections /\ state \in DOMAIN procs
           /\ next.code \in DOMAIN procs[state] \ {"Opened_fig_brack"}
           /\ state' = procs[state][next.code].to /\ state' \in States \ {"Num_str_kw"}
           /\ procs[state][next.code].errors \in {0, 1}
           /\ next \in Lexeme /\ next.idx \in Nat
           /\ \E n \in Nat : /\ Take(n) /\ Record(n)
                             /\ n = procs[state][next.code].errors
                                    + (IF state = "Act_def" /\ next.code = "String"
                                       THEN ActionErrors(current_action_name_idx, next.idx)
                                       ELSE 0)
<1>1. /\ running \in Sections /\ state \in DOMAIN procs
      /\ next.code \in DOMAIN procs[state] \ {"Opened_fig_brack"}
      /\ state' = procs[state][next.code].to
  BY DEF Step
<1>2. /\ next.code \in {"String", "Kw_action", "Id", "Opened_fig_brack", "Colon"}
      /\ state' \in States \ {"Num_str_kw"}
      /\ procs[state][next.code].errors \in {0, 1}
  BY <1>1, NumbersTable
<1>3. next \in Lexeme /\ next.idx \in Nat
  BY <1>2, NextLexeme DEF TypeOK
<1>4. ActionErrors(current_action_name_idx, next.idx) \in {0, 1}
  BY DEF ActionErrors
<1>5. procs[state][next.code].errors
          + (IF state = "Act_def" /\ next.code = "String"
             THEN ActionErrors(current_action_name_idx, next.idx) ELSE 0) \in Nat
  BY <1>2, <1>4
<1> QED
  BY <1>1, <1>2, <1>3, <1>5 DEF Step

(* A step defines an action, or leaves the scope alone. *)
LEMMA StepScope ==
    ASSUME TypeOK, Step
    PROVE  /\ UNCHANGED table
           /\ IF state = "Act_def" /\ next.code = "String"
              THEN AddActionDefinition(current_action_name_idx, next.idx)
              ELSE UNCHANGED <<idsc, strsc>>
BY DEF Step

(* Other sections may define codes, and change nothing else. *)
LEMMA OtherSectionsScope ==
    ASSUME TypeOK, OtherSections
    PROVE  /\ ScopeTypeOK' /\ strsc' = strsc
           /\ \A id \in DOMAIN idsc : id \in DOMAIN idsc' /\ idsc'[id] = idsc[id]
<1>1. CASE UNCHANGED scope
  BY <1>1 DEF scope, TypeOK, ScopeTypeOK
<1>2. ASSUME NEW id \in Idents, AddNewLexemCode(id), UNCHANGED strsc
      PROVE  /\ ScopeTypeOK'
             /\ \A x \in DOMAIN idsc : x \in DOMAIN idsc' /\ idsc'[x] = idsc[x]
  <2>1. id \in Nat
    BY LexemeAssumption DEF Idents
  <2>2. ScopeTypeOK'
    BY <1>2, <2>1, NewCodeKeepsTypes DEF TypeOK
  <2>3. \/ UNCHANGED idsc
        \/ id \notin DOMAIN idsc /\ idsc' = Put(idsc, id, CodeOfLexem(last_code_val_'))
    BY <1>2 DEF AddNewLexemCode
  <2> QED
    BY <2>2, <2>3 DEF Put
<1> QED
  BY <1>1, <1>2 DEF OtherSections, scope

(* Every step keeps the types. *)
LEMMA TypesKept ==
    ASSUME TypeOK, Next
    PROVE  TypeOK'
<1>1. SourceTypeOK'
  <2>1. CASE Step
    BY <2>1, StepReads, ReadingKeepsSource DEF TypeOK
  <2>2. CASE Call \/ Finished
    BY <2>2 DEF Call, Finished, nvars, source, TypeOK, SourceTypeOK
  <2>3. CASE SectionKeyword \/ RepeatedKeyword \/ Abandon
    <3>1. Take(0) \/ GiveBack(0)
      BY <2>3 DEF SectionKeyword, RepeatedKeyword, Abandon
    <3> QED
      BY <3>1, ReadingKeepsSource DEF TypeOK
  <2>4. CASE WrongBeginning
    <3>1. \E n \in Nat : GiveBack(n)
      BY <2>4 DEF WrongBeginning
    <3> QED
      BY <3>1, ReadingKeepsSource DEF TypeOK
  <2>5. CASE OpenExpression
    <3>1. GiveBack(procs[state][next.code].errors) /\ state \in DOMAIN procs
      BY <2>5 DEF OpenExpression
    <3>2. procs[state][next.code].errors \in Nat
      <4>1. "Opened_fig_brack" \in DOMAIN procs[state] /\ next.code = "Opened_fig_brack"
        BY <2>5 DEF OpenExpression, procs, maybe_init_acts_proc, init_acts_proc,
                    maybe_final_acts_proc, final_acts_proc, action_sec_proc, act_def_proc
      <4> QED
        BY <3>1, <4>1, NumbersTable
    <3> QED
      BY <3>1, <3>2, ReadingKeepsSource DEF TypeOK
  <2>6. CASE EndOfHeader
    <3>1. Report(1) /\ UNCHANGED source
      BY <2>6 DEF EndOfHeader, source
    <3> QED
      BY <3>1, ReadingKeepsSource DEF TypeOK
  <2>7. CASE ExpressionParsed \/ OtherSections
    <3>1. \E n \in 0 .. 1 : Take(n)
      BY <2>7 DEF ExpressionParsed, OtherSections
    <3> QED
      BY <3>1, ReadingKeepsSource DEF TypeOK
  <2> QED
    BY <2>1, <2>2, <2>3, <2>4, <2>5, <2>6, <2>7 DEF Next, Section
<1>2. ScopeTypeOK'
  <2>1. CASE Step
    <3>1. /\ UNCHANGED table /\ next.idx \in Nat
          /\ \/ UNCHANGED <<idsc, strsc>>
             \/ AddActionDefinition(current_action_name_idx, next.idx)
      BY <2>1, StepReads, StepScope
    <3>2. CASE UNCHANGED <<idsc, strsc>>
      BY <3>1, <3>2 DEF table, TypeOK, ScopeTypeOK
    <3>3. CASE AddActionDefinition(current_action_name_idx, next.idx)
      BY <3>1, <3>3, ActionKeepsTypes DEF TypeOK
    <3> QED
      BY <3>1, <3>2, <3>3
  <2>2. CASE OtherSections
    BY <2>2, OtherSectionsScope
  <2>3. CASE UNCHANGED scope
    BY <2>3 DEF scope, TypeOK, ScopeTypeOK
  <2> QED
    BY <2>1, <2>2, <2>3 DEF Next, Section, Call, SectionKeyword, WrongBeginning,
       RepeatedKeyword, OpenExpression, EndOfHeader, Abandon, ExpressionParsed, Finished,
       nvars, scope
<1>3. /\ running' \in Sections \cup {"main"} /\ state' \in States
      /\ acts_' \in [init_acts : Nat, fin_acts : Nat]
      /\ current_action_name_idx' \in Nat
      /\ acts' \in [Sections -> [init_acts : Nat, fin_acts : Nat]]
      /\ regexps' \subseteq Sections
  <2>1. CASE Step
    <3>1. NewActs \in [init_acts : Nat, fin_acts : Nat] /\ NewActionName \in Nat
      BY <2>1, StepReads DEF TypeOK, NewActs, NewActionName
    <3> QED
      BY <2>1, <3>1, StepReads DEF Step, TypeOK
  <2>2. CASE Call
    BY <2>2 DEF Call, TypeOK, States, NoActs, Sections, settings, ParserOf
  <2>3. CASE SectionKeyword \/ WrongBeginning \/ RepeatedKeyword \/ OpenExpression
             \/ EndOfHeader \/ Abandon \/ Finished \/ OtherSections
    BY <2>3 DEF SectionKeyword, WrongBeginning, RepeatedKeyword, OpenExpression, EndOfHeader,
                Abandon, Finished, OtherSections, nvars, fields, TypeOK, States
  <2>4. CASE ExpressionParsed
    BY <2>4 DEF ExpressionParsed, TypeOK
  <2> QED
    BY <2>1, <2>2, <2>3, <2>4 DEF Next, Section
<1>4. HistoryTypeOK'
  <2>1. CASE Step \/ SectionKeyword \/ OpenExpression
    <3>1. next \in Lexeme /\ \E n : Record(n)
      <4>1. CASE Step
        BY <4>1, StepReads
      <4>2. CASE SectionKeyword
        <5>1. next.code # "None" /\ Record(0)
          BY <4>2 DEF SectionKeyword, Sections, settings
        <5> QED
          BY <5>1, NextLexeme DEF TypeOK
      <4>3. CASE OpenExpression
        <5>1. next.code # "None" /\ Record(procs[state][next.code].errors)
          BY <4>3 DEF OpenExpression
        <5> QED
          BY <5>1, NextLexeme DEF TypeOK
      <4> QED
        BY <2>1, <4>1, <4>2, <4>3
    <3>2. (path' = path \/ path' = Append(path, next)) /\ failed' \in BOOLEAN
      BY <3>1, RecordingAssumption DEF Record, TypeOK, HistoryTypeOK
    <3>3. next \in Lexeme
      BY <3>1
    <3>3a. path \in Seq(Lexeme)
      BY DEF TypeOK, HistoryTypeOK
    <3>4. path' \in Seq(Lexeme)
      BY <3>2, <3>3, <3>3a
    <3> QED
      BY <3>2, <3>4, Zenon DEF HistoryTypeOK
  <2>2. CASE Call
    <3>1. <<>> \in Seq(Lexeme) /\ FALSE \in BOOLEAN
      OBVIOUS
    <3> QED
      BY <2>2, <3>1, Zenon DEF Call, Forget, HistoryTypeOK
  <2>3. CASE WrongBeginning \/ EndOfHeader
    <3>1. \E n : Blame(n)
      BY <2>3 DEF WrongBeginning, EndOfHeader
    <3>2. path' = path /\ failed' \in BOOLEAN
      BY <3>1, RecordingAssumption DEF Blame, TypeOK, HistoryTypeOK
    <3> QED
      BY <3>2 DEF TypeOK, HistoryTypeOK
  <2>4. CASE RepeatedKeyword \/ Abandon \/ ExpressionParsed \/ OtherSections \/ Finished
    BY <2>4 DEF RepeatedKeyword, Abandon, ExpressionParsed, OtherSections, Finished, nvars,
                history, SameHistory, TypeOK, HistoryTypeOK
  <2> QED
    BY <2>1, <2>2, <2>3, <2>4 DEF Next, Section
<1> QED
  BY <1>1, <1>2, <1>3, <1>4 DEF TypeOK

-----------------------------------------------------------------------------
(* One more lexeme moves neither the colon nor the end of the beginning,    *)
(* unless it is the string behind the colon.                                *)
LEMMA HeaderGrows ==
    ASSUME NEW p \in Seq(Lexeme), NEW x \in Lexeme, NEW q, q = Append(p, x), Len(p) >= 2,
           HeaderRead(p, Len(p))
    PROVE  /\ q \in Seq(Lexeme) /\ Len(q) = Len(p) + 1
           /\ \A j \in 1 .. Len(p) : q[j] = p[j]
           /\ q[Len(p) + 1] = x
           /\ ColonAt(q) = ColonAt(p)
           /\ HeaderLen(q) = IF Len(p) = ColonAt(p) /\ x.code = "String"
                             THEN ColonAt(p) + 1 ELSE HeaderLen(p)
           /\ HeaderRead(q, Len(p)) \/ HeaderLen(q) = Len(q)
<1> DEFINE n == Len(p)
           c == ColonAt(p)
<1>1. /\ q \in Seq(Lexeme) /\ Len(q) = n + 1 /\ n \in Nat
      /\ \A j \in 1 .. n : q[j] = p[j]
      /\ q[n + 1] = x
  OBVIOUS
<1>2. c \in {2, 3} /\ HeaderLen(p) \in {c, c + 1} /\ HeaderLen(p) <= n
  BY <1>1, HeaderLetters DEF HeaderRead
<1>3. ColonAt(q) = c
  BY <1>1 DEF ColonAt
<1>4. CASE n = c
  <2>1. HeaderLen(p) = c
    BY <1>4 DEF HeaderLen
  <2>2. HeaderLen(q) = IF x.code = "String" THEN c + 1 ELSE c
    BY <1>1, <1>2, <1>3, <1>4 DEF HeaderLen
  <2>3. x.code # "String" => HeaderRead(q, n)
    BY <1>1, <1>2, <1>3, <1>4, <2>2 DEF HeaderRead
  <2> QED
    BY <1>1, <1>3, <1>4, <2>1, <2>2, <2>3
<1>5. CASE n > c
  <2>1. HeaderLen(q) = HeaderLen(p)
    BY <1>1, <1>2, <1>3, <1>5 DEF HeaderLen
  <2>2. HeaderRead(q, n)
    BY <1>1, <1>2, <1>3, <1>5, <2>1 DEF HeaderRead
  <2> QED
    BY <1>1, <1>3, <1>5, <2>1, <2>2
<1> QED
  BY <1>1, <1>2, <1>4, <1>5

(* The lexeme that is read goes to the end of the path, if there is no     *)
(* error.                                                                  *)
LEMMA CleanRecord ==
    ASSUME TypeOK, NEW n \in Nat, Record(n), Recording, ~failed'
    PROVE  ~failed /\ n = 0 /\ path' = Append(path, next)
<1>1. failed' = (failed \/ n > 0) /\ path' = Append(path, next)
  BY Zenon DEF Record
<1>2. ~failed /\ ~(n > 0)
  BY <1>1, Zenon
<1> QED
  BY <1>1, <1>2

(* One more lexeme and its state; actions are defined by the string behind *)
(* a name only.                                                            *)
LEMMA DefinitionsGrow ==
    ASSUME ActionsKept, path \in Seq(Lexeme), next \in Lexeme, path' = Append(path, next),
           Len(path) >= 2 => path[Len(path) - 1].code # "Kw_action",
           UNCHANGED idsc
    PROVE  ActionsKept'
<1> DEFINE n == Len(path)
<1>1. /\ n \in Nat /\ Len(path') = n + 1
      /\ \A j \in 1 .. n : path'[j] = path[j]
  OBVIOUS
<1>2. ASSUME NEW k \in 1 .. Len(path') - 2, path'[k].code = "Kw_action"
      PROVE  \E m \in k .. Len(path') - 2 :
                 /\ path'[m].code = "Kw_action"
                 /\ path'[m + 1].idx = path'[k + 1].idx
                 /\ path'[k + 1].idx \in DOMAIN idsc
                 /\ idsc[path'[k + 1].idx] = ActionName(path'[m + 2].idx)
  <2>1. k \in 1 .. n - 1 /\ path[k].code = "Kw_action" /\ n >= 2
    BY <1>1, <1>2
  <2>2. k # n - 1
    BY <2>1
  <2>3. k \in 1 .. n - 2
    BY <1>1, <2>1, <2>2
  <2>4. PICK m \in k .. n - 2 :
           /\ path[m].code = "Kw_action"
           /\ path[m + 1].idx = path[k + 1].idx
           /\ path[k + 1].idx \in DOMAIN idsc
           /\ idsc[path[k + 1].idx] = ActionName(path[m + 2].idx)
    BY <2>1, <2>3 DEF ActionsKept
  <2>5. /\ m \in k .. Len(path') - 2
        /\ m \in 1 .. n /\ m + 1 \in 1 .. n /\ m + 2 \in 1 .. n /\ k + 1 \in 1 .. n
    BY <1>1, <2>3, <2>4
  <2> QED
    BY <1>1, <2>4, <2>5
<1> QED
  BY <1>2 DEF ActionsKept

LEMMA DefinitionEnds ==
    ASSUME ActionsKept, path \in Seq(Lexeme), next \in Lexeme, path' = Append(path, next),
           Len(path) >= 2, path[Len(path) - 1].code = "Kw_action",
           idsc' = Put(idsc, path[Len(path)].idx, ActionName(next.idx))
    PROVE  ActionsKept'
<1> DEFINE n == Len(path)
           id == path[n].idx
<1>1. /\ n \in Nat /\ Len(path') = n + 1
      /\ \A j \in 1 .. n : path'[j] = path[j]
      /\ path'[n + 1] = next
  OBVIOUS
<1>2. /\ id \in DOMAIN idsc' /\ idsc'[id] = ActionName(next.idx)
      /\ \A x \in DOMAIN idsc : x \in DOMAIN idsc' /\ x # id => idsc'[x] = idsc[x]
      /\ DOMAIN idsc \subseteq DOMAIN idsc'
  BY DEF Put
<1>3. ASSUME NEW k \in 1 .. Len(path') - 2, path'[k].code = "Kw_action"
      PROVE  \E m \in k .. Len(path') - 2 :
                 /\ path'[m].code = "Kw_action"
                 /\ path'[m + 1].idx = path'[k + 1].idx
                 /\ path'[k + 1].idx \in DOMAIN idsc'
                 /\ idsc'[path'[k + 1].idx] = ActionName(path'[m + 2].idx)
  <2>1. CASE path'[k + 1].idx = id
    <3>1. /\ n - 1 \in k .. Len(path') - 2 /\ n - 1 + 1 = n /\ n - 1 + 2 = n + 1
          /\ path'[n - 1].code = "Kw_action" /\ path'[n].idx = id
      BY <1>1, <1>3
    <3> QED
      BY <1>1, <1>2, <2>1, <3>1
  <2>2. CASE path'[k + 1].idx # id
    <3>1. k \in 1 .. n - 1 /\ path[k].code = "Kw_action" /\ k + 1 \in 1 .. n
      BY <1>1, <1>3
    <3>2. k # n - 1
      BY <1>1, <2>2, <3>1
    <3>3. k \in 1 .. n - 2
      BY <1>1, <3>1, <3>2
    <3>4. PICK m \in k .. n - 2 :
             /\ path[m].code = "Kw_action"
             /\ path[m + 1].idx = path[k + 1].idx
             /\ path[k + 1].idx \in DOMAIN idsc
             /\ idsc[path[k + 1].idx] = ActionName(path[m + 2].idx)
      BY <3>1, <3>3 DEF ActionsKept
    <3>5. /\ m \in k .. Len(path') - 2
          /\ m \in 1 .. n /\ m + 1 \in 1 .. n /\ m + 2 \in 1 .. n
      BY <1>1, <3>3, <3>4
    <3>6. /\ path'[k + 1] = path[k + 1] /\ path'[m] = path[m]
          /\ path'[m + 1] = path[m + 1] /\ path'[m + 2] = path[m + 2]
      BY <1>1, <3>1, <3>5
    <3>7. path[k + 1].idx \in DOMAIN idsc' /\ idsc'[path[k + 1].idx] = idsc[path[k + 1].idx]
      BY <1>2, <2>2, <3>4, <3>6
    <3> QED
      BY <3>4, <3>5, <3>6, <3>7
  <2> QED
    BY <2>1, <2>2
<1> QED
  BY <1>3 DEF ActionsKept

(* The new state says what was read ... *)
LEMMA PathReadsOn ==
    ASSUME TypeOK, ReadSoFar, state \in DOMAIN procs, running \in Sections,
           next \in Lexeme, next.code \in Allowed(state), path' = Append(path, next),
           state' = procs[state][next.code].to, running' = running
    PROVE  ReadSoFar'
<1> DEFINE n == Len(path)
<1>1. /\ n \in Nat /\ n >= 1 /\ Len(path') = n + 1
      /\ \A j \in 1 .. n : path'[j] = path[j]
      /\ path'[n + 1] = next /\ path \in Seq(Lexeme)
  BY DEF TypeOK, HistoryTypeOK, ReadSoFar
<1>2. path'[1].code = settings[running'] /\ Len(path') >= 1
  BY <1>1 DEF ReadSoFar
<1>3. CASE state = "Maybe_init_acts"
  <2>1. n = 1 /\ next.code \in {"String", "Colon"}
    BY <1>3 DEF ReadSoFar, Allowed
  <2>2. state' = IF next.code = "String" THEN "Init_acts" ELSE "Maybe_final_acts"
    BY <1>3, CleanMoves
  <2>3. CASE next.code = "String"
    BY <1>1, <1>2, <2>1, <2>2, <2>3 DEF ReadSoFar
  <2>4. CASE next.code = "Colon"
    <3>1. /\ Len(path') = 2 /\ path'[2].code = "Colon" /\ state' = "Maybe_final_acts"
          /\ ColonAt(path') = 2 /\ HeaderLen(path') = 2
      BY <1>1, <2>1, <2>2, <2>4 DEF ColonAt, HeaderLen
    <3>2. HeaderRead(path', Len(path'))
      BY <3>1 DEF HeaderRead
    <3> QED
      BY <1>2, <3>1, <3>2 DEF ReadSoFar
  <2> QED
    BY <2>1, <2>3, <2>4
<1>4. CASE state = "Init_acts"
  <2>1. n = 2 /\ path[2].code = "String" /\ next.code = "Colon"
    BY <1>4 DEF ReadSoFar, Allowed
  <2>2. state' = "Maybe_final_acts"
    BY <1>4, CleanMoves
  <2>3. /\ Len(path') = 3 /\ path'[2].code = "String" /\ path'[3].code = "Colon"
        /\ ColonAt(path') = 3 /\ HeaderLen(path') = 3
    BY <1>1, <2>1 DEF ColonAt, HeaderLen
  <2>4. HeaderRead(path', Len(path'))
    BY <2>3 DEF HeaderRead
  <2> QED
    BY <1>2, <2>2, <2>3, <2>4 DEF ReadSoFar
<1>5. CASE state \in {"Maybe_final_acts", "Final_acts", "Action_sec", "Act_def"}
  <2> DEFINE k == HeaderLen(path)
             c == ColonAt(path)
             h == HeaderLen(path')
  <2>1. HeaderRead(path, n) /\ n >= 2 /\ c \in {2, 3} /\ k \in {c, c + 1} /\ n >= k
    <3>1. HeaderRead(path, n)
      BY <1>5 DEF ReadSoFar
    <3> QED
      BY <1>1, <3>1, HeaderLetters DEF HeaderRead
  <2>2. /\ ColonAt(path') = c
        /\ h = IF n = c /\ next.code = "String" THEN c + 1 ELSE k
        /\ HeaderRead(path', n) \/ h = Len(path')
    BY <1>1, <2>1, HeaderGrows
  <2>3. state' = CASE next.code = "Kw_action" -> "Action_sec"
                   [] next.code = "Id"        -> "Act_def"
                   [] next.code = "String"    -> "Final_acts"
                   [] next.code = "Opened_fig_brack" -> "a_parser"
    BY <1>5, CleanMoves
  <2>4. CASE state = "Maybe_final_acts"
    <3>1. n = c /\ k = c /\ next.code \in {"String", "Kw_action", "Opened_fig_brack"}
      BY <2>4 DEF ReadSoFar, Allowed, HeaderLen
    <3>2. CASE next.code = "String"
      <4>1. h = n + 1 /\ state' = "Final_acts"
        BY <2>2, <2>3, <3>1, <3>2
      <4>2. HeaderRead(path', n + 1)
        <5>1. c = 3 => path'[2].code = "String" /\ path'[3].code = "Colon"
          BY <1>1, <2>1, <3>1 DEF HeaderRead
        <5> QED
          BY <2>1, <2>2, <4>1, <5>1 DEF HeaderRead
      <4>3. (n + 1 - h) % 3 = 0 /\ n + 1 > c
        BY <1>1, <3>1, <4>1
      <4>4. StateAfter((n + 1 - h) % 3) = "Final_acts"
        BY <4>3 DEF StateAfter
      <4> QED
        BY <1>1, <1>2, <2>2, <4>1, <4>2, <4>3, <4>4 DEF ReadSoFar
    <3>3. CASE next.code = "Kw_action"
      <4>1. h = n /\ state' = "Action_sec" /\ HeaderRead(path', n)
        BY <1>1, <2>2, <2>3, <3>1, <3>3
      <4>2. Definition(n, n + 1) = "Kw_action"
        BY <1>1, Definitions
      <4>3. HeaderRead(path', n + 1)
        BY <1>1, <3>3, <4>1, <4>2 DEF HeaderRead
      <4>4. (n + 1 - h) % 3 = 1 /\ n + 1 > c
        BY <1>1, <3>1, <4>1
      <4>5. StateAfter((n + 1 - h) % 3) = "Action_sec"
        BY <4>4 DEF StateAfter
      <4> QED
        BY <1>1, <1>2, <2>2, <4>1, <4>3, <4>4, <4>5 DEF ReadSoFar
    <3>4. CASE next.code = "Opened_fig_brack"
      <4>1. h = n /\ state' = "a_parser" /\ HeaderRead(path', n)
        BY <1>1, <2>2, <2>3, <3>1, <3>4
      <4>2. (n + 1 - h) % 3 = 1
        BY <1>1, <4>1
      <4>3. HeaderComplete(path')
        BY <1>1, <3>4, <4>1, <4>2 DEF HeaderComplete
      <4> QED
        BY <1>2, <4>1, <4>3 DEF ReadSoFar
    <3> QED
      BY <3>1, <3>2, <3>3, <3>4
  <2>5. CASE state \in {"Final_acts", "Action_sec", "Act_def"}
    <3>1. n > c /\ state = StateAfter((n - k) % 3)
      BY <2>5 DEF ReadSoFar
    <3>2. h = k /\ HeaderRead(path', n)
      BY <1>1, <2>1, <2>2, <3>1
    <3> HIDE DEF k, h, c
    <3>3. /\ state = "Final_acts" => /\ Definition(k, n + 1) = "Kw_action"
                                     /\ (n + 1 - k) % 3 = 1
          /\ state = "Action_sec" => Definition(k, n + 1) = "Id" /\ (n + 1 - k) % 3 = 2
          /\ state = "Act_def" => Definition(k, n + 1) = "String" /\ (n + 1 - k) % 3 = 0
      BY <1>1, <2>1, <2>5, <3>1, NextLetter
    <3>4. CASE next.code = "Opened_fig_brack"
      <4>1. state = "Final_acts" /\ state' = "a_parser"
        BY <2>3, <2>5, <3>4 DEF Allowed
      <4>2. Len(path') - 1 = n /\ (Len(path') - k) % 3 = 1
        BY <1>1, <2>1, <3>3, <4>1
      <4>b. HeaderRead(path', Len(path') - 1)
        BY <3>2, <4>2, Zenon
      <4>c. path'[Len(path')].code = "Opened_fig_brack"
        BY <1>1, <3>4
      <4>4. (Len(path') - HeaderLen(path')) % 3 = 1
        BY <3>2, <4>2 DEF h
      <4>5. HeaderComplete(path')
        BY <4>b, <4>c, <4>4 DEF HeaderComplete
      <4> QED
        BY <1>2, <4>1, <4>5 DEF ReadSoFar
    <3>5. CASE next.code # "Opened_fig_brack"
      <4>1. /\ next.code = Definition(k, n + 1)
            /\ state' = StateAfter((n + 1 - k) % 3)
            /\ state' \in {"Final_acts", "Action_sec", "Act_def"}
        BY <2>3, <2>5, <3>3, <3>5 DEF Allowed, StateAfter
      <4>2. HeaderRead(path', n + 1)
        <5>1. \A j \in k + 1 .. n + 1 : path'[j].code = Definition(k, j)
          BY <1>1, <2>1, <3>2, <4>1 DEF HeaderRead, h
        <5> QED
          BY <1>1, <2>1, <3>2, <5>1 DEF HeaderRead, h
      <4>3. n + 1 > ColonAt(path')
        BY <1>1, <2>1, <2>2, <3>1
      <4> QED
        <5>1. /\ Len(path') > ColonAt(path') /\ HeaderRead(path', Len(path'))
              /\ state' = StateAfter((Len(path') - HeaderLen(path')) % 3)
          <6>1. Len(path') = n + 1
            BY <1>1
          <6>2. HeaderRead(path', Len(path'))
            BY <4>2, <6>1, Zenon
          <6>3. state' = StateAfter((Len(path') - HeaderLen(path')) % 3)
            <7>1. HeaderLen(path') = k /\ state' = StateAfter((n + 1 - k) % 3)
              BY <3>2, <4>1 DEF h
            <7>2. Len(path') - HeaderLen(path') = n + 1 - k
              BY <1>1, <2>1, <6>1, <7>1
            <7> QED
              BY <7>1, <7>2
          <6> QED
            BY <4>3, <6>1, <6>2, <6>3
        <5> QED
          BY <1>2, <4>1, <5>1 DEF ReadSoFar
    <3> QED
      BY <3>4, <3>5
  <2> QED
    BY <1>5, <2>4, <2>5
<1> QED
  BY <1>3, <1>4, <1>5 DEF procs

(* ... and acts_ what the text has before and after the colon.             *)
LEMMA ActsReadOn ==
    ASSUME TypeOK, ReadSoFar, state \in DOMAIN procs, acts_ = ActsRead(path),
           next \in Lexeme, next.code \in Allowed(state), path' = Append(path, next)
    PROVE  NewActs = ActsRead(path')
<1> DEFINE n == Len(path)
           k == HeaderLen(path)
           c == ColonAt(path)
           h == HeaderLen(path')
           init == IF n >= 2 /\ path[2].code = "String" THEN path[2].idx ELSE 0
           fin == IF k > c THEN path[k].idx ELSE 0
<1>1. /\ n \in Nat /\ n >= 1 /\ Len(path') = n + 1
      /\ \A j \in 1 .. n : path'[j] = path[j]
      /\ path'[n + 1] = next /\ path \in Seq(Lexeme)
  BY DEF TypeOK, HistoryTypeOK, ReadSoFar
<1>2. acts_ = [init_acts |-> init, fin_acts |-> fin]
  BY DEF ActsRead
<1>3. CASE state = "Maybe_init_acts"
  <2>1. n = 1 /\ next.code \in {"String", "Colon"}
    BY <1>3 DEF ReadSoFar, Allowed
  <2>2. acts_ = [init_acts |-> 0, fin_acts |-> 0]
    BY <1>2, <2>1 DEF ColonAt, HeaderLen
  <2>3. NewActs = [init_acts |-> IF next.code = "String" THEN next.idx ELSE 0, fin_acts |-> 0]
    BY <1>3, <2>1, <2>2 DEF NewActs
  <2>4. Len(path') = 2 /\ path'[2] = next
    BY <1>1, <2>1
  <2>5. h = ColonAt(path')
    BY <2>1, <2>4 DEF ColonAt, HeaderLen
  <2>6. ~ (h > ColonAt(path')) /\ Len(path') >= 2
    BY <2>4, <2>5 DEF ColonAt
  <2>7. ActsRead(path') =
            [init_acts |-> IF path'[2].code = "String" THEN path'[2].idx ELSE 0, fin_acts |-> 0]
    BY <2>6 DEF ActsRead
  <2> QED
    BY <2>3, <2>4, <2>7
<1>4. CASE state = "Init_acts"
  <2>1. n = 2 /\ path[2].code = "String" /\ next.code = "Colon"
    BY <1>4 DEF ReadSoFar, Allowed
  <2>2. acts_ = [init_acts |-> path[2].idx, fin_acts |-> 0] /\ NewActs = acts_
    BY <1>2, <2>1 DEF ColonAt, HeaderLen, NewActs
  <2>3. Len(path') = 3 /\ path'[2] = path[2]
    BY <1>1, <2>1
  <2>4. h = ColonAt(path')
    BY <2>1, <2>3 DEF ColonAt, HeaderLen
  <2>5. ~ (h > ColonAt(path')) /\ Len(path') >= 2
    BY <2>3, <2>4 DEF ColonAt
  <2>6. ActsRead(path') =
            [init_acts |-> IF path'[2].code = "String" THEN path'[2].idx ELSE 0, fin_acts |-> 0]
    BY <2>5 DEF ActsRead
  <2> QED
    BY <2>1, <2>2, <2>3, <2>6
<1>5. CASE state \in {"Maybe_final_acts", "Final_acts", "Action_sec", "Act_def"}
  <2>1. HeaderRead(path, n) /\ n >= 2 /\ c \in {2, 3} /\ k \in {c, c + 1} /\ n >= k
    <3>1. HeaderRead(path, n)
      BY <1>5 DEF ReadSoFar
    <3> QED
      BY <1>1, <3>1, HeaderLetters DEF HeaderRead
  <2>2. /\ ColonAt(path') = c
        /\ h = IF n = c /\ next.code = "String" THEN c + 1 ELSE k
    BY <1>1, <2>1, HeaderGrows
  <2>3. path'[2] = path[2] /\ path'[k] = path[k] /\ Len(path') >= 2
    BY <1>1, <2>1
  <2>4. init = IF Len(path') >= 2 /\ path'[2].code = "String" THEN path'[2].idx ELSE 0
    BY <2>1, <2>3
  <2>5. ActsRead(path') = [init_acts |-> init,
                           fin_acts |-> IF h > c THEN path'[h].idx ELSE 0]
    BY <2>2, <2>4 DEF ActsRead
  <2> HIDE DEF init
  <2>6. CASE state = "Maybe_final_acts"
    <3>1. n = c /\ k = c /\ fin = 0
      BY <2>6 DEF ReadSoFar, HeaderLen
    <3>2. CASE next.code = "String"
      <4>1. NewActs = [init_acts |-> init, fin_acts |-> next.idx]
        BY <1>2, <2>6, <3>2 DEF NewActs
      <4>2. h = n + 1 /\ h > c /\ path'[h] = next
        BY <1>1, <2>1, <2>2, <3>1, <3>2
      <4> QED
        BY <2>5, <4>1, <4>2
    <3>3. CASE next.code # "String"
      <4>1. NewActs = [init_acts |-> init, fin_acts |-> 0]
        BY <1>2, <3>1, <3>3 DEF NewActs
      <4>2. h = c
        BY <2>2, <3>1, <3>3
      <4> QED
        BY <2>1, <2>5, <4>1, <4>2
    <3> QED
      BY <3>2, <3>3
  <2>7. CASE state # "Maybe_final_acts"
    <3>1. n > c
      BY <1>5, <2>7 DEF ReadSoFar
    <3>2. h = k
      BY <1>1, <2>1, <2>2, <3>1
    <3>3. NewActs = acts_
      BY <1>5, <2>7 DEF NewActs, Allowed
    <3>4. path'[h].idx = path[k].idx
      BY <2>3, <3>2
    <3> QED
      BY <1>2, <2>5, <3>2, <3>3, <3>4
  <2> QED
    BY <2>6, <2>7
<1> QED
  BY <1>3, <1>4, <1>5 DEF procs

(* A step without an error keeps what the header says. *)
LEMMA StepReadsOn ==
    ASSUME HeaderInv, Step, Recording, ~failed'
    PROVE  HeaderKept'
<1>1. /\ running \in Sections /\ running' = running /\ state \in DOMAIN procs
      /\ next.code \in DOMAIN procs[state] \ {"Opened_fig_brack"}
      /\ state' = procs[state][next.code].to /\ next \in Lexeme /\ TypeOK
  BY StepReads DEF HeaderInv, Step
<1>2. PICK n \in Nat :
         /\ Record(n)
         /\ n = procs[state][next.code].errors
                    + (IF state = "Act_def" /\ next.code = "String"
                       THEN ActionErrors(current_action_name_idx, next.idx) ELSE 0)
  BY StepReads DEF HeaderInv
<1>3. ~failed /\ n = 0 /\ path' = Append(path, next)
  BY <1>1, <1>2, CleanRecord
<1>4. /\ procs[state][next.code].errors \in {0, 1}
      /\ procs[state][next.code].errors = 0 => next.code \in Allowed(state)
  BY <1>1, NumbersTable
<1>5. ActionErrors(current_action_name_idx, next.idx) \in {0, 1}
  BY DEF ActionErrors
<1>6. /\ next.code \in Allowed(state)
      /\ state = "Act_def" /\ next.code = "String" =>
            ActionErrors(current_action_name_idx, next.idx) = 0
  BY <1>2, <1>3, <1>4, <1>5
<1>7. state # "Num_str_kw"
  BY <1>1 DEF procs
<1>8. /\ ReadSoFar /\ acts_ = ActsRead(path) /\ ActionsKept
      /\ state = "Act_def" => current_action_name_idx = path[Len(path)].idx
  BY <1>1, <1>3, <1>7 DEF HeaderInv, HeaderKept
<1>9. ReadSoFar'
  BY <1>1, <1>3, <1>6, <1>8, PathReadsOn
<1>10. acts_' = ActsRead(path')
  <2>1. NewActs = ActsRead(path')
    BY <1>1, <1>3, <1>6, <1>8, ActsReadOn
  <2> QED
    BY <2>1 DEF Step
<1>11. path \in Seq(Lexeme)
  BY <1>1 DEF TypeOK, HistoryTypeOK
<1>12. ActionsKept'
  <2>1. CASE state = "Act_def" /\ next.code = "String"
    <3>1. Len(path) >= 2 /\ path[Len(path) - 1].code = "Kw_action"
      BY <1>1, <1>8, <1>11, <2>1, LettersRead
    <3>2. AddActionDefinition(current_action_name_idx, next.idx)
      BY <1>1, <2>1, StepScope
    <3>3. ActionErrors(current_action_name_idx, next.idx) # 1
      BY <1>6, <2>1
    <3>4. idsc' = Put(idsc, path[Len(path)].idx, ActionName(next.idx))
      BY <1>8, <2>1, <3>2, <3>3 DEF AddActionDefinition
    <3> QED
      BY <1>1, <1>3, <1>8, <1>11, <3>1, <3>4, DefinitionEnds
  <2>2. CASE ~(state = "Act_def" /\ next.code = "String")
    <3>1. UNCHANGED idsc
      BY <1>1, <2>2, StepScope
    <3>2. state # "Act_def"
      BY <1>6, <2>2 DEF Allowed
    <3>3. Len(path) >= 2 => path[Len(path) - 1].code # "Kw_action"
      BY <1>1, <1>8, <1>11, <3>2, LettersRead
    <3> QED
      BY <1>1, <1>3, <1>8, <1>11, <3>1, <3>3, DefinitionsGrow
  <2> QED
    BY <2>1, <2>2
<1>13. state' = "Act_def" => current_action_name_idx' = path'[Len(path')].idx
  <2> SUFFICES ASSUME state' = "Act_def"
               PROVE  current_action_name_idx' = path'[Len(path')].idx
    OBVIOUS
  <2>1. state = "Action_sec" /\ next.code = "Id"
    BY <1>1, <1>6, CleanMoves DEF Allowed, procs
  <2>2. current_action_name_idx' = next.idx
    BY <2>1 DEF Step, NewActionName
  <2>3. path'[Len(path')] = next
    BY <1>1, <1>3, <1>11
  <2> QED
    BY <2>2, <2>3
<1> QED
  BY <1>9, <1>10, <1>12, <1>13 DEF HeaderKept

(* So does the opening brace of the expression. *)
LEMMA BraceReadsOn ==
    ASSUME HeaderInv, OpenExpression, Recording, ~failed'
    PROVE  HeaderKept'
<1>1. /\ running \in Sections /\ running' = running /\ state \in DOMAIN procs
      /\ next.code = "Opened_fig_brack" /\ state' = "a_parser"
      /\ UNCHANGED <<scope, fields>> /\ TypeOK
      /\ Record(procs[state][next.code].errors)
  BY DEF OpenExpression, HeaderInv
<1>2. next \in Lexeme
  BY <1>1, NextLexeme DEF TypeOK
<1>3. "Opened_fig_brack" \in DOMAIN procs[state]
  BY <1>1 DEF procs, maybe_init_acts_proc, init_acts_proc, maybe_final_acts_proc,
              final_acts_proc, action_sec_proc, act_def_proc
<1>4. /\ procs[state][next.code].errors \in {0, 1}
      /\ procs[state][next.code].errors = 0 => next.code \in Allowed(state)
      /\ procs[state][next.code].to = "a_parser"
  BY <1>1, <1>3, NumbersTable
<1>5. /\ ~failed /\ procs[state][next.code].errors = 0
      /\ path' = Append(path, next)
  BY <1>1, <1>4, CleanRecord
<1>6. next.code \in Allowed(state) /\ state # "Num_str_kw" /\ state # "Act_def"
  BY <1>1, <1>4, <1>5 DEF Allowed, procs
<1>7. ReadSoFar /\ acts_ = ActsRead(path) /\ ActionsKept
  BY <1>1, <1>5, <1>6 DEF HeaderInv, HeaderKept
<1>8. ReadSoFar'
  BY <1>1, <1>2, <1>4, <1>5, <1>6, <1>7, PathReadsOn
<1>9. acts_' = ActsRead(path')
  <2>1. NewActs = ActsRead(path')
    BY <1>1, <1>2, <1>5, <1>6, <1>7, ActsReadOn
  <2>2. NewActs = acts_ /\ acts_' = acts_
    BY <1>1 DEF NewActs, fields
  <2> QED
    BY <2>1, <2>2
<1>10. path \in Seq(Lexeme)
  BY <1>1 DEF TypeOK, HistoryTypeOK
<1>11. ActionsKept'
  <2>1. Len(path) >= 2 => path[Len(path) - 1].code # "Kw_action"
    BY <1>1, <1>6, <1>7, <1>10, LettersRead
  <2>2. UNCHANGED idsc
    BY <1>1 DEF scope
  <2> QED
    BY <1>2, <1>5, <1>7, <1>10, <2>1, <2>2, DefinitionsGrow
<1> QED
  BY <1>1, <1>8, <1>9, <1>11 DEF HeaderKept

-----------------------------------------------------------------------------
(* The parts of the invariant that a step may disturb, action by action    *)
LEMMA WithoutRecording ==
    ASSUME HeaderInv, Next, ~Recording
    PROVE  path' = <<>> /\ failed' = FALSE
<1>1. path = <<>> /\ failed = FALSE
  BY DEF HeaderInv
<1>2. CASE Step \/ SectionKeyword \/ OpenExpression
  <2>1. \E n : Record(n)
    BY <1>2, StepReads DEF SectionKeyword, OpenExpression, HeaderInv
  <2> QED
    BY <1>1, <2>1 DEF Record
<1>3. CASE WrongBeginning \/ EndOfHeader
  <2>1. \E n : Blame(n)
    BY <1>3 DEF WrongBeginning, EndOfHeader
  <2> QED
    BY <1>1, <2>1 DEF Blame
<1>4. CASE Call \/ RepeatedKeyword \/ Abandon \/ ExpressionParsed \/ OtherSections \/ Finished
  BY <1>1, <1>4 DEF Call, Forget, RepeatedKeyword, Abandon, ExpressionParsed, OtherSections,
     Finished, SameHistory, nvars, history
<1> QED
  BY <1>2, <1>3, <1>4 DEF Next, Section

LEMMA BodiesAreActions ==
    ASSUME HeaderInv, Next
    PROVE  \A str \in DOMAIN strsc' : strsc'[str] = "Action_definition"
<1>1. \A str \in DOMAIN strsc : strsc[str] = "Action_definition"
  BY DEF HeaderInv
<1>2. CASE Step
  <2>1. strsc' = strsc \/ strsc' = Put(strsc, next.idx, "Action_definition")
    BY <1>2, StepScope DEF AddActionDefinition, HeaderInv
  <2> QED
    BY <1>1, <2>1 DEF Put
<1>3. CASE OtherSections
  BY <1>1, <1>3, OtherSectionsScope DEF HeaderInv
<1>4. CASE UNCHANGED scope
  BY <1>1, <1>4 DEF scope
<1> QED
  BY <1>2, <1>3, <1>4 DEF Next, Section, Call, SectionKeyword, WrongBeginning, RepeatedKeyword,
     OpenExpression, EndOfHeader, Abandon, ExpressionParsed, Finished, nvars

LEMMA CallBegins ==
    ASSUME HeaderInv, Next, running' \in Sections, state' = "Num_str_kw"
    PROVE  /\ path' = <<>>
           /\ next'.code \in DOMAIN ParserOf
           /\ running' = ParserOf[next'.code]
           /\ acts_' = NoActs
<1>0. "main" \notin Sections
  BY DEF Sections, settings
<1>1. CASE Call
  BY <1>1 DEF Call, Forget, source
<1>2. CASE Finished
  BY <1>2 DEF HeaderInv, Finished, nvars, fields, history
<1>3. CASE Step
  BY <1>3, StepReads DEF HeaderInv
<1>4. CASE RepeatedKeyword
  BY <1>4 DEF RepeatedKeyword, procs
<1>5. CASE SectionKeyword \/ OpenExpression \/ EndOfHeader
  BY <1>5 DEF SectionKeyword, OpenExpression, EndOfHeader
<1>6. CASE WrongBeginning \/ Abandon \/ ExpressionParsed \/ OtherSections
  BY <1>0, <1>6 DEF WrongBeginning, Abandon, ExpressionParsed, OtherSections
<1> QED
  BY <1>1, <1>2, <1>3, <1>4, <1>5, <1>6 DEF Next, Section

LEMMA HeaderReadsOn ==
    ASSUME HeaderInv, Next, running' \in Sections, state' # "Num_str_kw", Recording, ~failed'
    PROVE  HeaderKept'
<1>0. "main" \notin Sections
  BY DEF Sections, settings
<1>1. CASE Call
  BY <1>1 DEF Call
<1>2. CASE SectionKeyword
  <2>1. /\ running \in Sections /\ state = "Num_str_kw" /\ next.code = settings[running]
        /\ state' = "Maybe_init_acts" /\ Record(0)
        /\ UNCHANGED <<scope, running, fields>>
    BY <1>2 DEF SectionKeyword
  <2>2. path = <<>> /\ acts_ = NoActs /\ TypeOK
    BY <2>1 DEF HeaderInv
  <2>3. path' = Append(path, next)
    BY <2>1, <2>2, CleanRecord
  <2>4. next \in Lexeme
    <3>1. next.code # "None"
      BY <2>1 DEF Sections, settings
    <3> QED
      BY <2>2, <3>1, NextLexeme DEF TypeOK
  <2>5. Len(path') = 1 /\ path'[1] = next
    BY <2>2, <2>3, <2>4
  <2>6. ReadSoFar'
    BY <2>1, <2>5 DEF ReadSoFar
  <2>7. ActsRead(path') = NoActs
    BY <2>5 DEF ActsRead, HeaderLen, ColonAt, NoActs
  <2>8. ActionsKept'
    BY <2>5 DEF ActionsKept
  <2> QED
    BY <2>1, <2>2, <2>6, <2>7, <2>8 DEF HeaderKept, fields
<1>3. CASE Step
  BY <1>3, StepReadsOn
<1>4. CASE OpenExpression
  BY <1>4, BraceReadsOn
<1>5. CASE RepeatedKeyword \/ Finished
  <2>1. /\ UNCHANGED <<path, failed, running, state, acts_, current_action_name_idx, idsc>>
    BY <1>5 DEF RepeatedKeyword, Finished, SameHistory, nvars, fields, history, scope
  <2>2. HeaderKept
    BY <2>1 DEF HeaderInv
  <2> QED
    BY <2>1, <2>2 DEF HeaderKept, ReadSoFar, ActionsKept
<1>6. CASE EndOfHeader
  <2>1. Blame(1)
    BY <1>6 DEF EndOfHeader
  <2>2. failed' = (failed \/ 1 > 0)
    BY <2>1, Zenon DEF Blame
  <2>3. 1 > 0
    OBVIOUS
  <2> QED
    BY <2>2, <2>3, Zenon
<1>7. CASE WrongBeginning \/ Abandon \/ ExpressionParsed \/ OtherSections
  BY <1>0, <1>7 DEF WrongBeginning, Abandon, ExpressionParsed, OtherSections
<1> QED
  BY <1>1, <1>2, <1>3, <1>4, <1>5, <1>6, <1>7 DEF Next, Section

LEMMA ResultsStay ==
    ASSUME HeaderInv, Next, Complete'
    PROVE  ResultsKept'
<1>0. /\ "main" \notin Sections /\ running' = "main" /\ path' # <<>> /\ ~failed'
      /\ path'[Len(path')].code = "Opened_fig_brack"
  BY DEF Sections, settings, Complete, Returned
<1>1. CASE Call
  <2>1. running' \in Sections
    BY <1>1 DEF Call, ParserOf, Sections, settings
  <2> QED
    BY <1>0, <2>1
<1>2. CASE SectionKeyword \/ Step \/ OpenExpression \/ RepeatedKeyword \/ EndOfHeader
  BY <1>0, <1>2 DEF SectionKeyword, Step, OpenExpression, RepeatedKeyword, EndOfHeader
<1>3. CASE WrongBeginning
  <2>1. path = <<>> /\ path' = path
    BY <1>3 DEF WrongBeginning, Blame, HeaderInv
  <2> QED
    BY <1>0, <2>1
<1>4. CASE Abandon
  <2>1. /\ running \in Sections /\ state \in DOMAIN procs /\ SameHistory /\ state # "Num_str_kw"
    BY <1>4 DEF Abandon, procs
  <2>2. path' = path /\ ~failed /\ path # <<>> /\ Recording
    BY <1>0, <2>1, RecordingAssumption DEF SameHistory, HeaderInv
  <2>3. ReadSoFar /\ path \in Seq(Lexeme)
    BY <2>1, <2>2 DEF HeaderInv, HeaderKept, TypeOK, HistoryTypeOK
  <2> QED
    BY <1>0, <2>1, <2>2, <2>3, LettersRead
<1>5. CASE ExpressionParsed
  <2>1. /\ running \in Sections /\ state = "a_parser" /\ SameHistory
        /\ acts' = [acts EXCEPT ![running] = acts_] /\ regexps' = regexps \cup {running}
        /\ UNCHANGED scope
    BY <1>5 DEF ExpressionParsed
  <2>2. path' = path /\ ~failed /\ path # <<>> /\ Recording
    BY <1>0, <2>1, RecordingAssumption DEF SameHistory, HeaderInv
  <2>3. /\ path[1].code = settings[running] /\ HeaderComplete(path)
        /\ acts_ = ActsRead(path) /\ ActionsKept
    BY <2>1, <2>2 DEF HeaderInv, HeaderKept, ReadSoFar
  <2>4. /\ path[1].code \in {"Kw_numbers", "Kw_strings", "Kw_idents"}
        /\ ParserOf[path[1].code] = running
    BY <2>1, <2>3 DEF Sections, settings, ParserOf
  <2>5. acts'[running] = acts_
    BY <2>1 DEF HeaderInv, TypeOK
  <2>6. ActionsKept'
    BY <2>1, <2>2, <2>3 DEF ActionsKept, scope
  <2> QED
    BY <2>1, <2>2, <2>3, <2>4, <2>5, <2>6 DEF ResultsKept
<1>6. CASE OtherSections \/ Finished
  <2>1. /\ UNCHANGED <<path, failed, running, acts, regexps>>
        /\ \A id \in DOMAIN idsc : id \in DOMAIN idsc' /\ idsc'[id] = idsc[id]
    BY <1>6, OtherSectionsScope DEF OtherSections, Finished, SameHistory, nvars, fields,
       history, scope, HeaderInv
  <2>2. ResultsKept
    BY <1>0, <2>1 DEF Complete, Returned, HeaderInv
  <2>3. ActionsKept'
    BY <2>1, <2>2 DEF ResultsKept, ActionsKept
  <2> QED
    BY <2>1, <2>2, <2>3 DEF ResultsKept
<1> QED
  BY <1>1, <1>2, <1>3, <1>4, <1>5, <1>6 DEF Next, Section

(* Every step keeps the invariant. *)
LEMMA NextKeepsInv == HeaderInv /\ [Next]_nvars => HeaderInv'
<1> SUFFICES ASSUME HeaderInv, [Next]_nvars PROVE HeaderInv'
  OBVIOUS
<1>1. CASE UNCHANGED nvars
  BY <1>1 DEF nvars, fields, history, scope, HeaderInv, TypeOK, SourceTypeOK, ScopeTypeOK,
     HistoryTypeOK, HeaderKept, ReadSoFar, ActionsKept, Complete, Returned, ResultsKept
<1>2. CASE Next
  <2>1. TypeOK'
    BY <1>2, TypesKept DEF HeaderInv
  <2> QED
    BY <1>2, <2>1, WithoutRecording, BodiesAreActions, CallBegins, HeaderReadsOn, ResultsStay
       DEF HeaderInv
<1> QED
  BY <1>1, <1>2

(* The strengthening of HeaderRight is an invariant: without an error the  *)
(* automaton has read what its state says, remembers the actions of this    *)
(* header, and gives them back with the expression.                         *)
THEOREM HeaderInvariant == Spec => []HeaderInv
<1>1. Init => HeaderInv
  BY InitInv
<1>2. HeaderInv /\ [Next]_nvars => HeaderInv'
  BY NextKeepsInv
<1> QED
  BY <1>1, <1>2, PTL DEF Spec

-----------------------------------------------------------------------------
(* A header has one colon, and its actions stand beside it. *)
LEMMA StatedActs ==
    ASSUME NEW p \in Seq(Lexeme), HeaderComplete(p),
           p[1].code \in {"Kw_numbers", "Kw_strings", "Kw_idents"}
    PROVE  ActsOf(p) = ActsRead(p)
<1> DEFINE n == Len(p)
           c == ColonAt(p)
           k == HeaderLen(p)
           string(j) == IF p[j].code = "String" THEN p[j].idx ELSE 0
           colon == CHOOSE j \in DOMAIN p : p[j].code = "Colon"
<1>1. HeaderRead(p, n - 1) /\ p[n].code = "Opened_fig_brack"
  BY DEF HeaderComplete
<1>2. c \in {2, 3} /\ k \in {c, c + 1} /\ k <= n - 1 /\ n \in Nat /\ DOMAIN p = 1 .. n
  BY <1>1 DEF HeaderRead, HeaderLen, ColonAt
<1>3. /\ p[c].code = "Colon"
      /\ c = 3 => p[2].code = "String"
      /\ k = c + 1 => p[k].code = "String"
  <2>1. n - 1 \in Nat /\ n - 1 <= Len(p)
    BY <1>2
  <2> QED
    BY <1>1, <2>1, HeaderLetters
<1>4. k = c => p[c + 1].code # "String"
  BY <1>2 DEF HeaderLen
<1>5. ASSUME NEW j \in DOMAIN p, p[j].code = "Colon" PROVE j = c
  <2>1. CASE j <= k
    BY <1>2, <1>3, <1>5, <2>1
  <2>2. CASE j > k /\ j <= n - 1
    <3>1. p[j].code = Definition(k, j)
      BY <1>1, <1>2, <2>2 DEF HeaderRead
    <3>2. Definition(k, j) \in {"Kw_action", "Id", "String"}
      BY <1>2, <2>2, k \in Nat, j \in Nat, Definitions
    <3> QED
      BY <1>5, <3>1, <3>2
  <2>3. CASE j = n
    BY <1>1, <1>5, <2>3
  <2> QED
    BY <1>2, <2>1, <2>2, <2>3
<1>6. colon = c
  <2>1. c \in DOMAIN p
    BY <1>2
  <2> QED
    BY <1>3, <1>5, <2>1
<1>7. ActsOf(p) = [init_acts |-> string(colon - 1), fin_acts |-> string(colon + 1)]
  BY DEF ActsOf
<1> HIDE DEF colon
<1>8. string(c - 1) = IF n >= 2 /\ p[2].code = "String" THEN p[2].idx ELSE 0
  BY <1>2, <1>3
<1>9. string(c + 1) = IF k > c THEN p[k].idx ELSE 0
  BY <1>2, <1>3, <1>4
<1> QED
  BY <1>6, <1>7, <1>8, <1>9 DEF ActsRead

(* What the invariant knows of a complete header is what the property asks. *)
LEMMA InvImpliesRight == HeaderInv => HeaderRight
<1> SUFFICES ASSUME HeaderInv, Complete PROVE CleanHeaderIsDocumented /\ ActionsDefined
  BY DEF HeaderInv, HeaderRight, CleanHeaderIsDocumented, ActionsDefined
<1> DEFINE n == Len(path)
           k == HeaderLen(path)
           s == ParserOf[path[1].code]
<1>1. /\ path \in Seq(Lexeme) /\ ResultsKept /\ n \in Nat
  BY DEF HeaderInv, TypeOK, HistoryTypeOK
<1>2. /\ HeaderRead(path, n - 1) /\ path[n].code = "Opened_fig_brack"
      /\ (n - k) % 3 = 1 /\ k <= n - 1 /\ k \in {2, 3, 4}
  <2>1. HeaderRead(path, n - 1) /\ path[n].code = "Opened_fig_brack" /\ (n - k) % 3 = 1
    BY <1>1 DEF ResultsKept, HeaderComplete
  <2>2. k \in {2, 3, 4}
    BY DEF HeaderLen, ColonAt
  <2>3. k <= n - 1
    BY <2>1 DEF HeaderRead
  <2> QED
    BY <2>1, <2>2, <2>3
<1>3. Documented(path)
  <2>1. n - 1 \in Nat /\ n - 1 <= Len(path)
    BY <1>1, <1>2
  <2>2. PICK h \in Beginnings(path[1].code) :
          Len(h) = k /\ \A j \in 1 .. n - 1 : path[j].code = Letter(h, j)
    BY <1>1, <1>2, <2>1, HeaderHasBeginning
  <2>3. n > k
    BY <1>1, <1>2
  <2> QED
    BY <1>2, <2>2, <2>3 DEF Documented
<1>4. s \in regexps /\ acts[s] = ActsOf(path)
  BY <1>1, StatedActs DEF ResultsKept
<1>5. ActionsDefined
  <2> DEFINE defs == {j \in 1 .. n - 2 : path[j].code = "Kw_action"}
  <2> SUFFICES ASSUME NEW j \in defs
               PROVE  \E m \in defs : /\ m >= j /\ path[m + 1].idx = path[j + 1].idx
                                      /\ idsc[path[j + 1].idx] = ActionName(path[m + 2].idx)
    BY DEF ActionsDefined
  <2>1. PICK m \in j .. n - 2 : /\ path[m].code = "Kw_action"
                                /\ path[m + 1].idx = path[j + 1].idx
                                /\ idsc[path[j + 1].idx] = ActionName(path[m + 2].idx)
    BY <1>1 DEF ResultsKept, ActionsKept
  <2>2. m \in defs /\ m >= j
    BY <1>1, <2>1
  <2> QED
    BY <2>1, <2>2
<1> QED
  BY <1>3, <1>4, <1>5 DEF CleanHeaderIsDocumented

(* A header that is parsed to its end without an error has the documented   *)
(* form, however long it is; its section gets the actions stated beside the *)
(* colon of this header, and every action that it defines has the body that *)
(* it gives last.                                                           *)
THEOREM HeadersAreRight == Spec => []HeaderRight
<1>1. Spec => []HeaderInv
  BY HeaderInvariant
<1>2. HeaderInv => HeaderRight
  BY InvImpliesRight
<1> QED
  BY <1>1, <1>2, PTL

-----------------------------------------------------------------------------
(* The first error of a header *)
FirstErrorDeparts ==
    ~failed /\ failed' =>
        \/ ~ BeginsDocumented(Append(path, next))
        \/ /\ next.code = "String"
           /\ path[Len(path)].code = "Id"
           /\ idsc[path[Len(path)].idx].kind # "Action_name"

(* A header that does not begin with the keyword of its section *)
LEMMA WrongBeginningDeparts ==
    ASSUME HeaderInv, WrongBeginning
    PROVE  ~ BeginsDocumented(Append(path, next))
<1>1. /\ path = <<>> /\ next.code \in DOMAIN ParserOf /\ running = ParserOf[next.code]
      /\ next.code # settings[running]
  BY DEF WrongBeginning, HeaderInv
<1>2. next.code \notin {"Kw_numbers", "Kw_strings", "Kw_idents"}
  BY <1>1 DEF ParserOf, settings
<1>3. next.code \notin Range(settings)
  BY <1>2 DEF Range, settings
<1>4. Append(path, next)[1] = next
  BY <1>1
<1> QED
  BY <1>3, <1>4 DEF BeginsDocumented

(* A lexeme that the table of a state has for an error, or a name that is  *)
(* not that of an action                                                   *)
LEMMA StepErrorDeparts ==
    ASSUME HeaderInv, Step, Recording, ~failed, failed'
    PROVE  \/ ~ BeginsDocumented(Append(path, next))
           \/ /\ next.code = "String"
              /\ path[Len(path)].code = "Id"
              /\ idsc[path[Len(path)].idx].kind # "Action_name"
<1> DEFINE e == procs[state][next.code].errors
           a == IF state = "Act_def" /\ next.code = "String"
                THEN ActionErrors(current_action_name_idx, next.idx) ELSE 0
<1>1. /\ running \in Sections /\ state \in DOMAIN procs /\ next.code \in DOMAIN procs[state]
      /\ e \in {0, 1}
      /\ \E n \in Nat : Record(n) /\ n = e + a
  BY StepReads DEF HeaderInv
<1>2. state # "Num_str_kw"
  BY <1>1 DEF procs
<1>3. /\ path \in Seq(Lexeme) /\ HeaderKept
      /\ \A str \in DOMAIN strsc : strsc[str] = "Action_definition"
  BY <1>1, <1>2 DEF HeaderInv, TypeOK, HistoryTypeOK
<1>4. CASE next.code \notin Allowed(state)
  BY <1>1, <1>3, <1>4, OtherLexemesDepart DEF HeaderKept
<1>5. CASE next.code \in Allowed(state)
  <2>1. e = 0
    BY <1>1, <1>5, AllowedIsClean
  <2>2. PICK n \in Nat : Record(n) /\ n = e + a
    BY <1>1
  <2>3. failed' = (failed \/ (Recording /\ n > 0))
    BY <2>2, Zenon DEF Record
  <2>4. n > 0
    BY <2>3, Zenon
  <2>5. a # 0
    BY <2>1, <2>2, <2>4
  <2>6. /\ state = "Act_def" /\ next.code = "String"
        /\ ActionErrors(current_action_name_idx, next.idx) # 0
    BY <2>5
  <2>7. /\ current_action_name_idx \in DOMAIN idsc
        /\ idsc[current_action_name_idx].kind # "Action_name"
    BY <1>3, <2>6 DEF ActionErrors
  <2>8. path[Len(path)].code = "Id" /\ current_action_name_idx = path[Len(path)].idx
    BY <1>1, <1>3, <2>6, LettersRead DEF HeaderKept
  <2> QED
    BY <2>6, <2>7, <2>8
<1> QED
  BY <1>4, <1>5

(* Every first error is such a departure. *)
LEMMA ErrorsDepart == HeaderInv /\ [Next]_nvars => FirstErrorDeparts
<1> SUFFICES ASSUME HeaderInv, [Next]_nvars, ~failed, failed'
             PROVE  FirstErrorDeparts
  BY Zenon DEF FirstErrorDeparts
<1>1. CASE WrongBeginning
  BY <1>1, WrongBeginningDeparts DEF FirstErrorDeparts
<1>2. CASE Step
  <2>1. Recording
    <3>1. \E n : Record(n)
      BY <1>2 DEF Step
    <3> QED
      BY <3>1, Zenon DEF Record
  <2> QED
    BY <1>2, <2>1, StepErrorDeparts DEF FirstErrorDeparts
<1>3. CASE OpenExpression \/ EndOfHeader
  <2>1. /\ running \in Sections /\ state \in DOMAIN procs
        /\ \/ next.code = "Opened_fig_brack" /\ Record(procs[state][next.code].errors)
           \/ next.code = "None" /\ Blame(1)
    BY <1>3 DEF OpenExpression, EndOfHeader, EndOfText
  <2>2. Recording
    BY <2>1, Zenon DEF Record, Blame
  <2>3. state # "Num_str_kw"
    BY <2>1 DEF procs
  <2>4. path \in Seq(Lexeme) /\ ReadSoFar
    BY <2>1, <2>2, <2>3 DEF HeaderInv, HeaderKept, TypeOK, HistoryTypeOK
  <2>5. next.code \notin Allowed(state)
    <3>1. CASE next.code = "None"
      BY <2>1, <3>1 DEF Allowed, procs
    <3>2. CASE next.code = "Opened_fig_brack" /\ Record(procs[state][next.code].errors)
      <4>1. procs[state][next.code].errors > 0
        BY <3>2, Zenon DEF Record
      <4>2. procs[state][next.code].errors # 0
        BY <4>1
      <4>3. next.code \in DOMAIN procs[state]
        BY <2>1, <3>2 DEF procs, maybe_init_acts_proc, init_acts_proc, maybe_final_acts_proc,
           final_acts_proc, action_sec_proc, act_def_proc
      <4>4. next.code \in Allowed(state) => procs[state][next.code].errors = 0
        BY <2>1, <4>3, AllowedIsClean
      <4> QED
        BY <4>2, <4>4
    <3> QED
      BY <2>1, <3>1, <3>2
  <2> QED
    BY <2>1, <2>4, <2>5, OtherLexemesDepart DEF FirstErrorDeparts
<1>4. CASE SectionKeyword
  <2>1. Record(0)
    BY <1>4 DEF SectionKeyword
  <2>2. failed' = (failed \/ (Recording /\ 0 > 0))
    BY <2>1, Zenon DEF Record
  <2>3. ~(0 > 0)
    OBVIOUS
  <2> QED
    BY <2>2, <2>3, Zenon
<1>5. CASE Call
  <2>1. failed' = FALSE
    BY <1>5 DEF Call, Forget
  <2> QED
    BY <2>1, Zenon
<1>6. CASE RepeatedKeyword \/ Abandon \/ ExpressionParsed \/ OtherSections \/ Finished
           \/ UNCHANGED nvars
  <2>1. failed' = failed
    BY <1>6 DEF RepeatedKeyword, Abandon, ExpressionParsed, OtherSections, Finished,
       SameHistory, nvars, history
  <2> QED
    BY <2>1, Zenon
<1> QED
  BY <1>1, <1>2, <1>3, <1>4, <1>5, <1>6 DEF Next, Section

(* Whatever the documented form allows is accepted: an error is reported    *)
(* only where a header departs from it, or where the name that gets a body  *)
(* has another role already.                                                *)
THEOREM OnlyDeparturesAreErrors == Spec => ErrorsAreDepartures
<1>1. Spec => []HeaderInv
  BY HeaderInvariant
<1>2. HeaderInv /\ [Next]_nvars => [FirstErrorDeparts]_nvars
  BY ErrorsDepart
<1> QED
  BY <1>1, <1>2, PTL DEF Spec, ErrorsAreDepartures, FirstErrorDeparts

-----------------------------------------------------------------------------
(* The actions of a section are stored in the step that stores that its     *)
(* expression was read, and in no other: a header that is given up leaves   *)
(* nothing behind.                                                          *)
THEOREM ResultsComeTogether == Spec => ResultsTogether
<1>1. TypeOK /\ [Next]_nvars => [\A s \in Sections : acts'[s] # acts[s] => s \in regexps']_nvars
  <2> SUFFICES ASSUME TypeOK, Next, NEW s \in Sections, acts'[s] # acts[s]
               PROVE  s \in regexps'
    OBVIOUS
  <2>1. CASE ExpressionParsed
    <3>1. /\ running \in Sections /\ acts' = [acts EXCEPT ![running] = acts_]
          /\ regexps' = regexps \cup {running}
      BY <2>1 DEF ExpressionParsed
    <3>2. s = running
      BY <3>1 DEF TypeOK
    <3> QED
      BY <3>1, <3>2
  <2>2. CASE ~ExpressionParsed
    <3>1. acts' = acts
      BY <2>2 DEF Next, Section, Call, SectionKeyword, WrongBeginning, RepeatedKeyword, Step,
         OpenExpression, EndOfHeader, Abandon, OtherSections, Finished, nvars, fields
    <3> QED
      BY <3>1
  <2> QED
    BY <2>1, <2>2
<1>2. Spec => []HeaderInv
  BY HeaderInvariant
<1>3. HeaderInv => TypeOK
  BY DEF HeaderInv
<1> QED
  BY <1>1, <1>2, <1>3, PTL DEF Spec, ResultsTogether
=============================================================================
