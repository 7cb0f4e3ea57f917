--------------------------- MODULE CommentsProofs ---------------------------
(***************************************************************************)
(* The automaton of the section %comments recognizes the documented form   *)
(* of the section: what it reads without an error has that form, and its   *)
(* marks are those of the text; and it takes nothing for an error that     *)
(* could go on to that form.  (Of module ScopeProofs only the lemmas about *)
(* lexemes are used: the scope has no part in this section.)               *)
(***************************************************************************)
EXTENDS CommentsParser, ScopeProofs

(* The beginnings of documented sections that lead to each state: a section *)
(* has been read as far as its state says, with or without a mark of        *)
(* single-lined comments and with or without the word %nested.              *)
Begun ==
    [Comments_kw          |-> {<<>>},
     Single_or_multiLined |-> {<<"Kw_comments">>},
     Single_lined         |-> {<<"Kw_comments", "Kw_single_lined">>},
     Single_lined_mark    |-> {<<"Kw_comments", "Kw_single_lined", "String">>},
     Multilined           |->
        {<<"Kw_comments", "Kw_multilined">>,
         <<"Kw_comments", "Kw_single_lined", "String", "Kw_multilined">>},
     Nested               |->
        {<<"Kw_comments", "Kw_multilined", "Kw_nested">>,
         <<"Kw_comments", "Kw_single_lined", "String", "Kw_multilined", "Kw_nested">>},
     Multi_lined_begin    |->
        {<<"Kw_comments", "Kw_multilined", "String">>,
         <<"Kw_comments", "Kw_multilined", "Kw_nested", "String">>,
         <<"Kw_comments", "Kw_single_lined", "String", "Kw_multilined", "String">>,
         <<"Kw_comments", "Kw_single_lined", "String", "Kw_multilined", "Kw_nested", "String">>},
     Beg_end_delim        |->
        {<<"Kw_comments", "Kw_multilined", "String", "Colon">>,
         <<"Kw_comments", "Kw_multilined", "Kw_nested", "String", "Colon">>,
         <<"Kw_comments", "Kw_single_lined", "String", "Kw_multilined", "String", "Colon">>,
         <<"Kw_comments", "Kw_single_lined", "String", "Kw_multilined", "Kw_nested", "String",
           "Colon">>},
     Multilined_end       |-> {d \in Documented : Len(d) > 3}]

(* v is w and one more code. *)
Continues(v, w, code) ==
    /\ Len(v) = Len(w) + 1
    /\ \A k \in 1 .. Len(w) : v[k] = w[k]
    /\ v[Len(v)] = code

(* An entry of the table leads to a state of the parser. *)
LEMMA CommentsTable ==
    ASSUME NEW s \in States, NEW c \in DOMAIN procs[s]
    PROVE  /\ procs[s][c].to \in States
           /\ procs[s][c].errors \in {0, 1}
           /\ c # "None"
           /\ c = "String" => procs[s][c].to \in {"Single_lined_mark", "Multi_lined_begin",
                                                  "Multilined_end"}
<1> USE DEF States, procs, Go, Err
<1>1. CASE s = "Comments_kw"
  BY <1>1 DEF comments_kw_proc
<1>2. CASE s = "Single_or_multiLined"
  BY <1>2 DEF single_or_multilined_proc
<1>3. CASE s = "Single_lined"
  BY <1>3 DEF single_lined_proc
<1>4. CASE s = "Multilined"
  BY <1>4 DEF multilined_proc
<1>5. CASE s = "Single_lined_mark"
  BY <1>5 DEF single_lined_mark_proc
<1>6. CASE s = "Multi_lined_begin"
  BY <1>6 DEF multi_lined_begin_proc
<1>7. CASE s = "Nested"
  BY <1>7 DEF nested_proc
<1>8. CASE s = "Beg_end_delim"
  BY <1>8 DEF beg_end_delim_proc
<1>9. CASE s = "Multilined_end"
  BY <1>9 DEF multilined_end_proc
<1> QED
  BY <1>1, <1>2, <1>3, <1>4, <1>5, <1>6, <1>7, <1>8, <1>9

(* The entries that are not errors *)
LEMMA CleanEntries ==
    ASSUME NEW s \in States, NEW c \in DOMAIN procs[s], procs[s][c].errors = 0
    PROVE  <<s, c, procs[s][c].to>> \in
             {<<"Comments_kw", "Kw_comments", "Single_or_multiLined">>,
              <<"Single_or_multiLined", "Kw_single_lined", "Single_lined">>,
              <<"Single_or_multiLined", "Kw_multilined", "Multilined">>,
              <<"Single_lined", "String", "Single_lined_mark">>,
              <<"Single_lined_mark", "Kw_multilined", "Multilined">>,
              <<"Multilined", "Kw_nested", "Nested">>,
              <<"Multilined", "String", "Multi_lined_begin">>,
              <<"Nested", "String", "Multi_lined_begin">>,
              <<"Multi_lined_begin", "Colon", "Beg_end_delim">>,
              <<"Beg_end_delim", "String", "Multilined_end">>}
<1> USE DEF States, procs, Go, Err
<1>1. CASE s = "Comments_kw"
  BY <1>1 DEF comments_kw_proc
<1>2. CASE s = "Single_or_multiLined"
  BY <1>2 DEF single_or_multilined_proc
<1>3. CASE s = "Single_lined"
  BY <1>3 DEF single_lined_proc
<1>4. CASE s = "Multilined"
  BY <1>4 DEF multilined_proc
<1>5. CASE s = "Single_lined_mark"
  BY <1>5 DEF single_lined_mark_proc
<1>6. CASE s = "Multi_lined_begin"
  BY <1>6 DEF multi_lined_begin_proc
<1>7. CASE s = "Nested"
  BY <1>7 DEF nested_proc
<1>8. CASE s = "Beg_end_delim"
  BY <1>8 DEF beg_end_delim_proc
<1>9. CASE s = "Multilined_end"
  BY <1>9 DEF multilined_end_proc
<1> QED
  BY <1>1, <1>2, <1>3, <1>4, <1>5, <1>6, <1>7, <1>8, <1>9

(* An entry without an error continues each beginning of its state to one   *)
(* of the state it leads to.                                                *)
LEMMA EntriesContinue ==
    ASSUME NEW s \in States, NEW c \in DOMAIN procs[s], procs[s][c].errors = 0,
           NEW w \in Begun[s]
    PROVE  \E v \in Begun[procs[s][c].to] : Continues(v, w, c)
<1> DEFINE t == procs[s][c].to
<1>a. <<s, c, t>> \in {<<"Comments_kw", "Kw_comments", "Single_or_multiLined">>,
                       <<"Single_or_multiLined", "Kw_single_lined", "Single_lined">>,
                       <<"Single_or_multiLined", "Kw_multilined", "Multilined">>,
                       <<"Single_lined", "String", "Single_lined_mark">>,
                       <<"Single_lined_mark", "Kw_multilined", "Multilined">>,
                       <<"Multilined", "Kw_nested", "Nested">>,
                       <<"Multilined", "String", "Multi_lined_begin">>,
                       <<"Nested", "String", "Multi_lined_begin">>,
                       <<"Multi_lined_begin", "Colon", "Beg_end_delim">>,
                       <<"Beg_end_delim", "String", "Multilined_end">>}
  BY CleanEntries
<1> HIDE DEF t
<1>0. SUFFICES \E v \in Begun[t] : Continues(v, w, c)
  BY DEF t
<1>1. CASE s = "Comments_kw" /\ c = "Kw_comments" /\ t = "Single_or_multiLined"
  <2>1. Continues(<<"Kw_comments">>,
                 <<>>, c)
    BY <1>1 DEF Continues
  <2> QED
    BY <1>1, <2>1 DEF Begun
<1>2. CASE s = "Single_or_multiLined" /\ c = "Kw_single_lined" /\ t = "Single_lined"
  <2>1. Continues(<<"Kw_comments", "Kw_single_lined">>,
                 <<"Kw_comments">>, c)
    BY <1>2 DEF Continues
  <2> QED
    BY <1>2, <2>1 DEF Begun
<1>3. CASE s = "Single_or_multiLined" /\ c = "Kw_multilined" /\ t = "Multilined"
  <2>1. Continues(<<"Kw_comments", "Kw_multilined">>,
                 <<"Kw_comments">>, c)
    BY <1>3 DEF Continues
  <2> QED
    BY <1>3, <2>1 DEF Begun
<1>4. CASE s = "Single_lined" /\ c = "String" /\ t = "Single_lined_mark"
  <2>1. Continues(<<"Kw_comments", "Kw_single_lined", "String">>,
                 <<"Kw_comments", "Kw_single_lined">>, c)
    BY <1>4 DEF Continues
  <2> QED
    BY <1>4, <2>1 DEF Begun
<1>5. CASE s = "Single_lined_mark" /\ c = "Kw_multilined" /\ t = "Multilined"
  <2>1. Continues(<<"Kw_comments", "Kw_single_lined", "String", "Kw_multilined">>,
                 <<"Kw_comments", "Kw_single_lined", "String">>, c)
    BY <1>5 DEF Continues
  <2> QED
    BY <1>5, <2>1 DEF Begun
<1>6. CASE s = "Multilined" /\ c = "Kw_nested" /\ t = "Nested"
  <2>1. Continues(<<"Kw_comments", "Kw_multilined", "Kw_nested">>,
                 <<"Kw_comments", "Kw_multilined">>, c)
    BY <1>6 DEF Continues
  <2>2. Continues(<<"Kw_comments", "Kw_single_lined", "String", "Kw_multilined", "Kw_nested">>,
                 <<"Kw_comments", "Kw_single_lined", "String", "Kw_multilined">>, c)
    BY <1>6 DEF Continues
  <2> QED
    BY <1>6, <2>1, <2>2 DEF Begun
<1>7. CASE s = "Multilined" /\ c = "String" /\ t = "Multi_lined_begin"
  <2>1. Continues(<<"Kw_comments", "Kw_multilined", "String">>,
                 <<"Kw_comments", "Kw_multilined">>, c)
    BY <1>7 DEF Continues
  <2>2. Continues(<<"Kw_comments", "Kw_single_lined", "String", "Kw_multilined", "String">>,
                 <<"Kw_comments", "Kw_single_lined", "String", "Kw_multilined">>, c)
    BY <1>7 DEF Continues
  <2> QED
    BY <1>7, <2>1, <2>2 DEF Begun
<1>8. CASE s = "Nested" /\ c = "String" /\ t = "Multi_lined_begin"
  <2>1. Continues(<<"Kw_comments", "Kw_multilined", "Kw_nested", "String">>,
                 <<"Kw_comments", "Kw_multilined", "Kw_nested">>, c)
    BY <1>8 DEF Continues
  <2>2. Continues(<<"Kw_comments", "Kw_single_lined", "String", "Kw_multilined", "Kw_nested", "String">>,
                 <<"Kw_comments", "Kw_single_lined", "String", "Kw_multilined", "Kw_nested">>, c)
    BY <1>8 DEF Continues
  <2> QED
    BY <1>8, <2>1, <2>2 DEF Begun
<1>9. CASE s = "Multi_lined_begin" /\ c = "Colon" /\ t = "Beg_end_delim"
  <2>1. Continues(<<"Kw_comments", "Kw_multilined", "String", "Colon">>,
                 <<"Kw_comments", "Kw_multilined", "String">>, c)
    BY <1>9 DEF Continues
  <2>2. Continues(<<"Kw_comments", "Kw_single_lined", "String", "Kw_multilined", "String", "Colon">>,
                 <<"Kw_comments", "Kw_single_lined", "String", "Kw_multilined", "String">>, c)
    BY <1>9 DEF Continues
  <2>3. Continues(<<"Kw_comments", "Kw_multilined", "Kw_nested", "String", "Colon">>,
                 <<"Kw_comments", "Kw_multilined", "Kw_nested", "String">>, c)
    BY <1>9 DEF Continues
  <2>4. Continues(<<"Kw_comments", "Kw_single_lined", "String", "Kw_multilined", "Kw_nested", "String", "Colon">>,
                 <<"Kw_comments", "Kw_single_lined", "String", "Kw_multilined", "Kw_nested", "String">>, c)
    BY <1>9 DEF Continues
  <2> QED
    BY <1>9, <2>1, <2>2, <2>3, <2>4 DEF Begun
<1>10. CASE s = "Beg_end_delim" /\ c = "String" /\ t = "Multilined_end"
  <2>1. Continues(<<"Kw_comments", "Kw_multilined", "String", "Colon", "String">>,
                 <<"Kw_comments", "Kw_multilined", "String", "Colon">>, c)
    BY <1>10 DEF Continues
  <2>2. Continues(<<"Kw_comments", "Kw_single_lined", "String", "Kw_multilined", "String", "Colon", "String">>,
                 <<"Kw_comments", "Kw_single_lined", "String", "Kw_multilined", "String", "Colon">>, c)
    BY <1>10 DEF Continues
  <2>3. Continues(<<"Kw_comments", "Kw_multilined", "Kw_nested", "String", "Colon", "String">>,
                 <<"Kw_comments", "Kw_multilined", "Kw_nested", "String", "Colon">>, c)
    BY <1>10 DEF Continues
  <2>4. Continues(<<"Kw_comments", "Kw_single_lined", "String", "Kw_multilined", "Kw_nested", "String", "Colon", "String">>,
                 <<"Kw_comments", "Kw_single_lined", "String", "Kw_multilined", "Kw_nested", "String", "Colon">>, c)
    BY <1>10 DEF Continues
  <2>5. Begun[t] = {d \in Documented : Len(d) > 3}
    BY <1>10 DEF Begun
  <2>6. /\ <<"Kw_comments", "Kw_multilined", "String", "Colon", "String">> \in Begun[t]
        /\ <<"Kw_comments", "Kw_multilined", "Kw_nested", "String", "Colon", "String">>
              \in Begun[t]
        /\ <<"Kw_comments", "Kw_single_lined", "String", "Kw_multilined", "String", "Colon",
             "String">> \in Begun[t]
        /\ <<"Kw_comments", "Kw_single_lined", "String", "Kw_multilined", "Kw_nested",
             "String", "Colon", "String">> \in Begun[t]
    BY <2>5 DEF Documented
  <2>7. w \in Begun["Beg_end_delim"]
    BY <1>10
  <2> QED
    BY <2>1, <2>2, <2>3, <2>4, <2>6, <2>7 DEF Begun
<1> QED
  BY <1>a, <1>1, <1>2, <1>3, <1>4, <1>5, <1>6, <1>7, <1>8, <1>9, <1>10

(* The documented sections, position by position *)
LEMMA DocumentedShapes ==
    ASSUME NEW d \in Documented
    PROVE  /\ d[1] = "Kw_comments"
           /\ \/ Len(d) = 3 /\ d[2] = "Kw_single_lined" /\ d[3] = "String"
              \/ /\ Len(d) = 5 /\ d[2] = "Kw_multilined" /\ d[3] = "String" /\ d[4] = "Colon"
                 /\ d[5] = "String"
              \/ /\ Len(d) = 6 /\ d[2] = "Kw_multilined" /\ d[3] = "Kw_nested" /\ d[4] = "String"
                 /\ d[5] = "Colon" /\ d[6] = "String"
              \/ /\ Len(d) = 7 /\ d[2] = "Kw_single_lined" /\ d[3] = "String"
                 /\ d[4] = "Kw_multilined" /\ d[5] = "String" /\ d[6] = "Colon"
                 /\ d[7] = "String"
              \/ /\ Len(d) = 8 /\ d[2] = "Kw_single_lined" /\ d[3] = "String"
                 /\ d[4] = "Kw_multilined" /\ d[5] = "Kw_nested" /\ d[6] = "String"
                 /\ d[7] = "Colon" /\ d[8] = "String"
BY DEF Documented

(* A code without an entry, or with one that is an error, continues no      *)
(* beginning of the state to a beginning of a documented section.           *)
LEMMA ErrorsDepart ==
    ASSUME NEW s \in States, NEW w \in Begun[s], NEW c,
           c \in DOMAIN procs[s] => procs[s][c].errors # 0,
           NEW d \in Documented, Len(w) + 1 <= Len(d),
           \A k \in 1 .. Len(w) : d[k] = w[k],
           d[Len(w) + 1] = c
    PROVE  FALSE
<1> USE DEF States, procs, Go, Err
<1>1. CASE s = "Comments_kw"
  <2>1. Len(w) = 0
    BY <1>1 DEF Begun
  <2> QED
    BY <1>1, <2>1, DocumentedShapes DEF comments_kw_proc
<1>2. CASE s = "Single_or_multiLined"
  <2>1. Len(w) = 1
    BY <1>2 DEF Begun
  <2> QED
    BY <1>2, <2>1, DocumentedShapes DEF single_or_multilined_proc
<1>3. CASE s = "Single_lined"
  <2>1. Len(w) = 2 /\ w[2] = "Kw_single_lined"
    BY <1>3 DEF Begun
  <2>2. d[2] = "Kw_single_lined" /\ d[3] = c
    BY <2>1
  <2> QED
    BY <1>3, <2>1, <2>2, DocumentedShapes DEF single_lined_proc
<1>4. CASE s = "Multilined"
  <2>1. \/ Len(w) = 2 /\ w[2] = "Kw_multilined"
        \/ Len(w) = 4 /\ w[2] = "Kw_single_lined" /\ w[4] = "Kw_multilined"
    BY <1>4 DEF Begun
  <2>2. \/ d[2] = "Kw_multilined" /\ d[3] = c
        \/ d[2] = "Kw_single_lined" /\ d[5] = c /\ Len(d) >= 5
    BY <2>1
  <2> QED
    BY <1>4, <2>2, DocumentedShapes DEF multilined_proc
<1>5. CASE s = "Single_lined_mark"
  <2>1. Len(w) = 3 /\ w[2] = "Kw_single_lined"
    BY <1>5 DEF Begun
  <2>2. d[2] = "Kw_single_lined" /\ d[4] = c /\ Len(d) >= 4
    BY <2>1
  <2> QED
    BY <1>5, <2>2, DocumentedShapes DEF single_lined_mark_proc
<1>6. CASE s = "Multi_lined_begin"
  <2>1. \/ Len(w) = 3 /\ w[2] = "Kw_multilined" /\ w[3] = "String"
        \/ Len(w) = 4 /\ w[2] = "Kw_multilined" /\ w[3] = "Kw_nested"
        \/ Len(w) = 5 /\ w[2] = "Kw_single_lined" /\ w[5] = "String"
        \/ Len(w) = 6 /\ w[2] = "Kw_single_lined" /\ w[5] = "Kw_nested"
    BY <1>6 DEF Begun
  <2>2. \/ d[2] = "Kw_multilined" /\ d[3] = "String" /\ d[4] = c
        \/ d[2] = "Kw_multilined" /\ d[3] = "Kw_nested" /\ d[5] = c
        \/ d[2] = "Kw_single_lined" /\ d[5] = "String" /\ d[6] = c /\ Len(d) >= 6
        \/ d[2] = "Kw_single_lined" /\ d[5] = "Kw_nested" /\ d[7] = c /\ Len(d) >= 7
    <3>1. d[2] = w[2] /\ d[3] = w[3] /\ (Len(w) >= 5 => d[5] = w[5])
      BY <2>1
    <3>2. CASE Len(w) = 3 /\ w[2] = "Kw_multilined" /\ w[3] = "String"
      BY <3>1, <3>2
    <3>3. CASE Len(w) = 4 /\ w[2] = "Kw_multilined" /\ w[3] = "Kw_nested"
      BY <3>1, <3>3
    <3>4. CASE Len(w) = 5 /\ w[2] = "Kw_single_lined" /\ w[5] = "String"
      BY <3>1, <3>4
    <3>5. CASE Len(w) = 6 /\ w[2] = "Kw_single_lined" /\ w[5] = "Kw_nested"
      BY <3>1, <3>5
    <3> QED
      BY <2>1, <3>2, <3>3, <3>4, <3>5
  <2>3. c = "Colon"
    BY <2>2, DocumentedShapes
  <2> QED
    BY <1>6, <2>3 DEF multi_lined_begin_proc
<1>7. CASE s = "Nested"
  <2>1. \/ Len(w) = 3 /\ w[2] = "Kw_multilined" /\ w[3] = "Kw_nested"
        \/ Len(w) = 5 /\ w[2] = "Kw_single_lined" /\ w[5] = "Kw_nested"
    BY <1>7 DEF Begun
  <2>2. \/ d[2] = "Kw_multilined" /\ d[3] = "Kw_nested" /\ d[4] = c
        \/ d[2] = "Kw_single_lined" /\ d[5] = "Kw_nested" /\ d[6] = c /\ Len(d) >= 6
    BY <2>1
  <2> QED
    BY <1>7, <2>2, DocumentedShapes DEF nested_proc
<1>8. CASE s = "Beg_end_delim"
  <2>1. \/ Len(w) = 4 /\ w[2] = "Kw_multilined" /\ w[3] = "String"
        \/ Len(w) = 5 /\ w[2] = "Kw_multilined" /\ w[3] = "Kw_nested"
        \/ Len(w) = 6 /\ w[2] = "Kw_single_lined" /\ w[5] = "String"
        \/ Len(w) = 7 /\ w[2] = "Kw_single_lined" /\ w[5] = "Kw_nested"
    BY <1>8 DEF Begun
  <2>2. \/ d[2] = "Kw_multilined" /\ d[3] = "String" /\ d[5] = c
        \/ d[2] = "Kw_multilined" /\ d[3] = "Kw_nested" /\ d[6] = c
        \/ d[2] = "Kw_single_lined" /\ d[5] = "String" /\ d[7] = c /\ Len(d) >= 7
        \/ d[2] = "Kw_single_lined" /\ d[5] = "Kw_nested" /\ d[8] = c /\ Len(d) >= 8
    <3>1. d[2] = w[2] /\ d[3] = w[3] /\ (Len(w) >= 5 => d[5] = w[5])
      BY <2>1
    <3>2. CASE Len(w) = 4 /\ w[2] = "Kw_multilined" /\ w[3] = "String"
      BY <3>1, <3>2
    <3>3. CASE Len(w) = 5 /\ w[2] = "Kw_multilined" /\ w[3] = "Kw_nested"
      BY <3>1, <3>3
    <3>4. CASE Len(w) = 6 /\ w[2] = "Kw_single_lined" /\ w[5] = "String"
      BY <3>1, <3>4
    <3>5. CASE Len(w) = 7 /\ w[2] = "Kw_single_lined" /\ w[5] = "Kw_nested"
      BY <3>1, <3>5
    <3> QED
      BY <2>1, <3>2, <3>3, <3>4, <3>5
  <2> QED
    BY <1>8, <2>2, DocumentedShapes DEF beg_end_delim_proc
<1>9. CASE s = "Multilined_end"
  <2>1. w \in Documented /\ Len(w) > 3
    BY <1>9 DEF Begun
  <2>2. /\ d[1] = w[1] /\ d[2] = w[2] /\ d[3] = w[3] /\ d[4] = w[4]
        /\ Len(w) >= 5 => d[5] = w[5]
        /\ Len(w) < Len(d)
    BY <2>1, DocumentedShapes
  <2> QED
    BY <2>1, <2>2, DocumentedShapes
<1> QED
  BY <1>1, <1>2, <1>3, <1>4, <1>5, <1>6, <1>7, <1>8, <1>9

-----------------------------------------------------------------------------
(* The codes of the sequence p of lexemes are w. *)
Spelled(p, w) ==
    /\ Len(p) = Len(w)
    /\ \A k \in 1 .. Len(w) : p[k].code = w[k]

(* The marks that were read, by their places in the section *)
MarksRead ==
    /\ marks.single = IF Len(path) >= 3 /\ path[2].code = "Kw_single_lined"
                      THEN path[3].idx ELSE 0
    /\ marks.nested = (\E k \in 1 .. Len(path) : path[k].code = "Kw_nested")
    /\ state = "Multi_lined_begin" => marks.begin = path[Len(path)].idx /\ marks.end = 0
    /\ state = "Beg_end_delim" => marks.begin = path[Len(path) - 1].idx /\ marks.end = 0
    /\ state = "Multilined_end" =>
          marks.begin = path[Len(path) - 2].idx /\ marks.end = path[Len(path)].idx
    /\ state \notin {"Multi_lined_begin", "Beg_end_delim", "Multilined_end"} =>
          marks.begin = 0 /\ marks.end = 0

(* A call without errors has read the beginning of a section, to the place  *)
(* that the state says; and it has returned only from a complete one.       *)
SectionInv ==
    /\ TypeOK
    /\ ~Recording => path = <<>> /\ failed = FALSE
    /\ Recording /\ ~failed /\ (running = "comments" \/ path # <<>>) =>
          (\E w \in Begun[state] : Spelled(path, w)) /\ MarksRead
    /\ running = "main" /\ path # <<>> /\ ~failed =>
          state \in {"Single_lined_mark", "Multilined_end"}

(* Where the words that MarksOf looks for are in a documented section *)
LEMMA PlacesOfMarks ==
    ASSUME NEW d \in Documented, NEW k \in Nat, 1 <= k, k <= Len(d)
    PROVE  /\ d[k] = "Kw_single_lined" => k = 2
           /\ Len(d) = 3 => d[k] # "Colon"
           /\ Len(d) # 3 => (d[k] = "Colon" <=> k = Len(d) - 1)
           /\ Len(d) \in {3, 5, 6, 7, 8}
<1>1. Len(d) \in {3, 5, 6, 7, 8}
  BY DocumentedShapes
<1>2. k = 1 \/ k = 2 \/ k = 3 \/ k = 4 \/ k = 5 \/ k = 6 \/ k = 7 \/ k = 8
  BY <1>1
<1>3. CASE Len(d) = 3
  BY <1>2, <1>3, DocumentedShapes
<1>4. CASE Len(d) = 5
  <2>1. /\ d[1] = "Kw_comments" /\ d[2] = "Kw_multilined" /\ d[3] = "String"
        /\ d[4] = "Colon" /\ d[5] = "String"
    BY <1>4, DocumentedShapes
  <2> QED
    BY <1>2, <1>4, <2>1
<1>5. CASE Len(d) = 6
  <2>1. /\ d[1] = "Kw_comments" /\ d[2] = "Kw_multilined" /\ d[3] = "Kw_nested"
        /\ d[4] = "String" /\ d[5] = "Colon" /\ d[6] = "String"
    BY <1>5, DocumentedShapes
  <2> QED
    BY <1>2, <1>5, <2>1
<1>6. CASE Len(d) = 7
  <2>1. /\ d[1] = "Kw_comments" /\ d[2] = "Kw_single_lined" /\ d[3] = "String"
        /\ d[4] = "Kw_multilined" /\ d[5] = "String" /\ d[6] = "Colon" /\ d[7] = "String"
    BY <1>6, DocumentedShapes
  <2> QED
    BY <1>2, <1>6, <2>1
<1>7. CASE Len(d) = 8
  <2>1. /\ d[1] = "Kw_comments" /\ d[2] = "Kw_single_lined" /\ d[3] = "String"
        /\ d[4] = "Kw_multilined" /\ d[5] = "Kw_nested" /\ d[6] = "String"
        /\ d[7] = "Colon" /\ d[8] = "String"
    BY <1>7, DocumentedShapes
  <2> QED
    BY <1>2, <1>7, <2>1
<1> QED
  BY <1>1, <1>3, <1>4, <1>5, <1>6, <1>7

(* In a complete section these are the marks that the text says. *)
LEMMA MarksOfSection ==
    ASSUME path \in Seq(Lexeme), NEW d \in Documented, Spelled(path, d), MarksRead,
           marks \in [single : Nat, begin : Nat, end : Nat, nested : BOOLEAN],
           state = IF Len(d) = 3 THEN "Single_lined_mark" ELSE "Multilined_end"
    PROVE  Codes(path) = d /\ marks = MarksOf(path)
<1>0. /\ DOMAIN path = 1 .. Len(d) /\ Len(path) = Len(d) /\ Len(d) \in {3, 5, 6, 7, 8}
      /\ 2 \in 1 .. Len(d) /\ Len(d) - 1 \in 1 .. Len(d)
      /\ (Len(d) - 1) + (0 - 1) = Len(d) - 2 /\ (Len(d) - 1) + 1 = Len(d)
  <2>1. Len(d) \in {3, 5, 6, 7, 8}
    BY DocumentedShapes
  <2>2. Len(path) = Len(d) /\ DOMAIN path = 1 .. Len(path)
    BY DEF Spelled
  <2> QED
    BY <2>1, <2>2
<1>1. /\ \A k \in 1 .. Len(d) : path[k].code = d[k]
      /\ \A k \in 1 .. Len(d) : d[k] = "Kw_single_lined" => k = 2
      /\ Len(d) = 3 => \A k \in 1 .. Len(d) : d[k] # "Colon"
      /\ Len(d) # 3 => \A k \in 1 .. Len(d) : d[k] = "Colon" <=> k = Len(d) - 1
  <2>2. \A k \in 1 .. Len(d) : path[k].code = d[k]
    BY DEF Spelled
  <2>3. ASSUME NEW k \in 1 .. Len(d)
        PROVE  /\ d[k] = "Kw_single_lined" => k = 2
               /\ Len(d) = 3 => d[k] # "Colon"
               /\ Len(d) # 3 => (d[k] = "Colon" <=> k = Len(d) - 1)
    <3>1. k \in Nat /\ 1 <= k /\ k <= Len(d)
      BY <1>0
    <3> QED
      BY <3>1, PlacesOfMarks
  <2> QED
    BY <2>2, <2>3
<1>2. Codes(path) = d
  <2> DEFINE S == {d[k] : k \in 1 .. Len(d)}
  <2>1. d \in Seq(S)
    <3>1. \E T : d \in Seq(T)
      <4> DEFINE T == {"Kw_comments", "Kw_single_lined", "String", "Kw_multilined",
                       "Kw_nested", "Colon"}
      <4>1. /\ <<"Kw_comments", "Kw_single_lined", "String">> \in Seq(T)
            /\ <<"Kw_comments", "Kw_multilined", "String", "Colon", "String">> \in Seq(T)
            /\ <<"Kw_comments", "Kw_multilined", "Kw_nested", "String", "Colon", "String">>
                  \in Seq(T)
            /\ <<"Kw_comments", "Kw_single_lined", "String", "Kw_multilined", "String",
                 "Colon", "String">> \in Seq(T)
            /\ <<"Kw_comments", "Kw_single_lined", "String", "Kw_multilined", "Kw_nested",
                 "String", "Colon", "String">> \in Seq(T)
        OBVIOUS
      <4> HIDE DEF T
      <4>2. d \in Seq(T)
        BY <4>1 DEF Documented
      <4> QED
        BY <4>2
    <3> QED
      BY <3>1
  <2>2. Codes(path) = [k \in 1 .. Len(d) |-> d[k]]
    BY <1>0, <1>1 DEF Codes
  <2> QED
    BY <2>1, <2>2
<1> DEFINE idx_(code, shift) ==
              IF \E k \in DOMAIN path : path[k].code = code
              THEN path[(CHOOSE k \in DOMAIN path : path[k].code = code) + shift].idx
              ELSE 0
<1>3. MarksOf(path) = [single |-> idx_("Kw_single_lined", 1), begin |-> idx_("Colon", 0 - 1),
                       end |-> idx_("Colon", 1),
                       nested |-> \E k \in DOMAIN path : path[k].code = "Kw_nested"]
  BY DEF MarksOf
<1>4. idx_("Kw_single_lined", 1) = marks.single
  <2>1. CASE path[2].code = "Kw_single_lined"
    <3>1. (CHOOSE k \in DOMAIN path : path[k].code = "Kw_single_lined") = 2
      BY <1>0, <1>1, <2>1
    <3>2. \E k \in DOMAIN path : path[k].code = "Kw_single_lined"
      BY <1>0, <2>1
    <3>3. idx_("Kw_single_lined", 1) = path[3].idx
      <4> DEFINE p == CHOOSE k \in DOMAIN path : path[k].code = "Kw_single_lined"
      <4>1. idx_("Kw_single_lined", 1) = path[p + 1].idx
        BY <3>2, Zenon
      <4>0. p = 2
        BY <3>1
      <4> HIDE DEF p
      <4>2. p + 1 = 3
        BY <4>0
      <4> QED
        BY <4>1, <4>2
    <3>4. marks.single = path[3].idx
      BY <1>0, <2>1 DEF MarksRead
    <3> QED
      BY <3>3, <3>4
  <2>2. CASE path[2].code # "Kw_single_lined"
    <3>1. ~ \E k \in DOMAIN path : path[k].code = "Kw_single_lined"
      BY <1>0, <1>1, <2>2
    <3> QED
      BY <1>0, <2>2, <3>1 DEF MarksRead
  <2> QED
    BY <2>1, <2>2
<1>5. idx_("Colon", 0 - 1) = marks.begin /\ idx_("Colon", 1) = marks.end
  <2>1. CASE Len(d) = 3
    <3>1. ~ \E k \in DOMAIN path : path[k].code = "Colon"
      BY <1>0, <1>1, <2>1
    <3> QED
      BY <2>1, <3>1 DEF MarksRead
  <2>2. CASE Len(d) # 3
    <3>1. Len(d) - 1 \in DOMAIN path /\ path[Len(d) - 1].code = "Colon"
      BY <1>0, <1>1, <2>2
    <3>2. (CHOOSE k \in DOMAIN path : path[k].code = "Colon") = Len(d) - 1
      BY <1>0, <1>1, <2>2, <3>1
    <3> QED
      BY <1>0, <2>2, <3>1, <3>2 DEF MarksRead
  <2> QED
    BY <2>1, <2>2
<1>6. marks.nested = (\E k \in DOMAIN path : path[k].code = "Kw_nested")
  BY <1>0 DEF MarksRead
<1> HIDE DEF idx_
<1>7. marks = [single |-> marks.single, begin |-> marks.begin, end |-> marks.end,
               nested |-> marks.nested]
  OBVIOUS
<1> QED
  BY <1>2, <1>3, <1>4, <1>5, <1>6, <1>7

-----------------------------------------------------------------------------
(* How much of a section has been read in a state *)
LEMMA BegunShapes ==
    ASSUME NEW s \in States, NEW w \in Begun[s]
    PROVE  /\ s \in {"Comments_kw", "Single_or_multiLined"} => Len(w) < 2
           /\ s = "Single_lined" => Len(w) = 2 /\ w[2] = "Kw_single_lined"
           /\ s = "Multilined" => (Len(w) = 2 /\ w[2] = "Kw_multilined") \/ Len(w) = 4
           /\ s \in {"Nested", "Multi_lined_begin", "Beg_end_delim", "Single_lined_mark"} =>
                 Len(w) >= 3
           /\ s = "Single_lined_mark" => w \in Documented /\ Len(w) = 3
           /\ s = "Multilined_end" => w \in Documented /\ Len(w) > 3
           /\ Len(w) \in Nat
<1>1. CASE s = "Comments_kw"
  BY <1>1 DEF Begun
<1>2. CASE s = "Single_or_multiLined"
  BY <1>2 DEF Begun
<1>3. CASE s = "Single_lined"
  BY <1>3 DEF Begun
<1>4. CASE s = "Multilined"
  BY <1>4, SMTT(30) DEF Begun
<1>5. CASE s = "Single_lined_mark"
  <2>1. w = <<"Kw_comments", "Kw_single_lined", "String">>
    BY <1>5 DEF Begun
  <2>2. w \in Documented
    BY <2>1, Zenon DEF Documented
  <2>3. Len(w) = 3
    BY <2>1
  <2> QED
    BY <1>5, <2>2, <2>3
<1>6. CASE s = "Multi_lined_begin"
  BY <1>6, SMTT(30) DEF Begun
<1>7. CASE s = "Nested"
  BY <1>7, SMTT(30) DEF Begun
<1>8. CASE s = "Beg_end_delim"
  BY <1>8, SMTT(30) DEF Begun
<1>9. CASE s = "Multilined_end"
  <2>1. w \in Documented /\ Len(w) > 3
    BY <1>9 DEF Begun
  <2> QED
    BY <1>9, <2>1, DocumentedShapes
<1> QED
  BY <1>1, <1>2, <1>3, <1>4, <1>5, <1>6, <1>7, <1>8, <1>9 DEF States

(* The section begins with nothing read. *)
LEMMA InitInv == Init => SectionInv
<1> SUFFICES ASSUME Init PROVE SectionInv
  OBVIOUS
<1>1. SourceTypeOK
  BY SourceLengthAssumption, ErrorCapAssumption DEF Init, SourceInit, SourceTypeOK
<1>2. TypeOK
  <2>1. NoMarks \in [single : Nat, begin : Nat, end : Nat, nested : BOOLEAN]
    BY DEF NoMarks
  <2>2. <<>> \in Seq(Lexeme) /\ FALSE \in BOOLEAN
    OBVIOUS
  <2>3. HistoryTypeOK
    BY <2>2, Zenon DEF Init, HistoryTypeOK
  <2> QED
    BY <1>1, <2>1, <2>3 DEF Init, TypeOK, States
<1> QED
  BY <1>2 DEF Init, SectionInv

(* Every step keeps the types. *)
LEMMA TypesKept ==
    ASSUME TypeOK, Next
    PROVE  TypeOK'
<1>1. SourceTypeOK'
  <2>1. CASE Call
    BY <2>1 DEF Call, TypeOK, SourceTypeOK, source
  <2>2. CASE Step
    <3>1. procs[state][next.code].errors \in Nat
      BY <2>2, CommentsTable DEF Step, TypeOK
    <3> QED
      BY <2>2, <3>1, ReadingKeepsSource DEF Step, TypeOK
  <2>3. CASE Unexpected
    <3>1. GiveBack(0) \/ GiveBack(1)
      BY <2>3 DEF Unexpected
    <3> QED
      BY <3>1, ReadingKeepsSource DEF TypeOK
  <2>4. CASE EndOfSection
    <3>1. (Report(0) \/ Report(1)) /\ UNCHANGED source
      BY <2>4 DEF EndOfSection
    <3> QED
      BY <3>1, ReadingKeepsSource DEF TypeOK
  <2>5. CASE OtherSections
    <3>1. PICK n \in 0 .. 1 : Take(n)
      BY <2>5 DEF OtherSections
    <3> QED
      BY <3>1, ReadingKeepsSource DEF TypeOK
  <2>6. CASE Finished
    BY <2>6 DEF Finished, cvars, TypeOK, SourceTypeOK
  <2> QED
    BY <2>1, <2>2, <2>3, <2>4, <2>5, <2>6 DEF Next, Section
<1>2. /\ running' \in {"main", "comments"}
      /\ state' \in States
      /\ marks' \in [single : Nat, begin : Nat, end : Nat, nested : BOOLEAN]
      /\ HistoryTypeOK'
  <2>1. CASE Call
    <3>1. NoMarks \in [single : Nat, begin : Nat, end : Nat, nested : BOOLEAN]
      BY DEF NoMarks
    <3>2. path' = <<>> /\ failed' = FALSE
      BY <2>1 DEF Call, Forget
    <3>3. HistoryTypeOK'
      <4>1. <<>> \in Seq(Lexeme) /\ FALSE \in BOOLEAN
        OBVIOUS
      <4> QED
        BY <3>2, <4>1, Zenon DEF HistoryTypeOK
    <3> QED
      BY <2>1, <3>1, <3>3 DEF Call, States
  <2>2. CASE Step
    <3> DEFINE move == procs[state][next.code]
    <3>1. /\ next.code \in DOMAIN procs[state] /\ state \in States
          /\ state' = move.to /\ marks' = Remember(move.to) /\ Record(move.errors)
          /\ running' = running
      BY <2>2 DEF Step, TypeOK
    <3>2. /\ move.to \in States /\ next.code # "None"
          /\ next.code = "String" => move.to \in {"Single_lined_mark", "Multi_lined_begin",
                                                  "Multilined_end"}
      BY <3>1, CommentsTable
    <3> HIDE DEF move
    <3>3. next.idx \in Nat /\ next \in Lexeme
      BY <3>2, NextLexeme DEF TypeOK
    <3>4. Remember(move.to) \in [single : Nat, begin : Nat, end : Nat, nested : BOOLEAN]
      BY <3>2, <3>3 DEF Remember, TypeOK
    <3>5. HistoryTypeOK'
      BY <3>1, <3>3, RecordingAssumption DEF Record, HistoryTypeOK, TypeOK
    <3> QED
      BY <3>1, <3>2, <3>4, <3>5 DEF TypeOK
  <2>3. CASE Unexpected \/ EndOfSection
    BY <2>3, RecordingAssumption DEF Unexpected, EndOfSection, Blame, HistoryTypeOK, TypeOK
  <2>4. CASE OtherSections \/ Finished
    BY <2>4 DEF OtherSections, Finished, cvars, SameHistory, HistoryTypeOK, TypeOK
  <2> QED
    BY <2>1, <2>2, <2>3, <2>4 DEF Next, Section
<1> QED
  BY <1>1, <1>2 DEF TypeOK

(* A step without an error reads on. *)
LEMMA StepReadsOn ==
    ASSUME SectionInv, TypeOK', Step, Recording, ~failed'
    PROVE  (\E v \in Begun[state'] : Spelled(path', v)) /\ MarksRead'
<1> DEFINE move == procs[state][next.code]
<1>0. /\ state \in States /\ next.code \in DOMAIN procs[state] /\ running = "comments"
      /\ state' = move.to /\ marks' = Remember(move.to) /\ Record(move.errors)
  BY DEF Step, SectionInv, TypeOK
<1>1. /\ move.errors \in {0, 1} /\ next.code # "None"
      /\ next.code = "String" => move.to \in {"Single_lined_mark", "Multi_lined_begin",
                                              "Multilined_end"}
  BY <1>0, CommentsTable
<1>2. move.errors = 0 /\ ~failed /\ path' = Append(path, next)
  <2>1. move.errors \in {0, 1} /\ Record(move.errors)
    BY <1>0, <1>1
  <2> HIDE DEF move
  <2>2. failed' = (failed \/ move.errors > 0) /\ path' = Append(path, next)
    BY <2>1, Zenon DEF Record
  <2>3. ~failed /\ ~(move.errors > 0)
    BY <2>2, Zenon
  <2> QED
    BY <2>1, <2>2, <2>3
<1>3. /\ <<state, next.code, state'>> \in
             {<<"Comments_kw", "Kw_comments", "Single_or_multiLined">>,
              <<"Single_or_multiLined", "Kw_single_lined", "Single_lined">>,
              <<"Single_or_multiLined", "Kw_multilined", "Multilined">>,
              <<"Single_lined", "String", "Single_lined_mark">>,
              <<"Single_lined_mark", "Kw_multilined", "Multilined">>,
              <<"Multilined", "Kw_nested", "Nested">>,
              <<"Multilined", "String", "Multi_lined_begin">>,
              <<"Nested", "String", "Multi_lined_begin">>,
              <<"Multi_lined_begin", "Colon", "Beg_end_delim">>,
              <<"Beg_end_delim", "String", "Multilined_end">>}
  BY <1>0, <1>2, CleanEntries
<1>4. PICK w \in Begun[state] : Spelled(path, w)
  BY <1>0, <1>2 DEF SectionInv
<1>5. PICK v \in Begun[state'] : Continues(v, w, next.code)
  BY <1>0, <1>2, EntriesContinue
<1>6. MarksRead
  BY <1>0, <1>2 DEF SectionInv
<1> HIDE DEF move
<1>7. /\ path \in Seq(Lexeme) /\ next \in Lexeme
      /\ Len(path) \in Nat /\ Len(path') = Len(path) + 1
      /\ \A k \in 1 .. Len(path) : path'[k] = path[k]
      /\ path'[Len(path) + 1] = next
  <2>1. path \in Seq(Lexeme) /\ next \in Lexeme
    BY <1>1, NextLexeme DEF SectionInv, TypeOK, HistoryTypeOK
  <2> QED
    BY <1>2, <2>1
<1>8. /\ Len(w) = Len(path)
      /\ state \in {"Comments_kw", "Single_or_multiLined"} => Len(path) < 2
      /\ state = "Single_lined" => Len(path) = 2 /\ path[2].code = "Kw_single_lined"
      /\ state = "Multilined" =>
            (Len(path) = 2 /\ path[2].code = "Kw_multilined") \/ Len(path) = 4
      /\ state \in {"Nested", "Multi_lined_begin", "Beg_end_delim", "Single_lined_mark"} =>
            Len(path) >= 3
  <2>1. /\ state \in {"Comments_kw", "Single_or_multiLined"} => Len(w) < 2
        /\ state = "Single_lined" => Len(w) = 2 /\ w[2] = "Kw_single_lined"
        /\ state = "Multilined" => (Len(w) = 2 /\ w[2] = "Kw_multilined") \/ Len(w) = 4
        /\ state \in {"Nested", "Multi_lined_begin", "Beg_end_delim", "Single_lined_mark"} =>
              Len(w) >= 3
    BY <1>0, BegunShapes
  <2>2. Len(w) = Len(path) /\ (Len(w) = 2 => path[2].code = w[2])
    BY <1>4 DEF Spelled
  <2> QED
    BY <2>1, <2>2
<1>9. Spelled(path', v)
  <2>1. Len(path') = Len(v) /\ Len(v) = Len(path) + 1
    BY <1>5, <1>7, <1>8 DEF Continues
  <2>2. ASSUME NEW k \in 1 .. Len(v)
        PROVE  path'[k].code = v[k]
    <3>1. CASE k \in 1 .. Len(path)
      BY <1>4, <1>5, <1>7, <1>8, <3>1 DEF Spelled, Continues
    <3>2. CASE k = Len(path) + 1
      BY <1>5, <1>7, <1>8, <3>2 DEF Continues
    <3> QED
      BY <1>7, <2>1, <3>1, <3>2
  <2> QED
    BY <2>1, <2>2 DEF Spelled
<1>10. marks'.single = IF Len(path') >= 3 /\ path'[2].code = "Kw_single_lined"
                       THEN path'[3].idx ELSE 0
  <2>1. marks \in [single : Nat, begin : Nat, end : Nat, nested : BOOLEAN]
    BY DEF SectionInv, TypeOK
  <2>2. marks'.single = IF state' = "Single_lined_mark" THEN next.idx ELSE marks.single
    BY <1>0, <1>3, <2>1 DEF Remember
  <2>3. CASE state = "Single_lined"
    BY <1>3, <1>7, <1>8, <2>2, <2>3
  <2>4. CASE Len(path) < 2
    BY <1>3, <1>6, <1>7, <1>8, <2>2, <2>4 DEF MarksRead
  <2>5. CASE Len(path) = 2 /\ state = "Multilined"
    <3>1. path'[2].code = "Kw_multilined"
      BY <1>7, <1>8, <2>5
    <3> QED
      BY <1>3, <1>6, <1>7, <2>2, <2>5, <3>1 DEF MarksRead
  <2>6. CASE Len(path) >= 3
    <3>1. path'[2] = path[2] /\ path'[3] = path[3] /\ Len(path') >= 3
      BY <1>7, <2>6
    <3>2. marks'.single = marks.single
      BY <1>3, <1>8, <2>2, <2>6
    <3> QED
      BY <1>6, <2>6, <3>1, <3>2 DEF MarksRead
  <2> QED
    BY <1>3, <1>7, <1>8, <2>3, <2>4, <2>5, <2>6
<1>11. marks'.nested = (\E k \in 1 .. Len(path') : path'[k].code = "Kw_nested")
  <2>1. marks \in [single : Nat, begin : Nat, end : Nat, nested : BOOLEAN]
    BY DEF SectionInv, TypeOK
  <2>2. CASE next.code = "Kw_nested"
    <3>1. marks'.nested = TRUE
      BY <1>0, <1>3, <2>1, <2>2 DEF Remember
    <3>2. Len(path') \in 1 .. Len(path') /\ path'[Len(path')].code = "Kw_nested"
      BY <1>7, <2>2
    <3> QED
      BY <3>1, <3>2
  <2>3. CASE next.code # "Kw_nested"
    <3>1. marks'.nested = marks.nested
      BY <1>0, <1>3, <2>1, <2>3 DEF Remember
    <3>2. ASSUME NEW k \in 1 .. Len(path'), path'[k].code = "Kw_nested"
          PROVE  k \in 1 .. Len(path) /\ path[k].code = "Kw_nested"
      <4>1. k # Len(path) + 1
        BY <1>7, <2>3, <3>2
      <4> QED
        BY <1>7, <3>2, <4>1
    <3>3. ASSUME NEW k \in 1 .. Len(path), path[k].code = "Kw_nested"
          PROVE  k \in 1 .. Len(path') /\ path'[k].code = "Kw_nested"
      BY <1>7, <3>3
    <3>4. marks.nested = (\E k \in 1 .. Len(path) : path[k].code = "Kw_nested")
      BY <1>6 DEF MarksRead
    <3>5. (\E k \in 1 .. Len(path) : path[k].code = "Kw_nested") <=>
             (\E k \in 1 .. Len(path') : path'[k].code = "Kw_nested")
      BY <3>2, <3>3
    <3> QED
      BY <3>1, <3>4, <3>5, Zenon
  <2> QED
    BY <2>2, <2>3
<1>12. /\ state' = "Multi_lined_begin" => marks'.begin = path'[Len(path')].idx /\ marks'.end = 0
       /\ state' = "Beg_end_delim" => marks'.begin = path'[Len(path') - 1].idx /\ marks'.end = 0
       /\ state' = "Multilined_end" =>
             marks'.begin = path'[Len(path') - 2].idx /\ marks'.end = path'[Len(path')].idx
       /\ state' \notin {"Multi_lined_begin", "Beg_end_delim", "Multilined_end"} =>
             marks'.begin = 0 /\ marks'.end = 0
  <2>1. marks \in [single : Nat, begin : Nat, end : Nat, nested : BOOLEAN]
    BY DEF SectionInv, TypeOK
  <2>2. /\ marks'.begin = IF state' = "Multi_lined_begin" THEN next.idx ELSE marks.begin
        /\ marks'.end = IF state' = "Multilined_end" THEN next.idx ELSE marks.end
    BY <1>0, <1>3, <2>1 DEF Remember
  <2>3. CASE state' = "Multi_lined_begin"
    BY <1>3, <1>6, <1>7, <2>2, <2>3 DEF MarksRead
  <2>4. CASE state' = "Beg_end_delim"
    <3>1. state = "Multi_lined_begin" /\ Len(path) >= 3
      BY <1>3, <1>8, <2>4
    <3>2. Len(path') - 1 = Len(path) /\ path'[Len(path)] = path[Len(path)]
      BY <1>7, <3>1
    <3> QED
      BY <1>6, <2>2, <2>4, <3>1, <3>2 DEF MarksRead
  <2>5. CASE state' = "Multilined_end"
    <3>1. state = "Beg_end_delim" /\ Len(path) >= 3
      BY <1>3, <1>8, <2>5
    <3>2. /\ Len(path') - 2 = Len(path) - 1 /\ path'[Len(path) - 1] = path[Len(path) - 1]
          /\ path'[Len(path')] = next
      BY <1>7, <3>1
    <3> QED
      BY <1>6, <2>2, <2>5, <3>1, <3>2 DEF MarksRead
  <2>6. CASE state' \notin {"Multi_lined_begin", "Beg_end_delim", "Multilined_end"}
    <3>1. state \notin {"Multi_lined_begin", "Beg_end_delim", "Multilined_end"}
      BY <1>3, <2>6
    <3> QED
      BY <1>6, <2>2, <2>6, <3>1 DEF MarksRead
  <2> QED
    BY <2>3, <2>4, <2>5, <2>6
<1>13. MarksRead'
  BY <1>10, <1>11, <1>12 DEF MarksRead
<1> QED
  BY <1>9, <1>13

(* Every step keeps the invariant. *)
LEMMA NextKeepsInv == SectionInv /\ [Next]_cvars => SectionInv'
<1> SUFFICES ASSUME SectionInv, [Next]_cvars PROVE SectionInv'
  OBVIOUS
<1>0. CASE UNCHANGED cvars
  BY <1>0 DEF cvars, SectionInv, TypeOK, SourceTypeOK, HistoryTypeOK, MarksRead
<1>t. ASSUME Next PROVE TypeOK'
  BY <1>t, TypesKept DEF SectionInv
<1>1. CASE Call
  <2>1. TypeOK'
    BY <1>1, <1>t DEF Next
  <2>2. path' = <<>> /\ failed' = FALSE /\ running' = "comments" /\ state' = "Comments_kw"
        /\ marks' = NoMarks
    BY <1>1 DEF Call, Forget
  <2>3. Spelled(path', <<>>) /\ <<>> \in Begun[state']
    BY <2>2 DEF Spelled, Begun
  <2>4. MarksRead'
    BY <2>2 DEF MarksRead, NoMarks
  <2> QED
    BY <2>1, <2>2, <2>3, <2>4 DEF SectionInv
<1>2. CASE Step
  <2>1. TypeOK'
    BY <1>2, <1>t DEF Next, Section
  <2>2. running = "comments" /\ running' = running
    BY <1>2 DEF Step
  <2>3. ~Recording => path' = <<>> /\ failed' = FALSE
    BY <1>2 DEF SectionInv, Step, Record
  <2>4. Recording /\ ~failed' => (\E v \in Begun[state'] : Spelled(path', v)) /\ MarksRead'
    BY <1>2, <2>1, StepReadsOn
  <2> QED
    BY <2>1, <2>2, <2>3, <2>4 DEF SectionInv
<1>3. CASE Unexpected
  <2>1. TypeOK'
    BY <1>3, <1>t DEF Next, Section
  <2>2. /\ running = "comments" /\ running' = "main" /\ state' = state /\ marks' = marks
        /\ path' = path
        /\ failed' = (failed \/ (Recording /\ state # "Multilined_end"))
    BY <1>3 DEF Unexpected, Blame
  <2> QED
    BY <2>1, <2>2 DEF SectionInv, MarksRead
<1>4. CASE EndOfSection
  <2>1. TypeOK'
    BY <1>4, <1>t DEF Next, Section
  <2>2. /\ running = "comments" /\ running' = "main" /\ state' = state /\ marks' = marks
        /\ path' = path
        /\ failed' = (failed \/ (Recording /\ state \notin {"Single_lined_mark",
                                                           "Multilined_end"}))
    BY <1>4 DEF EndOfSection, Blame
  <2> QED
    BY <2>1, <2>2 DEF SectionInv, MarksRead
<1>5. CASE OtherSections
  <2>1. TypeOK'
    BY <1>5, <1>t DEF Next
  <2>2. /\ running' = running /\ state' = state /\ marks' = marks
        /\ path' = path /\ failed' = failed
    BY <1>5 DEF OtherSections, SameHistory
  <2> QED
    BY <2>1, <2>2 DEF SectionInv, MarksRead
<1>6. CASE Finished
  BY <1>0, <1>6 DEF Finished
<1> QED
  BY <1>0, <1>1, <1>2, <1>3, <1>4, <1>5, <1>6 DEF Next, Section

(* The strengthening of SectionRight is an invariant: without an error the  *)
(* automaton has read the beginning of a documented section that its state  *)
(* stands for, and has remembered the marks of it.                          *)
THEOREM SectionInvariant == Spec => []SectionInv
<1>1. Init => SectionInv
  BY InitInv
<1>2. SectionInv /\ [Next]_cvars => SectionInv'
  BY NextKeepsInv
<1> QED
  BY <1>1, <1>2, PTL DEF Spec

(* A section that is parsed without an error has the documented form, and   *)
(* the marks are those of this section (compile of                          *)
(* src/comments_parser.cpp).                                                *)
THEOREM DocumentedSections == Spec => []SectionRight
<1>1. SectionInv => SectionRight
  <2> SUFFICES ASSUME SectionInv, running = "main", path # <<>>, ~failed
               PROVE  Codes(path) \in Documented /\ marks = MarksOf(path)
    BY DEF SectionRight, CleanSectionIsDocumented, SectionInv
  <2>1. /\ Recording /\ MarksRead /\ path \in Seq(Lexeme) /\ state \in States
        /\ state \in {"Single_lined_mark", "Multilined_end"}
        /\ marks \in [single : Nat, begin : Nat, end : Nat, nested : BOOLEAN]
    BY RecordingAssumption DEF SectionInv, TypeOK, HistoryTypeOK
  <2>2. PICK w \in Begun[state] : Spelled(path, w)
    BY <2>1 DEF SectionInv
  <2>3. /\ w \in Documented
        /\ state = IF Len(w) = 3 THEN "Single_lined_mark" ELSE "Multilined_end"
    <3>1. /\ state = "Single_lined_mark" => w \in Documented /\ Len(w) = 3
          /\ state = "Multilined_end" => w \in Documented /\ Len(w) > 3
      BY <2>1, BegunShapes
    <3>2. CASE state = "Single_lined_mark"
      BY <3>1, <3>2
    <3>3. CASE state = "Multilined_end"
      <4>1. w \in Documented /\ Len(w) > 3
        BY <3>1, <3>3
      <4>2. Len(w) # 3
        BY <4>1
      <4> QED
        BY <3>3, <4>1, <4>2
    <3> QED
      BY <2>1, <3>2, <3>3
  <2>4. Codes(path) = w /\ marks = MarksOf(path)
    BY <2>1, <2>2, <2>3, MarksOfSection
  <2> QED
    BY <2>3, <2>4
<1> QED
  BY <1>1, SectionInvariant, PTL

(* If the codes read and the next one are the beginning of a text, they are *)
(* so position by position.                                                 *)
LEMMA Beginning ==
    ASSUME path \in Seq(Lexeme), NEW d \in Documented, NEW w, Spelled(path, w),
           NEW c, IsPrefix(Append(Codes(path), c), d)
    PROVE  /\ Len(w) + 1 <= Len(d)
           /\ \A k \in 1 .. Len(w) : d[k] = w[k]
           /\ d[Len(w) + 1] = c
<1> DEFINE S == {path[k].code : k \in DOMAIN path} \cup {c}
           a == Append(Codes(path), c)
<1>1. /\ Len(path) \in Nat /\ DOMAIN path = 1 .. Len(path) /\ Len(w) = Len(path)
      /\ \A k \in 1 .. Len(path) : path[k].code = w[k]
  BY DEF Spelled
<1>2. Codes(path) \in Seq(S) /\ Len(Codes(path)) = Len(path)
  <2>1. Codes(path) = [k \in 1 .. Len(path) |-> path[k].code]
    BY <1>1 DEF Codes
  <2>2. \A k \in 1 .. Len(path) : path[k].code \in S
    BY <1>1
  <2> HIDE DEF S
  <2> QED
    BY <1>1, <2>1, <2>2
<1>3. \A k \in 1 .. Len(path) : Codes(path)[k] = path[k].code
  BY <1>1 DEF Codes
<1>4. /\ a \in Seq(S) /\ Len(a) = Len(path) + 1
      /\ \A k \in 1 .. Len(path) : a[k] = path[k].code
      /\ a[Len(path) + 1] = c
  <2>1. c \in S
    OBVIOUS
  <2> HIDE DEF S
  <2> QED
    BY <1>1, <1>2, <1>3, <2>1, AppendProperties
<1> HIDE DEF a
<1>5. Len(a) <= Len(d) /\ SubSeq(a, 1, Len(a)) = SubSeq(d, 1, Len(a))
  BY DEF IsPrefix, a
<1>6. ASSUME NEW k \in 1 .. Len(a)
      PROVE  d[k] = a[k]
  <2>1. Len(a) \in Nat /\ Len(d) \in Nat
    BY <1>1, <1>4, DocumentedShapes
  <2>2. SubSeq(a, 1, Len(a))[k] = a[k]
    BY <1>4, <2>1
  <2>3. \A i \in 1 .. Len(a) : d[i] \in {d[j] : j \in 1 .. Len(a)}
    OBVIOUS
  <2>4. SubSeq(d, 1, Len(a))[k] = d[1 + k - 1]
    BY <2>1, <2>3, SubSeqProperties
  <2> QED
    BY <1>5, <2>1, <2>2, <2>4
<1> QED
  BY <1>1, <1>4, <1>5, <1>6

(* A beginning that is a whole section belongs to one of the final states,  *)
(* and in Single_lined_mark it is the section of single-lined comments.     *)
LEMMA WholeIsFinal ==
    ASSUME NEW s \in States, NEW w \in Begun[s], NEW d \in Documented, Len(d) = Len(w),
           \A k \in 1 .. Len(w) : d[k] = w[k]
    PROVE  \/ s = "Multilined_end"
           \/ s = "Single_lined_mark" /\ d = <<"Kw_comments", "Kw_single_lined", "String">>
<1> USE DEF States
<1>1. CASE s \in {"Comments_kw", "Single_or_multiLined", "Single_lined"}
  <2>1. Len(w) \in {0, 1, 2}
    BY <1>1 DEF Begun
  <2> QED
    BY <2>1, DocumentedShapes
<1>2. CASE s = "Multilined"
  <2>1. Len(w) = 2 \/ Len(w) = 4
    BY <1>2 DEF Begun
  <2> QED
    BY <2>1, DocumentedShapes
<1>3. CASE s = "Single_lined_mark"
  <2>1. Len(w) = 3
    BY <1>3 DEF Begun
  <2>2. d = <<"Kw_comments", "Kw_single_lined", "String">>
    BY <2>1 DEF Documented
  <2> QED
    BY <1>3, <2>2
<1>4. CASE s = "Nested"
  <2>1. \/ Len(w) = 3 /\ w[3] = "Kw_nested"
        \/ Len(w) = 5 /\ w[2] = "Kw_single_lined"
    BY <1>4 DEF Begun
  <2>2. \/ Len(d) = 3 /\ d[3] = "Kw_nested"
        \/ Len(d) = 5 /\ d[2] = "Kw_single_lined"
    BY <2>1
  <2> QED
    BY <2>2, DocumentedShapes
<1>5. CASE s = "Multi_lined_begin"
  <2>1. \/ Len(w) = 3 /\ w[2] = "Kw_multilined"
        \/ Len(w) = 4
        \/ Len(w) = 5 /\ w[2] = "Kw_single_lined"
        \/ Len(w) = 6 /\ w[2] = "Kw_single_lined"
    BY <1>5 DEF Begun
  <2>2. \/ Len(d) = 3 /\ d[2] = "Kw_multilined"
        \/ Len(d) = 4
        \/ Len(d) = 5 /\ d[2] = "Kw_single_lined"
        \/ Len(d) = 6 /\ d[2] = "Kw_single_lined"
    BY <2>1
  <2> QED
    BY <2>2, DocumentedShapes
<1>6. CASE s = "Beg_end_delim"
  <2>1. \/ Len(w) = 4
        \/ Len(w) = 5 /\ w[5] = "Colon"
        \/ Len(w) = 6 /\ w[6] = "Colon"
        \/ Len(w) = 7 /\ w[7] = "Colon"
    BY <1>6 DEF Begun
  <2>2. \/ Len(d) = 4
        \/ Len(d) = 5 /\ d[5] = "Colon"
        \/ Len(d) = 6 /\ d[6] = "Colon"
        \/ Len(d) = 7 /\ d[7] = "Colon"
    BY <2>1
  <2> QED
    BY <2>2, DocumentedShapes
<1> QED
  BY <1>1, <1>2, <1>3, <1>4, <1>5, <1>6

(* What is read and is whole leads to a final state. *)
LEMMA WholeIsRead ==
    ASSUME path \in Seq(Lexeme), state \in States, NEW w \in Begun[state], Spelled(path, w),
           Whole
    PROVE  \/ state = "Multilined_end"
           \/ /\ state = "Single_lined_mark"
              /\ Codes(path) = <<"Kw_comments", "Kw_single_lined", "String">>
<1>1. PICK d : d = Codes(path)
  OBVIOUS
<1>2. d \in Documented
  BY <1>1 DEF Whole
<1>3. /\ Len(path) \in Nat /\ DOMAIN path = 1 .. Len(path) /\ Len(w) = Len(path)
      /\ \A k \in 1 .. Len(path) : path[k].code = w[k]
  BY DEF Spelled
<1>4. DOMAIN d = 1 .. Len(path) /\ \A k \in 1 .. Len(path) : d[k] = w[k]
  BY <1>1, <1>3 DEF Codes
<1>5. Len(d) \in Nat /\ DOMAIN d = 1 .. Len(d)
  BY <1>2 DEF Documented
<1>6. Len(d) = Len(w)
  BY <1>3, <1>4, <1>5
<1> HIDE DEF Whole
<1> QED
  BY <1>1, <1>2, <1>3, <1>4, <1>6, WholeIsFinal

(* An error is reported only at a lexeme with which the text departs from   *)
(* the documented form, and a section that is whole is blamed only if it is *)
(* one of single-lined comments and not the last thing of the text, which   *)
(* the header file does not allow (src/comments_parser.cpp:307).            *)
THEOREM OnlyDeparturesAreErrors == Spec => ErrorsAreDepartures
<1> DEFINE SingleOnly == Codes(path) = <<"Kw_comments", "Kw_single_lined", "String">>
           Right == Departs /\ (Whole => SingleOnly /\ next # EndOfText)
<1>1. ASSUME SectionInv, Next, ~failed, failed'
      PROVE  Right
  <2>1. /\ running = "comments" /\ Recording
        /\ next.code \in DOMAIN procs[state] => procs[state][next.code].errors # 0
        /\ state # "Multilined_end"
        /\ state = "Single_lined_mark" => next # EndOfText
    <3>1. CASE Call
      BY <1>1, <3>1 DEF Call, Forget
    <3>2. CASE Step
      <4>1. /\ running = "comments" /\ next.code \in DOMAIN procs[state]
            /\ Record(procs[state][next.code].errors) /\ state \in States
        BY <1>1, <3>2 DEF Step, SectionInv, TypeOK
      <4>2. procs[state][next.code].errors \in {0, 1} /\ next.code # "None"
        BY <4>1, CommentsTable
      <4>3. Recording /\ procs[state][next.code].errors > 0
        BY <1>1, <4>1, RecordingAssumption DEF Record
      <4>4. state # "Multilined_end"
        BY <4>1 DEF procs, multilined_end_proc
      <4>5. next # EndOfText
        BY <4>2 DEF EndOfText
      <4> QED
        BY <4>1, <4>2, <4>3, <4>4, <4>5
    <3>3. CASE Unexpected
      <4>1. /\ running = "comments" /\ next.code \notin DOMAIN procs[state] /\ next # EndOfText
        BY <3>3 DEF Unexpected
      <4>2. PICK n : n = (IF state = "Multilined_end" THEN 0 ELSE 1) /\ Blame(n)
        BY <3>3 DEF Unexpected
      <4>3. Recording /\ n > 0
        BY <1>1, <4>2 DEF Blame
      <4>4. state # "Multilined_end"
        BY <4>2, <4>3
      <4> QED
        BY <4>1, <4>3, <4>4
    <3>4. CASE EndOfSection
      <4>1. next.code = "None"
        BY <3>4 DEF EndOfSection, EndOfText
      <4>2. next.code \notin DOMAIN procs[state]
        BY <1>1, <4>1, CommentsTable DEF SectionInv, TypeOK
      <4>3. PICK n : /\ n = (IF state \in {"Single_lined_mark", "Multilined_end"} THEN 0 ELSE 1)
                     /\ Blame(n)
        BY <3>4 DEF EndOfSection
      <4>4. Recording /\ n > 0 /\ running = "comments"
        BY <1>1, <3>4, <4>3 DEF Blame, EndOfSection
      <4>5. state \notin {"Single_lined_mark", "Multilined_end"}
        BY <4>3, <4>4
      <4> QED
        BY <4>2, <4>4, <4>5
    <3>5. CASE OtherSections \/ Finished
      BY <1>1, <3>5 DEF OtherSections, Finished, SameHistory, cvars
    <3> QED
      BY <1>1, <3>1, <3>2, <3>3, <3>4, <3>5 DEF Next, Section
  <2>2. path \in Seq(Lexeme) /\ state \in States
    BY <1>1 DEF SectionInv, TypeOK, HistoryTypeOK
  <2>3. PICK w \in Begun[state] : Spelled(path, w)
    BY <1>1, <2>1 DEF SectionInv
  <2>4. ASSUME NEW d \in Documented, IsPrefix(Append(Codes(path), next.code), d)
        PROVE  FALSE
    <3>1. /\ Len(w) + 1 <= Len(d)
          /\ \A k \in 1 .. Len(w) : d[k] = w[k]
          /\ d[Len(w) + 1] = next.code
      BY <2>2, <2>3, <2>4, Beginning
    <3> QED
      BY <2>1, <2>2, <3>1, ErrorsDepart
  <2>5. Departs
    BY <2>4 DEF Departs
  <2>6. ASSUME Whole
        PROVE  SingleOnly /\ next # EndOfText
    BY <2>1, <2>2, <2>3, <2>6, WholeIsRead
  <2> QED
    BY <2>5, <2>6
<1>2. SectionInv /\ [Next]_cvars => [~failed /\ failed' => Right]_cvars
  BY <1>1
<1> QED
  BY <1>2, SectionInvariant, PTL DEF Spec, ErrorsAreDepartures
=============================================================================
