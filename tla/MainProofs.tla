----------------------------- MODULE MainProofs -----------------------------
(***************************************************************************)
(* The main parser with the parsers of all sections, for any text and any  *)
(* lexemes: every identifier and every string keeps one role, every action *)
(* a body of its own, and verification finds every clash between the       *)
(* delimiters of comments and those that were given, and nothing else.     *)
(***************************************************************************)
EXTENDS MainParser, ScopeProofs

(* The parsers of the sections read the same source as the main parser ...  *)
LEMMA SameReading ==
    /\ \A n : C!Take(n) <=> Take(n)
    /\ \A n : C!GiveBack(n) <=> GiveBack(n)
    /\ \A n : C!Report(n) <=> Report(n)
    /\ C!source = source /\ C!EndOfText = EndOfText
    /\ \A n : K!Take(n) <=> Take(n)
    /\ \A n : K!GiveBack(n) <=> GiveBack(n)
    /\ \A n : N!Take(n) <=> Take(n)
    /\ \A n : N!GiveBack(n) <=> GiveBack(n)
    /\ \A n : N!Report(n) <=> Report(n)
    /\ N!source = source /\ N!EndOfText = EndOfText
    /\ \A n : D!Take(n) <=> Take(n)
    /\ \A n : D!GiveBack(n) <=> GiveBack(n)
<1>1. /\ \A n : C!Take(n) <=> Take(n)
      /\ \A n : C!GiveBack(n) <=> GiveBack(n)
      /\ \A n : C!Report(n) <=> Report(n)
      /\ C!source = source /\ C!EndOfText = EndOfText
  BY DEF Take, C!Take, GiveBack, C!GiveBack, Report, C!Report, Advance, C!Advance,
         Lexical, C!Lexical, source, C!source, EndOfText, C!EndOfText
<1>2. /\ \A n : K!Take(n) <=> Take(n)
      /\ \A n : K!GiveBack(n) <=> GiveBack(n)
  BY DEF Take, K!Take, GiveBack, K!GiveBack, Report, K!Report, Advance, K!Advance,
         Lexical, K!Lexical, source, K!source, EndOfText, K!EndOfText
<1>3. /\ \A n : N!Take(n) <=> Take(n)
      /\ \A n : N!GiveBack(n) <=> GiveBack(n)
      /\ \A n : N!Report(n) <=> Report(n)
      /\ N!source = source /\ N!EndOfText = EndOfText
  BY DEF Take, N!Take, GiveBack, N!GiveBack, Report, N!Report, Advance, N!Advance,
         Lexical, N!Lexical, source, N!source, EndOfText, N!EndOfText
<1>4. /\ \A n : D!Take(n) <=> Take(n)
      /\ \A n : D!GiveBack(n) <=> GiveBack(n)
  BY DEF Take, D!Take, GiveBack, D!GiveBack, Report, D!Report, Advance, D!Advance,
         Lexical, D!Lexical, source, D!source, EndOfText, D!EndOfText
<1> QED
  BY <1>1, <1>2, <1>3, <1>4

(* ... and enter codes and actions in the same scope. *)
LEMMA SameScope ==
    /\ \A id : D!AddNewLexemCode(id) <=> AddNewLexemCode(id)
    /\ \A id, str : N!AddActionDefinition(id, str) <=> AddActionDefinition(id, str)
    /\ \A id, str : N!ActionErrors(id, str) = ActionErrors(id, str)
    /\ \A id : D!CodeErrors(id) = CodeErrors(id)
    /\ \A k : D!CodeOfLexem(k) = CodeOfLexem(k)
    /\ \A m, k, v : D!Put(m, k, v) = Put(m, k, v)
    /\ D!scope = scope /\ K!scope = scope /\ N!scope = scope
    /\ D!table = table /\ N!table = table
<1>1. \A m, k, v : D!Put(m, k, v) = Put(m, k, v) /\ N!Put(m, k, v) = Put(m, k, v)
  BY DEF D!Put, N!Put, Put
<1>2. /\ D!table = table /\ N!table = table
      /\ D!scope = scope /\ K!scope = scope /\ N!scope = scope
  BY DEF D!table, N!table, table, D!scope, K!scope, N!scope, scope
<1>3. /\ \A id : D!AddNewLexemCode(id) <=> AddNewLexemCode(id)
      /\ \A id : D!CodeErrors(id) = CodeErrors(id)
      /\ \A k : D!CodeOfLexem(k) = CodeOfLexem(k)
  BY <1>1, <1>2 DEF D!AddNewLexemCode, AddNewLexemCode, D!CodeErrors, CodeErrors,
                    D!CodeOfLexem, CodeOfLexem, D!table, table
<1>4. /\ \A id, str : N!ActionErrors(id, str) = ActionErrors(id, str)
      /\ \A id, str : N!AddActionDefinition(id, str) <=> AddActionDefinition(id, str)
  BY <1>1 DEF N!ActionErrors, ActionErrors, N!AddActionDefinition, AddActionDefinition,
              N!ActionName, ActionName
<1> QED
  BY <1>1, <1>2, <1>3, <1>4

-----------------------------------------------------------------------------
(* The tables of the automata: every entry leads to a state of the same     *)
(* automaton and reports at most one error.                                 *)
LEMMA CommentsTable ==
    ASSUME NEW s \in C!States, NEW c \in DOMAIN C!procs[s]
    PROVE  /\ C!procs[s][c].to \in C!States
           /\ C!procs[s][c].errors \in {0, 1}
           /\ c = "String" => C!procs[s][c].to \in {"Single_lined_mark", "Multi_lined_begin",
                                                    "Multilined_end"}
<1> USE DEF C!States, C!procs, C!Go, C!Err
<1>1. CASE s = "Comments_kw"
  BY <1>1 DEF C!comments_kw_proc
<1>2. CASE s = "Single_or_multiLined"
  BY <1>2 DEF C!single_or_multilined_proc
<1>3. CASE s = "Single_lined"
  BY <1>3 DEF C!single_lined_proc
<1>4. CASE s = "Multilined"
  BY <1>4 DEF C!multilined_proc
<1>5. CASE s = "Single_lined_mark"
  BY <1>5 DEF C!single_lined_mark_proc
<1>6. CASE s = "Multi_lined_begin"
  BY <1>6 DEF C!multi_lined_begin_proc
<1>7. CASE s = "Nested"
  BY <1>7 DEF C!nested_proc
<1>8. CASE s = "Beg_end_delim"
  BY <1>8 DEF C!beg_end_delim_proc
<1>9. CASE s = "Multilined_end"
  BY <1>9 DEF C!multilined_end_proc
<1> QED
  BY <1>1, <1>2, <1>3, <1>4, <1>5, <1>6, <1>7, <1>8, <1>9

(* So does every entry of the table of %keywords and %delimiters, ... *)
LEMMA KeywordsTable ==
    ASSUME NEW s \in K!States, NEW c \in DOMAIN K!procs[s]
    PROVE  K!procs[s][c].to \in K!States /\ K!procs[s][c].errors \in {0, 1}
<1> USE DEF K!States, K!procs, K!Go, K!Err
<1>1. CASE s = "Maybe_repres_str"
  BY <1>1 DEF K!maybe_repres_str_proc
<1>2. CASE s = "Colon_sep0"
  BY <1>2 DEF K!colon_sep0_proc
<1>3. CASE s = "Maybe_code_kw_or_del"
  BY <1>3 DEF K!maybe_code_kw_or_del_proc
<1>4. CASE s = "Repres_str"
  BY <1>4 DEF K!repres_str_proc
<1>5. CASE s = "Code_kw_or_del"
  BY <1>5 DEF K!code_kw_or_del_proc
<1>6. CASE s = "Colon_sep"
  BY <1>6 DEF K!colon_sep_proc
<1>7. CASE s = "Kw_del_comma_sep"
  BY <1>7 DEF K!kw_del_comma_sep_proc
<1> QED
  BY <1>1, <1>2, <1>3, <1>4, <1>5, <1>6, <1>7

(* ... and every entry of the table of %numbers, %strings and %idents. *)
LEMMA NumbersTable ==
    ASSUME NEW s \in DOMAIN N!procs, NEW c \in DOMAIN N!procs[s]
    PROVE  N!procs[s][c].to \in N!States /\ N!procs[s][c].errors \in {0, 1}
<1> USE DEF N!States, N!procs, N!Go, N!Err
<1>1. CASE s = "Maybe_init_acts"
  BY <1>1 DEF N!maybe_init_acts_proc
<1>2. CASE s = "Init_acts"
  BY <1>2 DEF N!init_acts_proc
<1>3. CASE s = "Maybe_final_acts"
  BY <1>3 DEF N!maybe_final_acts_proc
<1>4. CASE s = "Final_acts"
  BY <1>4 DEF N!final_acts_proc
<1>5. CASE s = "Action_sec"
  BY <1>5 DEF N!action_sec_proc
<1>6. CASE s = "Act_def"
  BY <1>6 DEF N!act_def_proc
<1> QED
  BY <1>1, <1>2, <1>3, <1>4, <1>5, <1>6

(* Every opening brace is expected or an error. *)
LEMMA BraceTable ==
    ASSUME NEW s \in DOMAIN N!procs
    PROVE  N!procs[s]["Opened_fig_brack"].errors \in {0, 1}
<1> USE DEF N!procs, N!Go, N!Err
<1>1. CASE s = "Maybe_init_acts"
  BY <1>1 DEF N!maybe_init_acts_proc
<1>2. CASE s = "Init_acts"
  BY <1>2 DEF N!init_acts_proc
<1>3. CASE s = "Maybe_final_acts"
  BY <1>3 DEF N!maybe_final_acts_proc
<1>4. CASE s = "Final_acts"
  BY <1>4 DEF N!final_acts_proc
<1>5. CASE s = "Action_sec"
  BY <1>5 DEF N!action_sec_proc
<1>6. CASE s = "Act_def"
  BY <1>6 DEF N!act_def_proc
<1> QED
  BY <1>1, <1>2, <1>3, <1>4, <1>5, <1>6

-----------------------------------------------------------------------------
Running == {"main", "codes"} \cup Names \cup Texts \cup DOMAIN AutomatonOf
ParserStates == {"Codes_id", "Codes_comma_sep"} \cup C!States \cup K!States \cup N!States
Marks == [single : Nat, begin : Nat, end : Nat, nested : BOOLEAN]
Acts == [init_acts : Nat, fin_acts : Nat]

(* The state is one of the automaton that is running. *)
StateOfParser ==
    /\ running = "codes" => state \in {"Codes_id", "Codes_comma_sep"}
    /\ running = "comments" => state \in C!States
    /\ running \in K!Sections => state \in K!States
    /\ running \in N!Sections => state \in N!States

(* What a section parser keeps of the types, whoever it is *)
ParserTypes ==
    /\ SourceTypeOK
    /\ running \in Running /\ state \in ParserStates /\ StateOfParser

(* The bits of the automata *)
LEMMA SetBitKeepsAutomata ==
    ASSUME sections \subseteq Automata, running \in {"main"} \cup DOMAIN AutomatonOf, SetBit
    PROVE  sections' \subseteq Automata
BY DEF SetBit, Automata, Range

(* A step of the section %comments keeps the types. *)
LEMMA CommentsKeepTypes ==
    ASSUME ParserTypes, marks \in Marks, sections \subseteq Automata, Comments
    PROVE  ParserTypes' /\ marks' \in Marks /\ sections' \subseteq Automata
<1> USE DEF ParserTypes, Running, ParserStates, AutomatonOf
<1>1. CASE C!Call
  <2>1. /\ running = "main" /\ running' = "comments" /\ state' = "Comments_kw"
        /\ marks' = C!NoMarks /\ UNCHANGED <<source, errors>>
    BY <1>1 DEF C!Call, C!source, source
  <2>2. marks' \in Marks
    BY <2>1 DEF C!NoMarks, Marks
  <2>3. SourceTypeOK'
    BY <2>1 DEF SourceTypeOK, source
  <2> QED
    BY <2>1, <2>2, <2>3, SetBitKeepsAutomata DEF StateOfParser, C!States, K!Sections,
       N!Sections, N!settings, Comments
<1>2. CASE C!Section
  <2>0. running = "comments" /\ state \in C!States
    BY <1>2 DEF C!Section, C!Step, C!Unexpected, C!EndOfSection, StateOfParser
  <2>1. CASE C!Step
    <3> DEFINE move == C!procs[state][next.code]
    <3>1. /\ next.code \in DOMAIN C!procs[state]
          /\ state' = move.to /\ marks' = C!Remember(move.to) /\ Take(move.errors)
          /\ running' = running
      BY <2>1, SameReading DEF C!Step
    <3>2. /\ move.to \in C!States /\ move.errors \in {0, 1}
          /\ next.code = "String" => move.to \in {"Single_lined_mark", "Multi_lined_begin",
                                                  "Multilined_end"}
      BY <2>0, <3>1, CommentsTable
    <3>3. marks' \in Marks
      <4> HIDE DEF move
      <4>1. next.idx \in Nat
        BY NextLexeme
      <4> QED
        BY <3>1, <3>2, <4>1 DEF C!Remember, Marks
    <3>4. SourceTypeOK'
      BY <3>1, <3>2, ReadingKeepsSource
    <3> QED
      BY <2>0, <3>1, <3>2, <3>3, <3>4, SetBitKeepsAutomata DEF StateOfParser, Comments,
         K!Sections, N!Sections, N!settings
  <2>2. CASE C!Unexpected \/ C!EndOfSection
    <3>1. /\ running' = "main" /\ UNCHANGED <<state, marks>>
          /\ \E n \in {0, 1} : GiveBack(n) \/ (Report(n) /\ UNCHANGED source)
      <4>1. C!Unexpected => GiveBack(0) \/ GiveBack(1)
        BY SameReading DEF C!Unexpected
      <4>2. C!EndOfSection => (Report(0) \/ Report(1)) /\ UNCHANGED source
        BY SameReading DEF C!EndOfSection, C!source, source
      <4> QED
        BY <2>2, <4>1, <4>2 DEF C!Unexpected, C!EndOfSection
    <3>2. SourceTypeOK'
      BY <3>1, ReadingKeepsSource
    <3> QED
      BY <2>0, <3>1, <3>2, SetBitKeepsAutomata DEF StateOfParser, Comments,
         K!Sections, N!Sections, N!settings
  <2> QED
    BY <1>2, <2>1, <2>2 DEF C!Section
<1> QED
  BY <1>1, <1>2 DEF Comments

(* A step of the sections %keywords and %delimiters keeps the types. *)
LEMMA KeywordsKeepTypes ==
    ASSUME ParserTypes, {maybe_repres_str_idx, idx, postaction} \subseteq Nat,
           sections \subseteq Automata, Keywords
    PROVE  /\ ParserTypes' /\ ({maybe_repres_str_idx, idx, postaction} \subseteq Nat)'
           /\ sections' \subseteq Automata /\ UNCHANGED scope
<1> USE DEF ParserTypes, Running, ParserStates, AutomatonOf
<1>0. next.idx \in Nat
  BY NextLexeme
<1>1. CASE K!Call
  <2>1. /\ running = "main" /\ running' \in {"keywords", "delimiters"}
        /\ state' = "Maybe_repres_str" /\ Take(0) /\ UNCHANGED scope
        /\ ({maybe_repres_str_idx, idx, postaction} \subseteq Nat)'
    BY <1>1, SameReading DEF K!Call, K!scope, scope
  <2>2. SourceTypeOK'
    BY <2>1, ReadingKeepsSource
  <2> QED
    BY <2>1, <2>2, SetBitKeepsAutomata DEF StateOfParser, K!States, K!Sections,
       N!Sections, N!settings, Keywords
<1>2. CASE K!Section
  <2>0. running \in {"keywords", "delimiters"} /\ state \in K!States
    BY <1>2 DEF K!Section, K!Step, K!Return, StateOfParser, K!Sections
  <2>1. CASE K!Step
    <3> DEFINE move == K!procs[state][next.code]
    <3>1. /\ next.code \in DOMAIN K!procs[state]
          /\ state' = move.to
          /\ \E n \in K!AddErrors : Take(move.errors + n)
          /\ UNCHANGED <<scope, running>>
      BY <2>1, SameReading DEF K!Step, K!scope, scope
    <3>2. move.to \in K!States /\ move.errors \in {0, 1}
      BY <2>0, <3>1, KeywordsTable
    <3>3. K!AddErrors \subseteq {0, 1}
      BY DEF K!AddErrors, K!StringErrors
    <3>4. ({maybe_repres_str_idx, idx, postaction} \subseteq Nat)'
      BY <1>0, <2>1 DEF K!Step, K!NewIdx
    <3>5. SourceTypeOK'
      <4> HIDE DEF move
      <4>1. PICK n \in {0, 1} : Take(move.errors + n)
        BY <3>1, <3>3
      <4> QED
        BY <3>2, <4>1, ReadingKeepsSource
    <3> QED
      BY <2>0, <3>1, <3>2, <3>4, <3>5, SetBitKeepsAutomata DEF StateOfParser, Keywords,
         K!Sections, N!Sections, N!settings
  <2>2. CASE K!Return
    <3>1. /\ running' = "main" /\ GiveBack(0) /\ UNCHANGED <<scope, state>>
          /\ UNCHANGED <<maybe_repres_str_idx, idx, postaction>>
      BY <2>2, SameReading DEF K!Return, K!fields, K!scope, scope
    <3>2. SourceTypeOK'
      BY <3>1, ReadingKeepsSource
    <3> QED
      BY <2>0, <3>1, <3>2, SetBitKeepsAutomata DEF StateOfParser, Keywords,
         K!Sections, N!Sections, N!settings
  <2> QED
    BY <1>2, <2>1, <2>2 DEF K!Section
<1> QED
  BY <1>1, <1>2 DEF Keywords

(* The section %codes and the word %newline_is_lexem *)
LEMMA CodesKeepTypes ==
    ASSUME ParserTypes, ScopeTypeOK, last_code_val \in Nat, newline_is_lexem_ \in BOOLEAN, Codes
    PROVE  /\ ParserTypes' /\ ScopeTypeOK'
           /\ last_code_val' \in Nat /\ newline_is_lexem_' \in BOOLEAN
<1> USE DEF ParserTypes, Running, ParserStates
<1>0. next.idx \in Nat
  BY NextLexeme
<1>1. CASE D!Call
  <2>1. /\ running = "main" /\ UNCHANGED <<scope, newline_is_lexem_>>
        /\ last_code_val' = last_code_val_
        /\ \/ running' = "codes" /\ state' = "Codes_id"
           \/ UNCHANGED <<running, state>>
        /\ Take(0) \/ GiveBack(1)
    BY <1>1, SameReading DEF D!Call, D!scope, scope
  <2>2. SourceTypeOK'
    BY <2>1, ReadingKeepsSource
  <2>3. ScopeTypeOK'
    BY <2>1 DEF ScopeTypeOK, scope
  <2> QED
    BY <2>1, <2>2, <2>3 DEF StateOfParser, ScopeTypeOK, K!Sections, N!Sections, N!settings
<1>2. CASE D!Code
  <2>1. /\ running = "codes" /\ running' = running /\ state' = "Codes_comma_sep"
        /\ AddNewLexemCode(next.idx) /\ UNCHANGED <<strsc, newline_is_lexem_>>
        /\ last_code_val' = last_code_val_'
        /\ \E n \in {0, 1, 2} : Take(n)
    <3>1. CodeErrors(next.idx) \in {0, 1}
      BY DEF CodeErrors
    <3> DEFINE n == CodeErrors(next.idx) + (IF state = "Codes_id" THEN 0 ELSE 1)
    <3>2. n \in {0, 1, 2} /\ Take(n)
      BY <1>2, <3>1, SameReading, SameScope DEF D!Code
    <3> QED
      BY <1>2, <3>2, SameScope DEF D!Code
  <2>2. SourceTypeOK'
    BY <2>1, ReadingKeepsSource
  <2>3. ScopeTypeOK'
    BY <1>0, <2>1, NewCodeKeepsTypes
  <2> QED
    BY <2>1, <2>2, <2>3 DEF StateOfParser, ScopeTypeOK, K!Sections, N!Sections, N!settings
<1>3. CASE D!Separator \/ D!Return
  <2>1. /\ running = "codes" /\ running' \in {"codes", "main"}
        /\ state' \in {"Codes_comma_sep", "Codes_id"}
        /\ UNCHANGED <<scope, last_code_val, newline_is_lexem_>>
        /\ Take(0) \/ Take(1) \/ GiveBack(0) \/ GiveBack(1)
    BY <1>3, SameReading DEF D!Separator, D!Return, D!scope, scope, StateOfParser
  <2>2. SourceTypeOK'
    BY <2>1, ReadingKeepsSource
  <2>3. ScopeTypeOK'
    BY <2>1 DEF ScopeTypeOK, scope
  <2> QED
    BY <2>1, <2>2, <2>3 DEF StateOfParser, K!Sections, N!Sections, N!settings
<1>4. CASE D!Newline_is_lexem
  <2>1. /\ running = "main" /\ UNCHANGED <<strsc, codes_, last_code_val_, running, state>>
        /\ newline_is_lexem_' = TRUE
        /\ \/ UNCHANGED <<idsc, last_code_val>>
           \/ /\ last_code_val' = last_code_val + 1
              /\ idsc' = Put(idsc, newline_lexem_str, CodeOfLexem(last_code_val'))
    BY <1>4, SameScope DEF D!Newline_is_lexem, D!table
  <2>2. SourceTypeOK'
    <3>1. D!CodeErrors(newline_lexem_str) \in {0, 1}
      BY DEF D!CodeErrors
    <3>2. Take(0) \/ Take(1)
      BY <1>4, <3>1, SameReading DEF D!Newline_is_lexem
    <3> QED
      BY <3>2, ReadingKeepsSource
  <2>3. last_code_val' \in Nat
    BY <2>1
  <2>4. Attributes(idsc')
    <3>1. Attributes(idsc)
      BY ScopeTypeParts
    <3>2. CASE UNCHANGED idsc
      BY <3>1, <3>2 DEF Attributes
    <3>3. CASE idsc' = Put(idsc, newline_lexem_str, CodeOfLexem(last_code_val'))
      BY <2>3, <3>1, <3>3, PutAttribute, AttributeTypes, MainParserAssumption
    <3> QED
      BY <2>1, <3>2, <3>3
  <2>5. ScopeTypeOK'
    BY <2>1, <2>4 DEF ScopeTypeOK, Attributes
  <2> QED
    BY <2>1, <2>2, <2>3, <2>5 DEF StateOfParser
<1> QED
  BY <1>1, <1>2, <1>3, <1>4 DEF Codes, D!Section

(* A step of the sections %numbers, %strings and %idents keeps the types. *)
LEMMA NumbersKeepTypes ==
    ASSUME ParserTypes, ScopeTypeOK, acts_ \in Acts, current_action_name_idx \in Nat,
           acts \in [N!Sections -> Acts], regexps \subseteq N!Sections,
           sections \subseteq Automata, Numbers
    PROVE  /\ ParserTypes' /\ ScopeTypeOK'
           /\ acts_' \in Acts /\ current_action_name_idx' \in Nat
           /\ acts' \in [N!Sections -> Acts] /\ regexps' \subseteq N!Sections
           /\ sections' \subseteq Automata
<1> USE DEF ParserTypes, Running, ParserStates, AutomatonOf
<1> DEFINE Same == UNCHANGED scope /\ UNCHANGED <<acts_, current_action_name_idx, acts, regexps>>
<1>0. next.idx \in Nat
  BY NextLexeme
<1>a. Same => /\ ScopeTypeOK'
              /\ acts_' \in Acts /\ current_action_name_idx' \in Nat
              /\ acts' \in [N!Sections -> Acts] /\ regexps' \subseteq N!Sections
  BY DEF scope, ScopeTypeOK
<1>b. N!Sections = {"numbers", "strings", "idents"} /\ DOMAIN N!procs \subseteq N!States
  BY DEF N!Sections, N!settings, N!procs, N!States
<1>1. CASE N!Call
  <2>1. /\ running = "main" /\ running' \in N!Sections /\ state' = "Num_str_kw"
        /\ UNCHANGED <<source, errors>> /\ UNCHANGED scope
        /\ UNCHANGED <<current_action_name_idx, acts, regexps>>
        /\ acts_' \in Acts
    BY <1>1, <1>b DEF N!Call, N!ParserOf, N!NoActs, Acts, N!source, source, N!scope, scope
  <2>2. SourceTypeOK' /\ ScopeTypeOK'
    BY <2>1 DEF SourceTypeOK, source, ScopeTypeOK, scope
  <2> QED
    BY <1>b, <2>1, <2>2, SetBitKeepsAutomata DEF StateOfParser, N!States, K!Sections, Numbers
<1>2. ASSUME Same, running \in N!Sections, SourceTypeOK',
             running' \in {"main", running}, state' \in N!States
      PROVE  /\ ParserTypes' /\ ScopeTypeOK'
             /\ acts_' \in Acts /\ current_action_name_idx' \in Nat
             /\ acts' \in [N!Sections -> Acts] /\ regexps' \subseteq N!Sections
             /\ sections' \subseteq Automata
  <2>1. sections' \subseteq Automata
    BY <1>2, <1>b, SetBitKeepsAutomata DEF Numbers
  <2> QED
    BY <1>2, <1>a, <1>b, <2>1 DEF StateOfParser, K!Sections
<1>3. CASE N!SectionKeyword \/ N!RepeatedKeyword
  <2>1. /\ Same /\ running \in N!Sections /\ running' = running /\ state' \in N!States
        /\ Take(0)
    BY <1>3, <1>b, SameReading DEF N!SectionKeyword, N!RepeatedKeyword, N!fields, N!States,
                                   N!scope, scope
  <2>2. SourceTypeOK'
    BY <2>1, ReadingKeepsSource
  <2> HIDE DEF Same
  <2> QED
    BY <1>2, <2>1, <2>2
<1>4. CASE N!WrongBeginning \/ N!Abandon
  <2>1. /\ Same /\ running \in N!Sections /\ running' = "main" /\ state' \in N!States
        /\ GiveBack(0) \/ GiveBack(1) \/ GiveBack(2)
    BY <1>4, SameReading DEF N!WrongBeginning, N!Abandon, N!fields, N!scope, scope,
                             StateOfParser
  <2>2. SourceTypeOK'
    BY <2>1, ReadingKeepsSource
  <2> HIDE DEF Same
  <2> QED
    BY <1>2, <2>1, <2>2
<1>5. CASE N!OpenExpression
  <2>1. /\ Same /\ running \in N!Sections /\ running' = running /\ state' = "a_parser"
        /\ state \in DOMAIN N!procs
        /\ GiveBack(N!procs[state]["Opened_fig_brack"].errors)
    BY <1>5, SameReading DEF N!OpenExpression, N!fields, N!scope, scope
  <2>2. GiveBack(0) \/ GiveBack(1)
    BY <2>1, BraceTable
  <2>3. SourceTypeOK' /\ state' \in N!States
    BY <2>1, <2>2, ReadingKeepsSource DEF N!States
  <2> HIDE DEF Same
  <2> QED
    BY <1>2, <2>1, <2>3
<1>6. CASE N!EndOfHeader
  <2>1. /\ Same /\ running \in N!Sections /\ running' = running /\ state' = "a_parser"
        /\ Report(1) /\ UNCHANGED source
    BY <1>6, SameReading DEF N!EndOfHeader, N!fields, N!scope, scope, N!source, source
  <2>2. SourceTypeOK' /\ state' \in N!States
    BY <2>1, ReadingKeepsSource DEF N!States
  <2> HIDE DEF Same
  <2> QED
    BY <1>2, <2>1, <2>2
<1>7. CASE N!ExpressionParsed
  <2>1. /\ UNCHANGED scope /\ UNCHANGED <<acts_, current_action_name_idx>>
        /\ running \in N!Sections /\ running' = "main" /\ state' = state
        /\ Take(0) \/ Take(1)
        /\ acts' = [acts EXCEPT ![running] = acts_]
        /\ regexps' = regexps \cup {running}
    <3>1. \E n \in 0 .. 1 : Take(n)
      BY <1>7, SameReading DEF N!ExpressionParsed
    <3> QED
      BY <1>7, <3>1 DEF N!ExpressionParsed, N!scope, scope
  <2>2. SourceTypeOK' /\ ScopeTypeOK'
    BY <2>1, ReadingKeepsSource DEF ScopeTypeOK, scope
  <2>3. sections' \subseteq Automata
    BY <1>b, <2>1, SetBitKeepsAutomata DEF Numbers
  <2> QED
    BY <1>b, <2>1, <2>2, <2>3 DEF StateOfParser, K!Sections
<1>8. CASE N!Step
  <2> DEFINE move == N!procs[state][next.code]
             defines == state = "Act_def" /\ next.code = "String"
             m == IF defines THEN ActionErrors(current_action_name_idx, next.idx) ELSE 0
  <2>1. /\ running \in N!Sections /\ running' = running /\ UNCHANGED <<acts, regexps>>
        /\ state \in DOMAIN N!procs /\ next.code \in DOMAIN N!procs[state]
        /\ state' = move.to /\ Take(move.errors + m)
        /\ UNCHANGED table
        /\ \/ AddActionDefinition(current_action_name_idx, next.idx)
           \/ UNCHANGED <<idsc, strsc>>
        /\ acts_' = N!NewActs /\ current_action_name_idx' = N!NewActionName
    BY <1>8, SameReading, SameScope DEF N!Step, N!table, table
  <2>2. move.to \in N!States /\ move.errors \in {0, 1}
    BY <2>1, NumbersTable
  <2>3. m \in {0, 1}
    BY DEF ActionErrors
  <2>4. SourceTypeOK'
    <3> HIDE DEF move, m
    <3>1. move.errors + m \in Nat
      BY <2>2, <2>3
    <3> QED
      BY <2>1, <3>1, ReadingKeepsSource
  <2>5. ScopeTypeOK'
    <3>1. CASE AddActionDefinition(current_action_name_idx, next.idx)
      BY <1>0, <2>1, <3>1, ActionKeepsTypes
    <3>2. CASE UNCHANGED <<idsc, strsc>>
      BY <2>1, <3>2 DEF ScopeTypeOK, table
    <3> QED
      BY <2>1, <3>1, <3>2
  <2>6. acts_' \in Acts /\ current_action_name_idx' \in Nat
    BY <1>0, <2>1 DEF N!NewActs, N!NewActionName, Acts
  <2>7. sections' \subseteq Automata
    BY <1>b, <2>1, SetBitKeepsAutomata DEF Numbers
  <2> QED
    BY <1>b, <2>1, <2>2, <2>4, <2>5, <2>6, <2>7 DEF StateOfParser, K!Sections
<1> QED
  BY <1>1, <1>3, <1>4, <1>5, <1>6, <1>7, <1>8 DEF Numbers, N!Section

(* The sections of a name or a text *)
LEMMA PairKeepsTypes ==
    ASSUME ParserTypes, ScopeTypeOK, names \in [Names -> Nat], texts \in [Texts -> Nat],
           sections \subseteq Automata, Pair
    PROVE  /\ ParserTypes' /\ ScopeTypeOK'
           /\ names' \in [Names -> Nat] /\ texts' \in [Texts -> Nat]
           /\ sections' \subseteq Automata
<1> USE DEF ParserTypes, Running, ParserStates
<1>0. next.idx \in Nat
  BY NextLexeme
<1>a. /\ Names = {"scaner_name", "codes_type", "ident_name"}
      /\ Texts = {"token_fields", "class_members", "header_additions", "impl_additions",
                  "lexem_info_name"}
  BY DEF Names, Texts, NameSection, TextSection, Range
<1>b. \A n \in Names : name_attribute[n] \in Id_kind
  BY <1>a DEF name_attribute, Id_kind
<1>1. state' = state /\ running \in {"main"} \cup Names \cup Texts
      /\ running' \in {"main"} \cup Names \cup Texts
      /\ \E n \in {0, 1} : Take(n) \/ GiveBack(n)
  BY <1>a DEF Pair, BeginPair, GivenName, DefaultName, GivenText, NoText, Names, Texts, Range
<1>2. ParserTypes'
  <2>1. SourceTypeOK'
    BY <1>1, ReadingKeepsSource
  <2> QED
    BY <1>1, <1>a, <2>1 DEF StateOfParser, K!Sections, N!Sections, N!settings
<1>3. texts' \in [Texts -> Nat]
  BY <1>0 DEF Pair, BeginPair, GivenName, DefaultName, GivenText, NoText
<1>4. sections' \subseteq Automata
  BY DEF Pair, BeginPair, GivenName, DefaultName, GivenText, NoText, Automata, AutomatonOf,
         Range
<1>5. CASE UNCHANGED scope /\ names' = names
  BY <1>2, <1>3, <1>4, <1>5 DEF ScopeTypeOK, scope
<1>6. ASSUME NEW n \in Names, NEW id \in Nat,
             idsc' = Put(idsc, id, Named(name_attribute[n])),
             names' = [names EXCEPT ![n] = id], UNCHANGED <<strsc, table>>
      PROVE  ScopeTypeOK' /\ names' \in [Names -> Nat]
  <2>1. Attributes(idsc')
    BY <1>6, <1>b, ScopeTypeParts, PutAttribute, AttributeTypes
  <2> QED
    BY <1>6, <2>1 DEF ScopeTypeOK, Attributes, table
<1>7. CASE GivenName
  <2>1. \/ UNCHANGED scope /\ names' = names
        \/ /\ running \in Names
           /\ idsc' = Put(idsc, next.idx, Named(name_attribute[running]))
           /\ names' = [names EXCEPT ![running] = next.idx]
           /\ UNCHANGED <<strsc, table>>
    BY <1>7 DEF GivenName, scope, table
  <2> QED
    BY <1>0, <1>2, <1>3, <1>4, <1>5, <1>6, <2>1
<1>8. CASE DefaultName
  <2>1. \/ UNCHANGED scope /\ names' = names
        \/ /\ running \in Names \ {"ident_name"}
           /\ idsc' = Put(idsc, default_names[running], Named(name_attribute[running]))
           /\ names' = [names EXCEPT ![running] = default_names[running]]
           /\ UNCHANGED <<strsc, table>>
    BY <1>8 DEF DefaultName, scope, table
  <2>2. running \in Names \ {"ident_name"} => default_names[running] \in Nat
    BY <1>a, MainParserAssumption
  <2> QED
    BY <1>2, <1>3, <1>4, <1>5, <1>6, <2>1, <2>2
<1>9. CASE BeginPair \/ GivenText \/ NoText
  BY <1>5, <1>9 DEF BeginPair, GivenText, NoText
<1> QED
  BY <1>2, <1>3, <1>4, <1>7, <1>8, <1>9 DEF Pair

-----------------------------------------------------------------------------
(* The types of everything: TypeOK, and a running parser is in a state of   *)
(* its own automaton.                                                       *)
Typed == TypeOK /\ StateOfParser

(* The type invariant, conjunct by conjunct *)
LEMMA TypedParts ==
    Typed <=> /\ ParserTypes /\ ScopeTypeOK
              /\ phase \in {"parse", "refused", "crashed", "verified", "generated"}
              /\ marks \in Marks
              /\ {maybe_repres_str_idx, idx, postaction, current_action_name_idx} \subseteq Nat
              /\ acts_ \in Acts /\ acts \in [N!Sections -> Acts]
              /\ regexps \subseteq N!Sections
              /\ last_code_val \in Nat /\ newline_is_lexem_ \in BOOLEAN
              /\ names \in [Names -> Nat] /\ texts \in [Texts -> Nat]
              /\ sections \subseteq Automata /\ indeterminate \subseteq Automata
              /\ del_repres_ \in Seq(Nat)
              /\ exit_code \in {"none", "There_are_syntax_errors", "Success",
                                "Failed_moving_cpps", "Failed_moving_hs"}
BY DEF Typed, TypeOK, ParserTypes, Running, ParserStates, Marks, Acts

(* The program begins in the main parser, with no section read. *)
LEMMA InitTypes == Init => Typed
<1> SUFFICES ASSUME Init PROVE Typed
  OBVIOUS
<1>1. SourceTypeOK
  BY SourceLengthAssumption, ErrorCapAssumption DEF Init, SourceInit, SourceTypeOK
<1>2. running \in Running /\ state \in ParserStates /\ StateOfParser
  BY DEF Init, Running, ParserStates, N!States, StateOfParser, K!Sections, N!Sections,
         N!settings
<1>3. ScopeTypeOK
  BY ScopeInitTypes DEF Init
<1>4. marks \in Marks /\ acts_ \in Acts /\ acts \in [N!Sections -> Acts]
  BY DEF Init, C!NoMarks, Marks, N!NoActs, Acts
<1>5. last_code_val \in Nat /\ indeterminate \subseteq Automata
  BY MainParserAssumption DEF Init, Automata, AutomatonOf, Range
<1> QED
  BY <1>1, <1>2, <1>3, <1>4, <1>5, TypedParts DEF Init, ParserTypes

(* What the parsers of the sections do not touch *)
LEMMA ParseKeepsTypes ==
    ASSUME Typed, Parse
    PROVE  Typed'
<1> USE TypedParts
<1>1. CASE Codes /\ UNCHANGED <<names, texts>>
  <2>1. /\ ParserTypes' /\ ScopeTypeOK'
        /\ last_code_val' \in Nat /\ newline_is_lexem_' \in BOOLEAN
    BY <1>1, CodesKeepTypes
  <2> QED
    BY <1>1, <2>1, TypedParts DEF Parse, Typed, TypeOK, ParserTypes, Running,
       ParserStates, Marks, Acts, Codes, keyword_vars, number_vars
<1>2. CASE Comments /\ UNCHANGED <<names, texts>>
  <2>1. ParserTypes' /\ marks' \in Marks /\ sections' \subseteq Automata
    BY <1>2, CommentsKeepTypes
  <2>2. ScopeTypeOK'
    BY <1>2 DEF Comments, scope, ScopeTypeOK
  <2> QED
    BY <1>2, <2>1, <2>2, TypedParts DEF Parse, Typed, TypeOK, ParserTypes, Running,
       ParserStates, Marks, Acts, Comments, keyword_vars, number_vars, codes_vars
<1>3. CASE Keywords /\ UNCHANGED <<names, texts>>
  <2>1. /\ ParserTypes' /\ ({maybe_repres_str_idx, idx, postaction} \subseteq Nat)'
        /\ sections' \subseteq Automata /\ UNCHANGED scope
    BY <1>3, KeywordsKeepTypes
  <2>2. ScopeTypeOK'
    BY <2>1 DEF scope, ScopeTypeOK
  <2> QED
    BY <1>3, <2>1, <2>2, TypedParts DEF Parse, Typed, TypeOK, ParserTypes, Running,
       ParserStates, Marks, Acts, Keywords, number_vars, codes_vars
<1>4. CASE Numbers /\ UNCHANGED <<names, texts>>
  <2>1. /\ ParserTypes' /\ ScopeTypeOK'
        /\ acts_' \in Acts /\ current_action_name_idx' \in Nat
        /\ acts' \in [N!Sections -> Acts] /\ regexps' \subseteq N!Sections
        /\ sections' \subseteq Automata
    BY <1>4, NumbersKeepTypes
  <2> QED
    BY <1>4, <2>1, TypedParts DEF Parse, Typed, TypeOK, ParserTypes, Running,
       ParserStates, Marks, Acts, Numbers, keyword_vars, codes_vars
<1>5. CASE Pair /\ UNCHANGED <<marks, keyword_vars, number_vars, codes_vars>>
  <2>1. /\ ParserTypes' /\ ScopeTypeOK'
        /\ names' \in [Names -> Nat] /\ texts' \in [Texts -> Nat]
        /\ sections' \subseteq Automata
    BY <1>5, PairKeepsTypes
  <2> QED
    BY <1>5, <2>1, TypedParts DEF Parse, Typed, TypeOK, ParserTypes, Running,
       ParserStates, Marks, Acts, keyword_vars, number_vars, codes_vars
<1>6. CASE /\ Skip \/ NoCase
           /\ UNCHANGED <<scope, running, state, marks, keyword_vars, number_vars,
                          codes_vars, names, texts, sections>>
  <2>1. SourceTypeOK'
    BY <1>6, ReadingKeepsSource DEF Skip, NoCase, ParserTypes
  <2>2. ParserTypes' /\ ScopeTypeOK'
    BY <1>6, <2>1 DEF ParserTypes, StateOfParser, scope, ScopeTypeOK
  <2> QED
    BY <1>6, <2>2, TypedParts DEF Parse, Typed, TypeOK, ParserTypes, Running,
       ParserStates, Marks, Acts, keyword_vars, number_vars, codes_vars
<1> QED
  BY <1>1, <1>2, <1>3, <1>4, <1>5, <1>6 DEF Parse

-----------------------------------------------------------------------------
(* The enumeration of codes, the names and the actions of a scope, with the *)
(* fact that every code of the enumeration and every given name is in it.   *)
CodesIn(ids, cs, last) ==
    /\ cs \in Seq(Nat) /\ last = Len(cs) - 1
    /\ \A i, j \in 1 .. Len(cs) : cs[i] = cs[j] => i = j
    /\ \A i \in 1 .. Len(cs) :
          /\ cs[i] \in DOMAIN ids
          /\ \/ ids[cs[i]] = CodeOfLexem(i - 1)
             \/ /\ cs[i] \in Range(default_names)
                /\ ids[cs[i]].kind \in Range(name_attribute)
    /\ \A id \in DOMAIN ids \ {newline_lexem_str} :
          ids[id].kind = "Code_of_lexem" => \E i \in 1 .. Len(cs) : id = cs[i]

(* The given names are entered with their own attributes. *)
NamesIn(ids, nm) ==
    \A n \in Names : nm[n] \notin {0} \cup Range(default_names) =>
        nm[n] \in DOMAIN ids /\ ids[nm[n]].kind = name_attribute[n]

(* Every action has a string of its own as its body. *)
BodiesIn(ids, strs) ==
    \A id \in DOMAIN ids : ids[id].kind = "Action_name" =>
        ids[id].value \in DOMAIN strs /\ strs[ids[id].value] = "Action_definition"

Roles == /\ CodesIn(idsc, codes_, last_code_val_)
         /\ NamesIn(idsc, names)
         /\ BodiesIn(idsc, strsc)

(* This is what the properties say, and a little more. *)
LEMMA RolesMean ==
    ASSUME Roles
    PROVE  CodesEnumerated /\ NamesKeepRoles /\ ActionsHaveBodies
<1>1. Len(codes_) \in Nat /\ DOMAIN codes_ = 1 .. Len(codes_)
  BY DEF Roles, CodesIn
<1>2. CodesEnumerated
  BY <1>1 DEF Roles, CodesIn, CodesEnumerated, Range
<1> QED
  BY <1>2 DEF Roles, NamesIn, BodiesIn, NamesKeepRoles, ActionsHaveBodies

(* The kinds of the names differ from those of codes and actions. *)
LEMMA NameKinds ==
    /\ DOMAIN name_attribute = Names
    /\ \A n \in Names : name_attribute[n] \notin {"Code_of_lexem", "Action_name"}
    /\ \A n \in Names : name_attribute[n] \in Range(name_attribute)
    /\ \A k \in Range(name_attribute) : k \notin {"Code_of_lexem", "Action_name"}
    /\ Names = {"scaner_name", "codes_type", "ident_name"}
BY DEF name_attribute, Names, NameSection, Range

(* A new identifier becomes a code at the end of the enumeration. *)
LEMMA NewCodeKeepsRoles ==
    ASSUME NEW ids, NEW cs, NEW last, NEW nm, NEW strs, NEW id \in Nat, id \notin DOMAIN ids,
           CodesIn(ids, cs, last), NamesIn(ids, nm), BodiesIn(ids, strs)
    PROVE  /\ CodesIn(Put(ids, id, CodeOfLexem(last + 1)), Append(cs, id), last + 1)
           /\ NamesIn(Put(ids, id, CodeOfLexem(last + 1)), nm)
           /\ BodiesIn(Put(ids, id, CodeOfLexem(last + 1)), strs)
<1> DEFINE new == Put(ids, id, CodeOfLexem(last + 1))
           ext == Append(cs, id)
<1>1. /\ DOMAIN new = DOMAIN ids \cup {id}
      /\ new[id] = CodeOfLexem(last + 1)
      /\ \A x \in DOMAIN ids : new[x] = ids[x]
  BY DEF Put
<1>2. /\ Len(cs) \in Nat /\ ext \in Seq(Nat) /\ Len(ext) = Len(cs) + 1
      /\ \A i \in 1 .. Len(cs) : ext[i] = cs[i]
      /\ ext[Len(cs) + 1] = id
  BY DEF CodesIn
<1>3. /\ last + 1 = Len(ext) - 1 /\ last + 1 = Len(cs)
  BY <1>2 DEF CodesIn
<1> HIDE DEF new, ext
<1>4. \A i, j \in 1 .. Len(ext) : ext[i] = ext[j] => i = j
  <2>1. \A i \in 1 .. Len(cs) : ext[i] # id /\ ext[i] = cs[i]
    BY <1>2 DEF CodesIn
  <2>2. \A i \in 1 .. Len(ext) : i \in 1 .. Len(cs) \/ i = Len(cs) + 1
    BY <1>2
  <2> QED
    BY <1>2, <2>1, <2>2 DEF CodesIn
<1>5. ASSUME NEW i \in 1 .. Len(ext)
      PROVE  /\ ext[i] \in DOMAIN new
             /\ \/ new[ext[i]] = CodeOfLexem(i - 1)
                \/ /\ ext[i] \in Range(default_names)
                   /\ new[ext[i]].kind \in Range(name_attribute)
  <2>1. CASE i \in 1 .. Len(cs)
    BY <1>1, <1>2, <2>1 DEF CodesIn
  <2>2. CASE i = Len(cs) + 1
    BY <1>1, <1>2, <1>3, <2>2
  <2> QED
    BY <1>2, <2>1, <2>2
<1>6. ASSUME NEW x \in DOMAIN new \ {newline_lexem_str}, new[x].kind = "Code_of_lexem"
      PROVE  \E i \in 1 .. Len(ext) : x = ext[i]
  <2>1. CASE x = id
    BY <1>2, <2>1
  <2>2. CASE x \in DOMAIN ids
    <3>1. PICK i \in 1 .. Len(cs) : x = cs[i]
      BY <1>1, <1>6, <2>2 DEF CodesIn
    <3> QED
      BY <1>2, <3>1
  <2> QED
    BY <1>1, <2>1, <2>2
<1>7. CodesIn(new, ext, last + 1)
  BY <1>2, <1>3, <1>4, <1>5, <1>6 DEF CodesIn
<1>8. NamesIn(new, nm) /\ BodiesIn(new, strs)
  BY <1>1 DEF NamesIn, BodiesIn, CodeOfLexem
<1> QED
  BY <1>7, <1>8 DEF new, ext

(* An identifier without a role, or a default name, becomes a name. *)
LEMMA NewNameKeepsRoles ==
    ASSUME Roles, names \in [Names -> Nat], NEW n \in Names, NEW id \in Nat,
           id \notin DOMAIN idsc \/ id \in Range(default_names),
           idsc' = Put(idsc, id, Named(name_attribute[n])),
           names' = [names EXCEPT ![n] = id], UNCHANGED <<strsc, table>>
    PROVE  Roles'
<1>1. /\ DOMAIN idsc' = DOMAIN idsc \cup {id}
      /\ idsc'[id].kind = name_attribute[n]
      /\ \A x \in DOMAIN idsc \ {id} : idsc'[x] = idsc[x]
  BY DEF Put, Named
<1>2. CodesIn(idsc', codes_, last_code_val_)
  <2>1. ASSUME NEW i \in 1 .. Len(codes_)
        PROVE  /\ codes_[i] \in DOMAIN idsc'
               /\ \/ idsc'[codes_[i]] = CodeOfLexem(i - 1)
                  \/ /\ codes_[i] \in Range(default_names)
                     /\ idsc'[codes_[i]].kind \in Range(name_attribute)
    BY <1>1, NameKinds DEF Roles, CodesIn
  <2>2. ASSUME NEW x \in DOMAIN idsc' \ {newline_lexem_str}, idsc'[x].kind = "Code_of_lexem"
        PROVE  \E i \in 1 .. Len(codes_) : x = codes_[i]
    BY <1>1, <2>2, NameKinds DEF Roles, CodesIn
  <2> QED
    BY <2>1, <2>2 DEF Roles, CodesIn
<1>3. NamesIn(idsc', names')
  BY <1>1 DEF Roles, NamesIn
<1>4. BodiesIn(idsc', strsc)
  BY <1>1, NameKinds DEF Roles, BodiesIn
<1> QED
  BY <1>2, <1>3, <1>4 DEF Roles, table

(* The word %newline_is_lexem enters Newline if it has no role. *)
LEMMA NewlineKeepsRoles ==
    ASSUME Roles, newline_lexem_str \notin DOMAIN idsc, NEW k,
           idsc' = Put(idsc, newline_lexem_str, CodeOfLexem(k)), UNCHANGED <<strsc, table, names>>
    PROVE  Roles'
<1>1. /\ DOMAIN idsc' = DOMAIN idsc \cup {newline_lexem_str}
      /\ idsc'[newline_lexem_str].kind = "Code_of_lexem"
      /\ \A x \in DOMAIN idsc : idsc'[x] = idsc[x]
  BY DEF Put, CodeOfLexem
<1>2. CodesIn(idsc', codes_, last_code_val_)
  BY <1>1 DEF Roles, CodesIn
<1>3. NamesIn(idsc', names) /\ BodiesIn(idsc', strsc)
  BY <1>1 DEF Roles, NamesIn, BodiesIn
<1> QED
  BY <1>2, <1>3 DEF Roles, table

(* An action gets a string that nothing else has taken, and keeps it. *)
LEMMA NewActionKeepsRoles ==
    ASSUME Roles, NEW id, NEW str, AddActionDefinition(id, str), UNCHANGED <<table, names>>
    PROVE  Roles'
<1>1. CASE ActionErrors(id, str) = 1
  BY <1>1 DEF AddActionDefinition, Roles, table
<1>2. CASE ActionErrors(id, str) # 1
  <2>1. /\ id \in DOMAIN idsc => idsc[id].kind = "Action_name"
        /\ idsc' = Put(idsc, id, ActionName(str))
        /\ strsc' = Put(strsc, str, "Action_definition")
    BY <1>2 DEF AddActionDefinition, ActionErrors
  <2>2. /\ DOMAIN idsc' = DOMAIN idsc \cup {id}
        /\ idsc'[id] = ActionName(str)
        /\ \A x \in DOMAIN idsc \ {id} : idsc'[x] = idsc[x]
    BY <2>1 DEF Put
  <2>3. /\ DOMAIN strsc' = DOMAIN strsc \cup {str}
        /\ strsc'[str] = "Action_definition"
        /\ \A x \in DOMAIN strsc \ {str} : strsc'[x] = strsc[x]
    BY <2>1 DEF Put
  <2>4. BodiesIn(idsc', strsc')
    BY <2>2, <2>3 DEF Roles, BodiesIn, ActionName
  <2>5. CodesIn(idsc', codes_, last_code_val_)
    <3>1. ASSUME NEW i \in 1 .. Len(codes_), codes_[i] = id
          PROVE  FALSE
      <4>1. id \in DOMAIN idsc /\ idsc[id].kind = "Action_name"
        BY <2>1, <3>1 DEF Roles, CodesIn
      <4>2. idsc[id] # CodeOfLexem(i - 1)
        BY <4>1 DEF CodeOfLexem
      <4>3. idsc[id].kind \in Range(name_attribute)
        BY <3>1, <4>2 DEF Roles, CodesIn
      <4> QED
        BY <4>1, <4>3, NameKinds
    <3> QED
      BY <2>2, <3>1 DEF Roles, CodesIn, ActionName
  <2>6. NamesIn(idsc', names)
    BY <2>1, <2>2, NameKinds DEF Roles, NamesIn
  <2> QED
    BY <2>4, <2>5, <2>6 DEF Roles, table
<1> QED
  BY <1>1, <1>2

(* Whatever is parsed, the roles of identifiers and strings stay right. *)
LEMMA ParseKeepsRoles ==
    ASSUME Typed, Roles, Parse
    PROVE  Roles'
<1>0. ParserTypes /\ ScopeTypeOK /\ next.idx \in Nat /\ names \in [Names -> Nat]
  BY TypedParts, NextLexeme DEF ParserTypes
<1>1. CASE UNCHANGED <<scope, names>>
  BY <1>1 DEF Roles, scope
<1>2. CASE Codes /\ UNCHANGED names
  <2>1. CASE D!Code
    <3>1. AddNewLexemCode(next.idx) /\ UNCHANGED strsc
      BY <2>1, SameScope DEF D!Code
    <3>2. CASE next.idx \in DOMAIN idsc
      BY <1>2, <3>1, <3>2 DEF AddNewLexemCode, table, Roles
    <3>3. CASE next.idx \notin DOMAIN idsc
      <4>1. /\ last_code_val_' = last_code_val_ + 1
            /\ idsc' = Put(idsc, next.idx, CodeOfLexem(last_code_val_ + 1))
            /\ codes_' = Append(codes_, next.idx)
        BY <3>1, <3>3 DEF AddNewLexemCode
      <4>2. /\ CodesIn(Put(idsc, next.idx, CodeOfLexem(last_code_val_ + 1)),
                       Append(codes_, next.idx), last_code_val_ + 1)
            /\ NamesIn(Put(idsc, next.idx, CodeOfLexem(last_code_val_ + 1)), names)
            /\ BodiesIn(Put(idsc, next.idx, CodeOfLexem(last_code_val_ + 1)), strsc)
        BY <1>0, <3>3, NewCodeKeepsRoles DEF Roles
      <4>3. Roles' <=> /\ CodesIn(idsc', codes_', last_code_val_')
                       /\ NamesIn(idsc', names') /\ BodiesIn(idsc', strsc')
        BY DEF Roles
      <4> QED
        BY <1>2, <3>1, <4>1, <4>2, <4>3
    <3> QED
      BY <3>2, <3>3
  <2>2. CASE D!Newline_is_lexem
    <3>1. CASE UNCHANGED idsc
      BY <1>1, <1>2, <2>2, <3>1, SameScope DEF D!Newline_is_lexem, D!table, scope
    <3>2. CASE ~UNCHANGED idsc
      <4>1. /\ newline_lexem_str \notin DOMAIN idsc
            /\ idsc' = Put(idsc, newline_lexem_str, CodeOfLexem(last_code_val'))
            /\ UNCHANGED <<strsc, table, names>>
        BY <1>2, <2>2, <3>2, SameScope DEF D!Newline_is_lexem, D!table, table
      <4> QED
        BY <4>1, NewlineKeepsRoles
    <3> QED
      BY <3>1, <3>2
  <2>3. CASE D!Call \/ D!Separator \/ D!Return
    BY <1>1, <1>2, <2>3 DEF D!Call, D!Separator, D!Return, D!scope, scope
  <2> QED
    BY <1>2, <2>1, <2>2, <2>3 DEF Codes, D!Section
<1>3. CASE Comments /\ UNCHANGED names
  BY <1>1, <1>3 DEF Comments
<1>4. CASE Keywords /\ UNCHANGED names
  BY <1>0, <1>1, <1>4, KeywordsKeepTypes, TypedParts
<1>5. CASE Numbers /\ UNCHANGED names
  <2>1. CASE N!Step
    <3>1. /\ UNCHANGED <<table, names>>
          /\ \/ AddActionDefinition(current_action_name_idx, next.idx)
             \/ UNCHANGED <<idsc, strsc>>
      BY <1>5, <2>1, SameScope DEF N!Step, N!table, table
    <3>2. CASE UNCHANGED <<idsc, strsc>>
      BY <1>1, <3>1, <3>2 DEF table, scope
    <3>3. CASE AddActionDefinition(current_action_name_idx, next.idx)
      BY <3>1, <3>3, NewActionKeepsRoles
    <3> QED
      BY <3>1, <3>2, <3>3
  <2>2. CASE N!Call \/ N!SectionKeyword \/ N!RepeatedKeyword \/ N!WrongBeginning \/ N!Abandon
             \/ N!OpenExpression \/ N!EndOfHeader \/ N!ExpressionParsed
    <3>1. UNCHANGED scope
      BY <2>2 DEF N!Call, N!SectionKeyword, N!RepeatedKeyword, N!WrongBeginning, N!Abandon,
         N!OpenExpression, N!EndOfHeader, N!ExpressionParsed, N!fields, N!scope, scope
    <3> QED
      BY <1>1, <1>5, <3>1
  <2> QED
    BY <1>5, <2>1, <2>2 DEF Numbers, N!Section
<1>6. CASE Pair
  <2>1. CASE GivenName
    <3>1. CASE next.idx \in DOMAIN idsc
      BY <1>1, <2>1, <3>1 DEF GivenName, scope, table
    <3>2. CASE next.idx \notin DOMAIN idsc
      <4>1. /\ running \in Names
            /\ idsc' = Put(idsc, next.idx, Named(name_attribute[running]))
            /\ names' = [names EXCEPT ![running] = next.idx]
            /\ UNCHANGED <<strsc, table>>
        BY <2>1, <3>2 DEF GivenName, table
      <4> QED
        BY <1>0, <3>2, <4>1, NewNameKeepsRoles
    <3> QED
      BY <3>1, <3>2
  <2>2. CASE DefaultName
    <3>1. CASE running = "ident_name"
      BY <1>1, <2>2, <3>1 DEF DefaultName, scope, table
    <3>2. CASE running # "ident_name"
      <4>1. /\ running \in Names
            /\ idsc' = Put(idsc, default_names[running], Named(name_attribute[running]))
            /\ names' = [names EXCEPT ![running] = default_names[running]]
            /\ UNCHANGED <<strsc, table>>
        BY <2>2, <3>2 DEF DefaultName, table
      <4>2. default_names[running] \in Nat /\ default_names[running] \in Range(default_names)
        BY <3>2, <4>1, MainParserAssumption, NameKinds DEF Range
      <4> QED
        BY <1>0, <4>1, <4>2, NewNameKeepsRoles
    <3> QED
      BY <3>1, <3>2
  <2>3. CASE BeginPair \/ GivenText \/ NoText
    BY <1>1, <2>3 DEF BeginPair, GivenText, NoText
  <2> QED
    BY <1>6, <2>1, <2>2, <2>3 DEF Pair
<1>7. CASE UNCHANGED <<scope, names>>
  BY <1>1, <1>7
<1> QED
  BY <1>2, <1>3, <1>4, <1>5, <1>6, <1>7 DEF Parse

-----------------------------------------------------------------------------
(* The tables while the delimiters of comments are added to them            *)
TableRight(t) ==
    /\ Attributes(t.idsc) /\ StringKinds(t.strsc)
    /\ t.last \in Nat /\ t.del \in Seq(Nat) /\ t.errors \in Nat
    /\ CodesIn(t.idsc, t.codes, t.last)
    /\ NamesIn(t.idsc, names)
    /\ BodiesIn(t.idsc, t.strsc)

(* A mark has a code in the enumeration and is a delimiter of its own. *)
Entered(t, mark) ==
    /\ \E i \in 1 .. Len(t.codes) : t.codes[i] = fictive_codes[mark]
    /\ \E i \in 1 .. Len(t.del) : t.del[i] = marks[mark]
    /\ marks[mark] \in DOMAIN t.strsc /\ t.strsc[marks[mark]] = "Delimiter_repres"

(* A mark that is given is entered, with an error for each thing that is    *)
(* there already; what was entered before stays.                            *)
LEMMA GivenDelimiter ==
    ASSUME marks \in Marks, NEW mark \in {"single", "begin", "end"}, marks[mark] # 0,
           NEW t, TableRight(t), NEW r, r = add_fictive_delimiter(t, mark)
    PROVE  /\ TableRight(r)
           /\ DOMAIN r.idsc = DOMAIN t.idsc \cup {fictive_codes[mark]}
           /\ DOMAIN r.strsc = DOMAIN t.strsc \cup {marks[mark]}
           /\ r.errors = t.errors <=> /\ fictive_codes[mark] \notin DOMAIN t.idsc
                                      /\ marks[mark] \notin DOMAIN t.strsc
           /\ r.errors >= t.errors
           /\ r.errors = t.errors => Entered(r, mark)
           /\ \A k \in {"single", "begin", "end"} : Entered(t, k) => Entered(r, k)
<1> DEFINE d == fictive_codes[mark]
           s == marks[mark]
           new_code == d \notin DOMAIN t.idsc
           new_string == s \notin DOMAIN t.strsc
<1>1. d \in Nat /\ s \in Nat
  BY MainParserAssumption DEF Marks
<1>2. /\ r.idsc = IF new_code THEN Put(t.idsc, d, CodeOfLexem(t.last + 1)) ELSE t.idsc
      /\ r.codes = IF new_code THEN Append(t.codes, d) ELSE t.codes
      /\ r.last = IF new_code THEN t.last + 1 ELSE t.last
      /\ r.strsc = IF new_string THEN Put(t.strsc, s, "Delimiter_repres") ELSE t.strsc
      /\ r.del = IF new_string THEN Append(t.del, s) ELSE t.del
      /\ r.errors = t.errors + (IF new_code THEN 0 ELSE 1) + (IF new_string THEN 0 ELSE 1)
  BY DEF add_fictive_delimiter
<1> HIDE DEF d, s
<1>3. /\ Attributes(r.idsc) /\ r.last \in Nat
      /\ CodesIn(r.idsc, r.codes, r.last) /\ NamesIn(r.idsc, names)
      /\ BodiesIn(r.idsc, t.strsc)
      /\ DOMAIN r.idsc = DOMAIN t.idsc \cup {d}
  <2>1. CASE ~new_code
    BY <1>2, <2>1 DEF TableRight
  <2>2. CASE new_code
    <3>1. /\ r.idsc = Put(t.idsc, d, CodeOfLexem(t.last + 1))
          /\ r.codes = Append(t.codes, d) /\ r.last = t.last + 1
      BY <1>2, <2>2
    <3>2. t.last + 1 \in Nat /\ CodeOfLexem(t.last + 1) \in [kind : Id_kind, value : Nat]
      <4>1. t.last + 1 \in Nat
        BY DEF TableRight
      <4> QED
        BY <4>1, AttributeTypes
    <3>3. Attributes(r.idsc)
      <4>1. Attributes(t.idsc)
        BY DEF TableRight
      <4>2. Attributes(Put(t.idsc, d, CodeOfLexem(t.last + 1)))
        BY <1>1, <3>2, <4>1, PutAttribute
      <4> QED
        BY <3>1, <4>2
    <3>4. /\ CodesIn(r.idsc, r.codes, r.last) /\ NamesIn(r.idsc, names)
          /\ BodiesIn(r.idsc, t.strsc)
      <4>1. /\ CodesIn(t.idsc, t.codes, t.last) /\ NamesIn(t.idsc, names)
            /\ BodiesIn(t.idsc, t.strsc)
        BY DEF TableRight
      <4>2. /\ CodesIn(Put(t.idsc, d, CodeOfLexem(t.last + 1)), Append(t.codes, d), t.last + 1)
            /\ NamesIn(Put(t.idsc, d, CodeOfLexem(t.last + 1)), names)
            /\ BodiesIn(Put(t.idsc, d, CodeOfLexem(t.last + 1)), t.strsc)
        BY <1>1, <2>2, <4>1, NewCodeKeepsRoles
      <4> QED
        BY <3>1, <4>2
    <3>5. DOMAIN r.idsc = DOMAIN t.idsc \cup {d}
      BY <3>1 DEF Put
    <3> QED
      BY <3>1, <3>2, <3>3, <3>4, <3>5
  <2> QED
    BY <2>1, <2>2
<1>4. /\ StringKinds(r.strsc) /\ DOMAIN r.strsc = DOMAIN t.strsc \cup {s}
      /\ \A x \in DOMAIN t.strsc : r.strsc[x] = t.strsc[x]
      /\ new_string => r.strsc[s] = "Delimiter_repres"
  BY <1>2 DEF TableRight, StringKinds, Put
<1>5. BodiesIn(r.idsc, r.strsc)
  BY <1>3, <1>4 DEF BodiesIn
<1>6. r.errors \in Nat /\ r.del \in Seq(Nat)
  BY <1>1, <1>2 DEF TableRight
<1>7. TableRight(r)
  BY <1>1, <1>3, <1>4, <1>5, <1>6 DEF TableRight
<1>8. /\ r.errors >= t.errors
      /\ r.errors = t.errors <=> new_code /\ new_string
  BY <1>2 DEF TableRight
<1>9. /\ t.codes \in Seq(Nat) /\ t.del \in Seq(Nat)
      /\ \A i \in 1 .. Len(t.codes) : i \in 1 .. Len(r.codes) /\ r.codes[i] = t.codes[i]
      /\ \A i \in 1 .. Len(t.del) : i \in 1 .. Len(r.del) /\ r.del[i] = t.del[i]
  BY <1>1, <1>2 DEF TableRight, CodesIn
<1>10. new_code => \E i \in 1 .. Len(r.codes) : r.codes[i] = d
  BY <1>1, <1>2, <1>9
<1>11. new_string => \E i \in 1 .. Len(r.del) : r.del[i] = s
  BY <1>1, <1>2, <1>9
<1>12. ASSUME NEW k \in {"single", "begin", "end"}, Entered(t, k)
       PROVE  Entered(r, k)
  <2>1. \E i \in 1 .. Len(r.codes) : r.codes[i] = fictive_codes[k]
    BY <1>9, <1>12 DEF Entered
  <2>2. \E i \in 1 .. Len(r.del) : r.del[i] = marks[k]
    BY <1>9, <1>12 DEF Entered
  <2> QED
    BY <1>4, <1>12, <2>1, <2>2 DEF Entered
<1>13. new_code /\ new_string => Entered(r, mark)
  BY <1>4, <1>10, <1>11 DEF Entered, d, s
<1> QED
  BY <1>3, <1>4, <1>7, <1>8, <1>12, <1>13 DEF d, s


(* What adding any mark, given or not, does *)
Adds(t, mark, r) ==
    /\ TableRight(r)
    /\ \A id : id \in DOMAIN r.idsc <=>
           id \in DOMAIN t.idsc \/ (marks[mark] # 0 /\ id = fictive_codes[mark])
    /\ \A str : str \in DOMAIN r.strsc <=>
           str \in DOMAIN t.strsc \/ (marks[mark] # 0 /\ str = marks[mark])
    /\ r.errors = t.errors <=> \/ marks[mark] = 0
                               \/ /\ fictive_codes[mark] \notin DOMAIN t.idsc
                                  /\ marks[mark] \notin DOMAIN t.strsc
    /\ r.errors >= t.errors
    /\ r.errors = t.errors /\ marks[mark] # 0 => Entered(r, mark)
    /\ \A k \in {"single", "begin", "end"} : Entered(t, k) => Entered(r, k)

(* Adding a delimiter that was given or not does just that. *)
LEMMA FictiveDelimiter ==
    ASSUME marks \in Marks, NEW mark \in {"single", "begin", "end"}, NEW t, TableRight(t)
    PROVE  Adds(t, mark, add_fictive_delimiter(t, mark))
<1>1. CASE marks[mark] = 0
  <2>1. add_fictive_delimiter(t, mark) = t
    BY <1>1 DEF add_fictive_delimiter
  <2>2. t.errors >= t.errors
    BY DEF TableRight
  <2>3. Adds(t, mark, t)
    BY <1>1, <2>2 DEF Adds
  <2> QED
    BY <2>1, <2>3
<1>2. CASE marks[mark] # 0
  <2> DEFINE r == add_fictive_delimiter(t, mark)
  <2>1. /\ TableRight(r)
        /\ DOMAIN r.idsc = DOMAIN t.idsc \cup {fictive_codes[mark]}
        /\ DOMAIN r.strsc = DOMAIN t.strsc \cup {marks[mark]}
        /\ r.errors = t.errors <=> /\ fictive_codes[mark] \notin DOMAIN t.idsc
                                   /\ marks[mark] \notin DOMAIN t.strsc
        /\ r.errors >= t.errors
        /\ r.errors = t.errors => Entered(r, mark)
        /\ \A k \in {"single", "begin", "end"} : Entered(t, k) => Entered(r, k)
    BY <1>2, GivenDelimiter
  <2> HIDE DEF r
  <2>2. Adds(t, mark, r)
    BY <1>2, <2>1 DEF Adds
  <2> QED
    BY <2>2 DEF r
<1> QED
  BY <1>1, <1>2

(* The delimiters of comments are all entered, or some error is found, and  *)
(* an error is found exactly if there is a clash.                           *)
LEMMA FictiveDelimiters ==
    ASSUME Typed, Roles, NEW t, t = add_fictive_delimiters
    PROVE  /\ TableRight(t)
           /\ t.errors > 0 <=> Clash
           /\ t.errors = 0 /\ "Comment_aut" \in set_of_used_automata =>
                \A m \in {"single", "begin", "end"} : marks[m] # 0 => Entered(t, m)
<1> DEFINE none == [idsc |-> idsc, codes |-> codes_, last |-> last_code_val_,
                    strsc |-> strsc, del |-> del_repres_, errors |-> 0]
           single == add_fictive_delimiter(none, "single")
           begin == add_fictive_delimiter(single, "begin")
           end == add_fictive_delimiter(begin, "end")
<1>1. marks \in Marks /\ ScopeTypeOK /\ del_repres_ \in Seq(Nat)
  BY TypedParts
<1>2. TableRight(none) /\ none.errors = 0
  <2>1. Attributes(idsc) /\ StringKinds(strsc) /\ last_code_val_ \in Nat
    BY <1>1, ScopeTypeParts
  <2> QED
    BY <1>1, <2>1 DEF TableRight, Roles
<1>3. CASE "Comment_aut" \notin set_of_used_automata
  <2>1. t = none
    BY <1>3 DEF add_fictive_delimiters
  <2> QED
    BY <1>2, <1>3, <2>1 DEF Clash
<1>4. CASE "Comment_aut" \in set_of_used_automata
  <2>1. t = end
    BY <1>4 DEF add_fictive_delimiters
  <2>2. DOMAIN none.idsc = DOMAIN idsc /\ DOMAIN none.strsc = DOMAIN strsc
    OBVIOUS
  <2> HIDE DEF none
  <2>3. Adds(none, "single", single)
    BY <1>1, <1>2, FictiveDelimiter
  <2> HIDE DEF single
  <2>4. Adds(single, "begin", begin)
    BY <1>1, <2>3, FictiveDelimiter DEF Adds
  <2> HIDE DEF begin
  <2>5. Adds(begin, "end", end)
    BY <1>1, <2>4, FictiveDelimiter DEF Adds
  <2> HIDE DEF end
  <2>6. /\ none.errors \in Nat /\ single.errors \in Nat
        /\ begin.errors \in Nat /\ end.errors \in Nat
    BY <1>2, <2>3, <2>4, <2>5 DEF Adds, TableRight
  <2>7. end.errors = 0 <=> /\ end.errors = begin.errors /\ begin.errors = single.errors
                           /\ single.errors = none.errors
    BY <1>2, <2>3, <2>4, <2>5, <2>6 DEF Adds
  <2>8. end.errors = 0 => \A m \in {"single", "begin", "end"} : marks[m] # 0 => Entered(end, m)
    BY <2>3, <2>4, <2>5, <2>7 DEF Adds
  <2>9. end.errors = 0 <=> ~Clash
    <3>1. DOMAIN fictive_codes = {"single", "begin", "end"}
      BY MainParserAssumption
    <3>2. \A m, k \in {"single", "begin", "end"} : m # k => fictive_codes[m] # fictive_codes[k]
      BY <3>1, MainParserAssumption
    <3>3. single.errors = none.errors <=>
            \/ marks["single"] = 0
            \/ /\ fictive_codes["single"] \notin DOMAIN idsc
               /\ marks["single"] \notin DOMAIN strsc
      BY <2>2, <2>3 DEF Adds
    <3>4. begin.errors = single.errors <=>
            \/ marks["begin"] = 0
            \/ /\ fictive_codes["begin"] \notin DOMAIN idsc
               /\ marks["begin"] \notin DOMAIN strsc
               /\ marks["single"] # 0 => marks["begin"] # marks["single"]
      <4>1. fictive_codes["begin"] \in DOMAIN single.idsc <=> fictive_codes["begin"] \in DOMAIN idsc
        BY <2>2, <2>3, <3>2 DEF Adds
      <4>2. marks["begin"] \in DOMAIN single.strsc <=>
              marks["begin"] \in DOMAIN strsc \/ (marks["single"] # 0 /\ marks["begin"] = marks["single"])
        BY <2>2, <2>3 DEF Adds
      <4> QED
        BY <2>4, <4>1, <4>2 DEF Adds
    <3>5. end.errors = begin.errors <=>
            \/ marks["end"] = 0
            \/ /\ fictive_codes["end"] \notin DOMAIN idsc
               /\ marks["end"] \notin DOMAIN strsc
               /\ marks["single"] # 0 => marks["end"] # marks["single"]
               /\ marks["begin"] # 0 => marks["end"] # marks["begin"]
      <4>1. fictive_codes["end"] \in DOMAIN begin.idsc <=> fictive_codes["end"] \in DOMAIN idsc
        <5>1. fictive_codes["end"] \in DOMAIN single.idsc <=> fictive_codes["end"] \in DOMAIN idsc
          BY <2>2, <2>3, <3>2 DEF Adds
        <5> QED
          BY <2>4, <3>2, <5>1 DEF Adds
      <4>2. marks["end"] \in DOMAIN begin.strsc <=>
              \/ marks["end"] \in DOMAIN strsc
              \/ marks["single"] # 0 /\ marks["end"] = marks["single"]
              \/ marks["begin"] # 0 /\ marks["end"] = marks["begin"]
        <5>1. marks["end"] \in DOMAIN single.strsc <=>
                marks["end"] \in DOMAIN strsc \/ (marks["single"] # 0 /\ marks["end"] = marks["single"])
          BY <2>2, <2>3 DEF Adds
        <5> QED
          BY <2>4, <5>1 DEF Adds
      <4> QED
        BY <2>5, <4>1, <4>2 DEF Adds
    <3>6. Clash <=> \E m \in {"single", "begin", "end"} :
                       /\ marks[m] # 0
                       /\ \/ marks[m] \in DOMAIN strsc
                          \/ fictive_codes[m] \in DOMAIN idsc
                          \/ \E k \in {"single", "begin", "end"} :
                                k # m /\ marks[k] # 0 /\ marks[k] = marks[m]
      BY <1>4, <3>1 DEF Clash
    <3> QED
      BY <2>7, <3>3, <3>4, <3>5, <3>6
  <2> QED
    BY <1>4, <2>1, <2>5, <2>6, <2>8, <2>9 DEF Adds
<1> QED
  BY <1>3, <1>4

-----------------------------------------------------------------------------
(* What each phase knows of the errors.  Of a generated scanner without     *)
(* errors all the delimiters of comments are there.                         *)
Complete ==
    "Comment_aut" \in set_of_used_automata =>
        \A m \in {"single", "begin", "end"} : marks[m] # 0 =>
            Entered([codes |-> codes_, del |-> del_repres_, strsc |-> strsc], m)

Phases ==
    /\ phase = "verified" => errors = 0
    /\ phase = "refused" => errors > 0
    /\ exit_code # "none" => phase \in {"refused", "generated"}
    /\ exit_code = "Success" => phase = "generated" /\ errors = 0
    /\ phase = "generated" /\ errors = 0 => Complete

MainInv == Typed /\ Roles /\ Phases

(* The program begins with the invariant. *)
LEMMA InitInv == Init => MainInv
<1> SUFFICES ASSUME Init PROVE MainInv
  OBVIOUS
<1>1. Typed
  BY InitTypes
<1>2. DOMAIN idsc = {none_string, unknown_string, write_act_name}
  BY DEF Init, ScopeInit
<1>3. /\ idsc[none_string] = CodeOfLexem(0)
      /\ idsc[unknown_string] = CodeOfLexem(1)
      /\ idsc[write_act_name] = ActionName(write_act_body)
  BY ScopeAssumption DEF Init, ScopeInit
<1>4. /\ codes_ = <<none_string, unknown_string>> /\ last_code_val_ = 1
      /\ codes_ \in Seq(Nat) /\ Len(codes_) = 2
      /\ codes_[1] = none_string /\ codes_[2] = unknown_string
  BY ScopeAssumption DEF Init, ScopeInit
<1>5. CodesIn(idsc, codes_, last_code_val_)
  <2>1. \A i \in 1 .. Len(codes_) : i = 1 \/ i = 2
    BY <1>4
  <2>2. \A id \in DOMAIN idsc : idsc[id].kind = "Code_of_lexem" =>
          \E i \in 1 .. Len(codes_) : id = codes_[i]
    BY <1>2, <1>3, <1>4 DEF ActionName
  <2>3. \A i \in 1 .. Len(codes_) : /\ codes_[i] \in DOMAIN idsc
                                    /\ idsc[codes_[i]] = CodeOfLexem(i - 1)
    BY <1>2, <1>3, <1>4, <2>1
  <2>4. \A i, j \in 1 .. Len(codes_) : codes_[i] = codes_[j] => i = j
    BY <1>4, <2>1, ScopeAssumption
  <2> QED
    BY <1>4, <2>2, <2>3, <2>4 DEF CodesIn
<1>6. NamesIn(idsc, names)
  BY DEF Init, NamesIn
<1>7. BodiesIn(idsc, strsc)
  BY <1>2, <1>3 DEF Init, ScopeInit, BodiesIn, CodeOfLexem, ActionName
<1>8. Phases
  BY DEF Init, Phases
<1> QED
  BY <1>1, <1>5, <1>6, <1>7, <1>8 DEF MainInv, Roles

(* Each step of the program keeps the invariant. *)
LEMMA NextKeepsInv ==
    ASSUME MainInv, [Next]_mvars
    PROVE  MainInv'
<1> USE DEF MainInv
<1>0. errors \in 0 .. ErrorCap
  BY TypedParts DEF ParserTypes, SourceTypeOK
<1>1. CASE Parse
  <2>1. phase = "parse" /\ phase' = "parse" /\ exit_code' = exit_code
    BY <1>1 DEF Parse
  <2>2. Phases'
    BY <2>1 DEF Phases
  <2> QED
    BY <1>1, <2>2, ParseKeepsTypes, ParseKeepsRoles
<1>2. ASSUME UNCHANGED unparsed, errors' \in 0 .. ErrorCap,
             phase' \in {"refused", "crashed", "verified"}
      PROVE  Typed' /\ Roles'
  <2>1. SourceTypeOK' /\ ScopeTypeOK'
    BY <1>2, TypedParts DEF unparsed, source, scope, ParserTypes, SourceTypeOK, ScopeTypeOK
  <2>2. TypeOK'
    BY <1>2, <2>1 DEF unparsed, keyword_vars, number_vars, codes_vars, data, Typed, TypeOK
  <2>3. StateOfParser'
    BY <1>2 DEF unparsed, Typed, StateOfParser
  <2>4. Roles'
    BY <1>2 DEF unparsed, scope, data, Roles
  <2> QED
    BY <2>2, <2>3, <2>4 DEF Typed
<1>3. CASE Refuse
  <2>1. /\ phase = "parse" /\ phase' = "refused" /\ UNCHANGED <<unparsed, exit_code>>
        /\ errors' > 0 /\ errors' \in 0 .. ErrorCap
    BY <1>0, <1>3, ErrorCapAssumption DEF Refuse, Checkable, Parsed, Report, unparsed, data
  <2>2. Typed' /\ Roles'
    BY <1>2, <2>1
  <2>3. Phases'
    BY <2>1 DEF Phases
  <2> QED
    BY <2>2, <2>3
<1>4. CASE Crash \/ Verify
  <2>1. /\ phase = "parse" /\ phase' \in {"crashed", "verified"}
        /\ UNCHANGED <<unparsed, exit_code>>
        /\ errors = 0 /\ errors' = errors
    BY <1>4 DEF Crash, Verify, Checkable, Parsed, unparsed, data
  <2>2. Typed' /\ Roles'
    BY <1>0, <1>2, <2>1
  <2>3. Phases'
    BY <2>1 DEF Phases
  <2> QED
    BY <2>2, <2>3
<1>5. CASE Generate
  <2> DEFINE t == add_fictive_delimiters
  <2>1. /\ phase = "verified" /\ phase' = "generated"
        /\ idsc' = t.idsc /\ codes_' = t.codes /\ last_code_val_' = t.last
        /\ strsc' = t.strsc /\ del_repres_' = t.del
        /\ errors' = IF errors + t.errors > ErrorCap THEN ErrorCap ELSE errors + t.errors
        /\ UNCHANGED <<source, running, state, marks, keyword_vars, number_vars, codes_vars,
                       sections, names, texts, indeterminate, exit_code>>
    BY <1>5 DEF Generate, Report
  <2>2. /\ TableRight(t)
        /\ t.errors = 0 /\ "Comment_aut" \in set_of_used_automata =>
             \A m \in {"single", "begin", "end"} : marks[m] # 0 => Entered(t, m)
    BY FictiveDelimiters
  <2> HIDE DEF t
  <2>3. errors = 0 /\ exit_code = "none"
    BY <2>1 DEF Phases
  <2>4. errors' \in 0 .. ErrorCap /\ (errors' = 0 => t.errors = 0)
    BY <2>1, <2>2, <2>3, ErrorCapAssumption DEF TableRight
  <2>5. ScopeTypeOK'
    BY <2>1, <2>2 DEF TableRight, CodesIn, Attributes, StringKinds, ScopeTypeOK
  <2>6. Typed'
    BY <2>1, <2>2, <2>4, <2>5, TypedParts DEF TableRight, Typed, TypeOK, SourceTypeOK,
       StateOfParser, source, keyword_vars, number_vars, codes_vars
  <2>7. Roles'
    BY <2>1, <2>2 DEF TableRight, Roles, NamesIn
  <2>8. errors' = 0 => Complete'
    BY <2>1, <2>2, <2>4 DEF Complete, Entered, set_of_used_automata
  <2>9. Phases'
    BY <2>1, <2>3, <2>8 DEF Phases
  <2> QED
    BY <2>6, <2>7, <2>9
<1>6. CASE Exit
  <2>1. /\ phase \in {"refused", "generated"} /\ phase' = phase /\ errors' = errors
        /\ exit_code' \in {"There_are_syntax_errors", "Success", "Failed_moving_cpps",
                           "Failed_moving_hs"}
        /\ exit_code' = "Success" => errors = 0
        /\ UNCHANGED <<source, scope, running, state, marks, keyword_vars, number_vars,
                       codes_vars, sections, names, texts, indeterminate, del_repres_>>
    BY <1>0, <1>6 DEF Exit
  <2>2. Typed'
    <3>1. SourceTypeOK' /\ ScopeTypeOK' /\ StateOfParser'
      BY <2>1 DEF source, scope, Typed, TypeOK, SourceTypeOK, ScopeTypeOK, StateOfParser
    <3> QED
      BY <2>1, <3>1 DEF keyword_vars, number_vars, codes_vars, Typed, TypeOK
  <2>3. Roles'
    BY <2>1 DEF scope, Roles
  <2>4. Complete' <=> Complete
    BY <2>1 DEF Complete, Entered, set_of_used_automata, scope
  <2>5. Phases'
    BY <1>0, <2>1, <2>4 DEF Phases
  <2> QED
    BY <2>2, <2>3, <2>5
<1>7. CASE UNCHANGED mvars
  <2> USE <1>7 DEF mvars, scope, keyword_vars, number_vars, codes_vars, data
  <2>1. Typed'
    <3>1. SourceTypeOK' /\ ScopeTypeOK' /\ StateOfParser'
      BY DEF source, Typed, TypeOK, SourceTypeOK, ScopeTypeOK, StateOfParser
    <3> QED
      BY <3>1 DEF Typed, TypeOK
  <2>2. Roles'
    BY DEF Roles
  <2>3. Phases'
    BY DEF Phases, Complete, Entered, set_of_used_automata
  <2> QED
    BY <2>1, <2>2, <2>3
<1> QED
  BY <1>1, <1>3, <1>4, <1>5, <1>6, <1>7 DEF Next, Main, Finished

-----------------------------------------------------------------------------
(* The invariant holds in every state of every run. *)
THEOREM MainInvariant == Spec => []MainInv
<1>1. Init => MainInv
  BY InitInv
<1>2. MainInv /\ [Next]_mvars => MainInv'
  BY NextKeepsInv
<1> QED
  BY <1>1, <1>2, PTL DEF Spec

(* Roles never mix: whatever sections come in whatever order, the           *)
(* enumeration of codes and the scope agree, and a name given in the text   *)
(* stays a name of its kind (name_section_handling, codes_sec,              *)
(* add_action_definition and add_fictive_delimiter look a word up first).   *)
THEOREM RolesStayRight == Spec => []RolesRight
<1>1. MainInv => RolesRight
  BY RolesMean DEF MainInv, Typed, RolesRight
<1> QED
  BY <1>1, MainInvariant, PTL

(* Every action keeps a body that nothing else has taken. *)
THEOREM ActionsKeepBodies == Spec => []ActionsHaveBodies
<1>1. MainInv => ActionsHaveBodies
  BY RolesMean DEF MainInv
<1> QED
  BY <1>1, MainInvariant, PTL

(* Success is reported only of a scanner that was generated with every      *)
(* delimiter of comments in it.                                             *)
THEOREM SuccessMeansComplete == Spec => []SuccessIsComplete
<1>1. ASSUME MainInv, exit_code = "Success", "Comment_aut" \in set_of_used_automata,
             NEW m \in DOMAIN fictive_codes, marks[m] # 0
      PROVE  /\ fictive_codes[m] \in Range(codes_)
             /\ marks[m] \in Range(del_repres_)
             /\ strsc[marks[m]] = "Delimiter_repres"
  <2>1. m \in {"single", "begin", "end"}
    BY MainParserAssumption
  <2>2. Entered([codes |-> codes_, del |-> del_repres_, strsc |-> strsc], m)
    BY <1>1, <2>1 DEF MainInv, Phases, Complete
  <2>3. codes_ \in Seq(Nat) /\ del_repres_ \in Seq(Nat)
    BY <1>1, TypedParts DEF MainInv, ScopeTypeOK
  <2> QED
    BY <2>2, <2>3 DEF Entered, Range
<1>2. MainInv => SuccessIsComplete
  BY <1>1 DEF SuccessIsComplete, MainInv, Phases
<1> QED
  BY <1>2, MainInvariant, PTL

(* After verify() an error is found exactly if the delimiters of comments   *)
(* clash: nothing else can fail any more, and no clash goes unnoticed.      *)
THEOREM ClashesAreFound == Spec => ClashesFound
<1>1. ASSUME MainInv, [Next]_mvars, phase = "verified", phase' = "generated"
      PROVE  errors' > 0 <=> Clash
  <2>1. Generate
    BY <1>1 DEF Next, Main, Finished, Parse, Refuse, Crash, Verify, Checkable, Parsed, Exit,
                mvars
  <2>2. errors = 0
    BY <1>1 DEF MainInv, Phases
  <2> DEFINE t == add_fictive_delimiters
  <2>3. errors' = IF errors + t.errors > ErrorCap THEN ErrorCap ELSE errors + t.errors
    BY <2>1 DEF Generate, Report
  <2>4. TableRight(t) /\ (t.errors > 0 <=> Clash)
    BY <1>1, FictiveDelimiters DEF MainInv
  <2> HIDE DEF t
  <2> QED
    BY <2>2, <2>3, <2>4, ErrorCapAssumption DEF TableRight
<1>2. MainInv /\ [Next]_mvars =>
        [phase = "verified" /\ phase' = "generated" => (errors' > 0 <=> Clash)]_mvars
  BY <1>1
<1> QED
  BY <1>2, MainInvariant, PTL DEF Spec, ClashesFound
=============================================================================
