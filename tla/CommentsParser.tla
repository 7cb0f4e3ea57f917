--------------------------- MODULE CommentsParser ---------------------------
(***************************************************************************)
(* src/comments_parser.cpp: the section %comments, parsed by a finite      *)
(* automaton with error recovery.  One step reads one lexeme.              *)
(***************************************************************************)
EXTENDS SectionHistory, SequencesExt

VARIABLES running,   \* the parser whose loop is running: "main" or a section
          state,     \* the state of the automaton of the running section
          marks      \* mark_of_single_lined ... multilined_is_nested

cvars == <<next, left, errors, running, state, marks, path, failed>>

States == {"Comments_kw", "Single_or_multiLined", "Single_lined", "Multilined",
           "Single_lined_mark", "Multi_lined_begin", "Nested", "Beg_end_delim",
           "Multilined_end"}

NoMarks == [single |-> 0, begin |-> 0, end |-> 0, nested |-> FALSE]

-----------------------------------------------------------------------------
(* The procedures of the states: the lexemes after which the section goes   *)
(* on, the state they lead to, and the errors reported on the way.          *)
Go(s) == [to |-> s, errors |-> 0]
Err(s) == [to |-> s, errors |-> 1]

comments_kw_proc ==
    [Kw_comments     |-> Go("Single_or_multiLined"),
     Kw_single_lined |-> Err("Single_lined"),
     String          |-> Err("Single_lined_mark"),
     Kw_multilined   |-> Err("Multilined"),
     Kw_nested       |-> Err("Nested"),
     Colon           |-> Err("Beg_end_delim")]

(* Mutant: a comment may begin with the word %nested. *)
nested_without_multilined ==
    [Kw_comments     |-> Err("Single_or_multiLined"),
     Kw_single_lined |-> Go("Single_lined"),
     String          |-> Err("Single_lined_mark"),
     Kw_multilined   |-> Go("Multilined"),
     Kw_nested       |-> Go("Nested"),
     Colon           |-> Err("Beg_end_delim")]

single_or_multilined_proc ==
    [Kw_comments     |-> Err("Single_or_multiLined"),
     Kw_single_lined |-> Go("Single_lined"),
     String          |-> Err("Single_lined_mark"),
     Kw_multilined   |-> Go("Multilined"),
     Kw_nested       |-> Err("Nested"),
     Colon           |-> Err("Beg_end_delim")]

single_lined_proc ==
    [Kw_comments     |-> Err("Single_lined"),
     Kw_single_lined |-> Err("Single_lined"),
     String          |-> Go("Single_lined_mark"),
     Kw_multilined   |-> Err("Multilined"),
     Kw_nested       |-> Err("Nested"),
     Colon           |-> Err("Beg_end_delim")]

multilined_proc ==
    [Kw_comments     |-> Err("Multilined"),
     Kw_single_lined |-> Err("Multilined"),
     String          |-> Go("Multi_lined_begin"),
     Kw_multilined   |-> Err("Multilined"),
     Kw_nested       |-> Go("Nested"),
     Colon           |-> Err("Beg_end_delim")]

(* Mutant: a single-line comment is the whole section. *)
single_only_proc ==
    [Kw_comments     |-> Err("Single_lined_mark"),
     Kw_single_lined |-> Err("Single_lined_mark"),
     String          |-> Err("Multi_lined_begin"),
     Kw_multilined   |-> Err("Multilined"),
     Kw_nested       |-> Err("Nested"),
     Colon           |-> Err("Beg_end_delim")]

single_lined_mark_proc ==
    [Kw_comments     |-> Err("Single_lined_mark"),
     Kw_single_lined |-> Err("Single_lined_mark"),
     String          |-> Err("Multi_lined_begin"),
     Kw_multilined   |-> Go("Multilined"),
     Kw_nested       |-> Err("Nested"),
     Colon           |-> Err("Beg_end_delim")]

multi_lined_begin_proc ==
    [Kw_comments     |-> Err("Multi_lined_begin"),
     Kw_single_lined |-> Err("Multi_lined_begin"),
     String          |-> Err("Multilined_end"),
     Kw_multilined   |-> Err("Multi_lined_begin"),
     Kw_nested       |-> Err("Multi_lined_begin"),
     Colon           |-> Go("Beg_end_delim")]

nested_proc ==
    [Kw_comments     |-> Err("Nested"),
     Kw_single_lined |-> Err("Nested"),
     String          |-> Go("Multi_lined_begin"),
     Kw_multilined   |-> Err("Nested"),
     Kw_nested       |-> Err("Nested"),
     Colon           |-> Err("Beg_end_delim")]

beg_end_delim_proc ==
    [Kw_comments     |-> Err("Beg_end_delim"),
     Kw_single_lined |-> Err("Beg_end_delim"),
     String          |-> Go("Multilined_end"),
     Kw_multilined   |-> Err("Beg_end_delim"),
     Kw_nested       |-> Err("Beg_end_delim"),
     Colon           |-> Err("Beg_end_delim")]

(* After the end delimiter every lexeme belongs to the next section. *)
multilined_end_proc == <<>>

procs ==
    [Comments_kw          |-> comments_kw_proc,
     Single_or_multiLined |-> single_or_multilined_proc,
     Single_lined         |-> single_lined_proc,
     Multilined           |-> multilined_proc,
     Single_lined_mark    |-> single_lined_mark_proc,
     Multi_lined_begin    |-> multi_lined_begin_proc,
     Nested               |-> nested_proc,
     Beg_end_delim        |-> beg_end_delim_proc,
     Multilined_end       |-> multilined_end_proc]

-----------------------------------------------------------------------------
(* The case labels of parse() that lead to this parser. *)
Starters == {"Kw_comments", "Kw_nested", "Kw_multilined", "Kw_single_lined"}

(* compile(): the marks of an earlier section are forgotten. *)
Call ==
    /\ running = "main"
    /\ next.code \in Starters
    /\ running' = "comments"
    /\ state' = "Comments_kw"
    /\ marks' = NoMarks
    /\ Forget
    /\ UNCHANGED <<source, errors>>

(* Where a string or the word %nested is remembered; the state says which   *)
(* of the three marks the string is.                                        *)
Remember(to) ==
    IF next.code = "Kw_nested" /\ to = "Nested" THEN [marks EXCEPT !.nested = TRUE]
    ELSE IF next.code # "String" THEN marks
    ELSE CASE to = "Single_lined_mark" -> [marks EXCEPT !.single = next.idx]
           [] to = "Multi_lined_begin" -> [marks EXCEPT !.begin = next.idx]
           [] to = "Multilined_end"    -> [marks EXCEPT !.end = next.idx]

Step ==
    /\ running = "comments"
    /\ next.code \in DOMAIN procs[state]
    /\ LET move == procs[state][next.code]
       IN  /\ state' = move.to
           /\ marks' = Remember(move.to)
           /\ Take(move.errors)
           /\ Record(move.errors)
    /\ UNCHANGED running

(* The lexeme does not continue the section: it is given back to parse().   *)
(* Every state but the last takes it for an error.                          *)
Unexpected ==
    /\ running = "comments"
    /\ next # EndOfText
    /\ next.code \notin DOMAIN procs[state]
    /\ LET n == IF state = "Multilined_end" THEN 0 ELSE 1
       IN  GiveBack(n) /\ Blame(n)
    /\ running' = "main"
    /\ UNCHANGED <<state, marks>>

(* The end of the text is the end of the section. *)
EndOfSection ==
    /\ running = "comments"
    /\ next = EndOfText
    /\ LET n == IF state \in {"Single_lined_mark", "Multilined_end"} THEN 0 ELSE 1
       IN  Report(n) /\ Blame(n)
    /\ running' = "main"
    /\ UNCHANGED <<source, state, marks>>

Section == Step \/ Unexpected \/ EndOfSection
-----------------------------------------------------------------------------
(* The rest of the program: the loop of parse(), which hands the lexemes    *)
(* that do not begin a section %comments to other parsers.                  *)
OtherSections ==
    /\ running = "main"
    /\ next # EndOfText
    /\ next.code \notin Starters
    /\ \E n \in 0 .. 1 : Take(n)
    /\ UNCHANGED <<running, state, marks>>
    /\ SameHistory

Finished == running = "main" /\ next = EndOfText /\ UNCHANGED cvars

Init ==
    /\ SourceInit
    /\ running = "main"
    /\ state = "Comments_kw"
    /\ marks = NoMarks
    /\ path = <<>>
    /\ failed = FALSE

Next == Call \/ Section \/ OtherSections \/ Finished

Spec == Init /\ [][Next]_cvars

(* compile_() loops until it returns. *)
FairSpec == Spec /\ WF_cvars(Section)

-----------------------------------------------------------------------------
TypeOK ==
    /\ SourceTypeOK
    /\ running \in {"main", "comments"}
    /\ state \in States
    /\ marks \in [single : Nat, begin : Nat, end : Nat, nested : BOOLEAN]
    /\ HistoryTypeOK

(* The words of the regular expression a((bc)?(de?cfc)|bc) of               *)
(* include/comments_parser.h.                                               *)
Documented ==
    {<<"Kw_comments", "Kw_single_lined", "String">>,
     <<"Kw_comments", "Kw_multilined", "String", "Colon", "String">>,
     <<"Kw_comments", "Kw_multilined", "Kw_nested", "String", "Colon", "String">>,
     <<"Kw_comments", "Kw_single_lined", "String", "Kw_multilined", "String", "Colon", "String">>,
     <<"Kw_comments", "Kw_single_lined", "String", "Kw_multilined", "Kw_nested", "String",
       "Colon", "String">>}

Codes(p) == [k \in DOMAIN p |-> p[k].code]

(* What such a section says: the string after %single_lined, the strings on *)
(* both sides of the colon, and whether the word %nested is there.          *)
MarksOf(p) ==
    LET idx(code, shift) ==
            IF \E k \in DOMAIN p : p[k].code = code
            THEN p[(CHOOSE k \in DOMAIN p : p[k].code = code) + shift].idx
            ELSE 0
    IN  [single |-> idx("Kw_single_lined", 1), begin |-> idx("Colon", -1),
         end |-> idx("Colon", 1), nested |-> \E k \in DOMAIN p : p[k].code = "Kw_nested"]

(* A section that is parsed without an error has the documented form, and   *)
(* the marks are those of this section and not of an earlier one.           *)
CleanSectionIsDocumented ==
    running = "main" /\ path # <<>> /\ ~failed =>
        /\ Codes(path) \in Documented
        /\ marks = MarksOf(path)

(* What every state of the parser must satisfy. *)
SectionRight == TypeOK /\ CleanSectionIsDocumented

(* No documented section goes on with the next lexeme. *)
Departs == \A d \in Documented : ~ IsPrefix(Append(Codes(path), next.code), d)

(* What was read is a documented section, whatever comes behind it. *)
Whole == Codes(path) \in Documented

(* An error is reported only at a lexeme with which the text departs from   *)
(* the documented form.  A section that is whole is not blamed, with one    *)
(* exception: one of single-lined comments which is not the last thing of   *)
(* the text (src/comments_parser.cpp:307), although its state               *)
(* Single_lined_mark is final in include/comments_parser.h, as              *)
(* Multilined_end is, and another section may follow.                       *)
ErrorsAreDepartures ==
    [][~failed /\ failed' =>
          /\ Departs
          /\ Whole => /\ Codes(path) = <<"Kw_comments", "Kw_single_lined", "String">>
                      /\ next # EndOfText]_cvars

=============================================================================
