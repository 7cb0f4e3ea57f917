--------------------------- MODULE NumStrIdParser ---------------------------
(***************************************************************************)
(* src/num_str_id_parser.cpp: the headers of the sections %numbers,        *)
(* %strings and %idents.  One step reads one lexeme.  The regular          *)
(* expression in braces that follows a header is read by the parser of     *)
(* src/slr_act_expr_parser.cpp; here it is one lexeme, Opened_fig_brack,   *)
(* whose idx is 1 if that parser never gets to the closing brace.          *)
(***************************************************************************)
EXTENDS Scope, SectionHistory, SequencesExt

VARIABLES running,   \* the parser whose loop is running
          state,     \* the state of its automaton, or a_parser for the
                     \* call of the parser of regular expressions
          acts_,     \* the initial and final actions of this header
          current_action_name_idx,
          acts,      \* what compile gave back: the actions of each section
          regexps    \* and the sections whose expression was read

fields == <<acts_, current_action_name_idx, acts, regexps>>
nvars == <<next, left, errors, scope, running, state, fields, history>>

States == {"Num_str_kw", "Maybe_init_acts", "Init_acts", "Maybe_final_acts",
           "Final_acts", "Action_sec", "Act_def", "a_parser"}

NoActs == [init_acts |-> 0, fin_acts |-> 0]

(* settings() of the three parsers *)
settings == [numbers |-> "Kw_numbers", strings |-> "Kw_strings", idents |-> "Kw_idents"]
Sections == DOMAIN settings

(* The case labels of parse() that lead to one of the three parsers. *)
ParserOf == [Kw_numbers |-> "numbers", Kw_action |-> "numbers",
             Opened_fig_brack |-> "numbers", Closed_fig_brack |-> "numbers",
             Kw_strings |-> "strings", Kw_idents |-> "idents"]

-----------------------------------------------------------------------------
(* The procedures of the states: the lexemes that keep the header going,    *)
(* the state they lead to and the errors reported.  The section keyword,    *)
(* which every procedure tests first, is the action RepeatedKeyword.        *)
Go(s) == [to |-> s, errors |-> 0]
Err(s) == [to |-> s, errors |-> 1]

maybe_init_acts_proc ==
    [String |-> Go("Init_acts"),         Kw_action        |-> Err("Action_sec"),
     Id     |-> Err("Act_def"),          Opened_fig_brack |-> Err("a_parser"),
     Colon  |-> Go("Maybe_final_acts")]

init_acts_proc ==
    [String |-> Err("Final_acts"),       Kw_action        |-> Err("Action_sec"),
     Id     |-> Err("Act_def"),          Opened_fig_brack |-> Err("a_parser"),
     Colon  |-> Go("Maybe_final_acts")]

(* Mutant: the final actions are obligatory. *)
final_acts_obligatory ==
    [String |-> Go("Final_acts"),        Kw_action        |-> Err("Action_sec"),
     Id     |-> Err("Act_def"),          Opened_fig_brack |-> Go("a_parser"),
     Colon  |-> Err("Maybe_final_acts")]

maybe_final_acts_proc ==
    [String |-> Go("Final_acts"),        Kw_action        |-> Go("Action_sec"),
     Id     |-> Err("Act_def"),          Opened_fig_brack |-> Go("a_parser"),
     Colon  |-> Err("Maybe_final_acts")]

final_acts_proc ==
    [String |-> Err("Final_acts"),       Kw_action        |-> Go("Action_sec"),
     Id     |-> Err("Act_def"),          Opened_fig_brack |-> Go("a_parser"),
     Colon  |-> Err("Final_acts")]

action_sec_proc ==
    [String |-> Err("Final_acts"),       Kw_action        |-> Err("Action_sec"),
     Id     |-> Go("Act_def"),           Opened_fig_brack |-> Err("a_parser"),
     Colon  |-> Err("Action_sec")]

act_def_proc ==
    [String |-> Go("Final_acts"),        Kw_action        |-> Err("Act_def"),
     Id     |-> Err("Act_def"),          Opened_fig_brack |-> Err("a_parser"),
     Colon  |-> Err("Act_def")]

procs ==
    [Maybe_init_acts  |-> maybe_init_acts_proc,
     Init_acts        |-> init_acts_proc,
     Maybe_final_acts |-> maybe_final_acts_proc,
     Final_acts       |-> final_acts_proc,
     Action_sec       |-> action_sec_proc,
     Act_def          |-> act_def_proc]

-----------------------------------------------------------------------------
(* Mutant: the actions of the parser's last header are kept. *)
CallKeepsActs ==
    /\ running = "main"
    /\ next.code \in DOMAIN ParserOf
    /\ running' = ParserOf[next.code]
    /\ state' = "Num_str_kw"
    /\ Forget
    /\ UNCHANGED <<source, errors, scope, fields>>

(* compile() and begin_of_num_or_str_sec() up to the loop. *)
Call ==
    /\ running = "main"
    /\ next.code \in DOMAIN ParserOf
    /\ running' = ParserOf[next.code]
    /\ state' = "Num_str_kw"
    /\ acts_' = NoActs
    /\ Forget
    /\ UNCHANGED <<source, errors, scope, current_action_name_idx, acts, regexps>>

(* num_str_kw_proc: the keyword of the section. *)
SectionKeyword ==
    /\ running \in Sections
    /\ state = "Num_str_kw"
    /\ next.code = settings[running]
    /\ state' = "Maybe_init_acts"
    /\ Take(0)
    /\ Record(0)
    /\ UNCHANGED <<scope, running, fields>>

(* num_str_kw_proc: any other lexeme is given back, whatever state the      *)
(* procedure chooses for it, and compile() does not go on.                  *)
WrongBeginning ==
    /\ running \in Sections
    /\ state = "Num_str_kw"
    /\ next.code # settings[running]
    /\ LET n == CASE next.code \in {"Kw_numbers", "Kw_strings"} -> 0
                  [] next.code = "Id" -> 2
                  [] OTHER -> 1
       IN  GiveBack(n) /\ Blame(n)
    /\ running' = "main"
    /\ UNCHANGED <<scope, state, fields>>

(* Every other procedure prints a message when it meets the keyword of the  *)
(* section once more, and does not count it as an error: a repetition is    *)
(* tolerated everywhere, and the history leaves it out.                     *)
RepeatedKeyword ==
    /\ running \in Sections
    /\ state \in DOMAIN procs
    /\ next.code = settings[running]
    /\ Take(0)
    /\ UNCHANGED <<scope, running, state, fields>>
    /\ SameHistory

(* What a step does beside the change of state: the string before the colon *)
(* or the first one is the initial action, the one after it the final one.  *)
NewActs ==
    IF next.code # "String" THEN acts_
    ELSE CASE state = "Maybe_init_acts" -> [acts_ EXCEPT !.init_acts = next.idx]
           [] state \in {"Init_acts", "Maybe_final_acts"} -> [acts_ EXCEPT !.fin_acts = next.idx]
           [] OTHER -> acts_

(* An identifier is remembered where it is accepted as the name of an       *)
(* action, and not by act_def_proc, which has a name already.  (What some   *)
(* procedures remember at the word %action is replaced before it is used.)  *)
NewActionName ==
    IF next.code = "Id" /\ state # "Act_def" THEN next.idx ELSE current_action_name_idx

Step ==
    /\ running \in Sections
    /\ state \in DOMAIN procs
    /\ next.code \in DOMAIN procs[state] \ {"Opened_fig_brack"}
    /\ LET move == procs[state][next.code]
           defines == state = "Act_def" /\ next.code = "String"
           n == move.errors + (IF defines THEN ActionErrors(current_action_name_idx, next.idx)
                                          ELSE 0)
       IN  /\ state' = move.to
           /\ IF defines THEN AddActionDefinition(current_action_name_idx, next.idx)
                         ELSE UNCHANGED <<idsc, strsc>>
           /\ Take(n)
           /\ Record(n)
    /\ acts_' = NewActs
    /\ current_action_name_idx' = NewActionName
    /\ UNCHANGED <<table, running, acts, regexps>>

(* The opening brace is given back and the expression parser is called.     *)
OpenExpression ==
    /\ running \in Sections
    /\ state \in DOMAIN procs
    /\ next.code = "Opened_fig_brack"
    /\ state' = "a_parser"
    /\ GiveBack(procs[state][next.code].errors)
    /\ Record(procs[state][next.code].errors)
    /\ UNCHANGED <<scope, running, fields>>

(* The text ends within a header: begin_of_num_or_str_sec reports it and    *)
(* returns the result of the last procedure, true, so that compile() calls  *)
(* the expression parser all the same.                                      *)
EndOfHeader ==
    /\ running \in Sections
    /\ state \in DOMAIN procs
    /\ next = EndOfText
    /\ state' = "a_parser"
    /\ Report(1)
    /\ Blame(1)
    /\ UNCHANGED <<source, scope, running, fields>>

(* Mutant: what was read is stored although the header is not complete. *)
AbandonStores ==
    /\ running \in Sections
    /\ state \in DOMAIN procs
    /\ next # EndOfText
    /\ next.code \notin DOMAIN procs[state] \cup {settings[running]}
    /\ GiveBack(0)
    /\ running' = "main"
    /\ acts' = [acts EXCEPT ![running] = acts_]
    /\ UNCHANGED <<scope, state, acts_, current_action_name_idx, regexps>>
    /\ SameHistory

(* Any other lexeme ends the header, silently and in every state: the       *)
(* section is given up.                                                     *)
Abandon ==
    /\ running \in Sections
    /\ state \in DOMAIN procs
    /\ next # EndOfText
    /\ next.code \notin DOMAIN procs[state] \cup {settings[running]}
    /\ GiveBack(0)
    /\ running' = "main"
    /\ UNCHANGED <<scope, state, fields>>
    /\ SameHistory

(* The expression was read up to its closing brace, perhaps with errors.    *)
ExpressionParsed ==
    /\ running \in Sections
    /\ state = "a_parser"
    /\ next.code = "Opened_fig_brack"
    /\ next.idx = 0
    /\ \E n \in 0 .. 1 : Take(n)
    /\ acts' = [acts EXCEPT ![running] = acts_]
    /\ regexps' = regexps \cup {running}
    /\ running' = "main"
    /\ UNCHANGED <<scope, state, acts_, current_action_name_idx>>
    /\ SameHistory

(* Without an opening brace, without a closing one, or with parentheses     *)
(* that do not match, the expression parser does not return: RegexpParser,  *)
(* ReturnsOrIsStuck.                                                        *)
ExpressionIsOpen == state = "a_parser" /\ (next = EndOfText \/ next.idx = 1)

Section == \/ SectionKeyword \/ WrongBeginning \/ RepeatedKeyword \/ Step
           \/ OpenExpression \/ EndOfHeader \/ Abandon \/ ExpressionParsed

-----------------------------------------------------------------------------
(* The rest of the program, which may define codes.                         *)
OtherSections ==
    /\ running = "main"
    /\ next # EndOfText
    /\ next.code \notin DOMAIN ParserOf
    /\ \E n \in 0 .. 1 : Take(n)
    /\ \/ UNCHANGED scope
       \/ \E id \in Idents : AddNewLexemCode(id) /\ UNCHANGED strsc
    /\ UNCHANGED <<running, state, fields>>
    /\ SameHistory

Finished ==
    /\ \/ running = "main" /\ next = EndOfText
       \/ running \in Sections /\ ExpressionIsOpen
    /\ UNCHANGED nvars

Init ==
    /\ SourceInit
    /\ ScopeInit
    /\ running = "main"
    /\ state = "Num_str_kw"
    /\ acts_ = NoActs
    /\ current_action_name_idx = 0
    /\ acts = [s \in Sections |-> NoActs]
    /\ regexps = {}
    /\ path = <<>>
    /\ failed = FALSE

Next == Call \/ Section \/ OtherSections \/ Finished

Spec == Init /\ [][Next]_nvars

(* The loop of begin_of_num_or_str_sec goes on until it returns. *)
FairSpec == Spec /\ WF_nvars(Section)

-----------------------------------------------------------------------------
TypeOK ==
    /\ SourceTypeOK
    /\ ScopeTypeOK
    /\ running \in Sections \cup {"main"}
    /\ state \in States
    /\ acts_ \in [init_acts : Nat, fin_acts : Nat]
    /\ current_action_name_idx \in Nat
    /\ acts \in [Sections -> [init_acts : Nat, fin_acts : Nat]]
    /\ regexps \subseteq Sections
    /\ HistoryTypeOK

(* The regular expression ab?eb?(cdb)*f of include/num_str_id_parser.h:     *)
(* the beginnings ab?eb?, and the lexemes after a beginning of length k.    *)
Beginnings(kw) ==
    {<<kw, "Colon">>,           <<kw, "String", "Colon">>,
     <<kw, "Colon", "String">>, <<kw, "String", "Colon", "String">>}

Definition(k, j) == <<"Kw_action", "Id", "String">>[((j - k - 1) % 3) + 1]

Letter(h, j) == IF j <= Len(h) THEN h[j] ELSE Definition(Len(h), j)

Documented(p) ==
    \E h \in Beginnings(p[1].code) :
        /\ Len(p) > Len(h) /\ (Len(p) - Len(h)) % 3 = 1
        /\ \A j \in 1 .. Len(p) - 1 : p[j].code = Letter(h, j)
        /\ p[Len(p)].code = "Opened_fig_brack"

BeginsDocumented(p) ==
    /\ p[1].code \in Range(settings)
    /\ \/ Documented(p)
       \/ \E h \in Beginnings(p[1].code) : \A j \in DOMAIN p : p[j].code = Letter(h, j)

Returned == running = "main" /\ path # <<>> /\ ~failed

(* The header is complete, and the expression was parsed. *)
Complete == Returned /\ path[Len(path)].code = "Opened_fig_brack"

(* The actions that a documented header states, before and after the colon. *)
ActsOf(p) ==
    LET colon == CHOOSE k \in DOMAIN p : p[k].code = "Colon"
        string(k) == IF p[k].code = "String" THEN p[k].idx ELSE 0
    IN  [init_acts |-> string(colon - 1), fin_acts |-> string(colon + 1)]

(* A header that is parsed to its end without an error has the documented   *)
(* form, and its section gets the actions written in this header and not    *)
(* those of an earlier one.                                                 *)
CleanHeaderIsDocumented ==
    Complete =>
        LET s == ParserOf[path[1].code]
        IN  Documented(path) /\ s \in regexps /\ acts[s] = ActsOf(path)

(* After such a header every action it defines has, as its body, the last   *)
(* string the header gives for it.                                          *)
ActionsDefined ==
    Complete =>
        LET defs == {k \in 1 .. Len(path) - 2 : path[k].code = "Kw_action"}
        IN  \A k \in defs :
                \E m \in defs : /\ m >= k /\ path[m + 1].idx = path[k + 1].idx
                                /\ idsc[path[k + 1].idx] = ActionName(path[m + 2].idx)

(* What every state of the parser must satisfy. *)
HeaderRight == TypeOK /\ CleanHeaderIsDocumented /\ ActionsDefined

(* An error is reported only where the header departs from the documented   *)
(* form, or where the name of an action has another role already.           *)
ErrorsAreDepartures ==
    [][~failed /\ failed' =>
          \/ ~ BeginsDocumented(Append(path, next))
          \/ /\ next.code = "String"
             /\ path[Len(path)].code = "Id"
             /\ idsc[path[Len(path)].idx].kind # "Action_name"]_nvars

(* The actions of a section change only together with its expression.       *)
ResultsTogether ==
    [][\A s \in Sections : acts'[s] # acts[s] => s \in regexps']_nvars

=============================================================================
