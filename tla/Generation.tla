----------------------------- MODULE Generation ------------------------------
(***************************************************************************)
(* One run of the program after another in one directory                   *)
(* (src/cmdline_processing.cpp): from a description that the main parser   *)
(* has read to verify(), the automata and the tests of the generated       *)
(* start_proc, the files that are written into the current directory, and  *)
(* their moving to src/ and include/.                                      *)
(*                                                                         *)
(* A description has the lexemes that are used, their expressions, the     *)
(* marks of comments - sequences of characters, the empty one is no mark - *)
(* and of the scope the identifiers and the strings that have a role       *)
(* already.  Of the generated text only is kept what decides which         *)
(* automaton a character enters and whether comments are treated.  A file  *)
(* is its name, a pair of a stem and an extension; its contents are what   *)
(* was written and by which run.                                           *)
(***************************************************************************)
EXTENDS Integers, Sequences, SequencesExt, FiniteSets, Functions, Categories, Commands

CONSTANTS Descriptions,   \* what the main parser may have read in each of the runs
          Sets,           \* the sets of characters of the expressions
          AuxFiles,       \* generated_files, the sequence of their names
          ForeignFiles,   \* the user's own files in the current directory
          MaxRuns,        \* bound: runs
          MaxFaults       \* bound: files that cannot be written or moved

Literals == {"Id", "String", "Number"}

(* Operands stand before their operation, as the parser of expressions      *)
(* leaves them.                                                             *)
OperandsFirst(buf) ==
    /\ buf \in Seq([name : STRING, first : Nat, second : Nat, action : Nat])
    /\ \A k \in DOMAIN buf :
          /\ buf[k].name \in {"Or", "Concat", "Multiconcat"} \cup Unary => buf[k].first + 1 < k
          /\ buf[k].name = "Or" => buf[k].second + 1 < k

(* A section %numbers or %strings has its expression: without one           *)
(* first_chars() looks before the beginning of an empty buffer.             *)
ASSUME DescriptionsAssumption ==
    /\ MaxRuns \in Nat /\ MaxFaults \in Nat
    /\ Descriptions[MaxRuns] # {}
    /\ \A r \in 1 .. MaxRuns : \A d \in Descriptions[r] : \A k \in Literals :
          /\ OperandsFirst(d.regexp[k])
          /\ k \in d.used \ {"Id"} => d.regexp[k] # <<>>
ASSUME AuxFilesAssumption == AuxFiles \in Seq(STRING \X {"h", "cpp"})

VARIABLES desc,       \* the description of this run
          run,        \* history: the number of this run
          phase,      \* where only_compile or compile_and_create_test is
          exit,       \* the exit code of the last run
          info,       \* info_for_constructing::Info
          to_write,   \* the files still to be written, in their order
          cwd, src, include,   \* the directories: what a name contains
          faults,     \* history: faults so far
          missed,     \* history: a file of this run was not written
          obstructed  \* the names that are files and no directories

vars == <<desc, run, phase, exit, info, to_write, cwd, src, include, faults,
          missed, obstructed>>

None == <<>>
spaces == 0 .. 32

NoInfo == [ifs |-> <<>>, automata |-> <<>>, needed_Elem |-> FALSE, comments |-> "none",
           errors |-> 0]

(* The description is only needed as long as the run lasts. *)
NoDescription == [used |-> {}, regexp |-> [k \in Literals |-> <<>>], single |-> <<>>,
                  begin |-> <<>>, end |-> <<>>, idsc |-> {}, strsc |-> {}, scaner |-> "",
                  lexem_info |-> "", test |-> FALSE, quiet |-> TRUE]

Init ==
    /\ desc = NoDescription /\ run = 0 /\ phase = "idle" /\ exit = "none"
    /\ info = NoInfo /\ to_write = <<>>
    /\ cwd = [f \in ForeignFiles |-> <<"foreign", 0>>]
    /\ src = None /\ include = None
    /\ faults = 0 /\ missed = FALSE
    /\ obstructed \in SUBSET {"src", "include"}

files == <<cwd, src, include>>

End(code) ==
    /\ phase' = "idle" /\ exit' = code
    /\ desc' = NoDescription /\ info' = NoInfo /\ to_write' = <<>>

Begin ==
    /\ phase = "idle" /\ run < MaxRuns
    /\ desc' \in Descriptions[run + 1]
    /\ run' = run + 1 /\ phase' = "read" /\ exit' = "none" /\ missed' = FALSE
    /\ UNCHANGED <<info, to_write, files, faults, obstructed>>

(* get_contents() of a text that is not there: the file is empty, cannot be *)
(* read to its end or cannot be opened.                                     *)
get_contents == {"Normal", "Read_error", "Impossible_open"}

(* get_processed_text: that is printed and the text is empty.  Of a file    *)
(* that is not open ~Binary_file closes the null pointer, which may end the *)
(* program.                                                                 *)
NoText ==
    /\ phase = "read"
    /\ \E return_code \in get_contents :
          \/ End("File_processing_error")
          \/ return_code = "Impossible_open" /\ End("terminated")
    /\ UNCHANGED <<run, files, faults, missed, obstructed>>

command2category(com) == EmptyCategory

(* first_chars(): the case analysis of command2category is commented out in *)
(* the code, and a leaf that is met alone gives the empty set as well.      *)
first_chars(buf) ==
    LET categ[i \in DOMAIN buf] ==
            LET com == buf[i]
            IN  CASE com.name = "Or" -> Plus(categ[com.first + 1], categ[com.second + 1])
                  [] com.name \in {"Concat", "Multiconcat"} \cup Unary -> categ[com.first + 1]
                  [] com.name = "Multior" ->
                         FoldLeft(Plus, EmptyCategory,
                                  [j \in 1 .. com.second - com.first + 1 |->
                                      command2category(buf[com.first + j])])
                  [] OTHER -> EmptyCategory
    IN  categ[Len(buf)]

OfMark(m) == Category(Set_of_cs, IF m = <<>> THEN {} ELSE {m[1]})

(* begin_chars: kw_repres and del_repres are empty when verify() runs.      *)
begin_chars(k) ==
    CASE k \in Literals /\ k \in desc.used -> first_chars(desc.regexp[k])
      [] k = "Comment" /\ k \in desc.used -> Plus(OfMark(desc.single), OfMark(desc.begin))
      [] OTHER -> EmptyCategory

(* intersection_msgs *)
intersection_msgs ==
    ({"Keyword"} \X {"Delimiter", "String", "Number", "Comment"})
        \cup ({"Id"} \X {"Delimiter", "String", "Number", "Comment"})
        \cup ({"Delimiter"} \X {"String", "Number"})
        \cup ({"String"} \X {"Number", "Comment"}) \cup {<<"Number", "Comment">>}

verify ==
    /\ desc.quiet
    /\ desc.used # {}
    /\ "Id" \in desc.used => desc.regexp["Id"] # <<>>
    /\ \A p \in intersection_msgs : ~Intersect(begin_chars(p[1]), begin_chars(p[2]))

Refuse ==
    /\ phase = "read" /\ ~verify
    /\ End("There_are_syntax_errors")
    /\ UNCHANGED <<run, files, faults, missed, obstructed>>

(* The fictive delimiters and their codes, in the order they are added      *)
mark_list == <<desc.single, desc.begin, desc.end>>
fictive_codes == <<"SINGLE_LINED_COMMENT_MARK", "MULTI_LINED_COMMENT_MARK",
                   "MULTI_LINED_COMMENT_END">>

(* Mutant: the string of a mark is not looked up in the scope. *)
string_is_retaken(t, i) ==
    LET m == mark_list[i]
    IN  IF m = <<>> THEN t
        ELSE [strsc  |-> t.strsc \cup {m},
              del    |-> t.del \cup {m},
              errors |-> t.errors + (IF fictive_codes[i] \in desc.idsc THEN 1 ELSE 0)]

(* add_fictive_delimiter() of one mark: its code must not be an identifier  *)
(* with a role, and its string must not have one; only a new string becomes *)
(* a delimiter.  t is what there is so far.                                 *)
add_fictive_delimiter(t, i) ==
    LET m == mark_list[i]
        new_string == m \notin t.strsc
    IN  IF m = <<>> THEN t
        ELSE [strsc  |-> t.strsc \cup {m},
              del    |-> IF new_string THEN t.del \cup {m} ELSE t.del,
              errors |-> t.errors + (IF fictive_codes[i] \in desc.idsc THEN 1 ELSE 0)
                                  + (IF new_string THEN 0 ELSE 1)]

add_fictive_delimiters ==
    LET none == [strsc |-> desc.strsc, del |-> {}, errors |-> 0]
    IN  IF "Comment" \in desc.used
        THEN LET single == add_fictive_delimiter(none, 1)
                 begin == add_fictive_delimiter(single, 2)
             IN  add_fictive_delimiter(begin, 3)
        ELSE none

del_repres == add_fictive_delimiters.del

(* A test of start_proc: add_category() finds the name of the set or gives  *)
(* it one.                                                                  *)
If(chars, automaton) == [chars |-> chars, automaton |-> automaton]

With_if(i, chars, automaton) ==
    [i EXCEPT !.ifs = Append(@, If(chars, automaton)), !.automata = Append(@, automaton)]

(* build_keyword_strings(): nothing is ever put into kw_repres. *)
keyword_strings == {}

first_elems(strings) == {s[1] : s \in strings}

generate_separate_keywords_automaton(i) ==
    With_if(i, first_elems(keyword_strings), "A_keyword")

generate_separate_identifier_automat(i) ==
    With_if(i, first_chars(desc.regexp["Id"]).s, "A_ident")

(* keyword_automaton_impl() of Id_with_keyw_builder *)
keyword_automaton(i) ==
    With_if([i EXCEPT !.needed_Elem = TRUE], first_elems(keyword_strings), "A_keyword")

(* all_keywords_are_idents_case(): the tests of the two automata exclude    *)
(* each other.                                                              *)
all_keywords_are_idents_case(i) ==
    With_if(keyword_automaton(i),
            first_chars(desc.regexp["Id"]).s \ first_elems(keyword_strings), "A_ident")

(* Id_with_keyw_builder::build(): of no keywords match_regexp() says that   *)
(* they all are identifiers, so that the other case is never taken.         *)
Id_with_keyw(i) == all_keywords_are_idents_case(i)

(* implement_ident_and_keywords_automata() *)
IdentAndKeywords(i) ==
    IF "Keyword" \in desc.used
    THEN IF "Id" \in desc.used THEN Id_with_keyw(i)
         ELSE [generate_separate_keywords_automaton(i) EXCEPT !.needed_Elem = TRUE]
    ELSE IF "Id" \in desc.used THEN generate_separate_identifier_automat(i) ELSE i

(* delimiter_automaton_impl() and implement_delimiter_automaton() *)
Delimiters(i) ==
    IF "Delimiter" \in desc.used
    THEN With_if([i EXCEPT !.needed_Elem = TRUE], first_elems(del_repres), "A_delimiter")
    ELSE i

(* implement_string_automaton *)
Strings(i) ==
    IF "String" \in desc.used
    THEN With_if(i, first_chars(desc.regexp["String"]).s, "A_string")
    ELSE i

(* implement_number_automaton: its test enters the automaton of strings.    *)
Numbers(i) ==
    IF "Number" \in desc.used
    THEN [i EXCEPT !.ifs = Append(@, If(first_chars(desc.regexp["Number"]).s, "A_string")),
                   !.automata = Append(@, "A_number")]
    ELSE i

implement_none_automaton(i) == [i EXCEPT !.automata = Append(@, "A_start")]
implement_unknown_automaton(i) == [i EXCEPT !.automata = Append(@, "A_unknown")]

(* Mutant: delimiters are only tested if there are keywords too. *)
implement_automata_late ==
    LET i == IdentAndKeywords(implement_unknown_automaton(implement_none_automaton(NoInfo)))
    IN  Numbers(Strings(IF "Keyword" \in desc.used THEN Delimiters(i) ELSE i))

implement_automata ==
    LET i == implement_unknown_automaton(implement_none_automaton(NoInfo))
    IN  Numbers(Strings(Delimiters(IdentAndKeywords(i))))

(* Current_lexem_proc_builder::build: the enumeration is indexed with the   *)
(* absence of the marks, and both are the mark of multilined comments       *)
(* (src/collected_data_to_info.cpp:103).                                    *)
Comment_kind == IF desc.begin = <<>> THEN "There_are_all" ELSE "No_comments"

H(stem) == <<stem, "h">>
Cpp(stem) == <<stem, "cpp">>
Listed(names, what) == [i \in DOMAIN names |-> [file |-> names[i], what |-> what]]
WrittenAs(f, what) == <<[file |-> f, what |-> what]>>

(* aux_files_generate() and Scaner_class_builder::build() in their order *)
ScanerFiles(d, needed_Elem) ==
    Listed(AuxFiles, "aux")
        \o (IF needed_Elem THEN WrittenAs(H("elem"), "elem") ELSE <<>>)
        \o WrittenAs(H(d.lexem_info), "lexem_info")
        \o WrittenAs(H(d.scaner), "header") \o WrittenAs(Cpp(d.scaner), "impl")

(* Testing_builder::build() *)
TestFiles(d) ==
    IF d.test
    THEN WrittenAs(H("print_lexem"), "print_h") \o WrittenAs(Cpp("print_lexem"), "print")
             \o WrittenAs(Cpp(d.scaner \o "-test"), "main")
    ELSE <<>>

(* compile() after verify(): the scanner is generated although the fictive  *)
(* delimiters may have given errors.                                        *)
collected_data_to_info ==
    /\ phase = "read" /\ verify
    /\ info' = [implement_automata EXCEPT !.comments = Comment_kind,
                                         !.errors = add_fictive_delimiters.errors]
    /\ to_write' = ScanerFiles(desc, info'.needed_Elem)
    /\ phase' = "write"
    /\ UNCHANGED <<desc, run, exit, files, faults, missed, obstructed>>

(* A file in a directory, over one with its name *)
Put(dir, f, contents) ==
    [g \in DOMAIN dir \cup {f} |-> IF g = f THEN contents ELSE dir[g]]

(* A file is written in the current directory. *)
WriteFile ==
    /\ phase \in {"write", "write_test"} /\ to_write # <<>>
    /\ cwd' = Put(cwd, Head(to_write).file, <<Head(to_write).what, run>>)
    /\ to_write' = Tail(to_write)
    /\ UNCHANGED <<desc, run, phase, exit, info, src, include, faults, missed, obstructed>>

(* It cannot be opened: that is at most printed.                            *)
MissFile ==
    /\ phase \in {"write", "write_test"} /\ to_write # <<>> /\ faults < MaxFaults
    /\ to_write' = Tail(to_write)
    /\ faults' = faults + 1 /\ missed' = TRUE
    /\ UNCHANGED <<desc, run, phase, exit, info, files, obstructed>>

(* get_number_of_errors() after compile() *)
FoundErrors ==
    /\ phase = "write" /\ to_write = <<>> /\ info.errors > 0
    /\ End("There_are_syntax_errors")
    /\ UNCHANGED <<run, files, faults, missed, obstructed>>

WriteTest ==
    /\ phase = "write" /\ to_write = <<>> /\ info.errors = 0
    /\ to_write' = TestFiles(desc) /\ phase' = "write_test"
    /\ UNCHANGED <<desc, run, exit, info, files, faults, missed, obstructed>>

BeginMoving ==
    /\ phase = "write_test" /\ to_write = <<>>
    /\ phase' = "move_cpp"
    /\ UNCHANGED <<desc, run, exit, info, to_write, files, faults, missed, obstructed>>

Without(dir, f) == Restrict(dir, DOMAIN dir \ {f})
With1(dir, f) == Put(dir, f, cwd[f])

(* create_dir_if_not_exists: there is a file of that name. *)
CannotMove(dir, at, code) ==
    /\ phase = at /\ dir \in obstructed
    /\ End(code)
    /\ UNCHANGED <<run, files, faults, missed, obstructed>>

OfExt(e) == {f \in DOMAIN cwd : f[2] = e}

(* Mutant: a file that is there already is not replaced. *)
MoveCppOnce ==
    /\ phase = "move_cpp" /\ "src" \notin obstructed
    /\ \E f \in OfExt("cpp") :
          /\ src' = src @@ With1(None, f)
          /\ cwd' = Without(cwd, f)
    /\ UNCHANGED <<desc, run, phase, exit, info, to_write, include, faults, missed, obstructed>>

(* move_by_ext: the files come in any order, and one of the same name in    *)
(* the directory is replaced.                                               *)
MoveCpp ==
    /\ phase = "move_cpp" /\ "src" \notin obstructed
    /\ \E f \in OfExt("cpp") :
          /\ src' = With1(src, f)
          /\ cwd' = Without(cwd, f)
    /\ UNCHANGED <<desc, run, phase, exit, info, to_write, include, faults, missed, obstructed>>

CppsMoved ==
    /\ phase = "move_cpp" /\ "src" \notin obstructed /\ OfExt("cpp") = {}
    /\ phase' = "move_h"
    /\ UNCHANGED <<desc, run, exit, info, to_write, files, faults, missed, obstructed>>

(* Mutant: the files are copied. *)
CopyH ==
    /\ phase = "move_h" /\ "include" \notin obstructed
    /\ \E f \in OfExt("h") : include' = With1(include, f)
    /\ UNCHANGED <<desc, run, phase, exit, info, to_write, cwd, src, faults, missed, obstructed>>

MoveH ==
    /\ phase = "move_h" /\ "include" \notin obstructed
    /\ \E f \in OfExt("h") :
          /\ include' = With1(include, f)
          /\ cwd' = Without(cwd, f)
    /\ UNCHANGED <<desc, run, phase, exit, info, to_write, src, faults, missed, obstructed>>

HsMoved ==
    /\ phase = "move_h" /\ "include" \notin obstructed /\ OfExt("h") = {}
    /\ End("Success")
    /\ UNCHANGED <<run, files, faults, missed, obstructed>>

(* rename throws, which nobody catches, or the program is killed.           *)
Break ==
    /\ phase \in {"write", "write_test", "move_cpp", "move_h"} /\ faults < MaxFaults
    /\ faults' = faults + 1
    /\ End("terminated")
    /\ UNCHANGED <<run, files, missed, obstructed>>

Step ==
    \/ NoText \/ Refuse \/ collected_data_to_info
    \/ WriteFile \/ MissFile \/ FoundErrors \/ WriteTest
    \/ BeginMoving
    \/ CannotMove("src", "move_cpp", "Failed_moving_cpps")
    \/ CannotMove("include", "move_h", "Failed_moving_hs")
    \/ MoveCpp \/ CppsMoved \/ MoveH \/ HsMoved

Next == Begin \/ Step \/ Break

(* A run that was begun goes on; nobody has to begin one.                   *)
Spec == Init /\ [][Next]_vars /\ WF_vars(Step)

----------------------------------------------------------------------------
TypeOK ==
    /\ phase \in {"idle", "read", "write", "write_test", "move_cpp", "move_h"}
    /\ exit \in {"none", "File_processing_error", "There_are_syntax_errors", "Success",
                 "Failed_moving_cpps", "Failed_moving_hs", "terminated"}
    /\ run \in 0 .. MaxRuns /\ faults \in 0 .. MaxFaults
    /\ info.comments \in {"none", "No_comments", "There_are_all"}
    /\ \A f \in DOMAIN src : f[2] = "cpp"
    /\ \A f \in DOMAIN include : f[2] = "h"

(* start_proc of the generated scanner: the automaton that a character      *)
(* enters, the first test that holds of it                                  *)
Entered(c) ==
    LET fits == {i \in DOMAIN info.ifs : c \in info.ifs[i].chars}
    IN  IF c \in spaces \/ fits = {} THEN "A_start"
        ELSE info.ifs[CHOOSE i \in fits : \A j \in fits : i <= j].automaton

Generated == phase \in {"write", "write_test", "move_cpp", "move_h"}

GivenMarks == IF "Comment" \in desc.used THEN {i \in 1 .. 3 : mark_list[i] # <<>>} ELSE {}

(* The characters that the marks begin with; a mark that had a role before, *)
(* the body of an action for instance, is none of the delimiters.           *)
MarkBeginnings == {mark_list[i][1] : i \in {j \in GivenMarks : mark_list[j] \notin desc.strsc}}

Characters == UNION Range(Sets) \cup {mark_list[i][1] : i \in GivenMarks} \cup {32}

(* What a generated start_proc makes of a character: the first ones of the  *)
(* marks of comments that are new strings enter the automaton of            *)
(* delimiters, if the description has delimiters, and no other character    *)
(* leaves A_start: not those that begin identifiers, strings or numbers,    *)
(* whose sets first_chars leaves empty (src/first_chars.cpp:14), nor those  *)
(* that begin delimiters or a mark which is the body of an action too       *)
(* (src/main_parser.cpp:472).  Nor is the text between marks treated: with  *)
(* a mark of multilined comments the scanner is one without comments        *)
(* (src/current_lexem_proc_builder.cpp:820).                                *)
OnlyMarksAreEntered ==
    /\ TypeOK
    /\ Generated =>
          /\ \A c \in Characters :
                /\ Entered(c) = IF "Delimiter" \in desc.used /\ c \in MarkBeginnings \ spaces
                                THEN "A_delimiter" ELSE "A_start"
                /\ Entered(c) \in Range(info.automata)
          /\ desc.begin # <<>> => info.comments = "No_comments"

Outputs == ScanerFiles(desc, info.needed_Elem) \o TestFiles(desc)
NamesClash == \E i, j \in DOMAIN Outputs : i # j /\ Outputs[i].file = Outputs[j].file

Target(f) == IF f[2] = "h" THEN include ELSE src

(* The file of an output in a directory, as this run wrote it *)
In(dir, o) == o.file \in DOMAIN dir /\ dir[o.file] = <<o.what, run>>

Pending == Range(to_write) \cup IF phase = "write" THEN Range(TestFiles(desc)) ELSE {}

(* Where the outputs of a run without a file missed or written twice are,   *)
(* stage by stage; a file of such a name that is still in the current       *)
(* directory is this run's, so that moving it replaces nothing of this run. *)
EveryOutputIsSomewhere ==
    \A o \in Range(Outputs) :
        /\ phase \in {"write", "write_test"} => o \in Pending \/ In(cwd, o)
        /\ phase \in {"move_cpp", "move_h"} =>
              /\ o.file \in DOMAIN cwd => In(cwd, o)
              /\ In(cwd, o) \/ In(Target(o.file), o)

(* What is still to be written belongs to this run; the .cpp files are      *)
(* moved before the .h files.                                               *)
StagesInOrder ==
    /\ IF phase \in {"write", "write_test"} THEN Pending \subseteq Range(Outputs)
       ELSE to_write = <<>>
    /\ phase = "move_h" => OfExt("cpp") = {}

(* The inductive invariant behind SuccessMeansComplete                      *)
FilesInv == /\ to_write \in Seq(Range(to_write))
            /\ StagesInOrder
            /\ ~missed /\ ~NamesClash => EveryOutputIsSomewhere

(* A run that reports success, that could write every file and whose files  *)
(* have different names leaves all of them, as it wrote them, in src/ and   *)
(* include/, and nothing to move: whatever earlier runs left in the three   *)
(* directories (src/cmdline_processing.cpp:71).                             *)
SuccessMeansComplete ==
    [][exit' = "Success" /\ ~missed /\ ~NamesClash =>
          /\ \A i \in DOMAIN Outputs :
                 /\ Outputs[i].file \in DOMAIN Target(Outputs[i].file)
                 /\ Target(Outputs[i].file)[Outputs[i].file] = <<Outputs[i].what, run>>
          /\ OfExt("h") \cup OfExt("cpp") = {}]_exit

(* The marks of comments clash: with each other, with a string that has a   *)
(* role, or one of their codes with an identifier that has one.             *)
MarksClash ==
    \E i \in GivenMarks :
        \/ mark_list[i] \in desc.strsc
        \/ fictive_codes[i] \in desc.idsc
        \/ \E j \in GivenMarks \ {i} : mark_list[j] = mark_list[i]

(* Syntax errors are reported before anything is written, or when it has    *)
(* been: then, and only then, the marks of comments clash, which verify()   *)
(* had let pass (src/main_parser.cpp:423).                                  *)
ErrorsExplained ==
    [][/\ exit' = "There_are_syntax_errors" /\ phase = "read" =>
             \/ ~desc.quiet
             \/ desc.used = {}
             \/ "Id" \in desc.used /\ desc.regexp["Id"] = <<>>
       /\ exit' = "There_are_syntax_errors" /\ phase # "read" => MarksClash
       /\ exit' \in {"Success", "Failed_moving_cpps", "Failed_moving_hs"} => ~MarksClash]_exit

(* Every run that is begun ends (src/move_by_ext.cpp:45).                   *)
RunsEnd == phase # "idle" ~> phase = "idle"

LettersOf(com) ==
    CASE com.name = "Char" -> {com.first}
      [] com.name = "Char_class" -> Sets[com.first]
      [] OTHER -> UNION Range(Sets) \ Sets[com.first]

Words(k) == Language(desc.regexp[k], 3, LettersOf)

(* The characters that the words of an expression begin with                *)
Beginnings(k) == IF k \in Literals /\ k \in desc.used THEN {w[1] : w \in Words(k) \ {<<>>}}
                 ELSE begin_chars(k).s

(* "the set of characters from which identifiers begin, intersects with the *)
(* set of characters from which string literals begin" is an error, and so  *)
(* on (src/verify_collected_data.cpp:20): no scanner is generated.          *)
ClashesAreRefused ==
    Generated => \A p \in intersection_msgs : Beginnings(p[1]) \cap Beginnings(p[2]) = {}
=============================================================================
