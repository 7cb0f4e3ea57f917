-------------------------- MODULE GenerationProofs --------------------------
(***************************************************************************)
(* Proofs about the files of a run: whatever the descriptions, the names of *)
(* the files, what earlier runs left and where faults fall, success means   *)
(* that every output of this run is in its place.  What the operations on   *)
(* categories mean, on which verify() relies before it lets generation      *)
(* start.  And what verify() and the generated start_proc make of the first *)
(* characters, for every description.                                       *)
(***************************************************************************)
EXTENDS Generation, FiniteSetTheorems, WellFoundedInduction, TLAPS

(* A sequence is one of its own elements. *)
LEMMA SequenceOfElements ==
    ASSUME NEW S, NEW s \in Seq(S)
    PROVE  s \in Seq(Range(s))
<1> DEFINE n == Len(s)
<1>1. n \in Nat /\ DOMAIN s = 1 .. n /\ s = [i \in 1 .. n |-> s[i]]
  OBVIOUS
<1>2. s \in [1 .. n -> Range(s)]
  BY <1>1 DEF Range
<1> QED
  BY <1>1, <1>2

(* What is left of a sequence without its first element *)
LEMMA RangeOfHeadAndTail ==
    ASSUME NEW S, NEW s \in Seq(S), s # <<>>
    PROVE  Tail(s) \in Seq(S) /\ Range(s) = {Head(s)} \cup Range(Tail(s))
<1>1. Len(s) \in Nat \ {0} /\ DOMAIN s = 1 .. Len(s) /\ Tail(s) \in Seq(S)
  OBVIOUS
<1>2. /\ DOMAIN Tail(s) = 1 .. Len(s) - 1
      /\ \A i \in 1 .. Len(s) - 1 : Tail(s)[i] = s[i + 1]
  BY <1>1
<1>3. Head(s) = s[1]
  OBVIOUS
<1>4. ASSUME NEW x \in Range(s) PROVE x \in {Head(s)} \cup Range(Tail(s))
  <2>1. PICK i \in 1 .. Len(s) : x = s[i]
    BY <1>1, <1>4 DEF Range
  <2>2. CASE i = 1
    BY <2>1, <2>2, <1>3
  <2>3. CASE i # 1
    <3>1. i - 1 \in 1 .. Len(s) - 1 /\ x = Tail(s)[i - 1]
      BY <1>1, <1>2, <2>1, <2>3
    <3> QED
      BY <3>1, <1>2 DEF Range
  <2> QED
    BY <2>2, <2>3
<1>5. ASSUME NEW x \in {Head(s)} \cup Range(Tail(s)) PROVE x \in Range(s)
  <2>1. CASE x = Head(s)
    BY <2>1, <1>1, <1>3 DEF Range
  <2>2. CASE x \in Range(Tail(s))
    <3>1. PICK i \in 1 .. Len(s) - 1 : x = s[i + 1]
      BY <1>2, <2>2 DEF Range
    <3> QED
      BY <3>1, <1>1 DEF Range
  <2> QED
    BY <1>5, <2>1, <2>2
<1> QED
  BY <1>1, <1>4, <1>5

(* A concatenation has the elements of its parts. *)
LEMMA RangeOfConcatenation ==
    ASSUME NEW S, NEW s \in Seq(S), NEW t \in Seq(S)
    PROVE  s \o t \in Seq(S) /\ Range(s \o t) = Range(s) \cup Range(t)
<1>1. /\ s \o t \in Seq(S) /\ Len(s) \in Nat /\ Len(t) \in Nat
      /\ DOMAIN s = 1 .. Len(s) /\ DOMAIN t = 1 .. Len(t)
      /\ DOMAIN (s \o t) = 1 .. Len(s) + Len(t)
  OBVIOUS
<1>2. /\ \A i \in 1 .. Len(s) : (s \o t)[i] = s[i]
      /\ \A i \in 1 .. Len(t) : (s \o t)[Len(s) + i] = t[i]
  BY <1>1
<1>3. ASSUME NEW x \in Range(s \o t) PROVE x \in Range(s) \cup Range(t)
  <2>1. PICK i \in 1 .. Len(s) + Len(t) : x = (s \o t)[i]
    BY <1>1, <1>3 DEF Range
  <2>2. CASE i <= Len(s)
    BY <1>1, <1>2, <2>1, <2>2 DEF Range
  <2>3. CASE i > Len(s)
    <3>1. i - Len(s) \in 1 .. Len(t) /\ Len(s) + (i - Len(s)) = i
      BY <1>1, <2>1, <2>3
    <3>2. x = t[i - Len(s)]
      BY <1>2, <2>1, <3>1
    <3> QED
      BY <1>1, <3>1, <3>2 DEF Range
  <2> QED
    BY <1>1, <2>1, <2>2, <2>3
<1>4. Range(s) \subseteq Range(s \o t)
  BY <1>1, <1>2 DEF Range
<1>5. ASSUME NEW x \in Range(t) PROVE x \in Range(s \o t)
  <2>1. PICK i \in 1 .. Len(t) : x = t[i]
    BY <1>1, <1>5 DEF Range
  <2>2. Len(s) + i \in 1 .. Len(s) + Len(t)
    BY <1>1, <2>1
  <2> QED
    BY <1>1, <1>2, <2>1, <2>2 DEF Range
<1> QED
  BY <1>1, <1>3, <1>4, <1>5

(* A directory after a file was taken from it *)
LEMMA TakeFromDirectory ==
    ASSUME NEW dir, NEW f
    PROVE  /\ DOMAIN Without(dir, f) = DOMAIN dir \ {f}
           /\ \A g \in DOMAIN dir \ {f} : Without(dir, f)[g] = dir[g]
BY DEF Without, Restrict

(* What the outputs of a description can be: their names are pairs of a     *)
(* stem and one of the two extensions that are moved.                       *)
Names(d) == Range(AuxFiles)
                \cup {H("elem"), H(d.lexem_info), H(d.scaner), Cpp(d.scaner),
                      H("print_lexem"), Cpp("print_lexem"), Cpp(d.scaner \o "-test")}

Contents == {"aux", "elem", "lexem_info", "header", "impl", "print_h", "print", "main"}

Files(d) == [file : Names(d), what : Contents]

(* move_by_ext() is called for each extension that an output has. *)
LEMMA NamesAreMoved ==
    ASSUME NEW d, NEW f \in Names(d)
    PROVE  f[2] \in {"h", "cpp"}
<1>1. CASE f \in Range(AuxFiles)
  <2>1. PICK i \in DOMAIN AuxFiles : f = AuxFiles[i]
    BY <1>1 DEF Range
  <2>2. AuxFiles[i] \in STRING \X {"h", "cpp"}
    BY <2>1, AuxFilesAssumption
  <2> QED
    BY <2>1, <2>2
<1>2. CASE f \notin Range(AuxFiles)
  BY <1>2 DEF Names, H, Cpp
<1> QED
  BY <1>1, <1>2

(* One file as a sequence of files *)
LEMMA OneFile ==
    ASSUME NEW d, NEW f \in Names(d), NEW w \in Contents
    PROVE  WrittenAs(f, w) \in Seq(Files(d))
BY DEF WrittenAs, Files

(* Both lists of outputs are sequences of files. *)
LEMMA OutputsAreFiles ==
    ASSUME NEW d, NEW e
    PROVE  ScanerFiles(d, e) \in Seq(Files(d)) /\ TestFiles(d) \in Seq(Files(d))
<1>1. Listed(AuxFiles, "aux") \in Seq(Files(d))
  <2>1. AuxFiles \in Seq(Range(AuxFiles))
    BY SequenceOfElements, AuxFilesAssumption
  <2>2. /\ Len(AuxFiles) \in Nat /\ DOMAIN AuxFiles = 1 .. Len(AuxFiles)
        /\ \A i \in 1 .. Len(AuxFiles) : AuxFiles[i] \in Names(d)
    BY <2>1 DEF Names
  <2>3. \A i \in 1 .. Len(AuxFiles) : [file |-> AuxFiles[i], what |-> "aux"] \in Files(d)
    BY <2>2 DEF Files, Contents
  <2>4. Listed(AuxFiles, "aux")
            = [i \in 1 .. Len(AuxFiles) |-> [file |-> AuxFiles[i], what |-> "aux"]]
    BY <2>2 DEF Listed
  <2> QED
    BY <2>2, <2>3, <2>4
<1>2. /\ H("elem") \in Names(d) /\ H(d.lexem_info) \in Names(d) /\ H(d.scaner) \in Names(d)
      /\ Cpp(d.scaner) \in Names(d) /\ H("print_lexem") \in Names(d)
      /\ Cpp("print_lexem") \in Names(d) /\ Cpp(d.scaner \o "-test") \in Names(d)
  BY DEF Names
<1>3. WrittenAs(H("elem"), "elem") \in Seq(Files(d))
  BY <1>2, OneFile DEF Contents
<1>4. /\ WrittenAs(H(d.lexem_info), "lexem_info") \in Seq(Files(d))
      /\ WrittenAs(H(d.scaner), "header") \in Seq(Files(d))
      /\ WrittenAs(Cpp(d.scaner), "impl") \in Seq(Files(d))
  <2>1. WrittenAs(H(d.lexem_info), "lexem_info") \in Seq(Files(d))
    BY <1>2, OneFile DEF Contents
  <2>2. WrittenAs(H(d.scaner), "header") \in Seq(Files(d))
    BY <1>2, OneFile DEF Contents
  <2>3. WrittenAs(Cpp(d.scaner), "impl") \in Seq(Files(d))
    BY <1>2, OneFile DEF Contents
  <2> QED
    BY <2>1, <2>2, <2>3
<1>5. /\ WrittenAs(H("print_lexem"), "print_h") \in Seq(Files(d))
      /\ WrittenAs(Cpp("print_lexem"), "print") \in Seq(Files(d))
      /\ WrittenAs(Cpp(d.scaner \o "-test"), "main") \in Seq(Files(d))
  <2>1. WrittenAs(H("print_lexem"), "print_h") \in Seq(Files(d))
    BY <1>2, OneFile DEF Contents
  <2>2. WrittenAs(Cpp("print_lexem"), "print") \in Seq(Files(d))
    BY <1>2, OneFile DEF Contents
  <2>3. WrittenAs(Cpp(d.scaner \o "-test"), "main") \in Seq(Files(d))
    BY <1>2, OneFile DEF Contents
  <2> QED
    BY <2>1, <2>2, <2>3
<1>6. ScanerFiles(d, e) \in Seq(Files(d))
  BY <1>1, <1>3, <1>4 DEF ScanerFiles
<1>7. TestFiles(d) \in Seq(Files(d))
  BY <1>5 DEF TestFiles
<1> QED
  BY <1>6, <1>7

(* What one run has to write *)
LEMMA RangeOfOutputs ==
    /\ ScanerFiles(desc, info.needed_Elem) \in Seq(Files(desc))
    /\ TestFiles(desc) \in Seq(Files(desc))
    /\ Outputs \in Seq(Files(desc))
    /\ Range(Outputs) = Range(ScanerFiles(desc, info.needed_Elem)) \cup Range(TestFiles(desc))
BY OutputsAreFiles, RangeOfConcatenation DEF Outputs

(* Without a clash the name of an output says which one it is. *)
LEMMA NamesTellApart ==
    ASSUME ~NamesClash, NEW o \in Range(Outputs), NEW p \in Range(Outputs), o.file = p.file
    PROVE  o = p
BY DEF NamesClash, Range

(* Before the first and after the last stage nothing is asked of the files. *)
LEMMA NothingAsked ==
    ASSUME phase \in {"idle", "read"}, to_write = <<>>
    PROVE  FilesInv
BY DEF FilesInv, StagesInOrder, EveryOutputIsSomewhere

(* The list of outputs depends on the description and on needed_Elem only. *)
LEMMA SameOutputs ==
    ASSUME desc' = desc, info' = info
    PROVE  Outputs' = Outputs /\ NamesClash' = NamesClash
BY DEF Outputs, NamesClash

(* One more file is in the current directory. *)
LEMMA WriteFileKeepsFiles == FilesInv /\ WriteFile => FilesInv'
<1> SUFFICES ASSUME FilesInv, WriteFile PROVE FilesInv'
  OBVIOUS
<1> DEFINE h == Head(to_write)
<1>1. /\ phase \in {"write", "write_test"} /\ to_write # <<>>
      /\ to_write \in Seq(Range(to_write)) /\ to_write' = Tail(to_write)
      /\ cwd' = Put(cwd, h.file, <<h.what, run>>)
      /\ <<desc, run, phase, info, missed>>' = <<desc, run, phase, info, missed>>
  BY DEF FilesInv, WriteFile
<1>2. /\ to_write' \in Seq(Range(to_write))
      /\ Range(to_write) = {h} \cup Range(to_write')
  BY <1>1, RangeOfHeadAndTail
<1>3. to_write' \in Seq(Range(to_write'))
  BY <1>2, SequenceOfElements
<1>4. Outputs' = Outputs /\ NamesClash' = NamesClash
  BY <1>1, SameOutputs
<1>5. Pending = {h} \cup Pending'
  BY <1>1, <1>2 DEF Pending
<1>6. Pending \subseteq Range(Outputs)
  BY <1>1 DEF FilesInv, StagesInOrder
<1>7. StagesInOrder'
  BY <1>1, <1>4, <1>5, <1>6 DEF StagesInOrder
<1>8. ASSUME ~missed', ~NamesClash', NEW o \in Range(Outputs)
      PROVE  o \in Pending' \/ In(cwd, o)'
  <2>1. o \in Pending \/ In(cwd, o)
    BY <1>1, <1>4, <1>8 DEF FilesInv, EveryOutputIsSomewhere
  <2>2. /\ h.file \in DOMAIN cwd' /\ cwd'[h.file] = <<h.what, run>> /\ run' = run
        /\ \A g \in DOMAIN cwd \ {h.file} : g \in DOMAIN cwd' /\ cwd'[g] = cwd[g]
    BY <1>1 DEF Put
  <2>3. CASE o = h
    BY <2>2, <2>3 DEF In
  <2>4. CASE o # h
    <3>1. o.file # h.file
      BY <1>4, <1>5, <1>6, <1>8, <2>4, NamesTellApart
    <3>2. In(cwd, o) => In(cwd, o)'
      BY <2>2, <3>1 DEF In
    <3> QED
      BY <1>5, <2>1, <2>4, <3>2
  <2> QED
    BY <2>3, <2>4
<1>9. ~missed' /\ ~NamesClash' => EveryOutputIsSomewhere'
  BY <1>1, <1>4, <1>8 DEF EveryOutputIsSomewhere
<1> QED
  BY <1>1, <1>3, <1>7, <1>9 DEF FilesInv

(* A file is not written: nothing is asked of this run any more.            *)
LEMMA MissFileKeepsFiles == FilesInv /\ MissFile => FilesInv'
<1> SUFFICES ASSUME FilesInv, MissFile PROVE FilesInv'
  OBVIOUS
<1>1. /\ phase \in {"write", "write_test"} /\ to_write # <<>>
      /\ to_write \in Seq(Range(to_write)) /\ to_write' = Tail(to_write)
      /\ <<desc, phase, info>>' = <<desc, phase, info>> /\ missed'
  BY DEF FilesInv, MissFile
<1>2. /\ to_write' \in Seq(Range(to_write))
      /\ Range(to_write) = {Head(to_write)} \cup Range(to_write')
  BY <1>1, RangeOfHeadAndTail
<1>3. to_write' \in Seq(Range(to_write'))
  BY <1>2, SequenceOfElements
<1>4. Pending' \subseteq Pending /\ Outputs' = Outputs
  BY <1>1, <1>2, SameOutputs DEF Pending
<1>5. StagesInOrder'
  BY <1>1, <1>4 DEF FilesInv, StagesInOrder
<1> QED
  BY <1>1, <1>3, <1>5 DEF FilesInv

(* All outputs of the scanner are to be written, and later those of the test. *)
LEMMA BeginWritingKeepsFiles == FilesInv /\ collected_data_to_info => FilesInv'
<1> SUFFICES ASSUME FilesInv, collected_data_to_info PROVE FilesInv'
  OBVIOUS
<1>1. /\ desc' = desc /\ phase' = "write"
      /\ to_write' = ScanerFiles(desc, info'.needed_Elem)
  BY DEF collected_data_to_info
<1>2. /\ to_write' \in Seq(Files(desc)) /\ TestFiles(desc) \in Seq(Files(desc))
      /\ Outputs' = to_write' \o TestFiles(desc)
  BY <1>1, OutputsAreFiles DEF Outputs
<1>3. to_write' \in Seq(Range(to_write'))
  BY <1>2, SequenceOfElements
<1>4. Range(Outputs)' = Pending'
  BY <1>1, <1>2, RangeOfConcatenation DEF Pending
<1>5. StagesInOrder' /\ EveryOutputIsSomewhere'
  BY <1>1, <1>4 DEF StagesInOrder, EveryOutputIsSomewhere
<1> QED
  BY <1>3, <1>5 DEF FilesInv

(* The outputs of the test become those to be written. *)
LEMMA WriteTestKeepsFiles == FilesInv /\ WriteTest => FilesInv'
<1> SUFFICES ASSUME FilesInv, WriteTest PROVE FilesInv'
  OBVIOUS
<1>1. /\ <<desc, run, info, cwd, missed>>' = <<desc, run, info, cwd, missed>>
      /\ phase = "write" /\ phase' = "write_test" /\ to_write = <<>>
      /\ to_write' = TestFiles(desc)
  BY DEF WriteTest, files
<1>2. to_write' \in Seq(Range(to_write'))
  BY <1>1, RangeOfOutputs, SequenceOfElements
<1>3. Pending' = Pending /\ Outputs' = Outputs /\ NamesClash' = NamesClash
  BY <1>1, SameOutputs DEF Pending, Range
<1>4. StagesInOrder'
  BY <1>1, <1>3 DEF FilesInv, StagesInOrder
<1>5. ~missed' /\ ~NamesClash' => EveryOutputIsSomewhere'
  BY <1>1, <1>3 DEF FilesInv, EveryOutputIsSomewhere, In
<1> QED
  BY <1>2, <1>4, <1>5 DEF FilesInv

(* When everything is written, every output is in the current directory.    *)
LEMMA BeginMovingKeepsFiles == FilesInv /\ BeginMoving => FilesInv'
<1> SUFFICES ASSUME FilesInv, BeginMoving PROVE FilesInv'
  OBVIOUS
<1>1. /\ <<desc, run, info, to_write, cwd, src, include, missed>>'
             = <<desc, run, info, to_write, cwd, src, include, missed>>
      /\ phase = "write_test" /\ phase' = "move_cpp" /\ to_write = <<>>
  BY DEF BeginMoving, files
<1>2. Pending = {} /\ Outputs' = Outputs /\ NamesClash' = NamesClash
  BY <1>1, SameOutputs DEF Pending, Range
<1>3. ~missed' /\ ~NamesClash' => EveryOutputIsSomewhere'
  BY <1>1, <1>2 DEF FilesInv, EveryOutputIsSomewhere, In
<1> QED
  BY <1>1, <1>3 DEF FilesInv, StagesInOrder

(* A file comes into its directory as it was. *)
LEMMA MoveCppKeepsFiles == FilesInv /\ MoveCpp => FilesInv'
<1> SUFFICES ASSUME FilesInv, MoveCpp PROVE FilesInv'
  OBVIOUS
<1>1. PICK f \in OfExt("cpp") : src' = With1(src, f) /\ cwd' = Without(cwd, f)
  BY DEF MoveCpp
<1>2. /\ <<desc, run, phase, info, to_write, include, missed>>'
             = <<desc, run, phase, info, to_write, include, missed>>
      /\ phase = "move_cpp" /\ f \in DOMAIN cwd /\ f[2] = "cpp"
  BY <1>1 DEF MoveCpp, OfExt
<1>3. Outputs' = Outputs /\ NamesClash' = NamesClash
  BY <1>2, SameOutputs
<1>4. /\ DOMAIN cwd' = DOMAIN cwd \ {f}
      /\ \A g \in DOMAIN cwd' : cwd'[g] = cwd[g]
      /\ f \in DOMAIN src' /\ src'[f] = cwd[f]
      /\ \A g \in DOMAIN src \ {f} : g \in DOMAIN src' /\ src'[g] = src[g]
      /\ run' = run /\ include' = include
  <2>1. cwd' = Without(cwd, f) /\ src' = Put(src, f, cwd[f])
    BY <1>1 DEF With1
  <2>2. DOMAIN cwd' = DOMAIN cwd \ {f} /\ \A g \in DOMAIN cwd' : cwd'[g] = cwd[g]
    BY <2>1, TakeFromDirectory
  <2>3. /\ f \in DOMAIN src' /\ src'[f] = cwd[f]
        /\ \A g \in DOMAIN src \ {f} : g \in DOMAIN src' /\ src'[g] = src[g]
    BY <2>1 DEF Put
  <2> QED
    BY <1>2, <2>2, <2>3
<1>5. ASSUME EveryOutputIsSomewhere, NEW o \in Range(Outputs)
      PROVE  /\ o.file \in DOMAIN cwd' => In(cwd, o)'
             /\ In(cwd, o)' \/ In(Target(o.file), o)'
  <2>1. /\ o.file \in DOMAIN cwd => In(cwd, o)
        /\ In(cwd, o) \/ In(Target(o.file), o)
    BY <1>2, <1>5 DEF EveryOutputIsSomewhere
  <2>2. CASE o.file = f
    BY <1>2, <1>4, <2>1, <2>2 DEF In, Target
  <2>3. CASE o.file # f
    BY <1>2, <1>4, <2>1, <2>3 DEF In, Target
  <2> QED
    BY <2>2, <2>3
<1>6. ~missed' /\ ~NamesClash' => EveryOutputIsSomewhere'
  BY <1>2, <1>3, <1>5 DEF FilesInv, EveryOutputIsSomewhere
<1> QED
  BY <1>2, <1>6 DEF FilesInv, StagesInOrder

(* The same for the other extension, of which no .cpp file is one *)
LEMMA MoveHKeepsFiles == FilesInv /\ MoveH => FilesInv'
<1> SUFFICES ASSUME FilesInv, MoveH PROVE FilesInv'
  OBVIOUS
<1>1. PICK f \in OfExt("h") : include' = With1(include, f) /\ cwd' = Without(cwd, f)
  BY DEF MoveH
<1>2. /\ <<desc, run, phase, info, to_write, src, missed>>'
             = <<desc, run, phase, info, to_write, src, missed>>
      /\ phase = "move_h" /\ f \in DOMAIN cwd /\ f[2] = "h"
  BY <1>1 DEF MoveH, OfExt
<1>3. Outputs' = Outputs /\ NamesClash' = NamesClash
  BY <1>2, SameOutputs
<1>4. /\ DOMAIN cwd' = DOMAIN cwd \ {f}
      /\ \A g \in DOMAIN cwd' : cwd'[g] = cwd[g]
      /\ f \in DOMAIN include' /\ include'[f] = cwd[f]
      /\ \A g \in DOMAIN include \ {f} : g \in DOMAIN include' /\ include'[g] = include[g]
      /\ run' = run /\ src' = src
  <2>1. cwd' = Without(cwd, f) /\ include' = Put(include, f, cwd[f])
    BY <1>1 DEF With1
  <2>2. DOMAIN cwd' = DOMAIN cwd \ {f} /\ \A g \in DOMAIN cwd' : cwd'[g] = cwd[g]
    BY <2>1, TakeFromDirectory
  <2>3. /\ f \in DOMAIN include' /\ include'[f] = cwd[f]
        /\ \A g \in DOMAIN include \ {f} : g \in DOMAIN include' /\ include'[g] = include[g]
    BY <2>1 DEF Put
  <2> QED
    BY <1>2, <2>2, <2>3
<1>5. ASSUME EveryOutputIsSomewhere, NEW o \in Range(Outputs)
      PROVE  /\ o.file \in DOMAIN cwd' => In(cwd, o)'
             /\ In(cwd, o)' \/ In(Target(o.file), o)'
  <2>1. /\ o.file \in DOMAIN cwd => In(cwd, o)
        /\ In(cwd, o) \/ In(Target(o.file), o)
    BY <1>2, <1>5 DEF EveryOutputIsSomewhere
  <2>2. CASE o.file = f
    BY <1>2, <1>4, <2>1, <2>2 DEF In, Target
  <2>3. CASE o.file # f
    BY <1>2, <1>4, <2>1, <2>3 DEF In, Target
  <2> QED
    BY <2>2, <2>3
<1>6. ~missed' /\ ~NamesClash' => EveryOutputIsSomewhere'
  BY <1>2, <1>3, <1>5 DEF FilesInv, EveryOutputIsSomewhere
<1>7. OfExt("cpp")' \subseteq OfExt("cpp")
  BY <1>4 DEF OfExt
<1> QED
  BY <1>2, <1>6, <1>7 DEF FilesInv, StagesInOrder

(* No .cpp file is left when the .h files are begun with. *)
LEMMA CppsMovedKeepsFiles == FilesInv /\ CppsMoved => FilesInv'
<1> SUFFICES ASSUME FilesInv, CppsMoved PROVE FilesInv'
  OBVIOUS
<1>1. /\ <<desc, run, info, to_write, cwd, src, include, missed>>'
             = <<desc, run, info, to_write, cwd, src, include, missed>>
      /\ phase = "move_cpp" /\ phase' = "move_h" /\ OfExt("cpp") = {}
  BY DEF CppsMoved, files
<1>2. Outputs' = Outputs /\ NamesClash' = NamesClash
  BY <1>1, SameOutputs
<1>3. ~missed' /\ ~NamesClash' => EveryOutputIsSomewhere'
  BY <1>1, <1>2 DEF FilesInv, EveryOutputIsSomewhere, In, Target
<1> QED
  BY <1>1, <1>3 DEF FilesInv, StagesInOrder, OfExt

(* The end of a run and the beginning of one *)
LEMMA OtherStepsKeepFiles ==
    ASSUME FilesInv,
           \/ Begin \/ NoText \/ Refuse \/ FoundErrors \/ HsMoved \/ Break
           \/ \E dir, at, code : CannotMove(dir, at, code)
    PROVE  FilesInv'
<1>1. phase' \in {"idle", "read"} /\ to_write' = <<>>
  BY DEF Begin, NoText, Refuse, FoundErrors, HsMoved, Break, CannotMove, End,
         FilesInv, StagesInOrder
<1> QED
  BY <1>1 DEF FilesInv, StagesInOrder, EveryOutputIsSomewhere

(* What is not written yet, what is written and what is moved make up the   *)
(* outputs of the run, at every moment of every history of runs and faults  *)
(* (src/cmdline_processing.cpp:52).                                         *)
THEOREM FilesInvariant == Spec => []FilesInv
<1>1. Init => FilesInv
  BY NothingAsked DEF Init
<1>2. FilesInv /\ [Next]_vars => FilesInv'
  <2> SUFFICES ASSUME FilesInv, [Next]_vars PROVE FilesInv'
    OBVIOUS
  <2>1. CASE Begin \/ Break
    BY <2>1, OtherStepsKeepFiles
  <2>2. CASE Step
    <3>1. CASE \/ NoText \/ Refuse \/ FoundErrors \/ HsMoved
               \/ CannotMove("src", "move_cpp", "Failed_moving_cpps")
               \/ CannotMove("include", "move_h", "Failed_moving_hs")
      BY <3>1, OtherStepsKeepFiles
    <3>2. CASE collected_data_to_info \/ WriteFile \/ MissFile \/ WriteTest
      BY <3>2, BeginWritingKeepsFiles, WriteFileKeepsFiles, MissFileKeepsFiles,
         WriteTestKeepsFiles
    <3>3. CASE BeginMoving \/ MoveCpp \/ CppsMoved \/ MoveH
      BY <3>3, BeginMovingKeepsFiles, MoveCppKeepsFiles, CppsMovedKeepsFiles, MoveHKeepsFiles
    <3> QED
      BY <2>2, <3>1, <3>2, <3>3 DEF Step
  <2>3. CASE UNCHANGED vars
    <3>1. Outputs' = Outputs /\ NamesClash' = NamesClash
      BY <2>3, SameOutputs DEF vars
    <3> QED
      BY <2>3, <3>1 DEF vars, FilesInv, StagesInOrder, EveryOutputIsSomewhere, Pending, In,
                        Target, OfExt
  <2> QED
    BY <2>1, <2>2, <2>3 DEF Next
<1> QED
  BY <1>1, <1>2, PTL DEF Spec

(* Success means that the outputs of the run are complete: whatever earlier *)
(* runs and faults left in the directories, every output is in src/ or      *)
(* include/ as this run wrote it (src/cmdline_processing.cpp:71).           *)
THEOREM SuccessLeavesAllOutputs == Spec => SuccessMeansComplete
<1> DEFINE Complete ==
        /\ \A i \in DOMAIN Outputs :
              /\ Outputs[i].file \in DOMAIN Target(Outputs[i].file)
              /\ Target(Outputs[i].file)[Outputs[i].file] = <<Outputs[i].what, run>>
        /\ OfExt("h") \cup OfExt("cpp") = {}
<1>1. ASSUME FilesInv, [Next]_vars, exit' # exit, exit' = "Success", ~missed, ~NamesClash
      PROVE  Complete
  <2>1. phase = "move_h" /\ OfExt("h") = {}
    BY <1>1 DEF vars, Next, Step, Begin, Break, End, NoText, Refuse, collected_data_to_info,
                WriteFile, MissFile, FoundErrors, WriteTest, BeginMoving, CannotMove,
                MoveCpp, CppsMoved, MoveH, HsMoved
  <2>2. OfExt("cpp") = {} /\ EveryOutputIsSomewhere
    BY <1>1, <2>1 DEF FilesInv, StagesInOrder
  <2>3. ASSUME NEW o \in Range(Outputs)
        PROVE  In(Target(o.file), o)
    <3>1. o \in Files(desc)
      BY <2>3, RangeOfOutputs DEF Range
    <3>2. o.file[2] \in {"h", "cpp"}
      BY <3>1, NamesAreMoved DEF Files
    <3>3. o.file \notin DOMAIN cwd
      BY <2>1, <2>2, <3>2 DEF OfExt
    <3> QED
      BY <2>1, <2>2, <2>3, <3>3 DEF EveryOutputIsSomewhere, In
  <2> QED
    BY <2>1, <2>2, <2>3 DEF In, Range
<1>2. FilesInv /\ [Next]_vars => [exit' = "Success" /\ ~missed /\ ~NamesClash => Complete]_exit
  BY <1>1
<1> QED
  BY <1>2, FilesInvariant, PTL DEF Spec, SuccessMeansComplete

-----------------------------------------------------------------------------
(* The operations on categories of characters *)

AnyCategory(Chars) == [kind : {All_chars, Set_of_cs, Set_of_cs_complement}, s : SUBSET Chars]

(* A complement that is built for a set, or All_chars if the set is empty,  *)
(* holds what is outside of the set.                                        *)
LEMMA AllButIsComplement ==
    ASSUME NEW z, NEW c
    PROVE  is_category_elem(c, AllBut(z)) <=> c \notin z
BY DEF is_category_elem, AllBut, Category, All_chars, Set_of_cs, Set_of_cs_complement

(* c1 + c2 holds the characters of c1 and those of c2 and no others         *)
(* (categories.cpp:119), whatever the kinds: the categories of grouped      *)
(* transitions, of the first characters of an expression and of the         *)
(* characters after keywords are such sums.                                 *)
THEOREM PlusIsUnion ==
    ASSUME NEW Chars, NEW c1 \in AnyCategory(Chars), NEW c2 \in AnyCategory(Chars), NEW c \in Chars
    PROVE  is_category_elem(c, Plus(c1, c2)) <=>
               is_category_elem(c, c1) \/ is_category_elem(c, c2)
<1> USE DEF AnyCategory, All_chars, Set_of_cs, Set_of_cs_complement
<1>1. CASE c1.kind = All_chars \/ c2.kind = All_chars
  BY <1>1 DEF Plus, is_category_elem, Category
<1>2. CASE c1.kind = Set_of_cs /\ c2.kind = Set_of_cs
  BY <1>2 DEF Plus, is_category_elem, Category
<1>3. CASE c1.kind = Set_of_cs /\ c2.kind = Set_of_cs_complement
  <2>1. Plus(c1, c2) = AllBut(c2.s \ c1.s)
    BY <1>3 DEF Plus
  <2>2. is_category_elem(c, Plus(c1, c2)) <=> c \notin c2.s \ c1.s
    BY <2>1, AllButIsComplement
  <2> QED
    BY <2>2, <1>3 DEF is_category_elem
<1>4. CASE c1.kind = Set_of_cs_complement /\ c2.kind = Set_of_cs
  <2>1. Plus(c1, c2) = AllBut(c1.s \ c2.s)
    BY <1>4 DEF Plus
  <2>2. is_category_elem(c, Plus(c1, c2)) <=> c \notin c1.s \ c2.s
    BY <2>1, AllButIsComplement
  <2> QED
    BY <2>2, <1>4 DEF is_category_elem
<1>5. CASE c1.kind = Set_of_cs_complement /\ c2.kind = Set_of_cs_complement
  <2>1. Plus(c1, c2) = AllBut(c1.s \cap c2.s)
    BY <1>5 DEF Plus
  <2>2. is_category_elem(c, Plus(c1, c2)) <=> c \notin c1.s \cap c2.s
    BY <2>1, AllButIsComplement
  <2> QED
    BY <2>2, <1>5 DEF is_category_elem
<1> QED
  BY <1>1, <1>2, <1>3, <1>4, <1>5

(* Where one of the categories is a set, c1 * c2 says truly whether they    *)
(* have a character in common (categories.cpp:171): so the verification of  *)
(* the first characters of keywords, delimiters and comments, which are     *)
(* sets, reports an intersection exactly if there is one.                   *)
THEOREM IntersectIsRight ==
    ASSUME NEW Chars, NEW c1 \in AnyCategory(Chars), NEW c2 \in AnyCategory(Chars),
           c1.kind = Set_of_cs \/ c2.kind = Set_of_cs
    PROVE  Intersect(c1, c2) <=>
               \E c \in Chars : is_category_elem(c, c1) /\ is_category_elem(c, c2)
<1> USE DEF AnyCategory, All_chars, Set_of_cs, Set_of_cs_complement, is_category_elem
<1>1. CASE c1.kind = Set_of_cs /\ c2.kind = Set_of_cs
  BY <1>1 DEF Intersect
<1>2. CASE c1.kind = Set_of_cs /\ c2.kind = Set_of_cs_complement
  BY <1>2 DEF Intersect
<1>3. CASE c1.kind = Set_of_cs_complement /\ c2.kind = Set_of_cs
  BY <1>3 DEF Intersect
<1>4. CASE c1.kind = Set_of_cs /\ c2.kind = All_chars
  BY <1>4 DEF Intersect
<1>5. CASE c1.kind = All_chars /\ c2.kind = Set_of_cs
  BY <1>5 DEF Intersect
<1> QED
  BY <1>1, <1>2, <1>3, <1>4, <1>5

(* Of two complements c1 * c2 (categories.cpp:201) compares the sets that   *)
(* are left out.  It misses a character in common where these sets are      *)
(* disjoint and do not make up the alphabet, and invents one where they     *)
(* overlap and do; it is right in the other cases only.  So two expressions *)
(* that both begin with nearly every character pass for separate ones.      *)
THEOREM ComplementsThatShareNothing ==
    ASSUME NEW Chars, NEW c1 \in AnyCategory(Chars), NEW c2 \in AnyCategory(Chars),
           c1.kind = Set_of_cs_complement, c2.kind = Set_of_cs_complement,
           NEW common,
           common = (\E c \in Chars : is_category_elem(c, c1) /\ is_category_elem(c, c2))
    PROVE  /\ c1.s \cap c2.s = {} /\ c1.s \cup c2.s # Chars => common /\ ~Intersect(c1, c2)
           /\ c1.s \cap c2.s # {} /\ c1.s \cup c2.s = Chars => ~common /\ Intersect(c1, c2)
           /\ (c1.s \cap c2.s # {} <=> c1.s \cup c2.s # Chars) => (common <=> Intersect(c1, c2))
<1>1. Intersect(c1, c2) <=> c1.s \cap c2.s # {}
  BY DEF AnyCategory, Intersect, Plus, AllBut, Category, All_chars, Set_of_cs, Set_of_cs_complement
<1>2. c1.s \subseteq Chars /\ c2.s \subseteq Chars
  BY DEF AnyCategory
<1>3. \A c \in Chars : is_category_elem(c, c1) /\ is_category_elem(c, c2) <=> c \notin c1.s \cup c2.s
  BY DEF is_category_elem, All_chars, Set_of_cs, Set_of_cs_complement
<1>4. common <=> c1.s \cup c2.s # Chars
  BY <1>2, <1>3
<1> QED
  BY <1>1, <1>4

(* Whether a set is a part of another category is answered truly            *)
(* (categories.cpp:221).                                                    *)
THEOREM SubcategoryOfSetIsRight ==
    ASSUME NEW Chars, NEW c1 \in AnyCategory(Chars), NEW c2 \in AnyCategory(Chars),
           c1.kind = Set_of_cs
    PROVE  is_subcategory(c1, c2) <=>
               \A c \in Chars : is_category_elem(c, c1) => is_category_elem(c, c2)
<1> USE DEF AnyCategory, All_chars, Set_of_cs, Set_of_cs_complement
<1>0. c2.kind \in {0, 1, 2} /\ c1.s \subseteq Chars
  OBVIOUS
<1>1. CASE c2.kind = 0
  <2>1. is_subcategory(c1, c2)
    BY <1>1 DEF is_subcategory
  <2>2. \A c \in Chars : is_category_elem(c, c2)
    BY <1>1 DEF is_category_elem
  <2> QED
    BY <2>1, <2>2
<1>2. CASE c2.kind = 1
  <2>1. is_subcategory(c1, c2) <=> c1.s \subseteq c2.s
    BY <1>2 DEF is_subcategory
  <2>2. \A c \in Chars : /\ is_category_elem(c, c1) <=> c \in c1.s
                         /\ is_category_elem(c, c2) <=> c \in c2.s
    BY <1>2 DEF is_category_elem
  <2> QED
    BY <2>1, <2>2, <1>0
<1>3. CASE c2.kind = 2
  <2>1. is_subcategory(c1, c2) <=> c1.s \cap c2.s = {}
    BY <1>3 DEF is_subcategory
  <2>2. \A c \in Chars : /\ is_category_elem(c, c1) <=> c \in c1.s
                         /\ is_category_elem(c, c2) <=> c \notin c2.s
    BY <1>3 DEF is_category_elem
  <2> QED
    BY <2>1, <2>2, <1>0
<1> QED
  BY <1>0, <1>1, <1>2, <1>3

-----------------------------------------------------------------------------
(* A set of natural numbers has a least element: what a recursive function  *)
(* computes is proved by looking at the least argument it fails for.        *)
LEMMA LeastNumber ==
    ASSUME NEW S \in SUBSET Nat, NEW n \in S
    PROVE  \E m \in S : \A k \in S : m <= k
<1> DEFINE R == {p \in Nat \X Nat : p[1] < p[2]}
<1>1. IsWellFoundedOn(R, Nat)
  BY NatLessThanWellFounded DEF OpToRel
<1>2. \E x \in S : \A y \in S : ~ (<<y, x>> \in R)
  BY <1>1, WFMin
<1>3. \A x, y \in S : <<y, x>> \notin R => x <= y
  <2> TAKE x, y \in S
  <2>1. <<y, x>> \in Nat \X Nat /\ <<y, x>>[1] = y /\ <<y, x>>[2] = x
    OBVIOUS
  <2>2. x \in Nat /\ y \in Nat
    OBVIOUS
  <2> QED
    BY <2>1, <2>2
<1> QED
  BY <1>2, <1>3, Zenon

(* A set of numbers up to n has a largest one.                              *)
LEMMA MaxIsMember ==
    ASSUME NEW n \in Nat, NEW S \in SUBSET (1 .. n), S # {}
    PROVE  Max(S) \in S
<1> DEFINE U == {u \in Nat : \A x \in S : x <= u}
<1>1. PICK u \in U : \A v \in U : u <= v
  <2>1. U \in SUBSET Nat /\ n \in U
    OBVIOUS
  <2> HIDE DEF U
  <2> QED
    BY <2>1, LeastNumber
<1>2. u \in Nat /\ \A x \in S : x <= u /\ x \in Nat /\ x >= 1
  OBVIOUS
<1>3. u \in S
  <2> SUFFICES ASSUME u \notin S PROVE FALSE
    OBVIOUS
  <2>1. \A x \in S : x <= u - 1
    BY <1>2
  <2>2. u - 1 \in Nat
    <3>1. PICK x \in S : TRUE
      OBVIOUS
    <3>2. u >= x /\ x >= 1 /\ x \in Nat
      BY <1>2
    <3> QED
      BY <1>2, <3>2
  <2>3. u - 1 \in U
    BY <2>1, <2>2
  <2> QED
    BY <1>1, <1>2, <2>3
<1>4. \E m \in S : \A k \in S : m >= k
  BY <1>2, <1>3
<1> QED
  BY <1>4, Zenon DEF Max

(* The union of empty categories, however many, is empty. *)
LEMMA UnionOfEmpties ==
    ASSUME NEW n \in Nat, NEW s, s = [j \in 1 .. n |-> EmptyCategory]
    PROVE  FoldLeft(Plus, EmptyCategory, s) = EmptyCategory
<1> DEFINE D == DOMAIN s
           Def(f) == [S \in SUBSET D |->
                         IF S = {} THEN EmptyCategory
                         ELSE LET x == Max(S) IN Plus(f[S \ {x}], s[x])]
           empty == [S \in SUBSET D |-> EmptyCategory]
<1>0. Plus(EmptyCategory, EmptyCategory) = EmptyCategory
  BY DEF Plus, EmptyCategory, Category, Set_of_cs, All_chars, Set_of_cs_complement
<1>1. \A S \in SUBSET D : S # {} => Max(S) \in S
  BY MaxIsMember
<1>2. \A x \in D : s[x] = EmptyCategory
  OBVIOUS
<1>3. empty = Def(empty)
  <2> HIDE DEF D
  <2>1. \A S \in SUBSET D : S # {} => /\ empty[S \ {Max(S)}] = EmptyCategory
                                      /\ s[Max(S)] = EmptyCategory
    BY <1>1, <1>2
  <2>2. \A S \in SUBSET D :
            (IF S = {} THEN EmptyCategory
             ELSE LET x == Max(S) IN Plus(empty[S \ {x}], s[x])) = EmptyCategory
    BY <2>1, <1>0
  <2> QED
    BY <2>2
<1>4. ASSUME NEW f, f = Def(f)
      PROVE  f[D] = EmptyCategory
  <2> DEFINE wrong == {S \in SUBSET D : f[S] # EmptyCategory}
  <2> SUFFICES ASSUME wrong # {} PROVE FALSE
    OBVIOUS
  <2>1. IsWellFoundedOn(StrictSubsetOrdering(D), SUBSET D)
    <3>1. IsFiniteSet(D)
      <4>1. IsFiniteSet(1 .. n)
        BY FS_Interval
      <4> QED
        BY <4>1
    <3> HIDE DEF D
    <3> QED
      BY <3>1, FS_StrictSubsetOrderingWellFounded, FS_FiniteSubsetsOfFinite
  <2> HIDE DEF D
  <2>2. PICK S \in wrong : \A T \in wrong : <<T, S>> \notin StrictSubsetOrdering(D)
    <3>1. wrong \subseteq SUBSET D
      OBVIOUS
    <3> HIDE DEF wrong
    <3> QED
      BY <2>1, <3>1, WFMin
  <2>3. S \in SUBSET D /\ f[S] # EmptyCategory
    OBVIOUS
  <2>4. \A T \in SUBSET D : f[T] = IF T = {} THEN EmptyCategory
                                   ELSE Plus(f[T \ {Max(T)}], s[Max(T)])
    BY <1>4
  <2>5. S # {}
    BY <2>3, <2>4
  <2> DEFINE T == S \ {Max(S)}
  <2>6. Max(S) \in S /\ T \in SUBSET D /\ T # S /\ T \subseteq S
    BY <1>1, <2>3, <2>5
  <2>7. <<T, S>> \in StrictSubsetOrdering(D)
    BY <2>3, <2>6 DEF StrictSubsetOrdering
  <2>8. f[T] = EmptyCategory
    <3> HIDE DEF T
    <3> QED
      BY <2>2, <2>6, <2>7
  <2>9. s[Max(S)] = EmptyCategory
    BY <1>2, <2>3, <2>6
  <2> QED
    BY <1>0, <2>3, <2>4, <2>5, <2>8, <2>9
<1> DEFINE iter == CHOOSE f : f = Def(f)
<1>5. iter = Def(iter)
  <2> HIDE DEF Def, empty
  <2> QED
    BY <1>3, Zenon
<1>6. FoldLeft(Plus, EmptyCategory, s) = iter[D]
  BY DEF FoldLeft, MapThenFoldSet
<1> HIDE DEF iter, Def
<1> QED
  BY <1>4, <1>5, <1>6

(* first_chars() gives the empty set for every expression: of the case      *)
(* analysis in command2category only the default is left.                   *)
LEMMA NoFirstChars ==
    ASSUME NEW buf, OperandsFirst(buf), buf # <<>>
    PROVE  first_chars(buf) = EmptyCategory
<1> DEFINE Of(com, f) ==
               CASE com.name = "Or" -> Plus(f[com.first + 1], f[com.second + 1])
                 [] com.name \in {"Concat", "Multiconcat"} \cup Unary -> f[com.first + 1]
                 [] com.name = "Multior" ->
                        FoldLeft(Plus, EmptyCategory,
                                 [j \in 1 .. com.second - com.first + 1 |->
                                     command2category(buf[com.first + j])])
                 [] OTHER -> EmptyCategory
           Def(f) == [i \in DOMAIN buf |-> LET com == buf[i] IN Of(com, f)]
           empty == [i \in DOMAIN buf |-> EmptyCategory]
<1>0. Plus(EmptyCategory, EmptyCategory) = EmptyCategory
  BY DEF Plus, EmptyCategory, Category, Set_of_cs, All_chars, Set_of_cs_complement
<1>1. /\ Len(buf) \in Nat /\ Len(buf) \in DOMAIN buf /\ DOMAIN buf = 1 .. Len(buf)
      /\ \A k \in DOMAIN buf : buf[k].first \in Nat /\ buf[k].second \in Nat
  <2> DEFINE C == [name : STRING, first : Nat, second : Nat, action : Nat]
  <2>1. buf \in Seq(C)
    BY DEF OperandsFirst
  <2>2. \A c \in C : c.first \in Nat /\ c.second \in Nat
    OBVIOUS
  <2> HIDE DEF C
  <2>3. Len(buf) \in Nat /\ DOMAIN buf = 1 .. Len(buf) /\ Len(buf) # 0
    BY <2>1
  <2>4. \A k \in DOMAIN buf : buf[k] \in C
    BY <2>1
  <2> QED
    BY <2>2, <2>3, <2>4
<1>2. ASSUME NEW k \in DOMAIN buf, NEW f,
             \A j \in 1 .. k - 1 : f[j] = EmptyCategory
      PROVE  Of(buf[k], f) = EmptyCategory
  <2> DEFINE com == buf[k]
  <2>1. CASE com.name = "Or"
    <3>1. com.first + 1 \in 1 .. k - 1 /\ com.second + 1 \in 1 .. k - 1
      <4>1. com.first + 1 < k /\ com.second + 1 < k
        BY <2>1 DEF OperandsFirst
      <4>2. com.first \in Nat /\ com.second \in Nat /\ k \in Nat
        BY <1>1
      <4> HIDE DEF com
      <4> QED
        BY <4>1, <4>2
    <3> QED
      BY <1>0, <1>2, <2>1, <3>1
  <2>2. CASE com.name \in {"Concat", "Multiconcat"} \cup Unary
    <3>1. com.first + 1 \in 1 .. k - 1
      <4>1. com.first + 1 < k
        BY <2>2 DEF OperandsFirst
      <4>2. com.first \in Nat /\ k \in Nat
        BY <1>1
      <4> HIDE DEF com
      <4> QED
        BY <4>1, <4>2
    <3> QED
      BY <1>2, <2>2, <3>1 DEF Unary
  <2>3. CASE com.name = "Multior"
    <3> DEFINE n == com.second - com.first + 1
               s == [j \in 1 .. n |-> command2category(buf[com.first + j])]
    <3>1. FoldLeft(Plus, EmptyCategory, s) = EmptyCategory
      <4>1. s = [j \in 1 .. n |-> EmptyCategory]
        BY DEF command2category
      <4>2. CASE n \in Nat
        BY <4>1, <4>2, UnionOfEmpties
      <4>3. CASE n \notin Nat
        <5>1. n \in Int
          BY <1>1
        <5> HIDE DEF n
        <5>2. 1 .. n = 1 .. 0
          BY <4>3, <5>1
        <5>3. s = [j \in 1 .. 0 |-> EmptyCategory]
          BY <4>1, <5>2
        <5> QED
          BY <5>3, UnionOfEmpties
      <4> QED
        BY <4>2, <4>3
    <3>2. Of(com, f) = FoldLeft(Plus, EmptyCategory, s)
      BY <2>3, Zenon DEF Unary
    <3> QED
      BY <3>1, <3>2
  <2>4. CASE com.name \notin {"Or", "Concat", "Multiconcat", "Multior"} \cup Unary
    BY <2>4
  <2> QED
    BY <2>1, <2>2, <2>3, <2>4
<1> HIDE DEF Of
<1>3. empty = Def(empty)
  <2>1. \A k \in DOMAIN buf : Of(buf[k], empty) = EmptyCategory
    <3> TAKE k \in DOMAIN buf
    <3>1. \A j \in 1 .. k - 1 : empty[j] = EmptyCategory
      BY <1>1
    <3> HIDE DEF empty
    <3> QED
      BY <1>2, <3>1
  <2> QED
    BY <2>1
<1>4. ASSUME NEW f, f = Def(f)
      PROVE  f[Len(buf)] = EmptyCategory
  <2> DEFINE wrong == {k \in DOMAIN buf : f[k] # EmptyCategory}
  <2> SUFFICES ASSUME Len(buf) \in wrong PROVE FALSE
    BY <1>1
  <2>1. PICK k \in wrong : \A j \in wrong : k <= j
    <3>1. wrong \in SUBSET Nat
      BY <1>1
    <3> HIDE DEF wrong
    <3> QED
      BY <3>1, LeastNumber
  <2>2. k \in DOMAIN buf /\ f[k] # EmptyCategory
    OBVIOUS
  <2>3. \A j \in 1 .. k - 1 : f[j] = EmptyCategory
    <3> SUFFICES ASSUME NEW j \in 1 .. k - 1, f[j] # EmptyCategory PROVE FALSE
      OBVIOUS
    <3>1. j \in DOMAIN buf /\ j < k
      BY <1>1, <2>2
    <3>2. k <= j
      BY <2>1, <3>1
    <3> QED
      BY <1>1, <2>2, <3>1, <3>2
  <2>4. f[k] = Of(buf[k], f)
    BY <1>4, <2>2
  <2> QED
    BY <1>2, <2>2, <2>3, <2>4
<1> DEFINE categ == CHOOSE f : f = Def(f)
<1>5. categ = Def(categ)
  <2> HIDE DEF Def, empty
  <2> QED
    BY <1>3, Zenon
<1>6. first_chars(buf) = categ[Len(buf)]
  BY DEF first_chars, Of
<1> HIDE DEF categ, Def
<1> QED
  BY <1>4, <1>5, <1>6

-----------------------------------------------------------------------------
(* What a description may be: of the kinds of lexemes that have an          *)
(* expression, it is a buffer of commands.                                  *)
IsDescription(d) ==
    \A k \in Literals :
        /\ OperandsFirst(d.regexp[k])
        /\ k \in d.used \ {"Id"} => d.regexp[k] # <<>>

(* The automata of a generated scanner (Automaton_name) *)
Automaton == {"A_start", "A_unknown", "A_keyword", "A_ident", "A_string", "A_number",
              "A_delimiter"}

(* The tests that start_proc may get: those of delimiters, and those of no  *)
(* character.                                                               *)
Tests == {If({}, a) : a \in Automaton}
             \cup (IF "Delimiter" \in desc.used THEN {If(MarkBeginnings, "A_delimiter")} ELSE {})

Infos == [ifs : Seq(Tests), automata : Seq(Automaton), needed_Elem : BOOLEAN,
          comments : {"none", "No_comments", "There_are_all"}, errors : Nat]

(* Append adds one element. *)
LEMMA AppendedElements ==
    ASSUME NEW S, NEW s \in Seq(S), NEW x \in S
    PROVE  Append(s, x) \in Seq(S) /\ Range(Append(s, x)) = Range(s) \cup {x}
<1>1. /\ Append(s, x) \in Seq(S)
      /\ Len(s) \in Nat /\ DOMAIN s = 1 .. Len(s)
      /\ DOMAIN Append(s, x) = 1 .. Len(s) + 1
      /\ \A j \in 1 .. Len(s) : Append(s, x)[j] = s[j]
      /\ Append(s, x)[Len(s) + 1] = x
  OBVIOUS
<1>2. 1 .. Len(s) + 1 = (1 .. Len(s)) \cup {Len(s) + 1}
  BY <1>1
<1> QED
  BY <1>1, <1>2 DEF Range

(* A stage that adds a test and an automaton keeps those there are.         *)
Grown(i, j) == /\ j \in Infos
               /\ Range(i.ifs) \subseteq Range(j.ifs)
               /\ Range(i.automata) \subseteq Range(j.automata)

(* An automaton without a test, as the first two stages add it *)
LEMMA AutomatonAdded ==
    ASSUME NEW i \in Infos, NEW a \in Automaton
    PROVE  LET j == [i EXCEPT !.automata = Append(@, a)]
           IN  j \in Infos /\ Range(j.automata) = Range(i.automata) \cup {a}
<1> DEFINE as == Append(i.automata, a)
           j == [i EXCEPT !.automata = as]
<1>1. i.automata \in Seq(Automaton)
  BY DEF Infos
<1>2. as \in Seq(Automaton) /\ Range(as) = Range(i.automata) \cup {a}
  BY <1>1, AppendedElements
<1>3. [i EXCEPT !.automata = Append(@, a)] = j
  OBVIOUS
<1> HIDE DEF as
<1>4. j \in Infos /\ j.automata = as
  BY <1>2 DEF Infos
<1> HIDE DEF j
<1> QED
  BY <1>2, <1>3, <1>4

(* A test of chars for the automaton a, and the automaton b, are added. *)
WithTest(i, chars, a, b) ==
    [i EXCEPT !.ifs = Append(@, If(chars, a)), !.automata = Append(@, b)]

(* A test that the description may get stays the only thing added.          *)
LEMMA TestAdded ==
    ASSUME NEW i \in Infos, NEW chars, NEW a \in Automaton, NEW b \in Automaton, If(chars, a) \in Tests
    PROVE  /\ Grown(i, WithTest(i, chars, a, b))
           /\ If(chars, a) \in Range(WithTest(i, chars, a, b).ifs)
           /\ b \in Range(WithTest(i, chars, a, b).automata)
<1> DEFINE x == If(chars, a)
           fs == Append(i.ifs, x)
           as == Append(i.automata, b)
           j == [i EXCEPT !.ifs = fs, !.automata = as]
<1>0. i.ifs \in Seq(Tests) /\ i.automata \in Seq(Automaton)
  BY DEF Infos
<1>1. /\ fs \in Seq(Tests) /\ Range(fs) = Range(i.ifs) \cup {x}
      /\ as \in Seq(Automaton) /\ Range(as) = Range(i.automata) \cup {b}
  BY <1>0, AppendedElements
<1>2. WithTest(i, chars, a, b) = j
  BY DEF WithTest
<1> HIDE DEF fs, as, x
<1>3. j \in Infos /\ j.ifs = fs /\ j.automata = as
  BY <1>1 DEF Infos
<1> HIDE DEF j
<1> QED
  BY <1>1, <1>2, <1>3 DEF x, Grown

(* A test of no character may be added by any kind of lexeme. *)
LEMMA EmptyTest ==
    ASSUME NEW i \in Infos, NEW chars, chars = {}, NEW a \in Automaton, NEW b \in Automaton
    PROVE  Grown(i, WithTest(i, chars, a, b))
<1>1. If(chars, a) \in Tests
  BY DEF Tests
<1> QED
  BY <1>1, TestAdded

(* first_chars() of an expression of the description has no characters. *)
LEMMA NoCharsOfLiterals ==
    ASSUME IsDescription(desc), verify, NEW k \in Literals, k \in desc.used
    PROVE  first_chars(desc.regexp[k]).s = {}
<1>1. OperandsFirst(desc.regexp[k]) /\ desc.regexp[k] # <<>>
  <2>1. OperandsFirst(desc.regexp[k]) /\ (k \in desc.used \ {"Id"} => desc.regexp[k] # <<>>)
    BY Zenon DEF IsDescription
  <2>2. "Id" \in desc.used => desc.regexp["Id"] # <<>>
    BY DEF verify
  <2>3. desc.regexp[k] # <<>>
    <3>1. CASE k = "Id"
      BY <2>2, <3>1
    <3>2. CASE k # "Id"
      BY <2>1, <3>2
    <3> QED
      BY <3>1, <3>2
  <2> QED
    BY <2>1, <2>3
<1>2. first_chars(desc.regexp[k]) = EmptyCategory
  BY <1>1, NoFirstChars
<1> QED
  BY <1>2 DEF EmptyCategory, Category

(* The stages one by one *)
LEMMA IdentAndKeywordsGrow ==
    ASSUME NEW i \in Infos, IsDescription(desc), verify
    PROVE  Grown(i, IdentAndKeywords(i))
<1>1. first_elems(keyword_strings) = {}
  BY DEF first_elems, keyword_strings
<1>2. "Id" \in desc.used => first_chars(desc.regexp["Id"]).s = {}
  BY NoCharsOfLiterals DEF Literals
<1> DEFINE e == [i EXCEPT !.needed_Elem = TRUE]
<1>3. e \in Infos /\ e.ifs = i.ifs /\ e.automata = i.automata
  BY DEF Infos
<1>4. ASSUME NEW x \in Infos
      PROVE  /\ Grown(x, generate_separate_keywords_automaton(x))
             /\ "Id" \in desc.used => Grown(x, generate_separate_identifier_automat(x))
  <2>1. generate_separate_keywords_automaton(x) =
            WithTest(x, first_elems(keyword_strings), "A_keyword", "A_keyword")
    BY DEF generate_separate_keywords_automaton, With_if, WithTest
  <2>2. generate_separate_identifier_automat(x) =
            WithTest(x, first_chars(desc.regexp["Id"]).s, "A_ident", "A_ident")
    BY DEF generate_separate_identifier_automat, With_if, WithTest
  <2>3. Grown(x, WithTest(x, first_elems(keyword_strings), "A_keyword", "A_keyword"))
    BY <1>1, EmptyTest DEF Automaton
  <2>4. "Id" \in desc.used =>
            Grown(x, WithTest(x, first_chars(desc.regexp["Id"]).s, "A_ident", "A_ident"))
    BY <1>2, EmptyTest DEF Automaton
  <2> QED
    BY <2>1, <2>2, <2>3, <2>4
<1>5. CASE {"Id", "Keyword"} \subseteq desc.used
  <2> DEFINE k == generate_separate_keywords_automaton(e)
             chars == first_chars(desc.regexp["Id"]).s \ first_elems(keyword_strings)
             j == WithTest(k, chars, "A_ident", "A_ident")
  <2>1. Grown(e, k)
    BY <1>3, <1>4
  <2>2. chars = {}
    BY <1>2, <1>5
  <2>3. IdentAndKeywords(i) = j
    <3>1. IdentAndKeywords(i) = Id_with_keyw(i)
      BY <1>5 DEF IdentAndKeywords
    <3> QED
      BY <3>1, Zenon DEF Id_with_keyw, all_keywords_are_idents_case, With_if, WithTest,
                         keyword_automaton, generate_separate_keywords_automaton
  <2> HIDE DEF k, chars
  <2>4. Grown(k, j)
    <3>1. k \in Infos
      BY <2>1 DEF Grown
    <3> QED
      BY <2>2, <3>1, EmptyTest DEF Automaton
  <2> HIDE DEF j, e
  <2> QED
    BY <1>3, <2>1, <2>3, <2>4 DEF Grown
<1>6. CASE "Id" \in desc.used /\ "Keyword" \notin desc.used
  BY <1>4, <1>6 DEF IdentAndKeywords
<1>7. CASE "Id" \notin desc.used /\ "Keyword" \in desc.used
  <2> DEFINE k == generate_separate_keywords_automaton(i)
             j == [k EXCEPT !.needed_Elem = TRUE]
  <2>1. Grown(i, k)
    BY <1>4
  <2>2. IdentAndKeywords(i) = j
    BY <1>7 DEF IdentAndKeywords
  <2> HIDE DEF k
  <2>3. j \in Infos /\ j.ifs = k.ifs /\ j.automata = k.automata
    BY <2>1 DEF Infos, Grown
  <2> QED
    BY <2>1, <2>2, <2>3 DEF Grown
<1>8. CASE "Id" \notin desc.used /\ "Keyword" \notin desc.used
  BY <1>8 DEF IdentAndKeywords, Grown
<1> QED
  BY <1>5, <1>6, <1>7, <1>8

(* One mark: its string becomes a delimiter if it is new, and an error is   *)
(* counted if it is not or its code is an identifier already.               *)
LEMMA FictiveDelimiter ==
    ASSUME NEW t, t.errors \in Nat, NEW i \in 1 .. 3, NEW m, m = mark_list[i],
           NEW u, u = add_fictive_delimiter(t, i)
    PROVE  /\ u.errors \in Nat /\ u.errors >= t.errors
           /\ u.strsc = t.strsc \cup (IF m = <<>> THEN {} ELSE {m})
           /\ u.del = t.del \cup (IF m = <<>> \/ m \in t.strsc THEN {} ELSE {m})
           /\ u.errors = t.errors <=>
                 m = <<>> \/ (fictive_codes[i] \notin desc.idsc /\ m \notin t.strsc)
<1>1. CASE m = <<>>
  BY <1>1 DEF add_fictive_delimiter
<1>2. CASE m # <<>>
  <2> DEFINE code == IF fictive_codes[i] \in desc.idsc THEN 1 ELSE 0
             string == IF m \notin t.strsc THEN 0 ELSE 1
  <2>1. u = [strsc  |-> t.strsc \cup {m},
             del    |-> IF m \notin t.strsc THEN t.del \cup {m} ELSE t.del,
             errors |-> t.errors + code + string]
    BY <1>2 DEF add_fictive_delimiter
  <2>2. /\ u.strsc = t.strsc \cup {m}
        /\ u.del = IF m \notin t.strsc THEN t.del \cup {m} ELSE t.del
        /\ u.errors = t.errors + code + string
    BY <2>1
  <2>3. code \in {0, 1} /\ string \in {0, 1}
    OBVIOUS
  <2>4. /\ code = 0 <=> fictive_codes[i] \notin desc.idsc
        /\ string = 0 <=> m \notin t.strsc
    OBVIOUS
  <2> HIDE DEF code, string
  <2>5. u.errors \in Nat /\ u.errors >= t.errors
    BY <2>2, <2>3
  <2>6. u.errors = t.errors <=> code = 0 /\ string = 0
    BY <2>2, <2>3
  <2> QED
    BY <1>2, <2>2, <2>4, <2>5, <2>6
<1> QED
  BY <1>1, <1>2

(* All of them: the delimiters are the marks that had no role before, each  *)
(* once, and errors are counted exactly if the marks clash.                 *)
LEMMA FictiveDelimiters ==
    /\ add_fictive_delimiters.errors \in Nat
    /\ add_fictive_delimiters.errors > 0 <=> MarksClash
    /\ first_elems(del_repres) = MarkBeginnings
<1> DEFINE none == [strsc |-> desc.strsc, del |-> {}, errors |-> 0]
           single == add_fictive_delimiter(none, 1)
           begin == add_fictive_delimiter(single, 2)
           end == add_fictive_delimiter(begin, 3)
<1>1. none.strsc = desc.strsc /\ none.del = {} /\ none.errors = 0
  OBVIOUS
<1>2. CASE "Comment" \notin desc.used
  <2>1. add_fictive_delimiters = none
    BY <1>2 DEF add_fictive_delimiters
  <2>2. GivenMarks = {}
    BY <1>2 DEF GivenMarks
  <2> QED
    BY <1>1, <2>1, <2>2 DEF MarksClash, MarkBeginnings, del_repres, first_elems
<1>3. CASE "Comment" \in desc.used
  <2>1. add_fictive_delimiters = end
    BY <1>3 DEF add_fictive_delimiters
  <2>2. PICK m1, m2, m3 : m1 = mark_list[1] /\ m2 = mark_list[2] /\ m3 = mark_list[3]
    OBVIOUS
  <2>a. none.errors \in Nat
    BY <1>1
  <2>b. 1 \in 1 .. 3 /\ 2 \in 1 .. 3 /\ 3 \in 1 .. 3
    OBVIOUS
  <2> HIDE DEF none
  <2>3. /\ single.errors \in Nat /\ single.errors >= none.errors
        /\ single.strsc = none.strsc \cup (IF m1 = <<>> THEN {} ELSE {m1})
        /\ single.del = none.del \cup (IF m1 = <<>> \/ m1 \in none.strsc THEN {} ELSE {m1})
        /\ single.errors = none.errors <=>
              m1 = <<>> \/ (fictive_codes[1] \notin desc.idsc /\ m1 \notin none.strsc)
    BY <2>a, <2>b, <2>2, FictiveDelimiter
  <2> HIDE DEF single
  <2>4. /\ begin.errors \in Nat /\ begin.errors >= single.errors
        /\ begin.strsc = single.strsc \cup (IF m2 = <<>> THEN {} ELSE {m2})
        /\ begin.del = single.del \cup (IF m2 = <<>> \/ m2 \in single.strsc THEN {} ELSE {m2})
        /\ begin.errors = single.errors <=>
              m2 = <<>> \/ (fictive_codes[2] \notin desc.idsc /\ m2 \notin single.strsc)
    BY <2>2, <2>3, FictiveDelimiter
  <2> HIDE DEF begin
  <2>5. /\ end.errors \in Nat /\ end.errors >= begin.errors
        /\ end.del = begin.del \cup (IF m3 = <<>> \/ m3 \in begin.strsc THEN {} ELSE {m3})
        /\ end.errors = begin.errors <=>
              m3 = <<>> \/ (fictive_codes[3] \notin desc.idsc /\ m3 \notin begin.strsc)
    BY <2>2, <2>4, FictiveDelimiter
  <2> HIDE DEF end
  <2>6. end.errors = 0 <=> /\ end.errors = begin.errors /\ begin.errors = single.errors
                           /\ single.errors = none.errors
    BY <1>1, <2>3, <2>4, <2>5
  <2>7. GivenMarks = {i \in 1 .. 3 : mark_list[i] # <<>>}
    BY <1>3 DEF GivenMarks
  <2>8. /\ \A i \in 1 .. 3 : i = 1 \/ i = 2 \/ i = 3
        /\ 1 \in 1 .. 3 /\ 2 \in 1 .. 3 /\ 3 \in 1 .. 3 /\ 1 # 2 /\ 1 # 3 /\ 2 # 3
    OBVIOUS
  <2>9. MarksClash <=>
          \/ m1 # <<>> /\ (\/ m1 \in desc.strsc \/ fictive_codes[1] \in desc.idsc
                           \/ m2 = m1 \/ m3 = m1)
          \/ m2 # <<>> /\ (\/ m2 \in desc.strsc \/ fictive_codes[2] \in desc.idsc
                           \/ m1 = m2 \/ m3 = m2)
          \/ m3 # <<>> /\ (\/ m3 \in desc.strsc \/ fictive_codes[3] \in desc.idsc
                           \/ m1 = m3 \/ m2 = m3)
    BY <2>2, <2>7, <2>8 DEF MarksClash
  <2>10. end.errors = 0 <=> ~MarksClash
    BY <1>1, <2>3, <2>4, <2>5, <2>6, <2>9
  <2>11. end.del = {m \in {m1, m2, m3} : m # <<>> /\ m \notin desc.strsc}
    BY <1>1, <2>3, <2>4, <2>5
  <2>12. {mark_list[i] : i \in {j \in GivenMarks : mark_list[j] \notin desc.strsc}}
           = {m \in {m1, m2, m3} : m # <<>> /\ m \notin desc.strsc}
    BY <2>2, <2>7, <2>8
  <2>13. MarkBeginnings =
           {m[1] : m \in {mark_list[i] : i \in {j \in GivenMarks : mark_list[j] \notin desc.strsc}}}
    BY DEF MarkBeginnings
  <2> QED
    BY <2>1, <2>5, <2>10, <2>11, <2>12, <2>13 DEF del_repres, first_elems
<1> QED
  BY <1>2, <1>3

(* The stage of delimiters adds their test and their automaton. *)
LEMMA DelimitersGrow ==
    ASSUME NEW i \in Infos
    PROVE  /\ Grown(i, Delimiters(i))
           /\ "Delimiter" \in desc.used => /\ If(MarkBeginnings, "A_delimiter") \in Range(Delimiters(i).ifs)
                                            /\ "A_delimiter" \in Range(Delimiters(i).automata)
<1> DEFINE e == [i EXCEPT !.needed_Elem = TRUE]
<1>1. e \in Infos /\ e.ifs = i.ifs /\ e.automata = i.automata
  BY DEF Infos
<1>2. CASE "Delimiter" \in desc.used
  <2>1. If(MarkBeginnings, "A_delimiter") \in Tests
    BY <1>2 DEF Tests
  <2> DEFINE j == WithTest(e, MarkBeginnings, "A_delimiter", "A_delimiter")
  <2>2. Delimiters(i) = j
    BY <1>2, FictiveDelimiters DEF Delimiters, With_if, WithTest
  <2>3. /\ Grown(e, j)
        /\ If(MarkBeginnings, "A_delimiter") \in Range(j.ifs)
        /\ "A_delimiter" \in Range(j.automata)
    BY <1>1, <2>1, TestAdded DEF Automaton
  <2> HIDE DEF e, j
  <2> QED
    BY <1>1, <2>2, <2>3 DEF Grown
<1>3. CASE "Delimiter" \notin desc.used
  BY <1>3 DEF Delimiters, Grown
<1> QED
  BY <1>2, <1>3

(* The stages of strings and numbers add tests of no character. *)
LEMMA StringsAndNumbersGrow ==
    ASSUME NEW i \in Infos, IsDescription(desc), verify
    PROVE  Grown(i, Strings(i)) /\ Grown(i, Numbers(i))
<1>1. /\ "String" \in desc.used => first_chars(desc.regexp["String"]).s = {}
      /\ "Number" \in desc.used => first_chars(desc.regexp["Number"]).s = {}
  BY NoCharsOfLiterals DEF Literals
<1>2. Grown(i, i)
  BY DEF Grown
<1>3. Grown(i, Strings(i))
  <2>1. CASE "String" \in desc.used
    <3>1. Strings(i) = WithTest(i, first_chars(desc.regexp["String"]).s, "A_string", "A_string")
      BY <2>1 DEF Strings, With_if, WithTest
    <3> QED
      BY <1>1, <2>1, <3>1, EmptyTest DEF Automaton
  <2>2. CASE "String" \notin desc.used
    BY <1>2, <2>2 DEF Strings
  <2> QED
    BY <2>1, <2>2
<1>4. Grown(i, Numbers(i))
  <2>1. CASE "Number" \in desc.used
    <3>1. Numbers(i) = WithTest(i, first_chars(desc.regexp["Number"]).s, "A_string", "A_number")
      BY <2>1 DEF Numbers, WithTest
    <3> QED
      BY <1>1, <2>1, <3>1, EmptyTest DEF Automaton
  <2>2. CASE "Number" \notin desc.used
    BY <1>2, <2>2 DEF Numbers
  <2> QED
    BY <2>1, <2>2
<1> QED
  BY <1>3, <1>4

(* What the tests of a description are *)
LEMMA AutomataOfDescription ==
    ASSUME IsDescription(desc), verify
    PROVE  /\ implement_automata \in Infos
           /\ "A_start" \in Range(implement_automata.automata)
           /\ "Delimiter" \in desc.used =>
                 /\ If(MarkBeginnings, "A_delimiter") \in Range(implement_automata.ifs)
                 /\ "A_delimiter" \in Range(implement_automata.automata)
<1> DEFINE i0 == implement_unknown_automaton(implement_none_automaton(NoInfo))
           i1 == IdentAndKeywords(i0)
           i2 == Delimiters(i1)
           i3 == Strings(i2)
           i4 == Numbers(i3)
<1>1. i0 \in Infos /\ "A_start" \in Range(i0.automata)
  <2> DEFINE i == implement_none_automaton(NoInfo)
  <2>1. NoInfo \in Infos
    <3>1. <<>> \in Seq(Tests) /\ <<>> \in Seq(Automaton)
      OBVIOUS
    <3> QED
      BY <3>1 DEF NoInfo, Infos
  <2>2. i \in Infos /\ Range(i.automata) = Range(NoInfo.automata) \cup {"A_start"}
    BY <2>1, AutomatonAdded DEF implement_none_automaton, Automaton
  <2> HIDE DEF i
  <2>3. i0 \in Infos /\ Range(i0.automata) = Range(i.automata) \cup {"A_unknown"}
    BY <2>2, AutomatonAdded DEF implement_unknown_automaton, Automaton, i
  <2> QED
    BY <2>2, <2>3
<1> HIDE DEF i0
<1>2. Grown(i0, i1)
  BY <1>1, IdentAndKeywordsGrow
<1> HIDE DEF i1
<1>3. /\ Grown(i1, i2)
      /\ "Delimiter" \in desc.used => /\ If(MarkBeginnings, "A_delimiter") \in Range(i2.ifs)
                                       /\ "A_delimiter" \in Range(i2.automata)
  BY <1>2, DelimitersGrow DEF Grown
<1> HIDE DEF i2
<1>4. Grown(i2, i3)
  BY <1>3, StringsAndNumbersGrow DEF Grown
<1> HIDE DEF i3
<1>5. Grown(i3, i4)
  BY <1>4, StringsAndNumbersGrow DEF Grown
<1>6. implement_automata = i4
  BY DEF implement_automata, i0, i1, i2, i3
<1> HIDE DEF i4
<1> QED
  BY <1>1, <1>2, <1>3, <1>4, <1>5, <1>6 DEF Grown

-----------------------------------------------------------------------------
(* What a generated scanner knows of its description, from the generation   *)
(* to the end of the run; a test program is only made without errors.       *)
GeneratedInv ==
    /\ TypeOK
    /\ phase # "idle" => IsDescription(desc)
    /\ Generated =>
          /\ info \in Infos
          /\ "A_start" \in Range(info.automata)
          /\ "Delimiter" \in desc.used => /\ If(MarkBeginnings, "A_delimiter") \in Range(info.ifs)
                                          /\ "A_delimiter" \in Range(info.automata)
          /\ info.comments = Comment_kind
          /\ info.errors > 0 <=> MarksClash
    /\ phase \in {"write_test", "move_cpp", "move_h"} => info.errors = 0

(* Steps that leave the description and what is generated from it *)
LEMMA SameGenerated ==
    ASSUME GeneratedInv, TypeOK', UNCHANGED <<desc, info>>, phase # "idle",
           Generated' => Generated,
           phase' \in {"write_test", "move_cpp", "move_h"} => info.errors = 0
    PROVE  GeneratedInv'
<1>1. /\ Infos' = Infos /\ MarkBeginnings' = MarkBeginnings /\ Comment_kind' = Comment_kind
      /\ MarksClash' = MarksClash
  BY DEF Infos, Tests, MarkBeginnings, GivenMarks, mark_list, Comment_kind, MarksClash
<1>2. IsDescription(desc)'
  BY DEF GeneratedInv, IsDescription
<1> QED
  BY <1>1, <1>2 DEF GeneratedInv

(* A run begins with a description, and ends without one. *)
LEMMA BeginKeepsGenerated == GeneratedInv /\ Begin => GeneratedInv'
<1> SUFFICES ASSUME GeneratedInv, Begin PROVE GeneratedInv'
  OBVIOUS
<1>1. run \in Nat /\ run + 1 \in 1 .. MaxRuns /\ run' = run + 1
  BY DescriptionsAssumption DEF GeneratedInv, TypeOK, Begin
<1>2. IsDescription(desc')
  <2>1. desc' \in Descriptions[run + 1]
    BY DEF Begin
  <2> QED
    BY <1>1, <2>1, DescriptionsAssumption DEF IsDescription
<1>3. TypeOK'
  BY <1>1 DEF Begin, files, GeneratedInv, TypeOK
<1>4. ~Generated' /\ phase' = "read"
  BY DEF Begin, Generated
<1> QED
  BY <1>2, <1>3, <1>4 DEF GeneratedInv

(* The end of a run forgets its description. *)
LEMMA EndKeepsGenerated ==
    ASSUME GeneratedInv, NEW code, End(code),
           code \in {"File_processing_error", "There_are_syntax_errors", "Success",
                     "Failed_moving_cpps", "Failed_moving_hs", "terminated"},
           run' = run, faults' \in 0 .. MaxFaults, UNCHANGED files
    PROVE  GeneratedInv'
<1>1. TypeOK'
  BY DEF End, files, GeneratedInv, TypeOK, NoInfo
<1> QED
  BY <1>1 DEF End, GeneratedInv, Generated

(* All ways to end a run do so. *)
LEMMA EndsKeepGenerated ==
    ASSUME GeneratedInv,
           \/ NoText \/ Refuse \/ FoundErrors \/ HsMoved \/ Break
           \/ CannotMove("src", "move_cpp", "Failed_moving_cpps")
           \/ CannotMove("include", "move_h", "Failed_moving_hs")
    PROVE  GeneratedInv'
<1>1. faults \in 0 .. MaxFaults /\ MaxFaults \in Nat
  BY DescriptionsAssumption DEF GeneratedInv, TypeOK
<1>2. PICK code \in {"File_processing_error", "There_are_syntax_errors", "Success",
                     "Failed_moving_cpps", "Failed_moving_hs", "terminated"} : End(code)
  BY DEF NoText, Refuse, FoundErrors, HsMoved, Break, CannotMove
<1>3. run' = run /\ UNCHANGED files /\ faults' \in 0 .. MaxFaults
  BY <1>1 DEF NoText, Refuse, FoundErrors, HsMoved, Break, CannotMove
<1> QED
  BY <1>2, <1>3, EndKeepsGenerated

(* Generation makes it so. *)
LEMMA GenerationKeepsGenerated == GeneratedInv /\ collected_data_to_info => GeneratedInv'
<1> SUFFICES ASSUME GeneratedInv, collected_data_to_info PROVE GeneratedInv'
  OBVIOUS
<1> DEFINE i == implement_automata
           j == [i EXCEPT !.comments = Comment_kind, !.errors = add_fictive_delimiters.errors]
<1>1. /\ i \in Infos
      /\ "A_start" \in Range(i.automata)
      /\ "Delimiter" \in desc.used => /\ If(MarkBeginnings, "A_delimiter") \in Range(i.ifs)
                                      /\ "A_delimiter" \in Range(i.automata)
  BY AutomataOfDescription DEF collected_data_to_info, GeneratedInv
<1>2. /\ Comment_kind \in {"none", "No_comments", "There_are_all"}
      /\ add_fictive_delimiters.errors \in Nat
      /\ add_fictive_delimiters.errors > 0 <=> MarksClash
  BY FictiveDelimiters DEF Comment_kind
<1>3. info' = j /\ desc' = desc /\ phase' = "write"
  BY DEF collected_data_to_info
<1> HIDE DEF i
<1>4. /\ j \in Infos /\ j.ifs = i.ifs /\ j.automata = i.automata
      /\ j.comments = Comment_kind /\ j.errors = add_fictive_delimiters.errors
  BY <1>1, <1>2 DEF Infos
<1> HIDE DEF j
<1>5. TypeOK'
  BY <1>2, <1>3, <1>4 DEF collected_data_to_info, files, GeneratedInv, TypeOK
<1>6. /\ Infos' = Infos /\ MarkBeginnings' = MarkBeginnings /\ Comment_kind' = Comment_kind
      /\ MarksClash' = MarksClash
  BY <1>3 DEF Infos, Tests, MarkBeginnings, GivenMarks, mark_list, Comment_kind, MarksClash
<1>7. IsDescription(desc)'
  BY <1>3 DEF GeneratedInv, IsDescription, collected_data_to_info
<1> QED
  BY <1>1, <1>2, <1>3, <1>4, <1>5, <1>6, <1>7 DEF GeneratedInv

(* Writing and moving leave it so. *)
LEMMA FilesKeepGenerated ==
    ASSUME GeneratedInv,
           \/ WriteFile \/ MissFile \/ WriteTest \/ BeginMoving \/ MoveCpp \/ CppsMoved \/ MoveH
    PROVE  GeneratedInv'
<1>1. /\ phase \in {"write", "write_test", "move_cpp", "move_h"}
      /\ phase' \in {"write", "write_test", "move_cpp", "move_h"}
      /\ UNCHANGED <<desc, info>> /\ run' = run /\ exit' = exit
  BY DEF WriteFile, MissFile, WriteTest, BeginMoving, MoveCpp, CppsMoved, MoveH
<1>2. phase' \in {"write_test", "move_cpp", "move_h"} => info.errors = 0
  BY DEF WriteFile, MissFile, WriteTest, BeginMoving, MoveCpp, CppsMoved, MoveH, GeneratedInv
<1>3. faults' \in 0 .. MaxFaults
  <2>1. faults \in 0 .. MaxFaults /\ MaxFaults \in Nat
    BY DescriptionsAssumption DEF GeneratedInv, TypeOK
  <2> QED
    BY <2>1 DEF WriteFile, MissFile, WriteTest, BeginMoving, MoveCpp, CppsMoved, MoveH, files
<1>4. (\A f \in DOMAIN src : f[2] = "cpp")' /\ (\A f \in DOMAIN include : f[2] = "h")'
  <2>1. (\A f \in DOMAIN src : f[2] = "cpp") /\ (\A f \in DOMAIN include : f[2] = "h")
    BY DEF GeneratedInv, TypeOK
  <2>2. CASE MoveCpp
    BY <2>1, <2>2 DEF MoveCpp, OfExt, With1, Put
  <2>3. CASE MoveH
    BY <2>1, <2>3 DEF MoveH, OfExt, With1, Put
  <2>4. CASE UNCHANGED <<src, include>>
    BY <2>1, <2>4
  <2> QED
    BY <2>2, <2>3, <2>4 DEF WriteFile, MissFile, WriteTest, BeginMoving, CppsMoved, files
<1>5. TypeOK'
  BY <1>1, <1>3, <1>4 DEF GeneratedInv, TypeOK
<1> QED
  BY <1>1, <1>2, <1>5, SameGenerated DEF Generated

(* From generation to its end, a run has only the tests its description may *)
(* get, and errors exactly if the marks of comments clash                   *)
(* (src/collected_data_to_info.cpp:102, src/main_parser.cpp:423).           *)
THEOREM GeneratedInvariant == Spec => []GeneratedInv
<1>1. Init => GeneratedInv
  BY DescriptionsAssumption DEF Init, GeneratedInv, TypeOK, NoInfo, Generated, None
<1>2. GeneratedInv /\ [Next]_vars => GeneratedInv'
  <2> SUFFICES ASSUME GeneratedInv, [Next]_vars PROVE GeneratedInv'
    OBVIOUS
  <2>1. CASE Begin
    BY <2>1, BeginKeepsGenerated
  <2>2. CASE collected_data_to_info
    BY <2>2, GenerationKeepsGenerated
  <2>3. CASE WriteFile \/ MissFile \/ WriteTest \/ BeginMoving \/ MoveCpp \/ CppsMoved \/ MoveH
    BY <2>3, FilesKeepGenerated
  <2>4. CASE \/ NoText \/ Refuse \/ FoundErrors \/ HsMoved \/ Break
             \/ CannotMove("src", "move_cpp", "Failed_moving_cpps")
             \/ CannotMove("include", "move_h", "Failed_moving_hs")
    BY <2>4, EndsKeepGenerated
  <2>5. CASE UNCHANGED vars
    <3>1. /\ Infos' = Infos /\ MarkBeginnings' = MarkBeginnings /\ Comment_kind' = Comment_kind
          /\ MarksClash' = MarksClash /\ TypeOK' = TypeOK /\ Generated' = Generated
      BY <2>5 DEF vars, Infos, Tests, MarkBeginnings, GivenMarks, mark_list, Comment_kind, MarksClash,
                  TypeOK, Generated
    <3>2. phase # "idle" => IsDescription(desc)'
      BY <2>5 DEF GeneratedInv, IsDescription, vars
    <3> QED
      BY <2>5, <3>1, <3>2 DEF GeneratedInv, vars
  <2> QED
    BY <2>1, <2>2, <2>3, <2>4, <2>5 DEF Next, Step
<1> QED
  BY <1>1, <1>2, PTL DEF Spec

(* Of the characters only the first ones of the marks of comments that are  *)
(* new strings (src/main_parser.cpp:472) leave A_start, for every           *)
(* description: the sets that first_chars() leaves empty                    *)
(* (src/first_chars.cpp:14) make all other tests tests of nothing.          *)
THEOREM OnlyMarksLeaveStart == Spec => []OnlyMarksAreEntered
<1>1. GeneratedInv => OnlyMarksAreEntered
  <2> SUFFICES ASSUME GeneratedInv, Generated
               PROVE  /\ \A c : /\ Entered(c) = IF "Delimiter" \in desc.used /\ c \in MarkBeginnings \ spaces
                                                THEN "A_delimiter" ELSE "A_start"
                                /\ Entered(c) \in Range(info.automata)
                      /\ desc.begin # <<>> => info.comments = "No_comments"
    BY DEF OnlyMarksAreEntered, GeneratedInv
  <2>1. desc.begin # <<>> => info.comments = "No_comments"
    BY DEF GeneratedInv, Comment_kind
  <2>2. /\ info.ifs \in Seq(Tests)
        /\ "A_start" \in Range(info.automata)
        /\ "Delimiter" \in desc.used => /\ If(MarkBeginnings, "A_delimiter") \in Range(info.ifs)
                                        /\ "A_delimiter" \in Range(info.automata)
    BY DEF GeneratedInv, Infos
  <2> SUFFICES ASSUME NEW c
               PROVE  Entered(c) = IF "Delimiter" \in desc.used /\ c \in MarkBeginnings \ spaces
                                   THEN "A_delimiter" ELSE "A_start"
    BY <2>1, <2>2
  <2> DEFINE fits == {i \in DOMAIN info.ifs : c \in info.ifs[i].chars}
             i == CHOOSE i \in fits : \A j \in fits : i <= j
  <2>3. ASSUME NEW k \in fits
        PROVE  /\ "Delimiter" \in desc.used /\ c \in MarkBeginnings
               /\ info.ifs[k].automaton = "A_delimiter"
    <3>1. info.ifs[k] \in Tests /\ c \in info.ifs[k].chars
      BY <2>2
    <3> DEFINE t == info.ifs[k]
    <3> HIDE DEF t
    <3>2. t \in Tests /\ c \in t.chars
      BY <3>1 DEF t
    <3>3. "Delimiter" \in desc.used /\ t = If(MarkBeginnings, "A_delimiter")
      BY <3>2 DEF Tests, If
    <3>4. t.chars = MarkBeginnings /\ t.automaton = "A_delimiter"
      BY <3>3 DEF If
    <3> QED
      BY <3>2, <3>3, <3>4 DEF t
  <2>4. "Delimiter" \in desc.used /\ c \in MarkBeginnings => fits # {}
    <3> SUFFICES ASSUME "Delimiter" \in desc.used, c \in MarkBeginnings PROVE fits # {}
      OBVIOUS
    <3>1. PICK k \in DOMAIN info.ifs : info.ifs[k] = If(MarkBeginnings, "A_delimiter")
      BY <2>2 DEF Range
    <3>2. info.ifs[k].chars = MarkBeginnings
      BY <3>1 DEF If
    <3> QED
      BY <3>2
  <2>5. fits # {} => i \in fits
    <3>1. fits \in SUBSET Nat
      BY <2>2
    <3> HIDE DEF fits
    <3> QED
      BY <3>1, LeastNumber
  <2>6. Entered(c) = IF c \in spaces \/ fits = {} THEN "A_start" ELSE info.ifs[i].automaton
    BY DEF Entered
  <2> HIDE DEF fits, i
  <2>7. CASE c \in spaces \/ fits = {}
    BY <2>4, <2>6, <2>7
  <2>8. CASE c \notin spaces /\ fits # {}
    BY <2>3, <2>5, <2>6, <2>8
  <2> QED
    BY <2>7, <2>8
<1> QED
  BY <1>1, GeneratedInvariant, PTL

(* verify() refuses a description only for its own errors: no clash of      *)
(* first characters is ever found.                                          *)
LEMMA NoClashIsFound ==
    ASSUME IsDescription(desc), ~verify
    PROVE  \/ ~desc.quiet
           \/ desc.used = {}
           \/ "Id" \in desc.used /\ desc.regexp["Id"] = <<>>
<1> SUFFICES ASSUME desc.quiet, desc.used # {}, "Id" \in desc.used => desc.regexp["Id"] # <<>>
             PROVE  FALSE
  OBVIOUS
<1>1. PICK p \in intersection_msgs : Intersect(begin_chars(p[1]), begin_chars(p[2]))
  BY DEF verify
<1>2. \A k \in Literals : k \in desc.used => first_chars(desc.regexp[k]) = EmptyCategory
  <2> TAKE k \in Literals
  <2> SUFFICES ASSUME k \in desc.used PROVE first_chars(desc.regexp[k]) = EmptyCategory
    OBVIOUS
  <2>1. OperandsFirst(desc.regexp[k]) /\ desc.regexp[k] # <<>>
    <3>1. CASE k = "Id"
      BY <3>1 DEF IsDescription
    <3>2. CASE k # "Id"
      BY <3>2 DEF IsDescription
    <3> QED
      BY <3>1, <3>2
  <2> QED
    BY <2>1, NoFirstChars
<1>3. \A k \in {"Id", "String", "Number", "Keyword", "Delimiter"} : begin_chars(k) = EmptyCategory
  <2> TAKE k \in {"Id", "String", "Number", "Keyword", "Delimiter"}
  <2>1. CASE k \in Literals /\ k \in desc.used
    BY <1>2, <2>1 DEF begin_chars, Literals
  <2>2. CASE ~(k \in Literals /\ k \in desc.used)
    BY <2>2 DEF begin_chars
  <2> QED
    BY <2>1, <2>2
<1>4. /\ p[1] \in {"Id", "String", "Number", "Keyword", "Delimiter"}
      /\ begin_chars(p[1]) = EmptyCategory
  <2>1. p[1] \in {"Id", "String", "Number", "Keyword", "Delimiter"}
    BY DEF intersection_msgs
  <2> QED
    BY <1>3, <2>1
<1>5. begin_chars(p[2]) \in {EmptyCategory, Plus(OfMark(desc.single), OfMark(desc.begin))}
  <2>1. p[2] \in {"Id", "String", "Number", "Keyword", "Delimiter", "Comment"}
    BY DEF intersection_msgs
  <2>2. CASE p[2] = "Comment"
    BY <2>2 DEF begin_chars, Literals
  <2>3. CASE p[2] # "Comment"
    BY <1>3, <2>1, <2>3
  <2> QED
    BY <2>2, <2>3
<1>6. ~Intersect(EmptyCategory, EmptyCategory)
  BY DEF Intersect, EmptyCategory, Category, Set_of_cs, All_chars, Set_of_cs_complement
<1>7. ~Intersect(EmptyCategory, Plus(OfMark(desc.single), OfMark(desc.begin)))
  BY DEF Intersect, Plus, OfMark, EmptyCategory, Category, Set_of_cs, All_chars,
         Set_of_cs_complement
<1> QED
  BY <1>1, <1>4, <1>5, <1>6, <1>7

(* Errors before anything is written are those of the description itself;   *)
(* afterwards, and then only, the marks of comments clash.                  *)
THEOREM ErrorsAreExplained == Spec => ErrorsExplained
<1> DEFINE Explained ==
        /\ exit' = "There_are_syntax_errors" /\ phase = "read" =>
              \/ ~desc.quiet
              \/ desc.used = {}
              \/ "Id" \in desc.used /\ desc.regexp["Id"] = <<>>
        /\ exit' = "There_are_syntax_errors" /\ phase # "read" => MarksClash
        /\ exit' \in {"Success", "Failed_moving_cpps", "Failed_moving_hs"} => ~MarksClash
<1>1. ASSUME GeneratedInv, [Next]_vars, exit' # exit
      PROVE  Explained
  <2>1. CASE Begin \/ NoText \/ Break
    BY <2>1 DEF Begin, NoText, Break, End
  <2>2. CASE Refuse
    <3>1. phase = "read" /\ IsDescription(desc) /\ exit' = "There_are_syntax_errors"
      <4>1. phase = "read" /\ exit' = "There_are_syntax_errors"
        BY <2>2 DEF Refuse, End
      <4>2. phase # "idle" => IsDescription(desc)
        BY <1>1, Zenon DEF GeneratedInv
      <4> QED
        BY <4>1, <4>2
    <3> QED
      BY <2>2, <3>1, NoClashIsFound DEF Refuse
  <2>3. CASE FoundErrors
    <3>1. MarksClash
      <4>1. Generated => (info.errors > 0 <=> MarksClash)
        BY <1>1 DEF GeneratedInv
      <4> QED
        BY <2>3, <4>1 DEF FoundErrors, Generated
    <3> QED
      BY <2>3, <3>1 DEF FoundErrors, End
  <2>4. CASE \/ HsMoved
             \/ CannotMove("src", "move_cpp", "Failed_moving_cpps")
             \/ CannotMove("include", "move_h", "Failed_moving_hs")
    <3>1. phase \in {"move_cpp", "move_h"} /\ exit' # "There_are_syntax_errors"
      BY <2>4 DEF HsMoved, CannotMove, End
    <3>2. ~MarksClash
      <4>1. Generated => (info.errors > 0 <=> MarksClash)
        BY <1>1 DEF GeneratedInv
      <4>2. phase \in {"write_test", "move_cpp", "move_h"} => info.errors = 0
        BY <1>1 DEF GeneratedInv
      <4> QED
        BY <3>1, <4>1, <4>2 DEF Generated
    <3> QED
      BY <3>1, <3>2
  <2>5. CASE UNCHANGED exit
    BY <1>1, <2>5
  <2> QED
    BY <1>1, <2>1, <2>2, <2>3, <2>4, <2>5
       DEF Next, Step, vars, collected_data_to_info, WriteFile, MissFile, WriteTest, BeginMoving,
           MoveCpp, CppsMoved, MoveH
<1>2. ASSUME GeneratedInv, [Next]_vars
      PROVE  [Explained]_exit
  BY <1>1, <1>2
<1> QED
  BY <1>2, GeneratedInvariant, PTL DEF Spec, ErrorsExplained
=============================================================================
