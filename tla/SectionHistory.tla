--------------------------- MODULE SectionHistory ---------------------------
(***************************************************************************)
(* Auxiliary variables for the statements about one call of a section      *)
(* parser: no action depends on them.  A composition of several parsers    *)
(* does without them (Recording = FALSE).                                  *)
(***************************************************************************)
EXTENDS LexemeSource, Sequences

CONSTANT Recording    \* are path and failed kept?

ASSUME RecordingAssumption == Recording \in BOOLEAN

VARIABLES path,      \* the lexemes of this call up to its first error
          failed     \* this call has reported an error of its own

history == <<path, failed>>

(* A parser is called. *)
Forget == path' = <<>> /\ failed' = FALSE

(* Nothing is added to the history. *)
SameHistory == path' = path /\ failed' = failed

(* The parser reports n errors and reads nothing. *)
Blame(n) == failed' = (failed \/ (Recording /\ n > 0)) /\ path' = path

(* The parser reads the next lexeme, at which it reports n errors. *)
Record(n) ==
    /\ failed' = (failed \/ (Recording /\ n > 0))
    /\ path' = IF Recording /\ ~failed' THEN Append(path, next) ELSE path

HistoryTypeOK == path \in Seq(Lexeme) /\ failed \in BOOLEAN
=============================================================================
