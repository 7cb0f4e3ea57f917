---------------------------- MODULE ScopeProofs -----------------------------
(***************************************************************************)
(* What reading a lexeme preserves, what the next one can be, and what     *)
(* entering a word in the scope and a code in the enumeration does: the    *)
(* lemmas that the proofs about the parsers share.                         *)
(***************************************************************************)
EXTENDS Scope, SequenceTheorems, TLAPS

(* Reading, giving back and reporting keep the types of the source. *)
LEMMA ReadingKeepsSource ==
    ASSUME SourceTypeOK, NEW n \in Nat,
           Take(n) \/ GiveBack(n) \/ (Report(n) /\ UNCHANGED source)
    PROVE  SourceTypeOK'
<1>1. Lexical \in {0, 1}
  BY DEF Lexical
<1>2. errors' \in 0 .. ErrorCap
  BY <1>1, ErrorCapAssumption DEF SourceTypeOK, Take, GiveBack, Report
<1>3. /\ next' \in Lexeme \cup {EndOfText}
      /\ left' \in 0 .. SourceLength
  BY SourceLengthAssumption DEF SourceTypeOK, Take, GiveBack, Advance, source
<1> QED
  BY <1>2, <1>3 DEF SourceTypeOK

(* What the next lexeme can be *)
LEMMA NextLexeme ==
    ASSUME SourceTypeOK
    PROVE  /\ next.idx \in Nat
           /\ next = EndOfText <=> next.code = "None"
           /\ next = EndOfText \/ next \in Lexeme
<1>1. CASE next = EndOfText
  BY <1>1 DEF EndOfText
<1>2. CASE next \in Lexeme
  BY <1>2, LexemeAssumption DEF EndOfText
<1> QED
  BY <1>1, <1>2 DEF SourceTypeOK

-----------------------------------------------------------------------------
(* A map with one more or one changed value *)
LEMMA PutValue ==
    ASSUME NEW m, NEW k, NEW v
    PROVE  /\ DOMAIN Put(m, k, v) = DOMAIN m \cup {k}
           /\ Put(m, k, v)[k] = v
           /\ \A x \in DOMAIN m \ {k} : Put(m, k, v)[x] = m[x]
BY DEF Put

(* What a map of identifiers or of strings is *)
Attributes(m) ==
    /\ DOMAIN m \subseteq Nat
    /\ \A id \in DOMAIN m : m[id] \in [kind : Id_kind, value : Nat]

StringKinds(m) == m \in [DOMAIN m -> {"Action_definition", "Delimiter_repres"}]

(* Both remain such maps when something is entered. *)
LEMMA PutAttribute ==
    ASSUME NEW m, Attributes(m), NEW k \in Nat, NEW v \in [kind : Id_kind, value : Nat]
    PROVE  Attributes(Put(m, k, v))
BY DEF Attributes, Put

(* A map of string kinds remains one, too. *)
LEMMA PutStringKind ==
    ASSUME NEW m, StringKinds(m), NEW k, NEW v \in {"Action_definition", "Delimiter_repres"}
    PROVE  StringKinds(Put(m, k, v))
BY DEF StringKinds, Put

(* The attributes that are entered *)
LEMMA AttributeTypes ==
    ASSUME NEW k \in Nat
    PROVE  /\ CodeOfLexem(k) \in [kind : Id_kind, value : Nat]
           /\ ActionName(k) \in [kind : Id_kind, value : Nat]
           /\ \A kind \in Id_kind : Named(kind) \in [kind : Id_kind, value : Nat]
BY DEF CodeOfLexem, ActionName, Named, Id_kind

(* The type of the scope, conjunct by conjunct *)
LEMMA ScopeTypeParts ==
    ScopeTypeOK <=> /\ Attributes(idsc) /\ StringKinds(strsc)
                    /\ codes_ \in Seq(Nat) /\ last_code_val_ \in Nat
BY DEF ScopeTypeOK, Attributes, StringKinds

(* The scope begins with the names of two codes and of one action. *)
LEMMA ScopeInitTypes == ScopeInit => ScopeTypeOK
<1> SUFFICES ASSUME ScopeInit PROVE ScopeTypeOK
  OBVIOUS
<1>1. Attributes(idsc)
  BY ScopeAssumption, AttributeTypes DEF ScopeInit, Attributes
<1>2. StringKinds(strsc) /\ codes_ \in Seq(Nat) /\ last_code_val_ \in Nat
  BY ScopeAssumption DEF ScopeInit, StringKinds
<1> QED
  BY <1>1, <1>2, ScopeTypeParts

(* A code is entered in the scope and the enumeration, or nowhere. *)
LEMMA NewCodeKeepsTypes ==
    ASSUME ScopeTypeOK, NEW id \in Nat, AddNewLexemCode(id), UNCHANGED strsc
    PROVE  ScopeTypeOK'
<1>1. CASE id \in DOMAIN idsc
  BY <1>1 DEF AddNewLexemCode, table, ScopeTypeOK
<1>2. CASE id \notin DOMAIN idsc
  <2>1. /\ last_code_val_' = last_code_val_ + 1
        /\ idsc' = Put(idsc, id, CodeOfLexem(last_code_val_'))
        /\ codes_' = Append(codes_, id)
    BY <1>2 DEF AddNewLexemCode
  <2>2. last_code_val_' \in Nat /\ codes_' \in Seq(Nat)
    BY <2>1 DEF ScopeTypeOK
  <2>3. Attributes(idsc')
    BY <2>1, <2>2, ScopeTypeParts, PutAttribute, AttributeTypes
  <2> QED
    BY <2>2, <2>3, ScopeTypeParts DEF ScopeTypeOK, Attributes
<1> QED
  BY <1>1, <1>2

(* An action is entered with its body, or neither. *)
LEMMA ActionKeepsTypes ==
    ASSUME ScopeTypeOK, NEW id \in Nat, NEW str \in Nat, AddActionDefinition(id, str),
           UNCHANGED table
    PROVE  ScopeTypeOK'
<1>1. CASE UNCHANGED <<idsc, strsc>>
  BY <1>1 DEF table, ScopeTypeOK
<1>2. CASE /\ idsc' = Put(idsc, id, ActionName(str))
           /\ strsc' = Put(strsc, str, "Action_definition")
  <2>1. Attributes(idsc') /\ StringKinds(strsc')
    BY <1>2, ScopeTypeParts, PutAttribute, PutStringKind, AttributeTypes
  <2> QED
    BY <2>1 DEF ScopeTypeOK, Attributes, StringKinds, table
<1> QED
  BY <1>1, <1>2 DEF AddActionDefinition
=============================================================================
