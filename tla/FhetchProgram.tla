--------------------------- MODULE FhetchProgram ----------------------------
(***************************************************************************)
(* A FHETCH instruction with all its operands (include/niobium/fhetch_ir.h) *)
(* and the record the binary form stores for it (fhetch_encoding.h).       *)
(* Opcodes are their wire numbers, which also stand for their mnemonics.   *)
(***************************************************************************)
EXTENDS Naturals, Sequences

CONSTANT None      (* std::nullopt: zero is a legal value of every operand *)

ASSUME NoneAssumption == None \notin Nat

FH_ILL  == 0
FH_HALT == 27

(* kOpcodeTable: the operand shape of each opcode. *)
kOpcodeTable ==
  [op \in 1 .. FH_HALT |->
     CASE op \in 1 .. 3   -> "PolyPoly"
       [] op \in 4 .. 8   -> "PolyScalar"
       [] op \in {9, 12}  -> "UnaryMod"
       [] op \in 10 .. 11 -> "Ntt"
       [] op = 13         -> "AutomorphEval"
       [] op = 14         -> "AutomorphCoeff"
       [] op = 15         -> "RotAutomorphCoeff"
       [] op \in 16 .. 18 -> "PolyPolyNI"
       [] op \in 19 .. 23 -> "PolyScalarNI"
       [] op \in 24 .. 26 -> "UnaryNoMod"
       [] OTHER           -> "None"]

fh_operand_form(op) == IF op \in DOMAIN kOpcodeTable THEN kOpcodeTable[op] ELSE "None"

(* An unassigned opcode is taken to have the two operands every opcode but *)
(* halt has.                                                               *)
fh_opcode_has_operands(op) ==
  op # FH_ILL /\ (op \in DOMAIN kOpcodeTable => kOpcodeTable[op] # "None")

(* A double, told apart from the integers; its bit pattern is its number. *)
Double(n) == [double |-> n]
Bits(d) == d.double

Instruction(op) ==
  [opcode |-> op, dest |-> 0, src1 |-> 0, src2 |-> 0,
   immediate |-> None, fp_immediate |-> None,
   modulus |-> None, modulus_is_literal |-> FALSE,
   omega |-> None, mask |-> None, logn |-> None, k |-> None, offset |-> None]

-----------------------------------------------------------------------------
(* Records: optional operands multiplexed into imm and aux, presence in    *)
(* flags.                                                                  *)

TwoSources == {"PolyPoly", "PolyPolyNI"}

(* imm holds the first of these the instruction carries, aux the first of  *)
(* omega and mask.                                                         *)
ImmOf(inst) ==
  IF inst.fp_immediate # None THEN Bits(inst.fp_immediate)
  ELSE IF inst.immediate # None THEN inst.immediate
  ELSE IF inst.k # None THEN inst.k
  ELSE inst.offset
AuxOf(inst) == IF inst.omega # None THEN inst.omega ELSE inst.mask

Flags(inst) ==
     (IF fh_operand_form(inst.opcode) \in TwoSources THEN {"HAS_SRC2"} ELSE {})
\cup (IF inst.modulus # None THEN {"HAS_MOD"} ELSE {})
\cup (IF inst.modulus # None /\ inst.modulus_is_literal THEN {"MOD_LITERAL"} ELSE {})
\cup (IF ImmOf(inst) # None THEN {"HAS_IMM"} ELSE {})
\cup (IF AuxOf(inst) # None THEN {"HAS_AUX"} ELSE {})
\cup (IF inst.logn # None THEN {"HAS_LOGN"} ELSE {})

value_or(opt, d) == IF opt # None THEN opt ELSE d

(* Variant: an immediate of zero is left out. *)
to_record_ZeroIsAbsent(inst) ==
  [opcode |-> inst.opcode,
   flags |-> IF value_or(ImmOf(inst), 0) = 0 THEN Flags(inst) \ {"HAS_IMM"} ELSE Flags(inst),
   dst |-> inst.dest, src1 |-> inst.src1, src2 |-> inst.src2,
   modulus |-> value_or(inst.modulus, 0), imm |-> value_or(ImmOf(inst), 0),
   aux |-> value_or(AuxOf(inst), 0), logn |-> value_or(inst.logn, 0)]

to_record(inst) ==
  [opcode |-> inst.opcode, flags |-> Flags(inst),
   dst |-> inst.dest, src1 |-> inst.src1,
   src2 |-> IF fh_operand_form(inst.opcode) \in TwoSources THEN inst.src2 ELSE 0,
   modulus |-> value_or(inst.modulus, 0),
   imm |-> value_or(ImmOf(inst), 0),
   aux |-> value_or(AuxOf(inst), 0),
   logn |-> value_or(inst.logn, 0)]

(* from_record(): the opcode says which operand imm and aux held. *)
from_record(r) ==
  LET form == fh_operand_form(r.opcode)
      Has(f, v) == IF f \in r.flags THEN v ELSE None
      IndexForms == {"AutomorphEval", "AutomorphCoeff"} IN
  [Instruction(r.opcode) EXCEPT
     !.dest = r.dst, !.src1 = r.src1,
     !.src2 = IF "HAS_SRC2" \in r.flags THEN r.src2 ELSE 0,
     !.modulus = Has("HAS_MOD", r.modulus),
     !.modulus_is_literal = {"HAS_MOD", "MOD_LITERAL"} \subseteq r.flags,
     !.k = IF form \in IndexForms THEN Has("HAS_IMM", r.imm) ELSE None,
     !.offset = IF form = "RotAutomorphCoeff" THEN Has("HAS_IMM", r.imm) ELSE None,
     !.fp_immediate = IF form = "PolyScalarNI" THEN Has("HAS_IMM", Double(r.imm)) ELSE None,
     !.immediate = IF form \in IndexForms \cup {"RotAutomorphCoeff", "PolyScalarNI"}
                   THEN None ELSE Has("HAS_IMM", r.imm),
     !.omega = IF form = "Ntt" THEN Has("HAS_AUX", r.aux) ELSE None,
     !.mask = IF form # "Ntt" THEN Has("HAS_AUX", r.aux) ELSE None,
     !.logn = Has("HAS_LOGN", r.logn)]
=============================================================================
