------------------------------ MODULE FhetchIR ------------------------------
(***************************************************************************)
(* The in-memory form of a FHETCH program (include/niobium/fhetch_ir.h):   *)
(* its opcodes, its instructions, and the addresses an instruction reads   *)
(* and writes.  Operands are addresses, not SSA values: an address may be  *)
(* written more than once and a destination may alias a source.            *)
(***************************************************************************)
EXTENDS Naturals, Sequences

(* Opcodes by what the simulator does with them. *)
PolyPolyOps == {"addp", "subp", "mulp"}
ScalarOps   == {"addps", "subps", "mulps", "addps_coeff", "subps_coeff"}
UnaryOps    == {"negp", "ntt", "intt", "automorph_eval", "rot_automorph_coeff"}

(* Recognised and skipped: halt, unimplemented permutations, and the       *)
(* non-integer forms, which stand for their whole family here.             *)
InertOps == {"ill", "halt", "permute", "automorph_coeff", "ft", "ift",
             "negp_ni", "addp_ni", "subp_ni", "mulp_ni", "addps_ni", "subps_ni",
             "mulps_ni", "addps_coeff_ni", "subps_coeff_ni"}

FhOpcode == PolyPolyOps \cup ScalarOps \cup UnaryOps \cup InertOps

(* An instruction.  imm is the scalar immediate (0 where there is none),   *)
(* modulus the index into the modulus table.                               *)
Instruction(op, d, s1, s2, imm, m) ==
  [opcode |-> op, dest |-> d, src1 |-> s1, src2 |-> s2,
   immediate |-> imm, modulus |-> m]

Halt == Instruction("halt", 0, 0, 0, 0, 0)

(* The zero idiom: sr_mulps by 0 writes zeros and reads nothing. *)
IsZeroInit(inst) == inst.opcode = "mulps" /\ inst.immediate = 0

(* The copy idiom: sr_addps by 0 copies src1 without reducing it. *)
IsCopy(inst) == inst.opcode \in {"addps", "addps_coeff"} /\ inst.immediate = 0

(* The addresses an instruction writes: at most one, its destination. *)
Writes(inst) == IF inst.opcode \in InertOps THEN {} ELSE {inst.dest}

(* The addresses an instruction reads. *)
Reads(inst) ==
  IF inst.opcode \in InertOps \/ IsZeroInit(inst) THEN {}
  ELSE IF inst.opcode \in PolyPolyOps THEN {inst.src1, inst.src2}
  ELSE {inst.src1}

(* Variant of ReadBeforeWrite: an instruction's write counts before its reads. *)
ReadBeforeWriteLate(prog) ==
  UNION {{a \in Reads(prog[i]) : \A j \in 1 .. i : a \notin Writes(prog[j])} :
           i \in DOMAIN prog}

(* The addresses whose first access in the program is a read: its live-ins. *)
ReadBeforeWrite(prog) ==
  UNION {{a \in Reads(prog[i]) : \A j \in 1 .. i - 1 : a \notin Writes(prog[j])} :
           i \in DOMAIN prog}
=============================================================================
