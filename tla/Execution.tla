----------------------------- MODULE Execution ------------------------------
(***************************************************************************)
(* What executing one instruction does to the simulator's memory           *)
(* (src/fhetch_sim/simulator.cpp, memory.h).  The coefficient arithmetic   *)
(* of a kernel is the constant operator Kernel; everything decided around  *)
(* it, which operand is read, when the kernel refuses, when its result is  *)
(* stored, is written out.                                                 *)
(***************************************************************************)
EXTENDS FhetchIR

CONSTANTS
  Addrs,            (* polynomial addresses                                *)
  Values,           (* polynomials, as data                                *)
  Zero,             (* the all-zero polynomial                             *)
  Absent,           (* memory holds nothing at the address                 *)
  TableSize,        (* entries in the program's modulus table              *)
  Kernel(_, _, _),  (* Kernel(inst, a, b): the arithmetic of one opcode    *)
  Refuses(_)        (* the kernel's own checks reject the instruction: no  *)
                    (* k, no offset, or an omega that is no 2N-th root     *)

(* Instructions as the reader hands them over.  An immediate matters only  *)
(* by being zero or not, a modulus index only by being in the table or not.*)
Instructions == [opcode : FhOpcode, dest : Addrs, src1 : Addrs, src2 : Addrs,
                 immediate : {0, 1}, modulus : 0 .. TableSize]

ASSUME ValuesAssumption == Zero \in Values /\ Absent \notin Values
ASSUME TableAssumption == TableSize \in Nat
ASSUME KernelAssumption ==
  \A inst \in Instructions, a, b \in Values : Kernel(inst, a, b) \in Values

Memories == [Addrs -> Values \cup {Absent}]

(* get_or_zero: an address nothing was stored at reads as zeros. *)
GetOrZero(mem, a) == IF mem[a] = Absent THEN Zero ELSE mem[a]

(* An index outside the table is reported, and the kernel goes on with q = 0. *)
ModulusResolves(inst) == inst.modulus < TableSize

(* The kernels that check more than the sizes of their operands. *)
MayRefuse == {"ntt", "intt", "automorph_eval", "rot_automorph_coeff"}
Refused(inst) == inst.opcode \in MayRefuse /\ Refuses(inst)

(* The errors one instruction adds to error_count. *)
ErrorsOf(inst) ==
  IF inst.opcode \in InertOps THEN 0
  ELSE (IF ModulusResolves(inst) THEN 0 ELSE 1) + (IF Refused(inst) THEN 1 ELSE 0)

(* What a kernel computes from its operands under a resolved modulus. *)
Result(inst, a, b) ==
  IF IsZeroInit(inst) \/ inst.opcode \in InertOps THEN Zero
  ELSE IF IsCopy(inst) THEN a
  ELSE Kernel(inst, a, IF inst.opcode \in PolyPolyOps THEN b ELSE a)

(* The values a kernel may leave in dest.  Arithmetic modulo an unresolved *)
(* modulus (q = 0) is undefined and may leave anything.                    *)
Results(inst, mem) ==
  IF ModulusResolves(inst) \/ IsZeroInit(inst) \/ IsCopy(inst) \/ inst.opcode \in InertOps
  THEN {Result(inst, GetOrZero(mem, inst.src1), GetOrZero(mem, inst.src2))}
  ELSE Values

(* Memory once the instruction stored v; a refused or inert one stores nothing. *)
Stored(inst, mem, v) ==
  IF Writes(inst) = {} \/ Refused(inst) THEN mem
  ELSE [mem EXCEPT ![inst.dest] = v]
=============================================================================
