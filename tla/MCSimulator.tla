---------------------------- MODULE MCSimulator -----------------------------
(* A small instance of Simulator: three addresses, polynomials with one    *)
(* coefficient modulo 2, every program of two instructions over a broad    *)
(* vocabulary and every program of three over a narrow one.                *)
EXTENDS Simulator

MCAddrs  == 0 .. 2
MCValues == 0 .. 1
MCTableSize == 2

MCKernel(inst, a, b) ==
  CASE inst.opcode \in {"addp", "subp"} -> (a + b) % 2
    [] inst.opcode = "mulp" -> a * b
    [] inst.opcode \in {"addps", "subps", "addps_coeff", "subps_coeff"} -> (a + inst.immediate) % 2
    [] OTHER -> a

(* An absent k, offset or valid omega is immediate 0 in this instance. *)
MCRefuses(inst) == inst.immediate = 0

Narrow == {Instruction("addp", 0, 1, 2, 0, 1), Instruction("mulp", 1, 1, 0, 0, 1),
           Instruction("addps", 2, 0, 0, 0, 0), Instruction("subps", 1, 2, 0, 1, 1),
           Instruction("mulps", 0, 0, 0, 0, 0), Instruction("ntt", 2, 1, 0, 0, 1),
           Instruction("automorph_eval", 0, 2, 0, 1, 1)}

Broad == Narrow \cup
  {Instruction("subp", d, s, 1, 0, 1) : d \in {0, 2}, s \in {0, 1}} \cup
  {Instruction("addps", d, 1, 0, 0, 0) : d \in {0, 1}} \cup
  {Instruction("addps", 1, 0, 0, 1, 2), Instruction("mulps", 2, 1, 0, 1, 1), Halt,
   Instruction("negp", 1, 1, 0, 0, 1), Instruction("addp_ni", 2, 0, 1, 0, 0)}

MCPrograms == [1 .. 2 -> Broad] \cup [1 .. 3 -> Narrow]
MCLiveOuts == {{}, {0}, {1, 2}}
=============================================================================
