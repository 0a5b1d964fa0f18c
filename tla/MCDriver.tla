------------------------------ MODULE MCDriver ------------------------------
(* Small files, over values that are the terms that denote them. *)
EXTENDS Driver

Term(op, imm, q, a, b) == <<op, imm, q, a, b>>

SmallTable == <<99, 3>>
TwoOutputs == <<2, 1>>

MCCode ==
       {Instruction("mulp", d, s1, s2, 0, 1) : d \in {1, 2}, s1, s2 \in FileAddrs}
  \cup {Instruction("addps", d, s, 0, 0, 0) : d \in {0, 2}, s \in {0, 1}}
  \cup {Instruction("mulps", d, s, 0, 0, 0) : d \in {1, 2}, s \in FileAddrs}
  \cup {Instruction("ntt", 1, 0, 0, r, 1) : r \in 0 .. 2}
  \cup {Instruction(op, 1, 0, 0, 1, 1) : op \in {"automorph_eval", "permute"}}
  \cup {Instruction("ft", 1, 0, 0, 1, None), Instruction("halt", 0, 0, 0, 0, None)}
  \cup {Instruction("negp", 1, 0, 0, 0, m) : m \in {2, 7}}

(* The other modulus outside the table is an index there is no entry for. *)
MCLiteral == {Instruction("negp", 1, 0, 0, 0, 7)}
=============================================================================
