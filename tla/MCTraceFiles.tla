---------------------------- MODULE MCTraceFiles ----------------------------
(***************************************************************************)
(* Programs of one or two instructions of every operand form, operands at  *)
(* the edges of their encodings: 0, the one- and two-byte varint limits,   *)
(* the largest address and the largest word.                               *)
(***************************************************************************)
EXTENDS TraceFiles

Inst(op, d, s) == [Instruction(op) EXCEPT !.dest = d, !.src1 = s]

MCInstructions ==
  {[Inst(1, 0, 255) EXCEPT !.src2 = s, !.modulus = 1] : s \in {0, 128}}
  \cup {[Inst(3, 1, 1) EXCEPT !.src2 = 1, !.modulus = q, !.modulus_is_literal = TRUE] : q \in {3, 2000}}
  \cup {[Inst(6, 127, 128) EXCEPT !.immediate = v, !.modulus = 0] : v \in {0, 16384, MaxWord}}
  \cup {[Inst(9, 2, 3) EXCEPT !.modulus = 2], Inst(25, 4, 5)}
  \cup {[Inst(10, 1, 2) EXCEPT !.modulus = 1, !.omega = w] : w \in {None, 0, 16383}}
  \cup {[Inst(13, 1, 2) EXCEPT !.modulus = 1, !.k = 5, !.mask = m, !.logn = n] :
          m \in {None, 0}, n \in {None, 64}}
  \cup {[Inst(14, 1, 2) EXCEPT !.modulus = 1, !.k = 1], [Inst(15, 1, 2) EXCEPT !.modulus = 0, !.offset = 3]}
  \cup {[Inst(17, 1, 2) EXCEPT !.src2 = 3], Instruction(FH_HALT)}
  \cup {[Inst(21, 1, 2) EXCEPT !.fp_immediate = Double(v)] : v \in {0, 129, 16390}}

SampleInstructions ==
  {i \in MCInstructions : i.opcode \in {1, 6, 10, 27} /\ i.omega # 0}

MCTables == {<<MaxWord>>, <<MaxWord, 97>>, <<MaxWord, 97, 8193>>}

MCMetas == {[NoMetadata EXCEPT ![1] = <<65>>, ![16] = <<49, 50>>, ![4] = <<70>>, ![8] = 300, ![10] = 7]}
MCNotes == {Prose("output"), Separator, Field("Description", <<66>>), Field("input", <<67>>)}
MCSpecs == {kFhetchSpec, [version |-> <<1, 2, 3>>, date |-> NoDate],
            [version |-> NoVersion, date |-> NoDate]}
=============================================================================
