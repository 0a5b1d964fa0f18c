----------------------------- MODULE FhetchText -----------------------------
(***************************************************************************)
(* The text form of a program (src/fhetch_writer.cpp, fhetch_reader.cpp):  *)
(* a sequence of lines, an instruction's line a sequence of tokens.        *)
(* Spelling is left out; what a line says, and what is lost in saying it,  *)
(* is kept: m=N does not tell an index from a prime, and a floating-point  *)
(* immediate is rounded to a multiple of FpUnit.                           *)
(***************************************************************************)
EXTENDS Fhex

CONSTANTS MaxModulusIndex,  (* kMaxModulusIndex: the ISA's 8-bit mod_index *)
          FpUnit            (* bit-pattern steps in one sixth decimal      *)

ASSUME TextAssumption == MaxModulusIndex \in Nat /\ FpUnit \in Nat \ {0}

Tok(kind, v) == [kind |-> kind, v |-> v]
Named(name, opt) == IF opt # None THEN <<Tok(name, opt)>> ELSE <<>>
append_modulus(inst) == Named("m", inst.modulus)

(* std::to_string on a double. *)
Rounded(d) == Double((Bits(d) \div FpUnit) * FpUnit)

(* Variant: the index by position, without its name. *)
CoeffOperands_Unnamed(name, opt, inst) == append_modulus(inst) \o <<Tok("uint", value_or(opt, 0))>>

(* The coefficient forms always have an index, by name. *)
CoeffOperands(name, opt, inst) == <<Tok(name, value_or(opt, 0))>> \o append_modulus(inst)

(* render_instruction(): the mnemonic, two addresses and the operands of   *)
(* the form.                                                               *)
RestOf(form, inst) ==
  CASE form = "PolyPoly" -> <<Tok("%", inst.src2)>> \o append_modulus(inst)
    [] form = "PolyPolyNI" -> <<Tok("%", inst.src2)>>
    [] form = "PolyScalar" -> <<Tok("uint", value_or(inst.immediate, 0))>> \o append_modulus(inst)
    [] form = "PolyScalarNI" -> <<Tok("fp", Rounded(value_or(inst.fp_immediate, Double(0))))>>
    [] form = "UnaryMod" -> append_modulus(inst)
    [] form = "Ntt" -> append_modulus(inst) \o Named("omega", inst.omega)
    [] form = "AutomorphEval" -> append_modulus(inst) \o Named("mask", inst.mask)
                                 \o Named("logn", inst.logn) \o Named("k", inst.k)
    [] form = "AutomorphCoeff" -> CoeffOperands("k", inst.k, inst)
    [] form = "RotAutomorphCoeff" -> CoeffOperands("offset", inst.offset, inst)
    [] OTHER -> <<>>

render_instruction(inst) ==
  [kind |-> "inst", op |-> inst.opcode,
   args |-> IF fh_operand_form(inst.opcode) = "None" THEN <<>>
            ELSE <<Tok("%", inst.dest), Tok("%", inst.src1)>>
                 \o RestOf(fh_operand_form(inst.opcode), inst)]

-----------------------------------------------------------------------------
(* Comment lines, by what their body is to the reader: the writer's own    *)
(* rules of '=' and section labels, a "Key: value", or anything else.      *)

Separator == [is |-> "separator"]
Field(key, v) == [is |-> "field", key |-> key, v |-> v]
Prose(t) == [is |-> "prose", text |-> t]

Comment(body) == [kind |-> "comment", body |-> body]

(* The header block.  Of the metadata only these fields are written; the   *)
(* name and the version share a line, " v" between them, here one letter.  *)

SpaceV == 118
MetaLine(key, v) == <<Comment(Field(key, v))>>
MetaString(key, s) == IF s = <<>> THEN <<>> ELSE MetaLine(key, s)

render_header(meta, instruction_count, modulus_count) ==
  <<Comment(Separator)>>
  \o MetaString("Program", IF meta[1] = <<>> THEN <<>>
                           ELSE meta[1] \o (IF meta[16] = <<>> THEN <<>> ELSE <<SpaceV>> \o meta[16]))
  \o MetaString("Description", meta[3])
  \o (IF meta[4] = <<>> THEN <<>> ELSE MetaLine("Source", <<meta[4], meta[8]>>))
  \o MetaString("Build", meta[5])
  \o MetaLine("Instruction Count", instruction_count)
  \o MetaLine("Modulus Count", modulus_count)
  \o (IF meta[10] = 0 THEN <<>> ELSE MetaLine("Generated", meta[10]))

(* The keys of one metadata field each, and its tag. *)
KeyTag ==
  "Trace File" :> 2 @@ "Description" :> 3 @@ "Build" :> 5 @@ "Scheme" :> 6 @@ "Crypto Scheme" :> 6
  @@ "Security Level" :> 7 @@ "Instruction Count" :> 9 @@ "Generated" :> 10 @@ "Ring Dimension" :> 11
  @@ "Multiplicative Depth" :> 12 @@ "Modulus Count" :> 13 @@ "Modulus Chain Length" :> 13

(* absorb_metadata() takes a body for one of these keys; the name ends at  *)
(* the last " v".                                                          *)
Absorbed(body) == body.is = "field" /\ body.key \in {"Program", "Source"} \cup DOMAIN KeyTag

absorb_metadata(meta, key, v) ==
  CASE key = "Program" ->
         LET marks == {i \in DOMAIN v : v[i] = SpaceV} IN
         IF marks = {} THEN [meta EXCEPT ![1] = v]
         ELSE [meta EXCEPT ![1] = SubSeq(v, 1, Max(marks) - 1),
                           ![16] = SubSeq(v, Max(marks) + 1, Len(v))]
    [] key = "Source" -> [meta EXCEPT ![4] = v[1], ![8] = v[2]]
    [] OTHER -> [meta EXCEPT ![KeyTag[key]] = v]

render_modulus_table(table) ==
  <<Comment(Separator), [kind |-> "count", n |-> Len(table)]>>
  \o [i \in DOMAIN table |-> [kind |-> "entry", index |-> i - 1, value |-> table[i]]]

-----------------------------------------------------------------------------
(* A program: metadata, modulus table, instructions, and annotations, each *)
(* with the number of instructions before it.                              *)

NoteLine(note) == Comment(note.text)

(* The lines of the i-th instruction (from 0): the annotations due before  *)
(* it, then its own; FH_ILL and unassigned opcodes render as nothing.      *)
InstructionLines(program, i) ==
  LET due == SelectSeq(program.notes, LAMBDA n : n.after = i)
      inst == program.instructions[i + 1]
  IN  [k \in DOMAIN due |-> NoteLine(due[k])]
      \o (IF inst.opcode \in DOMAIN kOpcodeTable THEN <<render_instruction(inst)>> ELSE <<>>)

(* Variant: the annotations are gathered at the end. *)
write_fhetch_text_NotesLast(program) ==
  render_header(program.meta, Len(program.instructions), Len(program.table))
  \o render_modulus_table(program.table)
  \o FlattenSeq([i \in DOMAIN program.instructions |->
                   InstructionLines([program EXCEPT !.notes = <<>>], i - 1)])
  \o [k \in DOMAIN program.notes |-> NoteLine(program.notes[k])]

(* Variant: the modulus table after the instructions. *)
write_fhetch_text_TableLast(program) ==
  render_header(program.meta, Len(program.instructions), Len(program.table))
  \o FlattenSeq([i \in DOMAIN program.instructions |-> InstructionLines(program, i - 1)])
  \o render_modulus_table(program.table)

write_fhetch_text(program) ==
  LET count == Len(program.instructions)
      rest == SelectSeq(program.notes, LAMBDA n : n.after >= count)
  IN  render_header(program.meta, count, Len(program.table))
      \o render_modulus_table(program.table) \o <<Comment(Separator)>>
      \o FlattenSeq([i \in DOMAIN program.instructions |-> InstructionLines(program, i - 1)])
      \o [k \in DOMAIN rest |-> NoteLine(rest[k])]

-----------------------------------------------------------------------------
(* Reading *)

NoProgram == [meta |-> NoMetadata, table |-> <<>>, instructions |-> <<>>, notes |-> <<>>]
ReadResult == [ok |-> TRUE, program |-> NoProgram]
Error(rd) == [rd EXCEPT !.ok = FALSE]

(* modulus_entry(): entries come in order. *)
modulus_entry(rd, line) ==
  IF line.index # Len(rd.program.table) THEN Error(rd)
  ELSE [rd EXCEPT !.program.table = Append(@, line.value)]

(* A partly read operand list: what is known, and "read", "skip" (the     *)
(* line is dropped, mostly with a warning) or "error".                     *)
Parse(inst) == [how |-> "read", inst |-> inst]

address(p, tok, field) ==
  IF p.how # "read" THEN p
  ELSE IF tok.kind # "%" THEN [p EXCEPT !.how = "skip"]
  ELSE IF tok.v > kMaxAddress THEN [p EXCEPT !.how = "error"]
  ELSE [p EXCEPT !.inst[field] = tok.v]

(* Variant: a number equal to the table's size is an index. *)
modulus_OffByOne(p, tok, table) ==
  IF p.how # "read" THEN p
  ELSE IF tok.kind # "m" THEN [p EXCEPT !.how = "skip"]
  ELSE [p EXCEPT !.inst.modulus = tok.v, !.inst.modulus_is_literal = tok.v > Len(table)]

(* modulus(): an index when below the table's size, a prime otherwise. *)
modulus(p, tok, table) ==
  IF p.how # "read" THEN p
  ELSE IF tok.kind # "m" THEN [p EXCEPT !.how = "skip"]
  ELSE IF tok.v < Len(table) /\ tok.v > MaxModulusIndex THEN [p EXCEPT !.how = "error"]
  ELSE [p EXCEPT !.inst.modulus = tok.v, !.inst.modulus_is_literal = tok.v >= Len(table)]

(* Operands taken by name, in any order; other tokens are passed over as   *)
(* long as the file has no error yet (ok).                                 *)
NamedOperand(p, tok, names, table, ok) ==
  IF p.how # "read" THEN p
  ELSE IF tok.kind \in names
       THEN IF tok.kind = "logn" /\ tok.v > 64 THEN p
            ELSE [p EXCEPT !.inst[tok.kind] = tok.v]
  ELSE IF tok.kind = "m" THEN modulus(p, tok, table)
  ELSE IF ok THEN p ELSE [p EXCEPT !.how = "skip"]

MinArgs(form) ==
  CASE form = "None" -> 0
    [] form = "UnaryNoMod" -> 2
    [] form \in {"PolyPolyNI", "PolyScalarNI", "UnaryMod", "Ntt", "AutomorphEval"} -> 3
    [] OTHER -> 4

(* The operand after the addresses, of one of these kinds. *)
Immediate(p, tok, kinds, field) ==
  IF p.how # "read" THEN p
  ELSE IF tok.kind \notin kinds THEN [p EXCEPT !.how = "skip"]
  ELSE [p EXCEPT !.inst[field] = tok.v]

(* The first omega after the modulus. *)
Omega(p, omegas) == IF omegas = <<>> THEN p ELSE [p EXCEPT !.inst.omega = Head(omegas).v]

Demand(p, fields) ==
  IF p.how = "read" /\ \E f \in fields : p.inst[f] = None THEN [p EXCEPT !.how = "skip"] ELSE p

(* The operands of a form, p holding the destination and the first source. *)
FormOperands(form, p, args, table, ok) ==
  LET ByName(names) == FoldLeft(LAMBDA q, tok : NamedOperand(q, tok, names, table, ok),
                                p, SubSeq(args, 3, Len(args)))
  IN  CASE form = "PolyPoly" -> modulus(address(p, args[3], "src2"), args[4], table)
        [] form = "PolyPolyNI" -> address(p, args[3], "src2")
        [] form = "PolyScalar" ->
             modulus(Immediate(p, args[3], {"uint"}, "immediate"), args[4], table)
        [] form = "PolyScalarNI" -> Immediate(p, args[3], {"fp"}, "fp_immediate")
        [] form = "UnaryMod" -> modulus(p, args[3], table)
        [] form = "UnaryNoMod" -> p
        [] form = "Ntt" -> Omega(modulus(p, args[3], table),
                                 SelectSeq(SubSeq(args, 4, Len(args)), LAMBDA t : t.kind = "omega"))
        [] form = "AutomorphEval" -> Demand(ByName({"k", "mask", "logn"}), {"modulus"})
        [] form = "AutomorphCoeff" -> Demand(ByName({"k"}), {"k", "modulus"})
        [] form = "RotAutomorphCoeff" -> Demand(ByName({"offset"}), {"offset", "modulus"})

operands(op, args, table, ok) ==
  LET Of(form, start) ==
        IF Len(args) < MinArgs(form) THEN [start EXCEPT !.how = "skip"]
        ELSE IF form = "None" THEN start
        ELSE FormOperands(form, address(address(start, args[1], "dest"), args[2], "src1"), args, table, ok)
  IN  Of(fh_operand_form(op), Parse(Instruction(op)))

(* instruction(): a mnemonic not in the table is skipped with a warning. *)
instruction(rd, line) ==
  LET Add(p) == CASE p.how = "read" -> [rd EXCEPT !.program.instructions = Append(@, p.inst)]
                  [] p.how = "skip" -> rd
                  [] p.how = "error" -> Error(rd)
  IN  IF line.op \in DOMAIN kOpcodeTable THEN Add(operands(line.op, line.args, rd.program.table, rd.ok))
      ELSE rd

(* comment(): what the writer makes up itself is not content; what it      *)
(* would write from the metadata goes there.                               *)
comment(rd, line) ==
  CASE line.body.is = "separator" -> rd
    [] Absorbed(line.body) ->
         [rd EXCEPT !.program.meta = absorb_metadata(@, line.body.key, line.body.v)]
    [] OTHER ->
         [rd EXCEPT !.program.notes =
            Append(@, [text |-> line.body, after |-> Len(rd.program.instructions)])]

(* Reader::run(): line by line, reading on after an error. *)
read_fhetch_text(lines) ==
  FoldLeft(LAMBDA rd, line :
             CASE line.kind = "comment" -> comment(rd, line)
               [] line.kind = "count" -> rd
               [] line.kind = "entry" -> modulus_entry(rd, line)
               [] line.kind = "inst" -> instruction(rd, line)
               [] line.kind = "malformed" -> Error(rd),
           ReadResult, lines)

-----------------------------------------------------------------------------
(* The binary form of the same program. *)

kFhetchSpec == [version |-> NoVersion, date |-> <<2025, 5, 19>>]

write_fhetch_binary(program, spec) ==
  encode_fhetch_program(
    [program.meta EXCEPT ![9] = Len(program.instructions), ![13] = Len(program.table)],
    program.table,
    [i \in DOMAIN program.instructions |-> to_record(program.instructions[i])], spec)

read_fhetch_binary(bytes) ==
  LET Of(decoded) ==
        IF decoded.err # "None" THEN Error(ReadResult)
        ELSE [ok |-> TRUE,
              program |-> [meta |-> decoded.meta, table |-> decoded.table, notes |-> <<>>,
                           instructions |-> [i \in DOMAIN decoded.records |->
                                               from_record(decoded.records[i])]]]
  IN  Of(decode_fhetch_program(bytes))

(* read_fhetch_file() on a file that holds bytes: without the magic it is  *)
(* text, and so short a cut of a binary file is one unknown word.          *)
read_fhetch_file(bytes) ==
  IF Len(bytes) >= 4 /\ SubSeq(bytes, 1, 4) = kFhexMagic THEN read_fhetch_binary(bytes)
  ELSE ReadResult
=============================================================================
