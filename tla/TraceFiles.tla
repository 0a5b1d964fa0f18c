----------------------------- MODULE TraceFiles -----------------------------
(***************************************************************************)
(* A program written to its text and binary files, read back and written   *)
(* again, with a crash able to cut a file short while it is written.       *)
(***************************************************************************)
EXTENDS FhetchText

CONSTANTS
  Tables,           (* the modulus tables a program may have               *)
  Metas,            (* the metadata it may carry                           *)
  Emittable,        (* the instructions a producer may emit                *)
  Notes,            (* the comments it may emit                            *)
  Specs,            (* the revisions a binary file may be written in       *)
  MaxInstructions, MaxNotes, MaxReads,   (* bounds                         *)
  Sample            (* bound: a write is cut short, and a comment is not   *)
                    (* prose, only in programs of these instructions       *)

VARIABLES
  program,   (* the program in memory                                      *)
  emitted,   (* history: the instructions and notes as first emitted       *)
  text,      (* the lines of the .fhetch file, or None                     *)
  binary,    (* the bytes of the .fhex file, or None                       *)
  damaged,   (* the forms whose write did not finish                       *)
  reads      (* files read back so far                                     *)

vars == <<program, emitted, text, binary, damaged, reads>>

Init ==
  /\ \E t \in Tables, m \in Metas : program = [NoProgram EXCEPT !.table = t, !.meta = m]
  /\ emitted = program
  /\ text = None /\ binary = None /\ damaged = {} /\ reads = 0

Building == text = None /\ binary = None /\ reads = 0

(* An index a producer writes is one of its table's; a prime it writes     *)
(* literally is larger than any table.                                     *)
Producible(inst, table) ==
  inst.modulus # None =>
    IF inst.modulus_is_literal THEN inst.modulus >= Len(table) ELSE inst.modulus < Len(table)

OfSample(p) == ToSet(p.instructions) \subseteq Sample
AllProse(p) == \A n \in ToSet(p.notes) : n.text.is = "prose"

Emit(inst) ==
  /\ Building /\ Len(program.instructions) < MaxInstructions
  /\ Producible(inst, program.table)
  /\ program' = [program EXCEPT !.instructions = Append(@, inst)]
  /\ AllProse(program') \/ OfSample(program')
  /\ emitted' = program'
  /\ UNCHANGED <<text, binary, damaged, reads>>

Annotate(t) ==
  /\ Building /\ Len(program.notes) < MaxNotes
  /\ program' = [program EXCEPT !.notes =
                   Append(@, [text |-> t, after |-> Len(program.instructions)])]
  /\ AllProse(program') \/ OfSample(program')
  /\ emitted' = program'
  /\ UNCHANGED <<text, binary, damaged, reads>>

WriteText ==
  /\ text = None /\ damaged = {}
  /\ text' = write_fhetch_text(program)
  /\ UNCHANGED <<program, emitted, binary, damaged, reads>>

(* A revision that names neither a version nor a date throws. *)
WriteBinary(spec) ==
  /\ binary = None /\ damaged = {} /\ SpecValid(spec)
  /\ binary' = write_fhetch_binary(program, spec)
  /\ UNCHANGED <<program, emitted, text, damaged, reads>>

MayCrash == Building /\ OfSample(program) /\ AllProse(program)

(* Shortened decimal and hexadecimal numbers. *)
Shorter(v, base) == {v \div base ^ j : j \in 1 .. 3} \ {0}

(* What is left of a line cut short.  Comment lines only lose their end,   *)
(* which nothing looks at; a cut mnemonic is an unknown word.              *)
CutLine(line) ==
  CASE line.kind = "inst" ->
         {[line EXCEPT !.args = SubSeq(@, 1, n)] : n \in 0 .. Len(line.args) - 1}
         \cup {[line EXCEPT !.args = SubSeq(@, 1, n - 1) \o <<Tok("?", 0)>>] : n \in DOMAIN line.args}
         \cup UNION {{[line EXCEPT !.args = SubSeq(@, 1, n - 1) \o <<[@[n] EXCEPT !.v = v]>>] :
                        v \in Shorter(line.args[n].v, 10)} :
                     n \in {k \in DOMAIN line.args : line.args[k].kind # "fp"}}
    [] line.kind = "entry" ->
         {[kind |-> "malformed"], [line EXCEPT !.value = 0]}
         \cup {[line EXCEPT !.value = v] : v \in Shorter(line.value, 16)}
    [] line.kind = "count" -> {[kind |-> "malformed"]}
    [] OTHER -> {line}

(* A file a write leaves behind when it stops part-way. *)
CutText(lines) ==
  \E n \in 0 .. Len(lines) - 1 :
    \/ text' = SubSeq(lines, 1, n)
    \/ \E l \in CutLine(lines[n + 1]) : text' = SubSeq(lines, 1, n) \o <<l>>
CutBinary(bytes) == \E n \in 0 .. Len(bytes) - 1 : binary' = SubSeq(bytes, 1, n)

CrashText ==
  /\ MayCrash
  /\ CutText(write_fhetch_text(program))
  /\ damaged' = {"text"}
  /\ UNCHANGED <<program, emitted, binary, reads>>

CrashBinary(spec) ==
  /\ SpecValid(spec) /\ MayCrash
  /\ CutBinary(write_fhetch_binary(program, spec))
  /\ damaged' = {"binary"}
  /\ UNCHANGED <<program, emitted, text, reads>>

(* A consumer reads one of the files, and may write it again. *)
Read(result) ==
  /\ damaged = {} /\ reads < MaxReads
  /\ result.ok
  /\ program' = result.program
  /\ text' = None /\ binary' = None
  /\ reads' = reads + 1
  /\ UNCHANGED <<emitted, damaged>>

ReadText == text # None /\ Read(read_fhetch_text(text))
ReadBinary == binary # None /\ Read(read_fhetch_file(binary))

Next ==
  \/ \E inst \in Emittable : Emit(inst)
  \/ \E t \in Notes : Annotate(t)
  \/ WriteText \/ CrashText
  \/ \E spec \in Specs : WriteBinary(spec) \/ CrashBinary(spec)
  \/ ReadText \/ ReadBinary

Spec == Init /\ [][Next]_vars

-----------------------------------------------------------------------------
(* What the text form can say of an instruction. *)
Spoken(inst) ==
  IF inst.fp_immediate = None THEN inst ELSE [inst EXCEPT !.fp_immediate = Rounded(@)]
AllSpoken(insts) == [i \in DOMAIN insts |-> Spoken(insts[i])]

(* Whatever files a program has gone through, each writing of it into the  *)
(* other form and reading of it back, its instructions are the ones first  *)
(* emitted, immediates rounded, over the same table (fhetch_ir.h:         *)
(* the same program read from .fhetch and from .fhex gives equal           *)
(* instructions).                                                          *)
ConversionsKeepProgram ==
  /\ program.table = emitted.table
  /\ AllSpoken(program.instructions) = AllSpoken(emitted.instructions)

(* A program's binary file reads back as exactly that program, bit         *)
(* patterns and literal moduli included (to_record and from_record, encode *)
(* and decode are inverses).                                               *)
BinaryExact ==
  binary # None /\ damaged = {} =>
    LET Exact(r) == /\ r.ok
                    /\ r.program.table = program.table
                    /\ r.program.instructions = program.instructions
    IN  Exact(read_fhetch_file(binary))

(* The two files of one program read as the same instructions.             *)
FormsAgree ==
  text # None /\ binary # None /\ damaged = {} =>
    LET Agree(t, b) == /\ t.ok = b.ok
                       /\ t.program.table = b.program.table
                       /\ t.program.instructions = AllSpoken(b.program.instructions)
    IN  Agree(read_fhetch_text(text), read_fhetch_file(binary))

(* Whether a reader keeps a comment: it is not one the writer makes up or  *)
(* writes from the metadata.                                               *)
IsContent(body) == body.is # "separator" /\ ~Absorbed(body)

(* A text file reads with every comment that is content at its place       *)
(* between the instructions, none of the writer's own among them, and with *)
(* the header's fields, unless a comment names one of them                 *)
(* (Annotation::after_instruction, Reader::comment).                       *)
TextKeepsNotes ==
  text # None /\ damaged = {} =>
    LET Kept(r) ==
          /\ r.notes = SelectSeq(program.notes, LAMBDA n : IsContent(n.text))
          /\ \A tag \in {1, 3, 4, 5, 8, 10, 16} :
               \/ r.meta[tag] = program.meta[tag]
               \/ \E n \in ToSet(program.notes) :
                    Absorbed(n.text) /\ r.meta = absorb_metadata(r.meta, n.text.key, n.text.v)
    IN  Kept(read_fhetch_text(text).program)

(* A binary file cut short anywhere is refused, or, with not even its      *)
(* magic left, reads as an empty program: never as another program.        *)
CutBinaryRefused ==
  "binary" \in damaged =>
    LET Harmless(r) == r.ok => r.program.instructions = <<>> /\ Len(binary) < 4
    IN  Harmless(read_fhetch_file(binary))

(* A text file cut short reads as the beginning of the program, only its   *)
(* last instruction possibly changed, and over the whole table.            *)
CutTextIsPrefix ==
  "text" \in damaged =>
    LET Begins(r) ==
          LET n == Len(r.instructions) IN
          n > 0 => /\ n <= Len(program.instructions)
                   /\ r.table = program.table
                   /\ \A i \in 1 .. n - 1 : r.instructions[i] = Spoken(program.instructions[i])
    IN  Begins(read_fhetch_text(text).program)
=============================================================================
