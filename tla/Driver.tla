------------------------------- MODULE Driver -------------------------------
(***************************************************************************)
(* The trace driver (src/fhetch_parser.cpp): a recorded program is driven  *)
(* through the FHETCH API instruction by instruction, between start() and  *)
(* stop(), which records a second trace.  Addresses of the file are keys   *)
(* for polynomials; the API gives each result an address of its own.       *)
(*                                                                         *)
(* The program is drawn as it is read: each step takes the next            *)
(* instruction of the file.  Its modulus is an index into the file's       *)
(* table, a literal prime, or absent.  The immediate of a transform is its *)
(* recorded root, 0 where there is none.                                   *)
(***************************************************************************)
EXTENDS FhetchApi

CONSTANTS
  FileAddrs,      (* the addresses of the file                             *)
  Table,          (* the file's modulus table                              *)
  FileCode,       (* the instructions a file is made of                    *)
  Literal,        (* those of them whose modulus is a literal prime        *)
  BadRoot,        (* a root the API refuses                                *)
  InputModulus,   (* the modulus DriveInputs gives with its values         *)
  Outputs,        (* DriveOutputs: addresses in the order of their         *)
                  (* poly_index, under one name                            *)
  MaxProgram      (* bound: instructions in the file                       *)

(* The instructions a reader hands over: no illegal opcode, and addresses  *)
(* of the file.                                                            *)
ASSUME FileCodeAssumption ==
  \A inst \in FileCode :
    /\ inst = Instruction(inst.opcode, inst.dest, inst.src1, inst.src2, inst.immediate, inst.modulus)
    /\ inst.opcode \in FhOpcode \ {"ill"}
    /\ inst.opcode # "halt" => inst.dest \in FileAddrs /\ inst.src1 \in FileAddrs
    /\ inst.opcode \in TwoSources => inst.src2 \in FileAddrs

ASSUME OutputsAssumption == Outputs \in Seq(FileAddrs) /\ Outputs # <<>>

(* An instruction takes at most three addresses of the second trace. *)
ASSUME MaxProgramAssumption == MaxProgram \in Nat /\ 3 * MaxProgram <= AddressSpace

VARIABLES
  inputs,     (* DriveInputs: file address -> values, None where missing   *)
  program,    (* the instructions read so far                              *)
  phase,      (* "driving", "rejected", "failed", "stopped"                *)
  drv,        (* the driver: the API's state, and file address -> polynomial *)
  skipped,    (* instructions the driver skipped                           *)
  memory      (* what replaying the second trace leaves, or None           *)

vars == <<inputs, program, phase, drv, skipped, memory>>

Roots == {"ntt", "intt"}
Values == [a \in FileAddrs |-> <<"data", a>>]

Init ==
  /\ inputs \in [FileAddrs -> {"given", "missing"}]
  /\ program = <<>>
  /\ phase = "driving"
  /\ drv = [api |-> [NewApi EXCEPT !.recording = TRUE], polys |-> <<>>]
  /\ skipped = 0
  /\ memory = None

-----------------------------------------------------------------------------
(* Variant: the call's effect on the API is lost. *)
put_Lost(d, a, r) == [api |-> d.api, polys |-> With(d.polys, a, r.out)]

put(d, a, r) == [api |-> r.api, polys |-> With(d.polys, a, r.out)]

(* A source read before it was written is a live-in: with the caller's     *)
(* values, which go straight to the compiler, or a tagged placeholder.     *)
get_or_create_src(d, a) ==
  IF a \in DOMAIN d.polys THEN d
  ELSE IF inputs[a] = "given"
  THEN LET r == from_data(d.api, Values[a])
           elem == [addr_id |-> r.out.address, modulus |-> InputModulus, values |-> Values[a]] IN
       put(d, a, Returns([r.api EXCEPT !.captured_inputs = store_element(@, a, "SRP", FALSE, elem)], r.out))
  ELSE LET r == zeros(d.api) IN put(d, a, Returns(tag_input(r.api, OfPolynomial(a, r.out)), r.out))

(* Variant: the operand of a zero-init is taken for a live-in. *)
get_or_create_zero_src_Tagged(d, a) == get_or_create_src(d, a)

(* The operand of a zero-init is read by nobody. *)
get_or_create_zero_src(d, a) ==
  IF a \in DOMAIN d.polys THEN d ELSE put(d, a, zeros(d.api))

(* Driver::resolve(): whether the modulus has a value, and the value. *)
resolves(inst) ==
  inst.modulus # None /\ inst \notin Literal => inst.modulus + 1 \in DOMAIN Table
Modulus(inst) ==
  IF inst.modulus = None THEN 0
  ELSE IF inst \in Literal THEN inst.modulus
  ELSE Table[inst.modulus + 1]

(* The driver with the instruction's sources at hand. *)
SourcesOf(d, inst) ==
  LET first == IF IsZeroInit(inst) THEN get_or_create_zero_src(d, inst.src1)
               ELSE get_or_create_src(d, inst.src1)
  IN IF inst.opcode \in TwoSources THEN get_or_create_src(first, inst.src2) ELSE first

rejects(inst) == inst.opcode \in Roots /\ inst.immediate = BadRoot

(* drive_instruction(): the call its opcode maps to. *)
drive_instruction(d, inst) ==
  IF inst.opcode = "halt" THEN [d EXCEPT !.api = halt(@)]
  ELSE LET ready == SourcesOf(d, inst)
           a == ready.polys[inst.src1]
           b == IF inst.opcode \in TwoSources THEN ready.polys[inst.src2] ELSE a
           api == IF inst.opcode \in ScalarOps THEN from_int(ready.api) ELSE ready.api
           q == IF inst.opcode \in InertOps \ {"permute", "automorph_coeff"} THEN None ELSE Modulus(inst)
       IN put(ready, inst.dest,
              IF inst.opcode = "automorph_eval"
              THEN sr_automorph_eval(api, a, inst.immediate, None)
              ELSE sr(api, inst.opcode, a, b, inst.immediate, q))

(* One output address: the last polynomial there, if there is one. *)
tag_final(d, a) ==
  IF a \in DOMAIN d.polys THEN [d EXCEPT !.api = tag_output(@, OfPolynomial("out", d.polys[a]))]
  ELSE d
Finals == INSTANCE LeftFold WITH Op <- tag_final

(* Variant: outputs in the order of their addresses. *)
finalize_outputs_ByAddress(d) == Finals!Fold(d, SetToSortSeq(ToSet(Outputs), <))

finalize_outputs(d) == Finals!Fold(d, Outputs)

-----------------------------------------------------------------------------
Reading(inst) ==
  /\ phase = "driving"
  /\ Len(program) < MaxProgram
  /\ program' = Append(program, inst)
  /\ UNCHANGED <<inputs, memory>>

Drive(inst) ==
  /\ Reading(inst)
  /\ resolves(inst) /\ ~rejects(inst)
  /\ drv' = drive_instruction(drv, inst)
  /\ UNCHANGED <<phase, skipped>>

(* An index outside the table: reported, and the instruction skipped. *)
Skip(inst) ==
  /\ Reading(inst)
  /\ ~resolves(inst)
  /\ skipped' = skipped + 1
  /\ UNCHANGED <<phase, drv>>

(* The API refuses the root and throws, which ends the drive. *)
Reject(inst) ==
  /\ Reading(inst)
  /\ resolves(inst) /\ rejects(inst)
  /\ drv' = SourcesOf(drv, inst)
  /\ phase' = "rejected"
  /\ UNCHANGED skipped

(* The end of the file, then stop(). *)
Stop ==
  /\ phase = "driving"
  /\ drv' = [drv EXCEPT !.api = halt(sync_fhetch_state_to_compiler(finalize_outputs(drv).api))]
  /\ UNCHANGED <<inputs, program, skipped>>

(* drive_program() returns true: an instruction was replayed, and the      *)
(* caller goes on to replay().                                             *)
Finish ==
  /\ Stop
  /\ skipped < Len(program)
  /\ memory' = Run(Loaded(drv'.api.captured_inputs), drv'.api.log)
  /\ phase' = "stopped"

(* It returns false for a file that is empty or unreadable, and for one    *)
(* all of whose instructions were skipped: the caller gives up.            *)
GiveUp ==
  /\ Stop
  /\ skipped = Len(program)
  /\ phase' = "failed"
  /\ UNCHANGED memory

Next ==
  \/ \E inst \in FileCode : Drive(inst) \/ Skip(inst) \/ Reject(inst)
  \/ Finish
  \/ GiveUp

Spec == Init /\ [][Next]_vars

-----------------------------------------------------------------------------
(* Properties *)

(* Types; every polynomial of the driver's map has an address the API has  *)
(* given out (Driver::put).                                                *)
TypeOK ==
  /\ inputs \in [FileAddrs -> {"given", "missing"}]
  /\ phase \in {"driving", "rejected", "failed", "stopped"}
  /\ DOMAIN drv.polys \subseteq FileAddrs
  /\ \A a \in DOMAIN drv.polys : drv.polys[a].address < drv.api.next_address
  /\ skipped \in 0 .. Len(program)

(* The simulator executes every instruction, and a zero-init names its     *)
(* destination as operand, as the probes write it, or an address used      *)
(* before: the placeholder the driver keeps for any other operand hides a  *)
(* later live-in.                                                          *)
Used(prog, n) == UNION {Reads(prog[j]) \cup Writes(prog[j]) : j \in 1 .. n}
Regular(prog) ==
  \A i \in DOMAIN prog :
    /\ prog[i].opcode \notin InertOps \ {"halt"}
    /\ IsZeroInit(prog[i]) => prog[i].src1 \in {prog[i].dest} \cup Used(prog, i - 1)

(* The whole program was driven. *)
Driven == phase = "stopped" /\ skipped = 0 /\ Regular(program)

(* What the file computes from the caller's inputs, the rest zero. *)
Given == [a \in {x \in FileAddrs : inputs[x] = "given"} |-> Values[a]]
Resolved == [i \in DOMAIN program |-> [program[i] EXCEPT !.modulus = Modulus(program[i])]]
FileMemory == Run(Given, Resolved)

(* The second trace, replayed from what the drive captured, leaves at the  *)
(* captured outputs, in the order of poly_index, what the file computes at *)
(* the output addresses.                                                   *)
DriveFaithful ==
  Driven /\ ToSet(Outputs) \subseteq DOMAIN drv.polys =>
    LET out == drv.api.captured_outputs[1].elements IN
    /\ Len(out) = Len(Outputs)
    /\ \A i \in DOMAIN out : At(memory, out[i].addr_id) = At(FileMemory, Outputs[i])

(* The captured inputs are live-ins of the file, the caller's among them   *)
(* all: a zero-init's operand is no input.                                 *)
InputsAreLiveIns ==
  Driven =>
    LET captured == {drv.api.captured_inputs[i].name : i \in DOMAIN drv.api.captured_inputs} IN
    /\ captured \subseteq ReadBeforeWrite(program)
    /\ {a \in ReadBeforeWrite(program) : inputs[a] = "given"} \subseteq captured

(* What fhetch_parser.h says of DriveOutputs, and reconstruct_probes() of  *)
(* the driver: an output is tagged each time an instruction that writes    *)
(* its address is emitted, so one that is written twice is tagged twice.   *)
Emits(inst) == inst.opcode # "halt" /\ inst.dest \in ToSet(Outputs)
OutputsTaggedWhenEmitted ==
  LET emitted == SelectSeq(program, Emits) IN
  Driven /\ ToSet(Outputs) = {emitted[i].dest : i \in DOMAIN emitted} =>
    Len(drv.api.probe_registry) = Len(emitted)
=============================================================================
