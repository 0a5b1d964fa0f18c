----------------------------- MODULE FhetchApi ------------------------------
(***************************************************************************)
(* The FHETCH polynomial API (src/fhetch_api.cpp): polynomials are handles *)
(* with an address of their own, every call records one instruction on a   *)
(* fresh result, and inputs and outputs are tagged in registries that a    *)
(* sync hands to the compiler.                                             *)
(*                                                                         *)
(* Every function is an operator from the API's static state s to a state, *)
(* paired with the object it returns.  An instruction carries its modulus  *)
(* itself, which TraceWriter shows its table index to name, and its k,     *)
(* offset or root in immediate.  A handle carries, as history, the value   *)
(* the caller means by it (term) and the modulus it was computed under (q).*)
(***************************************************************************)
EXTENDS FhetchIR, SequencesExt

CONSTANTS
  COPY_SENTINEL,   (* the modulus of copies and evaluation automorphisms   *)
  None,            (* no data, no modulus                                  *)
  Zero,            (* the all-zero polynomial                              *)
  AddressSpace,    (* 2^32: the addresses an instruction can hold          *)
  Arith(_, _, _, _, _)   (* Arith(opcode, immediate, modulus, a, b): what  *)
                         (* a kernel computes                              *)

ASSUME AddressSpaceAssumption == AddressSpace \in Nat \ {0}

kMaxAddress == AddressSpace - 1

NewApi == [next_address |-> 0, address_modulus |-> <<>>,
           input_registry |-> <<>>, probe_registry |-> <<>>, synced |-> FALSE,
           recording |-> FALSE, log |-> <<>>, comments |-> <<>>,
           captured_inputs |-> <<>>, captured_outputs |-> <<>>]

Returns(s, object) == [api |-> s, out |-> object]

(* f with x mapped to v. *)
With(f, x, v) == [y \in DOMAIN f \cup {x} |-> IF y = x THEN v ELSE f[y]]

(* alloc_address(), through the constructors of Polynomial and Scalar. *)
Alloc(s) == [s EXCEPT !.next_address = @ + 1]

Handle(s, data, term, q) ==
  [address |-> s.next_address, data |-> data, term |-> term, q |-> q]

zeros(s) == Returns(Alloc(s), Handle(s, None, Zero, None))
from_data(s, values) == Returns(Alloc(s), Handle(s, values, values, None))
from_int(s) == Alloc(s)

(* Variant: the latest modulus wins. *)
remember_modulus_Latest(s, addresses, q) ==
  [s EXCEPT !.address_modulus = [a \in addresses |-> q] @@ @]

(* A real modulus takes the place of the copy sentinel. *)
Upgrades(old, q) == old = COPY_SENTINEL /\ q # COPY_SENTINEL

(* remember_modulus(), once for each of the addresses: the first modulus   *)
(* wins, but a real one replaces the copy sentinel.                        *)
remember_modulus(s, addresses, q) ==
  [s EXCEPT !.address_modulus =
     [a \in DOMAIN @ \cup addresses |->
        IF a \in addresses /\ (a \in DOMAIN @ => Upgrades(@[a], q)) THEN q ELSE @[a]]]

bind_modulus(s, p, q) == remember_modulus(s, {p.address}, q)

(* ir(): addresses narrow to the width of an instruction's fields. *)
ir(op, d, s1, s2, imm, q) ==
  Instruction(op, d % AddressSpace, s1 % AddressSpace, s2 % AddressSpace, imm, q)

(* TraceWriter::emit() and comment(). *)
emit(s, inst) ==
  IF s.recording /\ \A a \in {inst.dest, inst.src1, inst.src2} : a <= kMaxAddress
  THEN [s EXCEPT !.log = Append(@, inst)] ELSE s
comment(s, entry) ==
  LET note(r) == [name |-> entry.name, address |-> r.poly.address] IN
  IF s.recording
  THEN [s EXCEPT !.comments = @ \o [i \in DOMAIN entry.residues |-> note(entry.residues[i])]]
  ELSE s

-----------------------------------------------------------------------------
(* What executing an instruction computes. *)

(* The evaluation automorphism does not reduce: its kernel reads no        *)
(* modulus.                                                                *)
Value(inst, a, b) ==
  IF inst.opcode \in InertOps \/ IsZeroInit(inst) THEN Zero
  ELSE IF IsCopy(inst) THEN a
  ELSE Arith(inst.opcode, inst.immediate,
             IF inst.opcode = "automorph_eval" THEN None ELSE inst.modulus,
             a, IF inst.opcode \in PolyPolyOps THEN b ELSE a)

At(mem, a) == IF a \in DOMAIN mem THEN mem[a] ELSE Zero
Step(mem, inst) ==
  IF Writes(inst) = {} THEN mem
  ELSE With(mem, inst.dest, Value(inst, At(mem, inst.src1), At(mem, inst.src2)))

(* The simulator's memory after a run. *)
Sim == INSTANCE LeftFold WITH Op <- Step
Run(mem, prog) == Sim!Fold(mem, prog)

-----------------------------------------------------------------------------
(* Baseline instructions *)

TwoSources == PolyPolyOps \cup {"addp_ni", "subp_ni", "mulp_ni"}

Bind(s, addresses, q) == IF q = None THEN s ELSE remember_modulus(s, addresses, q)

(* A result like a, the modulus bound for operands and result, and one     *)
(* instruction, which names the modulus token.                             *)
record(s, op, a, b, imm, token, q) ==
  LET z == s.next_address
      two == op \in TwoSources
      inst == ir(op, z, a.address, IF two THEN b.address ELSE 0, imm, token)
      bound == Bind(Alloc(s), {a.address, z} \cup (IF two THEN {b.address} ELSE {}), q)
  IN Returns(emit(bound, inst), Handle(s, None, Value(inst, a.term, b.term), q))

(* sr_addp() to sr_permute(), and the non-integer calls, whose q is None. *)
sr(s, op, a, b, imm, q) == record(s, op, a, b, imm, q, q)

(* Both overloads: the instruction carries the sentinel, and only the one  *)
(* that is given a modulus binds it.                                       *)
sr_automorph_eval(s, x, k, q) == record(s, "automorph_eval", x, x, k, COPY_SENTINEL, q)

halt(s) == emit(s, Halt)

(* Variant: the copy stays bound to the sentinel. *)
copy_residue_Unbound(s, src, p) == sr(from_int(s), "addps", src, src, 0, COPY_SENTINEL)

(* r's result, bound to p. *)
Bound(r, p) == Returns(remember_modulus(r.api, {r.out.address}, p), [r.out EXCEPT !.q = p])

(* A pass-through copy: recorded under the sentinel, bound to p. *)
copy_residue(s, src, p) == Bound(sr(from_int(s), "addps", src, src, 0, COPY_SENTINEL), p)

-----------------------------------------------------------------------------
(* Multi-residue polynomials: a base of moduli and a polynomial for each. *)

MRP(base, res) == [base |-> base, res |-> res]

Collect(base, r) == Returns(r.api, MRP(base, r.out))

(* One call for each modulus of the base, in its order. *)
zero_residue(acc, q) == Returns(Alloc(acc.api), With(acc.out, q, zeros(acc.api).out))
Zeros == INSTANCE LeftFold WITH Op <- zero_residue
mr_zeros(s, base) == Collect(base, Zeros!Fold(Returns(s, <<>>), base))

sr_residue(acc, c) ==
  LET r == record(acc.api, c.op, c.a, c.b, c.imm, c.token, c.q)
  IN Returns(r.api, With(acc.out, c.q, r.out))
Residuewise == INSTANCE LeftFold WITH Op <- sr_residue

(* The result is first built of zeros, whose addresses are then dropped. *)
mr_record(s, base, calls) ==
  Collect(base, Residuewise!Fold(Returns(mr_zeros(s, base).api, <<>>), calls))

mr(s, op, x, y, imm) ==
  LET call(q) == [op |-> op, a |-> x.res[q], b |-> y.res[q], imm |-> imm, token |-> q, q |-> q]
  IN mr_record(s, x.base, [i \in DOMAIN x.base |-> call(x.base[i])])

mr_automorph_eval(s, x, k) ==
  LET call(q) == [op |-> "automorph_eval", a |-> x.res[q], b |-> x.res[q], imm |-> k,
                  token |-> COPY_SENTINEL, q |-> q]
  IN mr_record(s, x.base, [i \in DOMAIN x.base |-> call(x.base[i])])

mr_append_srp(x, a, q) == MRP(Append(x.base, q), With(x.res, q, a))
mr_union(x, y) == MRP(x.base \o y.base, y.res @@ x.res)
mr_subset(x, subbase) == MRP(subbase, [q \in ToSet(subbase) |-> x.res[q]])

(* The sum so far and one more product. *)
accumulate(acc, pair) ==
  LET t == mr(acc.api, "mulp", pair.x, pair.y, 0) IN mr(t.api, "addp", acc.out, t.out, 0)
Products == INSTANCE LeftFold WITH Op <- accumulate
mrpa_dotproduct(s, xs, ys) ==
  Products!Fold(mr(s, "mulp", xs[1], ys[1], 0),
                [i \in 1 .. Len(xs) - 1 |-> [x |-> xs[i + 1], y |-> ys[i + 1]]])

-----------------------------------------------------------------------------
(* Registries and their sync to the compiler *)

(* A tagged object: its residues in order, those that start an element of  *)
(* an array marked.  A single-residue polynomial has no modulus of its own.*)
Residue(p, q, starts) == [poly |-> p, q |-> q, starts |-> starts]
OfPolynomial(name, p) ==
  [name |-> name, kind |-> "SRP", residues |-> <<Residue(p, None, FALSE)>>]
OfMRP(name, m) ==
  [name |-> name, kind |-> "MRP",
   residues |-> [i \in DOMAIN m.base |-> Residue(m.res[m.base[i]], m.base[i], FALSE)]]
OfSRPArray(name, ps) ==
  [name |-> name, kind |-> "SRPArray",
   residues |-> [i \in DOMAIN ps |-> Residue(ps[i], None, TRUE)]]

(* The residues of the MRPs before, and of m. *)
residues_of(rs, m) ==
  rs \o [i \in DOMAIN m.base |-> Residue(m.res[m.base[i]], m.base[i], i = 1)]
Elements == INSTANCE LeftFold WITH Op <- residues_of
OfMRPArray(name, ms) ==
  [name |-> name, kind |-> "MRPArray", residues |-> Elements!Fold(<<>>, ms)]

tag_input(s, entry) == [s EXCEPT !.input_registry = Append(@, entry)]

(* A polynomial's and an MRP's tag also leaves comments in the trace. *)
tag_output(s, entry) ==
  LET noted == IF entry.kind \in {"SRP", "MRP"} THEN comment(s, entry) ELSE s
  IN [noted EXCEPT !.probe_registry = Append(@, entry)]

(* find_or_create_record() and store_input_element(), store_output_probe():*)
(* a residue of another kind than its record's is dropped.                 *)
store_element(records, name, kind, starts_new_element, elem) ==
  LET known == \E j \in DOMAIN records : records[j].name = name
      fresh == [name |-> name, kind |-> kind, element_starts |-> <<>>, elements |-> <<>>]
      all == IF known THEN records ELSE Append(records, fresh)
      i == CHOOSE j \in DOMAIN all : all[j].name = name IN
  IF all[i].kind # kind THEN all
  ELSE [all EXCEPT
          ![i].element_starts = IF starts_new_element THEN Append(@, Len(all[i].elements)) ELSE @,
          ![i].elements = Append(@, elem)]

data_or_zeros(p) == IF p.data # None THEN p.data ELSE Zero

(* The residues of an entry, each with the modulus it is stored under: its *)
(* own, or the one bound to its address.                                   *)
Tagged(s, e) ==
  [j \in DOMAIN e.residues |->
     LET r == e.residues[j] IN
     [name |-> e.name, kind |-> e.kind, starts |-> r.starts,
      addr_id |-> r.poly.address, values |-> data_or_zeros(r.poly),
      modulus |-> IF r.q # None THEN r.q
                  ELSE IF r.poly.address \in DOMAIN s.address_modulus
                  THEN s.address_modulus[r.poly.address] ELSE None]]
TaggedAll(s, registry) == [i \in DOMAIN registry |-> Tagged(s, registry[i])]

Input(r) == [addr_id |-> r.addr_id, modulus |-> r.modulus, values |-> r.values]
Probe(r) == [addr_id |-> r.addr_id, modulus |-> IF r.modulus = None THEN 0 ELSE r.modulus]

(* Variant: an input that was only copied is dropped too. *)
store_input_NoCopies(records, r) ==
  IF r.modulus \in {None, COPY_SENTINEL} THEN records
  ELSE store_element(records, r.name, r.kind, r.starts, Input(r))

(* An input no modulus-bearing call used is dropped; an output is kept     *)
(* with modulus 0.                                                         *)
store_input(records, r) ==
  IF r.modulus = None THEN records
  ELSE store_element(records, r.name, r.kind, r.starts, Input(r))
store_output(records, r) == store_element(records, r.name, r.kind, r.starts, Probe(r))

(* The residues of one entry, and of a registry. *)
EntryIn == INSTANCE LeftFold WITH Op <- store_input
EntryOut == INSTANCE LeftFold WITH Op <- store_output
store_inputs(records, rs) == EntryIn!Fold(records, rs)
store_outputs(records, rs) == EntryOut!Fold(records, rs)
AllIn == INSTANCE LeftFold WITH Op <- store_inputs
AllOut == INSTANCE LeftFold WITH Op <- store_outputs

(* Variant: every call stores the registries again. *)
sync_fhetch_state_Again(s) ==
  [s EXCEPT !.synced = TRUE,
            !.captured_inputs = AllIn!Fold(@, TaggedAll(s, s.input_registry)),
            !.captured_outputs = AllOut!Fold(@, TaggedAll(s, s.probe_registry))]

(* sync_fhetch_state_to_compiler(): once until the registries are reset. *)
sync_fhetch_state_to_compiler(s) ==
  IF s.synced THEN s
  ELSE [s EXCEPT !.synced = TRUE,
                 !.captured_inputs = AllIn!Fold(@, TaggedAll(s, s.input_registry)),
                 !.captured_outputs = AllOut!Fold(@, TaggedAll(s, s.probe_registry))]

(* Variant: the moduli of the previous cycle stay. *)
reset_for_epoch_KeepsModuli(s) ==
  [s EXCEPT !.next_address = 0, !.input_registry = <<>>, !.probe_registry = <<>>, !.synced = FALSE]

reset_for_epoch(s) ==
  [s EXCEPT !.next_address = 0, !.input_registry = <<>>, !.probe_registry = <<>>,
            !.address_modulus = <<>>, !.synced = FALSE]

clear_recording_registries(s) == [s EXCEPT !.address_modulus = <<>>, !.synced = FALSE]

(* The simulator's memory when replay() has stored the captured inputs. *)
load(mem, el) == With(mem, el.addr_id, el.values)
LoadElements == INSTANCE LeftFold WITH Op <- load
load_record(mem, r) == LoadElements!Fold(mem, r.elements)
LoadRecords == INSTANCE LeftFold WITH Op <- load_record
Loaded(records) == LoadRecords!Fold(<<>>, records)
=============================================================================
