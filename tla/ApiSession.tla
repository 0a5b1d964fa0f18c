----------------------------- MODULE ApiSession -----------------------------
(***************************************************************************)
(* A host that drives the FHETCH API directly: it creates polynomials,     *)
(* calls the API, tags inputs and outputs, and brackets the work with      *)
(* start(), stop(), replay() and reset() of the compiler                   *)
(* (src/fhetch_api.cpp, src/compiler.cpp), over several cycles.            *)
(***************************************************************************)
EXTENDS FhetchApi

CONSTANTS
  Primes,       (* the moduli                                              *)
  Base,         (* the base of the multi-residue polynomials               *)
  Hosts,        (* the hosts considered: the single- and multi-residue     *)
                (* calls each makes, the primes and immediates it gives    *)
                (* them, and bounds on its objects, tags and cycles        *)
  Names,        (* the names tags use                                      *)
  Rules         (* what the hosts keep to: see below                       *)

ASSUME PrimesAssumption == Primes \subseteq Nat /\ {COPY_SENTINEL, None} \cap Primes = {}
ASSUME BaseAssumption == Base \in Seq(Primes) /\ Base # <<>>

(* No object takes more addresses than a dot product: six calls on a base. *)
ASSUME HostsAssumption ==
  \A h \in Hosts :
    /\ h.primes \subseteq Primes
    /\ h.max_objects \in Nat /\ h.max_cycles \in Nat
    /\ 6 * Len(Base) * h.max_objects <= AddressSpace
ASSUME DataAssumption ==
  \A h \in Hosts : \A n \in 0 .. h.max_objects : <<"data", n>> # None

(* "inside":  polynomials are created and tagged between start() and stop();*)
(* "intime":  nothing is tagged after stop();                              *)
(* "typed":   by stop() every tagged input has a modulus, from a call, from *)
(*            bind_modulus() or of its own;                                *)
(* "cleared": start() follows a reset() once something was captured.       *)

VARIABLES
  host,       (* the host                                                  *)
  api,        (* the API's and the compiler's recording state              *)
  running,    (* Impl::running                                             *)
  trace,      (* the trace this cycle's stop() wrote, or None              *)
  memory,     (* the memory this cycle's last replay() left, or None       *)
  polys, mrps,     (* the polynomials the host holds, each with its cycle  *)
  tagged,     (* history: the polynomials the host tagged as inputs        *)
  cycle,      (* history: start() calls so far                             *)
  dropped,    (* history: the captures of this cycle were cleared          *)
  objects     (* history: objects made so far                              *)

vars == <<host, api, running, trace, memory, polys, mrps, tagged, cycle, dropped, objects>>

Init ==
  /\ host \in Hosts
  /\ api = NewApi
  /\ running = FALSE
  /\ trace = None /\ memory = None
  /\ polys = {} /\ mrps = {}
  /\ tagged = {}
  /\ cycle = 0
  /\ dropped = FALSE
  /\ objects = 0

Held(p) == [cycle |-> cycle, p |-> p]

(* Objects of this cycle, and under "inside" only those. *)
Usable(x) == "inside" \in Rules => x.cycle = cycle

MayMake == objects < host.max_objects /\ ("inside" \in Rules => running)
MayCall == objects < host.max_objects /\ running

Makes(r) ==
  /\ api' = r.api
  /\ polys' = polys \cup {Held(r.out)}
  /\ objects' = objects + 1
  /\ UNCHANGED <<host, running, trace, memory, mrps, tagged, cycle, dropped>>

MakesMRP(r) ==
  /\ api' = r.api
  /\ mrps' = mrps \cup {Held(r.out)}
  /\ objects' = objects + 1
  /\ UNCHANGED <<host, running, trace, memory, polys, tagged, cycle, dropped>>

-----------------------------------------------------------------------------
(* Polynomials and calls *)

NewPolynomial == MayMake /\ Makes(from_data(api, <<"data", objects>>))

Call(op, a, b, imm, q) ==
  /\ MayCall /\ Usable(a) /\ Usable(b)
  /\ op \notin TwoSources => a = b
  /\ LET ready == IF op \in ScalarOps THEN from_int(api) ELSE api
         mod == IF op \in InertOps \ {"permute", "automorph_coeff"} THEN None ELSE q IN
     Makes(sr(ready, op, a.p, b.p, imm, mod))

AutomorphEval(x, k, q) ==
  /\ "automorph_eval" \in host.calls /\ MayCall /\ Usable(x)
  /\ Makes(sr_automorph_eval(api, x.p, k, q))

Copy(x, q) == MayCall /\ Usable(x) /\ Makes(copy_residue(api, x.p, q))

BindModulus(x, q) ==
  /\ running /\ Usable(x)
  /\ api' = bind_modulus(api, x.p, q)
  /\ UNCHANGED <<host, running, trace, memory, polys, mrps, tagged, cycle, dropped, objects>>

(* An MRP of polynomials with data the host holds, in the order of their   *)
(* addresses: MRP::from_pairs().                                           *)
FromPairs(f) ==
  /\ host.multi_calls # {} /\ MayMake
  /\ \A q \in ToSet(Base) : Usable(f[q]) /\ f[q].p.data # None
  /\ \A i, j \in DOMAIN Base : i < j => f[Base[i]].p.address < f[Base[j]].p.address
  /\ MakesMRP(Returns(api, MRP(Base, [q \in ToSet(Base) |-> f[q].p])))

MultiCall(op, x, y, imm) ==
  /\ MayCall /\ Usable(x) /\ Usable(y)
  /\ op \notin TwoSources => x = y
  /\ LET ready == IF op \in ScalarOps THEN [api EXCEPT !.next_address = @ + Len(Base)] ELSE api
     IN MakesMRP(mr(ready, op, x.p, y.p, imm))

MultiAutomorphEval(x, k) ==
  MayCall /\ Usable(x) /\ MakesMRP(mr_automorph_eval(api, x.p, k))

DotProduct(x, y) ==
  /\ MayCall /\ Usable(x) /\ Usable(y)
  /\ MakesMRP(mrpa_dotproduct(api, <<x.p, y.p>>, <<y.p, x.p>>))

-----------------------------------------------------------------------------
(* Tags *)

Tags(s) == Len(s.input_registry) + Len(s.probe_registry)
MayTag ==
  /\ Tags(api) < host.max_tags
  /\ \/ running
     \/ trace = None /\ "inside" \notin Rules
     \/ trace # None /\ "intime" \notin Rules

TagInput(entry, ps) ==
  /\ MayTag
  /\ ps \cap tagged = {}
  /\ api' = tag_input(api, entry)
  /\ tagged' = tagged \cup ps
  /\ UNCHANGED <<host, running, trace, memory, polys, mrps, cycle, dropped, objects>>

TagOutput(entry) ==
  /\ MayTag
  /\ cycle > 0
  /\ api' = tag_output(api, entry)
  /\ UNCHANGED <<host, running, trace, memory, polys, mrps, tagged, cycle, dropped, objects>>

ResiduesOf(x) == {[cycle |-> x.cycle, p |-> x.p.res[q]] : q \in DOMAIN x.p.res}

TagInputs(name) ==
  \/ \E x \in polys : Usable(x) /\ x.p.data # None /\ TagInput(OfPolynomial(name, x.p), {x})
  \/ \E x, y \in polys : /\ host.multi_calls # {} /\ x # y /\ Usable(x) /\ Usable(y)
                         /\ x.p.data # None /\ y.p.data # None
                         /\ TagInput(OfSRPArray(name, <<x.p, y.p>>), {x, y})
  \/ \E x \in mrps : Usable(x) /\ (\A h \in ResiduesOf(x) : h.p.data # None)
                     /\ \/ TagInput(OfMRP(name, x.p), ResiduesOf(x))
                        \/ TagInput(OfMRPArray(name, <<x.p>>), ResiduesOf(x))

TagOutputs(name) ==
  \/ \E x \in polys : Usable(x) /\ TagOutput(OfPolynomial(name, x.p))
  \/ \E x, y \in polys : /\ host.multi_calls # {} /\ x # y /\ Usable(x) /\ Usable(y)
                         /\ TagOutput(OfSRPArray(name, <<x.p, y.p>>))
  \/ \E x \in mrps : Usable(x) /\ (TagOutput(OfMRP(name, x.p)) \/ TagOutput(OfMRPArray(name, <<x.p>>)))

-----------------------------------------------------------------------------
(* The compiler's session *)

Start ==
  /\ ~running
  /\ cycle < host.max_cycles
  /\ "cleared" \in Rules => api.captured_inputs = <<>> /\ api.captured_outputs = <<>>
  /\ api' = [reset_for_epoch(api) EXCEPT !.log = <<>>, !.comments = <<>>, !.recording = TRUE]
  /\ running' = TRUE
  /\ cycle' = cycle + 1
  /\ trace' = None /\ memory' = None
  /\ dropped' = FALSE
  /\ UNCHANGED <<host, polys, mrps, tagged, objects>>

(* The host has tagged the data it works on. *)
AllTagged == \A x \in polys : x.p.data # None => x \in tagged

AllTyped == \A e \in ToSet(api.input_registry) : \A r \in ToSet(Tagged(api, e)) : r.modulus # None

Stop ==
  /\ running
  /\ AllTagged
  /\ "typed" \in Rules => AllTyped
  /\ api' = [halt(sync_fhetch_state_to_compiler(api)) EXCEPT !.recording = FALSE]
  /\ trace' = api'.log
  /\ running' = FALSE
  /\ UNCHANGED <<host, memory, polys, mrps, tagged, cycle, dropped, objects>>

(* replay() in this process: the registries are synced, the captured       *)
(* inputs loaded, the trace run.                                           *)
Replay ==
  /\ ~running
  /\ trace # None /\ ~dropped
  /\ api' = sync_fhetch_state_to_compiler(api)
  /\ memory' = Run(Loaded(api'.captured_inputs), trace)
  /\ UNCHANGED <<host, running, trace, polys, mrps, tagged, cycle, dropped, objects>>

ClearCaptured ==
  /\ ~running
  /\ api' = [api EXCEPT !.captured_inputs = <<>>, !.captured_outputs = <<>>]
  /\ memory' = None
  /\ dropped' = TRUE
  /\ UNCHANGED <<host, running, trace, polys, mrps, tagged, cycle, objects>>

Reset ==
  /\ api' = [clear_recording_registries(api) EXCEPT
               !.captured_inputs = <<>>, !.captured_outputs = <<>>, !.log = <<>>, !.comments = <<>>]
  /\ running' = FALSE
  /\ trace' = None
  /\ memory' = None
  /\ UNCHANGED <<host, polys, mrps, tagged, cycle, dropped, objects>>

Next ==
  \/ NewPolynomial
  \/ \E op \in host.calls \ {"automorph_eval"}, imm \in host.immediates, q \in host.primes, a, b \in polys : Call(op, a, b, imm, q)
  \/ \E op \in host.multi_calls, imm \in host.immediates, x, y \in mrps : MultiCall(op, x, y, imm)
  \/ \E x \in polys, k \in host.immediates, q \in host.primes \cup {None} : AutomorphEval(x, k, q)
  \/ \E x \in polys, q \in host.primes : Copy(x, q) \/ BindModulus(x, q)
  \/ \E f \in [ToSet(Base) -> polys] : FromPairs(f)
  \/ \E x \in mrps, k \in host.immediates : MultiAutomorphEval(x, k)
  \/ \E x, y \in mrps : DotProduct(x, y)
  \/ \E name \in Names : TagInputs(name) \/ TagOutputs(name)
  \/ Start \/ Stop \/ Replay \/ ClearCaptured \/ Reset

Spec == Init /\ [][Next]_vars

-----------------------------------------------------------------------------
(* Properties *)

(* Types; only addresses the counter has given out have a modulus, and     *)
(* while the session runs the writer records (start(), reset_for_epoch()). *)
TypeOK ==
  /\ api.next_address \in Nat
  /\ DOMAIN api.address_modulus \subseteq 0 .. api.next_address - 1
  /\ running \in BOOLEAN
  /\ running => api.recording
  /\ cycle \in 0 .. host.max_cycles /\ objects \in 0 .. host.max_objects

(* The residues a registry entry tags. *)
Polys(entry) == {entry.residues[i].poly : i \in DOMAIN entry.residues}

(* What replay() leaves at every tagged output is what the calls that      *)
(* built it mean, applied to the data the host tagged: no address is given *)
(* twice, no operand is narrowed into another, no tagged input is missing. *)
(* An input tagged again with another kind is an error of the host's.      *)
SameKinds(reg) == \A i, j \in DOMAIN reg : reg[i].name = reg[j].name => reg[i].kind = reg[j].kind
OutputsRight ==
  memory # None /\ SameKinds(api.input_registry) =>
    \A i \in DOMAIN api.probe_registry : \A p \in Polys(api.probe_registry[i]) :
      At(memory, p.address) = p.term

(* The elements to be captured under a name, and one more residue. *)
Wants(name, elements) == [name |-> name, elements |-> elements]
want_input(w, r) ==
  IF r.name = w.name /\ r.modulus # None THEN Wants(w.name, Append(w.elements, Input(r))) ELSE w
want_output(w, r) ==
  IF r.name = w.name THEN Wants(w.name, Append(w.elements, Probe(r))) ELSE w

(* The residues of one entry, and of a registry. *)
EntryWantsIn == INSTANCE LeftFold WITH Op <- want_input
EntryWantsOut == INSTANCE LeftFold WITH Op <- want_output
want_inputs(w, rs) == EntryWantsIn!Fold(w, rs)
want_outputs(w, rs) == EntryWantsOut!Fold(w, rs)
AllWantsIn == INSTANCE LeftFold WITH Op <- want_inputs
AllWantsOut == INSTANCE LeftFold WITH Op <- want_outputs

NamesIn(registry) == {registry[i].name : i \in DOMAIN registry}
WantedInputs(s) ==
  [n \in NamesIn(s.input_registry) |->
     AllWantsIn!Fold(Wants(n, <<>>), TaggedAll(s, s.input_registry)).elements]
WantedOutputs(s) ==
  [n \in NamesIn(s.probe_registry) |->
     AllWantsOut!Fold(Wants(n, <<>>), TaggedAll(s, s.probe_registry)).elements]

(* One record for each name, with the elements wanted under it. *)
Matches(records, wanted) ==
  /\ \A i, j \in DOMAIN records : records[i].name = records[j].name => i = j
  /\ \A i \in DOMAIN records : /\ records[i].name \in DOMAIN wanted
                               /\ records[i].elements = wanted[records[i].name]
  /\ \A n \in DOMAIN wanted :
       wanted[n] # <<>> => \E i \in DOMAIN records : records[i].name = n

Once(s) ==
  /\ SameKinds(s.input_registry) => Matches(s.captured_inputs, WantedInputs(s))
  /\ SameKinds(s.probe_registry) => Matches(s.captured_outputs, WantedOutputs(s))

(* When replay() has run, the compiler has captured every residue tagged   *)
(* in this cycle, once and in order, and nothing of another cycle.         *)
CapturedOnce == memory # None => Once(api)

(* A captured output carries the modulus it was computed under, also when  *)
(* later calls use it under another; a captured input carries the sentinel *)
(* only if no instruction reads it under a real modulus.                   *)
ModuliRight ==
  api.synced =>
    /\ \A i \in DOMAIN api.captured_outputs : \A k \in DOMAIN api.captured_outputs[i].elements :
         LET el == api.captured_outputs[i].elements[k] IN
         \A x \in polys : x.cycle = cycle /\ x.p.address = el.addr_id /\ x.p.q \in Primes
                            => el.modulus = x.p.q
    /\ \A i \in DOMAIN api.captured_inputs : \A k \in DOMAIN api.captured_inputs[i].elements :
         LET el == api.captured_inputs[i].elements[k] IN
         el.modulus = COPY_SENTINEL =>
           \A j \in DOMAIN api.log : el.addr_id \in Reads(api.log[j]) => api.log[j].modulus \notin Primes
=============================================================================
