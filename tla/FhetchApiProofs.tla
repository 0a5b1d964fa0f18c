--------------------------- MODULE FhetchApiProofs ---------------------------
(***************************************************************************)
(* What the operators of FhetchApi do, for the proofs about the sessions   *)
(* that use it.  The main idea is Sound: whatever memory a trace is        *)
(* replayed on, if the memory holds what the inputs I stand for, then the  *)
(* replay leaves what the polynomials P stand for, and touches no address  *)
(* that has not been given out.  Every call of the API keeps it.           *)
(***************************************************************************)
EXTENDS FhetchApi, TLAPS

IsSeq(s) == \E T : s \in Seq(T)

Fields == {"next_address", "address_modulus", "input_registry", "probe_registry",
           "synced", "recording", "log", "comments", "captured_inputs", "captured_outputs"}

(* A state of the API: its fields, its counter and its trace. *)
Api(s) == DOMAIN s = Fields /\ s.next_address \in Nat /\ IsSeq(s.log)

Agrees(m, P) == \A p \in P : At(m, p.address) = p.term
Meaning(log, I, P) == \A m : Agrees(m, I) => Agrees(Run(m, log), P)
Fresh(log, n) == \A m : \A a \in Nat : a >= n => At(Run(m, log), a) = At(m, a)
Below(P, n) == \A p \in P : p.address \in 0 .. n - 1

Sound(s, I, P) ==
  /\ Api(s)
  /\ Below(I, s.next_address) /\ Below(P, s.next_address)
  /\ Fresh(s.log, s.next_address)
  /\ Meaning(s.log, I, P)

-----------------------------------------------------------------------------
(* Sequences *)

LEMMA AppendIsSeq ==
  ASSUME NEW s, IsSeq(s), NEW x
  PROVE  /\ IsSeq(Append(s, x))
         /\ Len(s) \in Nat /\ Len(Append(s, x)) = Len(s) + 1
         /\ DOMAIN s = 1 .. Len(s)
         /\ DOMAIN Append(s, x) = 1 .. Len(s) + 1
         /\ Append(s, x)[Len(s) + 1] = x
         /\ \A i \in 1 .. Len(s) : Append(s, x)[i] = s[i]
<1>1. PICK T : s \in Seq(T) BY DEF IsSeq
<1>2. s \in Seq(T \cup {x}) BY <1>1
<1>3. Append(s, x) \in Seq(T \cup {x}) BY <1>2
<1> QED BY <1>1, <1>3 DEF IsSeq

LEMMA SeqFacts ==
  ASSUME NEW s, IsSeq(s)
  PROVE  Len(s) \in Nat /\ DOMAIN s = 1 .. Len(s)
BY DEF IsSeq

-----------------------------------------------------------------------------
(* Executing a trace *)

LEMMA AtWith ==
  ASSUME NEW m, NEW x, NEW v, NEW a
  PROVE  At(With(m, x, v), a) = IF a = x THEN v ELSE At(m, a)
<1>1. DOMAIN With(m, x, v) = DOMAIN m \cup {x} BY DEF With
<1>2. \A y \in DOMAIN m \cup {x} : With(m, x, v)[y] = IF y = x THEN v ELSE m[y] BY DEF With
<1> QED BY <1>1, <1>2 DEF At

LEMMA StepAt ==
  ASSUME NEW m, NEW inst, NEW a
  PROVE  At(Step(m, inst), a) =
           IF inst.opcode \notin InertOps /\ a = inst.dest
           THEN Value(inst, At(m, inst.src1), At(m, inst.src2)) ELSE At(m, a)
<1>1. CASE inst.opcode \in InertOps BY <1>1 DEF Step, Writes
<1>2. CASE inst.opcode \notin InertOps
  <2>1. Writes(inst) # {} BY <1>2 DEF Writes
  <2>2. Step(m, inst) = With(m, inst.dest, Value(inst, At(m, inst.src1), At(m, inst.src2)))
    BY <2>1 DEF Step
  <2> QED BY <1>2, <2>2, AtWith
<1> QED BY <1>1, <1>2

LEMMA RunEmpty ==
  ASSUME NEW m PROVE Run(m, <<>>) = m
BY Sim!FoldEmpty DEF Run

LEMMA RunAppend ==
  ASSUME NEW m, NEW log, IsSeq(log), NEW inst
  PROVE  Run(m, Append(log, inst)) = Step(Run(m, log), inst)
<1>1. PICK T : log \in Seq(T) BY DEF IsSeq
<1> QED BY <1>1, Sim!FoldAppend DEF Run

-----------------------------------------------------------------------------
(* Sound and how it grows *)

LEMMA SoundNew ==
  ASSUME NEW s, DOMAIN s = Fields, s.next_address = 0, s.log = <<>>
  PROVE  Sound(s, {}, {})
<1>1. IsSeq(s.log) BY DEF IsSeq
<1>2. Fresh(s.log, 0) BY RunEmpty DEF Fresh
<1> QED BY <1>1, <1>2 DEF Sound, Api, Below, Meaning, Agrees

(* A state with the same trace and at least as many addresses. *)
LEMMA SoundSame ==
  ASSUME NEW s, NEW I, NEW P, Sound(s, I, P),
         NEW t, Api(t), t.log = s.log, t.next_address >= s.next_address
  PROVE  Sound(t, I, P)
<1>1. s.next_address \in Nat /\ t.next_address \in Nat BY DEF Sound, Api
<1>2. Below(I, t.next_address) /\ Below(P, t.next_address) BY <1>1 DEF Sound, Below
<1>3. Fresh(t.log, t.next_address) BY <1>1 DEF Sound, Fresh
<1> QED BY <1>2, <1>3 DEF Sound

LEMMA SoundFewer ==
  ASSUME NEW s, NEW I, NEW P, Sound(s, I, P), NEW Q, Q \subseteq P
  PROVE  Sound(s, I, Q)
BY DEF Sound, Below, Meaning, Agrees

(* A polynomial that no instruction writes is an input. *)
LEMMA SoundInput ==
  ASSUME NEW s, NEW I, NEW P, Sound(s, I, P),
         NEW p, p.address = s.next_address,
         NEW t, Api(t), t.log = s.log, t.next_address > s.next_address
  PROVE  Sound(t, I \cup {p}, P \cup {p})
<1>1. s.next_address \in Nat /\ t.next_address \in Nat BY DEF Sound, Api
<1>2. Sound(t, I, P) BY <1>1, SoundSame
<1>3. p.address \in 0 .. t.next_address - 1 BY <1>1
<1>4. Below(I \cup {p}, t.next_address) /\ Below(P \cup {p}, t.next_address)
  BY <1>2, <1>3 DEF Sound, Below
<1>5. ASSUME NEW m, Agrees(m, I \cup {p}) PROVE Agrees(Run(m, t.log), P \cup {p})
  <2>1. Agrees(m, I) /\ At(m, p.address) = p.term BY <1>5 DEF Agrees
  <2>2. Agrees(Run(m, t.log), P) BY <1>2, <2>1 DEF Sound, Meaning
  <2>3. At(Run(m, t.log), p.address) = At(m, p.address)
    BY <1>1 DEF Sound, Fresh
  <2> QED BY <2>1, <2>2, <2>3 DEF Agrees
<1> QED BY <1>2, <1>4, <1>5 DEF Sound, Meaning

(* One more instruction, on a fresh address and operands of P. *)
LEMMA SoundWrite ==
  ASSUME NEW s, NEW I, NEW P, Sound(s, I, P), NEW inst,
         inst.opcode \notin InertOps,
         inst.dest = s.next_address,
         NEW p, p.address = s.next_address,
         \A m : Agrees(m, P) => Value(inst, At(m, inst.src1), At(m, inst.src2)) = p.term,
         NEW t, Api(t), t.log = Append(s.log, inst), t.next_address = s.next_address + 1
  PROVE  Sound(t, I, P \cup {p})
<1>1. s.next_address \in Nat /\ IsSeq(s.log) BY DEF Sound, Api
<1>2. \A m : Run(m, t.log) = Step(Run(m, s.log), inst) BY <1>1, RunAppend
<1>3. Below(I, t.next_address) /\ Below(P, t.next_address) BY <1>1 DEF Sound, Below
<1>4. Below(P \cup {p}, t.next_address) BY <1>1, <1>3 DEF Below
<1>5. ASSUME NEW m, NEW a \in Nat, a >= t.next_address PROVE At(Run(m, t.log), a) = At(m, a)
  <2>1. a >= s.next_address /\ a # inst.dest BY <1>1, <1>5
  <2>2. At(Run(m, t.log), a) = At(Run(m, s.log), a) BY <1>2, <2>1, StepAt
  <2> QED BY <2>1, <2>2 DEF Sound, Fresh
<1>6. ASSUME NEW m, Agrees(m, I) PROVE Agrees(Run(m, t.log), P \cup {p})
  <2>1. Agrees(Run(m, s.log), P) BY <1>6 DEF Sound, Meaning
  <2>2. At(Run(m, t.log), p.address) = p.term
    <3>1. At(Run(m, t.log), inst.dest) =
            Value(inst, At(Run(m, s.log), inst.src1), At(Run(m, s.log), inst.src2))
      BY <1>2, StepAt
    <3> QED BY <2>1, <3>1
  <2>3. ASSUME NEW z \in P PROVE At(Run(m, t.log), z.address) = z.term
    <3>1. z.address # inst.dest BY <1>1 DEF Sound, Below
    <3>2. At(Run(m, t.log), z.address) = At(Run(m, s.log), z.address) BY <1>2, <3>1, StepAt
    <3> QED BY <2>1, <3>2 DEF Agrees
  <2> QED BY <2>2, <2>3 DEF Agrees
<1> QED BY <1>3, <1>4, <1>5, <1>6 DEF Sound, Fresh, Meaning

(* An instruction the simulator skips. *)
LEMMA SoundInert ==
  ASSUME NEW s, NEW I, NEW P, Sound(s, I, P), NEW inst,
         inst.opcode \in InertOps,
         NEW t, Api(t), t.log = Append(s.log, inst), t.next_address = s.next_address
  PROVE  Sound(t, I, P)
<1>1. IsSeq(s.log) BY DEF Sound, Api
<1>2. \A m : Step(m, inst) = m BY DEF Step, Writes
<1>3. \A m : Run(m, t.log) = Run(m, s.log) BY <1>1, <1>2, RunAppend
<1> QED BY <1>3 DEF Sound, Fresh, Meaning

-----------------------------------------------------------------------------
(* The calls *)

(* s and t differ in the counter, the moduli and the trace only. *)
SameBooks(s, t) ==
  /\ t.input_registry = s.input_registry /\ t.probe_registry = s.probe_registry
  /\ t.synced = s.synced /\ t.recording = s.recording /\ t.comments = s.comments
  /\ t.captured_inputs = s.captured_inputs /\ t.captured_outputs = s.captured_outputs

LEMMA NewApiIs ==
  /\ Api(NewApi)
  /\ Api([NewApi EXCEPT !.recording = TRUE])
BY DEF Api, IsSeq, NewApi, Fields

LEMMA AllocIs ==
  ASSUME NEW s, Api(s)
  PROVE  /\ Api(Alloc(s)) /\ SameBooks(s, Alloc(s))
         /\ Alloc(s).log = s.log /\ Alloc(s).address_modulus = s.address_modulus
         /\ Alloc(s).next_address = s.next_address + 1
BY DEF Api, Fields, Alloc, SameBooks

LEMMA BindIs ==
  ASSUME NEW s, Api(s), NEW A, NEW q
  PROVE  /\ Api(Bind(s, A, q)) /\ SameBooks(s, Bind(s, A, q))
         /\ Bind(s, A, q).log = s.log
         /\ Bind(s, A, q).next_address = s.next_address
BY DEF Api, Fields, Bind, remember_modulus, SameBooks

LEMMA EmitIs ==
  ASSUME NEW s, Api(s), s.recording, NEW inst,
         \A a \in {inst.dest, inst.src1, inst.src2} : a <= kMaxAddress
  PROVE  /\ Api(emit(s, inst)) /\ SameBooks(s, emit(s, inst))
         /\ emit(s, inst).log = Append(s.log, inst)
         /\ emit(s, inst).address_modulus = s.address_modulus
         /\ emit(s, inst).next_address = s.next_address
<1>1. emit(s, inst) = [s EXCEPT !.log = Append(@, inst)] BY DEF emit
<1>2. IsSeq(Append(s.log, inst)) BY AppendIsSeq DEF Api
<1> QED BY <1>1, <1>2 DEF Api, Fields, SameBooks

(* The instruction a call records: its fields, when the addresses fit. *)
LEMMA IrIs ==
  ASSUME NEW op, NEW d, NEW s1, NEW s2, NEW imm, NEW q,
         d \in 0 .. AddressSpace - 1, s1 \in 0 .. AddressSpace - 1, s2 \in 0 .. AddressSpace - 1
  PROVE  /\ ir(op, d, s1, s2, imm, q) = Instruction(op, d, s1, s2, imm, q)
         /\ ir(op, d, s1, s2, imm, q).opcode = op
         /\ ir(op, d, s1, s2, imm, q).dest = d
         /\ ir(op, d, s1, s2, imm, q).src1 = s1
         /\ ir(op, d, s1, s2, imm, q).src2 = s2
         /\ ir(op, d, s1, s2, imm, q).immediate = imm
         /\ ir(op, d, s1, s2, imm, q).modulus = q
<1>1. d % AddressSpace = d /\ s1 % AddressSpace = s1 /\ s2 % AddressSpace = s2
  BY AddressSpaceAssumption
<1> QED BY <1>1 DEF ir, Instruction

RecordedInst(s, op, a, b, imm, token) ==
  ir(op, s.next_address, a.address, IF op \in TwoSources THEN b.address ELSE 0, imm, token)

(* One call: one address, one instruction, one result. *)
LEMMA RecordIs ==
  ASSUME NEW s, Api(s), s.recording, s.next_address < AddressSpace,
         NEW op, NEW a, NEW b, NEW imm, NEW token, NEW q,
         a.address \in 0 .. s.next_address - 1, b.address \in 0 .. s.next_address - 1
  PROVE  LET r == record(s, op, a, b, imm, token, q)
             inst == RecordedInst(s, op, a, b, imm, token) IN
         /\ Api(r.api) /\ SameBooks(s, r.api)
         /\ r.api.next_address = s.next_address + 1
         /\ r.api.log = Append(s.log, inst)
         /\ r.out.address = s.next_address
         /\ r.out.term = Value(inst, a.term, b.term)
         /\ r.out.data = None /\ r.out.q = q
<1> DEFINE two == op \in TwoSources
           second == IF two THEN b.address ELSE 0
           inst == ir(op, s.next_address, a.address, second, imm, token)
           A == {a.address, s.next_address} \cup (IF two THEN {b.address} ELSE {})
           bound == Bind(Alloc(s), A, q)
           r == record(s, op, a, b, imm, token, q)
<1>1. r = Returns(emit(bound, inst), Handle(s, None, Value(inst, a.term, b.term), q))
  BY DEF record
<1>2. r.api = emit(bound, inst) /\ r.out = Handle(s, None, Value(inst, a.term, b.term), q)
  BY <1>1 DEF Returns
<1>3. /\ Api(bound) /\ SameBooks(s, bound) /\ bound.log = s.log
      /\ bound.next_address = s.next_address + 1 /\ bound.recording
  <2>1. /\ Api(Alloc(s)) /\ SameBooks(s, Alloc(s)) /\ Alloc(s).log = s.log
        /\ Alloc(s).next_address = s.next_address + 1
    BY AllocIs
  <2>2. /\ Api(bound) /\ SameBooks(Alloc(s), bound) /\ bound.log = Alloc(s).log
        /\ bound.next_address = Alloc(s).next_address
    <3> HIDE DEF A
    <3> QED BY <2>1, BindIs
  <2> HIDE DEF bound
  <2> QED BY <2>1, <2>2 DEF SameBooks
<1>4. s.next_address \in Nat BY DEF Api
<1>5. /\ s.next_address \in 0 .. AddressSpace - 1 /\ a.address \in 0 .. AddressSpace - 1
      /\ second \in 0 .. AddressSpace - 1
  BY <1>4, AddressSpaceAssumption
<1>6. inst.dest = s.next_address /\ inst.src1 = a.address /\ inst.src2 = second
  <2> HIDE DEF second
  <2> QED BY <1>5, IrIs
<1>7. \A z \in {inst.dest, inst.src1, inst.src2} : z <= kMaxAddress
  <2> HIDE DEF inst, second
  <2> QED BY <1>5, <1>6, AddressSpaceAssumption DEF kMaxAddress
<1>8. /\ Api(emit(bound, inst)) /\ SameBooks(bound, emit(bound, inst))
      /\ emit(bound, inst).log = Append(bound.log, inst)
      /\ emit(bound, inst).next_address = bound.next_address
  <2> HIDE DEF inst, bound
  <2> QED BY <1>3, <1>7, EmitIs
<1>9. Api(r.api) /\ SameBooks(s, r.api) /\ r.api.next_address = s.next_address + 1
  <2> HIDE DEF inst, bound, r
  <2> QED BY <1>2, <1>3, <1>8 DEF SameBooks
<1>10. r.api.log = Append(s.log, inst)
  <2> HIDE DEF inst, bound, r
  <2> QED BY <1>2, <1>3, <1>8
<1>11. /\ r.out.address = s.next_address /\ r.out.term = Value(inst, a.term, b.term)
       /\ r.out.data = None /\ r.out.q = q
  <2> HIDE DEF inst, r
  <2> QED BY <1>2 DEF Handle
<1> QED BY <1>9, <1>10, <1>11 DEF RecordedInst

(* The value of a recorded call depends on the operands it reads only. *)
ReadsFirst(op, imm) == op \notin InertOps /\ ~(op = "mulps" /\ imm = 0)

LEMMA ValueReads ==
  ASSUME NEW inst, NEW x, NEW y, NEW v, NEW w,
         ReadsFirst(inst.opcode, inst.immediate) => x = v,
         inst.opcode \in PolyPolyOps => y = w
  PROVE  Value(inst, x, y) = Value(inst, v, w)
BY DEF Value, ReadsFirst, IsZeroInit

LEMMA RecordOut ==
  ASSUME NEW s, NEW op, NEW a, NEW b, NEW imm, NEW token, NEW q,
         NEW r, r = record(s, op, a, b, imm, token, q)
  PROVE  \E term : r.out = Handle(s, None, term, q)
<1>1. r.out = Handle(s, None, Value(RecordedInst(s, op, a, b, imm, token), a.term, b.term), q)
  BY DEF record, Returns, RecordedInst
<1> QED BY <1>1

(* Every call keeps Sound: the result means what the operands mean. *)
LEMMA SoundRecord ==
  ASSUME NEW s, NEW I, NEW P, Sound(s, I, P), s.recording, s.next_address < AddressSpace,
         NEW op, NEW a, NEW b, NEW imm, NEW token, NEW q,
         a.address \in 0 .. s.next_address - 1, b.address \in 0 .. s.next_address - 1,
         ReadsFirst(op, imm) => a \in P, op \in PolyPolyOps => b \in P,
         NEW r, r = record(s, op, a, b, imm, token, q)
  PROVE  Sound(r.api, IF op \in InertOps THEN I \cup {r.out} ELSE I, P \cup {r.out})
<1> DEFINE inst == RecordedInst(s, op, a, b, imm, token)
           second == IF op \in TwoSources THEN b.address ELSE 0
<1>0. Api(s) /\ s.next_address \in Nat BY DEF Sound, Api
<1>1. /\ Api(r.api) /\ SameBooks(s, r.api) /\ r.api.next_address = s.next_address + 1
      /\ r.api.log = Append(s.log, inst) /\ r.out.address = s.next_address
      /\ r.out.term = Value(inst, a.term, b.term)
  <2> HIDE DEF inst
  <2> QED BY <1>0, RecordIs DEF inst
<1>2. /\ s.next_address \in 0 .. AddressSpace - 1 /\ a.address \in 0 .. AddressSpace - 1
      /\ second \in 0 .. AddressSpace - 1
  BY <1>0, AddressSpaceAssumption
<1>3. /\ inst.opcode = op /\ inst.dest = s.next_address /\ inst.src1 = a.address
      /\ inst.src2 = second /\ inst.immediate = imm
  <2>1. inst = ir(op, s.next_address, a.address, second, imm, token) BY DEF RecordedInst
  <2> HIDE DEF inst, second
  <2> QED BY <1>2, <2>1, IrIs
<1>4. CASE op \notin InertOps
  <2>1. ASSUME NEW m, Agrees(m, P)
        PROVE  Value(inst, At(m, inst.src1), At(m, inst.src2)) = r.out.term
    <3>1. ReadsFirst(inst.opcode, inst.immediate) => At(m, inst.src1) = a.term
      BY <1>3, <2>1 DEF Agrees
    <3>2. inst.opcode \in PolyPolyOps => At(m, inst.src2) = b.term
      <4>1. op \in PolyPolyOps => second = b.address BY DEF TwoSources
      <4> HIDE DEF second
      <4> QED BY <4>1, <1>3, <2>1 DEF Agrees
    <3> HIDE DEF inst
    <3> QED BY <1>1, <3>1, <3>2, ValueReads
  <2> HIDE DEF inst, second
  <2>2. Sound(r.api, I, P \cup {r.out})
    BY <1>0, <1>1, <1>3, <1>4, <2>1, SoundWrite
  <2> QED BY <2>2, <1>4
<1>5. CASE op \in InertOps
  <2> DEFINE t == [s EXCEPT !.next_address = @ + 1]
  <2>1. Api(t) /\ t.log = s.log /\ t.next_address = s.next_address + 1
    BY <1>0 DEF Api, Fields
  <2>2. Sound(t, I \cup {r.out}, P \cup {r.out})
    <3> HIDE DEF t, inst
    <3>1. t.next_address > s.next_address BY <1>0, <2>1
    <3> QED BY <1>1, <2>1, <3>1, SoundInput
  <2> HIDE DEF t, inst, second
  <2>3. Sound(r.api, I \cup {r.out}, P \cup {r.out})
    <3>1. PICK u, J, Q : u = r.api /\ J = I \cup {r.out} /\ Q = P \cup {r.out} OBVIOUS
    <3>2. Sound(t, J, Q) /\ inst.opcode \in InertOps BY <1>3, <1>5, <2>2, <3>1
    <3>3. Api(u) /\ u.log = Append(t.log, inst) /\ u.next_address = t.next_address
      BY <1>1, <2>1, <3>1
    <3>4. Sound(u, J, Q) BY <3>2, <3>3, SoundInert
    <3> QED BY <3>1, <3>4
  <2> QED BY <2>3, <1>5
<1> QED BY <1>4, <1>5

(* halt() adds an instruction that writes nothing. *)
LEMMA HaltIs ==
  ASSUME NEW s, Api(s), s.recording
  PROVE  /\ Api(halt(s)) /\ SameBooks(s, halt(s))
         /\ halt(s).log = Append(s.log, Halt)
         /\ halt(s).next_address = s.next_address
         /\ halt(s).address_modulus = s.address_modulus
<1>1. \A a \in {Halt.dest, Halt.src1, Halt.src2} : a <= kMaxAddress
  BY AddressSpaceAssumption DEF Halt, Instruction, kMaxAddress
<1> QED BY <1>1, EmitIs DEF halt

LEMMA SoundHalt ==
  ASSUME NEW s, NEW I, NEW P, Sound(s, I, P), s.recording
  PROVE  Sound(halt(s), I, P)
<1>1. Halt.opcode \in InertOps BY DEF Halt, Instruction, InertOps
<1>2. Api(s) BY DEF Sound
<1> QED BY <1>1, <1>2, HaltIs, SoundInert

-----------------------------------------------------------------------------
(* Captured records *)

RecordFields == {"name", "kind", "element_starts", "elements"}

Recs(records) ==
  /\ IsSeq(records)
  /\ \A i \in DOMAIN records : DOMAIN records[i] = RecordFields /\ IsSeq(records[i].elements)

ElemsOf(r) == {r.elements[k] : k \in DOMAIN r.elements}
Elems(records) == UNION {ElemsOf(records[i]) : i \in DOMAIN records}
RecNames(records) == {records[i].name : i \in DOMAIN records}
Kinds(records) == {<<records[i].name, records[i].kind>> : i \in DOMAIN records}

(* Each name has one kind. *)
OneKind(K) == \A u, v \in K : u[1] = v[1] => u[2] = v[2]

LEMMA ElemsAppend ==
  ASSUME NEW r, NEW t, IsSeq(r.elements), NEW x, t.elements = Append(r.elements, x)
  PROVE  ElemsOf(t) = ElemsOf(r) \cup {x}
<1>1. /\ Len(r.elements) \in Nat /\ DOMAIN r.elements = 1 .. Len(r.elements)
      /\ DOMAIN t.elements = 1 .. Len(r.elements) + 1
      /\ t.elements[Len(r.elements) + 1] = x
      /\ \A i \in 1 .. Len(r.elements) : t.elements[i] = r.elements[i]
  BY AppendIsSeq
<1>2. ElemsOf(t) \subseteq ElemsOf(r) \cup {x}
  <2> SUFFICES ASSUME NEW k \in 1 .. Len(r.elements) + 1
               PROVE  t.elements[k] \in ElemsOf(r) \cup {x}
    BY <1>1 DEF ElemsOf
  <2>1. CASE k = Len(r.elements) + 1 BY <1>1, <2>1
  <2>2. CASE k \in 1 .. Len(r.elements) BY <1>1, <2>2 DEF ElemsOf
  <2> QED BY <1>1, <2>1, <2>2
<1>3. ElemsOf(r) \cup {x} \subseteq ElemsOf(t)
  <2>1. x \in ElemsOf(t) BY <1>1 DEF ElemsOf
  <2>2. ASSUME NEW k \in 1 .. Len(r.elements) PROVE r.elements[k] \in ElemsOf(t)
    BY <1>1 DEF ElemsOf
  <2> QED BY <1>1, <2>1, <2>2 DEF ElemsOf
<1> QED BY <1>2, <1>3

(* find_or_create_record(): the record of the name, and the same elements. *)
LEMMA FindOrCreate ==
  ASSUME NEW records, Recs(records), NEW fresh, DOMAIN fresh = RecordFields,
         fresh.elements = <<>>,
         NEW all,
         (\E j \in DOMAIN records : records[j].name = fresh.name) => all = records,
         ~(\E j \in DOMAIN records : records[j].name = fresh.name) => all = Append(records, fresh)
  PROVE  /\ Recs(all) /\ Elems(all) = Elems(records)
         /\ RecNames(all) = RecNames(records) \cup {fresh.name}
         /\ Kinds(all) \subseteq Kinds(records) \cup {<<fresh.name, fresh.kind>>}
         /\ \E j \in DOMAIN all : all[j].name = fresh.name
<1>1. CASE \E j \in DOMAIN records : records[j].name = fresh.name
  BY <1>1 DEF RecNames
<1>2. CASE ~ \E j \in DOMAIN records : records[j].name = fresh.name
  <2> DEFINE n == Len(records)
  <2>0. IsSeq(records) BY DEF Recs
  <2>1. /\ all = Append(records, fresh) /\ IsSeq(all) /\ n \in Nat
        /\ DOMAIN records = 1 .. n /\ DOMAIN all = 1 .. n + 1 /\ all[n + 1] = fresh
        /\ \A i \in 1 .. n : all[i] = records[i]
    <3>1. all = Append(records, fresh) BY <1>2
    <3> QED BY <3>1, <2>0, AppendIsSeq
  <2>2. \A i \in 1 .. n + 1 : i = n + 1 \/ i \in 1 .. n
    <3>1. n \in Nat BY <2>1
    <3> HIDE DEF n
    <3> QED BY <3>1
  <2> HIDE DEF n
  <2>3. IsSeq(fresh.elements) /\ ElemsOf(fresh) = {}
    BY DEF IsSeq, ElemsOf
  <2>4. Recs(all) BY <2>1, <2>2, <2>3 DEF Recs
  <2>5. Elems(all) = Elems(records)
    <3>1. \A i \in 1 .. n : ElemsOf(all[i]) = ElemsOf(records[i]) BY <2>1
    <3>2. ElemsOf(all[n + 1]) = {} BY <2>1, <2>3
    <3>3. 1 .. n \subseteq 1 .. n + 1 BY <2>1
    <3> QED BY <2>1, <2>2, <3>1, <3>2, <3>3 DEF Elems
  <2>6. RecNames(all) = RecNames(records) \cup {fresh.name}
    <3>1. n + 1 \in 1 .. n + 1 /\ 1 .. n \subseteq 1 .. n + 1 BY <2>1
    <3> QED BY <2>1, <2>2, <3>1 DEF RecNames
  <2>7. Kinds(all) \subseteq Kinds(records) \cup {<<fresh.name, fresh.kind>>}
    BY <2>1, <2>2 DEF Kinds
  <2>8. n + 1 \in DOMAIN all BY <2>1
  <2> QED BY <2>1, <2>4, <2>5, <2>6, <2>7, <2>8
<1> QED BY <1>1, <1>2

(* all[i] is the record of the name: found in records, or new at their end. *)
FoundAt(records, name, kind, all, i) ==
  /\ Recs(all) /\ i \in DOMAIN all /\ all[i].name = name
  /\ \/ all = records
     \/ /\ \A j \in DOMAIN records : records[j].name # name
        /\ all = Append(records, [name |-> name, kind |-> kind,
                                  element_starts |-> <<>>, elements |-> <<>>])
  /\ Elems(all) = Elems(records)
  /\ RecNames(all) = RecNames(records) \cup {name}
  /\ Kinds(all) \subseteq Kinds(records) \cup {<<name, kind>>}

(* new is all with elem at the end of all[i], or all if the kinds differ. *)
AppendedAt(all, i, kind, elem, new) ==
  /\ all[i].kind # kind => new = all
  /\ all[i].kind = kind =>
       /\ IsSeq(new) /\ DOMAIN new = DOMAIN all /\ DOMAIN new[i] = RecordFields
       /\ new[i].name = all[i].name /\ new[i].kind = all[i].kind
       /\ new[i].elements = Append(all[i].elements, elem)
       /\ \A j \in DOMAIN all : j # i => new[j] = all[j]

LEMMA StoreAt ==
  ASSUME NEW records, Recs(records), NEW name, NEW kind, NEW starts, NEW elem,
         NEW new, new = store_element(records, name, kind, starts, elem)
  PROVE  \E all, i : FoundAt(records, name, kind, all, i) /\ AppendedAt(all, i, kind, elem, new)
<1> DEFINE known == \E j \in DOMAIN records : records[j].name = name
           fresh == [name |-> name, kind |-> kind, element_starts |-> <<>>, elements |-> <<>>]
           all == IF known THEN records ELSE Append(records, fresh)
           i == CHOOSE j \in DOMAIN all : all[j].name = name
           longer == IF starts THEN Append(all[i].element_starts, Len(all[i].elements))
                     ELSE all[i].element_starts
           one == [all[i] EXCEPT !.element_starts = longer, !.elements = Append(@, elem)]
<1>1. /\ DOMAIN fresh = RecordFields /\ fresh.elements = <<>> /\ fresh.name = name
      /\ fresh.kind = kind
  BY DEF RecordFields
<1>2. /\ Recs(all) /\ Elems(all) = Elems(records)
      /\ RecNames(all) = RecNames(records) \cup {name}
      /\ Kinds(all) \subseteq Kinds(records) \cup {<<name, kind>>}
      /\ \E j \in DOMAIN all : all[j].name = name
  <2>1. /\ (\E j \in DOMAIN records : records[j].name = fresh.name) => all = records
        /\ ~(\E j \in DOMAIN records : records[j].name = fresh.name) => all = Append(records, fresh)
    <3> HIDE DEF fresh
    <3> QED BY <1>1
  <2> HIDE DEF fresh, all
  <2>2. /\ Recs(all) /\ Elems(all) = Elems(records)
        /\ RecNames(all) = RecNames(records) \cup {fresh.name}
        /\ Kinds(all) \subseteq Kinds(records) \cup {<<fresh.name, fresh.kind>>}
        /\ \E j \in DOMAIN all : all[j].name = fresh.name
    BY <1>1, <2>1, FindOrCreate
  <2> QED BY <1>1, <2>2
<1>3. i \in DOMAIN all /\ all[i].name = name BY <1>2
<1>4. \/ all = records
      \/ (\A j \in DOMAIN records : records[j].name # name) /\ all = Append(records, fresh)
  <2> HIDE DEF fresh
  <2> QED OBVIOUS
<1>5. FoundAt(records, name, kind, all, i)
  <2> HIDE DEF all, i
  <2> QED BY <1>2, <1>3, <1>4 DEF FoundAt
<1>6. all[i].kind # kind => new = all BY DEF store_element
<1>7. ASSUME all[i].kind = kind
      PROVE  /\ IsSeq(new) /\ DOMAIN new = DOMAIN all /\ DOMAIN new[i] = RecordFields
             /\ new[i].name = all[i].name /\ new[i].kind = all[i].kind
             /\ new[i].elements = Append(all[i].elements, elem)
             /\ \A j \in DOMAIN all : j # i => new[j] = all[j]
  <2>1. new = [all EXCEPT ![i].element_starts = longer, ![i].elements = Append(@, elem)]
    BY <1>7 DEF store_element
  <2>2. DOMAIN all[i] = RecordFields BY <1>2, <1>3 DEF Recs
  <2>3. /\ DOMAIN one = RecordFields /\ one.name = all[i].name /\ one.kind = all[i].kind
        /\ one.elements = Append(all[i].elements, elem)
    <3> HIDE DEF all, i, longer
    <3> QED BY <2>2 DEF RecordFields
  <2>4. new = [all EXCEPT ![i] = one]
    <3> HIDE DEF all, i, longer
    <3> QED BY <1>3, <2>1, <2>2 DEF RecordFields
  <2> HIDE DEF one, i, all
  <2>5. /\ DOMAIN new = DOMAIN all /\ new[i] = one
        /\ \A j \in DOMAIN all : j # i => new[j] = all[j]
    BY <1>3, <2>4
  <2>6. IsSeq(new)
    <3>1. PICK T : all \in Seq(T) BY <1>2 DEF Recs, IsSeq
    <3>2. Len(all) \in Nat /\ DOMAIN all = 1 .. Len(all) BY <3>1
    <3>3. \A j \in 1 .. Len(all) : new[j] \in T \cup {one} BY <3>1, <3>2, <2>5
    <3>4. new = [j \in 1 .. Len(all) |-> new[j]] BY <2>4, <2>5, <3>2
    <3>5. new \in Seq(T \cup {one}) BY <3>2, <3>3, <3>4
    <3> QED BY <3>5 DEF IsSeq
  <2> QED BY <2>3, <2>5, <2>6
<1> HIDE DEF all, i
<1>8. AppendedAt(all, i, kind, elem, new) BY <1>6, <1>7 DEF AppendedAt
<1> QED BY <1>5, <1>8

(* store_input_element(), store_output_probe(): the element is appended to *)
(* the record of its name, and to no other, or it is dropped when that     *)
(* record is of another kind.                                              *)
Stored(records, name, kind, elem, new) ==
  /\ Recs(new) /\ Kinds(new) \subseteq Kinds(records) \cup {<<name, kind>>}
  /\ RecNames(new) = RecNames(records) \cup {name}
  /\ \/ Elems(new) = Elems(records) \cup {elem}
     \/ Elems(new) = Elems(records) /\ \E k : k # kind /\ <<name, k>> \in Kinds(new)

LEMMA StoreOrDrop ==
  ASSUME NEW records, Recs(records), NEW name, NEW kind, NEW starts, NEW elem,
         NEW new, new = store_element(records, name, kind, starts, elem)
  PROVE  Stored(records, name, kind, elem, new)
<1>1. PICK all, i : FoundAt(records, name, kind, all, i) /\ AppendedAt(all, i, kind, elem, new)
  BY StoreAt
<1>2. /\ Recs(all) /\ Elems(all) = Elems(records)
      /\ RecNames(all) = RecNames(records) \cup {name}
      /\ Kinds(all) \subseteq Kinds(records) \cup {<<name, kind>>}
      /\ i \in DOMAIN all /\ all[i].name = name
  BY <1>1 DEF FoundAt
<1>3. CASE all[i].kind # kind
  <2>1. new = all BY <1>1, <1>3 DEF AppendedAt
  <2>2. <<all[i].name, all[i].kind>> \in Kinds(all) BY <1>2 DEF Kinds
  <2>3. <<name, all[i].kind>> \in Kinds(new) BY <1>2, <2>1, <2>2
  <2> QED BY <1>2, <1>3, <2>1, <2>3 DEF Stored
<1>4. CASE all[i].kind = kind
  <2>1. /\ IsSeq(new) /\ DOMAIN new = DOMAIN all /\ DOMAIN new[i] = RecordFields
        /\ new[i].name = all[i].name /\ new[i].kind = all[i].kind
        /\ new[i].elements = Append(all[i].elements, elem)
        /\ \A j \in DOMAIN all : j # i => new[j] = all[j]
    BY <1>1, <1>4 DEF AppendedAt
  <2>2. IsSeq(new[i].elements) /\ ElemsOf(new[i]) = ElemsOf(all[i]) \cup {elem}
    <3>1. PICK r, t : r = all[i] /\ t = new[i] OBVIOUS
    <3>2. IsSeq(r.elements) /\ t.elements = Append(r.elements, elem) BY <1>2, <2>1, <3>1 DEF Recs
    <3>3. ElemsOf(t) = ElemsOf(r) \cup {elem} BY <3>2, ElemsAppend
    <3>4. IsSeq(t.elements) BY <3>2, AppendIsSeq
    <3> QED BY <3>1, <3>3, <3>4
  <2>3. Recs(new)
    <3>1. \A j \in DOMAIN new : DOMAIN new[j] = RecordFields /\ IsSeq(new[j].elements)
      BY <1>2, <2>1, <2>2 DEF Recs
    <3> QED BY <2>1, <3>1 DEF Recs
  <2>4. \A j \in DOMAIN all : new[j].name = all[j].name /\ new[j].kind = all[j].kind
    BY <2>1
  <2>5. RecNames(new) = RecNames(all) BY <2>1, <2>4 DEF RecNames
  <2>6. Kinds(new) \subseteq Kinds(records) \cup {<<name, kind>>}
    <3>1. Kinds(new) = Kinds(all) BY <2>1, <2>4 DEF Kinds
    <3> QED BY <1>2, <3>1
  <2>7. Elems(new) = Elems(all) \cup {elem}
    <3>1. ASSUME NEW x \in Elems(new) PROVE x \in Elems(all) \cup {elem}
      <4>1. PICK j \in DOMAIN all : x \in ElemsOf(new[j]) BY <2>1 DEF Elems
      <4>2. CASE j = i BY <1>2, <2>2, <4>1, <4>2 DEF Elems
      <4>3. CASE j # i BY <2>1, <4>1, <4>3 DEF Elems
      <4> QED BY <4>2, <4>3
    <3>2. ASSUME NEW x \in Elems(all) PROVE x \in Elems(new)
      <4>1. PICK j \in DOMAIN all : x \in ElemsOf(all[j]) BY DEF Elems
      <4>2. x \in ElemsOf(new[j]) BY <2>1, <2>2, <4>1
      <4> QED BY <2>1, <4>2 DEF Elems
    <3>3. elem \in Elems(new) BY <1>2, <2>1, <2>2 DEF Elems
    <3> QED BY <3>1, <3>2, <3>3
  <2> QED BY <1>2, <2>3, <2>5, <2>6, <2>7 DEF Stored
<1> QED BY <1>3, <1>4

LEMMA StoreElement ==
  ASSUME NEW records, Recs(records), NEW name, NEW kind, NEW starts, NEW elem,
         NEW K, OneKind(K), Kinds(records) \subseteq K, <<name, kind>> \in K,
         NEW new, new = store_element(records, name, kind, starts, elem)
  PROVE  /\ Recs(new) /\ Kinds(new) \subseteq K
         /\ Elems(new) = Elems(records) \cup {elem}
         /\ RecNames(new) = RecNames(records) \cup {name}
<1>1. /\ Recs(new) /\ Kinds(new) \subseteq Kinds(records) \cup {<<name, kind>>}
      /\ RecNames(new) = RecNames(records) \cup {name}
      /\ \/ Elems(new) = Elems(records) \cup {elem}
         \/ Elems(new) = Elems(records) /\ \E k : k # kind /\ <<name, k>> \in Kinds(new)
  <2>1. Stored(records, name, kind, elem, new) BY StoreOrDrop
  <2> QED BY <2>1 DEF Stored
<1>2. \A k : <<name, k>> \in Kinds(new) => k = kind
  <2>1. ASSUME NEW k, <<name, k>> \in Kinds(new) PROVE k = kind
    <3>1. <<name, k>> \in K BY <1>1, <2>1
    <3> QED BY <3>1 DEF OneKind
  <2> QED BY <2>1
<1> QED BY <1>1, <1>2

-----------------------------------------------------------------------------
(* The sync of the input registry *)

(* Of the first n residues, those that have a modulus. *)
Typed(rs, n) == {j \in 1 .. n : rs[j].modulus # None}
InElems(rs, n) == {Input(rs[j]) : j \in Typed(rs, n)}
InNames(rs, n) == {rs[j].name : j \in Typed(rs, n)}

LEMMA TypedStep ==
  ASSUME NEW rs, NEW n \in Nat, n # 0
  PROVE  /\ rs[n].modulus = None => /\ InElems(rs, n) = InElems(rs, n - 1)
                                    /\ InNames(rs, n) = InNames(rs, n - 1)
         /\ rs[n].modulus # None => /\ InElems(rs, n) = InElems(rs, n - 1) \cup {Input(rs[n])}
                                    /\ InNames(rs, n) = InNames(rs, n - 1) \cup {rs[n].name}
<1>1. 1 .. n = (1 .. n - 1) \cup {n} OBVIOUS
<1>2. rs[n].modulus = None => Typed(rs, n) = Typed(rs, n - 1) BY <1>1 DEF Typed
<1>3. rs[n].modulus # None => Typed(rs, n) = Typed(rs, n - 1) \cup {n} BY <1>1 DEF Typed
<1> QED BY <1>2, <1>3 DEF InElems, InNames

(* new is records with the elements E stored under the names N. *)
Adds(records, new, K, E, N) ==
  /\ Recs(new) /\ Kinds(new) \subseteq K
  /\ Elems(new) = Elems(records) \cup E
  /\ RecNames(new) = RecNames(records) \cup N

KindsIn(rs, K) == \A j \in DOMAIN rs : <<rs[j].name, rs[j].kind>> \in K

LEMMA StoreInputs ==
  ASSUME NEW records, Recs(records), NEW K, OneKind(K), Kinds(records) \subseteq K,
         NEW rs, IsSeq(rs), KindsIn(rs, K)
  PROVE  Adds(records, store_inputs(records, rs), K, InElems(rs, Len(rs)), InNames(rs, Len(rs)))
<1> DEFINE f == EntryIn!Stages(records, rs)
           S == {n \in Nat : Adds(records, f[n], K, InElems(rs, n), InNames(rs, n))}
<1>1. Len(rs) \in Nat /\ DOMAIN rs = 1 .. Len(rs) BY SeqFacts
<1>2. /\ f[0] = records
      /\ \A n \in 1 .. Len(rs) : f[n] = store_input(f[n - 1], rs[n])
      /\ store_inputs(records, rs) = f[Len(rs)]
  BY <1>1, EntryIn!StageSteps DEF store_inputs
<1> HIDE DEF f
<1>3. 0 \in S
  <2>1. InElems(rs, 0) = {} /\ InNames(rs, 0) = {} BY DEF InElems, InNames, Typed
  <2> QED BY <1>2, <2>1 DEF Adds
<1>4. ASSUME NEW n \in 1 .. Len(rs), n - 1 \in S PROVE n \in S
  <2>1. n \in Nat /\ n # 0 BY <1>1
  <2>2. Adds(records, f[n - 1], K, InElems(rs, n - 1), InNames(rs, n - 1)) BY <1>4
  <2>3. f[n] = store_input(f[n - 1], rs[n]) BY <1>2
  <2>4. CASE rs[n].modulus = None
    <3>1. f[n] = f[n - 1] BY <2>3, <2>4 DEF store_input
    <3>2. Adds(records, f[n], K, InElems(rs, n), InNames(rs, n)) BY <2>1, <2>2, <2>4, <3>1, TypedStep
    <3> QED BY <2>1, <3>2
  <2>5. CASE rs[n].modulus # None
    <3>1. f[n] = store_element(f[n - 1], rs[n].name, rs[n].kind, rs[n].starts, Input(rs[n]))
      BY <2>3, <2>5 DEF store_input
    <3>2. Recs(f[n - 1]) /\ Kinds(f[n - 1]) \subseteq K /\ <<rs[n].name, rs[n].kind>> \in K
      BY <1>1, <2>2 DEF Adds, KindsIn
    <3>3. /\ Recs(f[n]) /\ Kinds(f[n]) \subseteq K
          /\ Elems(f[n]) = Elems(f[n - 1]) \cup {Input(rs[n])}
          /\ RecNames(f[n]) = RecNames(f[n - 1]) \cup {rs[n].name}
      BY <3>1, <3>2, StoreElement
    <3>4. /\ InElems(rs, n) = InElems(rs, n - 1) \cup {Input(rs[n])}
          /\ InNames(rs, n) = InNames(rs, n - 1) \cup {rs[n].name}
      BY <2>1, <2>5, TypedStep
    <3>5. Adds(records, f[n], K, InElems(rs, n), InNames(rs, n)) BY <2>2, <3>3, <3>4 DEF Adds
    <3> QED BY <2>1, <3>5
  <2> QED BY <2>4, <2>5
<1>5. Len(rs) \in S
  <2> HIDE DEF S
  <2> QED BY <1>1, <1>3, <1>4, EntryIn!LoopInduction
<1> QED BY <1>2, <1>5

AllInElems(rss, n) == UNION {InElems(rss[i], Len(rss[i])) : i \in 1 .. n}
AllInNames(rss, n) == UNION {InNames(rss[i], Len(rss[i])) : i \in 1 .. n}

LEMMA StoreAllInputs ==
  ASSUME NEW records, Recs(records), NEW K, OneKind(K), Kinds(records) \subseteq K,
         NEW rss, IsSeq(rss), \A i \in DOMAIN rss : IsSeq(rss[i]) /\ KindsIn(rss[i], K)
  PROVE  Adds(records, AllIn!Fold(records, rss), K, AllInElems(rss, Len(rss)), AllInNames(rss, Len(rss)))
<1> DEFINE f == AllIn!Stages(records, rss)
           S == {n \in Nat : Adds(records, f[n], K, AllInElems(rss, n), AllInNames(rss, n))}
<1>1. Len(rss) \in Nat /\ DOMAIN rss = 1 .. Len(rss) BY SeqFacts
<1>2. /\ f[0] = records
      /\ \A n \in 1 .. Len(rss) : f[n] = store_inputs(f[n - 1], rss[n])
      /\ AllIn!Fold(records, rss) = f[Len(rss)]
  BY <1>1, AllIn!StageSteps
<1> HIDE DEF f
<1>3. 0 \in S
  <2>1. AllInElems(rss, 0) = {} /\ AllInNames(rss, 0) = {} BY DEF AllInElems, AllInNames
  <2> QED BY <1>2, <2>1 DEF Adds
<1>4. ASSUME NEW n \in 1 .. Len(rss), n - 1 \in S PROVE n \in S
  <2> DEFINE rs == rss[n]
             E == InElems(rs, Len(rs))
             N == InNames(rs, Len(rs))
  <2>1. n \in Nat /\ n # 0 /\ 1 .. n = (1 .. n - 1) \cup {n} BY <1>1
  <2>2. Adds(records, f[n - 1], K, AllInElems(rss, n - 1), AllInNames(rss, n - 1)) BY <1>4
  <2>3. f[n] = store_inputs(f[n - 1], rs) BY <1>2
  <2>4. IsSeq(rs) /\ KindsIn(rs, K) BY <1>1
  <2>5. Adds(f[n - 1], f[n], K, E, N)
    <3> HIDE DEF rs
    <3> QED BY <2>2, <2>3, <2>4, StoreInputs DEF Adds
  <2>6. /\ AllInElems(rss, n) = AllInElems(rss, n - 1) \cup E
        /\ AllInNames(rss, n) = AllInNames(rss, n - 1) \cup N
    BY <2>1 DEF AllInElems, AllInNames
  <2> HIDE DEF E, N
  <2>7. Adds(records, f[n], K, AllInElems(rss, n), AllInNames(rss, n)) BY <2>2, <2>5, <2>6 DEF Adds
  <2> QED BY <2>1, <2>7
<1>5. Len(rss) \in S
  <2> HIDE DEF S
  <2> QED BY <1>1, <1>3, <1>4, AllIn!LoopInduction
<1> QED BY <1>2, <1>5

(* The elements of the records are all from E. *)
Only(records, E) == Recs(records) /\ Elems(records) \subseteq E

(* Whatever the kinds of its records, the sync stores only inputs   *)
(* that are tagged and have a modulus.                                     *)
LEMMA StoreInputsOnly ==
  ASSUME NEW E, NEW records, Only(records, E), NEW rs, IsSeq(rs),
         \A j \in 1 .. Len(rs) : rs[j].modulus # None => Input(rs[j]) \in E
  PROVE  Only(store_inputs(records, rs), E)
<1> DEFINE f == EntryIn!Stages(records, rs)
           S == {n \in Nat : Only(f[n], E)}
<1>1. Len(rs) \in Nat BY SeqFacts
<1>2. /\ f[0] = records
      /\ \A n \in 1 .. Len(rs) : f[n] = store_input(f[n - 1], rs[n])
      /\ store_inputs(records, rs) = f[Len(rs)]
  BY <1>1, EntryIn!StageSteps DEF store_inputs
<1> HIDE DEF f
<1>3. 0 \in S BY <1>2
<1>4. ASSUME NEW n \in 1 .. Len(rs), n - 1 \in S PROVE n \in S
  <2>1. PICK g, h, r : g = f[n - 1] /\ h = f[n] /\ r = rs[n] OBVIOUS
  <2>2. Only(g, E) /\ h = store_input(g, r) /\ n \in Nat BY <1>2, <1>4, <2>1
  <2>3. CASE r.modulus = None
    <3>1. h = g BY <2>2, <2>3 DEF store_input
    <3> QED BY <2>1, <2>2, <3>1
  <2>4. CASE r.modulus # None
    <3>1. PICK el : el = Input(r) OBVIOUS
    <3>2. el \in E BY <2>4, <2>1, <3>1
    <3>3. h = store_element(g, r.name, r.kind, r.starts, el) BY <2>2, <2>4, <3>1 DEF store_input
    <3>4. PICK name, kind, starts : name = r.name /\ kind = r.kind /\ starts = r.starts OBVIOUS
    <3>5. Recs(g) BY <2>2 DEF Only
    <3>6. Stored(g, name, kind, el, h) BY <3>3, <3>4, <3>5, StoreOrDrop
    <3>7. Only(h, E) BY <2>2, <3>2, <3>6 DEF Only, Stored
    <3> QED BY <2>1, <2>2, <3>7
  <2> QED BY <2>3, <2>4
<1>5. Len(rs) \in S
  <2> HIDE DEF S
  <2> QED BY <1>1, <1>3, <1>4, EntryIn!LoopInduction
<1> QED BY <1>2, <1>5

LEMMA StoreAllInputsOnly ==
  ASSUME NEW E, NEW records, Only(records, E), NEW rss, IsSeq(rss),
         \A i \in 1 .. Len(rss) : IsSeq(rss[i]) /\
           \A j \in 1 .. Len(rss[i]) : rss[i][j].modulus # None => Input(rss[i][j]) \in E
  PROVE  Only(AllIn!Fold(records, rss), E)
<1> DEFINE f == AllIn!Stages(records, rss)
           S == {n \in Nat : Only(f[n], E)}
<1>1. Len(rss) \in Nat BY SeqFacts
<1>2. /\ f[0] = records
      /\ \A n \in 1 .. Len(rss) : f[n] = store_inputs(f[n - 1], rss[n])
      /\ AllIn!Fold(records, rss) = f[Len(rss)]
  BY <1>1, AllIn!StageSteps
<1> HIDE DEF f
<1>3. 0 \in S BY <1>2
<1>4. ASSUME NEW n \in 1 .. Len(rss), n - 1 \in S PROVE n \in S
  <2>1. PICK g, h, rs : g = f[n - 1] /\ h = f[n] /\ rs = rss[n] OBVIOUS
  <2>2. Only(g, E) /\ h = store_inputs(g, rs) /\ n \in Nat BY <1>2, <1>4, <2>1
  <2>3. IsSeq(rs) /\ \A j \in 1 .. Len(rs) : rs[j].modulus # None => Input(rs[j]) \in E BY <2>1
  <2>4. Only(h, E) BY <2>2, <2>3, StoreInputsOnly
  <2> QED BY <2>1, <2>2, <2>4
<1>5. Len(rss) \in S
  <2> HIDE DEF S
  <2> QED BY <1>1, <1>3, <1>4, AllIn!LoopInduction
<1> QED BY <1>2, <1>5

(* Whatever the kinds of its records, the sync stores only outputs  *)
(* that are tagged.                                                        *)
LEMMA StoreOutputsOnly ==
  ASSUME NEW E, NEW records, Only(records, E), NEW rs, IsSeq(rs),
         \A j \in 1 .. Len(rs) : Probe(rs[j]) \in E
  PROVE  Only(store_outputs(records, rs), E)
<1> DEFINE f == EntryOut!Stages(records, rs)
           S == {n \in Nat : Only(f[n], E)}
<1>1. Len(rs) \in Nat BY SeqFacts
<1>2. /\ f[0] = records
      /\ \A n \in 1 .. Len(rs) : f[n] = store_output(f[n - 1], rs[n])
      /\ store_outputs(records, rs) = f[Len(rs)]
  BY <1>1, EntryOut!StageSteps DEF store_outputs
<1> HIDE DEF f
<1>3. 0 \in S BY <1>2
<1>4. ASSUME NEW n \in 1 .. Len(rs), n - 1 \in S PROVE n \in S
  <2>1. PICK g, h, r : g = f[n - 1] /\ h = f[n] /\ r = rs[n] OBVIOUS
  <2>2. Only(g, E) /\ h = store_output(g, r) /\ n \in Nat BY <1>2, <1>4, <2>1
  <2>4. n \in S
    <3>1. PICK el : el = Probe(r) OBVIOUS
    <3>2. el \in E BY <2>1, <3>1
    <3>3. h = store_element(g, r.name, r.kind, r.starts, el) BY <2>2, <3>1 DEF store_output
    <3>4. PICK name, kind, starts : name = r.name /\ kind = r.kind /\ starts = r.starts OBVIOUS
    <3>5. Recs(g) BY <2>2 DEF Only
    <3>6. Stored(g, name, kind, el, h) BY <3>3, <3>4, <3>5, StoreOrDrop
    <3>7. Only(h, E) BY <2>2, <3>2, <3>6 DEF Only, Stored
    <3> QED BY <2>1, <2>2, <3>7
  <2> QED BY <2>4
<1>5. Len(rs) \in S
  <2> HIDE DEF S
  <2> QED BY <1>1, <1>3, <1>4, EntryOut!LoopInduction
<1> QED BY <1>2, <1>5

LEMMA StoreAllOutputsOnly ==
  ASSUME NEW E, NEW records, Only(records, E), NEW rss, IsSeq(rss),
         \A i \in 1 .. Len(rss) : IsSeq(rss[i]) /\
           \A j \in 1 .. Len(rss[i]) : Probe(rss[i][j]) \in E
  PROVE  Only(AllOut!Fold(records, rss), E)
<1> DEFINE f == AllOut!Stages(records, rss)
           S == {n \in Nat : Only(f[n], E)}
<1>1. Len(rss) \in Nat BY SeqFacts
<1>2. /\ f[0] = records
      /\ \A n \in 1 .. Len(rss) : f[n] = store_outputs(f[n - 1], rss[n])
      /\ AllOut!Fold(records, rss) = f[Len(rss)]
  BY <1>1, AllOut!StageSteps
<1> HIDE DEF f
<1>3. 0 \in S BY <1>2
<1>4. ASSUME NEW n \in 1 .. Len(rss), n - 1 \in S PROVE n \in S
  <2>1. PICK g, h, rs : g = f[n - 1] /\ h = f[n] /\ rs = rss[n] OBVIOUS
  <2>2. Only(g, E) /\ h = store_outputs(g, rs) /\ n \in Nat BY <1>2, <1>4, <2>1
  <2>3. IsSeq(rs) /\ \A j \in 1 .. Len(rs) : Probe(rs[j]) \in E BY <2>1
  <2>4. Only(h, E) BY <2>2, <2>3, StoreOutputsOnly
  <2> QED BY <2>1, <2>2, <2>4
<1>5. Len(rss) \in S
  <2> HIDE DEF S
  <2> QED BY <1>1, <1>3, <1>4, AllOut!LoopInduction
<1> QED BY <1>2, <1>5

-----------------------------------------------------------------------------
(* The memory a replay starts from *)

(* At a, m holds an element of E, or what mem holds where E has none. *)
Holds(m, mem, E, a) ==
  \/ \E el \in E : el.addr_id = a /\ At(m, a) = el.values
  \/ (\A el \in E : el.addr_id # a) /\ At(m, a) = At(mem, a)

FirstElems(els, n) == {els[k] : k \in 1 .. n}

LEMMA LoadElementsAre ==
  ASSUME NEW mem, NEW r, IsSeq(r.elements)
  PROVE  \A a : Holds(load_record(mem, r), mem, ElemsOf(r), a)
<1> DEFINE els == r.elements
           f == LoadElements!Stages(mem, els)
           S == {n \in Nat : \A a : Holds(f[n], mem, FirstElems(els, n), a)}
<1>1. Len(els) \in Nat /\ DOMAIN els = 1 .. Len(els) BY SeqFacts
<1>2. /\ f[0] = mem
      /\ \A n \in 1 .. Len(els) : f[n] = load(f[n - 1], els[n])
      /\ load_record(mem, r) = f[Len(els)]
  BY <1>1, LoadElements!StageSteps DEF load_record
<1> HIDE DEF f
<1>3. 0 \in S
  <2>1. FirstElems(els, 0) = {} BY DEF FirstElems
  <2> QED BY <1>2, <2>1 DEF Holds
<1>4. ASSUME NEW n \in 1 .. Len(els), n - 1 \in S PROVE n \in S
  <2>1. n \in Nat /\ 1 .. n = (1 .. n - 1) \cup {n} BY <1>1
  <2>2. FirstElems(els, n) = FirstElems(els, n - 1) \cup {els[n]} BY <2>1 DEF FirstElems
  <2>3. ASSUME NEW a PROVE Holds(f[n], mem, FirstElems(els, n), a)
    <3>1. Holds(f[n - 1], mem, FirstElems(els, n - 1), a) BY <1>4
    <3>2. At(f[n], a) = IF a = els[n].addr_id THEN els[n].values ELSE At(f[n - 1], a)
      BY <1>2, AtWith DEF load
    <3>3. CASE a = els[n].addr_id BY <2>2, <3>2, <3>3 DEF Holds
    <3>4. CASE a # els[n].addr_id BY <2>2, <3>1, <3>2, <3>4 DEF Holds
    <3> QED BY <3>3, <3>4
  <2> QED BY <2>1, <2>3
<1>5. Len(els) \in S
  <2> HIDE DEF S
  <2> QED BY <1>1, <1>3, <1>4, LoadElements!LoopInduction
<1>6. FirstElems(els, Len(els)) = ElemsOf(r) BY <1>1 DEF FirstElems, ElemsOf
<1> QED BY <1>2, <1>5, <1>6

FirstRecs(records, n) == UNION {ElemsOf(records[i]) : i \in 1 .. n}

(* Every address holds the values of a captured element, or zeros. *)
LEMMA LoadedIs ==
  ASSUME NEW records, Recs(records)
  PROVE  \A a : Holds(Loaded(records), <<>>, Elems(records), a)
<1> DEFINE f == LoadRecords!Stages(<<>>, records)
           S == {n \in Nat : \A a : Holds(f[n], <<>>, FirstRecs(records, n), a)}
<1>1. Len(records) \in Nat /\ DOMAIN records = 1 .. Len(records) BY SeqFacts DEF Recs
<1>2. /\ f[0] = <<>>
      /\ \A n \in 1 .. Len(records) : f[n] = load_record(f[n - 1], records[n])
      /\ Loaded(records) = f[Len(records)]
  BY <1>1, LoadRecords!StageSteps DEF Loaded
<1> HIDE DEF f
<1>3. 0 \in S
  <2>1. FirstRecs(records, 0) = {} BY DEF FirstRecs
  <2> QED BY <1>2, <2>1 DEF Holds
<1>4. ASSUME NEW n \in 1 .. Len(records), n - 1 \in S PROVE n \in S
  <2> DEFINE r == records[n]
  <2>1. n \in Nat /\ 1 .. n = (1 .. n - 1) \cup {n} BY <1>1
  <2>2. FirstRecs(records, n) = FirstRecs(records, n - 1) \cup ElemsOf(r) BY <2>1 DEF FirstRecs
  <2>3. IsSeq(r.elements) BY <1>1 DEF Recs
  <2>4. f[n] = load_record(f[n - 1], r) BY <1>2
  <2> HIDE DEF r
  <2>5. ASSUME NEW a PROVE Holds(f[n], <<>>, FirstRecs(records, n), a)
    <3>1. Holds(f[n - 1], <<>>, FirstRecs(records, n - 1), a) BY <1>4
    <3>2. Holds(f[n], f[n - 1], ElemsOf(r), a) BY <2>3, <2>4, LoadElementsAre
    <3> QED BY <2>2, <3>1, <3>2 DEF Holds
  <2> QED BY <2>1, <2>5
<1>5. Len(records) \in S
  <2> HIDE DEF S
  <2> QED BY <1>1, <1>3, <1>4, LoadRecords!LoopInduction
<1>6. FirstRecs(records, Len(records)) = Elems(records) BY <1>1 DEF FirstRecs, Elems
<1> QED BY <1>2, <1>5, <1>6

(* Where no address has two values, every captured element is in memory,   *)
(* and every other address is zero.                                        *)
LEMMA LoadedHolds ==
  ASSUME NEW records, Recs(records),
         \A x, y \in Elems(records) : x.addr_id = y.addr_id => x.values = y.values
  PROVE  /\ \A el \in Elems(records) : At(Loaded(records), el.addr_id) = el.values
         /\ \A a : (\A el \in Elems(records) : el.addr_id # a) => At(Loaded(records), a) = Zero
<1>1. \A a : At(<<>>, a) = Zero BY DEF At
<1>2. \A a : Holds(Loaded(records), <<>>, Elems(records), a) BY LoadedIs
<1> QED BY <1>1, <1>2 DEF Holds

-----------------------------------------------------------------------------
(* Tags and the sync *)

LEMMA TagInputIs ==
  ASSUME NEW s, Api(s), NEW entry, NEW t, t = tag_input(s, entry)
  PROVE  /\ Api(t) /\ t.input_registry = Append(s.input_registry, entry)
         /\ t.probe_registry = s.probe_registry
         /\ t.next_address = s.next_address /\ t.log = s.log
         /\ t.address_modulus = s.address_modulus
         /\ t.synced = s.synced /\ t.recording = s.recording
         /\ t.captured_inputs = s.captured_inputs /\ t.captured_outputs = s.captured_outputs
BY DEF Api, Fields, tag_input

LEMMA TagOutputIs ==
  ASSUME NEW s, Api(s), NEW entry, NEW t, t = tag_output(s, entry)
  PROVE  /\ Api(t) /\ t.probe_registry = Append(s.probe_registry, entry)
         /\ t.input_registry = s.input_registry
         /\ t.next_address = s.next_address /\ t.log = s.log
         /\ t.address_modulus = s.address_modulus
         /\ t.synced = s.synced /\ t.recording = s.recording
         /\ t.captured_inputs = s.captured_inputs /\ t.captured_outputs = s.captured_outputs
<1> DEFINE noted == IF entry.kind \in {"SRP", "MRP"} THEN comment(s, entry) ELSE s
<1>1. t = [noted EXCEPT !.probe_registry = Append(@, entry)] BY DEF tag_output
<1>2. /\ DOMAIN noted = Fields /\ noted.probe_registry = s.probe_registry
      /\ noted.input_registry = s.input_registry
      /\ noted.next_address = s.next_address /\ noted.log = s.log
      /\ noted.address_modulus = s.address_modulus
      /\ noted.synced = s.synced /\ noted.recording = s.recording
      /\ noted.captured_inputs = s.captured_inputs /\ noted.captured_outputs = s.captured_outputs
  <2>1. CASE noted = s BY <2>1 DEF Api
  <2>2. CASE noted # s
    <3>1. PICK c : noted = [s EXCEPT !.comments = c] BY <2>2 DEF comment
    <3> QED BY <3>1 DEF Api, Fields
  <2> QED BY <2>1, <2>2
<1> HIDE DEF noted
<1> QED BY <1>1, <1>2 DEF Api, Fields

(* t is s with its registries stored. *)
Synced(s, t) ==
  /\ Api(t) /\ t.synced = TRUE
  /\ t.captured_inputs = AllIn!Fold(s.captured_inputs, TaggedAll(s, s.input_registry))
  /\ t.captured_outputs = AllOut!Fold(s.captured_outputs, TaggedAll(s, s.probe_registry))
  /\ t.input_registry = s.input_registry /\ t.probe_registry = s.probe_registry
  /\ t.next_address = s.next_address /\ t.log = s.log
  /\ t.address_modulus = s.address_modulus /\ t.recording = s.recording

LEMMA SyncIs ==
  ASSUME NEW s, Api(s), s.synced = FALSE, NEW t, t = sync_fhetch_state_to_compiler(s)
  PROVE  Synced(s, t)
<1> DEFINE ins == AllIn!Fold(s.captured_inputs, TaggedAll(s, s.input_registry))
           outs == AllOut!Fold(s.captured_outputs, TaggedAll(s, s.probe_registry))
<1>1. t = [s EXCEPT !.synced = TRUE, !.captured_inputs = ins, !.captured_outputs = outs]
  BY DEF sync_fhetch_state_to_compiler
<1> HIDE DEF ins, outs
<1>2. DOMAIN s = Fields BY DEF Api
<1>3. Api(t) BY <1>1, <1>2 DEF Api, Fields
<1>4. t.synced = TRUE /\ t.captured_inputs = ins /\ t.captured_outputs = outs
  BY <1>1, <1>2 DEF Fields
<1>5. /\ t.input_registry = s.input_registry /\ t.probe_registry = s.probe_registry
      /\ t.next_address = s.next_address /\ t.log = s.log
      /\ t.address_modulus = s.address_modulus /\ t.recording = s.recording
  BY <1>1, <1>2 DEF Fields
<1> QED BY <1>3, <1>4, <1>5 DEF ins, outs, Synced

(* The residues of an entry, ready to be stored. *)
LEMMA TaggedIs ==
  ASSUME NEW s, NEW e, IsSeq(e.residues), NEW rs, rs = Tagged(s, e)
  PROVE  /\ IsSeq(rs) /\ Len(rs) = Len(e.residues) /\ DOMAIN rs = 1 .. Len(e.residues)
         /\ \A j \in 1 .. Len(e.residues) :
              /\ rs[j].name = e.name /\ rs[j].kind = e.kind
              /\ rs[j].starts = e.residues[j].starts
              /\ rs[j].addr_id = e.residues[j].poly.address
              /\ rs[j].values = data_or_zeros(e.residues[j].poly)
              /\ e.residues[j].q # None => rs[j].modulus = e.residues[j].q
              /\ e.residues[j].q = None =>
                   rs[j].modulus = IF e.residues[j].poly.address \in DOMAIN s.address_modulus
                                   THEN s.address_modulus[e.residues[j].poly.address] ELSE None
<1> DEFINE of(j) ==
     LET r == e.residues[j] IN
     [name |-> e.name, kind |-> e.kind, starts |-> r.starts,
      addr_id |-> r.poly.address, values |-> data_or_zeros(r.poly),
      modulus |-> IF r.q # None THEN r.q
                  ELSE IF r.poly.address \in DOMAIN s.address_modulus
                  THEN s.address_modulus[r.poly.address] ELSE None]
<1>1. rs = [j \in DOMAIN e.residues |-> of(j)] BY DEF Tagged
<1>2. Len(e.residues) \in Nat /\ DOMAIN e.residues = 1 .. Len(e.residues) BY SeqFacts
<1>3. PICK n \in Nat : n = Len(e.residues) BY <1>2
<1>4. rs = [j \in 1 .. n |-> of(j)] BY <1>1, <1>2, <1>3
<1>5. rs \in Seq({of(j) : j \in 1 .. n}) /\ Len(rs) = n /\ DOMAIN rs = 1 .. n
  <2> HIDE DEF of
  <2> QED BY <1>3, <1>4
<1>6. \A j \in 1 .. n : rs[j] = of(j)
  <2> HIDE DEF of
  <2> QED BY <1>4
<1>7. IsSeq(rs) BY <1>5 DEF IsSeq
<1>8. ASSUME NEW j \in 1 .. n
      PROVE  /\ rs[j].name = e.name /\ rs[j].kind = e.kind
             /\ rs[j].starts = e.residues[j].starts
             /\ rs[j].addr_id = e.residues[j].poly.address
             /\ rs[j].values = data_or_zeros(e.residues[j].poly)
             /\ rs[j].modulus = IF e.residues[j].q # None THEN e.residues[j].q
                               ELSE IF e.residues[j].poly.address \in DOMAIN s.address_modulus
                               THEN s.address_modulus[e.residues[j].poly.address] ELSE None
  <2>1. rs[j] = of(j) BY <1>6
  <2> QED BY <2>1
<1> HIDE DEF of
<1> QED BY <1>3, <1>5, <1>7, <1>8

LEMMA TaggedAllIs ==
  ASSUME NEW s, NEW reg, IsSeq(reg), NEW rss, rss = TaggedAll(s, reg)
  PROVE  /\ IsSeq(rss) /\ Len(rss) = Len(reg) /\ DOMAIN rss = 1 .. Len(reg)
         /\ \A i \in 1 .. Len(reg) : rss[i] = Tagged(s, reg[i])
<1>1. Len(reg) \in Nat /\ DOMAIN reg = 1 .. Len(reg) BY SeqFacts
<1>2. PICK n \in Nat : n = Len(reg) BY <1>1
<1>3. rss = [i \in 1 .. n |-> Tagged(s, reg[i])] BY <1>1, <1>2 DEF TaggedAll
<1>4. rss \in Seq({Tagged(s, reg[i]) : i \in 1 .. n}) /\ Len(rss) = n /\ DOMAIN rss = 1 .. n
  BY <1>2, <1>3
<1> QED BY <1>2, <1>3, <1>4 DEF IsSeq
=============================================================================
