-------------------------- MODULE SimulatorProofs ---------------------------
(***************************************************************************)
(* Proofs about Simulator for every program, every live-out set, every     *)
(* memory contents and every kernel arithmetic: type correctness, that the *)
(* free schedule is invisible and complete, that the listed live-ins are   *)
(* enough, and that the simulator implements the plain replay.             *)
(***************************************************************************)
EXTENDS Simulator, TLAPS

(* A kernel that stores anything stores a polynomial, whatever it read. *)
LEMMA ResultsAreValues ==
  ASSUME NEW inst \in Instructions, NEW mem \in Memories
  PROVE  Results(inst, mem) \subseteq Values
<1>1. GetOrZero(mem, inst.src1) \in Values /\ GetOrZero(mem, inst.src2) \in Values
  BY ValuesAssumption DEF GetOrZero, Memories, Instructions
<1>2. QED
  BY <1>1, ValuesAssumption, KernelAssumption DEF Results, Result

(* Storing a polynomial keeps memory a memory. *)
LEMMA StoredIsMemory ==
  ASSUME NEW inst \in Instructions, NEW mem \in Memories, NEW v \in Values
  PROVE  Stored(inst, mem, v) \in Memories
BY DEF Stored, Memories, Instructions

(* What an instruction may leave depends only on the addresses it reads. *)
LEMMA ResultsDependOnReads ==
  ASSUME NEW inst \in Instructions, NEW m1 \in Memories, NEW m2 \in Memories,
         \A a \in Reads(inst) : m1[a] = m2[a]
  PROVE  Results(inst, m1) = Results(inst, m2)
<1>1. CASE IsZeroInit(inst) \/ inst.opcode \in InertOps
  BY <1>1 DEF Results, Result
<1>2. CASE ~(IsZeroInit(inst) \/ inst.opcode \in InertOps) /\ inst.opcode \in PolyPolyOps
  BY <1>2 DEF Results, Result, Reads, GetOrZero
<1>3. CASE ~(IsZeroInit(inst) \/ inst.opcode \in InertOps) /\ inst.opcode \notin PolyPolyOps
  BY <1>3 DEF Results, Result, Reads, GetOrZero
<1>4. QED
  BY <1>1, <1>2, <1>3

(* The instruction at the program counter is an instruction. *)
LEMMA CurrentInstruction ==
  ASSUME TypeOK, pc <= Len(program)
  PROVE  /\ program \in Seq(Instructions)
         /\ pc \in DOMAIN program
         /\ program[pc] \in Instructions
BY ProgramsAssumption DEF TypeOK

(* Every step of the simulator preserves its type invariant. *)
LEMMA TypeStep == TypeOK /\ [Next]_vars => TypeOK'
<1> SUFFICES ASSUME TypeOK, [Next]_vars PROVE TypeOK'
  OBVIOUS
<1>0. program \in Seq(Instructions)
  BY ProgramsAssumption DEF TypeOK
<1>1. ASSUME NEW a \in Addrs, NEW v \in Values, StorePolynomial(a, v) PROVE TypeOK'
  BY <1>1 DEF TypeOK, StorePolynomial, Memories
<1>2. CASE ComputeLiveness
  BY <1>2 DEF TypeOK, ComputeLiveness
<1>3. CASE Execute
  <2>1. PICK v \in Results(program[pc], memory) :
          /\ memory' = [a \in Addrs |-> IF a \in Released(pc) THEN Absent
                                        ELSE Stored(program[pc], memory, v)[a]]
          /\ unfreed' = Stored(program[pc], unfreed, v)
    BY <1>3 DEF Execute
  <2>2. program[pc] \in Instructions
    BY <1>3, CurrentInstruction DEF Execute
  <2>3. v \in Values
    BY <2>1, <2>2, ResultsAreValues DEF TypeOK
  <2>4. Stored(program[pc], memory, v) \in Memories /\ Stored(program[pc], unfreed, v) \in Memories
    BY <2>2, <2>3, StoredIsMemory DEF TypeOK
  <2>5. memory' \in Memories /\ unfreed' \in Memories
    BY <2>1, <2>4 DEF Memories
  <2>6. ErrorsOf(program[pc]) \in Nat
    BY DEF ErrorsOf
  <2>7. pc' \in 1 .. Len(program) + 1
    BY <1>0, <1>3 DEF TypeOK, Execute
  <2>8. QED
    BY <1>3, <2>5, <2>6, <2>7 DEF TypeOK, Execute
<1>4. CASE Finish
  <2>1. outputs' \in [live_out -> Values \cup {Absent}]
    BY <1>4, LiveOutsAssumption DEF TypeOK, Finish, Memories
  <2>2. QED
    BY <1>4, <2>1 DEF TypeOK, Finish
<1>5. CASE UNCHANGED vars
  BY <1>5 DEF TypeOK, vars
<1>6. QED
  BY <1>1, <1>2, <1>3, <1>4, <1>5 DEF Next

LEMMA TypeInit == Init => TypeOK
<1> SUFFICES ASSUME Init PROVE TypeOK
  OBVIOUS
<1>1. program \in Seq(Instructions)
  BY ProgramsAssumption DEF Init
<1>2. QED
  BY <1>1 DEF Init, TypeOK, Memories

(* Type correctness: the program counter stays within one past the end of  *)
(* the trace, the memory holds polynomials, the free schedule is the one   *)
(* compute_liveness built or the empty one of its opt-out.                 *)
THEOREM TypeCorrect == Spec => []TypeOK
BY TypeInit, TypeStep, PTL DEF Spec

-----------------------------------------------------------------------------
(* An address released after instruction i is neither live-out nor read by *)
(* any later instruction.                                                  *)
LEMMA ReleasedIsDead ==
  ASSUME TypeOK, pc <= Len(program), NEW a \in Released(pc)
  PROVE  a \notin live_out /\ a \notin ReadFrom(pc + 1)
<1>1. program \in Seq(Instructions) /\ pc \in DOMAIN program
  BY CurrentInstruction
<1>2. free_after = FreeAfter(program, live_out) /\ pc \in DOMAIN free_after
  BY DEF TypeOK, Released
<1>3. a \in FreeAfter(program, live_out)[pc]
  BY <1>2 DEF Released
<1>4. /\ a \notin live_out
      /\ LastRead(program, a, pc) \/ DeadWrite(program, a, pc)
  BY <1>1, <1>3 DEF FreeAfter
<1>5. \A j \in DOMAIN program : j > pc => a \notin Reads(program[j])
  BY <1>1, <1>4 DEF LastRead, DeadWrite
<1>6. \A j \in DOMAIN program : j >= pc + 1 => j > pc
  BY <1>1
<1>7. a \notin ReadFrom(pc + 1)
  BY <1>5, <1>6 DEF ReadFrom
<1>8. QED
  BY <1>4, <1>7

(* What is read from pc + 1 on is read from pc on. *)
LEMMA ReadFromShrinks ==
  ASSUME TypeOK, pc <= Len(program)
  PROVE  /\ ReadFrom(pc + 1) \subseteq ReadFrom(pc)
         /\ Reads(program[pc]) \subseteq ReadFrom(pc)
<1>1. program \in Seq(Instructions) /\ pc \in DOMAIN program
  BY CurrentInstruction
<1>2. \A j \in DOMAIN program : j >= pc + 1 => j >= pc
  BY <1>1
<1>3. QED
  BY <1>1, <1>2 DEF ReadFrom

(* Reads and live-outs are addresses. *)
LEMMA ReadsAreAddrs ==
  ASSUME NEW inst \in Instructions
  PROVE  Reads(inst) \subseteq Addrs
BY DEF Reads, Instructions

LEMMA InvisibleStep == TypeOK /\ FreesInvisible /\ [Next]_vars => FreesInvisible'
<1> SUFFICES ASSUME TypeOK, FreesInvisible, [Next]_vars PROVE FreesInvisible'
  OBVIOUS
<1>1. ASSUME NEW a \in Addrs, NEW v \in Values, StorePolynomial(a, v) PROVE FreesInvisible'
  <2>1. /\ ReadFrom(pc)' = ReadFrom(pc) /\ live_out' = live_out
    BY <1>1 DEF StorePolynomial, ReadFrom
  <2>2. \A b : memory[b] = unfreed[b] => memory'[b] = unfreed'[b] \/ b \notin Addrs
    BY <1>1 DEF StorePolynomial, TypeOK, Memories
  <2>3. live_out \subseteq Addrs
    BY LiveOutsAssumption DEF TypeOK
  <2>4. ReadFrom(pc) \subseteq Addrs
    <3>1. \A j \in DOMAIN program : program[j] \in Instructions
      BY ProgramsAssumption DEF TypeOK
    <3>2. QED
      BY <3>1, ReadsAreAddrs DEF ReadFrom
  <2>5. QED
    BY <2>1, <2>2, <2>3, <2>4 DEF FreesInvisible
<1>2. CASE ComputeLiveness
  BY <1>2 DEF ComputeLiveness, FreesInvisible, ReadFrom
<1>3. CASE Execute
  <2>1. PICK v \in Results(program[pc], memory) :
          /\ memory' = [a \in Addrs |-> IF a \in Released(pc) THEN Absent
                                        ELSE Stored(program[pc], memory, v)[a]]
          /\ unfreed' = Stored(program[pc], unfreed, v)
    BY <1>3 DEF Execute
  <2>2. program[pc] \in Instructions /\ program \in Seq(Instructions)
    BY <1>3, CurrentInstruction DEF Execute
  <2>3. ReadFrom(pc)' = ReadFrom(pc + 1) /\ live_out' = live_out
    BY <1>3 DEF Execute, ReadFrom
  <2>4. SUFFICES ASSUME NEW a \in live_out \cup ReadFrom(pc + 1)
                 PROVE  memory'[a] = unfreed'[a]
    BY <2>3 DEF FreesInvisible
  <2>5. a \in Addrs
    <3>1. \A j \in DOMAIN program : program[j] \in Instructions
      BY <2>2
    <3>2. QED
      BY <3>1, ReadsAreAddrs, LiveOutsAssumption DEF ReadFrom, TypeOK
  <2>6. a \notin Released(pc)
    BY <1>3, ReleasedIsDead DEF Execute
  <2>7. memory[a] = unfreed[a]
    BY <1>3, ReadFromShrinks DEF FreesInvisible, Execute
  <2>8. Stored(program[pc], memory, v)[a] = Stored(program[pc], unfreed, v)[a]
    BY <2>2, <2>5, <2>7 DEF Stored, TypeOK, Memories
  <2>9. QED
    BY <2>1, <2>5, <2>6, <2>8
<1>4. CASE Finish
  BY <1>4 DEF Finish, FreesInvisible, ReadFrom
<1>5. CASE UNCHANGED vars
  BY <1>5 DEF vars, FreesInvisible, ReadFrom
<1>6. QED
  BY <1>1, <1>2, <1>3, <1>4, <1>5 DEF Next

LEMMA InvisibleInit == Init => FreesInvisible
BY DEF Init, FreesInvisible

(* Releasing an address at its last read or dead write is never observed,  *)
(* by a later instruction or by the caller reading the outputs back.       *)
THEOREM FreesNeverObserved == Spec => []FreesInvisible
<1>1. Init => TypeOK /\ FreesInvisible
  BY TypeInit, InvisibleInit
<1>2. TypeOK /\ FreesInvisible /\ [Next]_vars => (TypeOK /\ FreesInvisible)'
  BY TypeStep, InvisibleStep
<1>3. QED
  BY <1>1, <1>2, PTL DEF Spec

-----------------------------------------------------------------------------
(* The schedule leaves nothing behind.  Inductively: with the schedule on, *)
(* whatever is resident is live-out, still to be read, or untouched so far.*)
PhaseInv ==
  /\ phase = "load" => pc = 1
  /\ phase = "done" => pc > Len(program)

Untouched(a) == \A j \in DOMAIN program :
                   j < pc => a \notin Reads(program[j]) /\ a \notin Writes(program[j])

ResidueInv ==
  free_after = FreeAfter(program, live_out) =>
    \A a \in Addrs : memory[a] # Absent =>
      a \in live_out \/ a \in ReadFrom(pc) \/ Untouched(a)

LEMMA PhaseStep == TypeOK /\ PhaseInv /\ [Next]_vars => PhaseInv'
<1> SUFFICES ASSUME TypeOK, PhaseInv, [Next]_vars PROVE PhaseInv'
  OBVIOUS
<1>0. program \in Seq(Instructions)
  BY ProgramsAssumption DEF TypeOK
<1>1. ASSUME NEW a \in Addrs, NEW v \in Values, StorePolynomial(a, v) PROVE PhaseInv'
  BY <1>1 DEF StorePolynomial, PhaseInv
<1>2. CASE ComputeLiveness
  BY <1>2 DEF ComputeLiveness, PhaseInv
<1>3. CASE Execute
  BY <1>3 DEF Execute, PhaseInv
<1>4. CASE Finish
  BY <1>0, <1>4 DEF Finish, PhaseInv
<1>5. CASE UNCHANGED vars
  BY <1>5 DEF vars, PhaseInv
<1>6. QED
  BY <1>1, <1>2, <1>3, <1>4, <1>5 DEF Next

LEMMA ResidueStep == TypeOK /\ PhaseInv /\ ResidueInv /\ [Next]_vars => ResidueInv'
<1> SUFFICES ASSUME TypeOK, PhaseInv, ResidueInv, [Next]_vars PROVE ResidueInv'
  OBVIOUS
<1>0. program \in Seq(Instructions) /\ \A j \in DOMAIN program : j \in Nat /\ j >= 1
  BY ProgramsAssumption DEF TypeOK
<1>1. ASSUME NEW a \in Addrs, NEW v \in Values, StorePolynomial(a, v) PROVE ResidueInv'
  <2>1. pc' = 1 /\ program' = program
    BY <1>1 DEF StorePolynomial, PhaseInv
  <2>2. \A b \in Addrs : Untouched(b)'
    BY <1>0, <2>1 DEF Untouched
  <2>3. QED
    BY <2>2 DEF ResidueInv
<1>2. CASE ComputeLiveness
  <2>1. pc' = 1 /\ program' = program
    BY <1>2 DEF ComputeLiveness, PhaseInv
  <2>2. \A b \in Addrs : Untouched(b)'
    BY <1>0, <2>1 DEF Untouched
  <2>3. QED
    BY <2>2 DEF ResidueInv
<1>3. CASE Execute
  <2>1. PICK v \in Results(program[pc], memory) :
          memory' = [a \in Addrs |-> IF a \in Released(pc) THEN Absent
                                     ELSE Stored(program[pc], memory, v)[a]]
    BY <1>3 DEF Execute
  <2>2. pc \in DOMAIN program /\ program[pc] \in Instructions
    BY <1>3, CurrentInstruction DEF Execute
  <2>3. ReadFrom(pc)' = ReadFrom(pc + 1) /\ pc' = pc + 1
        /\ UNCHANGED <<program, live_out, free_after>>
    BY <1>3 DEF Execute, ReadFrom
  <2>4. SUFFICES ASSUME free_after = FreeAfter(program, live_out),
                        NEW a \in Addrs, memory'[a] # Absent,
                        a \notin live_out, a \notin ReadFrom(pc + 1)
                 PROVE  Untouched(a)'
    BY <2>3 DEF ResidueInv, FreeAfter
  <2>5. \A j \in DOMAIN program : j > pc => a \notin Reads(program[j])
    BY <1>0, <2>2, <2>4 DEF ReadFrom
  <2>6. a \notin Released(pc)
    BY <2>1, <2>4
  <2>7. ~LastRead(program, a, pc) /\ ~DeadWrite(program, a, pc)
    BY <2>2, <2>4, <2>6 DEF Released, FreeAfter
  <2>8. a \notin Reads(program[pc])
    BY <2>5, <2>7 DEF LastRead
  <2>9. a \notin Writes(program[pc])
    BY <1>0, <2>2, <2>5, <2>7, <2>8 DEF DeadWrite
  <2>10. memory[a] # Absent
    BY <2>1, <2>2, <2>4, <2>6, <2>9 DEF Stored, Writes, TypeOK, Memories
  <2>11. a \notin ReadFrom(pc)
    BY <1>0, <2>2, <2>5, <2>8 DEF ReadFrom
  <2>12. Untouched(a)
    BY <2>4, <2>10, <2>11 DEF ResidueInv
  <2>13. QED
    BY <1>0, <2>2, <2>3, <2>8, <2>9, <2>12 DEF Untouched
<1>4. CASE Finish
  BY <1>4 DEF Finish, ResidueInv, ReadFrom, Untouched
<1>5. CASE UNCHANGED vars
  BY <1>5 DEF vars, ResidueInv, ReadFrom, Untouched
<1>6. QED
  BY <1>1, <1>2, <1>3, <1>4, <1>5 DEF Next

(* After a run with the free schedule on, only live-out addresses and      *)
(* addresses the program never mentions are still resident.                *)
THEOREM MemoryIsReleased == Spec => []NothingLeftBehind
<1> DEFINE IInv == TypeOK /\ PhaseInv /\ ResidueInv
<1>1. Init => IInv
  <2>1. Init => PhaseInv /\ ResidueInv
    BY DEF Init, PhaseInv, ResidueInv
  <2>2. QED
    BY <2>1, TypeInit
<1>2. IInv /\ [Next]_vars => IInv'
  BY TypeStep, PhaseStep, ResidueStep
<1>3. IInv => NothingLeftBehind
  <2> SUFFICES ASSUME IInv, phase = "done", free_after = FreeAfter(program, live_out),
                      NEW a \in Addrs, memory[a] # Absent, a \notin live_out
               PROVE  a \notin Accessed
    BY DEF NothingLeftBehind
  <2>1. program \in Seq(Instructions) /\ pc > Len(program) /\ pc \in Nat
    BY ProgramsAssumption DEF TypeOK, PhaseInv
  <2>2. a \notin ReadFrom(pc)
    BY <2>1 DEF ReadFrom
  <2>3. Untouched(a)
    BY <2>2 DEF ResidueInv
  <2>4. QED
    BY <2>1, <2>3 DEF Untouched, Accessed
<1>4. QED
  BY <1>1, <1>2, <1>3, PTL DEF Spec

-----------------------------------------------------------------------------
(* The listed live-ins are enough.  Inductively: while nothing has failed, *)
(* an address a later instruction reads is resident, is written in         *)
(* between, or is a listed live-in.                                        *)
SuppliedInv ==
  errors = 0 =>
    \A j \in DOMAIN program : j >= pc =>
      \A a \in Reads(program[j]) :
        \/ memory[a] # Absent
        \/ \E k \in DOMAIN program : pc <= k /\ k < j /\ a \in Writes(program[k])
        \/ a \in ReadBeforeWrite(program)

LEMMA SuppliedInit == Init => SuppliedInv
<1> SUFFICES ASSUME Init, NEW j \in DOMAIN program, NEW a \in Reads(program[j]),
                    \A k \in DOMAIN program : pc <= k /\ k < j => a \notin Writes(program[k])
             PROVE  a \in ReadBeforeWrite(program)
  BY DEF SuppliedInv
<1>1. program \in Seq(Instructions) /\ pc = 1
  BY ProgramsAssumption DEF Init
<1>2. \A k \in 1 .. j - 1 : a \notin Writes(program[k])
  BY <1>1
<1>3. QED
  BY <1>2 DEF ReadBeforeWrite

LEMMA SuppliedStep == TypeOK /\ SuppliedInv /\ [Next]_vars => SuppliedInv'
<1> SUFFICES ASSUME TypeOK, SuppliedInv, [Next]_vars PROVE SuppliedInv'
  OBVIOUS
<1>0. program \in Seq(Instructions) /\ \A j \in DOMAIN program : program[j] \in Instructions /\ j \in Nat
  BY ProgramsAssumption DEF TypeOK
<1>1. ASSUME NEW b \in Addrs, NEW v \in Values, StorePolynomial(b, v) PROVE SuppliedInv'
  <2>1. \A a \in Addrs : memory[a] # Absent => memory'[a] # Absent
    BY <1>1, ValuesAssumption DEF StorePolynomial, TypeOK, Memories
  <2>2. \A j \in DOMAIN program : Reads(program[j]) \subseteq Addrs
    BY <1>0, ReadsAreAddrs
  <2>3. QED
    BY <1>1, <2>1, <2>2 DEF StorePolynomial, SuppliedInv
<1>2. CASE ComputeLiveness
  BY <1>2 DEF ComputeLiveness, SuppliedInv
<1>3. CASE Execute
  <2>1. PICK v \in Results(program[pc], memory) :
          memory' = [a \in Addrs |-> IF a \in Released(pc) THEN Absent
                                     ELSE Stored(program[pc], memory, v)[a]]
    BY <1>3 DEF Execute
  <2>2. pc \in DOMAIN program /\ pc \in Nat /\ program[pc] \in Instructions /\ pc' = pc + 1
        /\ program' = program
    BY <1>0, <1>3, CurrentInstruction DEF Execute
  <2>3. v \in Values
    BY <2>1, <2>2, ResultsAreValues DEF TypeOK
  <2>4. SUFFICES ASSUME errors' = 0, NEW j \in DOMAIN program, j >= pc + 1,
                        NEW a \in Reads(program[j]),
                        \A k \in DOMAIN program : pc + 1 <= k /\ k < j => a \notin Writes(program[k]),
                        a \notin ReadBeforeWrite(program)
                 PROVE  memory'[a] # Absent
    BY <2>2 DEF SuppliedInv
  <2>5. errors = 0 /\ ErrorsOf(program[pc]) = 0
    <3>1. errors' = errors + ErrorsOf(program[pc]) /\ errors \in Nat /\ ErrorsOf(program[pc]) \in Nat
      BY <1>3 DEF Execute, TypeOK, ErrorsOf
    <3>2. QED
      BY <2>4, <3>1
  <2>6. a \in Addrs
    BY <1>0, ReadsAreAddrs
  <2>7. a \notin Released(pc)
    <3>1. a \in ReadFrom(pc + 1)
      BY <2>4 DEF ReadFrom
    <3>2. QED
      BY <1>3, <3>1, ReleasedIsDead DEF Execute
  <2>8. memory'[a] = Stored(program[pc], memory, v)[a]
    BY <2>1, <2>6, <2>7
  <2>9. CASE a \in Writes(program[pc])
    <3>1. ~Refused(program[pc])
      BY <2>5, <2>9 DEF ErrorsOf, Writes
    <3>2. Stored(program[pc], memory, v)[a] = v
      BY <2>2, <2>6, <2>9, <3>1 DEF Stored, Writes, TypeOK, Memories
    <3>3. QED
      BY <2>3, <2>8, <3>2, ValuesAssumption
  <2>10. CASE a \notin Writes(program[pc])
    <3>1. \A k \in DOMAIN program : pc <= k /\ k < j => a \notin Writes(program[k])
      BY <1>0, <2>2, <2>4, <2>10
    <3>2. memory[a] # Absent
      BY <1>0, <2>2, <2>4, <2>5, <3>1 DEF SuppliedInv
    <3>3. Stored(program[pc], memory, v)[a] = memory[a]
      BY <2>2, <2>10 DEF Stored, Writes, TypeOK, Memories
    <3>4. QED
      BY <2>8, <3>2, <3>3
  <2>11. QED
    BY <2>9, <2>10
<1>4. CASE Finish
  BY <1>4 DEF Finish, SuppliedInv
<1>5. CASE UNCHANGED vars
  BY <1>5 DEF vars, SuppliedInv
<1>6. QED
  BY <1>1, <1>2, <1>3, <1>4, <1>5 DEF Next

(* A kernel finds an operand empty only at an address that                 *)
(* get_read_before_write_addresses() told the loader to supply, or after   *)
(* an instruction has failed.                                              *)
THEOREM LiveInsAreEnough == Spec => []OnlyLiveInsEmpty
<1> DEFINE IInv == TypeOK /\ SuppliedInv
<1>1. Init => IInv
  BY TypeInit, SuppliedInit
<1>2. IInv /\ [Next]_vars => IInv'
  BY TypeStep, SuppliedStep
<1>3. IInv => OnlyLiveInsEmpty
  <2> SUFFICES ASSUME IInv, pc <= Len(program), errors = 0, NEW a \in Reads(program[pc])
               PROVE  memory[a] # Absent \/ a \in ReadBeforeWrite(program)
    BY DEF OnlyLiveInsEmpty
  <2>1. pc \in DOMAIN program /\ pc \in Nat /\ program \in Seq(Instructions)
    BY CurrentInstruction DEF TypeOK
  <2>2. \A k \in DOMAIN program : ~(pc <= k /\ k < pc)
    BY <2>1
  <2>3. QED
    BY <2>1, <2>2 DEF SuppliedInv
<1>4. QED
  BY <1>1, <1>2, <1>3, PTL DEF Spec

-----------------------------------------------------------------------------
(* Both specifications execute an instruction by the same definitions.     *)
LEMMA SameExecution ==
  ASSUME NEW inst, NEW mem, NEW v
  PROVE  /\ PlainReplay!Results(inst, mem) = Results(inst, mem)
         /\ PlainReplay!Stored(inst, mem, v) = Stored(inst, mem, v)
         /\ PlainReplay!ErrorsOf(inst) = ErrorsOf(inst)
<1>1. /\ PlainReplay!InertOps = InertOps
      /\ PlainReplay!PolyPolyOps = PolyPolyOps
      /\ PlainReplay!IsZeroInit(inst) = IsZeroInit(inst)
      /\ PlainReplay!IsCopy(inst) = IsCopy(inst)
      /\ PlainReplay!ModulusResolves(inst) = ModulusResolves(inst)
      /\ PlainReplay!Refused(inst) = Refused(inst)
  BY Zenon DEF PlainReplay!InertOps, InertOps, PlainReplay!PolyPolyOps, PolyPolyOps,
     PlainReplay!IsZeroInit, IsZeroInit, PlainReplay!IsCopy, IsCopy,
     PlainReplay!ModulusResolves, ModulusResolves, PlainReplay!Refused, Refused,
     PlainReplay!MayRefuse, MayRefuse
<1>2. PlainReplay!Results(inst, mem) = Results(inst, mem)
  BY <1>1 DEF PlainReplay!Results, Results, PlainReplay!Result, Result, PlainReplay!GetOrZero, GetOrZero
<1>3. PlainReplay!Stored(inst, mem, v) = Stored(inst, mem, v)
  BY <1>1 DEF PlainReplay!Stored, Stored, PlainReplay!Writes, Writes
<1>4. PlainReplay!ErrorsOf(inst) = ErrorsOf(inst)
  BY <1>1 DEF PlainReplay!ErrorsOf, ErrorsOf
<1>5. QED
  BY <1>2, <1>3, <1>4

(* Each step of the simulator is a step of the plain replay over unfreed.  *)
LEMMA RefinementStep ==
  TypeOK /\ FreesInvisible /\ [Next]_vars => [PlainReplay!Next]_(PlainReplay!vars)
<1> SUFFICES ASSUME TypeOK, FreesInvisible, [Next]_vars
             PROVE  PlainReplay!Next \/ UNCHANGED PlainReplay!vars
  OBVIOUS
<1>1. ASSUME NEW a \in Addrs, NEW v \in Values, StorePolynomial(a, v) PROVE PlainReplay!Next
  BY <1>1 DEF StorePolynomial, PlainReplay!Next, PlainReplay!StorePolynomial
<1>2. CASE ComputeLiveness
  BY <1>2 DEF ComputeLiveness, PlainReplay!Next, PlainReplay!Begin
<1>3. CASE Execute
  <2>1. PICK v \in Results(program[pc], memory) :
          unfreed' = Stored(program[pc], unfreed, v)
    BY <1>3 DEF Execute
  <2>2. program[pc] \in Instructions
    BY <1>3, CurrentInstruction DEF Execute
  <2>3. \A a \in Reads(program[pc]) : memory[a] = unfreed[a]
    BY <1>3, ReadFromShrinks DEF FreesInvisible, Execute
  <2>4. v \in Results(program[pc], unfreed)
    BY <2>1, <2>2, <2>3, ResultsDependOnReads DEF TypeOK
  <2>5. PlainReplay!Execute
    BY <1>3, <2>1, <2>4, SameExecution DEF Execute, PlainReplay!Execute
  <2>6. QED
    BY <2>5 DEF PlainReplay!Next
<1>4. CASE Finish
  <2>1. [a \in live_out |-> memory[a]] = [a \in live_out |-> unfreed[a]]
    BY DEF FreesInvisible
  <2>2. PlainReplay!Finish
    BY <1>4, <2>1 DEF Finish, PlainReplay!Finish
  <2>3. QED
    BY <2>2 DEF PlainReplay!Next
<1>5. CASE UNCHANGED vars
  BY <1>5 DEF vars, PlainReplay!vars
<1>6. QED
  BY <1>1, <1>2, <1>3, <1>4, <1>5 DEF Next

(* The simulator with its free schedule implements the plain replay: the   *)
(* outputs a caller reads back are those of a run that releases nothing.   *)
THEOREM SimulatorImplementsReplay == Spec => ImplementsReplay
<1>1. Init => PlainReplay!Init
  BY DEF Init, PlainReplay!Init
<1>2. Spec => [](TypeOK /\ FreesInvisible)
  BY TypeCorrect, FreesNeverObserved, PTL
<1>3. QED
  BY <1>1, <1>2, RefinementStep, PTL DEF Spec, ImplementsReplay, PlainReplay!Spec
=============================================================================
