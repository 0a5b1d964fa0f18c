----------------------------- MODULE Simulator ------------------------------
(***************************************************************************)
(* The FHETCH simulator (src/fhetch_sim/simulator.cpp): a loaded trace,    *)
(* initial polynomials, the liveness pass that schedules when an address   *)
(* is released, and the execute loop that consults the schedule after each *)
(* instruction.  The callers' order is kept: polynomials are stored, the   *)
(* live-out set is pinned, compute_liveness runs, then run().              *)
(*                                                                         *)
(* unfreed is the memory the same run would have with no schedule; it is a *)
(* history variable, nothing in the simulator reads it.                    *)
(***************************************************************************)
EXTENDS Execution

CONSTANTS Programs, LiveOuts

ASSUME ProgramsAssumption == Programs \subseteq Seq(Instructions)
ASSUME LiveOutsAssumption == \A s \in LiveOuts : s \subseteq Addrs

VARIABLES
  program, live_out, phase, pc, errors, outputs,
  memory,       (* Memory::mem_                                            *)
  free_after,   (* per instruction, the addresses released after it; an    *)
                (* empty sequence when compute_liveness was opted out of   *)
  unfreed       (* history: memory without any release                     *)

vars == <<program, live_out, phase, pc, errors, outputs, memory, free_after, unfreed>>

-----------------------------------------------------------------------------
(* compute_liveness() *)

(* Variants of the definitions below with a plausible mistake. *)
LastReadOffByOne(prog, a, i) ==
  /\ a \in Reads(prog[i])
  /\ \A j \in DOMAIN prog : j > i + 1 => a \notin Reads(prog[j])
DeadWriteForgotten(prog, a, i) == FALSE

(* Instruction i is the last one to read a. *)
LastRead(prog, a, i) ==
  /\ a \in Reads(prog[i])
  /\ \A j \in DOMAIN prog : j > i => a \notin Reads(prog[j])

(* Instruction i writes a, and neither it nor a later one reads a. *)
DeadWrite(prog, a, i) ==
  /\ a \in Writes(prog[i])
  /\ \A j \in DOMAIN prog : j >= i => a \notin Reads(prog[j])

(* Variant: the live-out set is not kept. *)
FreeAfterLiveOut(prog, keep) ==
  [i \in DOMAIN prog |-> {a \in Addrs : LastRead(prog, a, i) \/ DeadWrite(prog, a, i)}]

FreeAfter(prog, keep) ==
  [i \in DOMAIN prog |->
     {a \in Addrs \ keep : LastRead(prog, a, i) \/ DeadWrite(prog, a, i)}]

-----------------------------------------------------------------------------
Init ==
  /\ program \in Programs
  /\ live_out \in LiveOuts
  /\ phase = "load"
  /\ pc = 1
  /\ errors = 0
  /\ outputs = [a \in {} |-> Absent]
  /\ memory = [a \in Addrs |-> Absent]
  /\ free_after = <<>>
  /\ unfreed = [a \in Addrs |-> Absent]

StorePolynomial(a, v) ==
  /\ phase = "load"
  /\ memory' = [memory EXCEPT ![a] = v]
  /\ unfreed' = [unfreed EXCEPT ![a] = v]
  /\ UNCHANGED <<program, live_out, phase, pc, errors, outputs, free_after>>

(* The liveness pass, or its opt-out, and the entry of run(). *)
ComputeLiveness ==
  /\ phase = "load"
  /\ phase' = "run"
  /\ free_after' \in {FreeAfter(program, live_out), <<>>}
  /\ UNCHANGED <<program, live_out, pc, errors, outputs, memory, unfreed>>

(* The addresses the execute loop erases after instruction i. *)
Released(i) == IF i \in DOMAIN free_after THEN free_after[i] ELSE {}

(* One iteration of the execute loop: the kernel, then the releases. *)
Execute ==
  /\ phase = "run"
  /\ pc <= Len(program)
  /\ \E v \in Results(program[pc], memory) :
       LET stored == Stored(program[pc], memory, v) IN
       /\ memory' = [a \in Addrs |-> IF a \in Released(pc) THEN Absent ELSE stored[a]]
       /\ unfreed' = Stored(program[pc], unfreed, v)
  /\ errors' = errors + ErrorsOf(program[pc])
  /\ pc' = pc + 1
  /\ UNCHANGED <<program, live_out, phase, outputs, free_after>>

(* Variant: the caller is handed the whole memory. *)
FinishReturnsAll ==
  /\ phase = "run"
  /\ pc > Len(program)
  /\ phase' = "done"
  /\ outputs' = memory
  /\ UNCHANGED <<program, live_out, pc, errors, memory, free_after, unfreed>>

(* run() returns and the caller reads the live-out addresses back. *)
Finish ==
  /\ phase = "run"
  /\ pc > Len(program)
  /\ phase' = "done"
  /\ outputs' = [a \in live_out |-> memory[a]]
  /\ UNCHANGED <<program, live_out, pc, errors, memory, free_after, unfreed>>

Next ==
  \/ \E a \in Addrs, v \in Values : StorePolynomial(a, v)
  \/ ComputeLiveness
  \/ Execute
  \/ Finish

Spec == Init /\ [][Next]_vars

-----------------------------------------------------------------------------
(* Properties *)

(* The types of the simulator's state; the results are the live-out ones   *)
(* (Simulator::run, get_polynomial).                                       *)
TypeOK ==
  /\ program \in Programs
  /\ live_out \in LiveOuts
  /\ phase \in {"load", "run", "done"}
  /\ pc \in 1 .. Len(program) + 1
  /\ errors \in Nat
  /\ outputs \in {[a \in {} |-> Absent]} \cup [live_out -> Values \cup {Absent}]
  /\ memory \in Memories
  /\ unfreed \in Memories
  /\ free_after \in {FreeAfter(program, live_out), <<>>}

(* Addresses some instruction from index i on still reads. *)
ReadFrom(i) == UNION {Reads(program[j]) : j \in {k \in DOMAIN program : k >= i}}

(* Releasing memory never changes what the rest of the run or the caller   *)
(* sees: at every address still to be read, and at every live-out address, *)
(* the memory holds what it would hold had nothing ever been released.     *)
FreesInvisible == \A a \in live_out \cup ReadFrom(pc) : memory[a] = unfreed[a]

(* The schedule is complete: once the run is over with the schedule on,    *)
(* what stays resident is live-out or was never accessed by the program    *)
(* ("after run(), only the live-out address remains").                     *)
Accessed == UNION {Reads(program[i]) \cup Writes(program[i]) : i \in DOMAIN program}
NothingLeftBehind ==
  phase = "done" /\ free_after = FreeAfter(program, live_out) =>
    \A a \in Addrs : memory[a] # Absent => a \in live_out \/ a \notin Accessed

(* The live-ins the loader asks for are enough: as long as no instruction  *)
(* has failed, the only addresses a kernel can find empty are the ones     *)
(* get_read_before_write_addresses() lists, even among addresses that were *)
(* released and written again.                                             *)
OnlyLiveInsEmpty ==
  phase = "run" /\ pc <= Len(program) /\ errors = 0 =>
    \A a \in Reads(program[pc]) : memory[a] # Absent \/ a \in ReadBeforeWrite(program)

(* The simulator with its free schedule implements the plain replay. *)
PlainReplay == INSTANCE Replay WITH memory <- unfreed
ImplementsReplay == PlainReplay!Spec
=============================================================================
