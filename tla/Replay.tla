------------------------------- MODULE Replay -------------------------------
(***************************************************************************)
(* What a replay promises: the instructions run in order over one memory   *)
(* that only stores ever change, and the outputs are what that memory      *)
(* holds at the live-out addresses when the last instruction has run.      *)
(* This is the simulator with its free schedule switched off               *)
(* (NIOBIUM_DISABLE_SIM_FREES).                                            *)
(***************************************************************************)
EXTENDS Execution

CONSTANTS
  Programs,   (* the traces considered                                     *)
  LiveOuts    (* the sets of output addresses considered                   *)

VARIABLES
  program,    (* the loaded trace                                          *)
  live_out,   (* addresses read back after the run                         *)
  phase,      (* "load", "run", "done"                                     *)
  pc,         (* index of the next instruction                             *)
  memory,     (* address -> polynomial or Absent                           *)
  errors,     (* error_count                                               *)
  outputs     (* what the caller reads back, address by address            *)

vars == <<program, live_out, phase, pc, memory, errors, outputs>>

Init ==
  /\ program \in Programs
  /\ live_out \in LiveOuts
  /\ phase = "load"
  /\ pc = 1
  /\ memory = [a \in Addrs |-> Absent]
  /\ errors = 0
  /\ outputs = [a \in {} |-> Absent]

StorePolynomial(a, v) ==
  /\ phase = "load"
  /\ memory' = [memory EXCEPT ![a] = v]
  /\ UNCHANGED <<program, live_out, phase, pc, errors, outputs>>

Begin ==
  /\ phase = "load"
  /\ phase' = "run"
  /\ UNCHANGED <<program, live_out, pc, memory, errors, outputs>>

Execute ==
  /\ phase = "run"
  /\ pc <= Len(program)
  /\ \E v \in Results(program[pc], memory) :
       memory' = Stored(program[pc], memory, v)
  /\ errors' = errors + ErrorsOf(program[pc])
  /\ pc' = pc + 1
  /\ UNCHANGED <<program, live_out, phase, outputs>>

Finish ==
  /\ phase = "run"
  /\ pc > Len(program)
  /\ phase' = "done"
  /\ outputs' = [a \in live_out |-> memory[a]]
  /\ UNCHANGED <<program, live_out, pc, memory, errors>>

Next ==
  \/ \E a \in Addrs, v \in Values : StorePolynomial(a, v)
  \/ Begin
  \/ Execute
  \/ Finish

Spec == Init /\ [][Next]_vars
=============================================================================
