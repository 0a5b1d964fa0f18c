----------------------------- MODULE Recording ------------------------------
(***************************************************************************)
(* Several threads record into one trace writer while a session thread     *)
(* starts and stops recording and closes epochs (src/compiler.cpp).        *)
(*                                                                         *)
(* An OpenFHE probe checks should_record() without a lock, takes           *)
(* g_probe_mutex, registers its modulus and emits; a FHETCH API call       *)
(* registers and emits with no check and no lock of its own.  Registering  *)
(* and emitting are two critical sections of the writer.                   *)
(***************************************************************************)
EXTENDS TraceWriter

CONSTANTS
  ProbeThreads, ApiThreads,
  Hosts        (* the hosts considered: the rules each keeps to, the       *)
               (* primes its operations use, the hollow modes it asks for, *)
               (* and bounds on operations started and traces written      *)

(* "quiescent": the session is driven only while no thread is inside an    *)
(*              operation;                                                 *)
(* "resumed":   a trace is not closed while recording is paused.           *)

ASSUME PrimesAssumption == \A h \in Hosts : h.primes \subseteq Nat /\ \A q \in h.primes : q < CopyModulus
ASSUME BoundsAssumption == \A h \in Hosts : h.max_ops \in Nat

Threads == ProbeThreads \cup ApiThreads
ASSUME ThreadsAssumption == ProbeThreads \cap ApiThreads = {} /\ "session" \notin Threads /\ "free" \notin Threads

VARIABLES
  host,          (* the host                                               *)
  writer,        (* the trace writer                                       *)
  running,       (* Impl::running                                          *)
  session,       (* what the session thread has left to do, in order       *)
  files,         (* the traces written, in order                           *)
  stage,         (* per thread: "idle", "checked", "locked", "registered"  *)
  op,            (* per thread: the operation in progress                  *)
  probe_mutex,   (* g_probe_mutex: the holder, or "free"                   *)
  started,       (* operations started so far; numbers them                *)
  appended,      (* history: operations the writer accepted                *)
  hollow, hollow_before_pause,
  bracket,       (* history: OpenFHE is between its pause and its resume   *)
  wanted         (* history: the hollow mode the user last asked for       *)

vars == <<host, writer, running, session, files, stage, op, probe_mutex, started,
          appended, hollow, hollow_before_pause, bracket, wanted>>
hollow_vars == <<hollow, hollow_before_pause, bracket, wanted>>
thread_vars == <<stage, op, probe_mutex, started, appended>>
session_vars == <<host, running, session, files>>

HaltInst == [n |-> 0, by |-> "session", q |-> CopyModulus, idx |-> 0]

Quiet == \A t \in Threads : stage[t] = "idle"
MayDrive == session = <<>> /\ ("quiescent" \in host.rules => Quiet)
MayClose == "resumed" \in host.rules => ~writer.paused

-----------------------------------------------------------------------------
(* Recording threads *)

(* The call begins: a probe whose should_record() is false returns at once, *)
(* an API call does not look.                                              *)
Begin(t, q) ==
  /\ stage[t] = "idle"
  /\ started < host.max_ops
  /\ "quiescent" \in host.rules => session = <<>>
  /\ t \in ProbeThreads => running
  /\ started' = started + 1
  /\ stage' = [stage EXCEPT ![t] = IF t \in ProbeThreads THEN "checked" ELSE "locked"]
  /\ op' = [op EXCEPT ![t] = [n |-> started', by |-> t, q |-> q, idx |-> 0]]
  /\ UNCHANGED <<writer, session_vars, probe_mutex, appended, hollow_vars>>

(* Variant: a probe that finds recording stopped waits for it to start. *)
LockWhileRunning(t) ==
  /\ stage[t] = "checked"
  /\ probe_mutex = "free" /\ running
  /\ probe_mutex' = t
  /\ stage' = [stage EXCEPT ![t] = "locked"]
  /\ UNCHANGED <<writer, session_vars, op, started, appended, hollow_vars>>

Lock(t) ==
  /\ stage[t] = "checked"
  /\ probe_mutex = "free"
  /\ probe_mutex' = t
  /\ stage' = [stage EXCEPT ![t] = "locked"]
  /\ UNCHANGED <<writer, session_vars, op, started, appended, hollow_vars>>

(* midx(q); the copy and zero idioms use the sentinel without registering. *)
Register(t) ==
  /\ stage[t] = "locked"
  /\ writer' = IF op[t].q = CopyModulus THEN writer ELSE RegisterModulus(writer, op[t].q)
  /\ op' = [op EXCEPT ![t].idx = IF op[t].q = CopyModulus THEN 0 ELSE IndexOf(writer', op[t].q)]
  /\ stage' = [stage EXCEPT ![t] = "registered"]
  /\ UNCHANGED <<session_vars, probe_mutex, started, appended, hollow_vars>>

(* Variant: the lock is not released. *)
EmitOpKeepsLock(t) ==
  /\ stage[t] = "registered"
  /\ writer' = Emit(writer, op[t])
  /\ appended' = IF Accepts(writer) THEN appended \cup {op[t].n} ELSE appended
  /\ stage' = [stage EXCEPT ![t] = "idle"]
  /\ UNCHANGED <<session_vars, op, probe_mutex, started, hollow_vars>>

(* emit(inst), and the probe's lock released on return. *)
EmitOp(t) ==
  /\ stage[t] = "registered"
  /\ writer' = Emit(writer, op[t])
  /\ appended' = IF Accepts(writer) THEN appended \cup {op[t].n} ELSE appended
  /\ probe_mutex' = IF probe_mutex = t THEN "free" ELSE probe_mutex
  /\ stage' = [stage EXCEPT ![t] = "idle"]
  /\ UNCHANGED <<session_vars, op, started, hollow_vars>>

-----------------------------------------------------------------------------
(* The session thread: a call queues its writer calls in the code's order. *)

Call(steps) ==
  /\ MayDrive
  /\ session' = steps
  /\ UNCHANGED <<host, writer, running, files, thread_vars, hollow_vars>>

Start == ~running /\ Call(<<"clear", "running", "start_recording">>)
Stop == /\ running /\ MayClose /\ Len(files) < host.max_files
        /\ Call(<<"halt", "stop_recording", "not_running", "write">>)

(* Variants: no reset between epochs; recording stopped before the halt. *)
StopEpochNoClear ==
  /\ running /\ MayClose /\ Len(files) < host.max_files
  /\ Call(<<"halt", "stop_recording", "write", "start_recording">>)
StopEpochHaltsLate ==
  /\ running /\ MayClose /\ Len(files) < host.max_files
  /\ Call(<<"stop_recording", "halt", "write", "clear", "start_recording">>)

StopEpoch == /\ running /\ MayClose /\ Len(files) < host.max_files
             /\ Call(<<"halt", "stop_recording", "write", "clear", "start_recording">>)

Does(step) == session # <<>> /\ session[1] = step /\ session' = Tail(session)

SessionStep ==
  /\ \/ Does("clear") /\ writer' = Clear(writer) /\ UNCHANGED <<running, files>>
     \/ Does("running") /\ running' = TRUE /\ UNCHANGED <<writer, files>>
     \/ Does("not_running") /\ running' = FALSE /\ UNCHANGED <<writer, files>>
     \/ Does("start_recording") /\ writer' = StartRecording(writer) /\ UNCHANGED <<running, files>>
     \/ Does("stop_recording") /\ writer' = StopRecording(writer) /\ UNCHANGED <<running, files>>
     \/ Does("halt") /\ writer' = Emit(writer, HaltInst) /\ UNCHANGED <<running, files>>
     \/ /\ Does("write")
        /\ writer' = Normalize(writer)
        /\ files' = Append(files, Written(writer'))
        /\ UNCHANGED running
  /\ UNCHANGED <<host, thread_vars, hollow_vars>>

(* The user's pause() and resume(): no effect unless running. *)
Pause == /\ MayDrive /\ running /\ writer' = PauseRecording(writer)
         /\ UNCHANGED <<session_vars, thread_vars, hollow_vars>>
Resume == /\ MayDrive /\ running /\ writer' = ResumeRecording(writer)
          /\ UNCHANGED <<session_vars, thread_vars, hollow_vars>>

-----------------------------------------------------------------------------
(* OpenFHE's bracket around host-only work: real mathematics, not recorded. *)

(* Variant: hollow mode is switched off before it is saved. *)
PauseProbeSavesLate ==
  /\ MayDrive /\ ~bracket
  /\ bracket' = TRUE
  /\ hollow' = FALSE
  /\ hollow_before_pause' = FALSE
  /\ writer' = IF running THEN PauseRecording(writer) ELSE writer
  /\ UNCHANGED <<session_vars, thread_vars, wanted>>

PauseProbe ==
  /\ MayDrive /\ ~bracket
  /\ bracket' = TRUE
  /\ hollow_before_pause' = hollow
  /\ hollow' = FALSE
  /\ writer' = IF running THEN PauseRecording(writer) ELSE writer
  /\ UNCHANGED <<session_vars, thread_vars, wanted>>

ResumeProbe ==
  /\ MayDrive /\ bracket
  /\ bracket' = FALSE
  /\ hollow' = hollow_before_pause
  /\ writer' = IF running THEN ResumeRecording(writer) ELSE writer
  /\ UNCHANGED <<session_vars, thread_vars, hollow_before_pause, wanted>>

EnableHollowMode(on) ==
  /\ MayDrive /\ ~bracket
  /\ hollow' = on
  /\ wanted' = on
  /\ UNCHANGED <<writer, session_vars, thread_vars, hollow_before_pause, bracket>>

-----------------------------------------------------------------------------
Init ==
  /\ host \in Hosts
  /\ writer = NewWriter
  /\ running = FALSE
  /\ session = <<>>
  /\ files = <<>>
  /\ stage = [t \in Threads |-> "idle"]
  /\ op = [t \in Threads |-> HaltInst]
  /\ probe_mutex = "free"
  /\ started = 0
  /\ appended = {}
  /\ hollow = FALSE /\ hollow_before_pause = FALSE /\ bracket = FALSE /\ wanted = FALSE

Record(t) == Lock(t) \/ Register(t) \/ EmitOp(t)

Next ==
  \/ \E t \in Threads : (\E q \in host.primes \cup {CopyModulus} : Begin(t, q)) \/ Record(t)
  \/ Start \/ Stop \/ StopEpoch \/ SessionStep
  \/ Pause \/ Resume \/ PauseProbe \/ ResumeProbe
  \/ \E on \in host.hollow_modes : EnableHollowMode(on)

(* Threads that can go on do go on.  std::mutex promises no fairness       *)
(* between waiters, so a waiting probe gets only weak fairness: it is      *)
(* served once the mutex stays free.                                       *)
Spec == Init /\ [][Next]_vars
        /\ WF_vars(SessionStep)
        /\ \A t \in Threads : WF_vars(Record(t))

-----------------------------------------------------------------------------
(* Properties *)

(* Types; the probe mutex is held by the one probe thread past its lock,   *)
(* until its emission returns (std::scoped_lock in every probe).           *)
TypeOK ==
  /\ writer.recording \in BOOLEAN /\ writer.paused \in BOOLEAN
  /\ writer.table[1] = CopyModulus
  /\ running \in BOOLEAN
  /\ stage \in [Threads -> {"idle", "checked", "locked", "registered"}]
  /\ probe_mutex \in ProbeThreads \cup {"free"}
  /\ \A t \in ProbeThreads : stage[t] \in {"locked", "registered"} <=> probe_mutex = t
  /\ started \in 0 .. host.max_ops /\ appended \subseteq 1 .. started

(* Under both rules every instruction, in the log and in every trace       *)
(* written, names by index the modulus its operation was performed under,  *)
(* whatever the threads registered in between and however the table was    *)
(* sorted.                                                                 *)
Ruled == {"quiescent", "resumed"} \subseteq host.rules
Resolves(table, inst) == inst.idx + 1 \in DOMAIN table /\ table[inst.idx + 1] = inst.q
ModulusFaithful ==
  Ruled =>
  /\ \A k \in DOMAIN writer.instructions : Resolves(writer.table, writer.instructions[k])
  /\ \A f \in DOMAIN files : \A k \in DOMAIN files[f].instructions :
       Resolves(files[f].table, files[f].instructions[k])

(* Under both rules a trace ends with its only halt. *)
HaltIsLast ==
  Ruled =>
  \A f \in DOMAIN files :
    LET prog == files[f].instructions IN
    /\ prog # <<>>
    /\ \A k \in DOMAIN prog : prog[k].by = "session" <=> k = Len(prog)

(* Whatever the threads do meanwhile, closing a trace and opening the next *)
(* neither loses nor repeats an accepted operation: it is in one written   *)
(* trace only, and until then in the log.                                  *)
Holds(prog, n) == \E k \in DOMAIN prog : prog[k].n = n
KeptOnce ==
  \A n \in appended :
    LET traces == {f \in DOMAIN files : Holds(files[f].instructions, n)} IN
    \/ Cardinality(traces) = 1
    \/ traces = {} /\ Holds(writer.instructions, n)

(* The table of a written trace is the sentinel followed by its moduli in  *)
(* ascending order, so traces of one program agree on their indices.       *)
TablesSorted ==
  \A f \in DOMAIN files :
    LET tbl == files[f].table IN
    tbl[1] = CopyModulus /\ \A i, j \in 2 .. Len(tbl) : i < j => tbl[i] < tbl[j]

(* After OpenFHE's bracket the user has the hollow mode they asked for. *)
HollowRestored == bracket \/ hollow = wanted

(* No operation hangs, whatever the session does: once begun, it ends. *)
OperationsEnd == \A t \in Threads : stage[t] # "idle" ~> stage[t] = "idle"
=============================================================================
