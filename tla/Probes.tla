------------------------------- MODULE Probes -------------------------------
(***************************************************************************)
(* The OpenFHE probes (src/probes.cpp) driven by the library they are      *)
(* called from.  OpenFHE names polynomials by id; the probes give every id *)
(* a FHETCH address, recycle addresses, keep clone lineage, and emit the   *)
(* instructions of the trace.                                              *)
(*                                                                         *)
(* The trace is represented by the memory its replay leaves (mem): the log *)
(* is append-only and only a replay ever reads it.  Beside it the model    *)
(* keeps what the host really holds: val[id] is the polynomial's value,    *)
(* and known is the set of ids whose value the trace and the captured      *)
(* inputs must be able to reproduce.                                       *)
(*                                                                         *)
(* The library is not in the repository.  Rules lists what the probes need *)
(* of the order in which it calls them; dropping a rule shows what goes    *)
(* wrong without it.                                                       *)
(***************************************************************************)
EXTENDS Execution

CONSTANTS
  Ids,       (* OpenFHE polynomial ids                                     *)
  MaxAddr,   (* bound: addresses the instance can allocate                 *)
  MaxRef,    (* bound: references to one id                                *)
  Moduli,    (* modulus table indices of registered moduli                 *)
  Ops,       (* bound: the opcodes the host's operations use               *)
  Imms,      (* bound: the immediates they use, by being zero or not       *)
  Rules      (* the calling disciplines the host keeps                     *)

AllRules == {"clone_first", "capture_first", "recapture_same", "pinned_stay", "fresh_lineage"}

ASSUME AddrsAssumption == MaxAddr \in Nat /\ Addrs = 0 .. MaxAddr
ASSUME ModuliAssumption == Moduli \subseteq 1 .. TableSize - 1
ASSUME OpsAssumption == Ops \subseteq FhOpcode /\ Imms \subseteq {0, 1}
ASSUME RulesAssumption == Rules \subseteq AllRules
ASSUME MaxRefAssumption == MaxRef \in Nat \ {0}
ASSUME HostKernelAssumption ==
  \A op \in FhOpcode, d, s1, s2 \in Addrs, imm \in {0, 1}, m \in Moduli, a, b \in Values :
    /\ ~Refuses(Instruction(op, d, s1, s2, imm, m))
    /\ Kernel(Instruction(op, d, s1, s2, imm, m), a, b)
         = Kernel(Instruction(op, 0, 0, 0, imm, m), a, b)

VARIABLES
  alloc,        (* [map: g_address_map (0: none), next: g_next_fhetch_addr,*)
                (*  pool: g_compact_free_pool]                             *)
  pinned,       (* g_pinned_openfhe_ids                                    *)
  refcount,     (* g_refcount (0: absent)                                  *)
  data_parent,  (* g_data_parent (0: none)                                 *)
  running, paused, suppressed, serialization,
  mem,          (* what the trace recorded so far leaves when replayed     *)
  first,        (* how the trace first accesses an address                 *)
  inputs,       (* captured input values, by address                       *)
  val,          (* host: the value of each known id (Zero for the others)  *)
  known,        (* host: ids whose value a replay must reproduce           *)
  captured,     (* host: ids unchanged since they were captured            *)
  moved         (* host: moved-from ids, never used again                  *)

probe_vars == <<alloc, pinned, refcount, data_parent>>
control    == <<running, paused, suppressed, serialization>>
host       == <<val, known, captured, moved>>
trace      == <<mem, first, inputs>>
vars       == <<probe_vars, control, trace, host>>

-----------------------------------------------------------------------------
(* Addresses *)

(* Variant: the fresh address last handed out is handed out again. *)
MapAddressAgain(al, pins, id) ==
  IF al.map[id] # 0 THEN al ELSE [al EXCEPT !.map[id] = al.next - 1]

(* map_address(): an id keeps its address; a new one takes the most        *)
(* recently freed address, or a fresh one if it is pinned or none is free. *)
MapAddress(al, pins, id) ==
  IF al.map[id] # 0 THEN al
  ELSE IF id \notin pins /\ al.pool # <<>>
  THEN [map  |-> [al.map EXCEPT ![id] = al.pool[Len(al.pool)]],
        next |-> al.next,
        pool |-> SubSeq(al.pool, 1, Len(al.pool) - 1)]
  ELSE [map  |-> [al.map EXCEPT ![id] = al.next],
        next |-> al.next + 1,
        pool |-> al.pool]

(* should_record(); the writer's paused_ flag is not part of it. *)
ShouldRecord == running /\ ~suppressed /\ ~serialization

(* resolve_inplace_src(): an in-place source is replaced by its clone parent. *)
ResolveInplaceSrc(s, d) == IF s = d /\ data_parent[s] # 0 THEN data_parent[s] ELSE s

(* Variant: writing a clone leaves its lineage. *)
KeepCloneParent(d) == UNCHANGED data_parent

(* invalidate_clone_parent_on_write() *)
InvalidateCloneParent(d) == data_parent' = [data_parent EXCEPT ![d] = 0]

-----------------------------------------------------------------------------
(* Emitting: the trace grows only when recording and not paused. *)

Accepts == running /\ ~paused

(* What replaying one more instruction does to the memory. *)
Replayed(m, inst) ==
  IF Accepts
  THEN Stored(inst, m, Result(inst, GetOrZero(m, inst.src1), GetOrZero(m, inst.src2)))
  ELSE m

(* classify_uses(): whether an address is first read or first written. *)
Accessed(f, inst) ==
  IF ~Accepts THEN f
  ELSE [a \in Addrs |-> IF f[a] # "none" THEN f[a]
                        ELSE IF a \in Reads(inst) THEN "read"
                        ELSE IF a \in Writes(inst) THEN "write" ELSE "none"]

Emit(inst) ==
  /\ mem' = Replayed(mem, inst)
  /\ first' = Accessed(first, inst)
  /\ UNCHANGED inputs

(* The probes that emit two and four instructions. *)
Emit2(i1, i2) ==
  /\ mem' = Replayed(Replayed(mem, i1), i2)
  /\ first' = Accessed(Accessed(first, i1), i2)
  /\ UNCHANGED inputs

Emit4(i1, i2, i3, i4) ==
  /\ mem' = Replayed(Replayed(Replayed(Replayed(mem, i1), i2), i3), i4)
  /\ first' = Accessed(Accessed(Accessed(Accessed(first, i1), i2), i3), i4)
  /\ UNCHANGED inputs

-----------------------------------------------------------------------------
(* The host *)

Alive(id) == refcount[id] > 0 /\ id \notin moved

(* id has a value nothing recorded accounts for; which one no longer matters. *)
Forgets(id) ==
  /\ val' = [val EXCEPT ![id] = Zero]
  /\ known' = known \ {id}
  /\ captured' = captured \ {id}
  /\ UNCHANGED moved

(* id now holds v.  The trace reproduces it if the step reached the trace  *)
(* and everything it was computed from was reproducible.                   *)
Computes(id, v, operands) ==
  \/ /\ ShouldRecord /\ Accepts /\ operands \subseteq known
     /\ val' = [val EXCEPT ![id] = v]
     /\ known' = known \cup {id}
     /\ captured' = captured \ {id}
     /\ UNCHANGED moved
  \/ ~(ShouldRecord /\ Accepts /\ operands \subseteq known) /\ Forgets(id)

(* The clones of what id holds that the trace accounts for: made from its  *)
(* address and not written since.                                          *)
ClonesOf(id) ==
  {c \in known \ {id} : alloc.map[id] # 0 /\ data_parent[alloc.map[c]] = alloc.map[id]}

(* The host consumes the clones of an original before it changes the       *)
(* original or lets it go.                                                 *)
ClonesConsumed(id) == "clone_first" \in Rules => ClonesOf(id) = {}

(* Bound: the instance has MaxAddr addresses. *)
Fits(al) == al.next <= MaxAddr + 1

-----------------------------------------------------------------------------
(* Arithmetic probes: destination mapped first, then the sources; the      *)
(* first source resolved; the instruction; the destination's lineage cut.  *)

(* openfhe_cprobe_add, _sub, _mul *)
Binary(op, dst, src1, src2, m) ==
  LET al == MapAddress(MapAddress(MapAddress(alloc, pinned, dst), pinned, src1), pinned, src2)
      da == al.map[dst]
      s1 == ResolveInplaceSrc(al.map[src1], da)
      s2 == al.map[src2]
  IN  /\ ShouldRecord
      /\ Alive(dst) /\ Alive(src1) /\ Alive(src2)
      /\ Fits(al) /\ (Accepts => ClonesConsumed(dst))
      /\ alloc' = al
      /\ Emit(Instruction(op, da, s1, s2, 0, m))
      /\ InvalidateCloneParent(da)
      /\ Computes(dst, Result(Instruction(op, 0, 0, 0, 0, m), val[src1], val[src2]), {src1, src2})
      /\ UNCHANGED <<pinned, refcount, control>>

OneSource(op, dst, src, imm, m) ==
  LET al == MapAddress(MapAddress(alloc, pinned, dst), pinned, src)
      da == al.map[dst]
      sa == ResolveInplaceSrc(al.map[src], da)
  IN  /\ ShouldRecord
      /\ Alive(dst) /\ Alive(src)
      /\ Fits(al) /\ (Accepts => ClonesConsumed(dst))
      /\ alloc' = al
      /\ Emit(Instruction(op, da, sa, 0, imm, m))
      /\ InvalidateCloneParent(da)
      /\ Computes(dst, Result(Instruction(op, 0, 0, 0, imm, m), val[src], val[src]), {src})
      /\ UNCHANGED <<pinned, refcount, control>>

(* openfhe_cprobe_addi, _subi, _muli *)
Scalar(op, dst, src, imm, m) == OneSource(op, dst, src, imm, m)

(* openfhe_cprobe_ntt, _intt, _automorphism *)
Transform(op, dst, src, m) == OneSource(op, dst, src, 0, m)

(* Variant: the scratch address is returned without having been taken out. *)
ScratchReturnedTwice(al) ==
  IF al.pool = <<>> THEN [al EXCEPT !.next = al.next + 1, !.pool = <<al.next>>]
  ELSE [al EXCEPT !.pool = Append(@, @[Len(@)])]

(* The allocator once a scratch address was borrowed, from the pool or     *)
(* fresh, and put back: it is then the last of the pool.                   *)
ScratchReturned(al) ==
  IF al.pool = <<>> THEN [al EXCEPT !.next = al.next + 1, !.pool = <<al.next>>] ELSE al

(* openfhe_cprobe_multacceq: the product goes to a scratch address. *)
MultAccEq(dst, acc, mul, imm, m) ==
  LET al  == MapAddress(MapAddress(MapAddress(alloc, pinned, dst), pinned, acc), pinned, mul)
      da  == al.map[dst]
      sa  == ResolveInplaceSrc(al.map[acc], da)
      sm  == al.map[mul]
      al2 == ScratchReturned(al)
      tmp == al2.pool[Len(al2.pool)]
      product == Result(Instruction("mulps", 0, 0, 0, imm, m), val[mul], val[mul])
  IN  /\ ShouldRecord
      /\ Alive(dst) /\ Alive(acc) /\ Alive(mul)
      /\ Fits(al2) /\ (Accepts => ClonesConsumed(dst))
      /\ alloc' = al2
      /\ Emit2(Instruction("mulps", tmp, sm, 0, imm, m), Instruction("addp", da, sa, tmp, 0, m))
      /\ InvalidateCloneParent(da)
      /\ Computes(dst, Result(Instruction("addp", 0, 0, 0, 0, m), val[acc], product), {acc, mul})
      /\ UNCHANGED <<pinned, refcount, control>>

(* openfhe_cprobe_switchmodulus: muli 1, addi half under the old modulus,  *)
(* muli 1, addi -half under the new one, all into dst.  half and neg are 0 *)
(* where (old - 1) / 2, or its negation modulo new, is 0.                  *)
SwitchModulus(dst, src, old, new, half, neg) ==
  LET al == MapAddress(MapAddress(alloc, pinned, dst), pinned, src)
      d  == al.map[dst]
      s  == al.map[src]
      Step1(x) == Result(Instruction("mulps", 0, 0, 0, 1, old), x, x)
      Step2(x) == Result(Instruction("addps", 0, 0, 0, half, old), x, x)
      Step3(x) == Result(Instruction("mulps", 0, 0, 0, 1, new), x, x)
      Step4(x) == Result(Instruction("addps", 0, 0, 0, neg, new), x, x)
  IN  /\ ShouldRecord
      /\ half = 0 => neg = 0
      /\ Alive(dst) /\ Alive(src)
      /\ Fits(al) /\ (Accepts => ClonesConsumed(dst))
      /\ alloc' = al
      /\ Emit4(Instruction("mulps", d, s, 0, 1, old), Instruction("addps", d, d, 0, half, old),
               Instruction("mulps", d, d, 0, 1, new), Instruction("addps", d, d, 0, neg, new))
      /\ InvalidateCloneParent(d)
      /\ Computes(dst, Step4(Step3(Step2(Step1(val[src])))), {src})
      /\ UNCHANGED <<pinned, refcount, control>>

(* openfhe_cprobe_zero; m is the sentinel index 0 when OpenFHE passes none. *)
SetZero(dst, m) ==
  LET al == MapAddress(alloc, pinned, dst)
      a  == al.map[dst]
  IN  /\ ShouldRecord
      /\ Alive(dst)
      /\ Fits(al) /\ (Accepts => ClonesConsumed(dst))
      /\ alloc' = al
      /\ Emit(Instruction("mulps", a, a, 0, 0, m))
      /\ InvalidateCloneParent(a)
      /\ Computes(dst, Zero, {})
      /\ UNCHANGED <<pinned, refcount, control>>

(* Every gated probe outside recording: OpenFHE computes, nothing is kept. *)
Unrecorded(id) ==
  /\ ~ShouldRecord
  /\ Alive(id)
  /\ Forgets(id)
  /\ UNCHANGED <<probe_vars, control, trace>>

-----------------------------------------------------------------------------
(* Identity and lifecycle probes *)

(* openfhe_cprobe_id; a dead id that left no mark stands for a new one. *)
NewId(id) ==
  /\ refcount[id] = 0 /\ alloc.map[id] = 0 /\ id \notin pinned
  /\ refcount' = [refcount EXCEPT ![id] = 1]
  /\ UNCHANGED <<alloc, pinned, data_parent, control, trace, host>>

(* openfhe_cprobe_address, _result, _max, _input, _output, _key *)
Touch(id) ==
  /\ ShouldRecord
  /\ Alive(id)
  /\ alloc' = MapAddress(alloc, pinned, id)
  /\ Fits(alloc')
  /\ UNCHANGED <<pinned, refcount, data_parent, control, trace, host>>

(* openfhe_cprobe_discrete_gaussian, _uniform ...: data no trace can       *)
(* reproduce, so the id is pinned.                                         *)
Sample(id) ==
  /\ Alive(id)
  /\ pinned' = pinned \cup {id}
  /\ alloc' = IF ShouldRecord THEN MapAddress(alloc, pinned', id) ELSE alloc
  /\ Fits(alloc')
  /\ Forgets(id)
  /\ UNCHANGED <<refcount, data_parent, control, trace>>

(* openfhe_cprobe_precompute *)
Precompute(id) ==
  /\ Alive(id)
  /\ pinned' = pinned \cup {id}
  /\ Forgets(id)
  /\ UNCHANGED <<alloc, refcount, data_parent, control, trace>>

(* Variant: the copy is remembered as lineage only. *)
CopyLineageOnly(dst, src) ==
  LET al == MapAddress(MapAddress(alloc, pinned, src), pinned, dst) IN
  /\ ShouldRecord
  /\ Alive(dst) /\ Alive(src)
  /\ Fits(al) /\ (Accepts => ClonesConsumed(dst))
  /\ alloc' = al
  /\ data_parent' = [data_parent EXCEPT ![al.map[dst]] = al.map[src]]
  /\ Computes(dst, val[src], {src})
  /\ UNCHANGED <<pinned, refcount, control, trace>>

(* openfhe_cprobe_copy: the source is mapped before the destination. *)
Copy(dst, src) ==
  LET al == MapAddress(MapAddress(alloc, pinned, src), pinned, dst)
      sa == al.map[src]
      da == al.map[dst]
  IN  /\ ShouldRecord
      /\ Alive(dst) /\ Alive(src)
      /\ Fits(al) /\ (Accepts => ClonesConsumed(dst))
      /\ alloc' = al
      /\ data_parent' = [data_parent EXCEPT ![da] = sa]
      /\ Emit(Instruction("addps", da, sa, 0, 0, 0))
      /\ Computes(dst, val[src], {src})
      /\ UNCHANGED <<pinned, refcount, control>>

(* openfhe_cprobe_move: the destination takes over the source's address.   *)
(* No instruction is needed, so a pause does not matter.                   *)
Move(dst, src) ==
  LET al == MapAddress(alloc, pinned, src) IN
  /\ ShouldRecord
  /\ dst # src /\ Alive(dst) /\ Alive(src)
  /\ "pinned_stay" \in Rules => src \notin pinned
  /\ Fits(al)
  /\ alloc' = [al EXCEPT !.map[dst] = al.map[src]]
  /\ val' = [val EXCEPT ![dst] = val[src], ![src] = Zero]
  /\ known' = (known \ {dst, src}) \cup {id \in {dst} : src \in known}
  /\ captured' = (captured \ {dst, src}) \cup {id \in {dst} : src \in captured}
  /\ moved' = moved \cup {src}
  /\ UNCHANGED <<pinned, refcount, data_parent, control, trace>>

(* Variants: pins are not honoured, the lookup of the address is not       *)
(* checked.                                                                *)
FreesPinned(id, dies)   == dies /\ alloc.map[id] # 0
FreesUnmapped(id, dies) == dies /\ id \notin pinned

(* Whether losing a reference returns the id's address to the pool. *)
Frees(id, dies) == dies /\ id \notin pinned /\ alloc.map[id] # 0

(* openfhe_cprobe_reassign_id: never gated.  The last reference to an      *)
(* unpinned id returns its address to the pool and cuts its lineage.       *)
ReassignId(dst_old, src) ==
  LET gained == [refcount EXCEPT ![src] = @ + 1]
      rc     == [gained EXCEPT ![dst_old] = @ - 1]
      dies   == rc[dst_old] = 0
      a      == alloc.map[dst_old]
      frees  == Frees(dst_old, dies)
  IN  /\ Alive(dst_old) /\ Alive(src)
      /\ rc[src] <= MaxRef
      /\ frees => ClonesConsumed(dst_old)
      /\ refcount' = rc
      /\ alloc' = IF frees THEN [alloc EXCEPT !.map[dst_old] = 0, !.pool = Append(@, a)]
                  ELSE alloc
      /\ data_parent' = IF frees THEN [data_parent EXCEPT ![a] = 0] ELSE data_parent
      /\ IF dies THEN Forgets(dst_old) ELSE UNCHANGED host
      /\ UNCHANGED <<pinned, control, trace>>

-----------------------------------------------------------------------------
(* Capturing an input: save_dcrt_poly_as_input() and the tag_* paths pin   *)
(* the id, ensure an address, and store the value the host holds.  A       *)
(* replay loads it only where the trace reads the address before writing   *)
(* it.  Another value for an address the trace has already read changes    *)
(* what was read, and with it anything the trace has accessed since.       *)
Capture(id, v) ==
  LET al == MapAddress(alloc, pinned \cup {id}, id)
      a  == al.map[id]
  IN  /\ Alive(id)
      /\ Fits(al)
      /\ id \in known => v = val[id]
      /\ "recapture_same" \in Rules /\ first[a] = "read" => inputs[a] = v
      /\ "capture_first" \in Rules =>
           \/ first[a] = "none" /\ data_parent[a] = 0
           \/ id \in known
      /\ pinned' = pinned \cup {id}
      /\ alloc' = al
      /\ inputs' = [inputs EXCEPT ![a] = v]
      /\ IF first[a] = "none" THEN mem' = [mem EXCEPT ![a] = v]
         ELSE IF first[a] = "write" \/ inputs[a] = v THEN mem' = mem
         ELSE mem' \in {w \in Memories : \A b \in Addrs : first[b] = "none" => w[b] = mem[b]}
      /\ val' = [val EXCEPT ![id] = v]
      /\ known' = known \cup {id}
      /\ captured' = captured \cup {id}
      /\ UNCHANGED <<refcount, data_parent, control, first, moved>>

(* reserve_fhetch_addresses() *)
ReserveAddresses(n) ==
  /\ n <= MaxAddr
  /\ alloc' = [alloc EXCEPT !.next = IF n > @ THEN n ELSE @]
  /\ UNCHANGED <<pinned, refcount, data_parent, control, trace, host>>

-----------------------------------------------------------------------------
(* The session around the probes (src/compiler.cpp) *)

(* A new trace starts empty; a replay of it starts from the inputs. *)
NewTrace ==
  /\ "fresh_lineage" \in Rules =>
       \A id \in captured : data_parent[alloc.map[id]] = 0
  /\ mem' = inputs
  /\ first' = [a \in Addrs |-> "none"]
  /\ known' = captured
  /\ val' = [id \in Ids |-> IF id \in captured THEN val[id] ELSE Zero]
  /\ UNCHANGED <<probe_vars, inputs, suppressed, serialization, captured, moved>>

Start == ~running /\ running' = TRUE /\ paused' = FALSE /\ NewTrace

StopEpoch == running /\ paused' = FALSE /\ NewTrace /\ UNCHANGED running

Stop ==
  /\ running
  /\ running' = FALSE
  /\ paused' = FALSE
  /\ UNCHANGED <<probe_vars, trace, host, suppressed, serialization>>

(* Compiler::reset() also forgets the captured inputs. *)
Reset ==
  /\ running' = FALSE
  /\ inputs' = [a \in Addrs |-> Absent]
  /\ mem' = [a \in Addrs |-> Absent]
  /\ first' = [a \in Addrs |-> "none"]
  /\ known' = {} /\ captured' = {}
  /\ val' = [id \in Ids |-> Zero]
  /\ UNCHANGED <<probe_vars, paused, suppressed, serialization, moved>>

Pause == /\ running /\ paused' = TRUE
         /\ UNCHANGED <<probe_vars, trace, host, running, suppressed, serialization>>

Resume == /\ running /\ paused' = FALSE
          /\ UNCHANGED <<probe_vars, trace, host, running, suppressed, serialization>>

SuppressProbes(on) ==
  /\ suppressed' = on
  /\ UNCHANGED <<probe_vars, trace, host, running, paused, serialization>>

SetSerializationThread(on) ==
  /\ serialization' = on
  /\ UNCHANGED <<probe_vars, trace, host, running, paused, suppressed>>

-----------------------------------------------------------------------------
Init ==
  /\ alloc = [map |-> [id \in Ids |-> 0], next |-> 1, pool |-> <<>>]
  /\ pinned = {}
  /\ refcount = [id \in Ids |-> 0]
  /\ data_parent = [a \in Addrs |-> 0]
  /\ running = FALSE /\ paused = FALSE /\ suppressed = FALSE /\ serialization = FALSE
  /\ mem = [a \in Addrs |-> Absent]
  /\ first = [a \in Addrs |-> "none"]
  /\ inputs = [a \in Addrs |-> Absent]
  /\ val = [id \in Ids |-> Zero]
  /\ known = {} /\ captured = {} /\ moved = {}

ArithmeticNext(ops, imms) ==
  \E m \in Moduli, d, s \in Ids :
    \/ \E op \in PolyPolyOps \cap ops, s2 \in Ids : Binary(op, d, s, s2, m)
    \/ \E op \in {"addps", "subps", "mulps"} \cap ops, imm \in imms : Scalar(op, d, s, imm, m)
    \/ \E op \in {"ntt", "intt", "automorph_eval"} \cap ops : Transform(op, d, s, m)
    \/ \E s2 \in Ids, imm \in imms : MultAccEq(d, s, s2, imm, m)
    \/ \E new \in Moduli, half, neg \in imms : SwitchModulus(d, s, m, new, half, neg)

LifecycleNext ==
  \E id \in Ids :
    \/ \E m \in Moduli \cup {0} : SetZero(id, m)
    \/ \E v \in Values : Capture(id, v)
    \/ Unrecorded(id) \/ NewId(id) \/ Touch(id) \/ Sample(id) \/ Precompute(id)
    \/ \E src \in Ids : Copy(id, src) \/ Move(id, src) \/ ReassignId(id, src)

SessionNext ==
  \/ Start \/ Stop \/ StopEpoch \/ Reset \/ Pause \/ Resume
  \/ \E on \in BOOLEAN : SuppressProbes(on) \/ SetSerializationThread(on)
  \/ \E n \in Addrs : ReserveAddresses(n)

(* The steps of a host whose operations have these opcodes and immediates. *)
NextWith(ops, imms) == ArithmeticNext(ops, imms) \/ LifecycleNext \/ SessionNext

Next == NextWith(Ops, Imms)

Spec == Init /\ [][Next]_vars

-----------------------------------------------------------------------------
(* Properties *)

(* The types of the probes' state (src/probes.cpp) and of the session's. *)
TypeOK ==
  /\ alloc \in [map : [Ids -> Addrs], next : 1 .. MaxAddr + 1, pool : Seq(Addrs \ {0})]
  /\ pinned \subseteq Ids
  /\ refcount \in [Ids -> 0 .. MaxRef]
  /\ data_parent \in [Addrs -> Addrs]
  /\ running \in BOOLEAN /\ paused \in BOOLEAN
  /\ suppressed \in BOOLEAN /\ serialization \in BOOLEAN
  /\ mem \in Memories /\ inputs \in Memories
  /\ first \in [Addrs -> {"none", "read", "write"}]
  /\ val \in [Ids -> Values]
  /\ known \subseteq Ids /\ captured \subseteq Ids /\ moved \subseteq Ids

(* Replaying the trace reproduces the host: every polynomial computed from *)
(* captured inputs by recorded operations is found, when the trace is      *)
(* replayed, at the address the probes gave it.                            *)
ReplayFaithful ==
  \A id \in known : alloc.map[id] # 0 /\ mem[alloc.map[id]] = val[id]

(* Reading the clone parent instead of an in-place source is sound: the    *)
(* parent's address holds the value the clone has.                         *)
LineageSound ==
  \A id \in known :
    LET p == data_parent[alloc.map[id]] IN p # 0 => mem[p] = val[id]

(* An address has one owner: two usable ids never share one, a free one    *)
(* belongs to nobody, and none is free twice.                              *)
OneOwner ==
  /\ \A i, j \in {id \in Ids : Alive(id)} :
       i # j /\ alloc.map[i] # 0 => alloc.map[i] # alloc.map[j]
  /\ \A k \in 1 .. Len(alloc.pool) :
       /\ \A id \in Ids : Alive(id) => alloc.map[id] # alloc.pool[k]
       /\ \A l \in 1 .. Len(alloc.pool) : alloc.pool[k] = alloc.pool[l] => k = l

(* The address of a pinned polynomial, and any address an input is stored  *)
(* under, never returns to the pool.                                       *)
PinnedNeverPooled ==
  \A k \in 1 .. Len(alloc.pool) :
    /\ \A id \in pinned : alloc.map[id] # alloc.pool[k]
    /\ inputs[alloc.pool[k]] = Absent

(* An input that has not changed since it was captured is stored under the *)
(* address the next trace will read it from.                               *)
InputsStayLoadable ==
  \A id \in captured : inputs[alloc.map[id]] = val[id]
=============================================================================
