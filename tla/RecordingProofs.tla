-------------------------- MODULE RecordingProofs ---------------------------
(***************************************************************************)
(* Proofs about Recording for any threads, hosts, moduli and bounds.       *)
(***************************************************************************)
EXTENDS Recording, FiniteSetTheorems, SequenceTheorems, TLAPS

-----------------------------------------------------------------------------
(* The writer's types *)

Inst == [n : Nat, by : Threads \cup {"session"}, q : Nat, idx : Nat]
WriterType == [recording : BOOLEAN, paused : BOOLEAN, instructions : Seq(Inst), table : Seq(Nat)]
FileType == [table : Seq(Nat), instructions : Seq(Inst)]

(* The sentinel is the first entry and no modulus is registered twice. *)
TableOK(tbl) ==
  /\ tbl # <<>>
  /\ tbl[1] = CopyModulus
  /\ \A i, j \in DOMAIN tbl : tbl[i] = tbl[j] => i = j

Sorted(tbl) ==
  tbl[1] = CopyModulus /\ \A i, j \in 2 .. Len(tbl) : i < j => tbl[i] < tbl[j]

-----------------------------------------------------------------------------
(* Sorting the table *)

(* The regular moduli of a table without duplicates. *)
LEMMA ModuliFinite ==
  ASSUME NEW w \in WriterType, TableOK(w.table)
  PROVE  /\ Moduli(w) \subseteq Nat /\ CopyModulus \in Moduli(w)
         /\ IsFiniteSet(Moduli(w)) /\ Len(w.table) \in Nat \ {0}
         /\ Cardinality(Moduli(w)) = Len(w.table)
         /\ IsFiniteSet(Moduli(w) \ {CopyModulus})
         /\ Cardinality(Moduli(w) \ {CopyModulus}) = Len(w.table) - 1
<1> DEFINE n == Len(w.table)
<1>1. n \in Nat \ {0} /\ DOMAIN w.table = 1 .. n /\ \A i \in 1 .. n : w.table[i] \in Nat
  BY EmptySeq, ElementOfSeq DEF WriterType, TableOK
<1>2. Moduli(w) \subseteq Nat /\ CopyModulus \in Moduli(w)
  BY <1>1 DEF Moduli, TableOK
<1>3. w.table \in [1 .. n -> Moduli(w)]
  <2>1. w.table \in [1 .. n -> Nat]
    BY <1>1 DEF WriterType
  <2>2. QED
    BY <2>1, <1>1 DEF Moduli
<1>4. w.table \in Surjection(1 .. n, Moduli(w))
  BY <1>1, <1>3 DEF Surjection, Moduli
<1>5. w.table \in Injection(1 .. n, Moduli(w))
  BY <1>1, <1>3 DEF Injection, IsInjective, TableOK
<1>6. IsFiniteSet(1 .. n) /\ Cardinality(1 .. n) = n
  <2> HIDE DEF n
  <2>1. 1 \in Int /\ n \in Int /\ ~(1 > n) /\ n - 1 + 1 = n
    BY <1>1
  <2>2. QED
    BY <2>1, FS_Interval
<1>7. IsFiniteSet(Moduli(w)) /\ Cardinality(Moduli(w)) = n
  BY <1>4, <1>5, <1>6, FS_Surjection
<1>8. QED
  BY <1>1, <1>2, <1>7, FS_RemoveElement

(* Sorting numbers the moduli from the sentinel's 0 up, without gaps and   *)
(* in their order.                                                         *)
LEMMA SortedIndexBijection ==
  ASSUME NEW w \in WriterType, TableOK(w.table)
  PROVE  /\ SortedIndex(w, CopyModulus) = 0
         /\ \A q \in Moduli(w) : SortedIndex(w, q) \in 0 .. Len(w.table) - 1
         /\ \A p, q \in Moduli(w) : SortedIndex(w, p) = SortedIndex(w, q) => p = q
         /\ \A p, q \in Moduli(w) \ {CopyModulus} : p < q => SortedIndex(w, p) < SortedIndex(w, q)
         /\ \A i \in 0 .. Len(w.table) - 1 : \E q \in Moduli(w) : SortedIndex(w, q) = i
<1> DEFINE P == Moduli(w) \ {CopyModulus}
           n == Len(w.table)
           Below(q) == {p \in P : p <= q}
           f == [q \in P |-> Cardinality(Below(q))]
<1>1. P \subseteq Nat /\ n \in Nat \ {0} /\ IsFiniteSet(P) /\ Cardinality(P) = n - 1
  BY ModuliFinite
<1>2. CopyModulus \in Moduli(w)
  BY ModuliFinite
<1>3. SortedIndex(w, CopyModulus) = 0 /\ \A q \in P : SortedIndex(w, q) = f[q]
  BY DEF SortedIndex
<1>4. \A q \in P : IsFiniteSet(Below(q)) /\ Cardinality(Below(q)) \in 1 .. n - 1
  <2> SUFFICES ASSUME NEW q \in P PROVE IsFiniteSet(Below(q)) /\ Cardinality(Below(q)) \in 1 .. n - 1
    OBVIOUS
  <2>1. Below(q) \in SUBSET P /\ q \in Below(q)
    BY <1>1
  <2> HIDE DEF P, Below
  <2>2. IsFiniteSet(Below(q)) /\ Cardinality(Below(q)) <= n - 1
    BY <2>1, <1>1, FS_Subset
  <2>3. Cardinality(Below(q)) \in Nat /\ Cardinality(Below(q)) # 0
    BY <2>1, <2>2, FS_CardinalityType, FS_EmptySet
  <2>4. QED
    BY <2>2, <2>3, <1>1
<1>5. \A p, q \in P : p < q => f[p] < f[q]
  <2> SUFFICES ASSUME NEW p \in P, NEW q \in P, p < q PROVE f[p] < f[q]
    OBVIOUS
  <2>0. q <= q /\ ~(q <= p) /\ \A r \in P : r <= p => r <= q
    BY <1>1
  <2>1. Below(p) \in SUBSET Below(q) /\ q \in Below(q) /\ q \notin Below(p)
    <3> HIDE DEF P
    <3>1. \A r \in Below(p) : r \in Below(q)
      BY <2>0
    <3>2. QED
      BY <2>0, <3>1
  <2>2. IsFiniteSet(Below(q)) /\ Cardinality(Below(p)) \in Nat /\ Cardinality(Below(q)) \in Nat
    <3> HIDE DEF Below, P, n
    <3> QED BY <1>1, <1>4
  <2>3. f[p] = Cardinality(Below(p)) /\ f[q] = Cardinality(Below(q))
    OBVIOUS
  <2> HIDE DEF P, Below, f
  <2>4. Cardinality(Below(p)) <= Cardinality(Below(q)) /\ Cardinality(Below(q)) # Cardinality(Below(p))
    BY <2>1, <2>2, FS_Subset
  <2>5. QED
    BY <2>2, <2>3, <2>4
<1>6. f \in [P -> 1 .. n - 1]
  BY <1>4
<1>7. \A p, q \in P : f[p] = f[q] => p = q
  <2> SUFFICES ASSUME NEW p \in P, NEW q \in P, p # q PROVE f[p] # f[q]
    OBVIOUS
  <2>1. p < q \/ q < p
    BY <1>1
  <2>2. f[p] \in 1 .. n - 1 /\ f[q] \in 1 .. n - 1
    BY <1>6
  <2> HIDE DEF P, f
  <2>3. QED
    BY <2>1, <2>2, <1>5, <1>1
<1>8. f \in Injection(P, 1 .. n - 1)
  <2> HIDE DEF f
  <2> QED BY <1>6, <1>7 DEF Injection, IsInjective
<1>9. f \in Surjection(P, 1 .. n - 1)
  <2> HIDE DEF P, f, n
  <2>1. 1 \in Int /\ n - 1 \in Int /\ (1 > n - 1 => n - 1 = 0) /\ n - 1 - 1 + 1 = n - 1
    BY <1>1
  <2>2. IsFiniteSet(1 .. n - 1) /\ Cardinality(1 .. n - 1) = n - 1
    BY <2>1, FS_Interval
  <2>3. QED
    BY <1>1, <1>8, <2>2, FS_Injection
<1>10. \A i \in 1 .. n - 1 : \E q \in P : f[q] = i
  <2> HIDE DEF P, f
  <2> QED BY <1>9 DEF Surjection
<1>11. Moduli(w) = P \cup {CopyModulus}
  BY <1>2
<1> HIDE DEF P, f
<1>12. \A q \in Moduli(w) : SortedIndex(w, q) \in 0 .. n - 1
  BY <1>3, <1>6, <1>11, <1>1
<1>13. \A p, q \in Moduli(w) : SortedIndex(w, p) = SortedIndex(w, q) => p = q
  BY <1>3, <1>6, <1>7, <1>11, <1>1
<1>14. \A i \in 0 .. n - 1 : \E q \in Moduli(w) : SortedIndex(w, q) = i
  BY <1>3, <1>10, <1>11, <1>1
<1>15. \A p, q \in P : p < q => SortedIndex(w, p) < SortedIndex(w, q)
  BY <1>3, <1>5
<1>16. QED
  BY <1>3, <1>12, <1>13, <1>14, <1>15 DEF P

(* Normalising keeps the log but for its indices, sorts the table, and     *)
(* every index that named its modulus still does.                          *)
LEMMA NormalizeOK ==
  ASSUME NEW w \in WriterType, TableOK(w.table), NEW v, v = Normalize(w)
  PROVE  /\ v \in WriterType
         /\ TableOK(v.table)
         /\ Sorted(v.table)
         /\ v.recording = w.recording /\ v.paused = w.paused
         /\ Len(v.instructions) = Len(w.instructions)
         /\ DOMAIN v.instructions = DOMAIN w.instructions
         /\ \A k \in DOMAIN w.instructions :
              /\ v.instructions[k].n = w.instructions[k].n
              /\ v.instructions[k].by = w.instructions[k].by
              /\ Resolves(w.table, w.instructions[k]) => Resolves(v.table, v.instructions[k])
<1> DEFINE m == Len(w.table)
           l == Len(w.instructions)
           I(k) == IF w.instructions[k].idx + 1 \in DOMAIN w.table
                   THEN [w.instructions[k] EXCEPT !.idx = SortedIndex(w, w.table[w.instructions[k].idx + 1])]
                   ELSE w.instructions[k]
<1>1. /\ m \in Nat \ {0} /\ DOMAIN w.table = 1 .. m
      /\ \A i \in 1 .. m : w.table[i] \in Moduli(w)
      /\ Moduli(w) \subseteq Nat
      /\ CopyModulus \in Moduli(w)
  <2>1. m \in Nat \ {0} /\ Moduli(w) \subseteq Nat /\ CopyModulus \in Moduli(w)
    BY ModuliFinite
  <2>2. DOMAIN w.table = 1 .. m
    BY DEF WriterType
  <2>3. \A i \in 1 .. m : w.table[i] \in Moduli(w)
    BY <2>2 DEF Moduli
  <2>4. QED
    BY <2>1, <2>2, <2>3
<1>2. l \in Nat /\ DOMAIN w.instructions = 1 .. l /\ \A k \in 1 .. l : w.instructions[k] \in Inst
  BY ElementOfSeq DEF WriterType
<1>3. /\ v.recording = w.recording /\ v.paused = w.paused
      /\ v.table = [i \in 1 .. m |-> CHOOSE q \in Moduli(w) : SortedIndex(w, q) = i - 1]
      /\ v.instructions = [k \in 1 .. l |-> I(k)]
      /\ v = [recording |-> v.recording, paused |-> v.paused, instructions |-> v.instructions, table |-> v.table]
  <2> DEFINE T == [i \in 1 .. m |-> CHOOSE q \in Moduli(w) : SortedIndex(w, q) = i - 1]
             J == [k \in 1 .. l |-> I(k)]
  <2>1. v = [w EXCEPT !.table = T, !.instructions = J]
    BY <1>1, <1>2, Zenon DEF Normalize
  <2> HIDE DEF T, J
  <2>2. v = [recording |-> w.recording, paused |-> w.paused, instructions |-> J, table |-> T]
    BY <2>1 DEF WriterType
  <2>3. QED
    BY <2>2 DEF T, J
<1>4. \A i \in 1 .. m : v.table[i] \in Moduli(w) /\ SortedIndex(w, v.table[i]) = i - 1
  <2> SUFFICES ASSUME NEW i \in 1 .. m PROVE v.table[i] \in Moduli(w) /\ SortedIndex(w, v.table[i]) = i - 1
    OBVIOUS
  <2>1. i - 1 \in 0 .. m - 1
    BY <1>1
  <2>2. \E q \in Moduli(w) : SortedIndex(w, q) = i - 1
    BY <2>1, SortedIndexBijection
  <2>3. QED
    BY <2>2, <1>3
<1>5. v.table \in Seq(Nat) /\ Len(v.table) = m /\ DOMAIN v.table = 1 .. m
  <2>1. v.table \in [1 .. m -> Nat]
    BY <1>1, <1>3, <1>4
  <2>2. v.table \in Seq(Nat)
    BY <2>1, <1>1
  <2>3. QED
    BY <2>1, <2>2, <1>1
<1>6. TableOK(v.table)
  <2>1. SortedIndex(w, CopyModulus) = 0 /\ SortedIndex(w, v.table[1]) = 1 - 1 /\ v.table[1] \in Moduli(w)
    BY <1>1, <1>4, SortedIndexBijection
  <2>2. v.table[1] = CopyModulus
    BY <1>1, <2>1, SortedIndexBijection
  <2>3. v.table # <<>>
    BY <1>1, <1>5
  <2>4. \A i, j \in 1 .. m : v.table[i] = v.table[j] => i = j
    BY <1>1, <1>4
  <2>5. QED
    BY <2>2, <2>3, <2>4, <1>5 DEF TableOK
<1>7. Sorted(v.table)
  <2> SUFFICES ASSUME NEW i \in 2 .. m, NEW j \in 2 .. m, i < j PROVE v.table[i] < v.table[j]
    BY <1>5, <1>6 DEF Sorted, TableOK
  <2> DEFINE p == v.table[i]
             q == v.table[j]
  <2>1. /\ p \in Moduli(w) /\ SortedIndex(w, p) = i - 1 /\ q \in Moduli(w) /\ SortedIndex(w, q) = j - 1
        /\ i \in 1 .. m /\ j \in 1 .. m
    BY <1>1, <1>4
  <2> HIDE DEF p, q
  <2>2. p # CopyModulus /\ q # CopyModulus /\ p # q
    BY <2>1, SortedIndexBijection
  <2>3. q < p => SortedIndex(w, q) < SortedIndex(w, p)
    BY <2>1, <2>2, SortedIndexBijection
  <2>4. p < q
    BY <2>1, <2>2, <2>3, <1>1
  <2>5. QED
    BY <2>4 DEF p, q
<1>8. \A k \in 1 .. l : /\ v.instructions[k] \in Inst
                        /\ v.instructions[k].n = w.instructions[k].n
                        /\ v.instructions[k].by = w.instructions[k].by
                        /\ v.instructions[k].q = w.instructions[k].q
                        /\ w.instructions[k].idx + 1 \in 1 .. m =>
                             v.instructions[k].idx = SortedIndex(w, w.table[w.instructions[k].idx + 1])
  <2> SUFFICES ASSUME NEW k \in 1 .. l
               PROVE /\ I(k) \in Inst
                     /\ I(k).n = w.instructions[k].n
                     /\ I(k).by = w.instructions[k].by
                     /\ I(k).q = w.instructions[k].q
                     /\ w.instructions[k].idx + 1 \in 1 .. m =>
                          I(k).idx = SortedIndex(w, w.table[w.instructions[k].idx + 1])
    BY <1>3
  <2>1. w.instructions[k] \in Inst
    BY <1>2
  <2>2. w.instructions[k].idx + 1 \in 1 .. m => SortedIndex(w, w.table[w.instructions[k].idx + 1]) \in Nat
    BY <1>1, SortedIndexBijection
  <2>3. QED
    BY <2>1, <2>2, <1>1 DEF Inst
<1>9. v.instructions \in Seq(Inst) /\ Len(v.instructions) = l /\ DOMAIN v.instructions = 1 .. l
  <2>1. v.instructions \in [1 .. l -> Inst]
    BY <1>3, <1>8
  <2>2. v.instructions \in Seq(Inst)
    BY <2>1, <1>2
  <2>3. QED
    BY <2>1, <2>2, <1>2
<1>10. v \in WriterType
  BY <1>3, <1>5, <1>9 DEF WriterType
<1>11. \A k \in 1 .. l : Resolves(w.table, w.instructions[k]) => Resolves(v.table, v.instructions[k])
  <2> SUFFICES ASSUME NEW k \in 1 .. l, Resolves(w.table, w.instructions[k])
               PROVE  Resolves(v.table, v.instructions[k])
    OBVIOUS
  <2> DEFINE q == w.instructions[k].q
             i == v.instructions[k].idx + 1
  <2>1. q \in Moduli(w) /\ v.instructions[k].idx = SortedIndex(w, q) /\ v.instructions[k].q = q
    BY <1>1, <1>8 DEF Resolves
  <2>2. i \in 1 .. m /\ SortedIndex(w, q) = i - 1
    BY <1>1, <2>1, SortedIndexBijection
  <2>3. v.table[i] \in Moduli(w) /\ SortedIndex(w, v.table[i]) = SortedIndex(w, q)
    BY <2>2, <1>4
  <2>4. v.table[i] = q
    BY <2>1, <2>3, SortedIndexBijection
  <2>5. QED
    BY <2>1, <2>2, <2>4, <1>5 DEF Resolves
<1>12. QED
  BY <1>2, <1>3, <1>5, <1>6, <1>7, <1>8, <1>9, <1>10, <1>11

-----------------------------------------------------------------------------
(* The session's progress: what start(), stop() and stop_epoch() have left *)

Start3 == <<"clear", "running", "start_recording">>
Start2 == <<"running", "start_recording">>
Start1 == <<"start_recording">>
Stop4 == <<"halt", "stop_recording", "not_running", "write">>
Stop3 == <<"stop_recording", "not_running", "write">>
Stop2 == <<"not_running", "write">>
Stop1 == <<"write">>
Epoch5 == <<"halt", "stop_recording", "write", "clear", "start_recording">>
Epoch4 == <<"stop_recording", "write", "clear", "start_recording">>
Epoch3 == <<"write", "clear", "start_recording">>
Epoch2 == <<"clear", "start_recording">>

Open == {<<>>, Start1, Start2, Start3}
Closing == {Stop4, Stop3, Stop2, Stop1, Epoch5, Epoch4, Epoch3, Epoch2}

(* The log is not in a file yet; the log is in a file, or empty. *)
Unwritten == session \in Closing \ {Epoch2} \/ (session = <<>> /\ writer.recording)
Saved == session \in {Start3, Epoch2} \/ (session = <<>> /\ ~writer.recording)

-----------------------------------------------------------------------------
(* The inductive invariant *)

Types ==
  /\ host \in Hosts
  /\ writer \in WriterType
  /\ running \in BOOLEAN
  /\ session \in Open \cup Closing
  /\ files \in Seq(FileType)
  /\ stage \in [Threads -> {"idle", "checked", "locked", "registered"}]
  /\ op \in [Threads -> Inst]
  /\ probe_mutex \in ProbeThreads \cup {"free"}
  /\ started \in Nat
  /\ appended \subseteq Nat

(* The mutex, the tables, and the numbers of operations. *)
Mutex == /\ \A t \in ProbeThreads : stage[t] \in {"locked", "registered"} <=> probe_mutex = t
         /\ \A t \in Threads : stage[t] = "checked" => t \in ProbeThreads
Tables == TableOK(writer.table) /\ \A f \in DOMAIN files : Sorted(files[f].table)
Numbers ==
  /\ started <= host.max_ops
  /\ appended \subseteq 1 .. started
  /\ \A t \in Threads : stage[t] # "idle" => op[t].n \in (1 .. started) \ appended
  /\ \A t, u \in Threads :
       t # u /\ stage[t] # "idle" /\ stage[u] # "idle" => op[t].n # op[u].n

(* The flags as the calls leave them, step by step. *)
Flags ==
  /\ session = <<>> => (writer.recording <=> running)
  /\ session \in {Start3, Start2, Stop1} => ~running
  /\ session \in {Start1, Stop4, Stop3, Stop2, Epoch5, Epoch4, Epoch3, Epoch2} => running
  /\ session \in {Stop4, Stop3, Epoch5, Epoch4} => writer.recording
  /\ session \in {Start3, Start2, Start1, Stop2, Stop1, Epoch3, Epoch2} => ~writer.recording
  /\ session \in {Start2, Start1} => writer.instructions = <<>>

(* What the rules give: nobody records while the session is driven, and a  *)
(* trace that is being closed is not paused.                               *)
Obeyed ==
  Ruled => /\ session # <<>> => Quiet
           /\ session \in {Stop4, Stop3, Epoch5, Epoch4} => ~writer.paused

HaltFree(prog) == \A k \in DOMAIN prog : prog[k].by # "session"
HaltLast(prog) == prog # <<>> /\ \A k \in DOMAIN prog : prog[k].by = "session" <=> k = Len(prog)
Halts ==
  Ruled =>
  /\ \A t \in Threads : stage[t] # "idle" => op[t].by = t
  /\ session = <<>> /\ running => HaltFree(writer.instructions)
  /\ session \in {Stop4, Epoch5} => HaltFree(writer.instructions)
  /\ session \in {Stop3, Stop2, Stop1, Epoch4, Epoch3} => HaltLast(writer.instructions)
  /\ \A f \in DOMAIN files : HaltLast(files[f].instructions)

(* Indices name their moduli; those of operations about to be emitted too. *)
Indices ==
  Ruled =>
  /\ \A k \in DOMAIN writer.instructions : Resolves(writer.table, writer.instructions[k])
  /\ \A t \in Threads : stage[t] = "registered" => Resolves(writer.table, op[t])
  /\ \A f \in DOMAIN files : \A k \in DOMAIN files[f].instructions :
       Resolves(files[f].table, files[f].instructions[k])

(* Every accepted operation is somewhere, in one file at most; the log     *)
(* holds none that is in a file before it is written, and is in one after. *)
InFile(f, n) == Holds(files[f].instructions, n)
Kept ==
  /\ \A n \in appended : Holds(writer.instructions, n) \/ \E f \in DOMAIN files : InFile(f, n)
  /\ \A k \in DOMAIN writer.instructions : writer.instructions[k].n \in appended \cup {0}
  /\ \A f \in DOMAIN files : \A k \in DOMAIN files[f].instructions :
       files[f].instructions[k].n \in appended \cup {0}
  /\ \A f, g \in DOMAIN files : \A n \in appended : InFile(f, n) /\ InFile(g, n) => f = g
  /\ Unwritten => \A n \in appended : \A f \in DOMAIN files :
                    ~(Holds(writer.instructions, n) /\ InFile(f, n))
  /\ Saved => \A n \in appended : Holds(writer.instructions, n) => \E f \in DOMAIN files : InFile(f, n)

(* OpenFHE's bracket remembers the mode it will restore. *)
Modes == IF bracket THEN hollow_before_pause = wanted ELSE hollow = wanted

IInv == Types /\ Mutex /\ Tables /\ Numbers /\ Flags /\ Obeyed /\ Halts /\ Indices /\ Kept /\ Modes

-----------------------------------------------------------------------------
(* The writer's methods, field by field *)

LEMMA WriterRecord ==
  ASSUME NEW w \in WriterType
  PROVE  /\ w.recording \in BOOLEAN /\ w.paused \in BOOLEAN
         /\ w.instructions \in Seq(Inst) /\ w.table \in Seq(Nat)
         /\ Len(w.instructions) \in Nat /\ DOMAIN w.instructions = 1 .. Len(w.instructions)
         /\ \A k \in DOMAIN w.instructions : w.instructions[k] \in Inst
         /\ Len(w.table) \in Nat /\ DOMAIN w.table = 1 .. Len(w.table)
BY ElementOfSeq DEF WriterType

LEMMA FlagCalls ==
  ASSUME NEW w \in WriterType
  PROVE  /\ \A v \in {StartRecording(w), StopRecording(w), PauseRecording(w), ResumeRecording(w)} :
              v \in WriterType /\ v.table = w.table /\ v.instructions = w.instructions
         /\ StartRecording(w).recording /\ ~StopRecording(w).recording
         /\ PauseRecording(w).recording = w.recording /\ ResumeRecording(w).recording = w.recording
BY DEF WriterType, StartRecording, StopRecording, PauseRecording, ResumeRecording

LEMMA ClearOK ==
  ASSUME NEW w \in WriterType, NEW v, v = Clear(w)
  PROVE  /\ v \in WriterType /\ TableOK(v.table) /\ v.instructions = <<>>
         /\ v.recording = w.recording /\ v.paused = w.paused
<1>1. /\ v.table = <<CopyModulus>> /\ v.instructions = <<>> /\ v.recording = w.recording
      /\ v.paused = w.paused
      /\ v = [recording |-> v.recording, paused |-> v.paused, instructions |-> v.instructions, table |-> v.table]
  BY DEF Clear, WriterType
<1>2. <<CopyModulus>> \in Seq(Nat) /\ TableOK(<<CopyModulus>>)
  BY CopyModulusAssumption DEF TableOK
<1>3. <<>> \in Seq(Inst)
  OBVIOUS
<1>4. QED
  BY <1>1, <1>2, <1>3 DEF WriterType

(* emit() appends to the log of a writer that accepts, and does nothing    *)
(* otherwise.                                                              *)
LEMMA EmitOK ==
  ASSUME NEW w \in WriterType, NEW inst \in Inst, NEW v, v = Emit(w, inst)
  PROVE  /\ v \in WriterType /\ v.table = w.table
         /\ v.recording = w.recording /\ v.paused = w.paused
         /\ ~Accepts(w) => v.instructions = w.instructions
         /\ Accepts(w) => /\ Len(v.instructions) = Len(w.instructions) + 1
                          /\ DOMAIN v.instructions = DOMAIN w.instructions \cup {Len(w.instructions) + 1}
                          /\ v.instructions[Len(w.instructions) + 1] = inst
                          /\ \A k \in DOMAIN w.instructions : v.instructions[k] = w.instructions[k]
<1>1. CASE ~Accepts(w)
  BY <1>1 DEF Emit
<1>2. CASE Accepts(w)
  <2> DEFINE s == w.instructions
             l == Len(s)
  <2>1. s \in Seq(Inst) /\ l \in Nat /\ DOMAIN s = 1 .. l
    BY WriterRecord
  <2>2. /\ v.table = w.table /\ v.instructions = Append(s, inst)
        /\ v.recording = w.recording /\ v.paused = w.paused
        /\ v = [recording |-> v.recording, paused |-> v.paused, instructions |-> v.instructions, table |-> v.table]
    BY <1>2 DEF Emit, WriterType
  <2>3. /\ Append(s, inst) \in Seq(Inst) /\ Len(Append(s, inst)) = l + 1
        /\ Append(s, inst)[l + 1] = inst /\ \A k \in 1 .. l : Append(s, inst)[k] = s[k]
    BY <2>1, AppendProperties
  <2>4. DOMAIN Append(s, inst) = 1 .. l + 1 /\ 1 .. l + 1 = (1 .. l) \cup {l + 1}
    BY <2>1, <2>3
  <2>5. v \in WriterType
    BY <2>2, <2>3 DEF WriterType
  <2> HIDE DEF s
  <2>6. QED
    BY <1>2, <2>1, <2>2, <2>3, <2>4, <2>5 DEF s
<1>3. QED
  BY <1>1, <1>2

(* register_modulus() keeps the entries there are, and the index it gives  *)
(* names the modulus.                                                      *)
LEMMA RegisterOK ==
  ASSUME NEW w \in WriterType, TableOK(w.table), NEW q \in Nat, NEW v, v = RegisterModulus(w, q)
  PROVE  /\ v \in WriterType /\ TableOK(v.table) /\ v.instructions = w.instructions
         /\ v.recording = w.recording /\ v.paused = w.paused
         /\ \A i \in DOMAIN w.table : i \in DOMAIN v.table /\ v.table[i] = w.table[i]
         /\ IndexOf(v, q) \in Nat
         /\ IndexOf(v, q) + 1 \in DOMAIN v.table /\ v.table[IndexOf(v, q) + 1] = q
<1> DEFINE s == w.table
           l == Len(s)
<1>1. s \in Seq(Nat) /\ l \in Nat /\ DOMAIN s = 1 .. l
  BY WriterRecord
<1>2. /\ v \in WriterType /\ TableOK(v.table) /\ v.instructions = w.instructions
      /\ v.recording = w.recording /\ v.paused = w.paused
      /\ \A i \in DOMAIN s : i \in DOMAIN v.table /\ v.table[i] = s[i]
      /\ q \in Moduli(v)
  <2>1. CASE q \in Moduli(w)
    BY <2>1 DEF RegisterModulus
  <2>2. CASE q \notin Moduli(w)
    <3>1. /\ v.table = Append(s, q) /\ v.instructions = w.instructions
          /\ v.recording = w.recording /\ v.paused = w.paused
          /\ v = [recording |-> v.recording, paused |-> v.paused, instructions |-> v.instructions, table |-> v.table]
      BY <2>2 DEF RegisterModulus, WriterType
    <3>2. /\ Append(s, q) \in Seq(Nat) /\ Len(Append(s, q)) = l + 1
          /\ Append(s, q)[l + 1] = q /\ \A k \in 1 .. l : Append(s, q)[k] = s[k]
      BY <1>1, AppendProperties
    <3>3. DOMAIN Append(s, q) = (1 .. l) \cup {l + 1}
      BY <1>1, <3>2
    <3>4. v \in WriterType
      BY <3>1, <3>2 DEF WriterType
    <3>5. q \in Moduli(v)
      BY <3>1, <3>2, <3>3 DEF Moduli
    <3>6. s # <<>> /\ s[1] = CopyModulus /\ (\A i, j \in 1 .. l : s[i] = s[j] => i = j) /\ 1 \in 1 .. l
      <4>1. s # <<>> /\ s[1] = CopyModulus /\ \A i, j \in 1 .. l : s[i] = s[j] => i = j
        BY <1>1 DEF TableOK
      <4>2. l # 0
        BY <4>1, <1>1, EmptySeq
      <4>3. QED
        BY <4>1, <4>2, <1>1
    <3>7. \A i \in 1 .. l : s[i] # q
      BY <1>1, <2>2 DEF Moduli
    <3> HIDE DEF s
    <3>8. TableOK(Append(s, q))
      <4>1. Append(s, q)[1] = CopyModulus /\ Append(s, q) # <<>>
        BY <3>2, <3>6
      <4>2. \A i, j \in (1 .. l) \cup {l + 1} : Append(s, q)[i] = Append(s, q)[j] => i = j
        BY <3>2, <3>6, <3>7
      <4>3. QED
        BY <4>1, <4>2, <3>3 DEF TableOK
    <3>9. QED
      BY <1>1, <3>1, <3>2, <3>3, <3>4, <3>5, <3>8
  <2>3. QED
    BY <2>1, <2>2
<1>3. PICK i \in DOMAIN v.table : v.table[i] = q
  BY <1>2 DEF Moduli
<1> DEFINE c == CHOOSE k \in DOMAIN v.table : v.table[k] = q
<1>4. IndexOf(v, q) = c - 1 /\ c \in DOMAIN v.table /\ v.table[c] = q
  BY <1>3 DEF IndexOf
<1> HIDE DEF c
<1>5. DOMAIN v.table = 1 .. Len(v.table) /\ Len(v.table) \in Nat
  BY <1>2, WriterRecord
<1>6. IndexOf(v, q) \in Nat /\ IndexOf(v, q) + 1 = c
  BY <1>4, <1>5
<1>7. QED
  BY <1>2, <1>4, <1>6

-----------------------------------------------------------------------------
(* The session's calls, one writer call at a time *)

(* Length and first step tell the stages apart. *)
LEMMA Stages ==
  /\ Len(Start3) = 3 /\ Start3[1] = "clear" /\ Tail(Start3) = Start2
  /\ Len(Start2) = 2 /\ Start2[1] = "running" /\ Tail(Start2) = Start1
  /\ Len(Start1) = 1 /\ Start1[1] = "start_recording" /\ Tail(Start1) = <<>>
  /\ Len(Stop4) = 4 /\ Stop4[1] = "halt" /\ Tail(Stop4) = Stop3
  /\ Len(Stop3) = 3 /\ Stop3[1] = "stop_recording" /\ Tail(Stop3) = Stop2
  /\ Len(Stop2) = 2 /\ Stop2[1] = "not_running" /\ Tail(Stop2) = Stop1
  /\ Len(Stop1) = 1 /\ Stop1[1] = "write" /\ Tail(Stop1) = <<>>
  /\ Len(Epoch5) = 5 /\ Epoch5[1] = "halt" /\ Tail(Epoch5) = Epoch4
  /\ Len(Epoch4) = 4 /\ Epoch4[1] = "stop_recording" /\ Tail(Epoch4) = Epoch3
  /\ Len(Epoch3) = 3 /\ Epoch3[1] = "write" /\ Tail(Epoch3) = Epoch2
  /\ Len(Epoch2) = 2 /\ Epoch2[1] = "clear" /\ Tail(Epoch2) = Start1
BY DEF Start3, Start2, Start1, Stop4, Stop3, Stop2, Stop1, Epoch5, Epoch4, Epoch3, Epoch2

LEMMA Idle == \A c \in Closing \cup {Start3, Start2, Start1} : c # <<>>
BY DEF Closing, Start3, Start2, Start1, Stop4, Stop3, Stop2, Stop1, Epoch5, Epoch4, Epoch3, Epoch2

LEMMA Advance ==
  ASSUME session \in Open \cup Closing
  PROVE  /\ Does("clear") => \/ session = Start3 /\ session' = Start2
                             \/ session = Epoch2 /\ session' = Start1
         /\ Does("running") => session = Start2 /\ session' = Start1
         /\ Does("not_running") => session = Stop2 /\ session' = Stop1
         /\ Does("start_recording") => session = Start1 /\ session' = <<>>
         /\ Does("stop_recording") => \/ session = Stop3 /\ session' = Stop2
                                      \/ session = Epoch4 /\ session' = Epoch3
         /\ Does("halt") => \/ session = Stop4 /\ session' = Stop3
                            \/ session = Epoch5 /\ session' = Epoch4
         /\ Does("write") => \/ session = Stop1 /\ session' = <<>>
                             \/ session = Epoch3 /\ session' = Epoch2
BY Stages DEF Does, Open, Closing

-----------------------------------------------------------------------------
(* Recording threads *)

LEMMA BeginStep ==
  ASSUME IInv, NEW t \in Threads, NEW q \in host.primes \cup {CopyModulus}, Begin(t, q)
  PROVE  IInv'
<1>1. /\ Types /\ Mutex /\ Tables /\ Numbers /\ Flags /\ Obeyed /\ Halts /\ Indices /\ Kept /\ Modes
  BY DEF IInv
<1>2. /\ UNCHANGED <<writer, host, running, session, files, probe_mutex, appended>>
      /\ UNCHANGED <<hollow, hollow_before_pause, bracket, wanted>>
  BY DEF Begin, session_vars, hollow_vars
<1> DEFINE s == IF t \in ProbeThreads THEN "checked" ELSE "locked"
           o == [n |-> started + 1, by |-> t, q |-> q, idx |-> 0]
<1>3. /\ stage[t] = "idle" /\ started < host.max_ops
      /\ started' = started + 1
      /\ stage' = [stage EXCEPT ![t] = s]
      /\ op' = [op EXCEPT ![t] = o]
      /\ "quiescent" \in host.rules => session = <<>>
  BY DEF Begin
<1>4. host.max_ops \in Nat /\ started \in Nat
  BY <1>1, BoundsAssumption DEF Types
<1>5. o \in Inst
  <2>1. q \in Nat
    BY <1>1, PrimesAssumption, CopyModulusAssumption DEF Types
  <2>2. QED
    BY <2>1, <1>4 DEF Inst
<1>6. /\ stage'[t] = s /\ op'[t] = o
      /\ \A u \in Threads : u # t => stage'[u] = stage[u] /\ op'[u] = op[u]
  BY <1>1, <1>3 DEF Types
<1>7. Types'
  BY <1>1, <1>2, <1>3, <1>4, <1>5 DEF Types
<1>8. Mutex'
  BY <1>1, <1>2, <1>3, <1>6 DEF Mutex, Threads
<1>9. Numbers'
  <2>1. o.n = started + 1
    OBVIOUS
  <2> HIDE DEF o
  <2>2. QED
    BY <1>1, <1>2, <1>3, <1>4, <1>6, <2>1 DEF Numbers
<1>10. Obeyed'
  BY <1>1, <1>2, <1>3 DEF Obeyed, Ruled
<1>11. Halts'
  <2>1. o.by = t
    OBVIOUS
  <2> HIDE DEF o
  <2>2. QED
    BY <1>1, <1>2, <1>3, <1>6, <2>1 DEF Halts, Ruled, HaltFree, HaltLast
<1>12. Indices'
  <2>1. stage'[t] # "registered"
    BY <1>6
  <2>2. QED
    BY <1>1, <1>2, <1>6, <2>1 DEF Indices, Ruled, Resolves
<1>13. (Tables /\ Flags /\ Kept /\ Modes)'
  BY <1>1, <1>2 DEF Tables, TableOK, Sorted, Flags, Kept, InFile, Holds, Unwritten, Saved, Modes
<1>14. QED
  BY <1>7, <1>8, <1>9, <1>10, <1>11, <1>12, <1>13 DEF IInv

LEMMA LockStep ==
  ASSUME IInv, NEW t \in Threads, Lock(t)
  PROVE  IInv'
<1>1. /\ Types /\ Mutex /\ Tables /\ Numbers /\ Flags /\ Obeyed /\ Halts /\ Indices /\ Kept /\ Modes
  BY DEF IInv
<1>2. /\ UNCHANGED <<writer, host, running, session, files, op, started, appended>>
      /\ UNCHANGED <<hollow, hollow_before_pause, bracket, wanted>>
  BY DEF Lock, session_vars, hollow_vars
<1>3. /\ stage[t] = "checked" /\ probe_mutex = "free" /\ probe_mutex' = t
      /\ stage' = [stage EXCEPT ![t] = "locked"]
  BY DEF Lock
<1>4. stage'[t] = "locked" /\ \A u \in Threads : u # t => stage'[u] = stage[u]
  BY <1>1, <1>3 DEF Types
<1>5. t \in ProbeThreads
  BY <1>1, <1>3 DEF Mutex
<1>6. Types'
  BY <1>1, <1>2, <1>3, <1>5 DEF Types
<1>7. Mutex'
  BY <1>1, <1>3, <1>4, <1>5, ThreadsAssumption DEF Mutex, Threads
<1>8. Numbers'
  BY <1>1, <1>2, <1>3, <1>4 DEF Numbers
<1>9. Obeyed'
  BY <1>1, <1>2, <1>3, <1>4 DEF Obeyed, Ruled, Quiet
<1>10. Halts'
  BY <1>1, <1>2, <1>3, <1>4 DEF Halts, Ruled, HaltFree, HaltLast
<1>11. Indices'
  BY <1>1, <1>2, <1>4 DEF Indices, Ruled, Resolves
<1>12. (Tables /\ Flags /\ Kept /\ Modes)'
  BY <1>1, <1>2 DEF Tables, TableOK, Sorted, Flags, Kept, InFile, Holds, Unwritten, Saved, Modes
<1>13. QED
  BY <1>6, <1>7, <1>8, <1>9, <1>10, <1>11, <1>12 DEF IInv

LEMMA RegisterStep ==
  ASSUME IInv, NEW t \in Threads, Register(t)
  PROVE  IInv'
<1>1. /\ Types /\ Mutex /\ Tables /\ Numbers /\ Flags /\ Obeyed /\ Halts /\ Indices /\ Kept /\ Modes
  BY DEF IInv
<1>2. /\ UNCHANGED <<host, running, session, files, probe_mutex, started, appended>>
      /\ UNCHANGED <<hollow, hollow_before_pause, bracket, wanted>>
  BY DEF Register, session_vars, hollow_vars
<1> DEFINE q == op[t].q
           i == IF q = CopyModulus THEN 0 ELSE IndexOf(writer', q)
<1>3. /\ stage[t] = "locked"
      /\ writer' = IF q = CopyModulus THEN writer ELSE RegisterModulus(writer, q)
      /\ op' = [op EXCEPT ![t].idx = i]
      /\ stage' = [stage EXCEPT ![t] = "registered"]
  BY DEF Register
<1>4. writer \in WriterType /\ TableOK(writer.table) /\ op[t] \in Inst /\ q \in Nat
  BY <1>1 DEF Types, Tables, Inst
<1>5. /\ writer' \in WriterType /\ TableOK(writer'.table)
      /\ writer'.instructions = writer.instructions
      /\ writer'.recording = writer.recording /\ writer'.paused = writer.paused
      /\ \A k \in DOMAIN writer.table : k \in DOMAIN writer'.table /\ writer'.table[k] = writer.table[k]
      /\ i \in Nat /\ i + 1 \in DOMAIN writer'.table /\ writer'.table[i + 1] = q
  <2> HIDE DEF q
  <2>1. CASE q # CopyModulus
    BY <2>1, <1>3, <1>4, RegisterOK
  <2>2. CASE q = CopyModulus
    <3>1. writer' = writer /\ i = 0
      BY <2>2, <1>3
    <3>2. Len(writer.table) \in Nat /\ DOMAIN writer.table = 1 .. Len(writer.table) /\ writer.table \in Seq(Nat)
      BY <1>4, WriterRecord
    <3>3. 1 \in DOMAIN writer.table
      BY <3>2, <1>4, EmptySeq DEF TableOK
    <3>4. QED
      BY <2>2, <1>4, <3>1, <3>3 DEF TableOK
  <2>3. QED
    BY <2>1, <2>2
<1> HIDE DEF i
<1>6. /\ stage'[t] = "registered"
      /\ op'[t] \in Inst /\ op'[t].n = op[t].n /\ op'[t].by = op[t].by
      /\ op'[t].q = q /\ op'[t].idx = i
      /\ op' \in [Threads -> Inst]
      /\ \A u \in Threads : u # t => stage'[u] = stage[u] /\ op'[u] = op[u]
  BY <1>1, <1>3, <1>4, <1>5 DEF Types, Inst
<1>7. Types'
  BY <1>1, <1>2, <1>3, <1>5, <1>6 DEF Types
<1>8. Mutex'
  BY <1>1, <1>2, <1>3, <1>6 DEF Mutex, Threads
<1>9. Numbers'
  BY <1>1, <1>2, <1>3, <1>6 DEF Numbers
<1>10. Obeyed'
  BY <1>1, <1>2, <1>3, <1>5, <1>6 DEF Obeyed, Ruled, Quiet
<1>11. Halts'
  BY <1>1, <1>2, <1>3, <1>5, <1>6 DEF Halts, Ruled, HaltFree, HaltLast
<1>12. Indices'
  <2> SUFFICES ASSUME Ruled' PROVE Indices'
    BY DEF Indices
  <2>1. Ruled
    BY <1>2 DEF Ruled
  <2>2. \A inst : Resolves(writer.table, inst) => Resolves(writer'.table, inst)
    BY <1>5 DEF Resolves
  <2>3. Resolves(writer'.table, op'[t])
    BY <1>5, <1>6 DEF Resolves
  <2>4. \A k \in DOMAIN writer'.instructions : Resolves(writer'.table, writer'.instructions[k])
    BY <1>1, <1>5, <2>1, <2>2 DEF Indices
  <2>5. \A u \in Threads : stage'[u] = "registered" => Resolves(writer'.table, op'[u])
    BY <1>1, <1>6, <2>1, <2>2, <2>3 DEF Indices
  <2>6. QED
    BY <1>1, <1>2, <2>1, <2>4, <2>5 DEF Indices, Resolves
<1>13. (Tables /\ Flags /\ Modes)'
  BY <1>1, <1>2, <1>5 DEF Tables, Sorted, Flags, Modes
<1>14. Kept'
  BY <1>1, <1>2, <1>5 DEF Kept, InFile, Holds, Unwritten, Saved
<1>15. QED
  BY <1>7, <1>8, <1>9, <1>10, <1>11, <1>12, <1>13, <1>14 DEF IInv

LEMMA EmitOpStep ==
  ASSUME IInv, NEW t \in Threads, EmitOp(t)
  PROVE  IInv'
<1>1. /\ Types /\ Mutex /\ Tables /\ Numbers /\ Flags /\ Obeyed /\ Halts /\ Indices /\ Kept /\ Modes
  BY DEF IInv
<1>2. /\ UNCHANGED <<host, running, session, files, op, started>>
      /\ UNCHANGED <<hollow, hollow_before_pause, bracket, wanted>>
  BY DEF EmitOp, session_vars, hollow_vars
<1>3. /\ stage[t] = "registered"
      /\ writer' = Emit(writer, op[t])
      /\ appended' = IF Accepts(writer) THEN appended \cup {op[t].n} ELSE appended
      /\ probe_mutex' = IF probe_mutex = t THEN "free" ELSE probe_mutex
      /\ stage' = [stage EXCEPT ![t] = "idle"]
  BY DEF EmitOp
<1>4. writer \in WriterType /\ op[t] \in Inst /\ op[t].n \in Nat
  BY <1>1 DEF Types, Inst
<1> DEFINE l == Len(writer.instructions)
<1>5. /\ writer' \in WriterType /\ writer'.table = writer.table
      /\ writer'.recording = writer.recording /\ writer'.paused = writer.paused
      /\ ~Accepts(writer) => writer'.instructions = writer.instructions
      /\ Accepts(writer) => /\ Len(writer'.instructions) = l + 1
                            /\ DOMAIN writer'.instructions = DOMAIN writer.instructions \cup {l + 1}
                            /\ writer'.instructions[l + 1] = op[t]
                            /\ \A k \in DOMAIN writer.instructions :
                                 writer'.instructions[k] = writer.instructions[k]
  BY <1>3, <1>4, EmitOK
<1> HIDE DEF l
<1>6. stage'[t] = "idle" /\ \A u \in Threads : u # t => stage'[u] = stage[u]
  BY <1>1, <1>3 DEF Types
<1>7. op[t].n \in 1 .. started /\ op[t].n \notin appended
  BY <1>1, <1>3 DEF Numbers
<1>8. Accepts(writer) => writer.recording
  BY DEF Accepts
<1>9. Types'
  BY <1>1, <1>2, <1>3, <1>4, <1>5 DEF Types
<1>10. Mutex'
  BY <1>1, <1>3, <1>6, ThreadsAssumption DEF Mutex, Threads
<1>11. Numbers'
  BY <1>1, <1>2, <1>3, <1>6, <1>7 DEF Numbers
<1>12. Flags'
  BY <1>1, <1>2, <1>5, <1>8 DEF Flags
<1>13. Obeyed'
  BY <1>1, <1>2, <1>5, <1>6 DEF Obeyed, Ruled, Quiet
<1>14. Halts'
  <2> SUFFICES ASSUME Ruled' PROVE Halts'
    BY DEF Halts
  <2>1. Ruled /\ session = <<>> /\ session' = <<>>
    BY <1>1, <1>2, <1>3 DEF Ruled, Obeyed, Quiet
  <2>2. op[t].by # "session"
    BY <1>1, <1>3, <2>1, ThreadsAssumption DEF Halts
  <2>3. running' => HaltFree(writer'.instructions)
    BY <1>1, <1>2, <1>5, <2>1, <2>2 DEF Halts, HaltFree
  <2>4. session' \notin {Stop4, Epoch5} /\ session' \notin {Stop3, Stop2, Stop1, Epoch4, Epoch3}
    BY <2>1, Idle DEF Closing
  <2>5. QED
    BY <1>1, <1>2, <1>6, <2>1, <2>3, <2>4 DEF Halts, HaltLast
<1>15. Indices'
  <2> SUFFICES ASSUME Ruled' PROVE Indices'
    BY DEF Indices
  <2>1. Ruled
    BY <1>2 DEF Ruled
  <2>2. Resolves(writer.table, op[t])
    BY <1>1, <1>3, <2>1 DEF Indices
  <2>3. \A k \in DOMAIN writer'.instructions : Resolves(writer'.table, writer'.instructions[k])
    BY <1>1, <1>5, <2>1, <2>2 DEF Indices
  <2>4. QED
    BY <1>1, <1>2, <1>5, <1>6, <2>1, <2>3 DEF Indices, Resolves
<1>16. Kept'
  <2>1. CASE ~Accepts(writer)
    BY <1>1, <1>2, <1>3, <1>5, <2>1 DEF Kept, InFile, Holds, Unwritten, Saved
  <2>2. CASE Accepts(writer)
    <3> DEFINE m == op[t].n
    <3>1. /\ appended' = appended \cup {m} /\ m \notin appended /\ m # 0
          /\ \A n : Holds(writer'.instructions, n) <=> Holds(writer.instructions, n) \/ n = m
      <4>1. m \in Nat /\ m # 0
        BY <1>1, <1>4, <1>7 DEF Types
      <4>2. QED
        BY <1>3, <1>5, <1>7, <2>2, <4>1 DEF Holds
    <3>2. \A f \in DOMAIN files : ~InFile(f, m)
      BY <1>1, <3>1 DEF Kept, InFile, Holds
    <3>3. files' = files /\ \A f, n : InFile(f, n)' <=> InFile(f, n)
      BY <1>2 DEF InFile
    <3>4. (Unwritten' <=> Unwritten) /\ ~Saved'
      BY <1>1, <1>2, <1>5, <1>8, <2>2, Stages DEF Unwritten, Saved, Flags
    <3>5. \A k \in DOMAIN writer'.instructions : writer'.instructions[k].n \in appended' \cup {0}
      BY <1>1, <1>5, <2>2, <3>1 DEF Kept
    <3> HIDE DEF m
    <3>6. \A n \in appended' : Holds(writer'.instructions, n) \/ \E f \in DOMAIN files' : InFile(f, n)'
      BY <1>1, <3>1, <3>3 DEF Kept
    <3>7. \A f \in DOMAIN files' : \A k \in DOMAIN files'[f].instructions :
            files'[f].instructions[k].n \in appended' \cup {0}
      BY <1>1, <3>1, <3>3 DEF Kept
    <3>8. \A f, g \in DOMAIN files' : \A n \in appended' : InFile(f, n)' /\ InFile(g, n)' => f = g
      BY <1>1, <3>1, <3>2, <3>3 DEF Kept
    <3>9. Unwritten' => \A n \in appended' : \A f \in DOMAIN files' :
                    ~(Holds(writer'.instructions, n) /\ InFile(f, n)')
      BY <1>1, <3>1, <3>2, <3>3, <3>4 DEF Kept
    <3>10. QED
      BY <3>4, <3>5, <3>6, <3>7, <3>8, <3>9 DEF Kept
  <2>3. QED
    BY <2>1, <2>2
<1>17. (Tables /\ Modes)'
  BY <1>1, <1>2, <1>5 DEF Tables, Sorted, Modes
<1>18. QED
  BY <1>9, <1>10, <1>11, <1>12, <1>13, <1>14, <1>15, <1>16, <1>17 DEF IInv

-----------------------------------------------------------------------------
(* The session *)

(* No two stages of a call are the same. *)
LEMMA Apart ==
  /\ Start3 \notin {Start2, Start1, Stop4, Stop3, Stop2, Stop1, Epoch5, Epoch4, Epoch3, Epoch2}
  /\ Start2 \notin {Start1, Stop4, Stop3, Stop2, Stop1, Epoch5, Epoch4, Epoch3, Epoch2}
  /\ Start1 \notin {Stop4, Stop3, Stop2, Stop1, Epoch5, Epoch4, Epoch3, Epoch2}
  /\ Stop4 \notin {Stop3, Stop2, Stop1, Epoch5, Epoch4, Epoch3, Epoch2}
  /\ Stop3 \notin {Stop2, Stop1, Epoch5, Epoch4, Epoch3, Epoch2}
  /\ Stop2 \notin {Stop1, Epoch5, Epoch4, Epoch3, Epoch2}
  /\ Stop1 \notin {Epoch5, Epoch4, Epoch3, Epoch2}
  /\ Epoch5 \notin {Epoch4, Epoch3, Epoch2}
  /\ Epoch4 \notin {Epoch3, Epoch2}
  /\ Epoch3 \notin {Epoch2}
<1>1. Start3 \notin {Start2, Start1, Stop4, Stop3, Stop2, Stop1, Epoch5, Epoch4, Epoch3, Epoch2}
  BY Stages
<1>2. Start2 \notin {Start1, Stop4, Stop3, Stop2, Stop1, Epoch5, Epoch4, Epoch3, Epoch2}
  BY Stages
<1>3. Start1 \notin {Stop4, Stop3, Stop2, Stop1, Epoch5, Epoch4, Epoch3, Epoch2}
  BY Stages
<1>4. Stop4 \notin {Stop3, Stop2, Stop1, Epoch5, Epoch4, Epoch3, Epoch2}
  BY Stages
<1>5. Stop3 \notin {Stop2, Stop1, Epoch5, Epoch4, Epoch3, Epoch2}
  BY Stages
<1>6. Stop2 \notin {Stop1, Epoch5, Epoch4, Epoch3, Epoch2}
  BY Stages
<1>7. Stop1 \notin {Epoch5, Epoch4, Epoch3, Epoch2}
  BY Stages
<1>8. Epoch5 \notin {Epoch4, Epoch3, Epoch2}
  BY Stages
<1>9. Epoch4 \notin {Epoch3, Epoch2}
  BY Stages
<1>10. Epoch3 \notin {Epoch2}
  BY Stages
<1>11. QED
  BY <1>1, <1>2, <1>3, <1>4, <1>5, <1>6, <1>7, <1>8, <1>9, <1>10

(* The session's steps leave the threads, the mutex and the hollow mode.   *)
LEMMA ThreadsKept ==
  ASSUME IInv, UNCHANGED <<host, thread_vars, hollow_vars>>
  PROVE  /\ (Mutex /\ Numbers /\ Modes)'
         /\ stage' = stage /\ op' = op /\ appended' = appended /\ (Ruled' <=> Ruled)
         /\ Types => /\ (host \in Hosts)' /\ (op \in [Threads -> Inst])'
                     /\ (stage \in [Threads -> {"idle", "checked", "locked", "registered"}])'
                     /\ (probe_mutex \in ProbeThreads \cup {"free"})'
                     /\ (started \in Nat)' /\ (appended \subseteq Nat)'
BY DEF IInv, Types, Mutex, Numbers, Modes, thread_vars, hollow_vars, Ruled

LEMMA CallStep ==
  ASSUME IInv, Start \/ Stop \/ StopEpoch
  PROVE  IInv'
<1>1. /\ Types /\ Mutex /\ Tables /\ Numbers /\ Flags /\ Obeyed /\ Halts /\ Indices /\ Kept /\ Modes
  BY DEF IInv
<1>2. /\ UNCHANGED <<host, writer, running, files>> /\ UNCHANGED <<host, thread_vars, hollow_vars>>
      /\ session = <<>> /\ (Ruled => Quiet)
      /\ \/ ~running /\ session' = Start3
         \/ running /\ (Ruled => ~writer.paused) /\ session' \in {Stop4, Epoch5}
  BY DEF Start, Stop, StopEpoch, Call, MayDrive, MayClose, Ruled, Start3, Stop4, Epoch5
<1>3. /\ (Mutex /\ Numbers /\ Modes)'
      /\ stage' = stage /\ op' = op /\ appended' = appended /\ (Ruled' <=> Ruled)
  BY <1>2, ThreadsKept
<1>4. writer.recording <=> running
  BY <1>1, <1>2 DEF Flags
<1>5. Types'
  BY <1>1, <1>2, ThreadsKept DEF Types, Open, Closing
<1>6. Flags'
  BY <1>2, <1>4, Apart, Idle DEF Flags, Closing
<1>7. Obeyed'
  BY <1>2, <1>3, Apart DEF Obeyed, Quiet
<1>8. Halts'
  BY <1>1, <1>2, <1>3, Apart, Idle DEF Halts, HaltFree, HaltLast, Closing
<1>9. Kept'
  <2>1. (Unwritten' => Unwritten) /\ (Saved' => Saved)
    BY <1>2, <1>4, Apart, Idle DEF Unwritten, Saved, Closing
  <2>2. QED
    BY <1>1, <1>2, <1>3, <2>1 DEF Kept, InFile, Holds
<1>10. (Tables /\ Indices)'
  BY <1>1, <1>2, <1>3 DEF Tables, TableOK, Sorted, Indices, Resolves
<1>11. QED
  BY <1>3, <1>5, <1>6, <1>7, <1>8, <1>9, <1>10 DEF IInv

(* clear(): the log it drops is in a file, or was empty. *)
LEMMA ClearStep ==
  ASSUME IInv, Does("clear"), writer' = Clear(writer), UNCHANGED <<running, files>>,
         UNCHANGED <<host, thread_vars, hollow_vars>>
  PROVE  IInv'
<1>1. /\ Types /\ Mutex /\ Tables /\ Numbers /\ Flags /\ Obeyed /\ Halts /\ Indices /\ Kept /\ Modes
  BY DEF IInv
<1>2. \/ session = Start3 /\ session' = Start2
      \/ session = Epoch2 /\ session' = Start1
  BY <1>1, Advance DEF Types
<1>3. /\ (Mutex /\ Numbers /\ Modes)'
      /\ stage' = stage /\ op' = op /\ appended' = appended /\ (Ruled' <=> Ruled)
  BY ThreadsKept
<1>4. /\ writer' \in WriterType /\ TableOK(writer'.table) /\ writer'.instructions = <<>>
      /\ writer'.recording = writer.recording
  BY <1>1, ClearOK DEF Types
<1>5. Types'
  BY <1>1, <1>2, <1>4, ThreadsKept DEF Types, Open, Closing
<1>6. Flags'
  BY <1>1, <1>2, <1>4, Apart, Idle DEF Flags, Closing
<1>7. Obeyed'
  BY <1>1, <1>2, <1>3, Apart, Idle DEF Obeyed, Quiet, Closing
<1>8. Halts'
  BY <1>1, <1>2, <1>3, Apart, Idle DEF Halts, HaltLast, Closing
<1>9. Indices'
  <2> SUFFICES ASSUME Ruled' PROVE Indices'
    BY DEF Indices
  <2>1. Ruled /\ Quiet
    BY <1>1, <1>2, <1>3, Idle DEF Obeyed, Closing
  <2>2. \A t \in Threads : stage'[t] # "registered"
    BY <1>3, <2>1 DEF Quiet
  <2>3. DOMAIN writer'.instructions = {}
    BY <1>4
  <2>4. QED
    BY <1>1, <2>1, <2>2, <2>3 DEF Indices, Resolves
<1>10. Kept'
  <2>1. Saved /\ ~Unwritten' /\ ~Saved'
    BY <1>2, Apart, Idle DEF Saved, Unwritten, Closing
  <2>2. \A n : ~Holds(writer'.instructions, n)
    BY <1>4 DEF Holds
  <2>3. DOMAIN writer'.instructions = {}
    BY <1>4
  <2>4. \A f, n : InFile(f, n)' <=> InFile(f, n)
    BY DEF InFile
  <2>5. \A n \in appended : \E f \in DOMAIN files : InFile(f, n)
    BY <1>1, <2>1 DEF Kept
  <2>6. QED
    BY <1>1, <1>3, <2>1, <2>3, <2>4, <2>5 DEF Kept
<1>11. Tables'
  BY <1>1, <1>4 DEF Tables, Sorted
<1>12. QED
  BY <1>3, <1>5, <1>6, <1>7, <1>8, <1>9, <1>10, <1>11 DEF IInv

(* The steps that set flags only. *)
LEMMA FlagStep ==
  ASSUME IInv, UNCHANGED files, UNCHANGED <<host, thread_vars, hollow_vars>>,
         \/ Does("running") /\ running' = TRUE /\ UNCHANGED writer
         \/ Does("not_running") /\ running' = FALSE /\ UNCHANGED writer
         \/ Does("start_recording") /\ writer' = StartRecording(writer) /\ UNCHANGED running
         \/ Does("stop_recording") /\ writer' = StopRecording(writer) /\ UNCHANGED running
  PROVE  IInv'
<1>1. /\ Types /\ Mutex /\ Tables /\ Numbers /\ Flags /\ Obeyed /\ Halts /\ Indices /\ Kept /\ Modes
  BY DEF IInv
<1>2. writer \in WriterType
  BY <1>1 DEF Types
<1>3. /\ writer' \in WriterType /\ writer'.table = writer.table
      /\ writer'.instructions = writer.instructions
  BY <1>2, FlagCalls
<1>4. \/ /\ session = Start2 /\ session' = Start1 /\ running' = TRUE
         /\ writer' = writer
      \/ /\ session = Stop2 /\ session' = Stop1 /\ running' = FALSE
         /\ writer' = writer
      \/ /\ session = Start1 /\ session' = <<>> /\ running' = running
         /\ writer'.recording
      \/ /\ session = Stop3 /\ session' = Stop2 /\ running' = running
         /\ ~writer'.recording
      \/ /\ session = Epoch4 /\ session' = Epoch3 /\ running' = running
         /\ ~writer'.recording
  BY <1>1, <1>2, Advance, FlagCalls DEF Types
<1>5. /\ (Mutex /\ Numbers /\ Modes)'
      /\ stage' = stage /\ op' = op /\ appended' = appended /\ (Ruled' <=> Ruled)
  BY ThreadsKept
<1>6. session # <<>>
  BY <1>4, Idle DEF Closing
<1>7. Types'
  BY <1>1, <1>3, <1>4, ThreadsKept DEF Types, Open, Closing
<1>8. Flags'
  BY <1>1, <1>3, <1>4, Apart, Idle DEF Flags, Closing
<1>9. Obeyed'
  <2>1. session' \notin {Stop4, Stop3, Epoch5, Epoch4}
    BY <1>4, Apart, Idle DEF Closing
  <2>2. QED
    BY <1>1, <1>5, <1>6, <2>1 DEF Obeyed, Quiet
<1>10. Halts'
  <2> SUFFICES ASSUME Ruled' PROVE Halts'
    BY DEF Halts
  <2>1. session' = <<>> => HaltFree(writer'.instructions)
    <3> SUFFICES ASSUME session' = <<>> PROVE DOMAIN writer'.instructions = {}
      BY DEF HaltFree
    <3>1. session = Start1
      BY <1>4, Idle DEF Closing
    <3>2. QED
      BY <1>1, <1>3, <3>1 DEF Flags
  <2>2. session' \notin {Stop4, Epoch5}
    BY <1>4, Apart, Idle DEF Closing
  <2>3. session' \in {Stop3, Stop2, Stop1, Epoch4, Epoch3} => HaltLast(writer'.instructions)
    BY <1>1, <1>3, <1>4, <1>5, Apart, Idle DEF Halts, Closing
  <2>4. \A f \in DOMAIN files' : HaltLast(files'[f].instructions)
    BY <1>1, <1>5 DEF Halts
  <2>5. QED
    BY <1>1, <1>5, <2>1, <2>2, <2>3, <2>4 DEF Halts
<1>11. Kept'
  <2>1. (Unwritten' => Unwritten \/ writer.instructions = <<>>) /\ ~Saved'
    BY <1>1, <1>4, Apart, Idle DEF Unwritten, Saved, Closing, Flags
  <2>2. writer.instructions = <<>> => \A n : ~Holds(writer.instructions, n)
    BY DEF Holds
  <2>3. \A f, n : InFile(f, n)' <=> InFile(f, n)
    BY DEF InFile
  <2>4. QED
    BY <1>1, <1>3, <1>5, <2>1, <2>2, <2>3 DEF Kept
<1>12. (Tables /\ Indices)'
  BY <1>1, <1>3, <1>5 DEF Tables, TableOK, Sorted, Indices, Resolves
<1>13. QED
  BY <1>5, <1>7, <1>8, <1>9, <1>10, <1>11, <1>12 DEF IInv

(* The halt that closes a trace. *)
LEMMA HaltStep ==
  ASSUME IInv, Does("halt"), writer' = Emit(writer, HaltInst), UNCHANGED <<running, files>>,
         UNCHANGED <<host, thread_vars, hollow_vars>>
  PROVE  IInv'
<1>1. /\ Types /\ Mutex /\ Tables /\ Numbers /\ Flags /\ Obeyed /\ Halts /\ Indices /\ Kept /\ Modes
  BY DEF IInv
<1>2. \/ session = Stop4 /\ session' = Stop3
      \/ session = Epoch5 /\ session' = Epoch4
  BY <1>1, Advance DEF Types
<1>3. /\ (Mutex /\ Numbers /\ Modes)'
      /\ stage' = stage /\ op' = op /\ appended' = appended /\ (Ruled' <=> Ruled)
  BY ThreadsKept
<1>4. /\ HaltInst \in Inst /\ HaltInst.n = 0 /\ HaltInst.by = "session"
      /\ HaltInst.q = CopyModulus /\ HaltInst.idx = 0
  BY CopyModulusAssumption DEF HaltInst, Inst
<1> DEFINE l == Len(writer.instructions)
<1>5. /\ writer' \in WriterType /\ writer'.table = writer.table
      /\ writer'.recording = writer.recording /\ writer'.paused = writer.paused
      /\ ~Accepts(writer) => writer'.instructions = writer.instructions
      /\ Accepts(writer) => /\ Len(writer'.instructions) = l + 1
                            /\ DOMAIN writer'.instructions = DOMAIN writer.instructions \cup {l + 1}
                            /\ writer'.instructions[l + 1] = HaltInst
                            /\ \A k \in DOMAIN writer.instructions :
                                 writer'.instructions[k] = writer.instructions[k]
  BY <1>1, <1>4, EmitOK DEF Types
<1>6. l \in Nat /\ DOMAIN writer.instructions = 1 .. l
  BY <1>1, WriterRecord DEF Types
<1>7. 1 \in DOMAIN writer.table /\ writer.table[1] = CopyModulus
  BY <1>1, WriterRecord, EmptySeq DEF Types, Tables, TableOK
<1> HIDE DEF l
<1>8. Types'
  BY <1>1, <1>2, <1>5, ThreadsKept DEF Types, Open, Closing
<1>9. Flags'
  BY <1>1, <1>2, <1>5, Apart, Idle DEF Flags, Closing
<1>10. Obeyed'
  BY <1>1, <1>2, <1>3, <1>5, Apart, Idle DEF Obeyed, Quiet, Closing
<1>11. Halts'
  <2> SUFFICES ASSUME Ruled' PROVE Halts'
    BY DEF Halts
  <2>1. Accepts(writer) /\ HaltFree(writer.instructions)
    BY <1>1, <1>2, <1>3 DEF Accepts, Obeyed, Flags, Halts
  <2>2. HaltLast(writer'.instructions)
    <3>1. l + 1 \in DOMAIN writer'.instructions /\ \A k \in 1 .. l : k # l + 1
      BY <1>5, <1>6, <2>1
    <3>2. writer'.instructions # <<>>
      BY <3>1
    <3>3. \A k \in DOMAIN writer'.instructions :
            writer'.instructions[k].by = "session" <=> k = Len(writer'.instructions)
      BY <1>4, <1>5, <1>6, <2>1, <3>1 DEF HaltFree
    <3>4. QED
      BY <3>2, <3>3 DEF HaltLast
  <2>3. session' \notin {<<>>, Stop4, Epoch5}
    BY <1>2, Apart, Idle DEF Closing
  <2>4. QED
    BY <1>1, <1>3, <2>2, <2>3 DEF Halts, HaltLast
<1>12. Indices'
  <2> SUFFICES ASSUME Ruled' PROVE Indices'
    BY DEF Indices
  <2>1. Resolves(writer.table, HaltInst)
    BY <1>4, <1>7 DEF Resolves
  <2>2. \A k \in DOMAIN writer'.instructions : Resolves(writer'.table, writer'.instructions[k])
    BY <1>1, <1>3, <1>5, <2>1 DEF Indices
  <2>3. QED
    BY <1>1, <1>3, <1>5, <2>2 DEF Indices, Resolves
<1>13. Kept'
  <2>1. Unwritten /\ ~Saved'
    BY <1>2, Apart, Idle DEF Unwritten, Saved, Closing
  <2>2. 0 \notin appended
    BY <1>1 DEF Numbers, Types
  <2>3. \A n \in appended : Holds(writer'.instructions, n) <=> Holds(writer.instructions, n)
    BY <1>4, <1>5, <2>2 DEF Holds
  <2>4. \A k \in DOMAIN writer'.instructions : writer'.instructions[k].n \in appended \cup {0}
    BY <1>1, <1>4, <1>5 DEF Kept
  <2>5. \A f, n : InFile(f, n)' <=> InFile(f, n)
    BY DEF InFile
  <2>6. QED
    BY <1>1, <1>3, <2>1, <2>3, <2>4, <2>5 DEF Kept
<1>14. Tables'
  BY <1>1, <1>5 DEF Tables, TableOK, Sorted
<1>15. QED
  BY <1>3, <1>8, <1>9, <1>10, <1>11, <1>12, <1>13, <1>14 DEF IInv

(* write() sorts the table, remaps the log and puts both in a new file. *)
LEMMA WriteStep ==
  ASSUME IInv, Does("write"), writer' = Normalize(writer), files' = Append(files, Written(writer')),
         UNCHANGED running, UNCHANGED <<host, thread_vars, hollow_vars>>
  PROVE  IInv'
<1>1. /\ Types /\ Mutex /\ Tables /\ Numbers /\ Flags /\ Obeyed /\ Halts /\ Indices /\ Kept /\ Modes
  BY DEF IInv
<1>2. \/ session = Stop1 /\ session' = <<>>
      \/ session = Epoch3 /\ session' = Epoch2
  BY <1>1, Advance DEF Types
<1>3. /\ (Mutex /\ Numbers /\ Modes)'
      /\ stage' = stage /\ op' = op /\ appended' = appended /\ (Ruled' <=> Ruled)
  BY ThreadsKept
<1>4. /\ writer' \in WriterType /\ TableOK(writer'.table) /\ Sorted(writer'.table)
      /\ writer'.recording = writer.recording /\ writer'.paused = writer.paused
      /\ Len(writer'.instructions) = Len(writer.instructions)
      /\ DOMAIN writer'.instructions = DOMAIN writer.instructions
      /\ \A k \in DOMAIN writer.instructions :
           /\ writer'.instructions[k].n = writer.instructions[k].n
           /\ writer'.instructions[k].by = writer.instructions[k].by
           /\ Resolves(writer.table, writer.instructions[k]) => Resolves(writer'.table, writer'.instructions[k])
  BY <1>1, NormalizeOK DEF Types, Tables
<1> DEFINE new == Written(writer')
           l == Len(files)
<1>5. new \in FileType /\ new.table = writer'.table /\ new.instructions = writer'.instructions
  BY <1>4 DEF Written, FileType, WriterType
<1>6. /\ files' \in Seq(FileType) /\ l \in Nat
      /\ DOMAIN files = 1 .. l /\ DOMAIN files' = (DOMAIN files) \cup {l + 1}
      /\ l + 1 \notin DOMAIN files
      /\ files'[l + 1] = new /\ \A f \in DOMAIN files : files'[f] = files[f]
  <2>1. files \in Seq(FileType) /\ l \in Nat /\ DOMAIN files = 1 .. l
    BY <1>1 DEF Types
  <2> HIDE DEF new
  <2>2. /\ files' \in Seq(FileType) /\ Len(files') = l + 1
        /\ files'[l + 1] = new /\ \A f \in 1 .. l : files'[f] = files[f]
    BY <1>5, <2>1, AppendProperties DEF new
  <2>3. DOMAIN files' = 1 .. l + 1 /\ 1 .. l + 1 = (1 .. l) \cup {l + 1} /\ l + 1 \notin 1 .. l
    BY <2>1, <2>2
  <2>4. QED
    BY <2>1, <2>2, <2>3
<1> HIDE DEF new, l
<1>7. Types'
  BY <1>1, <1>2, <1>4, <1>6, ThreadsKept DEF Types, Open, Closing
<1>8. Flags'
  BY <1>1, <1>2, <1>4, Apart, Idle DEF Flags, Closing
<1>9. Obeyed'
  BY <1>1, <1>2, <1>3, Apart, Idle DEF Obeyed, Quiet, Closing
<1>10. Tables'
  BY <1>1, <1>4, <1>5, <1>6 DEF Tables
<1>11. Halts'
  <2> SUFFICES ASSUME Ruled' PROVE Halts'
    BY DEF Halts
  <2>1. HaltLast(writer.instructions)
    BY <1>1, <1>2, <1>3 DEF Halts
  <2>2. HaltLast(writer'.instructions)
    <3>1. writer.instructions \in Seq(Inst) /\ writer'.instructions \in Seq(Inst)
      BY <1>1, <1>4 DEF Types, WriterType
    <3>2. writer'.instructions # <<>>
      BY <1>4, <2>1, <3>1, EmptySeq DEF HaltLast
    <3>3. QED
      BY <1>4, <2>1, <3>2 DEF HaltLast
  <2>3. \A f \in DOMAIN files' : HaltLast(files'[f].instructions)
    BY <1>1, <1>3, <1>5, <1>6, <2>2 DEF Halts
  <2>4. session' = <<>> => ~running'
    BY <1>1, <1>2, Idle DEF Flags, Closing
  <2>5. session' \notin {Stop4, Epoch5, Stop3, Stop2, Stop1, Epoch4, Epoch3}
    BY <1>2, Apart, Idle DEF Closing
  <2>6. QED
    BY <1>1, <1>3, <2>3, <2>4, <2>5 DEF Halts
<1>12. Indices'
  <2> SUFFICES ASSUME Ruled' PROVE Indices'
    BY DEF Indices
  <2>1. Ruled /\ Quiet
    BY <1>1, <1>2, <1>3, Idle DEF Obeyed, Closing
  <2>2. \A t \in Threads : stage'[t] # "registered"
    BY <1>3, <2>1 DEF Quiet
  <2>3. \A k \in DOMAIN writer'.instructions : Resolves(writer'.table, writer'.instructions[k])
    BY <1>1, <1>4, <2>1 DEF Indices
  <2>4. \A f \in DOMAIN files' : \A k \in DOMAIN files'[f].instructions :
          Resolves(files'[f].table, files'[f].instructions[k])
    BY <1>1, <1>5, <1>6, <2>1, <2>3 DEF Indices
  <2>5. QED
    BY <2>2, <2>3, <2>4 DEF Indices
<1>13. Kept'
  <2>1. Unwritten /\ ~Unwritten'
    BY <1>1, <1>2, <1>4, Apart, Idle DEF Unwritten, Closing, Flags
  <2>2. \A n : Holds(writer'.instructions, n) <=> Holds(writer.instructions, n)
    BY <1>4 DEF Holds
  <2>3. /\ \A n : Holds(files'[l + 1].instructions, n) <=> Holds(writer'.instructions, n)
        /\ \A f \in DOMAIN files : \A n : Holds(files'[f].instructions, n) <=> InFile(f, n)
    BY <1>5, <1>6 DEF InFile
  <2>4. \A n \in appended : Holds(writer'.instructions, n) \/ \E f \in DOMAIN files' : Holds(files'[f].instructions, n)
    BY <1>1, <1>6, <2>2, <2>3 DEF Kept
  <2>5. \A k \in DOMAIN writer'.instructions : writer'.instructions[k].n \in appended \cup {0}
    BY <1>1, <1>4 DEF Kept
  <2>6. \A f \in DOMAIN files' : \A k \in DOMAIN files'[f].instructions :
          files'[f].instructions[k].n \in appended \cup {0}
    BY <1>1, <1>5, <1>6, <2>5 DEF Kept
  <2>7. \A f, g \in DOMAIN files' : \A n \in appended :
          Holds(files'[f].instructions, n) /\ Holds(files'[g].instructions, n) => f = g
    <3> SUFFICES ASSUME NEW f \in DOMAIN files', NEW g \in DOMAIN files', NEW n \in appended,
                        Holds(files'[f].instructions, n), Holds(files'[g].instructions, n)
                 PROVE  f = g
      OBVIOUS
    <3>1. CASE f \in DOMAIN files /\ g \in DOMAIN files
      BY <1>1, <2>3, <3>1 DEF Kept
    <3>2. CASE f \in DOMAIN files /\ g = l + 1
      BY <1>1, <2>1, <2>2, <2>3, <3>2 DEF Kept
    <3>3. CASE f = l + 1 /\ g \in DOMAIN files
      BY <1>1, <2>1, <2>2, <2>3, <3>3 DEF Kept
    <3>4. QED
      BY <1>6, <3>1, <3>2, <3>3
  <2>8. \A n \in appended : Holds(writer'.instructions, n) => \E f \in DOMAIN files' : Holds(files'[f].instructions, n)
    BY <1>6, <2>3
  <2>9. QED
    BY <1>3, <2>1, <2>4, <2>5, <2>6, <2>7, <2>8 DEF Kept, InFile
<1>14. QED
  BY <1>3, <1>7, <1>8, <1>9, <1>10, <1>11, <1>12, <1>13 DEF IInv

LEMMA SessionSteps ==
  ASSUME IInv, SessionStep
  PROVE  IInv'
<1>1. UNCHANGED <<host, thread_vars, hollow_vars>>
  BY DEF SessionStep
<1>2. CASE Does("clear") /\ writer' = Clear(writer) /\ UNCHANGED <<running, files>>
  BY <1>1, <1>2, ClearStep
<1>3. CASE Does("running") /\ running' = TRUE /\ UNCHANGED <<writer, files>>
  BY <1>1, <1>3, FlagStep
<1>4. CASE Does("not_running") /\ running' = FALSE /\ UNCHANGED <<writer, files>>
  BY <1>1, <1>4, FlagStep
<1>5. CASE Does("start_recording") /\ writer' = StartRecording(writer) /\ UNCHANGED <<running, files>>
  BY <1>1, <1>5, FlagStep
<1>6. CASE Does("stop_recording") /\ writer' = StopRecording(writer) /\ UNCHANGED <<running, files>>
  BY <1>1, <1>6, FlagStep
<1>7. CASE Does("halt") /\ writer' = Emit(writer, HaltInst) /\ UNCHANGED <<running, files>>
  BY <1>1, <1>7, HaltStep
<1>8. CASE /\ Does("write") /\ writer' = Normalize(writer)
           /\ files' = Append(files, Written(writer')) /\ UNCHANGED running
  BY <1>1, <1>8, WriteStep
<1>9. QED
  BY <1>2, <1>3, <1>4, <1>5, <1>6, <1>7, <1>8 DEF SessionStep

(* The user's and OpenFHE's pauses, made while the session is idle. *)
LEMMA PauseStep ==
  ASSUME IInv, Pause \/ Resume \/ PauseProbe \/ ResumeProbe
  PROVE  IInv'
<1>1. /\ Types /\ Mutex /\ Tables /\ Numbers /\ Flags /\ Obeyed /\ Halts /\ Indices /\ Kept /\ Modes
  BY DEF IInv
<1>2. /\ UNCHANGED <<host, running, session, files>> /\ UNCHANGED <<stage, op, probe_mutex, started, appended>>
      /\ session = <<>>
      /\ writer' \in {writer, PauseRecording(writer), ResumeRecording(writer)}
  BY DEF Pause, Resume, PauseProbe, ResumeProbe, MayDrive, session_vars, thread_vars
<1>3. writer \in WriterType
  BY <1>1 DEF Types
<1>4. /\ writer' \in WriterType /\ writer'.table = writer.table
      /\ writer'.instructions = writer.instructions /\ writer'.recording = writer.recording
  BY <1>2, <1>3, FlagCalls
<1>5. Modes'
  BY <1>1 DEF Modes, Pause, Resume, PauseProbe, ResumeProbe, hollow_vars
<1>6. (Types /\ Mutex /\ Numbers)'
  BY <1>1, <1>2, <1>4 DEF Types, Mutex, Numbers
<1>7. (Tables /\ Flags /\ Indices)'
  BY <1>1, <1>2, <1>4 DEF Tables, TableOK, Sorted, Flags, Indices, Resolves, Ruled
<1>8. Obeyed'
  BY <1>1, <1>2, Idle DEF Obeyed, Ruled, Quiet, Closing
<1>9. Halts'
  BY <1>1, <1>2, <1>4 DEF Halts, Ruled, HaltFree, HaltLast
<1>10. Kept'
  BY <1>1, <1>2, <1>4 DEF Kept, InFile, Holds, Unwritten, Saved
<1>11. QED
  BY <1>5, <1>6, <1>7, <1>8, <1>9, <1>10 DEF IInv

(* Hollow mode, outside OpenFHE's bracket; and steps that change nothing. *)
LEMMA HollowStep ==
  ASSUME IInv, UNCHANGED <<writer, session_vars, thread_vars>>, Modes'
  PROVE  IInv'
<1>1. /\ Types /\ Mutex /\ Tables /\ Numbers /\ Flags /\ Obeyed /\ Halts /\ Indices /\ Kept
  BY DEF IInv
<1>2. UNCHANGED <<writer, host, running, session, files, stage, op, probe_mutex, started, appended>>
  BY DEF session_vars, thread_vars
<1>3. (Types /\ Mutex /\ Numbers /\ Flags)'
  BY <1>1, <1>2 DEF Types, Mutex, Numbers, Flags
<1>4. (Tables /\ Indices /\ Obeyed /\ Halts)'
  BY <1>1, <1>2 DEF Tables, TableOK, Sorted, Indices, Resolves, Ruled, Obeyed, Quiet, Halts, HaltFree, HaltLast
<1>5. Kept'
  BY <1>1, <1>2 DEF Kept, InFile, Holds, Unwritten, Saved
<1>6. QED
  BY <1>3, <1>4, <1>5 DEF IInv

-----------------------------------------------------------------------------
(* The theorems *)

LEMMA IInvInit == Init => IInv
<1> SUFFICES ASSUME Init PROVE IInv
  OBVIOUS
<1>1. NewWriter \in WriterType /\ TableOK(NewWriter.table) /\ NewWriter.instructions = <<>>
      /\ NewWriter.recording = FALSE
  <2>1. /\ NewWriter.table = <<CopyModulus>> /\ NewWriter.instructions = <<>> /\ NewWriter.recording = FALSE
        /\ <<CopyModulus>> \in Seq(Nat) /\ <<>> \in Seq(Inst)
    BY CopyModulusAssumption DEF NewWriter
  <2>2. TableOK(<<CopyModulus>>)
    BY DEF TableOK
  <2>3. QED
    BY <2>1, <2>2 DEF NewWriter, WriterType
<1>2. HaltInst \in Inst
  BY CopyModulusAssumption DEF HaltInst, Inst
<1>3. host.max_ops \in Nat
  BY BoundsAssumption DEF Init
<1>4. Types
  <2>1. files \in Seq(FileType) /\ op \in [Threads -> Inst]
    BY <1>2 DEF Init
  <2>2. QED
    BY <1>1, <2>1 DEF Init, Types, Open
<1>5. Mutex
  BY ThreadsAssumption DEF Init, Mutex, Threads
<1>6. Numbers
  BY <1>3 DEF Init, Numbers
<1>7. DOMAIN files = {} /\ DOMAIN writer.instructions = {} /\ \A t \in Threads : stage[t] = "idle"
  BY <1>1 DEF Init
<1>8. Tables /\ Modes
  BY <1>1, <1>7 DEF Init, Tables, Modes
<1>9. Flags /\ Obeyed /\ Halts
  BY <1>1, <1>7, Idle DEF Init, Flags, Obeyed, Halts, Closing
<1>10. Indices
  BY <1>7 DEF Indices
<1>11. Kept
  BY <1>7 DEF Init, Kept, Holds
<1>12. QED
  BY <1>4, <1>5, <1>6, <1>8, <1>9, <1>10, <1>11 DEF IInv

LEMMA IInvStep == IInv /\ [Next]_vars => IInv'
<1> SUFFICES ASSUME IInv, [Next]_vars PROVE IInv'
  OBVIOUS
<1>1. ASSUME NEW t \in Threads, NEW q \in host.primes \cup {CopyModulus}, Begin(t, q) PROVE IInv'
  BY <1>1, BeginStep
<1>2. ASSUME NEW t \in Threads, Lock(t) PROVE IInv'
  BY <1>2, LockStep
<1>3. ASSUME NEW t \in Threads, Register(t) PROVE IInv'
  BY <1>3, RegisterStep
<1>4. ASSUME NEW t \in Threads, EmitOp(t) PROVE IInv'
  BY <1>4, EmitOpStep
<1>5. CASE Start \/ Stop \/ StopEpoch
  BY <1>5, CallStep
<1>6. CASE SessionStep
  BY <1>6, SessionSteps
<1>7. CASE Pause \/ Resume \/ PauseProbe \/ ResumeProbe
  BY <1>7, PauseStep
<1>8. ASSUME NEW on \in host.hollow_modes, EnableHollowMode(on) PROVE IInv'
  <2>1. Modes' /\ UNCHANGED <<writer, session_vars, thread_vars>>
    BY <1>8 DEF Modes, EnableHollowMode
  <2>2. QED
    BY <2>1, HollowStep
<1>9. CASE UNCHANGED vars
  <2>1. Modes' /\ UNCHANGED <<writer, session_vars, thread_vars>>
    BY <1>9 DEF vars, IInv, Modes, session_vars, thread_vars
  <2>2. QED
    BY <2>1, HollowStep
<1>10. QED
  BY <1>1, <1>2, <1>3, <1>4, <1>5, <1>6, <1>7, <1>8, <1>9 DEF Next, Record

(* The invariant holds in every state the threads and the session reach.   *)
THEOREM RecordingInvariant == Spec => []IInv
<1>1. Init => IInv
  BY IInvInit
<1>2. IInv /\ [Next]_vars => IInv'
  BY IInvStep
<1>3. QED
  BY <1>1, <1>2, PTL DEF Spec

(* The writer, the threads and the mutex have their types in every state;  *)
(* g_probe_mutex is held by the one probe past its lock.                   *)
THEOREM RecordingTypeOK == Spec => []TypeOK
<1>1. IInv => TypeOK
  BY WriterRecord, BoundsAssumption DEF IInv, Types, Mutex, Tables, Numbers, TableOK, TypeOK
<1>2. QED
  BY <1>1, RecordingInvariant, PTL

(* Whatever the threads registered in between and however often write()    *)
(* sorted the table, an index in the log or in a file names the modulus    *)
(* its operation was performed under, on a host that keeps both rules.     *)
THEOREM RecordingModulusFaithful == Spec => []ModulusFaithful
<1>1. IInv => ModulusFaithful
  BY DEF IInv, Indices, ModulusFaithful
<1>2. QED
  BY <1>1, RecordingInvariant, PTL

(* On such a host stop() and stop_epoch() write traces that end with their *)
(* only halt.                                                              *)
THEOREM RecordingHaltIsLast == Spec => []HaltIsLast
<1>1. IInv => HaltIsLast
  BY DEF IInv, Halts, HaltLast, HaltIsLast
<1>2. QED
  BY <1>1, RecordingInvariant, PTL

(* On any host, an operation the writer accepted is in one written trace,  *)
(* or still in the log: stop_epoch() drops none and repeats none.          *)
THEOREM RecordingKeptOnce == Spec => []KeptOnce
<1>1. IInv => KeptOnce
  <2> SUFFICES ASSUME IInv, NEW n \in appended
               PROVE  LET traces == {f \in DOMAIN files : Holds(files[f].instructions, n)} IN
                      \/ Cardinality(traces) = 1
                      \/ traces = {} /\ Holds(writer.instructions, n)
    BY DEF KeptOnce
  <2> DEFINE traces == {f \in DOMAIN files : Holds(files[f].instructions, n)}
  <2>1. CASE traces = {}
    BY <2>1 DEF IInv, Kept, InFile
  <2>2. CASE traces # {}
    <3>1. PICK f \in DOMAIN files : Holds(files[f].instructions, n)
      BY <2>2
    <3>2. traces = {f}
      BY <3>1 DEF IInv, Kept, InFile
    <3>3. QED
      BY <3>2, FS_Singleton
  <2>3. QED
    BY <2>1, <2>2
<1>2. QED
  BY <1>1, RecordingInvariant, PTL

(* Every trace write() produced has its moduli in ascending order after    *)
(* the sentinel, on any host.                                              *)
THEOREM RecordingTablesSorted == Spec => []TablesSorted
<1>1. IInv => TablesSorted
  BY DEF IInv, Tables, Sorted, TablesSorted
<1>2. QED
  BY <1>1, RecordingInvariant, PTL

(* After OpenFHE's pause and resume the hollow mode is what the user asked *)
(* for.                                                                    *)
THEOREM RecordingHollowRestored == Spec => []HollowRestored
<1>1. IInv => HollowRestored
  BY DEF IInv, Modes, HollowRestored
<1>2. QED
  BY <1>1, RecordingInvariant, PTL
=============================================================================
