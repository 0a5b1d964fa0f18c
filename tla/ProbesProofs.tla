---------------------------- MODULE ProbesProofs ----------------------------
(***************************************************************************)
(* Proofs about Probes for any number of polynomials, addresses, moduli    *)
(* and references: type correctness, that an address has one owner and     *)
(* that the addresses of pinned polynomials and stored inputs are never    *)
(* recycled (the last if pinned polynomials are not moved); then, in its   *)
(* second half, that the recorded trace reproduces what the host computed. *)
(***************************************************************************)
EXTENDS Probes, SequenceTheorems, TLAPS

-----------------------------------------------------------------------------
(* The inductive invariant *)

AllocType == [map : [Ids -> Nat], next : Nat \ {0}, pool : Seq(Nat \ {0})]

(* The ids the host can still use, and the addresses inputs are stored at. *)
Live == {id \in Ids : Alive(id)}
Held == {a \in Addrs \ {0} : inputs[a] # Absent}

(* Every address given out is below next; live ids and the free pool       *)
(* divide the addresses among them.                                        *)
Owned(al, live) ==
  /\ al \in AllocType
  /\ \A id \in Ids : al.map[id] < al.next
  /\ \A i, j \in live : i # j /\ al.map[i] # 0 => al.map[i] # al.map[j]
  /\ \A k \in 1 .. Len(al.pool) :
       /\ al.pool[k] < al.next
       /\ \A id \in live : al.map[id] # al.pool[k]
       /\ \A l \in 1 .. Len(al.pool) : al.pool[k] = al.pool[l] => k = l

(* A pinned id, dead or alive, shares its address with no live id; the     *)
(* address of a stored input is used by pinned ids only.                   *)
Kept(al, live, pins, held) ==
  /\ \A p \in pins, j \in live : j # p /\ al.map[p] # 0 => al.map[j] # al.map[p]
  /\ \A k \in 1 .. Len(al.pool) : \A p \in pins : al.map[p] # al.pool[k]
  /\ \A a \in held :
       /\ a < al.next
       /\ \A k \in 1 .. Len(al.pool) : a # al.pool[k]
       /\ \A j \in live : al.map[j] = a => j \in pins

AllocOK(al, live, pins, held) ==
  /\ Owned(al, live)
  /\ "pinned_stay" \in Rules => Kept(al, live, pins, held)

IInv == TypeOK /\ AllocOK(alloc, Live, pinned, Held)

-----------------------------------------------------------------------------
(* The allocator *)

(* What map_address() does for an id without an address: pop, or extend. *)
Popped(al, id) == [map  |-> [al.map EXCEPT ![id] = al.pool[Len(al.pool)]],
                   next |-> al.next,
                   pool |-> SubSeq(al.pool, 1, Len(al.pool) - 1)]
Fresh(al, id) == [map  |-> [al.map EXCEPT ![id] = al.next],
                  next |-> al.next + 1,
                  pool |-> al.pool]

(* Taking the most recently freed address keeps the division. *)
LEMMA PopOK ==
  ASSUME NEW al, NEW live \in SUBSET Ids, NEW pins \in SUBSET Ids, NEW held \in SUBSET (Nat \ {0}),
         AllocOK(al, live, pins, held), NEW id \in live, al.map[id] = 0,
         id \notin pins, al.pool # <<>>,
         NEW b, b = Popped(al, id)
  PROVE  AllocOK(b, live, pins, held) /\ b.map[id] # 0
<1> DEFINE n == Len(al.pool)
<1>1. al \in AllocType
  BY DEF AllocOK, Owned
<1>2. n \in Nat \ {0} /\ \A k \in 1 .. n : al.pool[k] \in Nat \ {0}
  BY <1>1, EmptySeq, ElementOfSeq DEF AllocType
<1>3. /\ SubSeq(al.pool, 1, n - 1) \in Seq(Nat \ {0})
      /\ Len(SubSeq(al.pool, 1, n - 1)) = n - 1
      /\ \A k \in 1 .. n - 1 : SubSeq(al.pool, 1, n - 1)[k] = al.pool[k]
  <2>1. \A k \in 1 .. n - 1 : al.pool[k] \in Nat \ {0}
    BY <1>2
  <2>2. 1 \in Int /\ n - 1 \in Int
    BY <1>2
  <2> HIDE DEF n
  <2>3. QED
    BY <2>1, <2>2, <1>2, SubSeqProperties
<1>4. /\ b.pool \in Seq(Nat \ {0}) /\ Len(b.pool) = n - 1
      /\ \A k \in 1 .. n - 1 : b.pool[k] = al.pool[k]
      /\ b.next = al.next
      /\ b.map = [al.map EXCEPT ![id] = al.pool[n]]
  BY <1>3 DEF Popped
<1> HIDE DEF n
<1>5. b.map \in [Ids -> Nat] /\ b.map[id] = al.pool[n] /\ \A j \in Ids \ {id} : b.map[j] = al.map[j]
  BY <1>1, <1>2, <1>4 DEF AllocType
<1>6. b \in AllocType
  BY <1>1, <1>4, <1>5 DEF AllocType, Popped
<1>7. Owned(b, live)
  <2>1. /\ \A j \in Ids : al.map[j] < al.next
        /\ \A i, j \in live : i # j /\ al.map[i] # 0 => al.map[i] # al.map[j]
        /\ \A k \in 1 .. n :
             /\ al.pool[k] < al.next
             /\ \A j \in live : al.map[j] # al.pool[k]
             /\ \A l \in 1 .. n : al.pool[k] = al.pool[l] => k = l
    BY DEF AllocOK, Owned, n
  <2>2. n \in 1 .. n /\ \A k \in 1 .. n - 1 : k \in 1 .. n /\ k # n
    BY <1>2
  <2>3. \A j \in Ids : b.map[j] < b.next
    BY <2>1, <2>2, <1>4, <1>5
  <2>4. \A i, j \in live : i # j /\ b.map[i] # 0 => b.map[i] # b.map[j]
    BY <2>1, <2>2, <1>4, <1>5
  <2>5. \A k \in 1 .. n - 1 :
          /\ b.pool[k] < b.next
          /\ \A j \in live : b.map[j] # b.pool[k]
          /\ \A l \in 1 .. n - 1 : b.pool[k] = b.pool[l] => k = l
    BY <2>1, <2>2, <1>4, <1>5
  <2>6. QED
    BY <1>4, <1>6, <2>3, <2>4, <2>5 DEF Owned
<1>8. ASSUME Kept(al, live, pins, held) PROVE Kept(b, live, pins, held)
  <2>1. /\ \A p \in pins, j \in live : j # p /\ al.map[p] # 0 => al.map[j] # al.map[p]
        /\ \A k \in 1 .. n : \A p \in pins : al.map[p] # al.pool[k]
        /\ \A a \in held :
             /\ a < al.next
             /\ \A k \in 1 .. n : a # al.pool[k]
             /\ \A j \in live : al.map[j] = a => j \in pins
    BY <1>8 DEF Kept, n
  <2>2. n \in 1 .. n /\ \A k \in 1 .. n - 1 : k \in 1 .. n
    BY <1>2
  <2>3. \A p \in pins : p # id /\ b.map[p] = al.map[p]
    BY <1>5
  <2>4. \A p \in pins, j \in live : j # p /\ b.map[p] # 0 => b.map[j] # b.map[p]
    BY <2>1, <2>2, <2>3, <1>5
  <2>5. \A k \in 1 .. n - 1 : \A p \in pins : b.map[p] # b.pool[k]
    BY <2>1, <2>2, <2>3, <1>4
  <2>6. \A a \in held :
          /\ a < b.next
          /\ \A k \in 1 .. n - 1 : a # b.pool[k]
          /\ \A j \in live : b.map[j] = a => j \in pins
    <3> SUFFICES ASSUME NEW a \in held
                 PROVE  /\ a < b.next
                        /\ \A k \in 1 .. n - 1 : a # b.pool[k]
                        /\ \A j \in live : b.map[j] = a => j \in pins
      OBVIOUS
    <3>1. a < b.next
      BY <2>1, <1>4
    <3>2. \A k \in 1 .. n - 1 : a # b.pool[k]
      <4> SUFFICES ASSUME NEW k \in 1 .. n - 1 PROVE a # b.pool[k]
        OBVIOUS
      <4>1. k \in 1 .. n /\ b.pool[k] = al.pool[k]
        BY <2>2, <1>4
      <4>2. QED
        BY <2>1, <4>1
    <3>3. \A j \in live : b.map[j] = a => j \in pins
      BY <2>1, <2>2, <1>5
    <3>4. QED
      BY <3>1, <3>2, <3>3
  <2>7. QED
    BY <1>4, <2>4, <2>5, <2>6 DEF Kept
<1>9. QED
  BY <1>2, <1>5, <1>7, <1>8 DEF AllocOK

(* So does taking a fresh address. *)
LEMMA FreshOK ==
  ASSUME NEW al, NEW live \in SUBSET Ids, NEW pins \in SUBSET Ids, NEW held \in SUBSET (Nat \ {0}),
         AllocOK(al, live, pins, held), NEW id \in live, al.map[id] = 0,
         NEW b, b = Fresh(al, id)
  PROVE  AllocOK(b, live, pins, held) /\ b.map[id] # 0
<1>1. al \in AllocType
  BY DEF AllocOK, Owned
<1>2. \A k \in 1 .. Len(al.pool) : al.pool[k] \in Nat \ {0}
  BY <1>1, ElementOfSeq DEF AllocType
<1>3. /\ b.pool = al.pool /\ b.next = al.next + 1
      /\ b.map \in [Ids -> Nat] /\ b.map[id] = al.next
      /\ \A j \in Ids \ {id} : b.map[j] = al.map[j]
  BY <1>1 DEF AllocType, Fresh
<1>4. b \in AllocType
  BY <1>1, <1>3 DEF AllocType, Fresh
<1>5. al.next \in Nat \ {0} /\ \A j \in Ids : al.map[j] \in Nat
  BY <1>1 DEF AllocType
<1>6. Owned(b, live)
  BY <1>2, <1>3, <1>4, <1>5 DEF AllocOK, Owned
<1>7. ASSUME Kept(al, live, pins, held) PROVE Kept(b, live, pins, held)
  BY <1>7, <1>2, <1>3, <1>5 DEF Kept, AllocOK, Owned
<1>8. QED
  BY <1>3, <1>5, <1>6, <1>7 DEF AllocOK

(* map_address(): the id has an address afterwards, an owned one. *)
LEMMA MapAddressOK ==
  ASSUME NEW al, NEW live \in SUBSET Ids, NEW pins \in SUBSET Ids, NEW held \in SUBSET (Nat \ {0}),
         AllocOK(al, live, pins, held), NEW id \in live
  PROVE  AllocOK(MapAddress(al, pins, id), live, pins, held)
         /\ MapAddress(al, pins, id).map[id] # 0
<1>1. CASE al.map[id] # 0
  BY <1>1 DEF MapAddress
<1>2. CASE al.map[id] = 0 /\ id \notin pins /\ al.pool # <<>>
  <2>1. MapAddress(al, pins, id) = Popped(al, id)
    BY <1>2 DEF MapAddress, Popped
  <2>2. QED
    BY <1>2, <2>1, PopOK
<1>3. CASE al.map[id] = 0 /\ ~(id \notin pins /\ al.pool # <<>>)
  <2>1. MapAddress(al, pins, id) = Fresh(al, id)
    BY <1>3 DEF MapAddress, Fresh
  <2>2. QED
    BY <1>3, <2>1, FreshOK
<1>4. QED
  BY <1>1, <1>2, <1>3

(* Fewer live ids, fewer stored inputs: the division stays. *)
LEMMA ShrinkOK ==
  ASSUME NEW al, NEW live, NEW pins, NEW held, AllocOK(al, live, pins, held),
         NEW live2 \in SUBSET live, NEW held2 \in SUBSET held
  PROVE  AllocOK(al, live2, pins, held2)
BY DEF AllocOK, Owned, Kept

(* Pinning a live id. *)
LEMMA PinOK ==
  ASSUME NEW al, NEW live \in SUBSET Ids, NEW pins \in SUBSET Ids, NEW held,
         AllocOK(al, live, pins, held), NEW id \in live
  PROVE  AllocOK(al, live, pins \cup {id}, held)
<1>1. Owned(al, live)
  BY DEF AllocOK
<1>2. ASSUME Kept(al, live, pins, held) PROVE Kept(al, live, pins \cup {id}, held)
  BY <1>1, <1>2 DEF Kept, Owned
<1>3. QED
  BY <1>1, <1>2 DEF AllocOK

(* Storing an input at the address of a pinned live id. *)
LEMMA HoldOK ==
  ASSUME NEW al, NEW live \in SUBSET Ids, NEW pins \in SUBSET Ids, NEW held,
         AllocOK(al, live, pins, held), NEW id \in live, id \in pins, al.map[id] # 0
  PROVE  AllocOK(al, live, pins, held \cup {al.map[id]})
<1>1. Owned(al, live)
  BY DEF AllocOK
<1>2. ASSUME Kept(al, live, pins, held) PROVE Kept(al, live, pins, held \cup {al.map[id]})
  <2>1. al.map[id] < al.next /\ \A k \in 1 .. Len(al.pool) : al.map[id] # al.pool[k]
    BY <1>1 DEF Owned
  <2>2. \A j \in live : al.map[j] = al.map[id] => j \in pins
    BY <1>2 DEF Kept
  <2>3. QED
    BY <1>2, <2>1, <2>2 DEF Kept
<1>3. QED
  BY <1>1, <1>2 DEF AllocOK

(* Borrowing and returning a scratch address. *)
LEMMA ScratchOK ==
  ASSUME NEW al, NEW live \in SUBSET Ids, NEW pins \in SUBSET Ids, NEW held \in SUBSET (Nat \ {0}),
         AllocOK(al, live, pins, held)
  PROVE  LET b == ScratchReturned(al) IN
         /\ AllocOK(b, live, pins, held)
         /\ b.map = al.map /\ Len(b.pool) \in 1 .. Len(b.pool)
         /\ al.next <= b.next
<1>1. al \in AllocType /\ Owned(al, live)
  BY DEF AllocOK, Owned
<1>2. CASE al.pool # <<>>
  BY <1>1, <1>2, EmptySeq DEF ScratchReturned, AllocType
<1>3. CASE al.pool = <<>>
  <2> DEFINE b == ScratchReturned(al)
  <2>1. /\ b = [al EXCEPT !.next = al.next + 1, !.pool = <<al.next>>]
        /\ b.map = al.map /\ b.next = al.next + 1 /\ b.pool = <<al.next>>
        /\ al.next \in Nat \ {0} /\ \A j \in Ids : al.map[j] \in Nat
    BY <1>1, <1>3 DEF ScratchReturned, AllocType
  <2>2. b \in AllocType /\ Len(b.pool) = 1 /\ b.pool[1] = al.next
    <3>1. <<al.next>> \in Seq(Nat \ {0}) /\ Len(<<al.next>>) = 1 /\ <<al.next>>[1] = al.next
      BY <2>1
    <3>2. al.next + 1 \in Nat \ {0}
      BY <2>1
    <3> HIDE DEF b
    <3>3. QED
      BY <1>1, <2>1, <3>1, <3>2 DEF AllocType
  <2> HIDE DEF b
  <2>3. Owned(b, live)
    BY <1>1, <2>1, <2>2 DEF Owned
  <2>4. ASSUME Kept(al, live, pins, held) PROVE Kept(b, live, pins, held)
    BY <1>1, <2>1, <2>2, <2>4 DEF Kept, Owned
  <2>5. QED
    BY <2>1, <2>2, <2>3, <2>4 DEF AllocOK, b
<1>4. QED
  BY <1>2, <1>3

-----------------------------------------------------------------------------
(* Types *)

(* The allocator's type in the instance: all it gave out is in range. *)
LEMMA AllocTyped ==
  ASSUME NEW al, NEW live, NEW pins, NEW held, AllocOK(al, live, pins, held), Fits(al)
  PROVE  /\ al \in [map : [Ids -> Addrs], next : 1 .. MaxAddr + 1, pool : Seq(Addrs \ {0})]
         /\ \A id \in Ids : al.map[id] \in Addrs
         /\ \A k \in 1 .. Len(al.pool) : al.pool[k] \in Addrs \ {0}
<1>1. al \in AllocType /\ Owned(al, live)
  BY DEF AllocOK, Owned
<1>2. al.map \in [Ids -> Nat] /\ al.next \in Nat \ {0} /\ al.pool \in Seq(Nat \ {0})
  BY <1>1 DEF AllocType
<1>3. al.next \in 1 .. MaxAddr + 1
  BY <1>2, AddrsAssumption DEF Fits
<1>4. \A id \in Ids : al.map[id] \in Addrs
  BY <1>1, <1>2, <1>3, AddrsAssumption DEF Owned
<1>5. \A k \in 1 .. Len(al.pool) : al.pool[k] \in Addrs \ {0}
  <2> SUFFICES ASSUME NEW k \in 1 .. Len(al.pool) PROVE al.pool[k] \in Addrs \ {0}
    OBVIOUS
  <2>1. al.pool[k] \in Nat \ {0}
    BY <1>2, ElementOfSeq
  <2>2. al.pool[k] < al.next
    BY <1>1 DEF Owned
  <2>3. QED
    BY <2>1, <2>2, <1>3, AddrsAssumption
<1>6. al.pool \in Seq(Addrs \ {0})
  <2>1. Len(al.pool) \in Int
    BY <1>2, LenProperties
  <2>2. SubSeq(al.pool, 1, Len(al.pool)) = al.pool
    BY <1>2, SubSeqFull
  <2>3. SubSeq(al.pool, 1, Len(al.pool)) \in Seq(Addrs \ {0})
    BY <1>5, <2>1, SubSeqProperties
  <2>4. QED
    BY <2>2, <2>3
<1>7. al.map \in [Ids -> Addrs]
  BY <1>2, <1>4
<1>8. QED
  BY <1>1, <1>3, <1>4, <1>5, <1>6, <1>7 DEF AllocType

(* The instructions the probes build are instructions. *)
LEMMA InstructionTyped ==
  ASSUME NEW op \in FhOpcode, NEW d \in Addrs, NEW s1 \in Addrs, NEW s2 \in Addrs,
         NEW imm \in {0, 1}, NEW m \in Moduli \cup {0}
  PROVE  Instruction(op, d, s1, s2, imm, m) \in Instructions
<1>1. m \in 0 .. TableSize
  BY ModuliAssumption, TableAssumption
<1>2. QED
  BY <1>1 DEF Instruction, Instructions

LEMMA ZeroAddr == 0 \in Addrs
BY AddrsAssumption

(* What an instruction computes is a polynomial. *)
LEMMA ResultTyped ==
  ASSUME NEW inst \in Instructions, NEW a \in Values, NEW b \in Values
  PROVE  Result(inst, a, b) \in Values
BY ValuesAssumption, KernelAssumption DEF Result

(* Replaying an instruction leaves a memory. *)
LEMMA ReplayedTyped ==
  ASSUME NEW inst \in Instructions, NEW m \in Memories
  PROVE  Replayed(m, inst) \in Memories
<1>1. GetOrZero(m, inst.src1) \in Values /\ GetOrZero(m, inst.src2) \in Values
  BY ValuesAssumption DEF GetOrZero, Memories, Instructions
<1>2. Result(inst, GetOrZero(m, inst.src1), GetOrZero(m, inst.src2)) \in Values
  BY <1>1, ResultTyped
<1>3. QED
  BY <1>2 DEF Replayed, Stored, Memories, Instructions

Uses == [Addrs -> {"none", "read", "write"}]

LEMMA AccessedTyped ==
  ASSUME NEW inst, NEW f \in Uses
  PROVE  Accessed(f, inst) \in Uses
BY DEF Accessed, Uses

(* What the host's steps do to the host's variables. *)
HostTyped == val \in [Ids -> Values] /\ known \subseteq Ids /\ captured \subseteq Ids

LEMMA ForgetsTyped ==
  ASSUME HostTyped, NEW id \in Ids, Forgets(id)
  PROVE  HostTyped' /\ moved' = moved
BY ValuesAssumption DEF HostTyped, Forgets

LEMMA ComputesTyped ==
  ASSUME HostTyped, NEW id \in Ids, NEW v \in Values, NEW operands, Computes(id, v, operands)
  PROVE  HostTyped' /\ moved' = moved
<1>1. CASE Forgets(id)
  BY <1>1, ForgetsTyped
<1>2. CASE ~Forgets(id)
  BY <1>2 DEF HostTyped, Computes
<1>3. QED
  BY <1>1, <1>2

-----------------------------------------------------------------------------
(* The induction step, action by action *)

(* What every action starts from. *)
LEMMA Facts ==
  ASSUME IInv
  PROVE  /\ Live \in SUBSET Ids /\ pinned \in SUBSET Ids /\ Held \in SUBSET (Nat \ {0})
         /\ AllocOK(alloc, Live, pinned, Held) /\ Fits(alloc)
         /\ HostTyped /\ mem \in Memories /\ inputs \in Memories /\ first \in Uses
         /\ data_parent \in [Addrs -> Addrs]
<1>1. alloc.next \in 1 .. MaxAddr + 1
  BY DEF IInv, TypeOK
<1>2. Held \in SUBSET (Nat \ {0})
  BY AddrsAssumption DEF Held
<1>3. Fits(alloc)
  BY <1>1, AddrsAssumption DEF Fits
<1>4. Live \in SUBSET Ids
  BY DEF Live
<1>5. QED
  BY <1>2, <1>3, <1>4 DEF IInv, TypeOK, HostTyped, Uses

(* What an action has to leave when it pins, moves and captures nothing. *)
LEMMA Keeps ==
  ASSUME IInv, AllocOK(alloc', Live, pinned, Held), Fits(alloc'),
         UNCHANGED <<pinned, refcount, control, inputs, moved>>,
         data_parent' \in [Addrs -> Addrs], mem' \in Memories, first' \in Uses, HostTyped'
  PROVE  IInv'
<1>1. Live' = Live /\ Held' = Held
  BY DEF Live, Held, Alive
<1>2. AllocOK(alloc', Live', pinned', Held')
  BY <1>1
<1>3. alloc' \in [map : [Ids -> Addrs], next : 1 .. MaxAddr + 1, pool : Seq(Addrs \ {0})]
  BY <1>2, AllocTyped
<1>4. QED
  BY <1>2, <1>3 DEF IInv, TypeOK, HostTyped, Uses, control

LEMMA ResolveTyped ==
  ASSUME NEW s \in Addrs, NEW d, data_parent \in [Addrs -> Addrs]
  PROVE  ResolveInplaceSrc(s, d) \in Addrs
BY DEF ResolveInplaceSrc

LEMMA BinaryStep ==
  ASSUME IInv, NEW op \in PolyPolyOps, NEW dst \in Ids, NEW src1 \in Ids, NEW src2 \in Ids,
         NEW m \in Moduli, Binary(op, dst, src1, src2, m)
  PROVE  IInv'
<1> DEFINE al1 == MapAddress(alloc, pinned, dst)
           al2 == MapAddress(al1, pinned, src1)
           al  == MapAddress(al2, pinned, src2)
           da  == al.map[dst]
           s1  == ResolveInplaceSrc(al.map[src1], da)
           inst == Instruction(op, da, s1, al.map[src2], 0, m)
           v   == Result(Instruction(op, 0, 0, 0, 0, m), val[src1], val[src2])
<1>1. /\ dst \in Live /\ src1 \in Live /\ src2 \in Live
      /\ Fits(al) /\ alloc' = al /\ Emit(inst) /\ InvalidateCloneParent(da)
      /\ Computes(dst, v, {src1, src2})
      /\ UNCHANGED <<pinned, refcount, control>>
  BY DEF Binary, Live
<1>2. AllocOK(al, Live, pinned, Held)
  <2>1. AllocOK(al1, Live, pinned, Held)
    BY <1>1, Facts, MapAddressOK
  <2> HIDE DEF al1
  <2>2. AllocOK(al2, Live, pinned, Held)
    BY <1>1, <2>1, Facts, MapAddressOK
  <2> HIDE DEF al2
  <2>3. QED
    BY <1>1, <2>2, Facts, MapAddressOK
<1> HIDE DEF al
<1>3. da \in Addrs /\ al.map[src1] \in Addrs /\ al.map[src2] \in Addrs
  BY <1>1, <1>2, AllocTyped
<1> HIDE DEF da
<1>4. s1 \in Addrs
  BY <1>3, Facts, ResolveTyped
<1> HIDE DEF s1
<1>5. op \in FhOpcode
  BY DEF FhOpcode
<1>6. inst \in Instructions /\ Instruction(op, 0, 0, 0, 0, m) \in Instructions
  BY <1>3, <1>4, <1>5, ZeroAddr, InstructionTyped
<1>7. v \in Values
  BY <1>6, Facts, ResultTyped DEF HostTyped
<1> HIDE DEF v, inst
<1>8. mem' \in Memories /\ first' \in Uses /\ inputs' = inputs
  BY <1>1, <1>6, Facts, ReplayedTyped, AccessedTyped DEF Emit
<1>9. HostTyped' /\ moved' = moved
  BY <1>1, <1>7, Facts, ComputesTyped
<1>10. data_parent' \in [Addrs -> Addrs]
  BY <1>1, <1>3, Facts, ZeroAddr DEF InvalidateCloneParent
<1>11. QED
  BY <1>1, <1>2, <1>8, <1>9, <1>10, Keeps

LEMMA OneSourceStep ==
  ASSUME IInv, NEW op \in FhOpcode, NEW dst \in Ids, NEW src \in Ids, NEW imm \in {0, 1},
         NEW m \in Moduli, OneSource(op, dst, src, imm, m)
  PROVE  IInv'
<1> DEFINE al1 == MapAddress(alloc, pinned, dst)
           al  == MapAddress(al1, pinned, src)
           da  == al.map[dst]
           sa  == ResolveInplaceSrc(al.map[src], da)
           inst == Instruction(op, da, sa, 0, imm, m)
           v   == Result(Instruction(op, 0, 0, 0, imm, m), val[src], val[src])
<1>1. /\ dst \in Live /\ src \in Live
      /\ Fits(al) /\ alloc' = al /\ Emit(inst) /\ InvalidateCloneParent(da)
      /\ Computes(dst, v, {src})
      /\ UNCHANGED <<pinned, refcount, control>>
  BY DEF OneSource, Live
<1>2. AllocOK(al, Live, pinned, Held)
  <2>1. AllocOK(al1, Live, pinned, Held)
    BY <1>1, Facts, MapAddressOK
  <2> HIDE DEF al1
  <2>2. QED
    BY <1>1, <2>1, Facts, MapAddressOK
<1> HIDE DEF al
<1>3. da \in Addrs /\ al.map[src] \in Addrs
  BY <1>1, <1>2, AllocTyped
<1> HIDE DEF da
<1>4. sa \in Addrs
  BY <1>3, Facts, ResolveTyped
<1> HIDE DEF sa
<1>5. inst \in Instructions /\ Instruction(op, 0, 0, 0, imm, m) \in Instructions
  BY <1>3, <1>4, ZeroAddr, InstructionTyped
<1>6. v \in Values
  BY <1>5, Facts, ResultTyped DEF HostTyped
<1> HIDE DEF v, inst
<1>7. mem' \in Memories /\ first' \in Uses /\ inputs' = inputs
  BY <1>1, <1>5, Facts, ReplayedTyped, AccessedTyped DEF Emit
<1>8. HostTyped' /\ moved' = moved
  BY <1>1, <1>6, Facts, ComputesTyped
<1>9. data_parent' \in [Addrs -> Addrs]
  BY <1>1, <1>3, Facts, ZeroAddr DEF InvalidateCloneParent
<1>10. QED
  BY <1>1, <1>2, <1>7, <1>8, <1>9, Keeps

LEMMA MultAccEqStep ==
  ASSUME IInv, NEW dst \in Ids, NEW acc \in Ids, NEW mul \in Ids, NEW imm \in {0, 1},
         NEW m \in Moduli, MultAccEq(dst, acc, mul, imm, m)
  PROVE  IInv'
<1> DEFINE al1 == MapAddress(alloc, pinned, dst)
           al2 == MapAddress(al1, pinned, acc)
           al  == MapAddress(al2, pinned, mul)
           da  == al.map[dst]
           sa  == ResolveInplaceSrc(al.map[acc], da)
           alr == ScratchReturned(al)
           tmp == alr.pool[Len(alr.pool)]
           i1  == Instruction("mulps", tmp, al.map[mul], 0, imm, m)
           i2  == Instruction("addp", da, sa, tmp, 0, m)
           product == Result(Instruction("mulps", 0, 0, 0, imm, m), val[mul], val[mul])
           v   == Result(Instruction("addp", 0, 0, 0, 0, m), val[acc], product)
<1>1. /\ dst \in Live /\ acc \in Live /\ mul \in Live
      /\ Fits(alr) /\ alloc' = alr /\ Emit2(i1, i2) /\ InvalidateCloneParent(da)
      /\ Computes(dst, v, {acc, mul})
      /\ UNCHANGED <<pinned, refcount, control>>
  BY DEF MultAccEq, Live
<1>2. AllocOK(al, Live, pinned, Held)
  <2>1. AllocOK(al1, Live, pinned, Held)
    BY <1>1, Facts, MapAddressOK
  <2> HIDE DEF al1
  <2>2. AllocOK(al2, Live, pinned, Held)
    BY <1>1, <2>1, Facts, MapAddressOK
  <2> HIDE DEF al2
  <2>3. QED
    BY <1>1, <2>2, Facts, MapAddressOK
<1> HIDE DEF al
<1>3. /\ AllocOK(alr, Live, pinned, Held) /\ alr.map = al.map
      /\ Len(alr.pool) \in 1 .. Len(alr.pool)
  BY <1>2, Facts, ScratchOK
<1> HIDE DEF alr
<1>4. da \in Addrs /\ al.map[acc] \in Addrs /\ al.map[mul] \in Addrs /\ tmp \in Addrs
  BY <1>1, <1>3, AllocTyped
<1> HIDE DEF da, tmp
<1>5. sa \in Addrs
  BY <1>4, Facts, ResolveTyped
<1> HIDE DEF sa
<1>6. "mulps" \in FhOpcode /\ "addp" \in FhOpcode
  BY DEF FhOpcode, PolyPolyOps, ScalarOps
<1>7. /\ i1 \in Instructions /\ i2 \in Instructions
      /\ Instruction("mulps", 0, 0, 0, imm, m) \in Instructions
      /\ Instruction("addp", 0, 0, 0, 0, m) \in Instructions
  BY <1>4, <1>5, <1>6, ZeroAddr, InstructionTyped
<1>8. product \in Values
  BY <1>7, Facts, ResultTyped DEF HostTyped
<1> HIDE DEF product
<1>9. v \in Values
  BY <1>7, <1>8, Facts, ResultTyped DEF HostTyped
<1> HIDE DEF v, i1, i2
<1>10. mem' \in Memories /\ first' \in Uses /\ inputs' = inputs
  BY <1>1, <1>7, Facts, ReplayedTyped, AccessedTyped DEF Emit2
<1>11. HostTyped' /\ moved' = moved
  BY <1>1, <1>9, Facts, ComputesTyped
<1>12. data_parent' \in [Addrs -> Addrs]
  BY <1>1, <1>4, Facts, ZeroAddr DEF InvalidateCloneParent
<1>13. QED
  BY <1>1, <1>3, <1>10, <1>11, <1>12, Keeps

LEMMA SwitchModulusStep ==
  ASSUME IInv, NEW dst \in Ids, NEW src \in Ids, NEW old \in Moduli, NEW new \in Moduli,
         NEW half \in {0, 1}, NEW neg \in {0, 1}, SwitchModulus(dst, src, old, new, half, neg)
  PROVE  IInv'
<1> DEFINE al1 == MapAddress(alloc, pinned, dst)
           al  == MapAddress(al1, pinned, src)
           d   == al.map[dst]
           s   == al.map[src]
           i1  == Instruction("mulps", d, s, 0, 1, old)
           i2  == Instruction("addps", d, d, 0, half, old)
           i3  == Instruction("mulps", d, d, 0, 1, new)
           i4  == Instruction("addps", d, d, 0, neg, new)
           v1  == Result(Instruction("mulps", 0, 0, 0, 1, old), val[src], val[src])
           v2  == Result(Instruction("addps", 0, 0, 0, half, old), v1, v1)
           v3  == Result(Instruction("mulps", 0, 0, 0, 1, new), v2, v2)
           v4  == Result(Instruction("addps", 0, 0, 0, neg, new), v3, v3)
<1>1. /\ dst \in Live /\ src \in Live
      /\ Fits(al) /\ alloc' = al /\ Emit4(i1, i2, i3, i4) /\ InvalidateCloneParent(d)
      /\ Computes(dst, v4, {src})
      /\ UNCHANGED <<pinned, refcount, control>>
  BY DEF SwitchModulus, Live
<1>2. AllocOK(al, Live, pinned, Held)
  <2>1. AllocOK(al1, Live, pinned, Held)
    BY <1>1, Facts, MapAddressOK
  <2> HIDE DEF al1
  <2>2. QED
    BY <1>1, <2>1, Facts, MapAddressOK
<1> HIDE DEF al
<1>3. d \in Addrs /\ s \in Addrs
  BY <1>1, <1>2, AllocTyped
<1> HIDE DEF d, s
<1>4. "mulps" \in FhOpcode /\ "addps" \in FhOpcode
  BY DEF FhOpcode, ScalarOps
<1>5. /\ i1 \in Instructions /\ i2 \in Instructions /\ i3 \in Instructions /\ i4 \in Instructions
      /\ Instruction("mulps", 0, 0, 0, 1, old) \in Instructions
      /\ Instruction("addps", 0, 0, 0, half, old) \in Instructions
      /\ Instruction("mulps", 0, 0, 0, 1, new) \in Instructions
      /\ Instruction("addps", 0, 0, 0, neg, new) \in Instructions
  BY <1>3, <1>4, ZeroAddr, InstructionTyped
<1>6. v1 \in Values
  BY <1>5, Facts, ResultTyped DEF HostTyped
<1> HIDE DEF v1
<1>7. v2 \in Values
  BY <1>5, <1>6, ResultTyped
<1> HIDE DEF v2
<1>8. v3 \in Values
  BY <1>5, <1>7, ResultTyped
<1> HIDE DEF v3
<1>9. v4 \in Values
  BY <1>5, <1>8, ResultTyped
<1> HIDE DEF v4, i1, i2, i3, i4
<1>10. mem' \in Memories
  <2>1. Replayed(mem, i1) \in Memories
    BY <1>5, Facts, ReplayedTyped
  <2>2. Replayed(Replayed(mem, i1), i2) \in Memories
    BY <1>5, <2>1, ReplayedTyped
  <2>3. Replayed(Replayed(Replayed(mem, i1), i2), i3) \in Memories
    BY <1>5, <2>2, ReplayedTyped
  <2>4. QED
    BY <1>1, <1>5, <2>3, ReplayedTyped DEF Emit4
<1>11. first' \in Uses /\ inputs' = inputs
  BY <1>1, Facts, AccessedTyped DEF Emit4
<1>12. HostTyped' /\ moved' = moved
  BY <1>1, <1>9, Facts, ComputesTyped
<1>13. data_parent' \in [Addrs -> Addrs]
  BY <1>1, <1>3, Facts, ZeroAddr DEF InvalidateCloneParent
<1>14. QED
  BY <1>1, <1>2, <1>10, <1>11, <1>12, <1>13, Keeps

LEMMA SetZeroStep ==
  ASSUME IInv, NEW dst \in Ids, NEW m \in Moduli \cup {0}, SetZero(dst, m)
  PROVE  IInv'
<1> DEFINE al == MapAddress(alloc, pinned, dst)
           a  == al.map[dst]
           inst == Instruction("mulps", a, a, 0, 0, m)
<1>1. /\ dst \in Live /\ Fits(al) /\ alloc' = al /\ Emit(inst) /\ InvalidateCloneParent(a)
      /\ Computes(dst, Zero, {})
      /\ UNCHANGED <<pinned, refcount, control>>
  BY DEF SetZero, Live
<1>2. AllocOK(al, Live, pinned, Held)
  BY <1>1, Facts, MapAddressOK
<1> HIDE DEF al
<1>3. a \in Addrs
  BY <1>1, <1>2, AllocTyped
<1> HIDE DEF a
<1>4. inst \in Instructions
  <2>1. "mulps" \in FhOpcode
    BY DEF FhOpcode, ScalarOps
  <2>2. QED
    BY <1>3, <2>1, ZeroAddr, InstructionTyped
<1> HIDE DEF inst
<1>5. mem' \in Memories /\ first' \in Uses /\ inputs' = inputs
  BY <1>1, <1>4, Facts, ReplayedTyped, AccessedTyped DEF Emit
<1>6. HostTyped' /\ moved' = moved
  BY <1>1, ValuesAssumption, Facts, ComputesTyped
<1>7. data_parent' \in [Addrs -> Addrs]
  BY <1>1, <1>3, Facts, ZeroAddr DEF InvalidateCloneParent
<1>8. QED
  BY <1>1, <1>2, <1>5, <1>6, <1>7, Keeps

LEMMA CopyStep ==
  ASSUME IInv, NEW dst \in Ids, NEW src \in Ids, Copy(dst, src)
  PROVE  IInv'
<1> DEFINE al1 == MapAddress(alloc, pinned, src)
           al  == MapAddress(al1, pinned, dst)
           sa  == al.map[src]
           da  == al.map[dst]
           inst == Instruction("addps", da, sa, 0, 0, 0)
<1>1. /\ dst \in Live /\ src \in Live /\ Fits(al) /\ alloc' = al /\ Emit(inst)
      /\ data_parent' = [data_parent EXCEPT ![da] = sa]
      /\ Computes(dst, val[src], {src})
      /\ UNCHANGED <<pinned, refcount, control>>
  BY DEF Copy, Live
<1>2. AllocOK(al, Live, pinned, Held)
  <2>1. AllocOK(al1, Live, pinned, Held)
    BY <1>1, Facts, MapAddressOK
  <2> HIDE DEF al1
  <2>2. QED
    BY <1>1, <2>1, Facts, MapAddressOK
<1> HIDE DEF al
<1>3. da \in Addrs /\ sa \in Addrs
  BY <1>1, <1>2, AllocTyped
<1> HIDE DEF da, sa
<1>4. inst \in Instructions
  <2>1. "addps" \in FhOpcode
    BY DEF FhOpcode, ScalarOps
  <2>2. QED
    BY <1>3, <2>1, ZeroAddr, InstructionTyped
<1> HIDE DEF inst
<1>5. mem' \in Memories /\ first' \in Uses /\ inputs' = inputs
  BY <1>1, <1>4, Facts, ReplayedTyped, AccessedTyped DEF Emit
<1>6. HostTyped' /\ moved' = moved
  <2>1. val[src] \in Values
    BY Facts DEF HostTyped
  <2>2. QED
    BY <1>1, <2>1, Facts, ComputesTyped
<1>7. data_parent' \in [Addrs -> Addrs]
  BY <1>1, <1>3, Facts
<1>8. QED
  BY <1>1, <1>2, <1>5, <1>6, <1>7, Keeps

(* What the actions that pin, move or capture have to leave. *)
LEMMA Closes ==
  ASSUME IInv, AllocOK(alloc', Live', pinned', Held'), Fits(alloc'),
         pinned' \subseteq Ids, refcount' \in [Ids -> 0 .. MaxRef],
         running' \in BOOLEAN, paused' \in BOOLEAN,
         suppressed' \in BOOLEAN, serialization' \in BOOLEAN,
         data_parent' \in [Addrs -> Addrs], mem' \in Memories, inputs' \in Memories,
         first' \in Uses, HostTyped', moved' \subseteq Ids
  PROVE  IInv'
<1>1. alloc' \in [map : [Ids -> Addrs], next : 1 .. MaxAddr + 1, pool : Seq(Addrs \ {0})]
  BY AllocTyped
<1>2. QED
  BY <1>1 DEF IInv, TypeOK, HostTyped, Uses

LEMMA TouchStep ==
  ASSUME IInv, NEW id \in Ids, Touch(id)
  PROVE  IInv'
<1>1. id \in Live /\ alloc' = MapAddress(alloc, pinned, id) /\ Fits(alloc')
  BY DEF Touch, Live
<1>2. AllocOK(alloc', Live, pinned, Held)
  BY <1>1, Facts, MapAddressOK
<1>3. HostTyped'
  BY Facts DEF HostTyped, Touch, host
<1>4. QED
  BY <1>1, <1>2, <1>3, Facts, Keeps DEF Touch, trace, host

LEMMA UnrecordedStep ==
  ASSUME IInv, NEW id \in Ids, Unrecorded(id)
  PROVE  IInv'
<1>1. HostTyped' /\ moved' = moved
  BY Facts, ForgetsTyped DEF Unrecorded
<1>2. QED
  BY <1>1, Facts, Keeps DEF Unrecorded, probe_vars, trace

LEMMA SampleStep ==
  ASSUME IInv, NEW id \in Ids, Sample(id)
  PROVE  IInv'
<1>1. id \in Live /\ pinned' = pinned \cup {id} /\ Fits(alloc')
      /\ alloc' = (IF ShouldRecord THEN MapAddress(alloc, pinned', id) ELSE alloc)
  BY DEF Sample, Live
<1>2. HostTyped' /\ moved' = moved
  BY Facts, ForgetsTyped DEF Sample
<1>3. AllocOK(alloc, Live, pinned', Held) /\ pinned' \in SUBSET Ids
  BY <1>1, Facts, PinOK
<1>4. AllocOK(alloc', Live, pinned', Held)
  <2>1. AllocOK(MapAddress(alloc, pinned', id), Live, pinned', Held)
    BY <1>1, <1>3, Facts, MapAddressOK
  <2>2. QED
    BY <1>1, <1>3, <2>1
<1>5. Live' = Live /\ Held' = Held
  BY <1>2 DEF Sample, Live, Held, Alive, trace
<1>6. AllocOK(alloc', Live', pinned', Held')
  BY <1>4, <1>5
<1>7. /\ refcount' \in [Ids -> 0 .. MaxRef] /\ moved' \subseteq Ids
      /\ running' \in BOOLEAN /\ paused' \in BOOLEAN
      /\ suppressed' \in BOOLEAN /\ serialization' \in BOOLEAN
      /\ data_parent' \in [Addrs -> Addrs] /\ mem' \in Memories /\ inputs' \in Memories
      /\ first' \in Uses
  BY <1>2 DEF Sample, IInv, TypeOK, Uses, control, trace
<1>8. QED
  BY <1>1, <1>2, <1>3, <1>6, <1>7, Closes

LEMMA PrecomputeStep ==
  ASSUME IInv, NEW id \in Ids, Precompute(id)
  PROVE  IInv'
<1>1. id \in Live /\ pinned' = pinned \cup {id} /\ alloc' = alloc
  BY DEF Precompute, Live
<1>2. HostTyped' /\ moved' = moved
  BY Facts, ForgetsTyped DEF Precompute
<1>3. AllocOK(alloc, Live, pinned', Held) /\ pinned' \in SUBSET Ids
  BY <1>1, Facts, PinOK
<1>4. Live' = Live /\ Held' = Held
  BY <1>2 DEF Precompute, Live, Held, Alive, trace
<1>5. AllocOK(alloc', Live', pinned', Held') /\ Fits(alloc')
  BY <1>1, <1>3, <1>4, Facts
<1>6. /\ refcount' \in [Ids -> 0 .. MaxRef] /\ moved' \subseteq Ids
      /\ running' \in BOOLEAN /\ paused' \in BOOLEAN
      /\ suppressed' \in BOOLEAN /\ serialization' \in BOOLEAN
      /\ data_parent' \in [Addrs -> Addrs] /\ mem' \in Memories /\ inputs' \in Memories
      /\ first' \in Uses
  BY <1>2 DEF Precompute, IInv, TypeOK, Uses, control, trace
<1>7. QED
  BY <1>2, <1>3, <1>5, <1>6, Closes

LEMMA NewIdStep ==
  ASSUME IInv, NEW id \in Ids, NewId(id)
  PROVE  IInv'
<1>1. /\ alloc.map[id] = 0 /\ id \notin pinned
      /\ refcount' = [refcount EXCEPT ![id] = 1]
      /\ UNCHANGED <<alloc, pinned, data_parent, control, trace, host>>
  BY DEF NewId
<1>2. refcount' \in [Ids -> 0 .. MaxRef]
  BY <1>1, MaxRefAssumption DEF IInv, TypeOK
<1>3. Live' \subseteq Live \cup {id} /\ Held' = Held
  BY <1>1 DEF Live, Held, Alive, IInv, TypeOK, host, trace
<1>4. AllocOK(alloc, Live \cup {id}, pinned, Held)
  <2>1. Owned(alloc, Live) /\ alloc \in AllocType /\ Live \subseteq Ids
    BY Facts DEF AllocOK, Owned
  <2>2. \A k \in 1 .. Len(alloc.pool) : alloc.pool[k] # 0
    BY <2>1, ElementOfSeq DEF AllocType
  <2>3. Owned(alloc, Live \cup {id})
    BY <1>1, <2>1, <2>2 DEF Owned
  <2>4. ASSUME Kept(alloc, Live, pinned, Held) PROVE Kept(alloc, Live \cup {id}, pinned, Held)
    BY <1>1, <2>4 DEF Kept, Held
  <2>5. QED
    BY <2>3, <2>4, Facts DEF AllocOK
<1>5. AllocOK(alloc', Live', pinned', Held') /\ Fits(alloc')
  <2>1. AllocOK(alloc, Live', pinned, Held)
    BY <1>3, <1>4, ShrinkOK
  <2>2. QED
    BY <1>1, <1>3, <2>1, Facts
<1>6. HostTyped'
  BY <1>1, Facts DEF HostTyped, host
<1>7. QED
  BY <1>1, <1>2, <1>5, <1>6, Facts, Closes DEF IInv, TypeOK, control, trace, host, Uses

(* A moved-to id takes over the address of an id that is then dead. *)
LEMMA TakeOverOK ==
  ASSUME NEW al, NEW live \in SUBSET Ids, NEW pins \in SUBSET Ids, NEW held \in SUBSET (Nat \ {0}),
         AllocOK(al, live, pins, held), NEW dst \in live, NEW src \in live, dst # src,
         al.map[src] # 0, "pinned_stay" \in Rules => src \notin pins,
         NEW b, b = [al EXCEPT !.map[dst] = al.map[src]]
  PROVE  AllocOK(b, live \ {src}, pins, held) /\ b.next = al.next
<1>1. al \in AllocType /\ Owned(al, live)
  BY DEF AllocOK, Owned
<1>2. /\ b \in AllocType /\ b.next = al.next /\ b.pool = al.pool
      /\ b.map[dst] = al.map[src] /\ \A j \in Ids \ {dst} : b.map[j] = al.map[j]
  BY <1>1 DEF AllocType
<1>3. Owned(b, live \ {src})
  BY <1>1, <1>2 DEF Owned
<1>4. ASSUME Kept(al, live, pins, held), src \notin pins PROVE Kept(b, live \ {src}, pins, held)
  <2>1. \A p \in pins, j \in live \ {src} : j # p /\ b.map[p] # 0 => b.map[j] # b.map[p]
    BY <1>1, <1>2, <1>4 DEF Kept, Owned
  <2>2. \A k \in 1 .. Len(b.pool) : \A p \in pins : b.map[p] # b.pool[k]
    BY <1>1, <1>2, <1>4 DEF Kept, Owned
  <2>3. \A a \in held : /\ a < b.next
                        /\ \A k \in 1 .. Len(b.pool) : a # b.pool[k]
                        /\ \A j \in live \ {src} : b.map[j] = a => j \in pins
    BY <1>2, <1>4 DEF Kept
  <2>4. QED
    BY <2>1, <2>2, <2>3 DEF Kept
<1>5. QED
  BY <1>2, <1>3, <1>4 DEF AllocOK

LEMMA MoveStep ==
  ASSUME IInv, NEW dst \in Ids, NEW src \in Ids, Move(dst, src)
  PROVE  IInv'
<1> DEFINE al == MapAddress(alloc, pinned, src)
<1>1. /\ dst \in Live /\ src \in Live /\ dst # src /\ Fits(al)
      /\ "pinned_stay" \in Rules => src \notin pinned
      /\ alloc' = [al EXCEPT !.map[dst] = al.map[src]]
      /\ UNCHANGED <<pinned, refcount, data_parent, control, trace>>
  BY DEF Move, Live
<1>2. AllocOK(al, Live, pinned, Held) /\ al.map[src] # 0
  BY <1>1, Facts, MapAddressOK
<1> HIDE DEF al
<1>3. AllocOK(alloc', Live \ {src}, pinned, Held) /\ alloc'.next = al.next
  BY <1>1, <1>2, Facts, TakeOverOK
<1>4. Live' \subseteq Live \ {src} /\ Held' = Held
  BY <1>1 DEF Move, Live, Held, Alive, trace
<1>5. AllocOK(alloc', Live', pinned', Held') /\ Fits(alloc')
  <2>1. AllocOK(alloc', Live', pinned, Held)
    BY <1>3, <1>4, ShrinkOK
  <2>2. QED
    BY <1>1, <1>3, <1>4, <2>1 DEF Fits
<1>6. HostTyped' /\ moved' \subseteq Ids
  BY Facts, ValuesAssumption DEF Move, HostTyped, IInv, TypeOK
<1>7. QED
  BY <1>1, <1>5, <1>6, Closes DEF IInv, TypeOK, control, trace, Uses

Returned(al, id) == [al EXCEPT !.map[id] = 0, !.pool = Append(@, al.map[id])]

(* The address of an unpinned id that dies goes to the end of the pool. *)
LEMMA FreeOK ==
  ASSUME NEW al, NEW live \in SUBSET Ids, NEW pins \in SUBSET Ids, NEW held \in SUBSET (Nat \ {0}),
         AllocOK(al, live, pins, held), NEW id \in live, id \notin pins, al.map[id] # 0,
         NEW b, b = Returned(al, id)
  PROVE  AllocOK(b, live \ {id}, pins, held) /\ b.next = al.next
<1> DEFINE n == Len(al.pool)
<1>1. al \in AllocType /\ Owned(al, live)
  BY DEF AllocOK, Owned
<1>2. /\ al.pool \in Seq(Nat \ {0}) /\ al.map[id] \in Nat \ {0} /\ n \in Nat
      /\ al.map \in [Ids -> Nat] /\ al.next \in Nat \ {0}
  BY <1>1, LenProperties DEF AllocType
<1>3. /\ b.pool = Append(al.pool, al.map[id]) /\ b.next = al.next
      /\ b.map[id] = 0 /\ b.map \in [Ids -> Nat]
      /\ \A j \in Ids \ {id} : b.map[j] = al.map[j]
  BY <1>1, <1>2 DEF AllocType, Returned
<1>4. /\ b.pool \in Seq(Nat \ {0}) /\ Len(b.pool) = n + 1
      /\ \A k \in 1 .. n : b.pool[k] = al.pool[k]
      /\ b.pool[n + 1] = al.map[id]
  BY <1>2, <1>3, AppendProperties
<1>5. b \in AllocType
  BY <1>1, <1>3, <1>4 DEF AllocType, Returned
<1>6. /\ \A j \in Ids : al.map[j] < al.next
      /\ \A i, j \in live : i # j /\ al.map[i] # 0 => al.map[i] # al.map[j]
      /\ \A k \in 1 .. n :
           /\ al.pool[k] < al.next
           /\ \A j \in live : al.map[j] # al.pool[k]
           /\ \A l \in 1 .. n : al.pool[k] = al.pool[l] => k = l
  BY <1>1 DEF Owned
<1> HIDE DEF n
<1>7. \A k \in 1 .. n + 1 : k \in 1 .. n \/ k = n + 1
  BY <1>2
<1>8. Owned(b, live \ {id})
  <2>1. \A j \in Ids : b.map[j] < b.next
    BY <1>2, <1>3, <1>6
  <2>2. \A i, j \in live \ {id} : i # j /\ b.map[i] # 0 => b.map[i] # b.map[j]
    BY <1>3, <1>6
  <2>3. ASSUME NEW k \in 1 .. n + 1
        PROVE  /\ b.pool[k] < b.next
               /\ \A j \in live \ {id} : b.map[j] # b.pool[k]
               /\ \A l \in 1 .. n + 1 : b.pool[k] = b.pool[l] => k = l
    <3>1. b.pool[k] < b.next /\ \A j \in live \ {id} : b.map[j] # b.pool[k]
      BY <1>3, <1>4, <1>6, <1>7
    <3>2. ASSUME NEW l \in 1 .. n + 1, b.pool[k] = b.pool[l] PROVE k = l
      <4>1. CASE k \in 1 .. n /\ l \in 1 .. n
        BY <3>2, <4>1, <1>4, <1>6
      <4>2. CASE k = n + 1 /\ l = n + 1
        BY <4>2
      <4>3. ASSUME NEW i \in 1 .. n PROVE b.pool[i] # b.pool[n + 1]
        BY <1>4, <1>6
      <4>4. QED
        BY <3>2, <4>1, <4>2, <4>3, <1>7
    <3>3. QED
      BY <3>1, <3>2
  <2>4. QED
    BY <1>4, <1>5, <2>1, <2>2, <2>3 DEF Owned
<1>9. ASSUME Kept(al, live, pins, held) PROVE Kept(b, live \ {id}, pins, held)
  <2>1. /\ \A p \in pins, j \in live : j # p /\ al.map[p] # 0 => al.map[j] # al.map[p]
        /\ \A k \in 1 .. n : \A p \in pins : al.map[p] # al.pool[k]
        /\ \A a \in held :
             /\ a < al.next
             /\ \A k \in 1 .. n : a # al.pool[k]
             /\ \A j \in live : al.map[j] = a => j \in pins
    BY <1>9 DEF Kept, n
  <2>2. \A p \in pins : p # id /\ b.map[p] = al.map[p]
    BY <1>3
  <2>3. \A p \in pins, j \in live \ {id} : j # p /\ b.map[p] # 0 => b.map[j] # b.map[p]
    BY <2>1, <2>2, <1>3
  <2>4. ASSUME NEW k \in 1 .. n + 1, NEW p \in pins PROVE b.map[p] # b.pool[k]
    BY <2>1, <2>2, <1>4, <1>7
  <2>5. ASSUME NEW a \in held
        PROVE  /\ a < b.next
               /\ \A k \in 1 .. n + 1 : a # b.pool[k]
               /\ \A j \in live \ {id} : b.map[j] = a => j \in pins
    <3>1. a < b.next /\ \A j \in live \ {id} : b.map[j] = a => j \in pins
      BY <2>1, <1>3
    <3>2. ASSUME NEW k \in 1 .. n + 1 PROVE a # b.pool[k]
      BY <2>1, <1>4, <1>7
    <3>3. QED
      BY <3>1, <3>2
  <2>6. QED
    BY <1>4, <2>3, <2>4, <2>5 DEF Kept
<1>10. QED
  BY <1>3, <1>8, <1>9 DEF AllocOK

LEMMA ReassignIdStep ==
  ASSUME IInv, NEW dst_old \in Ids, NEW src \in Ids, ReassignId(dst_old, src)
  PROVE  IInv'
<1> DEFINE rc    == [[refcount EXCEPT ![src] = @ + 1] EXCEPT ![dst_old] = @ - 1]
           dies  == rc[dst_old] = 0
           a     == alloc.map[dst_old]
           frees == Frees(dst_old, dies)
<1>1. /\ dst_old \in Live /\ src \in Live
      /\ rc[src] <= MaxRef /\ refcount' = rc
      /\ alloc' = IF frees THEN [alloc EXCEPT !.map[dst_old] = 0, !.pool = Append(@, a)] ELSE alloc
      /\ data_parent' = IF frees THEN [data_parent EXCEPT ![a] = 0] ELSE data_parent
      /\ IF dies THEN Forgets(dst_old) ELSE UNCHANGED host
      /\ UNCHANGED <<pinned, control, trace>>
  BY DEF ReassignId, Live
<1>2. refcount \in [Ids -> 0 .. MaxRef] /\ refcount[dst_old] > 0 /\ refcount[src] > 0
  BY <1>1 DEF IInv, TypeOK, Live, Alive
<1>3. /\ refcount' \in [Ids -> 0 .. MaxRef]
      /\ \A j \in Ids \ {dst_old, src} : refcount'[j] = refcount[j]
  BY <1>1, <1>2, MaxRefAssumption
<1>4. HostTyped' /\ moved' = moved
  BY <1>1, Facts, ForgetsTyped DEF host, HostTyped
<1>5. Live' \subseteq Live /\ Held' = Held
  BY <1>1, <1>3, <1>4 DEF Live, Held, Alive, trace
<1>6. a \in Addrs
  BY Facts, AllocTyped
<1>7. data_parent' \in [Addrs -> Addrs]
  BY <1>1, <1>6, Facts, ZeroAddr
<1>8. AllocOK(alloc', Live', pinned', Held') /\ Fits(alloc')
  <2>1. CASE frees
    <3>1. refcount'[dst_old] = 0 /\ dst_old \notin pinned /\ alloc.map[dst_old] # 0
      BY <1>1, <2>1 DEF Frees
    <3>2. Live' \subseteq Live \ {dst_old}
      <4>1. dst_old \notin Live'
        BY <3>1 DEF Live, Alive
      <4>2. QED
        BY <1>5, <4>1
    <3>3. alloc' = Returned(alloc, dst_old)
      BY <1>1, <2>1 DEF Returned
    <3>4. AllocOK(alloc', Live \ {dst_old}, pinned, Held) /\ alloc'.next = alloc.next
      <4>1. dst_old \in Live
        BY <1>1
      <4>2. /\ Live \in SUBSET Ids /\ pinned \in SUBSET Ids /\ Held \in SUBSET (Nat \ {0})
            /\ AllocOK(alloc, Live, pinned, Held)
        BY Facts
      <4> HIDE DEF rc, dies, frees, a
      <4>3. /\ AllocOK(Returned(alloc, dst_old), Live \ {dst_old}, pinned, Held)
            /\ Returned(alloc, dst_old).next = alloc.next
        BY <3>1, <4>1, <4>2, FreeOK
      <4>4. QED
        BY <3>3, <4>3
    <3>5. AllocOK(alloc', Live', pinned, Held)
      BY <3>2, <3>4, ShrinkOK
    <3>6. QED
      BY <1>1, <1>5, <3>4, <3>5, Facts DEF Fits
  <2>2. CASE ~frees
    <3>1. AllocOK(alloc, Live', pinned, Held)
      BY <1>5, Facts, ShrinkOK
    <3>2. QED
      BY <1>1, <1>5, <2>2, <3>1, Facts
  <2>3. QED
    BY <2>1, <2>2
<1>9. QED
  BY <1>1, <1>3, <1>4, <1>7, <1>8, Facts, Closes DEF IInv, TypeOK, control, trace, Uses

LEMMA CaptureStep ==
  ASSUME IInv, NEW id \in Ids, NEW v \in Values, Capture(id, v)
  PROVE  IInv'
<1> DEFINE pins == pinned \cup {id}
           al   == MapAddress(alloc, pins, id)
           a    == al.map[id]
<1>1. /\ id \in Live /\ Fits(al) /\ pinned' = pins /\ alloc' = al
      /\ inputs' = [inputs EXCEPT ![a] = v]
      /\ mem' = [mem EXCEPT ![a] = v] \/ mem' = mem \/ mem' \in Memories
      /\ val' = [val EXCEPT ![id] = v]
      /\ known' = known \cup {id} /\ captured' = captured \cup {id}
      /\ UNCHANGED <<refcount, data_parent, control, first, moved>>
  BY DEF Capture, Live
<1>2. pins \in SUBSET Ids /\ AllocOK(alloc, Live, pins, Held)
  BY <1>1, Facts, PinOK
<1>3. AllocOK(al, Live, pins, Held) /\ a # 0
  BY <1>1, <1>2, Facts, MapAddressOK
<1> HIDE DEF al
<1>4. a \in Addrs
  BY <1>1, <1>3, AllocTyped
<1>5. AllocOK(al, Live, pins, Held \cup {al.map[id]})
  BY <1>1, <1>2, <1>3, Facts, HoldOK
<1>6. Live' = Live /\ Held' \subseteq Held \cup {a}
  BY <1>1, Facts DEF Live, Held, Alive, Memories
<1>7. AllocOK(alloc', Live', pinned', Held') /\ Fits(alloc')
  <2>1. AllocOK(al, Live, pins, Held')
    BY <1>5, <1>6, ShrinkOK
  <2>2. QED
    BY <1>1, <1>6, <2>1
<1>8. HostTyped'
  BY <1>1, Facts DEF HostTyped
<1>9. mem' \in Memories /\ inputs' \in Memories
  BY <1>1, <1>4, Facts DEF Memories
<1>10. QED
  BY <1>1, <1>2, <1>7, <1>8, <1>9, Closes DEF IInv, TypeOK, control, Uses

(* reserve_fhetch_addresses() only ever raises the next fresh address. *)
LEMMA ReserveStep ==
  ASSUME IInv, NEW n \in Addrs, ReserveAddresses(n)
  PROVE  IInv'
<1> DEFINE nx == IF n > alloc.next THEN n ELSE alloc.next
           b  == [alloc EXCEPT !.next = nx]
<1>1. alloc' = b /\ n <= MaxAddr /\ n \in Nat
      /\ UNCHANGED <<pinned, refcount, data_parent, control, trace, host>>
  BY AddrsAssumption DEF ReserveAddresses
<1>2. alloc \in AllocType /\ Owned(alloc, Live)
  BY Facts DEF AllocOK, Owned
<1>3. /\ b \in AllocType /\ b.map = alloc.map /\ b.pool = alloc.pool
      /\ b.next >= alloc.next /\ (b.next = n \/ b.next = alloc.next)
      /\ alloc.next \in Nat /\ b.next \in Nat
  <2>1. alloc.next \in Nat \ {0}
    BY <1>2 DEF AllocType
  <2>2. nx \in Nat \ {0} /\ nx >= alloc.next /\ (nx = n \/ nx = alloc.next)
    BY <1>1, <2>1
  <2> HIDE DEF nx
  <2>3. QED
    BY <1>2, <2>1, <2>2 DEF AllocType
<1>4. /\ \A j \in Ids : alloc.map[j] \in Nat
      /\ \A k \in 1 .. Len(alloc.pool) : alloc.pool[k] \in Nat
  BY <1>2, ElementOfSeq DEF AllocType
<1> HIDE DEF b
<1>5. Owned(b, Live)
  BY <1>2, <1>3, <1>4 DEF Owned
<1>6. ASSUME Kept(alloc, Live, pinned, Held) PROVE Kept(b, Live, pinned, Held)
  BY <1>3, <1>6, Facts DEF Kept
<1>7. AllocOK(alloc', Live, pinned, Held)
  BY <1>1, <1>5, <1>6, Facts DEF AllocOK
<1>8. Fits(alloc')
  BY <1>1, <1>3, Facts, AddrsAssumption DEF Fits
<1>9. HostTyped'
  BY <1>1, Facts DEF HostTyped, host
<1>10. QED
  BY <1>1, <1>7, <1>8, <1>9, Facts, Keeps DEF trace, host

LEMMA SessionStep ==
  ASSUME IInv, Start \/ Stop \/ StopEpoch \/ Reset \/ Pause \/ Resume
                 \/ \E on \in BOOLEAN : SuppressProbes(on) \/ SetSerializationThread(on)
  PROVE  IInv'
<1>1. alloc' = alloc /\ pinned' = pinned /\ refcount' = refcount /\ data_parent' = data_parent
      /\ moved' = moved
  BY DEF Start, Stop, StopEpoch, Reset, Pause, Resume, SuppressProbes, SetSerializationThread,
         NewTrace, probe_vars, host
<1>2. /\ running' \in BOOLEAN /\ paused' \in BOOLEAN
      /\ suppressed' \in BOOLEAN /\ serialization' \in BOOLEAN
  BY DEF Start, Stop, StopEpoch, Reset, Pause, Resume, SuppressProbes, SetSerializationThread,
         NewTrace, IInv, TypeOK
<1>3. mem' \in Memories /\ inputs' \in Memories /\ Held' \subseteq Held
  <2>1. inputs' = inputs \/ inputs' = [a \in Addrs |-> Absent]
    BY DEF Start, Stop, StopEpoch, Reset, Pause, Resume, SuppressProbes, SetSerializationThread,
           NewTrace, trace
  <2>2. mem' = mem \/ mem' = inputs \/ mem' = [a \in Addrs |-> Absent]
    BY DEF Start, Stop, StopEpoch, Reset, Pause, Resume, SuppressProbes, SetSerializationThread,
           NewTrace, trace
  <2>3. QED
    BY <2>1, <2>2, Facts DEF Memories, Held
<1>4. first' \in Uses
  BY Facts DEF Start, Stop, StopEpoch, Reset, Pause, Resume, SuppressProbes,
               SetSerializationThread, NewTrace, trace, Uses
<1>5. HostTyped'
  BY Facts, ValuesAssumption
     DEF Start, Stop, StopEpoch, Reset, Pause, Resume, SuppressProbes, SetSerializationThread,
         NewTrace, host, HostTyped
<1>6. AllocOK(alloc', Live', pinned', Held') /\ Fits(alloc')
  <2>1. Live' = Live
    BY <1>1 DEF Live, Alive
  <2>2. AllocOK(alloc, Live, pinned, Held')
    BY <1>3, Facts, ShrinkOK
  <2>3. QED
    BY <1>1, <2>1, <2>2, Facts
<1>7. QED
  BY <1>1, <1>2, <1>3, <1>4, <1>5, <1>6, Closes DEF IInv, TypeOK

(* Every step of the probes, the host and the session preserves IInv. *)
LEMMA IInvStep == IInv /\ [Next]_vars => IInv'
<1> SUFFICES ASSUME IInv, [Next]_vars PROVE IInv'
  OBVIOUS
<1>1. CASE ArithmeticNext(Ops, Imms)
  <2>1. PICK m \in Moduli, d \in Ids, s \in Ids :
          \/ \E op \in PolyPolyOps \cap Ops, s2 \in Ids : Binary(op, d, s, s2, m)
          \/ \E op \in {"addps", "subps", "mulps"} \cap Ops, imm \in Imms : Scalar(op, d, s, imm, m)
          \/ \E op \in {"ntt", "intt", "automorph_eval"} \cap Ops : Transform(op, d, s, m)
          \/ \E s2 \in Ids, imm \in Imms : MultAccEq(d, s, s2, imm, m)
          \/ \E new \in Moduli, half, neg \in Imms : SwitchModulus(d, s, m, new, half, neg)
    BY <1>1 DEF ArithmeticNext
  <2>2. ASSUME NEW op \in PolyPolyOps \cap Ops, NEW s2 \in Ids, Binary(op, d, s, s2, m)
        PROVE  IInv'
    BY <2>2, BinaryStep
  <2>3. ASSUME NEW op \in Ops, NEW imm \in Imms, Scalar(op, d, s, imm, m) PROVE IInv'
    BY <2>3, OpsAssumption, OneSourceStep DEF Scalar
  <2>4. ASSUME NEW op \in Ops, Transform(op, d, s, m) PROVE IInv'
    BY <2>4, OpsAssumption, OneSourceStep DEF Transform
  <2>5. ASSUME NEW s2 \in Ids, NEW imm \in Imms, MultAccEq(d, s, s2, imm, m) PROVE IInv'
    BY <2>5, OpsAssumption, MultAccEqStep
  <2>6. ASSUME NEW new \in Moduli, NEW half \in Imms, NEW neg \in Imms,
               SwitchModulus(d, s, m, new, half, neg)
        PROVE  IInv'
    BY <2>6, OpsAssumption, SwitchModulusStep
  <2>7. QED
    BY <2>1, <2>2, <2>3, <2>4, <2>5, <2>6
<1>2. CASE LifecycleNext
  BY <1>2, SetZeroStep, CaptureStep, UnrecordedStep, NewIdStep, TouchStep, SampleStep,
     PrecomputeStep, CopyStep, MoveStep, ReassignIdStep DEF LifecycleNext
<1>3. CASE SessionNext
  BY <1>3, SessionStep, ReserveStep DEF SessionNext
<1>4. CASE UNCHANGED vars
  <2>1. UNCHANGED <<alloc, pinned, refcount, data_parent, running, paused, suppressed,
                    serialization, mem, first, inputs, val, known, captured, moved>>
    BY <1>4 DEF vars, probe_vars, control, trace, host
  <2>2. Live' = Live /\ Held' = Held
    BY <2>1 DEF Live, Held, Alive
  <2>3. QED
    BY <2>1, <2>2 DEF IInv, TypeOK
<1>5. QED
  BY <1>1, <1>2, <1>3, <1>4 DEF Next, NextWith

LEMMA IInvInit == Init => IInv
<1> SUFFICES ASSUME Init PROVE IInv
  OBVIOUS
<1>1. /\ alloc \in AllocType /\ alloc.next = 1 /\ Len(alloc.pool) = 0
      /\ \A id \in Ids : alloc.map[id] = 0
  BY EmptySeq DEF Init, AllocType
<1>2. Live = {} /\ pinned = {} /\ Held = {}
  BY DEF Init, Live, Alive, Held
<1>3. AllocOK(alloc, Live, pinned, Held)
  BY <1>1, <1>2 DEF AllocOK, Owned, Kept
<1>4. Fits(alloc)
  BY <1>1, AddrsAssumption DEF Fits
<1>5. alloc \in [map : [Ids -> Addrs], next : 1 .. MaxAddr + 1, pool : Seq(Addrs \ {0})]
  BY <1>3, <1>4, AllocTyped
<1>6. TypeOK
  <2>1. refcount \in [Ids -> 0 .. MaxRef]
    BY MaxRefAssumption DEF Init
  <2>2. data_parent \in [Addrs -> Addrs] /\ val \in [Ids -> Values]
    BY ValuesAssumption, ZeroAddr DEF Init
  <2>3. mem \in Memories /\ inputs \in Memories /\ first \in [Addrs -> {"none", "read", "write"}]
    BY DEF Init, Memories
  <2>4. /\ running \in BOOLEAN /\ paused \in BOOLEAN
        /\ suppressed \in BOOLEAN /\ serialization \in BOOLEAN
        /\ pinned \subseteq Ids /\ known \subseteq Ids
        /\ captured \subseteq Ids /\ moved \subseteq Ids
    BY DEF Init
  <2>5. QED
    BY <1>5, <2>1, <2>2, <2>3, <2>4 DEF TypeOK
<1>7. QED
  BY <1>3, <1>6 DEF IInv

(* The invariant the theorems below follow from. *)
THEOREM ProbesInvariant == Spec => []IInv
BY IInvInit, IInvStep, PTL DEF Spec

(* The probes' maps, pool and reference counts keep their types, and no    *)
(* instruction is built from an address that was never allocated.          *)
THEOREM ProbesTypeOK == Spec => []TypeOK
<1>1. IInv => TypeOK
  BY DEF IInv
<1>2. QED
  BY <1>1, ProbesInvariant, PTL

(* map_address, the scratch addresses of multacceq, moves and the          *)
(* reassignments never give one address to two usable polynomials, nor     *)
(* leave a used address in the free pool.                                  *)
THEOREM ProbesOneOwner == Spec => []OneOwner
<1>1. IInv => OneOwner
  BY DEF IInv, AllocOK, Owned, OneOwner, Live
<1>2. QED
  BY <1>1, ProbesInvariant, PTL

(* reassign_id never recycles the address of a pinned polynomial or of a   *)
(* stored input, provided pinned polynomials are not moved.                *)
THEOREM ProbesPinnedNeverPooled ==
  ASSUME "pinned_stay" \in Rules
  PROVE  Spec => []PinnedNeverPooled
<1>1. IInv => PinnedNeverPooled
  <2> SUFFICES ASSUME IInv, NEW k \in 1 .. Len(alloc.pool)
               PROVE  /\ \A id \in pinned : alloc.map[id] # alloc.pool[k]
                      /\ inputs[alloc.pool[k]] = Absent
    BY DEF PinnedNeverPooled
  <2>1. Kept(alloc, Live, pinned, Held)
    BY Facts DEF AllocOK
  <2>2. alloc.pool[k] \in Addrs \ {0}
    BY Facts, AllocTyped
  <2>3. alloc.pool[k] \notin Held
    BY <2>1 DEF Kept
  <2>4. QED
    BY <2>1, <2>2, <2>3 DEF Kept, Held
<1>2. QED
  BY <1>1, ProbesInvariant, PTL

-----------------------------------------------------------------------------
(* From here on: the trace the probes record reproduces what the host      *)
(* computed.  Replaying it finds every polynomial at its address, reading  *)
(* a clone parent in place of a source is sound, and captured inputs stay  *)
(* where the next trace reads them.                                        *)

-----------------------------------------------------------------------------
(* The inductive invariant, on top of the allocator's *)

(* The calling disciplines a faithful replay rests on. *)
Followed == {"clone_first", "capture_first", "recapture_same", "fresh_lineage"} \subseteq Rules

(* What the host knows is alive and mapped, and its inputs are stored. *)
Tracked ==
  /\ captured \subseteq known /\ known \subseteq Live
  /\ \A id \in known : alloc.map[id] # 0
  /\ InputsStayLoadable

(* The clone parent of a known polynomial has been read by the trace, so   *)
(* no input can be captured over it any more.                              *)
ParentsRead ==
  \A id \in known :
    LET p == data_parent[alloc.map[id]] IN p # 0 => first[p] # "none"

(* An address that was given out and has not been freed since. *)
InUse(al, a) == a < al.next /\ \A k \in 1 .. Len(al.pool) : al.pool[k] # a

(* The clone parent of a known polynomial has not been let go: neither a   *)
(* recycled nor a scratch address can overwrite it.                        *)
ParentsInUse ==
  \A id \in known :
    LET p == data_parent[alloc.map[id]] IN p # 0 => InUse(alloc, p)

Faithful == Followed => ReplayFaithful /\ LineageSound /\ ParentsRead /\ ParentsInUse

RInv == IInv /\ Tracked /\ Faithful

-----------------------------------------------------------------------------
(* Allocation never moves a polynomial that has an address *)

(* Addresses in use stay in use, and none is handed out again. *)
TakesUnused(al, b) ==
  \A q \in Addrs : InUse(al, q) =>
    InUse(b, q) /\ \A id \in Ids : al.map[id] = 0 => b.map[id] # q \/ q = 0

Extends(al, b) ==
  /\ \A id \in Ids : al.map[id] # 0 => b.map[id] = al.map[id]
  /\ TakesUnused(al, b)

LEMMA SameTakes ==
  ASSUME NEW al, NEW b, b.map = al.map, b.next = al.next, b.pool = al.pool
  PROVE  TakesUnused(al, b) /\ Extends(al, b)
BY DEF TakesUnused, InUse, Extends

LEMMA ExtendsTwice ==
  ASSUME NEW al, NEW b, NEW c, Extends(al, b), Extends(b, c)
  PROVE  Extends(al, c)
<1>1. \A id \in Ids : al.map[id] # 0 => c.map[id] = al.map[id]
  BY DEF Extends
<1>2. TakesUnused(al, c)
  BY DEF Extends, TakesUnused
<1>3. QED
  BY <1>1, <1>2 DEF Extends

(* A recycled address comes out of the pool, a fresh one is new. *)
LEMMA MapAddressTakes ==
  ASSUME NEW al \in AllocType, NEW pins, NEW id \in Ids
  PROVE  TakesUnused(al, MapAddress(al, pins, id))
<1> DEFINE b == MapAddress(al, pins, id)
<1> SUFFICES ASSUME NEW q \in Addrs, InUse(al, q), NEW i \in Ids
             PROVE  InUse(b, q) /\ (al.map[i] = 0 => b.map[i] # q \/ q = 0)
  <2>1. \A q \in Addrs : InUse(al, q) /\ Ids # {} => InUse(b, q)
    OBVIOUS
  <2>2. QED
    BY <2>1 DEF TakesUnused
<1>1. q \in Nat /\ al.map \in [Ids -> Nat] /\ al.next \in Nat /\ al.pool \in Seq(Nat \ {0})
      /\ Len(al.pool) \in Nat /\ q < al.next
  BY AddrsAssumption DEF AllocType, InUse
<1>2. CASE al.map[id] # 0
  BY <1>2 DEF MapAddress
<1>3. CASE al.map[id] = 0 /\ id \notin pins /\ al.pool # <<>>
  <2>1. b = Popped(al, id)
    BY <1>3 DEF MapAddress, Popped
  <2>2. Len(al.pool) \in 1 .. Len(al.pool)
    BY <1>1, <1>3
  <2>3. al.pool[Len(al.pool)] # q
    BY <2>2 DEF InUse
  <2>4. b.map = [al.map EXCEPT ![id] = al.pool[Len(al.pool)]] /\ b.next = al.next
        /\ b.pool = SubSeq(al.pool, 1, Len(al.pool) - 1)
    BY <2>1 DEF Popped
  <2> HIDE DEF b
  <2>5. Len(b.pool) = Len(al.pool) - 1 /\ \A k \in 1 .. Len(b.pool) : b.pool[k] = al.pool[k]
    BY <1>1, <2>2, <2>4
  <2>6. InUse(b, q)
    <3>1. 1 .. Len(b.pool) \subseteq 1 .. Len(al.pool)
      BY <1>1, <2>5
    <3>2. \A k \in 1 .. Len(b.pool) : b.pool[k] # q
      BY <2>5, <3>1 DEF InUse
    <3>3. QED
      BY <1>1, <2>4, <3>2 DEF InUse
  <2>7. b.map[i] = 0 \/ b.map[i] # q \/ al.map[i] # 0
    BY <1>1, <2>3, <2>4
  <2>8. QED
    BY <1>1, <2>3, <2>4, <2>6, <2>7
<1>4. CASE al.map[id] = 0 /\ ~(id \notin pins /\ al.pool # <<>>)
  <2>1. b = Fresh(al, id)
    BY <1>4 DEF MapAddress, Fresh
  <2>2. b.map = [al.map EXCEPT ![id] = al.next] /\ b.next = al.next + 1 /\ b.pool = al.pool
    BY <2>1 DEF Fresh
  <2> HIDE DEF b
  <2>3. InUse(b, q)
    BY <1>1, <2>2 DEF InUse
  <2>4. QED
    BY <1>1, <2>2, <2>3
<1>5. QED
  BY <1>2, <1>3, <1>4

(* A borrowed scratch address is in the pool afterwards. *)
LEMMA ScratchTakes ==
  ASSUME NEW al \in AllocType, NEW b, b = ScratchReturned(al)
  PROVE  Extends(al, b)
<1>1. b.map = al.map
  BY DEF ScratchReturned, AllocType
<1>2. ASSUME NEW q \in Addrs, InUse(al, q) PROVE InUse(b, q)
  <2>1. q \in Nat /\ al.next \in Nat /\ q < al.next
    BY <1>2, AddrsAssumption DEF AllocType, InUse
  <2>2. CASE al.pool = <<>>
    <3>1. b.next = al.next + 1 /\ b.pool = <<al.next>>
      BY <2>2 DEF ScratchReturned, AllocType
    <3>2. Len(b.pool) = 1 /\ b.pool[1] = al.next
      BY <3>1
    <3>3. QED
      BY <2>1, <3>1, <3>2 DEF InUse
  <2>3. CASE al.pool # <<>>
    BY <1>2, <2>3 DEF ScratchReturned
  <2>4. QED
    BY <2>2, <2>3
<1>3. TakesUnused(al, b)
  BY <1>1, <1>2 DEF TakesUnused
<1>4. QED
  BY <1>1, <1>3 DEF Extends

(* The address of a polynomial the host can use is in use. *)
LEMMA OwnerInUse ==
  ASSUME IInv', NEW id \in Live'
  PROVE  InUse(alloc', alloc'.map[id])
<1>1. Owned(alloc', Live') /\ id \in Ids
  BY DEF IInv, AllocOK, Live
<1>2. QED
  BY <1>1 DEF Owned, InUse

LEMMA Mapped ==
  ASSUME NEW al, NEW live \in SUBSET Ids, NEW pins \in SUBSET Ids, NEW held \in SUBSET (Nat \ {0}),
         AllocOK(al, live, pins, held), NEW id \in live, NEW b, b = MapAddress(al, pins, id)
  PROVE  AllocOK(b, live, pins, held) /\ b.map[id] # 0 /\ Extends(al, b)
<1>1. AllocOK(b, live, pins, held) /\ b.map[id] # 0
  BY MapAddressOK
<1>2. al.map \in [Ids -> Nat]
  BY DEF AllocOK, Owned, AllocType
<1>3. Extends(al, b)
  <2>1. TakesUnused(al, b)
    BY MapAddressTakes DEF AllocOK, Owned
  <2>2. QED
    BY <1>2, <2>1 DEF Extends, MapAddress
<1>4. QED
  BY <1>1, <1>3

LEMMA Mapped1 ==
  ASSUME IInv, NEW i \in Live, NEW al, al = MapAddress(alloc, pinned, i)
  PROVE  Extends(alloc, al) /\ al.map[i] # 0
BY Facts, Mapped

LEMMA Mapped2 ==
  ASSUME IInv, NEW i \in Live, NEW j \in Live,
         NEW al, al = MapAddress(MapAddress(alloc, pinned, i), pinned, j)
  PROVE  Extends(alloc, al) /\ al.map[i] # 0 /\ al.map[j] # 0
<1> DEFINE a1 == MapAddress(alloc, pinned, i)
<1>1. AllocOK(a1, Live, pinned, Held) /\ a1.map[i] # 0 /\ Extends(alloc, a1)
  BY Facts, Mapped
<1> HIDE DEF a1
<1>2. al.map[j] # 0 /\ Extends(a1, al)
  BY <1>1, Facts, Mapped DEF a1
<1>3. i \in Ids
  BY Facts
<1>4. QED
  BY <1>1, <1>2, <1>3, ExtendsTwice DEF Extends

LEMMA Mapped3 ==
  ASSUME IInv, NEW i \in Live, NEW j \in Live, NEW k \in Live,
         NEW al, al = MapAddress(MapAddress(MapAddress(alloc, pinned, i), pinned, j), pinned, k)
  PROVE  AllocOK(al, Live, pinned, Held) /\ Extends(alloc, al) /\ al.map[i] # 0 /\ al.map[j] # 0 /\ al.map[k] # 0
<1> DEFINE a1 == MapAddress(alloc, pinned, i)
           a2 == MapAddress(a1, pinned, j)
<1>1. AllocOK(a1, Live, pinned, Held) /\ a1.map[i] # 0 /\ Extends(alloc, a1)
  BY Facts, Mapped
<1> HIDE DEF a1
<1>2. AllocOK(a2, Live, pinned, Held) /\ a2.map[j] # 0 /\ Extends(a1, a2)
  BY <1>1, Facts, Mapped
<1> HIDE DEF a2
<1>3. AllocOK(al, Live, pinned, Held) /\ al.map[k] # 0 /\ Extends(a2, al)
  BY <1>2, Facts, Mapped DEF a1, a2
<1>4. i \in Ids /\ j \in Ids
  BY Facts
<1>5. Extends(alloc, a2) /\ Extends(alloc, al)
  BY <1>1, <1>2, <1>3, ExtendsTwice
<1>6. QED
  BY <1>1, <1>2, <1>3, <1>4, <1>5 DEF Extends

(* Two usable polynomials with addresses have different ones. *)
OwnersApart(al, live) ==
  /\ \A id \in Ids : al.map[id] \in Addrs
  /\ \A i, j \in live : i # j /\ al.map[i] # 0 => al.map[i] # al.map[j]
  /\ \A k \in 1 .. Len(al.pool) : \A id \in live : al.map[id] # al.pool[k]

LEMMA Owners ==
  ASSUME NEW al, NEW live, NEW pins, NEW held, AllocOK(al, live, pins, held), Fits(al)
  PROVE  OwnersApart(al, live)
<1>1. Owned(al, live)
  BY DEF AllocOK
<1>2. \A id \in Ids : al.map[id] \in Addrs
  BY AllocTyped
<1>3. QED
  BY <1>1, <1>2 DEF Owned, OwnersApart

LEMMA OwnersNow == ASSUME IInv PROVE OwnersApart(alloc, Live)
BY Facts, Owners

LEMMA OwnersNext == ASSUME IInv' PROVE OwnersApart(alloc', Live')
<1>1. AllocOK(alloc', Live', pinned', Held') /\ Fits(alloc')
  BY AddrsAssumption DEF IInv, TypeOK, Fits
<1>2. QED
  BY <1>1, Owners

-----------------------------------------------------------------------------
(* Instructions *)

(* The simulator computes from the addresses what the host computed.       *)
LEMMA SameResult ==
  ASSUME NEW op \in FhOpcode, NEW d \in Addrs, NEW s1 \in Addrs, NEW s2 \in Addrs,
         NEW imm \in {0, 1}, NEW m \in Moduli, NEW a \in Values, NEW b \in Values
  PROVE  Result(Instruction(op, d, s1, s2, imm, m), a, b) = Result(Instruction(op, 0, 0, 0, imm, m), a, b)
<1> DEFINE i == Instruction(op, d, s1, s2, imm, m)
           z == Instruction(op, 0, 0, 0, imm, m)
<1>1. i.opcode = op /\ z.opcode = op /\ i.immediate = imm /\ z.immediate = imm
  BY DEF Instruction
<1>2. Kernel(i, a, a) = Kernel(z, a, a) /\ Kernel(i, a, b) = Kernel(z, a, b)
  BY HostKernelAssumption
<1> HIDE DEF i, z
<1>3. Result(i, a, b) = Result(z, a, b)
  BY <1>1, <1>2 DEF Result, IsZeroInit, IsCopy
<1>4. QED
  BY <1>3 DEF i, z

(* The opcodes the probes emit. *)
ProbeOps == PolyPolyOps \cup {"addps", "subps", "mulps", "ntt", "intt", "automorph_eval"}

(* Replaying an instruction of a probe changes its destination only, to    *)
(* the result on what its sources hold.                                    *)
LEMMA ReplayedAt ==
  ASSUME NEW op \in ProbeOps,
         NEW d \in Addrs, NEW s1 \in Addrs, NEW s2 \in Addrs,
         NEW imm \in {0, 1}, NEW m \in Moduli \cup {0},
         m = 0 => op \in {"addps", "mulps"},
         NEW r \in Memories, NEW inst, inst = Instruction(op, d, s1, s2, imm, m)
  PROVE  /\ \A a \in Addrs \ {d} : Replayed(r, inst)[a] = r[a]
         /\ ~Accepts => Replayed(r, inst) = r
         /\ Accepts => Replayed(r, inst)[d] = Result(inst, GetOrZero(r, s1), GetOrZero(r, s2))
<1>1. inst.opcode = op /\ inst.dest = d /\ inst.src1 = s1 /\ inst.src2 = s2
  BY DEF Instruction
<1>2. op \in FhOpcode /\ op \notin InertOps
  BY DEF ProbeOps, FhOpcode, PolyPolyOps, ScalarOps, UnaryOps, InertOps
<1>3. ~Refused(inst)
  <2>1. CASE m = 0
    BY <1>1, <2>1 DEF Refused, MayRefuse
  <2>2. CASE m # 0
    BY <1>2, <2>2, HostKernelAssumption, ValuesAssumption DEF Refused
  <2>3. QED
    BY <2>1, <2>2
<1>4. Writes(inst) # {}
  BY <1>1, <1>2 DEF Writes
<1>5. QED
  BY <1>1, <1>3, <1>4 DEF Replayed, Stored, Memories

(* Nothing that was accessed becomes unaccessed. *)
LEMMA AccessedGrows ==
  ASSUME NEW f \in Uses, NEW inst, NEW a \in Addrs, f[a] # "none"
  PROVE  Accessed(f, inst)[a] # "none"
BY DEF Accessed, Uses

-----------------------------------------------------------------------------
(* What a recording probe has to do *)

(* A step writes dst's address da, whose clones are consumed, and scratch  *)
(* addresses nobody owns; it leaves dst with the value the host computed,  *)
(* and with no clone parent or one that holds the same value.              *)
RecordedStep(dst, v, operands, da, p, D) ==
  /\ Computes(dst, v, operands)
  /\ UNCHANGED <<refcount, inputs>>
  /\ Extends(alloc, alloc') /\ da = alloc'.map[dst] /\ da # 0
  /\ data_parent' = [data_parent EXCEPT ![da] = p]
  /\ Accepts => ClonesConsumed(dst)
  /\ \A a \in D : a # da => ~InUse(alloc, a) /\ \A id \in Live : alloc'.map[id] # a
  /\ \A a \in Addrs \ D : mem'[a] = mem[a]
  /\ ~Accepts => mem' = mem
  /\ \A a \in Addrs : first[a] # "none" => first'[a] # "none"
  /\ Followed /\ Accepts /\ operands \subseteq known =>
       mem'[da] = v /\ (p # 0 => mem'[p] = v /\ first'[p] # "none" /\ InUse(alloc', p))

LEMMA Recorded ==
  ASSUME RInv, IInv', NEW dst \in Live, NEW v, NEW operands, NEW da, NEW p \in Addrs,
         NEW D \in SUBSET Addrs, RecordedStep(dst, v, operands, da, p, D)
  PROVE  RInv'
<1> USE DEF RecordedStep
<1>1. /\ captured \subseteq known /\ known \subseteq Live /\ (\A id \in known : alloc.map[id] # 0)
      /\ \A id \in captured : inputs[alloc.map[id]] = val[id]
  BY DEF RInv, Tracked, InputsStayLoadable
<1>2. /\ moved' = moved /\ Live' = Live
      /\ known' \subseteq known \cup {dst} /\ captured' \subseteq captured \ {dst}
      /\ captured' \subseteq known'
      /\ \A id \in known' \ {dst} : id \in known /\ val'[id] = val[id]
      /\ dst \in known' => Accepts /\ operands \subseteq known /\ val'[dst] = v
  <2>1. val \in [Ids -> Values] /\ dst \in Ids
    BY Facts DEF RInv, HostTyped
  <2>2. moved' = moved
    BY DEF Computes, Forgets
  <2>3. Live' = Live
    BY <2>2 DEF Live, Alive
  <2>4. CASE Forgets(dst)
    BY <1>1, <2>1, <2>2, <2>3, <2>4 DEF Forgets
  <2>5. CASE /\ ShouldRecord /\ Accepts /\ operands \subseteq known
             /\ val' = [val EXCEPT ![dst] = v]
             /\ known' = known \cup {dst}
             /\ captured' = captured \ {dst}
    BY <1>1, <2>1, <2>2, <2>3, <2>5
  <2>6. QED
    BY <2>4, <2>5 DEF Computes
<1>3. /\ Live \subseteq Ids /\ da \in Addrs
      /\ \A id \in Ids : alloc.map[id] \in Addrs /\ alloc'.map[id] \in Addrs
      /\ \A id \in Live \ {dst} : alloc'.map[id] # da
  <2>1. IInv /\ dst \in Ids
    BY Facts DEF RInv
  <2>2. (\A id \in Ids : alloc'.map[id] \in Addrs) /\ \A id \in Live \ {dst} : alloc'.map[id] # da
    BY <1>2, <2>1, OwnersNext DEF OwnersApart
  <2>3. QED
    BY <2>1, <2>2, Facts, OwnersNow DEF OwnersApart
<1>4. \A id \in known : alloc'.map[id] = alloc.map[id]
  BY <1>1, <1>3 DEF Extends
<1>5. data_parent \in [Addrs -> Addrs]
  BY Facts DEF RInv
<1>6. data_parent'[da] = p /\ \A a \in Addrs : a # da => data_parent'[a] = data_parent[a]
  BY <1>3, <1>5
<1>7. Tracked'
  <2>1. \A id \in known' : alloc'.map[id] # 0
    BY <1>1, <1>2, <1>4
  <2>2. \A id \in captured' : inputs'[alloc'.map[id]] = val'[id]
    BY <1>1, <1>2, <1>4
  <2>3. known' \subseteq Live'
    BY <1>1, <1>2
  <2>4. QED
    BY <1>2, <2>1, <2>2, <2>3 DEF Tracked, InputsStayLoadable
<1>8. Faithful'
  <2> SUFFICES ASSUME Followed
               PROVE (ReplayFaithful /\ LineageSound /\ ParentsRead /\ ParentsInUse)'
    BY DEF Faithful, Followed
  <2>1. /\ \A id \in known : mem[alloc.map[id]] = val[id]
        /\ \A id \in known : data_parent[alloc.map[id]] # 0 =>
             /\ mem[data_parent[alloc.map[id]]] = val[id]
             /\ first[data_parent[alloc.map[id]]] # "none"
             /\ InUse(alloc, data_parent[alloc.map[id]])
    BY DEF RInv, Faithful, ReplayFaithful, LineageSound, ParentsRead, ParentsInUse
  <2>2. "clone_first" \in Rules
    BY DEF Followed
  <2>3. ASSUME NEW id \in known', id # dst
        PROVE  LET a == alloc'.map[id]
                   q == data_parent'[a]
               IN  /\ a # 0 /\ mem'[a] = val'[id]
                   /\ q # 0 => mem'[q] = val'[id] /\ first'[q] # "none" /\ InUse(alloc', q)
    <3> DEFINE a == alloc.map[id]
               q == data_parent[a]
    <3>1. id \in known /\ val'[id] = val[id] /\ id \in Live /\ id \in Ids
      BY <1>1, <1>2, <1>3, <2>3
    <3>2. alloc'.map[id] = a /\ a \in Addrs /\ a # da /\ a # 0 /\ mem[a] = val[id]
      BY <1>1, <1>3, <1>4, <2>1, <2>3, <3>1
    <3>3. data_parent'[a] = q /\ q \in Addrs
      BY <1>5, <1>6, <3>2
    <3>4. a \notin D
      BY <3>1, <3>2
    <3>5. mem'[a] = val[id]
      BY <3>2, <3>4
    <3>6. q # 0 => mem[q] = val[id] /\ first'[q] # "none" /\ InUse(alloc, q)
      BY <2>1, <3>1, <3>3
    <3>10. TakesUnused(alloc, alloc')
      BY DEF Extends
    <3>11. q # 0 => InUse(alloc', q)
      BY <3>3, <3>6, <3>10 DEF TakesUnused
    <3>7. CASE ~Accepts
      BY <3>1, <3>2, <3>3, <3>5, <3>6, <3>7, <3>11
    <3>8. CASE Accepts
      <4>1. q # 0 => q \notin D
        <5> SUFFICES ASSUME q # 0, q \in D PROVE FALSE
          OBVIOUS
        <5>1. InUse(alloc, q)
          BY <3>6
        <5>2. q = da
          BY <5>1
        <5>3. dst \in Ids
          BY <1>3
        <5>4. CASE alloc.map[dst] = 0
          BY <3>3, <3>10, <5>1, <5>2, <5>3, <5>4 DEF TakesUnused
        <5>5. CASE alloc.map[dst] # 0
          <6>1. alloc.map[dst] = q
            BY <5>2, <5>3, <5>5 DEF Extends
          <6>2. id \in ClonesOf(dst)
            BY <2>3, <3>1, <5>5, <6>1 DEF ClonesOf
          <6>3. QED
            BY <2>2, <3>8, <6>2 DEF ClonesConsumed
        <5>6. QED
          BY <5>4, <5>5
      <4>3. QED
        BY <3>1, <3>2, <3>3, <3>5, <3>6, <3>11, <4>1
    <3>9. QED
      BY <3>7, <3>8
  <2>4. ASSUME dst \in known'
        PROVE  /\ da # 0 /\ mem'[da] = val'[dst]
               /\ p # 0 => mem'[p] = val'[dst] /\ first'[p] # "none" /\ InUse(alloc', p)
    BY <1>2, <2>4
  <2>5. QED
    BY <1>6, <2>3, <2>4 DEF ReplayFaithful, LineageSound, ParentsRead, ParentsInUse
<1>9. QED
  BY <1>7, <1>8 DEF RInv

(* What a source holds: the value the host has, its clone parent too.      *)
LEMMA SourceHolds ==
  ASSUME RInv, Followed, NEW src \in known
  PROVE  LET a == alloc.map[src] IN
         /\ a # 0 /\ GetOrZero(mem, a) = val[src]
         /\ data_parent[a] # 0 => GetOrZero(mem, data_parent[a]) = val[src]
<1>1. val[src] # Absent
  BY Facts, ValuesAssumption DEF RInv, HostTyped
<1>2. QED
  BY <1>1 DEF RInv, Faithful, ReplayFaithful, LineageSound, GetOrZero

-----------------------------------------------------------------------------
(* The recording probes *)

LEMMA BinaryReplay ==
  ASSUME RInv, NEW op \in PolyPolyOps, NEW dst \in Ids, NEW src1 \in Ids, NEW src2 \in Ids,
         NEW m \in Moduli, Binary(op, dst, src1, src2, m)
  PROVE  RInv'
<1> DEFINE al == MapAddress(MapAddress(MapAddress(alloc, pinned, dst), pinned, src1), pinned, src2)
           da == al.map[dst]
           s1 == ResolveInplaceSrc(al.map[src1], da)
           s2 == al.map[src2]
           inst == Instruction(op, da, s1, s2, 0, m)
           host_inst == Instruction(op, 0, 0, 0, 0, m)
           v == Result(host_inst, val[src1], val[src2])
           D == {da}
<1>1. /\ dst \in Live /\ src1 \in Live /\ src2 \in Live
      /\ (Accepts => ClonesConsumed(dst)) /\ alloc' = al /\ Emit(inst)
      /\ data_parent' = [data_parent EXCEPT ![da] = 0]
      /\ Computes(dst, v, {src1, src2}) /\ UNCHANGED refcount
  BY DEF Binary, Live, InvalidateCloneParent
<1>2. IInv /\ IInv'
  BY BinaryStep DEF RInv
<1>3. Extends(alloc, al) /\ al.map[dst] # 0
  BY <1>1, <1>2, Mapped3
<1> HIDE DEF al
<1>4. da \in Addrs /\ al.map[src1] \in Addrs /\ s2 \in Addrs
  BY <1>1, <1>2, OwnersNext DEF OwnersApart
<1>5. s1 \in Addrs
  BY <1>2, <1>4, Facts, ResolveTyped
<1>6. mem \in Memories /\ first \in Uses /\ val \in [Ids -> Values]
  BY <1>2, Facts DEF HostTyped
<1>7. /\ \A a \in Addrs \ {da} : mem'[a] = mem[a]
      /\ ~Accepts => mem' = mem
      /\ Accepts => mem'[da] = Result(inst, GetOrZero(mem, s1), GetOrZero(mem, s2))
      /\ inputs' = inputs
  <2> HIDE DEF da, s1, s2
  <2>1. mem' = Replayed(mem, inst) /\ inputs' = inputs
    BY <1>1 DEF Emit
  <2>2. m \in Moduli \cup {0} /\ m # 0 /\ op \in ProbeOps
    BY ModuliAssumption DEF ProbeOps
  <2>3. QED
    BY <1>4, <1>5, <1>6, <2>1, <2>2, ReplayedAt
<1>8. \A a \in Addrs : first[a] # "none" => first'[a] # "none"
  BY <1>1, <1>6, AccessedGrows DEF Emit
<1>9. ASSUME Followed, Accepts, {src1, src2} \subseteq known PROVE mem'[da] = v
  <2>1. al.map[src1] = alloc.map[src1] /\ s2 = alloc.map[src2]
    BY <1>3, <1>9 DEF Extends, RInv, Tracked
  <2>2. GetOrZero(mem, s1) = val[src1] /\ GetOrZero(mem, s2) = val[src2]
    BY <1>9, <2>1, SourceHolds DEF ResolveInplaceSrc
  <2>3. op \in FhOpcode
    BY DEF FhOpcode
  <2> HIDE DEF da, s1, s2
  <2>4. Result(inst, val[src1], val[src2]) = v
    BY <1>4, <1>5, <1>6, <2>3, SameResult
  <2>5. QED
    BY <1>7, <1>9, <2>2, <2>4
<1> HIDE DEF v
<1>10. 0 \in Addrs /\ D \in SUBSET Addrs /\ (\A a \in D : a = da)
       /\ (\A a \in Addrs \ D : mem'[a] = mem[a])
  BY <1>1, <1>4, <1>7, ZeroAddr
<1>11. Extends(alloc, alloc') /\ da = alloc'.map[dst] /\ da # 0
  BY <1>1, <1>3
<1> HIDE DEF da, D, inst
<1>12. RecordedStep(dst, v, {src1, src2}, da, 0, D)
  BY <1>1, <1>7, <1>8, <1>9, <1>10, <1>11 DEF RecordedStep
<1>13. QED
  BY <1>1, <1>2, <1>10, <1>12, Recorded

LEMMA OneSourceReplay ==
  ASSUME RInv, NEW op \in {"addps", "subps", "mulps", "ntt", "intt", "automorph_eval"},
         NEW dst \in Ids, NEW src \in Ids, NEW imm \in {0, 1},
         NEW m \in Moduli, OneSource(op, dst, src, imm, m)
  PROVE  RInv'
<1> DEFINE al == MapAddress(MapAddress(alloc, pinned, dst), pinned, src)
           da == al.map[dst]
           sa == ResolveInplaceSrc(al.map[src], da)
           inst == Instruction(op, da, sa, 0, imm, m)
           v == Result(Instruction(op, 0, 0, 0, imm, m), val[src], val[src])
           D == {da}
<1>1. /\ dst \in Live /\ src \in Live
      /\ (Accepts => ClonesConsumed(dst)) /\ alloc' = al /\ Emit(inst)
      /\ data_parent' = [data_parent EXCEPT ![da] = 0]
      /\ Computes(dst, v, {src}) /\ UNCHANGED refcount
  BY DEF OneSource, Live, InvalidateCloneParent
<1>2. op \in FhOpcode /\ op \notin PolyPolyOps
  BY DEF FhOpcode, ScalarOps, UnaryOps, PolyPolyOps
<1>3. IInv /\ IInv'
  BY <1>2, OneSourceStep DEF RInv
<1>4. Extends(alloc, al) /\ al.map[dst] # 0
  BY <1>1, <1>3, Mapped2
<1> HIDE DEF al
<1>5. da \in Addrs /\ al.map[src] \in Addrs
  BY <1>1, <1>3, OwnersNext DEF OwnersApart
<1>6. sa \in Addrs
  BY <1>3, <1>5, Facts, ResolveTyped
<1>7. mem \in Memories /\ first \in Uses /\ val \in [Ids -> Values]
  BY <1>3, Facts DEF HostTyped
<1>8. /\ \A a \in Addrs \ {da} : mem'[a] = mem[a]
      /\ ~Accepts => mem' = mem
      /\ Accepts => mem'[da] = Result(inst, GetOrZero(mem, sa), GetOrZero(mem, 0))
      /\ inputs' = inputs
  <2> HIDE DEF da, sa
  <2>1. mem' = Replayed(mem, inst) /\ inputs' = inputs
    BY <1>1 DEF Emit
  <2>2. m \in Moduli \cup {0} /\ m # 0 /\ op \in ProbeOps
    BY ModuliAssumption DEF ProbeOps
  <2>3. QED
    BY <1>5, <1>6, <1>7, <2>1, <2>2, ZeroAddr, ReplayedAt
<1>9. \A a \in Addrs : first[a] # "none" => first'[a] # "none"
  BY <1>1, <1>7, AccessedGrows DEF Emit
<1>10. ASSUME Followed, Accepts, {src} \subseteq known PROVE mem'[da] = v
  <2>1. al.map[src] = alloc.map[src]
    BY <1>4, <1>10 DEF Extends, RInv, Tracked
  <2>2. GetOrZero(mem, sa) = val[src]
    BY <1>10, <2>1, SourceHolds DEF ResolveInplaceSrc
  <2> HIDE DEF da, sa
  <2>3. Result(inst, val[src], val[src]) = v
    BY <1>2, <1>5, <1>6, <1>7, ZeroAddr, SameResult
  <2>4. Result(inst, val[src], GetOrZero(mem, 0)) = Result(inst, val[src], val[src])
    BY <1>2 DEF Result, Instruction
  <2>5. QED
    BY <1>8, <1>10, <2>2, <2>3, <2>4
<1> HIDE DEF v
<1>11. 0 \in Addrs /\ D \in SUBSET Addrs /\ (\A a \in D : a = da)
       /\ (\A a \in Addrs \ D : mem'[a] = mem[a])
  BY <1>1, <1>5, <1>8, ZeroAddr
<1>12. Extends(alloc, alloc') /\ da = alloc'.map[dst] /\ da # 0
  BY <1>1, <1>4
<1> HIDE DEF da, D, inst
<1>13. RecordedStep(dst, v, {src}, da, 0, D)
  BY <1>1, <1>8, <1>9, <1>10, <1>11, <1>12 DEF RecordedStep
<1>14. QED
  BY <1>1, <1>3, <1>11, <1>13, Recorded

LEMMA SetZeroReplay ==
  ASSUME RInv, NEW dst \in Ids, NEW m \in Moduli \cup {0}, SetZero(dst, m)
  PROVE  RInv'
<1> DEFINE al == MapAddress(alloc, pinned, dst)
           da == al.map[dst]
           inst == Instruction("mulps", da, da, 0, 0, m)
           D == {da}
<1>1. /\ dst \in Live
      /\ (Accepts => ClonesConsumed(dst)) /\ alloc' = al /\ Emit(inst)
      /\ data_parent' = [data_parent EXCEPT ![da] = 0]
      /\ Computes(dst, Zero, {}) /\ UNCHANGED refcount
  BY DEF SetZero, Live, InvalidateCloneParent
<1>2. IInv /\ IInv'
  BY SetZeroStep DEF RInv
<1>3. Extends(alloc, al) /\ al.map[dst] # 0
  BY <1>1, <1>2, Mapped1
<1> HIDE DEF al
<1>4. da \in Addrs
  BY <1>1, <1>2, OwnersNext DEF OwnersApart
<1>5. mem \in Memories /\ first \in Uses
  BY <1>2, Facts
<1>6. /\ \A a \in Addrs \ {da} : mem'[a] = mem[a]
      /\ ~Accepts => mem' = mem
      /\ Accepts => mem'[da] = Result(inst, GetOrZero(mem, da), GetOrZero(mem, 0))
      /\ inputs' = inputs
  <2> HIDE DEF da
  <2>1. mem' = Replayed(mem, inst) /\ inputs' = inputs
    BY <1>1 DEF Emit
  <2>2. "mulps" \in ProbeOps
    BY DEF ProbeOps
  <2>3. QED
    BY <1>4, <1>5, <2>1, <2>2, ZeroAddr, ReplayedAt
<1>7. \A a \in Addrs : first[a] # "none" => first'[a] # "none"
  BY <1>1, <1>5, AccessedGrows DEF Emit
<1>8. Accepts => mem'[da] = Zero
  <2>1. IsZeroInit(inst)
    BY DEF IsZeroInit, Instruction
  <2>2. QED
    BY <1>6, <2>1 DEF Result
<1>9. 0 \in Addrs /\ D \in SUBSET Addrs /\ (\A a \in D : a = da)
      /\ (\A a \in Addrs \ D : mem'[a] = mem[a])
  BY <1>1, <1>4, <1>6, ZeroAddr
<1>10. Extends(alloc, alloc') /\ da = alloc'.map[dst] /\ da # 0
  BY <1>1, <1>3
<1> HIDE DEF da, D, inst
<1>11. RecordedStep(dst, Zero, {}, da, 0, D)
  BY <1>1, <1>6, <1>7, <1>8, <1>9, <1>10 DEF RecordedStep
<1>12. QED
  BY <1>1, <1>2, <1>9, <1>11, Recorded

(* The copy leaves its source as the clone's parent, with the same value. *)
LEMMA CopyReplay ==
  ASSUME RInv, NEW dst \in Ids, NEW src \in Ids, Copy(dst, src)
  PROVE  RInv'
<1> DEFINE al == MapAddress(MapAddress(alloc, pinned, src), pinned, dst)
           da == al.map[dst]
           sa == al.map[src]
           inst == Instruction("addps", da, sa, 0, 0, 0)
           D == {da}
<1>1. /\ dst \in Live /\ src \in Live
      /\ (Accepts => ClonesConsumed(dst)) /\ alloc' = al /\ Emit(inst)
      /\ data_parent' = [data_parent EXCEPT ![da] = sa]
      /\ Computes(dst, val[src], {src}) /\ UNCHANGED refcount
  BY DEF Copy, Live
<1>2. IInv /\ IInv'
  BY CopyStep DEF RInv
<1>3. Extends(alloc, al) /\ al.map[dst] # 0
  BY <1>1, <1>2, Mapped2
<1> HIDE DEF al
<1>4. da \in Addrs /\ sa \in Addrs
  BY <1>1, <1>2, OwnersNext DEF OwnersApart
<1>5. mem \in Memories /\ first \in Uses
  BY <1>2, Facts
<1>6. /\ \A a \in Addrs \ {da} : mem'[a] = mem[a]
      /\ ~Accepts => mem' = mem
      /\ Accepts => mem'[da] = Result(inst, GetOrZero(mem, sa), GetOrZero(mem, 0))
      /\ inputs' = inputs
  <2> HIDE DEF da, sa
  <2>1. mem' = Replayed(mem, inst) /\ inputs' = inputs
    BY <1>1 DEF Emit
  <2>2. "addps" \in ProbeOps
    BY DEF ProbeOps
  <2>3. QED
    BY <1>4, <1>5, <2>1, <2>2, ZeroAddr, ReplayedAt
<1>7. \A a \in Addrs : first[a] # "none" => first'[a] # "none"
  BY <1>1, <1>5, AccessedGrows DEF Emit
<1>8. ASSUME Followed, Accepts, {src} \subseteq known
      PROVE  /\ mem'[da] = val[src]
             /\ sa # 0 => mem'[sa] = val[src] /\ first'[sa] # "none" /\ InUse(alloc', sa)
  <2>1. sa = alloc.map[src]
    BY <1>3, <1>8 DEF Extends, RInv, Tracked
  <2>2. GetOrZero(mem, sa) = val[src] /\ mem[sa] = val[src]
    BY <1>8, <2>1, SourceHolds DEF RInv, Faithful, ReplayFaithful
  <2>3. inst.opcode = "addps" /\ inst.immediate = 0 /\ inst.src1 = sa
    BY DEF Instruction
  <2>4. ~IsZeroInit(inst) /\ inst.opcode \notin InertOps /\ IsCopy(inst) /\ inst.opcode \notin PolyPolyOps
    BY <2>3 DEF IsZeroInit, InertOps, IsCopy, PolyPolyOps
  <2>5. mem'[da] = val[src]
    BY <1>6, <1>8, <2>2, <2>4 DEF Result
  <2>6. mem'[sa] = val[src]
    BY <1>4, <1>6, <2>2, <2>5
  <2>7. sa \in Reads(inst)
    BY <2>3, <2>4 DEF Reads
  <2>8. first' = Accessed(first, inst)
    BY <1>1 DEF Emit
  <2>11. InUse(alloc', sa)
    <3>1. src \in Live'
      BY <1>1 DEF Live, Alive, Computes, Forgets
    <3>2. QED
      BY <1>1, <1>2, <3>1, OwnerInUse
  <2> HIDE DEF inst, sa
  <2>9. first'[sa] # "none"
    BY <1>4, <1>8, <2>7, <2>8 DEF Accessed
  <2>10. QED
    BY <2>5, <2>6, <2>9, <2>11
<1>9. D \in SUBSET Addrs /\ (\A a \in D : a = da)
      /\ (\A a \in Addrs \ D : mem'[a] = mem[a])
  BY <1>1, <1>4, <1>6
<1>10. Extends(alloc, alloc') /\ da = alloc'.map[dst] /\ da # 0
  BY <1>1, <1>3
<1> HIDE DEF da, D, inst, sa
<1>11. RecordedStep(dst, val[src], {src}, da, sa, D)
  BY <1>1, <1>6, <1>7, <1>8, <1>9, <1>10 DEF RecordedStep
<1>12. QED
  BY <1>1, <1>2, <1>4, <1>9, <1>11, Recorded

-----------------------------------------------------------------------------
(* The probes that emit several instructions *)

(* One scalar instruction on a memory that holds x at its source. *)
LEMMA ScalarAt ==
  ASSUME NEW op \in {"addps", "mulps"}, NEW d \in Addrs, NEW s \in Addrs, NEW imm \in {0, 1},
         NEW m \in Moduli, NEW r \in Memories, NEW b, b = Replayed(r, Instruction(op, d, s, 0, imm, m)),
         NEW x \in Values, Accepts => GetOrZero(r, s) = x,
         NEW y, y = Result(Instruction(op, 0, 0, 0, imm, m), x, x)
  PROVE  /\ b \in Memories /\ y \in Values
         /\ \A a \in Addrs \ {d} : b[a] = r[a]
         /\ ~Accepts => b = r
         /\ Accepts => b[d] = y /\ GetOrZero(b, d) = y
<1> DEFINE inst == Instruction(op, d, s, 0, imm, m)
<1>1. op \in ProbeOps /\ op \in FhOpcode /\ op \notin PolyPolyOps
  BY DEF ProbeOps, FhOpcode, ScalarOps, PolyPolyOps
<1>2. m \in Moduli \cup {0} /\ m # 0
  BY ModuliAssumption
<1>3. inst \in Instructions /\ Instruction(op, 0, 0, 0, imm, m) \in Instructions
  BY <1>1, <1>2, ZeroAddr, InstructionTyped
<1>4. b \in Memories /\ y \in Values
  BY <1>3, ReplayedTyped, ResultTyped
<1>5. /\ \A a \in Addrs \ {d} : b[a] = r[a]
      /\ ~Accepts => b = r
      /\ Accepts => b[d] = Result(inst, GetOrZero(r, s), GetOrZero(r, 0))
  BY <1>1, <1>2, ZeroAddr, ReplayedAt
<1>6. Result(inst, x, x) = y
  BY <1>1, ZeroAddr, SameResult
<1>7. Result(inst, x, GetOrZero(r, 0)) = Result(inst, x, x)
  BY <1>1 DEF Result, Instruction
<1>8. Accepts => b[d] = y
  BY <1>5, <1>6, <1>7
<1>9. Accepts => GetOrZero(b, d) = y
  BY <1>4, <1>8, ValuesAssumption DEF GetOrZero
<1>10. QED
  BY <1>4, <1>5, <1>8, <1>9

(* The sum on a memory, as the host computes it. *)
LEMMA SumAt ==
  ASSUME NEW d \in Addrs, NEW s \in Addrs, NEW t \in Addrs, NEW m \in Moduli,
         NEW r \in Memories, NEW b, b = Replayed(r, Instruction("addp", d, s, t, 0, m))
  PROVE  /\ \A a \in Addrs \ {d} : b[a] = r[a]
         /\ ~Accepts => b = r
         /\ Accepts => b[d] = Result(Instruction("addp", 0, 0, 0, 0, m), GetOrZero(r, s), GetOrZero(r, t))
<1> DEFINE inst == Instruction("addp", d, s, t, 0, m)
<1>1. "addp" \in ProbeOps /\ "addp" \in FhOpcode
  BY DEF ProbeOps, FhOpcode, PolyPolyOps
<1>2. m \in Moduli \cup {0} /\ m # 0
  BY ModuliAssumption
<1>3. /\ \A a \in Addrs \ {d} : b[a] = r[a]
      /\ ~Accepts => b = r
      /\ Accepts => b[d] = Result(inst, GetOrZero(r, s), GetOrZero(r, t))
  BY <1>1, <1>2, ReplayedAt
<1>4. GetOrZero(r, s) \in Values /\ GetOrZero(r, t) \in Values
  BY ValuesAssumption DEF GetOrZero, Memories
<1>5. Result(inst, GetOrZero(r, s), GetOrZero(r, t))
        = Result(Instruction("addp", 0, 0, 0, 0, m), GetOrZero(r, s), GetOrZero(r, t))
  BY <1>1, <1>4, SameResult
<1>6. QED
  BY <1>3, <1>5

(* The product goes through a free address, which no polynomial and no     *)
(* clone parent uses.                                                      *)
LEMMA MultAccEqReplay ==
  ASSUME RInv, NEW dst \in Ids, NEW acc \in Ids, NEW mul \in Ids, NEW imm \in {0, 1},
         NEW m \in Moduli, MultAccEq(dst, acc, mul, imm, m)
  PROVE  RInv'
<1> DEFINE al == MapAddress(MapAddress(MapAddress(alloc, pinned, dst), pinned, acc), pinned, mul)
           da == al.map[dst]
           sa == ResolveInplaceSrc(al.map[acc], da)
           sm == al.map[mul]
           alr == ScratchReturned(al)
           tmp == alr.pool[Len(alr.pool)]
           i1 == Instruction("mulps", tmp, sm, 0, imm, m)
           i2 == Instruction("addp", da, sa, tmp, 0, m)
           product == Result(Instruction("mulps", 0, 0, 0, imm, m), val[mul], val[mul])
           v == Result(Instruction("addp", 0, 0, 0, 0, m), val[acc], product)
           m1 == Replayed(mem, i1)
           D == {da, tmp}
<1>1. /\ dst \in Live /\ acc \in Live /\ mul \in Live
      /\ Fits(alr) /\ (Accepts => ClonesConsumed(dst)) /\ alloc' = alr /\ Emit2(i1, i2)
      /\ data_parent' = [data_parent EXCEPT ![da] = 0]
      /\ Computes(dst, v, {acc, mul}) /\ UNCHANGED refcount
  BY DEF MultAccEq, Live, InvalidateCloneParent
<1>2. IInv /\ IInv'
  BY MultAccEqStep DEF RInv
<1>3. AllocOK(al, Live, pinned, Held) /\ Extends(alloc, al) /\ al.map[dst] # 0
  BY <1>1, <1>2, Mapped3
<1> HIDE DEF al
<1>4. /\ AllocOK(alr, Live, pinned, Held) /\ alr.map = al.map
      /\ Len(alr.pool) \in 1 .. Len(alr.pool)
  BY <1>2, <1>3, Facts, ScratchOK
<1>24. Extends(al, alr)
  BY <1>3, ScratchTakes DEF AllocOK, Owned
<1> HIDE DEF alr
<1>5. /\ da \in Addrs /\ al.map[acc] \in Addrs /\ sm \in Addrs /\ tmp \in Addrs
      /\ \A id \in Live : al.map[id] # tmp
  BY <1>1, <1>4, AllocTyped, Owners DEF OwnersApart
<1>6. sa \in Addrs
  BY <1>2, <1>5, Facts, ResolveTyped
<1>7. mem \in Memories /\ first \in Uses /\ val \in [Ids -> Values]
  BY <1>2, Facts DEF HostTyped
<1>8. mem' = Replayed(m1, i2) /\ inputs' = inputs /\ first' = Accessed(Accessed(first, i1), i2)
  BY <1>1 DEF Emit2
<1>11. da # tmp /\ sm # tmp
  BY <1>1, <1>5
<1>23. Extends(alloc, alr) /\ ~InUse(alloc, tmp)
  <2>1. Extends(alloc, alr)
    BY <1>3, <1>24, ExtendsTwice
  <2>2. ~InUse(alr, tmp)
    BY <1>4 DEF InUse
  <2>3. QED
    BY <1>5, <2>1, <2>2 DEF Extends, TakesUnused
<1> DEFINE x == GetOrZero(mem, sm)
           px == Result(Instruction("mulps", 0, 0, 0, imm, m), x, x)
<1>12. x \in Values
  BY <1>5, <1>7, ValuesAssumption DEF GetOrZero, Memories
<1> HIDE DEF da, sa, sm, tmp
<1>13. m1 = Replayed(mem, i1) /\ mem' = Replayed(m1, i2)
  BY <1>8
<1>14. /\ m1 \in Memories /\ px \in Values
       /\ (\A a \in Addrs \ {tmp} : m1[a] = mem[a]) /\ (~Accepts => m1 = mem)
       /\ Accepts => GetOrZero(m1, tmp) = px
  <2> HIDE DEF x
  <2>1. GetOrZero(mem, sm) = x
    BY DEF x
  <2>2. /\ m1 = Replayed(mem, Instruction("mulps", tmp, sm, 0, imm, m))
        /\ px = Result(Instruction("mulps", 0, 0, 0, imm, m), x, x)
        /\ "mulps" \in {"addps", "mulps"}
    OBVIOUS
  <2> HIDE DEF m1, px
  <2>3. QED
    BY <1>5, <1>7, <1>12, <2>1, <2>2, ScalarAt
<1> HIDE DEF m1
<1>16. /\ \A a \in Addrs \ {da} : mem'[a] = m1[a]
       /\ ~Accepts => mem' = m1
       /\ Accepts => mem'[da] = Result(Instruction("addp", 0, 0, 0, 0, m), GetOrZero(m1, sa), GetOrZero(m1, tmp))
  BY <1>5, <1>6, <1>13, <1>14, SumAt
<1>17. \A a \in Addrs : first[a] # "none" => first'[a] # "none"
  <2> HIDE DEF i1, i2
  <2> QED BY <1>7, <1>8, AccessedTyped, AccessedGrows
<1>18. ASSUME Followed, Accepts, {acc, mul} \subseteq known PROVE mem'[da] = v
  <2>1. al.map[acc] = alloc.map[acc] /\ sm = alloc.map[mul]
    BY <1>3, <1>18 DEF Extends, RInv, Tracked, sm
  <2>2. GetOrZero(mem, sa) = val[acc] /\ GetOrZero(mem, sm) = val[mul]
    BY <1>18, <2>1, SourceHolds DEF ResolveInplaceSrc, sa
  <2>3. sa # tmp
    <3>1. al.map[acc] # tmp
      BY <1>1, <1>5
    <3>2. data_parent[alloc.map[acc]] # 0 => InUse(alloc, data_parent[alloc.map[acc]])
      BY <1>18 DEF RInv, Faithful, ParentsInUse
    <3>3. data_parent[al.map[acc]] # 0 => data_parent[al.map[acc]] # tmp
      BY <1>23, <2>1, <3>2
    <3>4. QED
      BY <3>1, <3>3 DEF ResolveInplaceSrc, sa
  <2>4. GetOrZero(m1, sa) = val[acc]
    BY <1>6, <1>14, <2>2, <2>3 DEF GetOrZero
  <2>5. GetOrZero(m1, tmp) = product
    BY <1>14, <1>18, <2>2
  <2>6. QED
    BY <1>16, <1>18, <2>4, <2>5
<1> HIDE DEF v, i1, i2
<1>19. 0 \in Addrs /\ D \in SUBSET Addrs
       /\ (\A a \in D : a # da => a = tmp)
       /\ (\A a \in Addrs \ D : mem'[a] = mem[a])
  BY <1>1, <1>5, <1>14, <1>16, ZeroAddr
<1>20. Extends(alloc, alloc') /\ da = alloc'.map[dst] /\ da # 0 /\ \A id \in Live : alloc'.map[id] # tmp
  BY <1>1, <1>3, <1>4, <1>5, <1>23 DEF da
<1> HIDE DEF D
<1>21. RecordedStep(dst, v, {acc, mul}, da, 0, D)
  BY <1>1, <1>8, <1>14, <1>16, <1>17, <1>18, <1>19, <1>20, <1>23 DEF RecordedStep
<1>22. QED
  BY <1>1, <1>2, <1>19, <1>21, Recorded

LEMMA SwitchModulusReplay ==
  ASSUME RInv, NEW dst \in Ids, NEW src \in Ids, NEW old \in Moduli, NEW new \in Moduli,
         NEW half \in {0, 1}, NEW neg \in {0, 1}, SwitchModulus(dst, src, old, new, half, neg)
  PROVE  RInv'
<1> DEFINE al == MapAddress(MapAddress(alloc, pinned, dst), pinned, src)
           da == al.map[dst]
           s  == al.map[src]
           i1 == Instruction("mulps", da, s, 0, 1, old)
           i2 == Instruction("addps", da, da, 0, half, old)
           i3 == Instruction("mulps", da, da, 0, 1, new)
           i4 == Instruction("addps", da, da, 0, neg, new)
           v1 == Result(Instruction("mulps", 0, 0, 0, 1, old), val[src], val[src])
           v2 == Result(Instruction("addps", 0, 0, 0, half, old), v1, v1)
           v3 == Result(Instruction("mulps", 0, 0, 0, 1, new), v2, v2)
           v4 == Result(Instruction("addps", 0, 0, 0, neg, new), v3, v3)
           m1 == Replayed(mem, i1)
           m2 == Replayed(m1, i2)
           m3 == Replayed(m2, i3)
           D == {da}
<1>1. /\ dst \in Live /\ src \in Live
      /\ (Accepts => ClonesConsumed(dst)) /\ alloc' = al /\ Emit4(i1, i2, i3, i4)
      /\ data_parent' = [data_parent EXCEPT ![da] = 0]
      /\ Computes(dst, v4, {src}) /\ UNCHANGED refcount
  BY DEF SwitchModulus, Live, InvalidateCloneParent
<1>2. IInv /\ IInv'
  BY SwitchModulusStep DEF RInv
<1>3. Extends(alloc, al) /\ al.map[dst] # 0
  BY <1>1, <1>2, Mapped2
<1> HIDE DEF al
<1>4. da \in Addrs /\ s \in Addrs
  BY <1>1, <1>2, OwnersNext DEF OwnersApart
<1>5. mem \in Memories /\ first \in Uses /\ val \in [Ids -> Values]
  BY <1>2, Facts DEF HostTyped
<1>6. mem' = Replayed(m3, i4) /\ inputs' = inputs
  BY <1>1 DEF Emit4
<1>7. \A a \in Addrs : first[a] # "none" => first'[a] # "none"
  <2>1. first' = Accessed(Accessed(Accessed(Accessed(first, i1), i2), i3), i4)
    BY <1>1 DEF Emit4
  <2> HIDE DEF i1, i2, i3, i4
  <2>2. QED
    BY <1>5, <2>1, AccessedTyped, AccessedGrows
<1> DEFINE x == IF Followed /\ src \in known THEN val[src] ELSE GetOrZero(mem, s)
           x1 == Result(Instruction("mulps", 0, 0, 0, 1, old), x, x)
           x2 == Result(Instruction("addps", 0, 0, 0, half, old), x1, x1)
           x3 == Result(Instruction("mulps", 0, 0, 0, 1, new), x2, x2)
           x4 == Result(Instruction("addps", 0, 0, 0, neg, new), x3, x3)
<1>8. x \in Values /\ GetOrZero(mem, s) = x
  <2>1. src \in known => s = alloc.map[src]
    BY <1>3 DEF Extends, RInv, Tracked
  <2>2. Followed /\ src \in known => GetOrZero(mem, s) = val[src]
    BY <2>1, SourceHolds
  <2>3. GetOrZero(mem, s) \in Values
    BY <1>4, <1>5, ValuesAssumption DEF GetOrZero, Memories
  <2>4. QED
    BY <1>5, <2>2, <2>3
<1> HIDE DEF da, s, x
<1>9. /\ m1 \in Memories /\ x1 \in Values
      /\ (\A a \in Addrs \ {da} : m1[a] = mem[a]) /\ (~Accepts => m1 = mem)
      /\ Accepts => GetOrZero(m1, da) = x1
  BY <1>4, <1>5, <1>8, ScalarAt
<1> HIDE DEF m1, x1
<1>10. /\ m2 \in Memories /\ x2 \in Values
       /\ (\A a \in Addrs \ {da} : m2[a] = m1[a]) /\ (~Accepts => m2 = m1)
       /\ Accepts => GetOrZero(m2, da) = x2
  BY <1>4, <1>9, ScalarAt
<1> HIDE DEF m2, x2
<1>11. /\ m3 \in Memories /\ x3 \in Values
       /\ (\A a \in Addrs \ {da} : m3[a] = m2[a]) /\ (~Accepts => m3 = m2)
       /\ Accepts => GetOrZero(m3, da) = x3
  BY <1>4, <1>10, ScalarAt
<1> HIDE DEF m3, x3
<1>12. /\ \A a \in Addrs \ {da} : mem'[a] = m3[a]
       /\ ~Accepts => mem' = m3
       /\ Accepts => mem'[da] = x4
  BY <1>4, <1>6, <1>11, ScalarAt
<1>13. ASSUME Followed, Accepts, {src} \subseteq known PROVE mem'[da] = v4
  <2>1. x = val[src]
    BY <1>13 DEF x
  <2>2. x4 = v4
    BY <2>1 DEF x1, x2, x3
  <2>3. QED
    BY <1>12, <1>13, <2>2
<1> HIDE DEF v4, x4, i1, i2, i3, i4
<1>14. 0 \in Addrs /\ D \in SUBSET Addrs /\ (\A a \in D : a = da)
       /\ (\A a \in Addrs \ D : mem'[a] = mem[a]) /\ (~Accepts => mem' = mem)
  BY <1>1, <1>4, <1>9, <1>10, <1>11, <1>12, ZeroAddr
<1>15. Extends(alloc, alloc') /\ da = alloc'.map[dst] /\ da # 0
  BY <1>1, <1>3 DEF da
<1> HIDE DEF D
<1>16. RecordedStep(dst, v4, {src}, da, 0, D)
  BY <1>1, <1>6, <1>7, <1>13, <1>14, <1>15 DEF RecordedStep
<1>17. QED
  BY <1>1, <1>2, <1>14, <1>16, Recorded

-----------------------------------------------------------------------------
(* The steps that record nothing *)

(* The trace and the inputs stay, and every polynomial that is still known *)
(* keeps its value, its address and its clone parent.                      *)
QuietStep ==
  /\ UNCHANGED <<mem, first, inputs>>
  /\ known' \subseteq known /\ captured' \subseteq captured
  /\ captured' \subseteq known' /\ known' \subseteq Live'
  /\ \A id \in known' :
       /\ val'[id] = val[id] /\ alloc'.map[id] = alloc.map[id]
       /\ data_parent'[alloc.map[id]] = data_parent[alloc.map[id]]
       /\ LET p == data_parent[alloc.map[id]] IN
          Followed /\ p # 0 /\ InUse(alloc, p) => InUse(alloc', p)

LEMMA Quiet ==
  ASSUME RInv, IInv', QuietStep
  PROVE  RInv'
<1>1. Tracked'
  BY DEF RInv, Tracked, InputsStayLoadable, QuietStep
<1>2. Faithful'
  <2> SUFFICES ASSUME Followed
               PROVE (ReplayFaithful /\ LineageSound /\ ParentsRead /\ ParentsInUse)'
    BY DEF Faithful, Followed
  <2>1. ReplayFaithful /\ LineageSound /\ ParentsRead /\ ParentsInUse
    BY DEF RInv, Faithful
  <2>2. QED
    BY <2>1 DEF ReplayFaithful, LineageSound, ParentsRead, ParentsInUse, QuietStep
<1>3. QED
  BY <1>1, <1>2 DEF RInv

(* Allocation keeps the clone parents of mapped polynomials in use. *)
LEMMA ParentStays ==
  ASSUME IInv, Extends(alloc, alloc'), NEW id \in Ids, InUse(alloc, data_parent[alloc.map[id]])
  PROVE  InUse(alloc', data_parent[alloc.map[id]])
<1>1. data_parent[alloc.map[id]] \in Addrs
  BY Facts, OwnersNow DEF OwnersApart
<1>2. QED
  BY <1>1 DEF Extends, TakesUnused

(* A polynomial that is forgotten, at most, leaves the others alone. *)
LEMMA ForgottenIsQuiet ==
  ASSUME RInv, IInv', NEW id \in Ids, Forgets(id), Extends(alloc, alloc'),
         UNCHANGED <<refcount, data_parent, mem, first, inputs>>
  PROVE  RInv'
<1>1. captured \subseteq known /\ known \subseteq Live /\ (\A j \in known : alloc.map[j] # 0)
      /\ Live \subseteq Ids /\ val \in [Ids -> Values]
  BY Facts DEF RInv, Tracked, HostTyped
<1>2. Live' = Live
  BY DEF Live, Alive, Forgets
<1>3. \A j \in known' : j # id /\ j \in known /\ j \in Ids
  BY <1>1 DEF Forgets
<1>4. \A j \in known' : val'[j] = val[j] /\ alloc'.map[j] = alloc.map[j]
  BY <1>1, <1>3 DEF Forgets, Extends
<1>7. IInv
  BY DEF RInv
<1>5. QuietStep
  BY <1>1, <1>2, <1>3, <1>4, <1>7, ParentStays DEF QuietStep, Forgets
<1>6. QED
  BY <1>5, Quiet

LEMMA UnrecordedReplay ==
  ASSUME RInv, NEW id \in Ids, Unrecorded(id)
  PROVE  RInv'
<1>1. IInv'
  BY UnrecordedStep DEF RInv
<1>2. Extends(alloc, alloc')
  BY SameTakes DEF Unrecorded, probe_vars
<1>3. QED
  BY <1>1, <1>2, ForgottenIsQuiet DEF Unrecorded, probe_vars, trace

LEMMA PrecomputeReplay ==
  ASSUME RInv, NEW id \in Ids, Precompute(id)
  PROVE  RInv'
<1>1. IInv'
  BY PrecomputeStep DEF RInv
<1>2. Extends(alloc, alloc')
  BY SameTakes DEF Precompute
<1>3. QED
  BY <1>1, <1>2, ForgottenIsQuiet DEF Precompute, trace

LEMMA SampleReplay ==
  ASSUME RInv, NEW id \in Ids, Sample(id)
  PROVE  RInv'
<1>1. IInv /\ IInv'
  BY SampleStep DEF RInv
<1>2. Extends(alloc, alloc')
  <2>1. id \in Live /\ pinned' = pinned \cup {id}
        /\ alloc' = (IF ShouldRecord THEN MapAddress(alloc, pinned', id) ELSE alloc)
    BY DEF Sample, Live
  <2>2. AllocOK(alloc, Live, pinned', Held) /\ pinned' \in SUBSET Ids
    BY <1>1, <2>1, Facts, PinOK
  <2>3. Extends(alloc, MapAddress(alloc, pinned', id))
    BY <1>1, <2>1, <2>2, Facts, Mapped
  <2>4. QED
    BY <2>1, <2>3, SameTakes
<1>3. QED
  BY <1>1, <1>2, ForgottenIsQuiet DEF Sample, trace

(* Nothing the host holds changes. *)
LEMMA HostKeptIsQuiet ==
  ASSUME RInv, IInv', Extends(alloc, alloc'), Live \subseteq Live',
         UNCHANGED <<data_parent, mem, first, inputs, val, known, captured>>
  PROVE  RInv'
<1>1. captured \subseteq known /\ known \subseteq Live /\ (\A j \in known : alloc.map[j] # 0)
      /\ Live \subseteq Ids
  BY Facts DEF RInv, Tracked
<1>4. IInv /\ known \subseteq Ids
  BY <1>1 DEF RInv
<1>2. QuietStep
  BY <1>1, <1>4, ParentStays DEF QuietStep, Extends
<1>3. QED
  BY <1>2, Quiet

LEMMA TouchReplay ==
  ASSUME RInv, NEW id \in Ids, Touch(id)
  PROVE  RInv'
<1>1. IInv /\ IInv'
  BY TouchStep DEF RInv
<1>2. id \in Live /\ alloc' = MapAddress(alloc, pinned, id) /\ Live' = Live
  BY DEF Touch, Live, Alive, host
<1>3. Extends(alloc, alloc')
  BY <1>1, <1>2, Mapped1
<1>4. QED
  BY <1>1, <1>2, <1>3, HostKeptIsQuiet DEF Touch, trace, host

LEMMA NewIdReplay ==
  ASSUME RInv, NEW id \in Ids, NewId(id)
  PROVE  RInv'
<1>1. IInv /\ IInv'
  BY NewIdStep DEF RInv
<1>2. Live \subseteq Live'
  BY <1>1 DEF NewId, Live, Alive, host, IInv, TypeOK
<1>3. Extends(alloc, alloc')
  BY SameTakes DEF NewId
<1>4. QED
  BY <1>1, <1>2, <1>3, HostKeptIsQuiet DEF NewId, trace, host

LEMMA ReserveReplay ==
  ASSUME RInv, NEW n \in Addrs, ReserveAddresses(n)
  PROVE  RInv'
<1>1. IInv /\ IInv'
  BY ReserveStep DEF RInv
<1>2. Live' = Live
  BY DEF ReserveAddresses, Live, Alive, host
<1>3. Extends(alloc, alloc')
  <2>1. /\ alloc.next \in Nat /\ alloc'.map = alloc.map /\ alloc'.pool = alloc.pool
        /\ alloc'.next \in Nat /\ alloc'.next >= alloc.next
    BY <1>1, AddrsAssumption DEF ReserveAddresses, IInv, TypeOK
  <2>2. \A q \in Addrs : InUse(alloc, q) => InUse(alloc', q)
    BY <2>1, AddrsAssumption DEF InUse
  <2>3. TakesUnused(alloc, alloc')
    BY <2>1, <2>2 DEF TakesUnused
  <2>4. QED
    BY <2>1, <2>3 DEF Extends
<1>4. QED
  BY <1>1, <1>2, <1>3, HostKeptIsQuiet DEF ReserveAddresses, trace, host

(* The moved-to polynomial takes value, address and clone parent over. *)
LEMMA MoveReplay ==
  ASSUME RInv, NEW dst \in Ids, NEW src \in Ids, Move(dst, src)
  PROVE  RInv'
<1> DEFINE al == MapAddress(alloc, pinned, src)
<1>1. /\ dst \in Live /\ src \in Live /\ dst # src
      /\ alloc' = [al EXCEPT !.map[dst] = al.map[src]]
      /\ val' = [val EXCEPT ![dst] = val[src], ![src] = Zero]
      /\ known' = (known \ {dst, src}) \cup {id \in {dst} : src \in known}
      /\ captured' = (captured \ {dst, src}) \cup {id \in {dst} : src \in captured}
      /\ moved' = moved \cup {src}
      /\ UNCHANGED <<refcount, data_parent, mem, first, inputs>>
  BY DEF Move, Live, trace
<1>2. IInv /\ IInv'
  BY MoveStep DEF RInv
<1>3. captured \subseteq known /\ known \subseteq Live /\ (\A j \in known : alloc.map[j] # 0)
      /\ Live \subseteq Ids /\ val \in [Ids -> Values]
  BY <1>2, Facts DEF RInv, Tracked, HostTyped
<1>4. Extends(alloc, al) /\ AllocOK(al, Live, pinned, Held)
  BY <1>1, <1>2, Facts, Mapped
<1> HIDE DEF al
<1>5. al.map \in [Ids -> Nat]
  BY <1>4 DEF AllocOK, Owned, AllocType
<1>6. alloc'.map[dst] = al.map[src] /\ \A j \in Ids \ {dst} : alloc'.map[j] = al.map[j]
  <2>1. al \in AllocType
    BY <1>4 DEF AllocOK, Owned
  <2>2. QED
    BY <1>1, <2>1 DEF AllocType
<1>7. Live' = Live \ {src}
  BY <1>1 DEF Live, Alive
<1>8. ASSUME NEW j \in known', j # dst
      PROVE  /\ j \in known /\ j # src /\ j \in Ids
             /\ val'[j] = val[j] /\ alloc'.map[j] = alloc.map[j]
  BY <1>1, <1>3, <1>4, <1>6, <1>8 DEF Extends
<1>9. ASSUME dst \in known'
      PROVE  src \in known /\ val'[dst] = val[src] /\ alloc'.map[dst] = alloc.map[src]
  BY <1>1, <1>3, <1>4, <1>6, <1>9 DEF Extends
<1>10. captured' \subseteq known' /\ known' \subseteq Live'
       /\ (\A j \in captured' : j # dst => j \in captured)
       /\ (dst \in captured' => src \in captured)
  BY <1>1, <1>3, <1>7
<1>11. Tracked'
  <2>1. \A j \in known' : alloc'.map[j] # 0
    BY <1>3, <1>8, <1>9
  <2>2. \A j \in captured : inputs[alloc.map[j]] = val[j]
    BY DEF RInv, Tracked, InputsStayLoadable
  <2>3. \A j \in captured' : inputs'[alloc'.map[j]] = val'[j]
    <3> SUFFICES ASSUME NEW j \in captured' PROVE inputs'[alloc'.map[j]] = val'[j]
      OBVIOUS
    <3>1. j \in known' /\ inputs' = inputs
      BY <1>1, <1>10
    <3>2. CASE j = dst
      BY <1>9, <1>10, <2>2, <3>1, <3>2
    <3>3. CASE j # dst
      BY <1>8, <1>10, <2>2, <3>1, <3>3
    <3>4. QED
      BY <3>2, <3>3
  <2>4. QED
    BY <1>10, <2>1, <2>3 DEF Tracked, InputsStayLoadable
<1>12. Faithful'
  <2> SUFFICES ASSUME Followed
               PROVE (ReplayFaithful /\ LineageSound /\ ParentsRead /\ ParentsInUse)'
    BY DEF Faithful, Followed
  <2>1. ReplayFaithful /\ LineageSound /\ ParentsRead /\ ParentsInUse
    BY DEF RInv, Faithful
  <2>2. ASSUME NEW j \in known'
        PROVE  \E i \in known : alloc'.map[j] = alloc.map[i] /\ val'[j] = val[i]
    BY <1>8, <1>9, <2>2
  <2>3. UNCHANGED <<data_parent, mem, first>>
    BY <1>1
  <2>4. (ReplayFaithful /\ LineageSound /\ ParentsRead)'
    BY <2>1, <2>2, <2>3 DEF ReplayFaithful, LineageSound, ParentsRead
  <2>5. \A q \in Addrs : InUse(alloc, q) => InUse(alloc', q)
    <3>1. alloc'.next = al.next /\ alloc'.pool = al.pool
      BY <1>1, <1>4 DEF AllocOK, Owned, AllocType
    <3>2. QED
      BY <1>4, <3>1 DEF Extends, TakesUnused, InUse
  <2>6. \A i \in known : data_parent[alloc.map[i]] \in Addrs
    BY <1>2, <1>3, Facts, OwnersNow DEF OwnersApart
  <2>7. ParentsInUse'
    <3> SUFFICES ASSUME NEW j \in known', data_parent[alloc'.map[j]] # 0
                 PROVE  InUse(alloc', data_parent[alloc'.map[j]])
      BY <2>3 DEF ParentsInUse
    <3>1. PICK i \in known : alloc'.map[j] = alloc.map[i]
      BY <2>2
    <3>2. QED
      BY <2>1, <2>5, <2>6, <3>1 DEF ParentsInUse
  <2>8. QED
    BY <2>4, <2>7
<1>13. QED
  BY <1>2, <1>11, <1>12 DEF RInv

(* The freed address and its lineage belong to no other known polynomial. *)
LEMMA ReassignIdReplay ==
  ASSUME RInv, NEW dst_old \in Ids, NEW src \in Ids, ReassignId(dst_old, src)
  PROVE  RInv'
<1> DEFINE rc    == [[refcount EXCEPT ![src] = @ + 1] EXCEPT ![dst_old] = @ - 1]
           dies  == rc[dst_old] = 0
           a     == alloc.map[dst_old]
           frees == Frees(dst_old, dies)
<1>1. /\ dst_old \in Live /\ src \in Live /\ refcount' = rc
      /\ alloc' = IF frees THEN [alloc EXCEPT !.map[dst_old] = 0, !.pool = Append(@, a)] ELSE alloc
      /\ data_parent' = IF frees THEN [data_parent EXCEPT ![a] = 0] ELSE data_parent
      /\ IF dies THEN Forgets(dst_old) ELSE UNCHANGED host
      /\ UNCHANGED <<mem, first, inputs>>
      /\ frees => ClonesConsumed(dst_old)
  BY DEF ReassignId, Live, trace
<1>2. IInv /\ IInv'
  BY ReassignIdStep DEF RInv
<1>3. captured \subseteq known /\ known \subseteq Live /\ (\A j \in known : alloc.map[j] # 0)
      /\ Live \subseteq Ids /\ val \in [Ids -> Values]
  BY <1>2, Facts DEF RInv, Tracked, HostTyped
<1>4. refcount \in [Ids -> 0 .. MaxRef] /\ MaxRef \in Nat
      /\ \A j \in Live : refcount[j] > 0 /\ j \notin moved
  BY <1>2, MaxRefAssumption DEF IInv, TypeOK, Live, Alive
<1>5. /\ known' \subseteq known /\ captured' \subseteq captured /\ captured' \subseteq known'
      /\ moved' = moved /\ (dies => dst_old \notin known')
      /\ \A j \in known' : val'[j] = val[j]
  BY <1>1, <1>3 DEF Forgets, host
<1>6. \A j \in known' : j \in Live' /\ (frees => j # dst_old)
  <2> SUFFICES ASSUME NEW j \in known' PROVE j \in Live' /\ (frees => j # dst_old)
    OBVIOUS
  <2>1. j \in Live /\ j \in Ids
    BY <1>3, <1>5
  <2>2. refcount'[j] > 0
    BY <1>1, <1>4, <1>5, <2>1
  <2>3. QED
    BY <1>4, <1>5, <2>1, <2>2 DEF Live, Alive, Frees
<1>7. \A j \in known' : alloc'.map[j] = alloc.map[j]
  BY <1>1, <1>2, <1>3, <1>5, <1>6 DEF IInv, TypeOK
<1>8. \A j \in known' : data_parent'[alloc.map[j]] = data_parent[alloc.map[j]]
  <2>1. \A j \in known' : j # dst_old => alloc.map[j] # a
    BY <1>1, <1>2, <1>3, <1>5, OwnersNow DEF OwnersApart
  <2>2. data_parent \in [Addrs -> Addrs] /\ \A j \in Ids : alloc.map[j] \in Addrs
    BY <1>2, Facts, OwnersNow DEF OwnersApart
  <2>3. QED
    BY <1>1, <1>3, <1>5, <1>6, <2>1, <2>2
<1>11. ASSUME NEW j \in known', Followed, NEW p, p = data_parent[alloc.map[j]],
              p # 0, InUse(alloc, p)
       PROVE  InUse(alloc', p)
  <2>1. CASE ~frees
    BY <1>1, <1>11, <2>1
  <2>2. CASE frees
    <3>1. j # dst_old /\ j \in known
      BY <1>5, <1>6, <2>2
    <3>2. a # 0
      BY <2>2 DEF Frees
    <3>3. ClonesOf(dst_old) = {}
      BY <1>1, <1>11, <2>2 DEF ClonesConsumed, Followed
    <3>4. p # a
      BY <1>11, <3>1, <3>2, <3>3 DEF ClonesOf
    <3>5. alloc \in AllocType
      BY <1>2, Facts DEF AllocOK, Owned
    <3>6. alloc'.next = alloc.next /\ alloc'.pool = Append(alloc.pool, a) /\ alloc.pool \in Seq(Nat \ {0})
      BY <1>1, <2>2, <3>5 DEF AllocType
    <3> HIDE DEF a
    <3>7. \A k \in 1 .. Len(alloc'.pool) : alloc'.pool[k] # p
      BY <1>11, <3>4, <3>6 DEF InUse
    <3>8. QED
      BY <1>11, <3>6, <3>7 DEF InUse
  <2>3. QED
    BY <2>1, <2>2
<1>9. QuietStep
  BY <1>1, <1>5, <1>6, <1>7, <1>8, <1>11 DEF QuietStep
<1>10. QED
  BY <1>2, <1>9, Quiet

LEMMA CaptureAddr ==
  ASSUME RInv, NEW id \in Ids, NEW v \in Values, Capture(id, v)
  PROVE  MapAddress(alloc, pinned \cup {id}, id).map[id] \in Addrs
<1>1. IInv' /\ alloc' = MapAddress(alloc, pinned \cup {id}, id)
  BY CaptureStep DEF RInv, Capture
<1>2. QED
  BY <1>1, OwnersNext DEF OwnersApart

(* An input captured before the trace touches its address is what the      *)
(* replay loads there, and is nobody's clone parent.                       *)
LEMMA CaptureReplay ==
  ASSUME RInv, NEW id \in Ids, NEW v \in Values, Capture(id, v)
  PROVE  RInv'
<1> DEFINE pins == pinned \cup {id}
           al   == MapAddress(alloc, pins, id)
           a    == al.map[id]
<1>1. /\ id \in Live /\ alloc' = al
      /\ id \in known => v = val[id]
      /\ inputs' = [inputs EXCEPT ![a] = v]
      /\ "recapture_same" \in Rules =>
           mem' = IF first[a] = "none" THEN [mem EXCEPT ![a] = v] ELSE mem
      /\ val' = [val EXCEPT ![id] = v]
      /\ known' = known \cup {id} /\ captured' = captured \cup {id}
      /\ "capture_first" \in Rules => (first[a] = "none" /\ data_parent[a] = 0) \/ id \in known
      /\ UNCHANGED <<refcount, data_parent, first, moved>>
  <2>1. first[a] = "none" \/ first[a] = "read" \/ first[a] = "write"
    <3>1. a \in Addrs
      BY CaptureAddr
    <3>2. QED
      BY <3>1, Facts DEF RInv, Uses
  <2> HIDE DEF a, al
  <2>2. QED
    BY <2>1 DEF Capture, Live, a, al, pins
<1>2. IInv /\ IInv'
  BY CaptureStep DEF RInv
<1>3. captured \subseteq known /\ known \subseteq Live /\ (\A j \in known : alloc.map[j] # 0)
      /\ Live \subseteq Ids /\ val \in [Ids -> Values]
      /\ \A j \in captured : inputs[alloc.map[j]] = val[j]
  BY <1>2, Facts DEF RInv, Tracked, HostTyped, InputsStayLoadable
<1>4. Extends(alloc, al) /\ a # 0
  <2>1. pins \in SUBSET Ids /\ AllocOK(alloc, Live, pins, Held)
    BY <1>1, <1>2, Facts, PinOK
  <2>2. QED
    BY <1>1, <1>2, <2>1, Facts, Mapped
<1> HIDE DEF al
<1>5. Live' = Live
  BY <1>1 DEF Live, Alive
<1>6. a \in Addrs /\ \A j \in Live : j # id => al.map[j] # a
  BY <1>1, <1>2, <1>4, <1>5, OwnersNext DEF OwnersApart
<1>7. \A j \in known : al.map[j] = alloc.map[j]
  BY <1>3, <1>4 DEF Extends
<1>8. \A j \in Ids : alloc.map[j] \in Addrs
  BY <1>2, OwnersNow DEF OwnersApart
<1>9. mem \in Memories /\ inputs \in Memories /\ data_parent \in [Addrs -> Addrs]
  BY <1>2, Facts
<1>10. val'[id] = v /\ inputs'[a] = v /\ alloc'.map[id] = a
  BY <1>1, <1>3, <1>6, <1>9 DEF Memories
<1>11. \A j \in known' : j # id =>
         /\ j \in known /\ alloc'.map[j] = alloc.map[j] /\ alloc.map[j] # a
         /\ val'[j] = val[j] /\ inputs'[alloc.map[j]] = inputs[alloc.map[j]]
         /\ Followed => mem'[alloc.map[j]] = mem[alloc.map[j]]
  <2> SUFFICES ASSUME NEW j \in known', j # id
               PROVE  /\ j \in known /\ alloc'.map[j] = alloc.map[j] /\ alloc.map[j] # a
                      /\ val'[j] = val[j] /\ inputs'[alloc.map[j]] = inputs[alloc.map[j]]
                      /\ Followed => mem'[alloc.map[j]] = mem[alloc.map[j]]
    OBVIOUS
  <2>1. j \in known /\ j \in Live /\ j \in Ids
    BY <1>1, <1>3
  <2>2. alloc'.map[j] = alloc.map[j] /\ alloc.map[j] # a /\ alloc.map[j] \in Addrs
    BY <1>1, <1>6, <1>7, <1>8, <2>1
  <2>3. QED
    BY <1>1, <1>3, <1>9, <2>1, <2>2 DEF Memories, Followed
<1>12. Tracked'
  <2>1. captured' \subseteq known' /\ known' \subseteq Live'
    BY <1>1, <1>3, <1>5
  <2>2. \A j \in known' : alloc'.map[j] # 0
    BY <1>3, <1>4, <1>10, <1>11
  <2>3. \A j \in captured' : inputs'[alloc'.map[j]] = val'[j]
    BY <1>1, <1>3, <1>10, <1>11
  <2>4. QED
    BY <2>1, <2>2, <2>3 DEF Tracked, InputsStayLoadable
<1>13. Faithful'
  <2> SUFFICES ASSUME Followed
               PROVE (ReplayFaithful /\ LineageSound /\ ParentsRead /\ ParentsInUse)'
    BY DEF Faithful, Followed
  <2>1. /\ \A j \in known : mem[alloc.map[j]] = val[j]
        /\ \A j \in known : data_parent[alloc.map[j]] # 0 =>
             /\ mem[data_parent[alloc.map[j]]] = val[j]
             /\ first[data_parent[alloc.map[j]]] # "none"
             /\ InUse(alloc, data_parent[alloc.map[j]])
    BY DEF RInv, Faithful, ReplayFaithful, LineageSound, ParentsRead, ParentsInUse
  <2>2. "capture_first" \in Rules /\ "recapture_same" \in Rules
    BY DEF Followed
  <2>3. id \in known => mem'[a] = v /\ (data_parent[a] # 0 =>
                          mem[data_parent[a]] = v /\ first[data_parent[a]] # "none")
    BY <1>1, <1>6, <1>7, <1>9, <2>1, <2>2 DEF Memories
  <2>4. id \notin known => mem'[a] = v /\ data_parent[a] = 0
    BY <1>1, <1>6, <1>9, <2>2 DEF Memories
  <2>5. \A p \in Addrs : first[p] # "none" => mem'[p] = mem[p]
    BY <1>1, <1>9, <2>2 DEF Memories
  <2>8. \A j \in known : InUse(alloc, data_parent[alloc.map[j]]) => InUse(alloc', data_parent[alloc.map[j]])
    BY <1>1, <1>2, <1>3, <1>4, ParentStays
  <2>6. ASSUME NEW j \in known'
        PROVE  LET b == alloc'.map[j]
                   q == data_parent'[b]
               IN  /\ b # 0 /\ mem'[b] = val'[j]
                   /\ q # 0 => mem'[q] = val'[j] /\ first'[q] # "none" /\ InUse(alloc', q)
    <3>1. CASE j = id
      <4>1. alloc'.map[id] = a /\ a # 0 /\ mem'[a] = val'[id] /\ data_parent' = data_parent
            /\ data_parent[a] \in Addrs
        BY <1>1, <1>4, <1>6, <1>9, <1>10, <2>3, <2>4
      <4>2. CASE id \in known
        <5>1. a = alloc.map[id]
          BY <1>7, <4>2
        <5>2. QED
          BY <1>1, <1>10, <2>1, <2>3, <2>5, <2>8, <3>1, <4>1, <4>2, <5>1
      <4>3. CASE id \notin known
        BY <2>4, <3>1, <4>1, <4>3
      <4>4. QED
        BY <4>2, <4>3
    <3>2. CASE j # id
      <4>1. /\ j \in known /\ j \in Ids /\ alloc'.map[j] = alloc.map[j]
            /\ val'[j] = val[j] /\ mem'[alloc.map[j]] = mem[alloc.map[j]]
        BY <1>3, <1>11, <3>2
      <4>2. alloc.map[j] # 0 /\ alloc.map[j] \in Addrs /\ data_parent[alloc.map[j]] \in Addrs
        BY <1>3, <1>8, <1>9, <4>1
      <4>3. QED
        BY <1>1, <2>1, <2>5, <2>8, <4>1, <4>2
    <3>3. QED
      BY <3>1, <3>2
  <2>7. QED
    BY <2>6 DEF ReplayFaithful, LineageSound, ParentsRead, ParentsInUse
<1>14. QED
  BY <1>2, <1>12, <1>13 DEF RInv

-----------------------------------------------------------------------------
(* The session's steps *)

(* A new trace knows the inputs that are still as they were captured. *)
LEMMA NewTraceReplay ==
  ASSUME RInv, IInv', NewTrace
  PROVE  RInv'
<1>1. captured \subseteq known /\ known \subseteq Live /\ (\A j \in known : alloc.map[j] # 0)
      /\ Live \subseteq Ids /\ \A j \in captured : inputs[alloc.map[j]] = val[j]
  BY Facts DEF RInv, Tracked, InputsStayLoadable
<1>2. /\ alloc' = alloc /\ data_parent' = data_parent /\ Live' = Live
      /\ mem' = inputs /\ inputs' = inputs /\ known' = captured /\ captured' = captured
      /\ "fresh_lineage" \in Rules => \A j \in captured : data_parent[alloc.map[j]] = 0
  BY DEF NewTrace, probe_vars, Live, Alive
<1>3. \A j \in captured : val'[j] = val[j]
  BY <1>1 DEF NewTrace
<1>4. Tracked'
  BY <1>1, <1>2, <1>3 DEF Tracked, InputsStayLoadable
<1>5. Faithful'
  <2> SUFFICES ASSUME Followed
               PROVE (ReplayFaithful /\ LineageSound /\ ParentsRead /\ ParentsInUse)'
    BY DEF Faithful, Followed
  <2>1. "fresh_lineage" \in Rules
    BY DEF Followed
  <2>2. QED
    BY <1>1, <1>2, <1>3, <2>1 DEF ReplayFaithful, LineageSound, ParentsRead, ParentsInUse
<1>6. QED
  BY <1>4, <1>5 DEF RInv

LEMMA SessionReplay ==
  ASSUME RInv, Start \/ Stop \/ StopEpoch \/ Reset \/ Pause \/ Resume
                 \/ \E on \in BOOLEAN : SuppressProbes(on) \/ SetSerializationThread(on)
  PROVE  RInv'
<1>1. IInv /\ IInv'
  BY SessionStep DEF RInv
<1>2. CASE Start \/ StopEpoch
  BY <1>1, <1>2, NewTraceReplay DEF Start, StopEpoch
<1>3. CASE Reset
  BY <1>1, <1>3 DEF Reset, RInv, Tracked, Faithful, InputsStayLoadable, ReplayFaithful,
                    LineageSound, ParentsRead, ParentsInUse
<1>4. CASE \/ Stop \/ Pause \/ Resume
           \/ \E on \in BOOLEAN : SuppressProbes(on) \/ SetSerializationThread(on)
  <2>1. UNCHANGED <<probe_vars, trace, host>>
    BY <1>4 DEF Stop, Pause, Resume, SuppressProbes, SetSerializationThread
  <2>2. Live' = Live /\ Extends(alloc, alloc')
    BY <2>1, SameTakes DEF Live, Alive, probe_vars, host
  <2>3. QED
    BY <1>1, <2>1, <2>2, HostKeptIsQuiet DEF probe_vars, trace, host
<1>5. QED
  BY <1>2, <1>3, <1>4

-----------------------------------------------------------------------------
(* The theorems *)

LEMMA RInvInit == Init => RInv
<1>1. Init => Tracked /\ Faithful
  BY DEF Init, Tracked, Faithful, InputsStayLoadable, ReplayFaithful, LineageSound, ParentsRead,
         ParentsInUse
<1>2. QED
  BY <1>1, IInvInit DEF RInv

LEMMA RInvStep == RInv /\ [Next]_vars => RInv'
<1> SUFFICES ASSUME RInv, [Next]_vars PROVE RInv'
  OBVIOUS
<1>1. CASE ArithmeticNext(Ops, Imms)
  <2>1. PICK m \in Moduli, d \in Ids, s \in Ids :
          \/ \E op \in PolyPolyOps \cap Ops, s2 \in Ids : Binary(op, d, s, s2, m)
          \/ \E op \in {"addps", "subps", "mulps"} \cap Ops, imm \in Imms : Scalar(op, d, s, imm, m)
          \/ \E op \in {"ntt", "intt", "automorph_eval"} \cap Ops : Transform(op, d, s, m)
          \/ \E s2 \in Ids, imm \in Imms : MultAccEq(d, s, s2, imm, m)
          \/ \E new \in Moduli, half, neg \in Imms : SwitchModulus(d, s, m, new, half, neg)
    BY <1>1 DEF ArithmeticNext
  <2>2. ASSUME NEW op \in PolyPolyOps \cap Ops, NEW s2 \in Ids, Binary(op, d, s, s2, m)
        PROVE  RInv'
    BY <2>2, BinaryReplay
  <2>3. ASSUME NEW op \in {"addps", "subps", "mulps"} \cap Ops, NEW imm \in Imms,
               Scalar(op, d, s, imm, m)
        PROVE  RInv'
    BY <2>3, OpsAssumption, OneSourceReplay DEF Scalar
  <2>4. ASSUME NEW op \in {"ntt", "intt", "automorph_eval"} \cap Ops, Transform(op, d, s, m)
        PROVE  RInv'
    BY <2>4, OneSourceReplay DEF Transform
  <2>5. ASSUME NEW s2 \in Ids, NEW imm \in Imms, MultAccEq(d, s, s2, imm, m) PROVE RInv'
    BY <2>5, OpsAssumption, MultAccEqReplay
  <2>6. ASSUME NEW new \in Moduli, NEW half \in Imms, NEW neg \in Imms,
               SwitchModulus(d, s, m, new, half, neg)
        PROVE  RInv'
    BY <2>6, OpsAssumption, SwitchModulusReplay
  <2>7. QED
    BY <2>1, <2>2, <2>3, <2>4, <2>5, <2>6
<1>2. CASE LifecycleNext
  BY <1>2, SetZeroReplay, CaptureReplay, UnrecordedReplay, NewIdReplay, TouchReplay, SampleReplay,
     PrecomputeReplay, CopyReplay, MoveReplay, ReassignIdReplay DEF LifecycleNext
<1>3. CASE SessionNext
  BY <1>3, SessionReplay, ReserveReplay DEF SessionNext
<1>4. CASE UNCHANGED vars
  <2>1. UNCHANGED <<alloc, refcount, data_parent, mem, first, inputs, val, known, captured, moved>>
    BY <1>4 DEF vars, probe_vars, control, trace, host
  <2>2. IInv'
    BY <1>4, IInvStep DEF RInv
  <2>3. Live' = Live /\ Extends(alloc, alloc')
    BY <2>1, SameTakes DEF Live, Alive
  <2>4. QED
    BY <2>1, <2>2, <2>3, HostKeptIsQuiet
<1>5. QED
  BY <1>1, <1>2, <1>3, <1>4 DEF Next, NextWith

(* The invariant the theorems below follow from. *)
THEOREM ProbesReplayInvariant == Spec => []RInv
BY RInvInit, RInvStep, PTL DEF Spec

(* Whatever order the probes are called in, an input that was captured and *)
(* not changed since is stored where the address map puts it, so that the  *)
(* next trace loads it from there.                                         *)
THEOREM ProbesInputsStayLoadable == Spec => []InputsStayLoadable
<1>1. RInv => InputsStayLoadable
  BY DEF RInv, Tracked
<1>2. QED
  BY <1>1, ProbesReplayInvariant, PTL

(* Replaying the recorded trace leaves every polynomial the host computed  *)
(* from captured inputs at the address the probes gave it, whatever was    *)
(* recycled, moved, cloned or paused, if the host consumes clones before   *)
(* their original changes or is let go, captures before it computes, never *)
(* replaces an input the trace has read, and starts a trace without clones *)
(* of captured inputs.                                                     *)
THEOREM ProbesReplayFaithful ==
  ASSUME {"clone_first", "capture_first", "recapture_same", "fresh_lineage"} \subseteq Rules
  PROVE  Spec => []ReplayFaithful
<1>1. RInv => ReplayFaithful
  BY DEF RInv, Faithful, Followed
<1>2. QED
  BY <1>1, ProbesReplayInvariant, PTL

(* Under the same disciplines resolve_inplace_src may read a clone's       *)
(* parent in its place: both hold the clone's value.                       *)
THEOREM ProbesLineageSound ==
  ASSUME {"clone_first", "capture_first", "recapture_same", "fresh_lineage"} \subseteq Rules
  PROVE  Spec => []LineageSound
<1>1. RInv => LineageSound
  BY DEF RInv, Faithful, Followed
<1>2. QED
  BY <1>1, ProbesReplayInvariant, PTL
=============================================================================
