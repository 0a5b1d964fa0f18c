--------------------------- MODULE ApiSessionProofs ---------------------------
(***************************************************************************)
(* Proofs about ApiSession, for hosts that keep to all four rules and for  *)
(* every bound on their objects, tags and cycles.                          *)
(*                                                                         *)
(* Within a cycle the handles given out so far are a set P, of which the   *)
(* inputs I are never written (Stands): the trace computes every handle of *)
(* P from those of I, no address is given twice, and the modulus bound to  *)
(* an address is the one its result was computed under.  start() begins a  *)
(* new cycle with no handles, and between stop() and the next start() the  *)
(* API's state stays as it is.                                             *)
(***************************************************************************)
EXTENDS ApiSession, FhetchApiProofs

(* The moduli bound to addresses: of results computed under a prime it,    *)
(* and of addresses read under a prime never the sentinel.                 *)
Moduli(s, P) ==
  /\ DOMAIN s.address_modulus \subseteq 0 .. s.next_address - 1
  /\ \A x \in P : x.q \in Primes => /\ x.address \in DOMAIN s.address_modulus
                                    /\ s.address_modulus[x.address] = x.q
  /\ \A k \in DOMAIN s.log : s.log[k].modulus \in Primes =>
       \A a \in Reads(s.log[k]) : /\ a \in DOMAIN s.address_modulus
                                  /\ s.address_modulus[a] # COPY_SENTINEL

Stands(s, I, P) ==
  /\ Sound(s, I, P) /\ I \subseteq P
  /\ \A x, y \in P : x.address = y.address => x = y
  /\ \A x \in P : x.data # None => x \in I /\ x.term = x.data /\ x.q = None
  /\ \A x \in I : x.data = None => x.term = Zero
  /\ Moduli(s, P)

-----------------------------------------------------------------------------
(* Moduli *)

(* t has q bound to the addresses of A. *)
Remembers(s, A, q, t) ==
  /\ Api(t) /\ SameBooks(s, t) /\ t.log = s.log /\ t.next_address = s.next_address
  /\ DOMAIN t.address_modulus = DOMAIN s.address_modulus \cup A
  /\ \A a \in DOMAIN s.address_modulus :
       s.address_modulus[a] # COPY_SENTINEL => t.address_modulus[a] = s.address_modulus[a]
  /\ q # COPY_SENTINEL => \A a \in A : t.address_modulus[a] # COPY_SENTINEL
  /\ \A a \in A : a \notin DOMAIN s.address_modulus => t.address_modulus[a] = q
  /\ \A a \in A \cap DOMAIN s.address_modulus :
       s.address_modulus[a] = COPY_SENTINEL /\ q # COPY_SENTINEL => t.address_modulus[a] = q

LEMMA RememberIs ==
  ASSUME NEW s, Api(s), NEW A, NEW q, NEW t, t = remember_modulus(s, A, q)
  PROVE  Remembers(s, A, q, t)
<1> DEFINE am == s.address_modulus
           new == [a \in DOMAIN am \cup A |->
                     IF a \in A /\ (a \in DOMAIN am => Upgrades(am[a], q)) THEN q ELSE am[a]]
<1>1. t = [s EXCEPT !.address_modulus = new] BY DEF remember_modulus
<1>2. t.address_modulus = new
  <2> HIDE DEF new
  <2> QED BY <1>1 DEF Api, Fields
<1>3. /\ Api(t) /\ SameBooks(s, t) /\ t.log = s.log /\ t.next_address = s.next_address
  <2> HIDE DEF new
  <2> QED BY <1>1 DEF Api, Fields, SameBooks
<1>4. PICK f, g : f = am /\ g = t.address_modulus OBVIOUS
<1>5. g = [a \in DOMAIN f \cup A |->
             IF a \in A /\ (a \in DOMAIN f => f[a] = COPY_SENTINEL /\ q # COPY_SENTINEL) THEN q ELSE f[a]]
  BY <1>2, <1>4 DEF Upgrades
<1>6. /\ DOMAIN g = DOMAIN f \cup A
      /\ \A a \in DOMAIN f : f[a] # COPY_SENTINEL => g[a] = f[a]
      /\ q # COPY_SENTINEL => \A a \in A : g[a] # COPY_SENTINEL
      /\ \A a \in A : a \notin DOMAIN f => g[a] = q
      /\ \A a \in A \cap DOMAIN f : f[a] = COPY_SENTINEL /\ q # COPY_SENTINEL => g[a] = q
  BY <1>5
<1> QED BY <1>3, <1>4, <1>6 DEF Remembers

(* Binding addresses that have been given out keeps what the results were  *)
(* computed under.                                                         *)
LEMMA RememberModuli ==
  ASSUME NEW s, Api(s), NEW P, Moduli(s, P), NEW A, A \subseteq 0 .. s.next_address - 1,
         NEW q, NEW t, t = remember_modulus(s, A, q)
  PROVE  Moduli(t, P)
<1>1. PICK f, g : f = s.address_modulus /\ g = t.address_modulus OBVIOUS
<1>2. /\ t.log = s.log /\ t.next_address = s.next_address
      /\ DOMAIN g = DOMAIN f \cup A
      /\ \A a \in DOMAIN f : f[a] # COPY_SENTINEL => g[a] = f[a]
  BY <1>1, RememberIs DEF Remembers
<1>3. DOMAIN g \subseteq 0 .. t.next_address - 1 BY <1>1, <1>2 DEF Moduli
<1>4. ASSUME NEW x \in P, x.q \in Primes PROVE x.address \in DOMAIN g /\ g[x.address] = x.q
  <2>1. x.address \in DOMAIN f /\ f[x.address] = x.q BY <1>1, <1>4 DEF Moduli
  <2>2. x.q # COPY_SENTINEL BY <1>4, PrimesAssumption
  <2> QED BY <1>2, <2>1, <2>2
<1>5. ASSUME NEW k \in DOMAIN s.log, s.log[k].modulus \in Primes, NEW a \in Reads(s.log[k])
      PROVE  a \in DOMAIN g /\ g[a] # COPY_SENTINEL
  <2>1. a \in DOMAIN f /\ f[a] # COPY_SENTINEL BY <1>1, <1>5 DEF Moduli
  <2> QED BY <1>2, <2>1
<1> QED BY <1>1, <1>2, <1>3, <1>4, <1>5 DEF Moduli

LEMMA StandsRemember ==
  ASSUME NEW s, NEW I, NEW P, Stands(s, I, P), NEW A, A \subseteq 0 .. s.next_address - 1,
         NEW q, NEW t, t = remember_modulus(s, A, q)
  PROVE  Stands(t, I, P)
<1>1. Api(s) /\ Sound(s, I, P) /\ Moduli(s, P) BY DEF Stands, Sound
<1>2. Api(t) /\ t.log = s.log /\ t.next_address = s.next_address BY <1>1, RememberIs DEF Remembers
<1>3. s.next_address \in Nat BY <1>1 DEF Api
<1>4. Sound(t, I, P) BY <1>1, <1>2, <1>3, SoundSame
<1>5. Moduli(t, P) BY <1>1, RememberModuli
<1> QED BY <1>4, <1>5 DEF Stands

(* Addresses given out to nobody. *)
LEMMA StandsSame ==
  ASSUME NEW s, NEW I, NEW P, Stands(s, I, P),
         NEW t, Api(t), t.log = s.log, t.next_address >= s.next_address,
         t.address_modulus = s.address_modulus
  PROVE  Stands(t, I, P)
<1>1. Sound(t, I, P) BY SoundSame DEF Stands
<1>2. s.next_address \in Nat /\ t.next_address \in Nat BY DEF Stands, Sound, Api
<1>3. Moduli(t, P) BY <1>2 DEF Stands, Moduli
<1> QED BY <1>1, <1>3 DEF Stands

LEMMA StandsNew ==
  ASSUME NEW s, DOMAIN s = Fields, s.next_address = 0, s.log = <<>>, s.address_modulus = <<>>
  PROVE  Stands(s, {}, {})
<1>1. Sound(s, {}, {}) BY SoundNew
<1>2. DOMAIN <<>> = {} OBVIOUS
<1>3. Moduli(s, {}) BY <1>2 DEF Moduli
<1> QED BY <1>1, <1>3 DEF Stands

(* from_data(): a new input. *)
LEMMA StandsInput ==
  ASSUME NEW s, NEW I, NEW P, Stands(s, I, P), NEW values, values # None,
         NEW r, r = from_data(s, values)
  PROVE  /\ Stands(r.api, I \cup {r.out}, P \cup {r.out})
         /\ SameBooks(s, r.api) /\ r.api.next_address = s.next_address + 1
<1>1. r.api = Alloc(s) /\ r.out = Handle(s, values, values, None) BY DEF from_data, Returns
<1>2. /\ r.out.address = s.next_address /\ r.out.data = values /\ r.out.term = values
      /\ r.out.q = None
  BY <1>1 DEF Handle
<1>3. Api(s) /\ s.next_address \in Nat BY DEF Stands, Sound, Api
<1>4. /\ Api(r.api) /\ SameBooks(s, r.api) /\ r.api.log = s.log
      /\ r.api.address_modulus = s.address_modulus /\ r.api.next_address = s.next_address + 1
  BY <1>1, <1>3, AllocIs
<1>5. Sound(r.api, I \cup {r.out}, P \cup {r.out})
  BY <1>2, <1>3, <1>4, SoundInput DEF Stands
<1>6. Moduli(r.api, P \cup {r.out})
  <2>1. r.out.q \notin Primes BY <1>2, PrimesAssumption
  <2>2. DOMAIN r.api.address_modulus \subseteq 0 .. r.api.next_address - 1
    BY <1>3, <1>4 DEF Stands, Moduli
  <2> QED BY <1>4, <2>1, <2>2 DEF Stands, Moduli
<1>7. \A x \in P : x.address # r.out.address BY <1>2, <1>3 DEF Stands, Sound, Below
<1>8. \A x, y \in P \cup {r.out} : x.address = y.address => x = y
  BY <1>7 DEF Stands
<1> QED BY <1>2, <1>4, <1>5, <1>6, <1>8 DEF Stands
-----------------------------------------------------------------------------
(* One call *)

(* r is a call on handles of P under q. *)
Records(s, P, r, q) ==
  \E op, imm, token : \E a, b \in P :
    (token \in Primes => token = q) /\ r = record(s, op, a, b, imm, token, q)

(* What a call does to the moduli: operands and result are bound, under    *)
(* the modulus that is given.                                              *)
LEMMA RecordModuli ==
  ASSUME NEW s, Api(s), s.recording, s.next_address < AddressSpace,
         NEW P, Below(P, s.next_address), Moduli(s, P),
         NEW q, NEW r, Records(s, P, r, q)
  PROVE  /\ Moduli(r.api, P \cup {r.out})
         /\ r.out.address \in DOMAIN r.api.address_modulus =>
              r.api.address_modulus[r.out.address] = q
<1> PICK op, imm, token : \E a, b \in P :
      (token \in Primes => token = q) /\ r = record(s, op, a, b, imm, token, q)
  BY DEF Records
<1> PICK a \in P, b \in P :
      (token \in Primes => token = q) /\ r = record(s, op, a, b, imm, token, q)
  OBVIOUS
<1> DEFINE z == s.next_address
           second == IF op \in TwoSources THEN b.address ELSE 0
           A == {a.address, z} \cup (IF op \in TwoSources THEN {b.address} ELSE {})
           inst == RecordedInst(s, op, a, b, imm, token)
           bound == Bind(Alloc(s), A, q)
<1>0. /\ z \in Nat /\ a.address \in 0 .. z - 1 /\ b.address \in 0 .. z - 1 BY DEF Api, Below
<1>1. /\ Api(r.api) /\ r.api.next_address = z + 1 /\ r.api.log = Append(s.log, inst)
      /\ r.out.address = z /\ r.out.q = q
  <2> HIDE DEF inst, z
  <2> QED BY <1>0, RecordIs DEF inst, z
<1>2. /\ inst.opcode = op /\ inst.src1 = a.address /\ inst.src2 = second /\ inst.modulus = token
      /\ inst.dest = z
  <2>1. inst = ir(op, z, a.address, second, imm, token) BY DEF RecordedInst
  <2>2. z \in 0 .. AddressSpace - 1 /\ a.address \in 0 .. AddressSpace - 1 /\ second \in 0 .. AddressSpace - 1
    BY <1>0, AddressSpaceAssumption
  <2> HIDE DEF inst, second, z
  <2> QED BY <2>1, <2>2, IrIs
<1>3. r.api = emit(bound, inst) BY DEF record, RecordedInst, Returns
<1>4. /\ Api(Alloc(s)) /\ Alloc(s).log = s.log /\ Alloc(s).address_modulus = s.address_modulus
      /\ Alloc(s).next_address = z + 1 /\ Alloc(s).recording
  BY AllocIs DEF SameBooks
<1>5. Moduli(Alloc(s), P)
  <2>1. DOMAIN Alloc(s).address_modulus \subseteq 0 .. Alloc(s).next_address - 1
    BY <1>0, <1>4 DEF Moduli
  <2> QED BY <1>4, <2>1 DEF Moduli
<1>6. A \subseteq 0 .. (z + 1) - 1 BY <1>0
<1>7. z \notin DOMAIN s.address_modulus BY <1>0 DEF Moduli
<1> HIDE DEF A, inst, second
<1>8. /\ Api(bound) /\ bound.log = s.log /\ bound.next_address = z + 1 /\ bound.recording
      /\ Moduli(bound, P)
      /\ z \in DOMAIN bound.address_modulus => bound.address_modulus[z] = q
      /\ q \in Primes => \A x \in A : /\ x \in DOMAIN bound.address_modulus
                                      /\ bound.address_modulus[x] # COPY_SENTINEL
  <2>1. CASE q = None
    <3>1. bound = Alloc(s) BY <2>1 DEF Bind
    <3> HIDE DEF bound
    <3>2. q \notin Primes BY <2>1, PrimesAssumption
    <3> QED BY <1>4, <1>5, <1>7, <3>1, <3>2
  <2>2. CASE q # None
    <3>1. PICK u, t : u = Alloc(s) /\ t = bound OBVIOUS
    <3>2. t = remember_modulus(u, A, q) BY <2>2, <3>1 DEF Bind
    <3>3. Api(u) /\ Moduli(u, P) /\ u.next_address = z + 1 BY <1>4, <1>5, <3>1
    <3>4. Moduli(t, P) BY <1>6, <3>2, <3>3, RememberModuli
    <3>5. /\ Api(t) /\ SameBooks(u, t) /\ t.log = u.log /\ t.next_address = u.next_address
          /\ DOMAIN t.address_modulus = DOMAIN u.address_modulus \cup A
          /\ q # COPY_SENTINEL => \A x \in A : t.address_modulus[x] # COPY_SENTINEL
          /\ \A x \in A : x \notin DOMAIN u.address_modulus => t.address_modulus[x] = q
      BY <3>2, <3>3, RememberIs DEF Remembers
    <3>6. z \in A BY DEF A
    <3>7. z \notin DOMAIN u.address_modulus BY <1>4, <1>7, <3>1
    <3>8. t.address_modulus[z] = q BY <3>5, <3>6, <3>7
    <3>9. q \in Primes => q # COPY_SENTINEL BY PrimesAssumption
    <3>10. t.log = s.log /\ t.next_address = z + 1 /\ t.recording
      BY <1>4, <3>1, <3>5 DEF SameBooks
    <3> HIDE DEF bound
    <3> QED BY <3>1, <3>4, <3>5, <3>8, <3>9, <3>10
  <2> QED BY <2>1, <2>2
<1> HIDE DEF bound
<1>9. r.api.address_modulus = bound.address_modulus
  <2>1. r.api = bound \/ \E l : r.api = [bound EXCEPT !.log = l] BY <1>3 DEF emit
  <2>2. CASE r.api = bound BY <2>2
  <2>3. CASE \E l : r.api = [bound EXCEPT !.log = l]
    <3>1. PICK l : r.api = [bound EXCEPT !.log = l] BY <2>3
    <3>2. "address_modulus" \in DOMAIN bound BY <1>8 DEF Api, Fields
    <3> QED BY <3>1, <3>2
  <2> QED BY <2>1, <2>2, <2>3
<1>10. PICK g : g = r.api.address_modulus OBVIOUS
<1>11. DOMAIN g \subseteq 0 .. r.api.next_address - 1
  BY <1>1, <1>8, <1>9, <1>10 DEF Moduli
<1>12. ASSUME NEW x \in P \cup {r.out}, x.q \in Primes
       PROVE  x.address \in DOMAIN g /\ g[x.address] = x.q
  <2>1. CASE x \in P BY <1>8, <1>9, <1>10, <1>12, <2>1 DEF Moduli
  <2>2. CASE x = r.out
    <3>1. z \in A BY DEF A
    <3> QED BY <1>1, <1>8, <1>9, <1>10, <1>12, <2>2, <3>1
  <2> QED BY <2>1, <2>2
<1>13. ASSUME NEW k \in DOMAIN r.api.log, r.api.log[k].modulus \in Primes,
              NEW x \in Reads(r.api.log[k])
       PROVE  x \in DOMAIN g /\ g[x] # COPY_SENTINEL
  <2>1. /\ Len(s.log) \in Nat /\ DOMAIN s.log = 1 .. Len(s.log)
        /\ DOMAIN r.api.log = 1 .. Len(s.log) + 1 /\ r.api.log[Len(s.log) + 1] = inst
        /\ \A i \in 1 .. Len(s.log) : r.api.log[i] = s.log[i]
    BY <1>1, AppendIsSeq DEF Api
  <2>2. CASE k \in 1 .. Len(s.log)
    <3>1. k \in DOMAIN bound.log /\ r.api.log[k] = bound.log[k] BY <1>8, <2>1, <2>2
    <3> QED BY <1>8, <1>9, <1>10, <1>13, <3>1 DEF Moduli
  <2>3. CASE k \notin 1 .. Len(s.log)
    <3>1. r.api.log[k] = inst BY <2>1, <2>3
    <3>2. q \in Primes BY <1>2, <1>13, <3>1
    <3>3. x \in {a.address, second} /\ (op \notin TwoSources => x = a.address)
      BY <1>2, <1>13, <3>1 DEF Reads, TwoSources
    <3>4. x \in A BY <3>3 DEF A, second
    <3> QED BY <1>8, <1>9, <1>10, <3>2, <3>4
  <2> QED BY <2>2, <2>3
<1>14. Moduli(r.api, P \cup {r.out}) BY <1>10, <1>11, <1>12, <1>13 DEF Moduli
<1> QED BY <1>1, <1>8, <1>9, <1>14

(* From P to Q: the handles of a call are results, and at most n addresses *)
(* are taken.                                                              *)
Grows(s, P, t, Q, n) ==
  /\ \E J : Stands(t, J, Q)
  /\ P \subseteq Q /\ \A x \in Q \ P : x.data = None
  /\ SameBooks(s, t)
  /\ t.next_address >= s.next_address /\ t.next_address <= s.next_address + n

(* A call keeps the cycle's handles standing, and adds its result. *)
LEMMA StandsRecord ==
  ASSUME NEW s, NEW I, NEW P, Stands(s, I, P), s.recording, s.next_address < AddressSpace,
         NEW q, NEW r, Records(s, P, r, q)
  PROVE  /\ Grows(s, P, r.api, P \cup {r.out}, 1)
         /\ r.api.next_address = s.next_address + 1
         /\ r.out.address = s.next_address /\ r.out.data = None /\ r.out.q = q
         /\ r.out.address \in DOMAIN r.api.address_modulus =>
              r.api.address_modulus[r.out.address] = q
<1> PICK op, imm, token : \E a, b \in P :
      (token \in Primes => token = q) /\ r = record(s, op, a, b, imm, token, q)
  BY DEF Records
<1> PICK a \in P, b \in P :
      (token \in Primes => token = q) /\ r = record(s, op, a, b, imm, token, q)
  OBVIOUS
<1> DEFINE J == IF op \in InertOps THEN I \cup {r.out} ELSE I
           inst == RecordedInst(s, op, a, b, imm, token)
<1>0. /\ Api(s) /\ s.next_address \in Nat /\ Below(P, s.next_address) /\ Moduli(s, P)
      /\ Sound(s, I, P)
  BY DEF Stands, Sound, Api
<1>1. a.address \in 0 .. s.next_address - 1 /\ b.address \in 0 .. s.next_address - 1
  BY <1>0 DEF Below
<1>2. /\ Api(r.api) /\ SameBooks(s, r.api) /\ r.api.next_address = s.next_address + 1
      /\ r.out.address = s.next_address /\ r.out.term = Value(inst, a.term, b.term)
      /\ r.out.data = None /\ r.out.q = q
  <2> HIDE DEF inst
  <2> QED BY <1>0, <1>1, RecordIs DEF inst
<1>3. Sound(r.api, J, P \cup {r.out}) BY <1>0, <1>1, SoundRecord
<1>4. /\ Moduli(r.api, P \cup {r.out})
      /\ r.out.address \in DOMAIN r.api.address_modulus =>
           r.api.address_modulus[r.out.address] = q
  BY <1>0, RecordModuli
<1>5. \A x \in P : x.address # r.out.address BY <1>0, <1>2 DEF Below
<1>6. \A x, y \in P \cup {r.out} : x.address = y.address => x = y BY <1>5 DEF Stands
<1>7. op \in InertOps => r.out.term = Zero
  <2>1. inst.opcode = op BY DEF RecordedInst, ir, Instruction
  <2> HIDE DEF inst
  <2> QED BY <1>2, <2>1 DEF Value
<1>8. \A x \in J : x.data = None => x.term = Zero BY <1>7 DEF Stands
<1>9. J \subseteq P \cup {r.out} BY DEF Stands
<1>10. \A x \in P \cup {r.out} : x.data # None => x \in J /\ x.term = x.data /\ x.q = None
  BY <1>2 DEF Stands
<1> HIDE DEF J
<1>11. Stands(r.api, J, P \cup {r.out}) BY <1>3, <1>4, <1>6, <1>8, <1>9, <1>10 DEF Stands
<1>12. Grows(s, P, r.api, P \cup {r.out}, 1) BY <1>0, <1>2, <1>11 DEF Grows
<1> QED BY <1>2, <1>4, <1>12
(* A result that is given its modulus after the call. *)
LEMMA StandsBound ==
  ASSUME NEW s, NEW J, NEW P, NEW x, Stands(s, J, P \cup {x}), x.data = None,
         \A z \in P : z.address # x.address,
         x.address \in DOMAIN s.address_modulus => s.address_modulus[x.address] = COPY_SENTINEL,
         NEW q \in Primes, NEW t, t = remember_modulus(s, {x.address}, q),
         NEW y, y.address = x.address, y.term = x.term, y.data = None, y.q = q
  PROVE  \E K : Stands(t, K, P \cup {y})
<1> DEFINE K == (J \ {x}) \cup (IF x \in J THEN {y} ELSE {})
<1>1. Api(s) /\ Below(P \cup {x}, s.next_address) BY DEF Stands, Sound
<1>2. {x.address} \subseteq 0 .. s.next_address - 1 BY <1>1 DEF Below
<1>3. Stands(t, J, P \cup {x}) BY <1>2, StandsRemember
<1>4. t.address_modulus[x.address] = q /\ x.address \in DOMAIN t.address_modulus
  <2>1. q # COPY_SENTINEL BY PrimesAssumption
  <2>2. PICK a, A, f, g : /\ a = x.address /\ A = {a}
                          /\ f = s.address_modulus /\ g = t.address_modulus
    OBVIOUS
  <2>3. t = remember_modulus(s, A, q) BY <2>2
  <2>4. /\ DOMAIN g = DOMAIN f \cup A
        /\ \A z \in A : z \notin DOMAIN f => g[z] = q
        /\ \A z \in A \cap DOMAIN f : f[z] = COPY_SENTINEL /\ q # COPY_SENTINEL => g[z] = q
    <3>1. Remembers(s, A, q, t) BY <1>1, <2>3, RememberIs
    <3> QED BY <2>2, <3>1 DEF Remembers
  <2>5. a \in DOMAIN f => f[a] = COPY_SENTINEL BY <2>2
  <2>6. a \in DOMAIN g /\ g[a] = q BY <2>1, <2>2, <2>4, <2>5
  <2> QED BY <2>2, <2>6
<1>5. J \subseteq P \cup {x} /\ Sound(t, J, P \cup {x}) /\ Moduli(t, P \cup {x}) BY <1>3 DEF Stands
<1>6. K \subseteq P \cup {y} BY <1>5
<1>7. Below(K, t.next_address) /\ Below(P \cup {y}, t.next_address)
  <2>1. Below(P \cup {y}, t.next_address) BY <1>5 DEF Sound, Below
  <2> HIDE DEF K
  <2> QED BY <1>6, <2>1 DEF Below
<1>8. \A m : Agrees(m, K) => Agrees(m, J) BY DEF Agrees
<1>9. \A m : Agrees(m, P \cup {x}) => Agrees(m, P \cup {y}) BY DEF Agrees
<1> HIDE DEF K
<1>10. Sound(t, K, P \cup {y}) BY <1>5, <1>7, <1>8, <1>9 DEF Sound, Meaning
<1>11. Moduli(t, P \cup {y})
  <2>1. y.q \in Primes => y.address \in DOMAIN t.address_modulus /\ t.address_modulus[y.address] = y.q
    BY <1>4
  <2> QED BY <1>5, <2>1 DEF Moduli
<1>12. \A v, w \in P \cup {y} : v.address = w.address => v = w BY <1>3 DEF Stands
<1>13. \A v \in P \cup {y} : v.data # None => v \in K /\ v.term = v.data /\ v.q = None
  BY <1>3 DEF Stands, K
<1>14. \A v \in K : v.data = None => v.term = Zero BY <1>3 DEF Stands, K
<1>15. Stands(t, K, P \cup {y}) BY <1>6, <1>10, <1>11, <1>12, <1>13, <1>14 DEF Stands
<1> QED BY <1>15

LEMMA GrowsBoth ==
  ASSUME NEW s, s.next_address \in Nat, NEW P, NEW t, NEW Q, NEW n \in Nat, Grows(s, P, t, Q, n),
         NEW u, NEW R, NEW k \in Nat, Grows(t, Q, u, R, k)
  PROVE  Grows(s, P, u, R, n + k)
<1>1. t.next_address \in Nat /\ u.next_address \in Nat BY DEF Grows, Stands, Sound, Api
<1>2. u.next_address >= s.next_address /\ u.next_address <= s.next_address + (n + k)
  BY <1>1 DEF Grows
<1>3. SameBooks(s, u) BY DEF Grows, SameBooks
<1>4. P \subseteq R /\ \A x \in R \ P : x.data = None BY DEF Grows
<1> QED BY <1>2, <1>3, <1>4 DEF Grows

(* copy_residue(): its result stands under the prime it was given. *)
LEMMA GrowsCopy ==
  ASSUME NEW s, NEW I, NEW P, Stands(s, I, P), s.recording, s.next_address + 2 <= AddressSpace,
         NEW x \in P, NEW q \in Primes, NEW r, r = copy_residue(s, x, q)
  PROVE  Grows(s, P, r.api, P \cup {r.out}, 2)
<1>1. Api(s) /\ s.next_address \in Nat BY DEF Stands, Sound, Api
<1>2. PICK u : u = from_int(s) OBVIOUS
<1>3. PICK c : c = record(u, "addps", x, x, 0, COPY_SENTINEL, COPY_SENTINEL) OBVIOUS
<1>4. r = Bound(c, q) BY <1>2, <1>3 DEF copy_residue, sr
<1>5. /\ Api(u) /\ SameBooks(s, u) /\ u.log = s.log /\ u.address_modulus = s.address_modulus
      /\ u.next_address = s.next_address + 1
  BY <1>1, <1>2, AllocIs DEF from_int
<1>6. Stands(u, I, P) BY <1>1, <1>5, StandsSame
<1>7. u.recording /\ u.next_address < AddressSpace
  BY <1>1, <1>5, AddressSpaceAssumption DEF SameBooks
<1>8. COPY_SENTINEL \notin Primes BY PrimesAssumption
<1>9. /\ \E J : Stands(c.api, J, P \cup {c.out})
      /\ SameBooks(u, c.api) /\ c.api.next_address = u.next_address + 1
      /\ c.out.address = u.next_address /\ c.out.data = None
      /\ c.out.address \in DOMAIN c.api.address_modulus =>
           c.api.address_modulus[c.out.address] = COPY_SENTINEL
  <2>1. Records(u, P, c, COPY_SENTINEL) BY <1>3, <1>8 DEF Records
  <2>2. PICK Q : Q = P \cup {c.out} OBVIOUS
  <2>3. /\ Grows(u, P, c.api, Q, 1)
        /\ c.api.next_address = u.next_address + 1
        /\ c.out.address = u.next_address /\ c.out.data = None
        /\ c.out.address \in DOMAIN c.api.address_modulus =>
             c.api.address_modulus[c.out.address] = COPY_SENTINEL
    BY <1>6, <1>7, <2>1, <2>2, StandsRecord
  <2> QED BY <2>2, <2>3 DEF Grows
<1>10. Below(P, u.next_address) /\ Moduli(u, P) BY <1>6 DEF Stands, Sound
<1>12. PICK y, t : y = [c.out EXCEPT !.q = q] /\ t = remember_modulus(c.api, {c.out.address}, q)
  OBVIOUS
<1>13. r.api = t /\ r.out = y BY <1>4, <1>12 DEF Bound, Returns
<1>14. y.address = c.out.address /\ y.term = c.out.term /\ y.data = None /\ y.q = q
  <2>1. PICK term : c.out = Handle(u, None, term, COPY_SENTINEL) BY <1>3, RecordOut
  <2> QED BY <1>12, <2>1 DEF Handle
<1>15. \A z \in P : z.address # c.out.address BY <1>1, <1>5, <1>9, <1>10 DEF Below
<1>16. \E K : Stands(t, K, P \cup {y})
  <2>1. PICK v, w, J : v = c.api /\ w = c.out /\ Stands(v, J, P \cup {w}) BY <1>9
  <2>2. /\ w.data = None /\ \A z \in P : z.address # w.address
        /\ w.address \in DOMAIN v.address_modulus => v.address_modulus[w.address] = COPY_SENTINEL
    BY <1>9, <1>15, <2>1
  <2>3. /\ t = remember_modulus(v, {w.address}, q)
        /\ y.address = w.address /\ y.term = w.term /\ y.data = None /\ y.q = q
    BY <1>12, <1>14, <2>1
  <2> QED BY <2>1, <2>2, <2>3, StandsBound
<1>17. Api(c.api) BY <1>9 DEF Stands, Sound
<1>18. SameBooks(c.api, t) /\ t.next_address = c.api.next_address BY <1>12, <1>17, RememberIs DEF Remembers
<1>19. SameBooks(s, t) BY <1>5, <1>9, <1>18 DEF SameBooks
<1>20. t.next_address = s.next_address + 2 BY <1>1, <1>5, <1>9, <1>18
<1> QED BY <1>1, <1>13, <1>14, <1>16, <1>19, <1>20 DEF Grows

(* Nothing but addresses are taken, at most k. *)
Skips(s, u, k) ==
  /\ Api(u) /\ SameBooks(s, u) /\ u.log = s.log /\ u.address_modulus = s.address_modulus
  /\ u.next_address >= s.next_address /\ u.next_address <= s.next_address + k

LEMMA GrowsSkip ==
  ASSUME NEW s, NEW I, NEW P, Stands(s, I, P), NEW k, NEW u, Skips(s, u, k)
  PROVE  Stands(u, I, P) /\ Grows(s, P, u, P, k)
<1>1. Stands(u, I, P) BY StandsSame DEF Skips
<1> QED BY <1>1 DEF Grows, Skips

(* A call after a scalar of its own was made, or without one. *)
LEMMA GrowsCall ==
  ASSUME NEW s, NEW I, NEW P, Stands(s, I, P), s.recording, s.next_address + 2 <= AddressSpace,
         NEW u, Skips(s, u, 1), NEW q, NEW r, Records(u, P, r, q)
  PROVE  Grows(s, P, r.api, P \cup {r.out}, 2)
<1>1. s.next_address \in Nat /\ u.next_address \in Nat BY DEF Stands, Sound, Api, Skips
<1>2. Stands(u, I, P) /\ Grows(s, P, u, P, 1) BY GrowsSkip
<1>3. u.recording /\ u.next_address < AddressSpace
  BY <1>1, AddressSpaceAssumption DEF Skips, SameBooks
<1>4. PICK Q : Q = P \cup {r.out} OBVIOUS
<1>5. Grows(u, P, r.api, Q, 1) BY <1>2, <1>3, <1>4, StandsRecord
<1>6. Grows(s, P, r.api, Q, 1 + 1) BY <1>1, <1>2, <1>5, GrowsBoth
<1> QED BY <1>4, <1>6

-----------------------------------------------------------------------------
(* Multi-residue calls *)

(* x is a multi-residue polynomial over Base, of handles of P. *)
MRPIn(x, P) ==
  /\ x.base = Base /\ DOMAIN x.res = ToSet(Base)
  /\ \A q \in ToSet(Base) : x.res[q] \in P /\ x.res[q].q \in {None, q}

LEMMA BaseIs ==
  /\ IsSeq(Base) /\ Len(Base) \in Nat \ {0} /\ DOMAIN Base = 1 .. Len(Base)
  /\ ToSet(Base) = {Base[i] : i \in 1 .. Len(Base)}
  /\ ToSet(Base) \subseteq Primes
BY BaseAssumption DEF IsSeq, ToSet

LEMMA ZerosAre ==
  ASSUME NEW s, Api(s), NEW u, u = mr_zeros(s, Base).api
  PROVE  Skips(s, u, Len(Base))
<1> DEFINE f == Zeros!Stages(Returns(s, <<>>), Base)
           S == {n \in Nat : Skips(s, f[n].api, n)}
<1>1. /\ f[0] = Returns(s, <<>>)
      /\ \A n \in 1 .. Len(Base) : f[n] = zero_residue(f[n - 1], Base[n])
      /\ Zeros!Fold(Returns(s, <<>>), Base) = f[Len(Base)]
  BY BaseIs, Zeros!StageSteps
<1> HIDE DEF f
<1>2. s.next_address \in Nat BY DEF Api
<1>3. 0 \in S BY <1>1, <1>2 DEF Returns, Skips, SameBooks
<1>4. ASSUME NEW n \in 1 .. Len(Base), n - 1 \in S PROVE n \in S
  <2>1. PICK g, h : g = f[n - 1].api /\ h = f[n].api OBVIOUS
  <2>2. Skips(s, g, n - 1) /\ n \in Nat /\ n - 1 \in Nat BY <1>4, <2>1
  <2>3. h = Alloc(g)
    <3>1. PICK acc, v : acc = f[n - 1] /\ v = With(acc.out, Base[n], zeros(acc.api).out) OBVIOUS
    <3>2. f[n] = Returns(Alloc(acc.api), v) BY <1>1, <3>1 DEF zero_residue
    <3> QED BY <2>1, <3>1, <3>2 DEF Returns
  <2>4. Api(g) BY <2>2 DEF Skips
  <2>5. /\ Api(h) /\ SameBooks(g, h) /\ h.log = g.log /\ h.address_modulus = g.address_modulus
        /\ h.next_address = g.next_address + 1
    BY <2>3, <2>4, AllocIs
  <2>6. g.next_address \in Nat BY <2>4 DEF Api
  <2>7. Skips(s, h, n) BY <1>2, <2>2, <2>5, <2>6 DEF Skips, SameBooks
  <2> QED BY <2>1, <2>2, <2>7
<1>5. Len(Base) \in S
  <2> HIDE DEF S
  <2> QED BY <1>3, <1>4, BaseIs, Zeros!LoopInduction
<1>6. u = f[Len(Base)].api BY <1>1 DEF mr_zeros, Collect, Returns
<1> QED BY <1>5, <1>6

(* The calls of a multi-residue call, one for each modulus of the base. *)
OnHandles(calls, P) ==
  /\ IsSeq(calls) /\ Len(calls) = Len(Base)
  /\ \A i \in 1 .. Len(Base) :
       /\ calls[i].a \in P /\ calls[i].b \in P
       /\ calls[i].q = Base[i] /\ calls[i].token \in {Base[i], COPY_SENTINEL}

(* After n of them. *)
Recorded(s, P, acc, n) ==
  \E Q : /\ Grows(s, P, acc.api, Q, n)
         /\ DOMAIN acc.out = {Base[i] : i \in 1 .. n}
         /\ \A q \in DOMAIN acc.out : acc.out[q] \in Q /\ acc.out[q].q = q

LEMMA RecordedStep ==
  ASSUME NEW s, NEW P, s.recording, s.next_address + Len(Base) <= AddressSpace,
         s.next_address \in Nat, NEW calls, OnHandles(calls, P),
         NEW n \in 1 .. Len(Base), NEW acc, Recorded(s, P, acc, n - 1)
  PROVE  Recorded(s, P, sr_residue(acc, calls[n]), n)
<1>1. PICK Q : /\ Grows(s, P, acc.api, Q, n - 1)
               /\ DOMAIN acc.out = {Base[i] : i \in 1 .. n - 1}
               /\ \A q \in DOMAIN acc.out : acc.out[q] \in Q /\ acc.out[q].q = q
  BY DEF Recorded
<1>2. PICK c, g, f, q : c = calls[n] /\ g = acc.api /\ f = acc.out /\ q = c.q OBVIOUS
<1>3. PICK r : r = record(g, c.op, c.a, c.b, c.imm, c.token, q) OBVIOUS
<1>4. n - 1 \in Nat /\ n \in Nat /\ Len(Base) \in Nat BY BaseIs
<1>5. q = Base[n] /\ c.a \in P /\ c.b \in P /\ c.token \in {q, COPY_SENTINEL}
  BY <1>2 DEF OnHandles
<1>6. PICK J : Stands(g, J, Q) BY <1>1, <1>2 DEF Grows
<1>7. g.next_address \in Nat BY <1>6 DEF Stands, Sound, Api
<1>8. g.recording /\ g.next_address < AddressSpace
  <2>1. SameBooks(s, g) /\ g.next_address <= s.next_address + (n - 1) BY <1>1, <1>2 DEF Grows
  <2>2. PICK L : L = Len(Base) OBVIOUS
  <2>3. n <= L /\ L \in Nat /\ s.next_address + L <= AddressSpace BY <1>4, <2>2
  <2>4. g.next_address < AddressSpace BY <1>4, <1>7, <2>1, <2>3, AddressSpaceAssumption
  <2> QED BY <2>1, <2>4 DEF SameBooks
<1>9. P \subseteq Q BY <1>1 DEF Grows
<1>10. Records(g, Q, r, q)
  <2>1. c.token \in Primes => c.token = q BY <1>5, PrimesAssumption
  <2> QED BY <1>3, <1>5, <1>9, <2>1 DEF Records
<1>11. PICK R : R = Q \cup {r.out} OBVIOUS
<1>12. Grows(g, Q, r.api, R, 1) /\ r.out.q = q
  <2>1. Grows(g, Q, r.api, R, 1) BY <1>6, <1>8, <1>10, <1>11, StandsRecord
  <2>2. r.out.q = q
    <3>1. PICK term : r.out = Handle(g, None, term, q) BY <1>3 DEF record, Returns
    <3> QED BY <3>1 DEF Handle
  <2> QED BY <2>1, <2>2
<1>13. Grows(s, P, g, Q, n - 1) BY <1>1, <1>2
<1>14. Grows(s, P, r.api, R, (n - 1) + 1) BY <1>4, <1>12, <1>13, GrowsBoth
<1>15. PICK v, h : v = r.out /\ h = With(f, q, v) OBVIOUS
<1>16. DOMAIN h = DOMAIN f \cup {q} /\ h[q] = v /\ \A k \in DOMAIN f : k # q => h[k] = f[k]
  BY <1>15 DEF With
<1>17. DOMAIN h = {Base[i] : i \in 1 .. n}
  <2>1. 1 .. n = (1 .. n - 1) \cup {n} BY <1>4
  <2> QED BY <1>1, <1>2, <1>5, <1>16, <2>1
<1>18. \A k \in DOMAIN h : h[k] \in R /\ h[k].q = k
  BY <1>1, <1>2, <1>11, <1>12, <1>15, <1>16
<1>19. (n - 1) + 1 = n BY <1>4
<1>20. sr_residue(acc, calls[n]) = Returns(r.api, h) BY <1>2, <1>3, <1>15 DEF sr_residue
<1> QED BY <1>14, <1>17, <1>18, <1>19, <1>20 DEF Recorded, Returns

(* m is the multi-residue result of calls that grow P. *)
GrowsMRP(s, P, m, n) ==
  \E Q : Grows(s, P, m.api, Q, n) /\ MRPIn(m.out, Q)

(* A multi-residue call takes an address of a zero and one of a result for *)
(* each modulus.                                                           *)
LEMMA MultiRecord ==
  ASSUME NEW s, NEW I, NEW P, Stands(s, I, P), s.recording,
         s.next_address + 2 * Len(Base) <= AddressSpace,
         NEW calls, OnHandles(calls, P),
         NEW m, m = mr_record(s, Base, calls)
  PROVE  GrowsMRP(s, P, m, 2 * Len(Base))
<1>1. PICK u : u = mr_zeros(s, Base).api OBVIOUS
<1>2. Api(s) /\ s.next_address \in Nat BY DEF Stands, Sound, Api
<1>3. PICK L : L = Len(Base) OBVIOUS
<1>4. L \in Nat BY <1>3, BaseIs
<1>5. Skips(s, u, L) BY <1>1, <1>2, <1>3, ZerosAre
<1>6. Stands(u, I, P) /\ Grows(s, P, u, P, L) BY <1>5, GrowsSkip
<1>7. u.next_address \in Nat BY <1>5 DEF Skips, Api
<1>8. u.recording /\ u.next_address + L <= AddressSpace
  BY <1>2, <1>3, <1>4, <1>5, <1>7, AddressSpaceAssumption DEF Skips, SameBooks
<1> DEFINE f == Residuewise!Stages(Returns(u, <<>>), calls)
           S == {n \in Nat : Recorded(u, P, f[n], n)}
<1>9. IsSeq(calls) /\ Len(calls) = L BY <1>3 DEF OnHandles
<1>10. /\ f[0] = Returns(u, <<>>)
       /\ \A n \in 1 .. L : f[n] = sr_residue(f[n - 1], calls[n])
       /\ Residuewise!Fold(Returns(u, <<>>), calls) = f[L]
  BY <1>4, <1>9, Residuewise!StageSteps
<1> HIDE DEF f
<1>11. 0 \in S
  <2>1. Skips(u, u, 0) BY <1>5, <1>7 DEF Skips, SameBooks
  <2>2. Grows(u, P, u, P, 0) BY <1>6, <2>1, GrowsSkip
  <2>3. PICK a : a = f[0] OBVIOUS
  <2>4. a.api = u /\ a.out = <<>> BY <1>10, <2>3 DEF Returns
  <2>5. DOMAIN a.out = {Base[i] : i \in 1 .. 0} BY <2>4
  <2>6. Recorded(u, P, a, 0) BY <2>2, <2>4, <2>5 DEF Recorded
  <2> QED BY <2>3, <2>6
<1>12. ASSUME NEW n \in 1 .. L, n - 1 \in S PROVE n \in S
  <2>1. PICK a : a = f[n - 1] OBVIOUS
  <2>2. Recorded(u, P, a, n - 1) BY <1>12, <2>1
  <2>3. n \in 1 .. Len(Base) /\ u.next_address + Len(Base) <= AddressSpace BY <1>3, <1>8
  <2>4. Recorded(u, P, sr_residue(a, calls[n]), n) BY <1>7, <1>8, <2>2, <2>3, RecordedStep
  <2>5. f[n] = sr_residue(a, calls[n]) BY <1>10, <2>1
  <2> QED BY <1>4, <2>4, <2>5
<1>13. L \in S
  <2> HIDE DEF S
  <2> QED BY <1>4, <1>11, <1>12, Residuewise!LoopInduction
<1>14. PICK a : a = f[L] OBVIOUS
<1>15. Recorded(u, P, a, L) BY <1>13, <1>14
<1>16. PICK Q : /\ Grows(u, P, a.api, Q, L)
                /\ DOMAIN a.out = {Base[i] : i \in 1 .. L}
                /\ \A q \in DOMAIN a.out : a.out[q] \in Q /\ a.out[q].q = q
  BY <1>15 DEF Recorded
<1>17. Grows(s, P, a.api, Q, L + L) BY <1>2, <1>4, <1>6, <1>16, GrowsBoth
<1>18. m = Returns(a.api, MRP(Base, a.out))
  BY <1>1, <1>10, <1>14 DEF mr_record, Collect
<1>19. m.api = a.api /\ m.out.base = Base /\ m.out.res = a.out BY <1>18 DEF Returns, MRP
<1>20. MRPIn(m.out, Q) BY <1>3, <1>16, <1>19, BaseIs DEF MRPIn
<1>21. L + L = 2 * Len(Base) BY <1>3, <1>4
<1> QED BY <1>17, <1>19, <1>20, <1>21 DEF GrowsMRP

LEMMA MrIs ==
  ASSUME NEW s, NEW I, NEW P, Stands(s, I, P), s.recording,
         s.next_address + 2 * Len(Base) <= AddressSpace,
         NEW op, NEW x, MRPIn(x, P), NEW y, MRPIn(y, P), NEW imm,
         NEW m, m = mr(s, op, x, y, imm)
  PROVE  GrowsMRP(s, P, m, 2 * Len(Base))
<1> DEFINE call(q) == [op |-> op, a |-> x.res[q], b |-> y.res[q], imm |-> imm, token |-> q, q |-> q]
<1>1. PICK calls : calls = [i \in DOMAIN Base |-> call(Base[i])] OBVIOUS
<1>2. OnHandles(calls, P)
  <2>1. \A q \in ToSet(Base) : x.res[q] \in P /\ y.res[q] \in P BY DEF MRPIn
  <2>2. DOMAIN Base = 1 .. Len(Base) /\ Len(Base) \in Nat /\ \A i \in 1 .. Len(Base) : Base[i] \in ToSet(Base)
    BY BaseIs
  <2>3. calls = [i \in 1 .. Len(Base) |-> call(Base[i])] BY <1>1, <2>2
  <2>4. IsSeq(calls) /\ Len(calls) = Len(Base)
    <3>1. PICK T : T = {call(Base[i]) : i \in 1 .. Len(Base)} OBVIOUS
    <3>2. calls \in [1 .. Len(Base) -> T] BY <2>3, <3>1
    <3> HIDE DEF call
    <3> QED BY <2>2, <3>2 DEF IsSeq
  <2>5. ASSUME NEW i \in 1 .. Len(Base)
        PROVE  /\ calls[i].a \in P /\ calls[i].b \in P
               /\ calls[i].q = Base[i] /\ calls[i].token \in {Base[i], COPY_SENTINEL}
    BY <2>1, <2>2, <2>3
  <2> QED BY <2>4, <2>5 DEF OnHandles
<1>3. x.base = Base BY DEF MRPIn
<1>4. m = mr_record(s, Base, calls) BY <1>1, <1>3 DEF mr
<1> QED BY <1>2, <1>4, MultiRecord

LEMMA MrAutomorphIs ==
  ASSUME NEW s, NEW I, NEW P, Stands(s, I, P), s.recording,
         s.next_address + 2 * Len(Base) <= AddressSpace,
         NEW x, MRPIn(x, P), NEW k,
         NEW m, m = mr_automorph_eval(s, x, k)
  PROVE  GrowsMRP(s, P, m, 2 * Len(Base))
<1> DEFINE call(q) == [op |-> "automorph_eval", a |-> x.res[q], b |-> x.res[q], imm |-> k,
                       token |-> COPY_SENTINEL, q |-> q]
<1>1. PICK calls : calls = [i \in DOMAIN Base |-> call(Base[i])] OBVIOUS
<1>2. OnHandles(calls, P)
  <2>1. \A q \in ToSet(Base) : x.res[q] \in P BY DEF MRPIn
  <2>2. DOMAIN Base = 1 .. Len(Base) /\ Len(Base) \in Nat /\ \A i \in 1 .. Len(Base) : Base[i] \in ToSet(Base)
    BY BaseIs
  <2>3. calls = [i \in 1 .. Len(Base) |-> call(Base[i])] BY <1>1, <2>2
  <2>4. IsSeq(calls) /\ Len(calls) = Len(Base)
    <3>1. PICK T : T = {call(Base[i]) : i \in 1 .. Len(Base)} OBVIOUS
    <3>2. calls \in [1 .. Len(Base) -> T] BY <2>3, <3>1
    <3> HIDE DEF call
    <3> QED BY <2>2, <3>2 DEF IsSeq
  <2>5. ASSUME NEW i \in 1 .. Len(Base)
        PROVE  /\ calls[i].a \in P /\ calls[i].b \in P
               /\ calls[i].q = Base[i] /\ calls[i].token \in {Base[i], COPY_SENTINEL}
    BY <2>1, <2>2, <2>3
  <2> QED BY <2>4, <2>5 DEF OnHandles
<1>3. x.base = Base BY DEF MRPIn
<1>4. m = mr_record(s, Base, calls) BY <1>1, <1>3 DEF mr_automorph_eval
<1> QED BY <1>2, <1>4, MultiRecord

LEMMA MRPMore ==
  ASSUME NEW x, NEW P, MRPIn(x, P), NEW Q, P \subseteq Q
  PROVE  MRPIn(x, Q)
BY DEF MRPIn

(* A multi-residue call after others. *)
LEMMA MrAfter ==
  ASSUME NEW s, s.next_address \in Nat, s.recording, NEW P, NEW g, NEW Q, NEW n \in Nat, Grows(s, P, g, Q, n),
         s.next_address + (n + 2 * Len(Base)) <= AddressSpace,
         NEW op, NEW x, MRPIn(x, Q), NEW y, MRPIn(y, Q),
         NEW m, m = mr(g, op, x, y, 0)
  PROVE  \E R : /\ Grows(s, P, m.api, R, n + 2 * Len(Base)) /\ MRPIn(m.out, R) /\ Q \subseteq R
<1>1. PICK J : Stands(g, J, Q) BY DEF Grows
<1>2. PICK k : k = 2 * Len(Base) OBVIOUS
<1>3. k \in Nat BY <1>2, BaseIs
<1>4. g.next_address \in Nat BY <1>1 DEF Stands, Sound, Api
<1>5. g.recording /\ g.next_address + k <= AddressSpace
  <2>1. SameBooks(s, g) /\ g.next_address <= s.next_address + n BY DEF Grows
  <2>2. s.next_address + (n + k) <= AddressSpace BY <1>2
  <2> QED BY <1>3, <1>4, <2>1, <2>2, AddressSpaceAssumption DEF SameBooks
<1>6. GrowsMRP(g, Q, m, 2 * Len(Base)) BY <1>1, <1>2, <1>5, MrIs
<1>7. PICK R : Grows(g, Q, m.api, R, k) /\ MRPIn(m.out, R) BY <1>2, <1>6 DEF GrowsMRP
<1>8. Grows(s, P, m.api, R, n + k) BY <1>3, <1>7, GrowsBoth
<1>9. Q \subseteq R BY <1>7 DEF Grows
<1> QED BY <1>2, <1>7, <1>8, <1>9

LEMMA DotIs ==
  ASSUME NEW s, NEW I, NEW P, Stands(s, I, P), s.recording,
         s.next_address + 6 * Len(Base) <= AddressSpace,
         NEW x, MRPIn(x, P), NEW y, MRPIn(y, P),
         NEW m, m = mrpa_dotproduct(s, <<x, y>>, <<y, x>>)
  PROVE  GrowsMRP(s, P, m, 6 * Len(Base))
<1>1. PICK k : k = 2 * Len(Base) OBVIOUS
<1>2. k \in Nat /\ 6 * Len(Base) = k + (k + k) BY <1>1, BaseIs
<1>3. s.next_address \in Nat BY DEF Stands, Sound, Api
<1>4. /\ s.next_address + k <= AddressSpace /\ s.next_address + (k + k) <= AddressSpace
      /\ s.next_address + ((k + k) + k) <= AddressSpace
  BY <1>2, <1>3, AddressSpaceAssumption
<1>5. PICK m1 : m1 = mr(s, "mulp", x, y, 0) OBVIOUS
<1>6. PICK pair : pair = [x |-> y, y |-> x] OBVIOUS
<1>7. m = accumulate(m1, pair)
  <2>1. Len(<<x, y>>) = 2 /\ <<x, y>>[1] = x /\ <<y, x>>[1] = y
        /\ <<x, y>>[1 + 1] = y /\ <<y, x>>[1 + 1] = x
    OBVIOUS
  <2>2. 1 .. (2 - 1) = {1} OBVIOUS
  <2>3. [i \in 1 .. Len(<<x, y>>) - 1 |-> [x |-> <<x, y>>[i + 1], y |-> <<y, x>>[i + 1]]] = <<pair>>
    BY <1>6, <2>1, <2>2
  <2>4. m = Products!Fold(m1, <<pair>>) BY <1>5, <2>1, <2>3 DEF mrpa_dotproduct
  <2> QED BY <2>4, Products!FoldOne
<1>8. PICK t : t = mr(m1.api, "mulp", pair.x, pair.y, 0) OBVIOUS
<1>9. m = mr(t.api, "addp", m1.out, t.out, 0) BY <1>7, <1>8 DEF accumulate
<1>10. PICK Q : Grows(s, P, m1.api, Q, k) /\ MRPIn(m1.out, Q)
  <2>1. GrowsMRP(s, P, m1, 2 * Len(Base)) BY <1>1, <1>4, <1>5, MrIs
  <2> QED BY <1>1, <2>1 DEF GrowsMRP
<1>11. P \subseteq Q BY <1>10 DEF Grows
<1>12. pair.x = y /\ pair.y = x BY <1>6
<1>13. MRPIn(pair.x, Q) /\ MRPIn(pair.y, Q) BY <1>11, <1>12, MRPMore
<1>14. PICK R : Grows(s, P, t.api, R, k + k) /\ MRPIn(t.out, R) /\ Q \subseteq R
  <2>1. PICK g : g = m1.api OBVIOUS
  <2>2. s.next_address + (k + 2 * Len(Base)) <= AddressSpace BY <1>1, <1>4
  <2>3. \E R : Grows(s, P, t.api, R, k + 2 * Len(Base)) /\ MRPIn(t.out, R) /\ Q \subseteq R
    BY <1>2, <1>3, <1>8, <1>10, <1>13, <2>1, <2>2, MrAfter
  <2> QED BY <1>1, <2>3
<1>15. MRPIn(m1.out, R) BY <1>10, <1>14, MRPMore
<1>16. PICK T : Grows(s, P, m.api, T, (k + k) + k) /\ MRPIn(m.out, T)
  <2>1. PICK g, kk, v, w : g = t.api /\ kk = k + k /\ v = m1.out /\ w = t.out OBVIOUS
  <2>2. s.next_address + (kk + 2 * Len(Base)) <= AddressSpace BY <1>1, <1>4, <2>1
  <2>3. m = mr(g, "addp", v, w, 0) BY <1>9, <2>1
  <2>4. Grows(s, P, g, R, kk) /\ MRPIn(v, R) /\ MRPIn(w, R) /\ kk \in Nat
    BY <1>2, <1>14, <1>15, <2>1
  <2>5. \E T : Grows(s, P, m.api, T, kk + 2 * Len(Base)) /\ MRPIn(m.out, T) /\ R \subseteq T
    BY <1>3, <2>2, <2>3, <2>4, MrAfter
  <2> QED BY <1>1, <2>1, <2>5
<1>17. (k + k) + k = 6 * Len(Base) BY <1>2
<1> QED BY <1>16, <1>17 DEF GrowsMRP

-----------------------------------------------------------------------------
(* Tags *)

(* The residues of a registry entry are handles of P, and a residue with a *)
(* modulus of its own was not computed under another.                      *)
EntryOf(e, P) ==
  /\ IsSeq(e.residues)
  /\ \A i \in DOMAIN e.residues :
       /\ e.residues[i].poly \in P
       /\ e.residues[i].q \in Primes \cup {None}
       /\ e.residues[i].q # None => e.residues[i].poly.q \in {None, e.residues[i].q}

(* The handles an input's entry tags are all of the host's handles hs. *)
TagsAll(e, hs) == \A h \in hs : h.p \in Polys(e)

LEMMA FunctionIsSeq ==
  ASSUME NEW n \in Nat, NEW T, NEW f \in [1 .. n -> T]
  PROVE  IsSeq(f) /\ DOMAIN f = 1 .. n
<1>1. f \in Seq(T) OBVIOUS
<1> QED BY <1>1 DEF IsSeq

LEMMA EntryPolynomial ==
  ASSUME NEW P, NEW p \in P, NEW name, NEW e, e = OfPolynomial(name, p)
  PROVE  EntryOf(e, P) /\ p \in Polys(e)
<1>1. PICK r : r = Residue(p, None, FALSE) OBVIOUS
<1>2. r.poly = p /\ r.q = None BY <1>1 DEF Residue
<1>3. e.residues = <<r>> BY <1>1 DEF OfPolynomial
<1>4. DOMAIN e.residues = {1} /\ e.residues[1] = r /\ e.residues \in Seq({r}) BY <1>3
<1> QED BY <1>2, <1>4 DEF EntryOf, IsSeq, Polys

LEMMA EntrySRPArray ==
  ASSUME NEW P, NEW p \in P, NEW o \in P, NEW name, NEW e, e = OfSRPArray(name, <<p, o>>)
  PROVE  EntryOf(e, P) /\ p \in Polys(e) /\ o \in Polys(e)
<1>0. PICK marked : marked = TRUE OBVIOUS
<1>1. PICK r, t, rs : r = Residue(p, None, marked) /\ t = Residue(o, None, marked) /\ rs = e.residues
  OBVIOUS
<1>2. r.poly = p /\ r.q = None /\ t.poly = o /\ t.q = None BY <1>1 DEF Residue
<1>3. PICK ps : ps = <<p, o>> OBVIOUS
<1>4. DOMAIN ps = 1 .. 2 /\ ps[1] = p /\ ps[2] = o BY <1>3
<1>5. rs = [i \in 1 .. 2 |-> Residue(ps[i], None, marked)] BY <1>0, <1>1, <1>3, <1>4 DEF OfSRPArray
<1>6. DOMAIN rs = 1 .. 2 /\ rs[1] = r /\ rs[2] = t
  <2>1. DOMAIN rs = 1 .. 2 BY <1>5
  <2>2. rs[1] = r BY <1>1, <1>4, <1>5
  <2>3. rs[2] = t BY <1>1, <1>4, <1>5
  <2> QED BY <2>1, <2>2, <2>3
<1>7. IsSeq(rs)
  <2>1. PICK T : T = {r, t} OBVIOUS
  <2>2. \A i \in 1 .. 2 : rs[i] \in T BY <1>6, <2>1
  <2>3. rs \in [1 .. 2 -> T] BY <1>5, <2>2
  <2> QED BY <2>3, FunctionIsSeq
<1>8. \A i \in DOMAIN rs : rs[i].poly \in P /\ rs[i].q = None BY <1>2, <1>6
<1>9. rs[1].poly = p /\ rs[2].poly = o /\ 1 \in DOMAIN rs /\ 2 \in DOMAIN rs BY <1>2, <1>6
<1>11. EntryOf(e, P) BY <1>1, <1>7, <1>8 DEF EntryOf
<1>12. p \in Polys(e) /\ o \in Polys(e) BY <1>1, <1>9 DEF Polys
<1> QED BY <1>11, <1>12

(* The residues of an MRP, with any marks. *)
ResiduesAre(rs, m) ==
  /\ IsSeq(rs) /\ DOMAIN rs = 1 .. Len(Base)
  /\ \A i \in 1 .. Len(Base) : rs[i].poly = m.res[Base[i]] /\ rs[i].q = Base[i]

LEMMA EntryResidues ==
  ASSUME NEW P, NEW m, MRPIn(m, P), NEW e, ResiduesAre(e.residues, m)
  PROVE  EntryOf(e, P) /\ \A q \in DOMAIN m.res : m.res[q] \in Polys(e)
<1>1. PICK rs : rs = e.residues OBVIOUS
<1>2. ASSUME NEW i \in DOMAIN rs
      PROVE  /\ rs[i].poly \in P /\ rs[i].q \in Primes \cup {None}
             /\ rs[i].q # None => rs[i].poly.q \in {None, rs[i].q}
  <2>1. Base[i] \in ToSet(Base) /\ Base[i] \in Primes
    BY <1>1, BaseIs DEF ResiduesAre
  <2> QED BY <1>1, <2>1 DEF ResiduesAre, MRPIn
<1>3. ASSUME NEW q \in DOMAIN m.res PROVE m.res[q] \in Polys(e)
  <2>1. PICK i \in 1 .. Len(Base) : q = Base[i] BY BaseIs DEF MRPIn
  <2>2. i \in DOMAIN e.residues /\ e.residues[i].poly = m.res[q] BY <2>1 DEF ResiduesAre
  <2> QED BY <2>2 DEF Polys
<1> QED BY <1>1, <1>2, <1>3 DEF EntryOf, ResiduesAre

LEMMA EntryMRP ==
  ASSUME NEW P, NEW m, MRPIn(m, P), NEW name, NEW e, e = OfMRP(name, m)
  PROVE  ResiduesAre(e.residues, m)
<1>1. PICK rs : rs = e.residues OBVIOUS
<1>2. m.base = Base /\ DOMAIN Base = 1 .. Len(Base) /\ Len(Base) \in Nat BY BaseIs DEF MRPIn
<1>3. rs = [i \in 1 .. Len(Base) |-> Residue(m.res[Base[i]], Base[i], FALSE)]
  BY <1>1, <1>2 DEF OfMRP
<1>4. IsSeq(rs) /\ DOMAIN rs = 1 .. Len(Base)
  <2>1. PICK T : T = {Residue(m.res[Base[i]], Base[i], FALSE) : i \in 1 .. Len(Base)} OBVIOUS
  <2>2. rs \in [1 .. Len(Base) -> T] BY <1>3, <2>1
  <2> QED BY <1>2, <2>2, FunctionIsSeq
<1>5. \A i \in 1 .. Len(Base) : rs[i].poly = m.res[Base[i]] /\ rs[i].q = Base[i]
  BY <1>3 DEF Residue
<1> QED BY <1>1, <1>4, <1>5 DEF ResiduesAre

LEMMA EntryMRPArray ==
  ASSUME NEW P, NEW m, MRPIn(m, P), NEW name, NEW e, e = OfMRPArray(name, <<m>>)
  PROVE  ResiduesAre(e.residues, m)
<1>1. PICK rs : rs = e.residues OBVIOUS
<1>2. m.base = Base /\ DOMAIN Base = 1 .. Len(Base) /\ Len(Base) \in Nat BY BaseIs DEF MRPIn
<1>3. PICK u : u = [i \in 1 .. Len(Base) |-> Residue(m.res[Base[i]], Base[i], i = 1)] OBVIOUS
<1>4. IsSeq(u) /\ DOMAIN u = 1 .. Len(Base)
  <2>1. PICK T : T = {Residue(m.res[Base[i]], Base[i], i = 1) : i \in 1 .. Len(Base)} OBVIOUS
  <2>2. u \in [1 .. Len(Base) -> T] BY <1>3, <2>1
  <2> QED BY <1>2, <2>2, FunctionIsSeq
<1>5. \A i \in 1 .. Len(Base) : u[i].poly = m.res[Base[i]] /\ u[i].q = Base[i]
  BY <1>3 DEF Residue
<1>6. rs = u
  <2>1. rs = Elements!Fold(<<>>, <<m>>) BY <1>1 DEF OfMRPArray
  <2>2. rs = residues_of(<<>>, m) BY <2>1, Elements!FoldOne
  <2>3. rs = <<>> \o u BY <1>2, <1>3, <2>2 DEF residues_of
  <2>4. PICK T : u \in Seq(T) BY <1>4 DEF IsSeq
  <2> QED BY <2>3, <2>4
<1> QED BY <1>1, <1>4, <1>5, <1>6 DEF ResiduesAre

-----------------------------------------------------------------------------
(* A cycle *)

(* The host's handles of cycle c are handles of P, and those of P with     *)
(* data are the host's.                                                    *)
HandlesOf(c, ps, ms, P) ==
  /\ \A x \in ps : x.cycle = c => x.p \in P
  /\ \A p \in P : p.data # None => [cycle |-> c, p |-> p] \in ps
  /\ \A x \in ms : x.cycle = c => MRPIn(x.p, P)

LEMMA HandlesGrow ==
  ASSUME NEW c, NEW ps, NEW ms, NEW P, HandlesOf(c, ps, ms, P),
         NEW Q, P \subseteq Q, NEW pt, NEW mt, ps \subseteq pt, ms \subseteq mt,
         \A x \in Q \ P : x.data # None => [cycle |-> c, p |-> x] \in pt,
         \A x \in pt \ ps : x.p \in Q, \A x \in mt \ ms : MRPIn(x.p, Q)
  PROVE  HandlesOf(c, pt, mt, Q)
<1>1. \A x \in pt : x.cycle = c => x.p \in Q BY DEF HandlesOf
<1>2. \A p \in Q : p.data # None => [cycle |-> c, p |-> p] \in pt BY DEF HandlesOf
<1>3. \A x \in mt : x.cycle = c => MRPIn(x.p, Q)
  BY MRPMore DEF HandlesOf
<1> QED BY <1>1, <1>2, <1>3 DEF HandlesOf

(* The registries hold handles of P, and among the inputs those of cycle c *)
(* that the host tagged, tg.                                               *)
Books(s, c, tg, P) ==
  /\ IsSeq(s.input_registry) /\ IsSeq(s.probe_registry)
  /\ \A i \in DOMAIN s.input_registry : EntryOf(s.input_registry[i], P)
  /\ \A i \in DOMAIN s.probe_registry : EntryOf(s.probe_registry[i], P)
  /\ \A x \in tg : x.cycle = c => \E i \in DOMAIN s.input_registry : x.p \in Polys(s.input_registry[i])

LEMMA EntryMore ==
  ASSUME NEW e, NEW P, EntryOf(e, P), NEW Q, P \subseteq Q
  PROVE  EntryOf(e, Q)
BY DEF EntryOf

LEMMA BooksGrow ==
  ASSUME NEW s, NEW c, NEW tg, NEW P, Books(s, c, tg, P), NEW Q, P \subseteq Q,
         NEW t, t.input_registry = s.input_registry, t.probe_registry = s.probe_registry
  PROVE  Books(t, c, tg, Q)
BY EntryMore DEF Books

LEMMA BooksInput ==
  ASSUME NEW s, NEW c, NEW tg, NEW P, Books(s, c, tg, P), NEW e, EntryOf(e, P), NEW hs, TagsAll(e, hs),
         NEW t, t.input_registry = Append(s.input_registry, e), t.probe_registry = s.probe_registry
  PROVE  Books(t, c, tg \cup hs, P)
<1>1. PICK f, g, n : f = s.input_registry /\ g = t.input_registry /\ n = Len(f) OBVIOUS
<1>2. /\ IsSeq(g) /\ n \in Nat /\ DOMAIN f = 1 .. n /\ DOMAIN g = 1 .. n + 1
      /\ g[n + 1] = e /\ \A i \in 1 .. n : g[i] = f[i]
  BY <1>1, AppendIsSeq DEF Books
<1>3. n + 1 \in DOMAIN g /\ DOMAIN f \subseteq DOMAIN g /\ \A i \in DOMAIN g : i \in DOMAIN f \/ i = n + 1
  BY <1>2
<1>4. \A i \in DOMAIN g : EntryOf(g[i], P) BY <1>1, <1>2, <1>3 DEF Books
<1>5. ASSUME NEW x \in tg \cup hs, x.cycle = c PROVE \E i \in DOMAIN g : x.p \in Polys(g[i])
  <2>1. CASE x \in tg
    <3>1. PICK i \in DOMAIN f : x.p \in Polys(f[i]) BY <1>1, <1>5, <2>1 DEF Books
    <3> QED BY <1>2, <1>3, <3>1
  <2>2. CASE x \in hs BY <1>2, <1>3, <2>2 DEF TagsAll
  <2> QED BY <2>1, <2>2
<1> QED BY <1>1, <1>2, <1>4, <1>5 DEF Books

LEMMA BooksOutput ==
  ASSUME NEW s, NEW c, NEW tg, NEW P, Books(s, c, tg, P), NEW e, EntryOf(e, P),
         NEW t, t.input_registry = s.input_registry, t.probe_registry = Append(s.probe_registry, e)
  PROVE  Books(t, c, tg, P)
<1>1. PICK f, g, n : f = s.probe_registry /\ g = t.probe_registry /\ n = Len(f) OBVIOUS
<1>2. /\ IsSeq(g) /\ n \in Nat /\ DOMAIN f = 1 .. n /\ DOMAIN g = 1 .. n + 1
      /\ g[n + 1] = e /\ \A i \in 1 .. n : g[i] = f[i]
  BY <1>1, AppendIsSeq DEF Books
<1>3. \A i \in DOMAIN g : i \in DOMAIN f \/ i = n + 1 BY <1>2
<1>4. \A i \in DOMAIN g : EntryOf(g[i], P) BY <1>1, <1>2, <1>3 DEF Books
<1> QED BY <1>1, <1>2, <1>4 DEF Books

-----------------------------------------------------------------------------
(* The sync at stop() *)

(* What ModuliRight says of the captured records, for all handles of P. *)
OutModuli(el, P) == \A p \in P : p.address = el.addr_id /\ p.q \in Primes => el.modulus = p.q
InModulus(el, log) ==
  el.modulus = COPY_SENTINEL =>
    \A j \in DOMAIN log : el.addr_id \in Reads(log[j]) => log[j].modulus \notin Primes
Captured(s, P) ==
  /\ \A el \in Elems(s.captured_outputs) : OutModuli(el, P)
  /\ \A el \in Elems(s.captured_inputs) : InModulus(el, s.log)

LEMMA NoElems ==
  Only(<<>>, {}) /\ Elems(<<>>) = {} /\ Kinds(<<>>) = {}
<1>1. <<>> \in Seq({}) /\ DOMAIN <<>> = {} OBVIOUS
<1> QED BY <1>1 DEF Only, Recs, Elems, Kinds, IsSeq

(* The modulus a residue of P is stored under. *)
LEMMA TaggedModulus ==
  ASSUME NEW s, NEW I, NEW P, Stands(s, I, P), NEW e, EntryOf(e, P),
         NEW rs, rs = Tagged(s, e), NEW j \in 1 .. Len(rs)
  PROVE  /\ OutModuli(Probe(rs[j]), P)
         /\ rs[j].modulus # None => InModulus(Input(rs[j]), s.log)
<1>1. IsSeq(e.residues) BY DEF EntryOf
<1>2. /\ Len(rs) = Len(e.residues) /\ j \in 1 .. Len(e.residues) /\ j \in DOMAIN e.residues
  BY <1>1, TaggedIs, SeqFacts
<1>3. PICK r, p, am, t : r = e.residues[j] /\ p = r.poly /\ am = s.address_modulus /\ t = rs[j]
  OBVIOUS
<1>4. /\ t.addr_id = p.address
      /\ r.q # None => t.modulus = r.q
      /\ r.q = None /\ p.address \in DOMAIN am => t.modulus = am[p.address]
      /\ r.q = None /\ p.address \notin DOMAIN am => t.modulus = None
  BY <1>1, <1>2, <1>3, TaggedIs
<1>5. p \in P /\ r.q \in Primes \cup {None} /\ (r.q # None => p.q \in {None, r.q})
  BY <1>2, <1>3 DEF EntryOf
<1>6. Moduli(s, P) /\ \A x, y \in P : x.address = y.address => x = y BY DEF Stands
<1>7. None \notin Primes /\ COPY_SENTINEL \notin Primes BY PrimesAssumption
<1>8. ASSUME NEW x \in P, x.address = t.addr_id, x.q \in Primes PROVE t.modulus = x.q /\ t.modulus # None
  <2>1. x = p BY <1>4, <1>5, <1>6, <1>8
  <2>2. p.address \in DOMAIN am /\ am[p.address] = p.q BY <1>3, <1>5, <1>6, <1>8, <2>1 DEF Moduli
  <2> QED BY <1>4, <1>5, <1>7, <1>8, <2>1, <2>2
<1>9. PICK el : el = Probe(t) OBVIOUS
<1>10. el.addr_id = t.addr_id /\ (t.modulus # None => el.modulus = t.modulus) BY <1>9 DEF Probe
<1>11. OutModuli(el, P) BY <1>8, <1>10 DEF OutModuli
<1>12. PICK il : il = Input(t) OBVIOUS
<1>13. il.addr_id = t.addr_id /\ il.modulus = t.modulus BY <1>12 DEF Input
<1>14. ASSUME t.modulus # None, il.modulus = COPY_SENTINEL, NEW k \in DOMAIN s.log,
              il.addr_id \in Reads(s.log[k]), s.log[k].modulus \in Primes
       PROVE  FALSE
  <2>1. p.address \in DOMAIN am /\ am[p.address] # COPY_SENTINEL
    BY <1>3, <1>4, <1>6, <1>13, <1>14 DEF Moduli
  <2>2. CASE r.q # None BY <1>4, <1>5, <1>7, <1>13, <1>14, <2>2
  <2>3. CASE r.q = None BY <1>4, <1>13, <1>14, <2>1, <2>3
  <2> QED BY <2>2, <2>3
<1>15. t.modulus # None => InModulus(il, s.log) BY <1>14 DEF InModulus
<1> QED BY <1>3, <1>9, <1>11, <1>12, <1>15

(* All that a sync can store of a registry. *)
Stored1(rs) == {rs[j] : j \in 1 .. Len(rs)}
StoredAll(rss) == UNION {Stored1(rss[i]) : i \in 1 .. Len(rss)}

LEMMA SyncModuli ==
  ASSUME NEW s, NEW I, NEW P, Stands(s, I, P), NEW c, NEW tg, Books(s, c, tg, P),
         s.captured_inputs = <<>>, s.captured_outputs = <<>>, s.synced = FALSE,
         NEW t, t = sync_fhetch_state_to_compiler(s)
  PROVE  Captured(t, P)
<1>1. Api(s) BY DEF Stands, Sound
<1>2. PICK ins, outs : ins = TaggedAll(s, s.input_registry) /\ outs = TaggedAll(s, s.probe_registry)
  OBVIOUS
<1>3. /\ t.captured_inputs = AllIn!Fold(<<>>, ins) /\ t.captured_outputs = AllOut!Fold(<<>>, outs)
      /\ t.log = s.log
  <2>1. Synced(s, t) BY <1>1, SyncIs
  <2> QED BY <1>2, <2>1 DEF Synced
<1>4. PICK reg : reg = s.input_registry OBVIOUS
<1>5. PICK pro : pro = s.probe_registry OBVIOUS
<1>6. IsSeq(reg) /\ IsSeq(pro) /\ DOMAIN reg = 1 .. Len(reg) /\ DOMAIN pro = 1 .. Len(pro)
  BY <1>4, <1>5, SeqFacts DEF Books
<1>7. /\ IsSeq(ins) /\ Len(ins) = Len(reg)
      /\ \A i \in 1 .. Len(reg) : ins[i] = Tagged(s, reg[i]) /\ EntryOf(reg[i], P)
  <2>1. \A i \in DOMAIN reg : EntryOf(reg[i], P) BY <1>4 DEF Books
  <2>2. ins = TaggedAll(s, reg) BY <1>2, <1>4
  <2> QED BY <1>6, <2>1, <2>2, TaggedAllIs
<1>8. /\ IsSeq(outs) /\ Len(outs) = Len(pro)
      /\ \A i \in 1 .. Len(pro) : outs[i] = Tagged(s, pro[i]) /\ EntryOf(pro[i], P)
  <2>1. \A i \in DOMAIN pro : EntryOf(pro[i], P) BY <1>5 DEF Books
  <2>2. outs = TaggedAll(s, pro) BY <1>2, <1>5
  <2> QED BY <1>6, <2>1, <2>2, TaggedAllIs
<1>9. Recs(<<>>) /\ Elems(<<>>) = {} BY NoElems DEF Only
<1>10. \A el \in Elems(t.captured_outputs) : OutModuli(el, P)
  <2>1. PICK E : E = {Probe(r) : r \in StoredAll(outs)} OBVIOUS
  <2>2. ASSUME NEW i \in 1 .. Len(outs)
        PROVE  IsSeq(outs[i]) /\ \A j \in 1 .. Len(outs[i]) :
                 Probe(outs[i][j]) \in E /\ OutModuli(Probe(outs[i][j]), P)
    <3>1. PICK rs, e : rs = outs[i] /\ e = pro[i] OBVIOUS
    <3>2. rs = Tagged(s, e) /\ EntryOf(e, P) BY <1>8, <3>1
    <3>3. IsSeq(e.residues) BY <3>2 DEF EntryOf
    <3>4. IsSeq(rs) BY <3>2, <3>3, TaggedIs
    <3>5. \A j \in 1 .. Len(rs) : OutModuli(Probe(rs[j]), P) BY <3>2, TaggedModulus
    <3>6. \A j \in 1 .. Len(rs) : rs[j] \in StoredAll(outs) BY <3>1 DEF StoredAll, Stored1
    <3> QED BY <2>1, <3>1, <3>4, <3>5, <3>6
  <2>3. \A el \in E : OutModuli(el, P)
    <3>1. ASSUME NEW r \in StoredAll(outs) PROVE OutModuli(Probe(r), P)
      <4>1. PICK i \in 1 .. Len(outs) : r \in Stored1(outs[i]) BY DEF StoredAll
      <4>2. PICK j \in 1 .. Len(outs[i]) : r = outs[i][j] BY <4>1 DEF Stored1
      <4> QED BY <2>2, <4>2
    <3> QED BY <2>1, <3>1
  <2>4. Only(<<>>, E) BY <1>9 DEF Only
  <2>5. Only(t.captured_outputs, E) BY <1>3, <1>8, <2>2, <2>4, StoreAllOutputsOnly
  <2> QED BY <2>3, <2>5 DEF Only
<1>11. \A el \in Elems(t.captured_inputs) : InModulus(el, s.log)
  <2> DEFINE T == {r \in StoredAll(ins) : r.modulus # None}
  <2>1. PICK E : E = {Input(r) : r \in T} OBVIOUS
  <2>2. ASSUME NEW i \in 1 .. Len(ins)
        PROVE  IsSeq(ins[i]) /\ \A j \in 1 .. Len(ins[i]) : ins[i][j].modulus # None =>
                 Input(ins[i][j]) \in E /\ InModulus(Input(ins[i][j]), s.log)
    <3>1. PICK rs, e : rs = ins[i] /\ e = reg[i] OBVIOUS
    <3>2. rs = Tagged(s, e) /\ EntryOf(e, P) BY <1>7, <3>1
    <3>3. IsSeq(e.residues) BY <3>2 DEF EntryOf
    <3>4. IsSeq(rs) BY <3>2, <3>3, TaggedIs
    <3>5. \A j \in 1 .. Len(rs) : rs[j].modulus # None => InModulus(Input(rs[j]), s.log)
      BY <3>2, TaggedModulus
    <3>6. \A j \in 1 .. Len(rs) : rs[j] \in StoredAll(ins) BY <3>1 DEF StoredAll, Stored1
    <3> QED BY <2>1, <3>1, <3>4, <3>5, <3>6
  <2>3. \A el \in E : InModulus(el, s.log)
    <3>1. ASSUME NEW r \in T PROVE InModulus(Input(r), s.log)
      <4>0. r \in StoredAll(ins) /\ r.modulus # None OBVIOUS
      <4>1. PICK i \in 1 .. Len(ins) : r \in Stored1(ins[i]) BY <4>0 DEF StoredAll
      <4>2. PICK j \in 1 .. Len(ins[i]) : r = ins[i][j] BY <4>1 DEF Stored1
      <4> QED BY <2>2, <4>0, <4>2
    <3> HIDE DEF T
    <3> QED BY <2>1, <3>1
  <2>4. Only(<<>>, E) BY <1>9 DEF Only
  <2>5. Only(t.captured_inputs, E) BY <1>3, <1>7, <2>2, <2>4, StoreAllInputsOnly
  <2> QED BY <2>3, <2>5 DEF Only
<1> QED BY <1>3, <1>10, <1>11 DEF Captured

(* By stop() every tagged input has a modulus. *)
TypedBooks(s) ==
  \A i \in 1 .. Len(s.input_registry) :
    \A j \in 1 .. Len(Tagged(s, s.input_registry[i])) : Tagged(s, s.input_registry[i])[j].modulus # None

(* Then what replay() loads is what the inputs mean. *)
LEMMA SyncInputs ==
  ASSUME NEW s, NEW I, NEW P, Stands(s, I, P), NEW c, NEW tg, Books(s, c, tg, P),
         \A p \in P : p.data # None => [cycle |-> c, p |-> p] \in tg,
         TypedBooks(s), SameKinds(s.input_registry),
         s.captured_inputs = <<>>, s.synced = FALSE,
         NEW t, t = sync_fhetch_state_to_compiler(s)
  PROVE  Agrees(Loaded(t.captured_inputs), I)
<1>1. Api(s) BY DEF Stands, Sound
<1>2. PICK reg, rss, n : reg = s.input_registry /\ rss = TaggedAll(s, reg) /\ n = Len(reg)
  OBVIOUS
<1>3. PICK new : new = t.captured_inputs OBVIOUS
<1>4. new = AllIn!Fold(<<>>, rss)
  <2>1. Synced(s, t) BY <1>1, SyncIs
  <2> QED BY <1>2, <1>3, <2>1 DEF Synced
<1>5. IsSeq(reg) /\ n \in Nat /\ DOMAIN reg = 1 .. n BY <1>2, SeqFacts DEF Books
<1>6. /\ IsSeq(rss) /\ Len(rss) = n /\ DOMAIN rss = 1 .. n
      /\ \A i \in 1 .. n : rss[i] = Tagged(s, reg[i])
  BY <1>2, <1>5, TaggedAllIs
<1>7. \A i \in 1 .. n : EntryOf(reg[i], P) BY <1>2, <1>5 DEF Books
<1> DEFINE K == {<<reg[i].name, reg[i].kind>> : i \in 1 .. n}
<1>8. OneKind(K)
  <2>1. \A i, j \in 1 .. n : reg[i].name = reg[j].name => reg[i].kind = reg[j].kind
    BY <1>2, <1>5 DEF SameKinds
  <2> QED BY <2>1 DEF OneKind
<1>9. ASSUME NEW i \in 1 .. n
      PROVE  /\ IsSeq(rss[i]) /\ KindsIn(rss[i], K) /\ Len(rss[i]) = Len(reg[i].residues)
             /\ Len(rss[i]) \in Nat /\ DOMAIN reg[i].residues = 1 .. Len(rss[i])
             /\ \A j \in 1 .. Len(rss[i]) :
                  /\ rss[i][j].modulus # None
                  /\ rss[i][j].addr_id = reg[i].residues[j].poly.address
                  /\ rss[i][j].values = data_or_zeros(reg[i].residues[j].poly)
                  /\ reg[i].residues[j].poly \in P
  <2>1. PICK rs, e : rs = rss[i] /\ e = reg[i] OBVIOUS
  <2>2. rs = Tagged(s, e) /\ EntryOf(e, P) BY <1>6, <1>7, <2>1
  <2>3. IsSeq(e.residues) /\ \A j \in DOMAIN e.residues : e.residues[j].poly \in P BY <2>2 DEF EntryOf
  <2>4. Len(e.residues) \in Nat /\ DOMAIN e.residues = 1 .. Len(e.residues) BY <2>3, SeqFacts
  <2>5. /\ IsSeq(rs) /\ Len(rs) = Len(e.residues) /\ DOMAIN rs = 1 .. Len(e.residues)
        /\ \A j \in 1 .. Len(e.residues) :
             /\ rs[j].name = e.name /\ rs[j].kind = e.kind
             /\ rs[j].addr_id = e.residues[j].poly.address
             /\ rs[j].values = data_or_zeros(e.residues[j].poly)
    BY <2>2, <2>3, TaggedIs
  <2>6. <<e.name, e.kind>> \in K BY <2>1
  <2> HIDE DEF K
  <2>7. KindsIn(rs, K) BY <2>5, <2>6 DEF KindsIn
  <2>8. \A j \in 1 .. Len(rs) : rs[j].modulus # None
    BY <1>2, <2>1, <2>2 DEF TypedBooks
  <2> QED BY <2>1, <2>3, <2>4, <2>5, <2>7, <2>8
<1>10. Recs(<<>>) /\ Elems(<<>>) = {} /\ Kinds(<<>>) = {} BY NoElems DEF Only
<1>11. Recs(new) /\ Elems(new) = AllInElems(rss, n)
  <2> HIDE DEF K
  <2>1. Kinds(<<>>) \subseteq K BY <1>10
  <2>2. Adds(<<>>, AllIn!Fold(<<>>, rss), K, AllInElems(rss, Len(rss)), AllInNames(rss, Len(rss)))
    BY <1>6, <1>8, <1>9, <1>10, <2>1, StoreAllInputs
  <2> QED BY <1>4, <1>6, <1>10, <2>2 DEF Adds
<1>12. ASSUME NEW el \in Elems(new)
       PROVE  \E p \in P : el.addr_id = p.address /\ el.values = data_or_zeros(p)
  <2>1. PICK i \in 1 .. n : el \in InElems(rss[i], Len(rss[i])) BY <1>11 DEF AllInElems
  <2>2. PICK j \in 1 .. Len(rss[i]) : el = Input(rss[i][j]) BY <2>1 DEF InElems, Typed
  <2> QED BY <1>9, <2>2 DEF Input
<1>13. ASSUME NEW p \in P, p.data # None
       PROVE  \E el \in Elems(new) : el.addr_id = p.address
  <2>1. PICK h : h = [cycle |-> c, p |-> p] OBVIOUS
  <2>2. h \in tg /\ h.cycle = c /\ h.p = p BY <1>13, <2>1
  <2>3. PICK i \in 1 .. n : p \in Polys(reg[i]) BY <1>2, <1>5, <2>2 DEF Books
  <2>4. PICK j \in 1 .. Len(rss[i]) : p = reg[i].residues[j].poly BY <1>9, <2>3 DEF Polys
  <2>5. PICK el : el = Input(rss[i][j]) OBVIOUS
  <2>6. el.addr_id = p.address BY <1>9, <2>4, <2>5 DEF Input
  <2>7. j \in Typed(rss[i], Len(rss[i])) BY <1>9 DEF Typed
  <2>8. el \in InElems(rss[i], Len(rss[i])) BY <2>5, <2>7 DEF InElems
  <2>9. el \in AllInElems(rss, n) BY <2>8 DEF AllInElems
  <2> QED BY <1>11, <2>6, <2>9
<1>14. \A x, y \in P : x.address = y.address => x = y BY DEF Stands
<1>15. \A x, y \in Elems(new) : x.addr_id = y.addr_id => x.values = y.values
  BY <1>12, <1>14
<1>16. /\ \A el \in Elems(new) : At(Loaded(new), el.addr_id) = el.values
       /\ \A a : (\A el \in Elems(new) : el.addr_id # a) => At(Loaded(new), a) = Zero
  BY <1>11, <1>15, LoadedHolds
<1>17. ASSUME NEW p \in I PROVE At(Loaded(new), p.address) = p.term
  <2>0. p \in P /\ (p.data # None => p.term = p.data) /\ (p.data = None => p.term = Zero)
    BY DEF Stands
  <2>1. CASE \E el \in Elems(new) : el.addr_id = p.address
    <3>1. PICK el \in Elems(new) : el.addr_id = p.address BY <2>1
    <3>2. el.values = data_or_zeros(p) BY <1>12, <1>14, <2>0, <3>1
    <3>3. el.values = p.term BY <2>0, <3>2 DEF data_or_zeros
    <3> QED BY <1>16, <3>1, <3>3
  <2>2. CASE ~ \E el \in Elems(new) : el.addr_id = p.address
    <3>1. p.data = None BY <1>13, <2>0, <2>2
    <3> QED BY <1>16, <2>0, <2>2, <3>1
  <2> QED BY <2>1, <2>2
<1> QED BY <1>3, <1>17 DEF Agrees

LEMMA LogHalt ==
  ASSUME NEW log, IsSeq(log), NEW l, l = Append(log, Halt), NEW k \in DOMAIN l, NEW a \in Reads(l[k])
  PROVE  k \in DOMAIN log /\ l[k] = log[k]
<1>1. Reads(Halt) = {} BY DEF Reads, Halt, Instruction, InertOps
<1>2. PICK n : n = Len(log) OBVIOUS
<1>3. /\ n \in Nat /\ DOMAIN log = 1 .. n /\ DOMAIN l = 1 .. n + 1 /\ l[n + 1] = Halt
      /\ \A i \in 1 .. n : l[i] = log[i]
  BY <1>2, AppendIsSeq
<1>4. k \in 1 .. n + 1 /\ a \in Reads(l[k]) BY <1>2, <1>3
<1>5. k # n + 1 BY <1>1, <1>3, <1>4
<1>6. k \in 1 .. n BY <1>3, <1>4, <1>5
<1> QED BY <1>2, <1>3, <1>6

(* stop(): the sync y, the halt, and the end of the recording. *)
Stopped(s, y, t, I, P) ==
  /\ Stands(t, I, P) /\ Captured(t, P)
  /\ t.input_registry = s.input_registry /\ t.probe_registry = s.probe_registry
  /\ t.synced = TRUE
  /\ t.captured_inputs = y.captured_inputs /\ t.captured_outputs = y.captured_outputs
  /\ t.next_address = s.next_address /\ t.address_modulus = s.address_modulus

LEMMA StopIs ==
  ASSUME NEW s, NEW I, NEW P, Stands(s, I, P), s.recording, s.synced = FALSE,
         NEW y, y = sync_fhetch_state_to_compiler(s), Captured(y, P),
         NEW t, t = [halt(y) EXCEPT !.recording = FALSE]
  PROVE  Stopped(s, y, t, I, P)
<1>1. Api(s) /\ Sound(s, I, P) /\ s.next_address \in Nat BY DEF Stands, Sound, Api
<1>2. /\ Api(y) /\ y.synced = TRUE
      /\ y.input_registry = s.input_registry /\ y.probe_registry = s.probe_registry
      /\ y.next_address = s.next_address /\ y.log = s.log
      /\ y.address_modulus = s.address_modulus /\ y.recording = s.recording
  <2>1. Synced(s, y) BY <1>1, SyncIs
  <2> QED BY <2>1 DEF Synced
<1>3. PICK h : h = halt(y) OBVIOUS
<1>4. y.recording BY <1>2
<1>5. /\ Api(h) /\ SameBooks(y, h) /\ h.log = Append(y.log, Halt)
      /\ h.next_address = y.next_address /\ h.address_modulus = y.address_modulus
  BY <1>2, <1>3, <1>4, HaltIs
<1>6. t = [h EXCEPT !.recording = FALSE] BY <1>3
<1>7. /\ Api(t) /\ t.log = h.log /\ t.next_address = h.next_address
      /\ t.address_modulus = h.address_modulus
      /\ t.input_registry = h.input_registry /\ t.probe_registry = h.probe_registry
      /\ t.synced = h.synced /\ t.captured_inputs = h.captured_inputs
      /\ t.captured_outputs = h.captured_outputs
  BY <1>5, <1>6 DEF Api, Fields
<1>8. Stands(y, I, P)
  <2>1. y.next_address >= s.next_address BY <1>1, <1>2
  <2> QED BY <1>2, <2>1, StandsSame
<1>9. Sound(t, I, P)
  <2>1. Sound(y, I, P) BY <1>8 DEF Stands
  <2>2. Sound(h, I, P) BY <1>3, <1>4, <2>1, SoundHalt
  <2>3. t.next_address >= h.next_address BY <1>1, <1>2, <1>5, <1>7
  <2> QED BY <1>7, <2>2, <2>3, SoundSame
<1>10. IsSeq(s.log) /\ t.log = Append(s.log, Halt) BY <1>1, <1>2, <1>5, <1>7 DEF Api
<1>11. Moduli(t, P)
  <2>1. Moduli(s, P) BY DEF Stands
  <2>2. t.address_modulus = s.address_modulus /\ t.next_address = s.next_address
    BY <1>2, <1>5, <1>7
  <2>3. ASSUME NEW k \in DOMAIN t.log, t.log[k].modulus \in Primes, NEW a \in Reads(t.log[k])
        PROVE  a \in DOMAIN s.address_modulus /\ s.address_modulus[a] # COPY_SENTINEL
    <3>1. PICK l, log : l = t.log /\ log = s.log OBVIOUS
    <3>2. IsSeq(log) /\ l = Append(log, Halt) /\ k \in DOMAIN l /\ a \in Reads(l[k])
      BY <1>10, <2>3, <3>1
    <3>3. k \in DOMAIN log /\ l[k] = log[k] BY <3>2, LogHalt
    <3> QED BY <2>1, <2>3, <3>1, <3>3 DEF Moduli
  <2> QED BY <2>1, <2>2, <2>3 DEF Moduli
<1>12. Stands(t, I, P) BY <1>9, <1>11 DEF Stands
<1>13. Captured(t, P)
  <2>1. \A el \in Elems(t.captured_outputs) : OutModuli(el, P)
    BY <1>5, <1>7 DEF Captured, SameBooks
  <2>2. ASSUME NEW el \in Elems(t.captured_inputs) PROVE InModulus(el, t.log)
    <3>1. InModulus(el, s.log) BY <1>2, <1>5, <1>7 DEF Captured, SameBooks
    <3>2. ASSUME NEW k \in DOMAIN t.log, el.addr_id \in Reads(t.log[k])
          PROVE  k \in DOMAIN s.log /\ t.log[k] = s.log[k]
      <4>1. PICK l, log : l = t.log /\ log = s.log OBVIOUS
      <4>2. IsSeq(log) /\ l = Append(log, Halt) /\ k \in DOMAIN l /\ el.addr_id \in Reads(l[k])
        BY <1>10, <3>2, <4>1
      <4>3. k \in DOMAIN log /\ l[k] = log[k] BY <4>2, LogHalt
      <4> QED BY <4>1, <4>3
    <3> QED BY <3>1, <3>2 DEF InModulus
  <2> QED BY <2>1, <2>2 DEF Captured
<1> QED BY <1>2, <1>5, <1>7, <1>12, <1>13 DEF SameBooks, Stopped

-----------------------------------------------------------------------------
(* What the sync stores, in order *)

(* d is e with one more element under name. *)
OneMore(e, name, elem, d) ==
  /\ DOMAIN d = DOMAIN e /\ d[name] = Append(e[name], elem)
  /\ \A n \in DOMAIN e : n # name => d[n] = e[n]

(* The records, of the kinds K, hold what e wants. *)
Hold(records, e, K) == Recs(records) /\ Kinds(records) \subseteq K /\ Matches(records, e)

LEMMA StoreHolds ==
  ASSUME NEW records, NEW e, NEW K, OneKind(K), Hold(records, e, K),
         NEW name \in DOMAIN e, NEW kind, <<name, kind>> \in K, NEW starts, NEW elem,
         NEW new, new = store_element(records, name, kind, starts, elem),
         NEW d, OneMore(e, name, elem, d)
  PROVE  Hold(new, d, K)
<1>1. Recs(records) /\ Kinds(records) \subseteq K /\ Matches(records, e) BY DEF Hold
<1>2. Recs(new) /\ Kinds(new) \subseteq K BY <1>1, StoreElement
<1>3. PICK all, i : FoundAt(records, name, kind, all, i) /\ AppendedAt(all, i, kind, elem, new)
  BY <1>1, StoreAt
<1>4. all[i].kind = kind
  <2>1. <<all[i].name, all[i].kind>> \in Kinds(all) BY <1>3 DEF FoundAt, Kinds
  <2>2. <<name, all[i].kind>> \in K BY <1>1, <1>3, <2>1 DEF FoundAt
  <2> QED BY <2>2 DEF OneKind
<1>5. Matches(all, e)
  <2>1. CASE all = records BY <1>1, <2>1
  <2>2. CASE all # records
    <3>1. PICK fresh : fresh = [name |-> name, kind |-> kind, element_starts |-> <<>>, elements |-> <<>>]
      OBVIOUS
    <3>2. /\ \A j \in DOMAIN records : records[j].name # name
          /\ all = Append(records, fresh)
      BY <1>3, <2>2, <3>1 DEF FoundAt
    <3>3. fresh.name = name /\ fresh.elements = <<>> BY <3>1
    <3>4. PICK n : n = Len(records) OBVIOUS
    <3>5. /\ n \in Nat /\ DOMAIN records = 1 .. n /\ DOMAIN all = 1 .. n + 1
          /\ all[n + 1] = fresh /\ \A j \in 1 .. n : all[j] = records[j]
      BY <1>1, <3>2, <3>4, AppendIsSeq DEF Recs
    <3>6. /\ DOMAIN all = DOMAIN records \cup {n + 1} /\ all[n + 1] = fresh
          /\ \A j \in DOMAIN records : all[j] = records[j]
      BY <3>5
    <3>7. e[name] = <<>> BY <1>1, <3>2 DEF Matches
    <3>8. \A j, k \in DOMAIN all : all[j].name = all[k].name => j = k
      BY <1>1, <3>2, <3>3, <3>6 DEF Matches
    <3>9. \A j \in DOMAIN all : all[j].name \in DOMAIN e /\ all[j].elements = e[all[j].name]
      BY <1>1, <3>3, <3>6, <3>7 DEF Matches
    <3>10. \A m \in DOMAIN e : e[m] # <<>> => \E j \in DOMAIN all : all[j].name = m
      BY <1>1, <3>6 DEF Matches
    <3> QED BY <3>8, <3>9, <3>10 DEF Matches
  <2> QED BY <2>1, <2>2
<1>6. /\ i \in DOMAIN all /\ all[i].name = name /\ DOMAIN new = DOMAIN all
      /\ new[i].name = name /\ new[i].elements = Append(all[i].elements, elem)
      /\ \A j \in DOMAIN all : j # i => new[j] = all[j]
  BY <1>3, <1>4 DEF FoundAt, AppendedAt
<1>7. \A j \in DOMAIN new : new[j].name = all[j].name BY <1>6
<1>8. \A j, k \in DOMAIN new : new[j].name = new[k].name => j = k BY <1>5, <1>6, <1>7 DEF Matches
<1>9. ASSUME NEW j \in DOMAIN new PROVE new[j].name \in DOMAIN d /\ new[j].elements = d[new[j].name]
  <2>1. CASE j = i BY <1>5, <1>6, <2>1 DEF Matches, OneMore
  <2>2. CASE j # i
    <3>1. new[j] = all[j] /\ all[j].name # name BY <1>5, <1>6, <2>2 DEF Matches
    <3> QED BY <1>5, <1>6, <3>1 DEF Matches, OneMore
  <2> QED BY <2>1, <2>2
<1>10. ASSUME NEW m \in DOMAIN d, d[m] # <<>> PROVE \E j \in DOMAIN new : new[j].name = m
  <2>1. CASE m = name BY <1>6, <2>1
  <2>2. CASE m # name
    <3>1. m \in DOMAIN e /\ e[m] # <<>> BY <1>10, <2>2 DEF OneMore
    <3>2. PICK j \in DOMAIN all : all[j].name = m BY <1>5, <3>1 DEF Matches
    <3> QED BY <1>6, <1>7, <3>2
  <2> QED BY <2>1, <2>2
<1>11. Matches(new, d) BY <1>8, <1>9, <1>10 DEF Matches
<1> QED BY <1>2, <1>11 DEF Hold

(* The residues are of the kinds K and under names N. *)
Fits(rs, K, N) == IsSeq(rs) /\ KindsIn(rs, K) /\ \A j \in DOMAIN rs : rs[j].name \in N

(* w is, for each name, the elements wanted under it. *)
WantsAre(w, e) == DOMAIN w = DOMAIN e /\ \A n \in DOMAIN e : w[n] = Wants(n, e[n])

(* One step of each loop. *)
LEMMA StoreInputHolds ==
  ASSUME NEW records, NEW e, NEW K, OneKind(K), Hold(records, e, K),
         NEW r, <<r.name, r.kind>> \in K, r.name \in DOMAIN e,
         NEW w, WantsAre(w, e), NEW v, DOMAIN v = DOMAIN e,
         \A n \in DOMAIN e : v[n] = want_input(w[n], r)
  PROVE  \E d : WantsAre(v, d) /\ DOMAIN d = DOMAIN e /\ Hold(store_input(records, r), d, K)
<1>1. \A n \in DOMAIN e : w[n] = Wants(n, e[n]) /\ w[n].name = n /\ w[n].elements = e[n]
  BY DEF WantsAre, Wants
<1>2. CASE r.modulus = None
  <2>1. store_input(records, r) = records BY <1>2 DEF store_input
  <2>2. \A n \in DOMAIN e : v[n] = w[n] BY <1>2 DEF want_input
  <2>3. WantsAre(v, e) BY <1>1, <2>2 DEF WantsAre
  <2> QED BY <2>1, <2>3
<1>3. CASE r.modulus # None
  <2>1. PICK d : d = [n \in DOMAIN e |-> IF n = r.name THEN Append(e[n], Input(r)) ELSE e[n]]
    OBVIOUS
  <2>2. OneMore(e, r.name, Input(r), d) BY <2>1 DEF OneMore
  <2>3. PICK name, kind, el : name = r.name /\ kind = r.kind /\ el = Input(r) OBVIOUS
  <2>4. store_input(records, r) = store_element(records, name, kind, r.starts, el)
    BY <1>3, <2>3 DEF store_input
  <2>5. Hold(store_input(records, r), d, K) BY <2>2, <2>3, <2>4, StoreHolds
  <2>6. ASSUME NEW n \in DOMAIN e PROVE v[n] = Wants(n, d[n])
    <3>1. v[n] = IF r.name = n THEN Wants(n, Append(e[n], Input(r))) ELSE Wants(n, e[n])
      BY <1>1, <1>3 DEF want_input
    <3> QED BY <2>1, <3>1
  <2>7. WantsAre(v, d) BY <2>1, <2>6 DEF WantsAre
  <2> QED BY <2>1, <2>5, <2>7
<1> QED BY <1>2, <1>3

LEMMA StoreOutputHolds ==
  ASSUME NEW records, NEW e, NEW K, OneKind(K), Hold(records, e, K),
         NEW r, <<r.name, r.kind>> \in K, r.name \in DOMAIN e,
         NEW w, WantsAre(w, e), NEW v, DOMAIN v = DOMAIN e,
         \A n \in DOMAIN e : v[n] = want_output(w[n], r)
  PROVE  \E d : WantsAre(v, d) /\ DOMAIN d = DOMAIN e /\ Hold(store_output(records, r), d, K)
<1>1. \A n \in DOMAIN e : w[n] = Wants(n, e[n]) /\ w[n].name = n /\ w[n].elements = e[n]
  BY DEF WantsAre, Wants
<1>2. PICK d : d = [n \in DOMAIN e |-> IF n = r.name THEN Append(e[n], Probe(r)) ELSE e[n]]
  OBVIOUS
<1>3. OneMore(e, r.name, Probe(r), d) BY <1>2 DEF OneMore
<1>4. PICK name, kind, el : name = r.name /\ kind = r.kind /\ el = Probe(r) OBVIOUS
<1>5. store_output(records, r) = store_element(records, name, kind, r.starts, el)
  BY <1>4 DEF store_output
<1>6. Hold(store_output(records, r), d, K) BY <1>3, <1>4, <1>5, StoreHolds
<1>7. ASSUME NEW n \in DOMAIN e PROVE v[n] = Wants(n, d[n])
  <2>1. v[n] = IF r.name = n THEN Wants(n, Append(e[n], Probe(r))) ELSE Wants(n, e[n])
    BY <1>1 DEF want_output
  <2> QED BY <1>2, <2>1
<1>8. WantsAre(v, d) BY <1>2, <1>7 DEF WantsAre
<1> QED BY <1>2, <1>6, <1>8

(* Of the residues of an entry: inputs. *)
LEMMA EntryInputsHold ==
  ASSUME NEW records, NEW e, NEW K, OneKind(K), Hold(records, e, K),
         NEW rs, Fits(rs, K, DOMAIN e), NEW w, WantsAre(w, e), NEW v, DOMAIN v = DOMAIN e,
         \A n \in DOMAIN e : v[n] = want_inputs(w[n], rs)
  PROVE  \E d : WantsAre(v, d) /\ DOMAIN d = DOMAIN e /\ Hold(store_inputs(records, rs), d, K)
<1>0. PICK N : N = DOMAIN e OBVIOUS
<1>1. Len(rs) \in Nat /\ DOMAIN rs = 1 .. Len(rs) BY SeqFacts DEF Fits
<1>2. PICK f : f = EntryIn!Stages(records, rs) OBVIOUS
<1>3. /\ f[0] = records
      /\ \A k \in 1 .. Len(rs) : f[k] = store_input(f[k - 1], rs[k])
      /\ store_inputs(records, rs) = f[Len(rs)]
  BY <1>1, <1>2, EntryIn!StageSteps DEF store_inputs
<1>4. PICK g : g = [n \in N |-> EntryWantsIn!Stages(w[n], rs)] OBVIOUS
<1>5. ASSUME NEW n \in N
      PROVE  /\ g[n][0] = w[n]
             /\ \A k \in 1 .. Len(rs) : g[n][k] = want_input(g[n][k - 1], rs[k])
             /\ v[n] = g[n][Len(rs)]
  <2>1. PICK b, h : b = w[n] /\ h = EntryWantsIn!Stages(b, rs) OBVIOUS
  <2>2. /\ h[0] = b
        /\ \A k \in 1 .. Len(rs) : h[k] = want_input(h[k - 1], rs[k])
        /\ want_inputs(b, rs) = h[Len(rs)]
    BY <1>1, <2>1, EntryWantsIn!StageSteps DEF want_inputs
  <2>3. g[n] = h /\ v[n] = want_inputs(b, rs) BY <1>0, <1>4, <2>1
  <2> QED BY <2>1, <2>2, <2>3
<1>6. PICK at : at = [k \in Nat |-> [n \in N |-> g[n][k]]] OBVIOUS
<1>7. \A k \in Nat : DOMAIN at[k] = N /\ \A n \in N : at[k][n] = g[n][k] BY <1>6
<1> DEFINE S == {k \in Nat : \E d : WantsAre(at[k], d) /\ DOMAIN d = N /\ Hold(f[k], d, K)}
<1>8. 0 \in S
  <2>1. WantsAre(at[0], e) BY <1>0, <1>5, <1>7 DEF WantsAre
  <2>2. Hold(f[0], e, K) BY <1>3
  <2> QED BY <1>0, <2>1, <2>2
<1>9. ASSUME NEW k \in 1 .. Len(rs), k - 1 \in S PROVE k \in S
  <2>1. PICK i \in Nat : i = k - 1 BY <1>1
  <2>2. PICK d : WantsAre(at[i], d) /\ DOMAIN d = N /\ Hold(f[i], d, K) BY <1>9, <2>1
  <2>3. PICK r, p, q, a : r = rs[k] /\ p = at[i] /\ q = at[k] /\ a = f[i] OBVIOUS
  <2>4. <<r.name, r.kind>> \in K /\ r.name \in N BY <1>0, <1>1, <2>3 DEF Fits, KindsIn
  <2>5. k \in Nat BY <1>1
  <2>6. DOMAIN q = N /\ \A n \in N : q[n] = want_input(p[n], r)
    BY <1>5, <1>7, <2>1, <2>3, <2>5
  <2>7. \E c : WantsAre(q, c) /\ DOMAIN c = DOMAIN d /\ Hold(store_input(a, r), c, K)
    BY <2>2, <2>3, <2>4, <2>6, StoreInputHolds
  <2>8. f[k] = store_input(a, r) BY <1>3, <2>1, <2>3
  <2> QED BY <2>2, <2>3, <2>5, <2>7, <2>8
<1>10. Len(rs) \in S
  <2> HIDE DEF S
  <2> QED BY <1>1, <1>8, <1>9, EntryIn!LoopInduction
<1>11. PICK d : WantsAre(at[Len(rs)], d) /\ DOMAIN d = N /\ Hold(f[Len(rs)], d, K) BY <1>10
<1>12. WantsAre(v, d) BY <1>0, <1>1, <1>5, <1>7, <1>11 DEF WantsAre
<1> QED BY <1>0, <1>3, <1>11, <1>12

(* Of the residues of an entry: outputs. *)
LEMMA EntryOutputsHold ==
  ASSUME NEW records, NEW e, NEW K, OneKind(K), Hold(records, e, K),
         NEW rs, Fits(rs, K, DOMAIN e), NEW w, WantsAre(w, e), NEW v, DOMAIN v = DOMAIN e,
         \A n \in DOMAIN e : v[n] = want_outputs(w[n], rs)
  PROVE  \E d : WantsAre(v, d) /\ DOMAIN d = DOMAIN e /\ Hold(store_outputs(records, rs), d, K)
<1>0. PICK N : N = DOMAIN e OBVIOUS
<1>1. Len(rs) \in Nat /\ DOMAIN rs = 1 .. Len(rs) BY SeqFacts DEF Fits
<1>2. PICK f : f = EntryOut!Stages(records, rs) OBVIOUS
<1>3. /\ f[0] = records
      /\ \A k \in 1 .. Len(rs) : f[k] = store_output(f[k - 1], rs[k])
      /\ store_outputs(records, rs) = f[Len(rs)]
  BY <1>1, <1>2, EntryOut!StageSteps DEF store_outputs
<1>4. PICK g : g = [n \in N |-> EntryWantsOut!Stages(w[n], rs)] OBVIOUS
<1>5. ASSUME NEW n \in N
      PROVE  /\ g[n][0] = w[n]
             /\ \A k \in 1 .. Len(rs) : g[n][k] = want_output(g[n][k - 1], rs[k])
             /\ v[n] = g[n][Len(rs)]
  <2>1. PICK b, h : b = w[n] /\ h = EntryWantsOut!Stages(b, rs) OBVIOUS
  <2>2. /\ h[0] = b
        /\ \A k \in 1 .. Len(rs) : h[k] = want_output(h[k - 1], rs[k])
        /\ want_outputs(b, rs) = h[Len(rs)]
    BY <1>1, <2>1, EntryWantsOut!StageSteps DEF want_outputs
  <2>3. g[n] = h /\ v[n] = want_outputs(b, rs) BY <1>0, <1>4, <2>1
  <2> QED BY <2>1, <2>2, <2>3
<1>6. PICK at : at = [k \in Nat |-> [n \in N |-> g[n][k]]] OBVIOUS
<1>7. \A k \in Nat : DOMAIN at[k] = N /\ \A n \in N : at[k][n] = g[n][k] BY <1>6
<1> DEFINE S == {k \in Nat : \E d : WantsAre(at[k], d) /\ DOMAIN d = N /\ Hold(f[k], d, K)}
<1>8. 0 \in S
  <2>1. WantsAre(at[0], e) BY <1>0, <1>5, <1>7 DEF WantsAre
  <2>2. Hold(f[0], e, K) BY <1>3
  <2> QED BY <1>0, <2>1, <2>2
<1>9. ASSUME NEW k \in 1 .. Len(rs), k - 1 \in S PROVE k \in S
  <2>1. PICK i \in Nat : i = k - 1 BY <1>1
  <2>2. PICK d : WantsAre(at[i], d) /\ DOMAIN d = N /\ Hold(f[i], d, K) BY <1>9, <2>1
  <2>3. PICK r, p, q, a : r = rs[k] /\ p = at[i] /\ q = at[k] /\ a = f[i] OBVIOUS
  <2>4. <<r.name, r.kind>> \in K /\ r.name \in N BY <1>0, <1>1, <2>3 DEF Fits, KindsIn
  <2>5. k \in Nat BY <1>1
  <2>6. DOMAIN q = N /\ \A n \in N : q[n] = want_output(p[n], r)
    BY <1>5, <1>7, <2>1, <2>3, <2>5
  <2>7. \E c : WantsAre(q, c) /\ DOMAIN c = DOMAIN d /\ Hold(store_output(a, r), c, K)
    BY <2>2, <2>3, <2>4, <2>6, StoreOutputHolds
  <2>8. f[k] = store_output(a, r) BY <1>3, <2>1, <2>3
  <2> QED BY <2>2, <2>3, <2>5, <2>7, <2>8
<1>10. Len(rs) \in S
  <2> HIDE DEF S
  <2> QED BY <1>1, <1>8, <1>9, EntryOut!LoopInduction
<1>11. PICK d : WantsAre(at[Len(rs)], d) /\ DOMAIN d = N /\ Hold(f[Len(rs)], d, K) BY <1>10
<1>12. WantsAre(v, d) BY <1>0, <1>1, <1>5, <1>7, <1>11 DEF WantsAre
<1> QED BY <1>0, <1>3, <1>11, <1>12

(* Of a registry: inputs. *)
LEMMA AllInputsHold ==
  ASSUME NEW K, OneKind(K), NEW N,
         NEW rss, IsSeq(rss), \A i \in DOMAIN rss : Fits(rss[i], K, N)
  PROVE  Matches(AllIn!Fold(<<>>, rss), [n \in N |-> AllWantsIn!Fold(Wants(n, <<>>), rss).elements])
<1>1. Len(rss) \in Nat /\ DOMAIN rss = 1 .. Len(rss) BY SeqFacts
<1>2. PICK f : f = AllIn!Stages(<<>>, rss) OBVIOUS
<1>3. /\ f[0] = <<>>
      /\ \A k \in 1 .. Len(rss) : f[k] = store_inputs(f[k - 1], rss[k])
      /\ AllIn!Fold(<<>>, rss) = f[Len(rss)]
  BY <1>1, <1>2, AllIn!StageSteps
<1>4. PICK g : g = [n \in N |-> AllWantsIn!Stages(Wants(n, <<>>), rss)] OBVIOUS
<1>5. ASSUME NEW n \in N
      PROVE  /\ g[n][0] = Wants(n, <<>>)
             /\ \A k \in 1 .. Len(rss) : g[n][k] = want_inputs(g[n][k - 1], rss[k])
             /\ AllWantsIn!Fold(Wants(n, <<>>), rss) = g[n][Len(rss)]
  <2>1. PICK b, h : b = Wants(n, <<>>) /\ h = AllWantsIn!Stages(b, rss) OBVIOUS
  <2>2. /\ h[0] = b
        /\ \A k \in 1 .. Len(rss) : h[k] = want_inputs(h[k - 1], rss[k])
        /\ AllWantsIn!Fold(b, rss) = h[Len(rss)]
    BY <1>1, <2>1, AllWantsIn!StageSteps
  <2>3. g[n] = h BY <1>4, <2>1
  <2> QED BY <2>1, <2>2, <2>3
<1>6. PICK at : at = [k \in Nat |-> [n \in N |-> g[n][k]]] OBVIOUS
<1>7. \A k \in Nat : DOMAIN at[k] = N /\ \A n \in N : at[k][n] = g[n][k] BY <1>6
<1> DEFINE S == {k \in Nat : \E d : WantsAre(at[k], d) /\ DOMAIN d = N /\ Hold(f[k], d, K)}
<1>8. 0 \in S
  <2>1. PICK e : e = [n \in N |-> <<>>] OBVIOUS
  <2>2. DOMAIN e = N /\ \A n \in N : e[n] = <<>> BY <2>1
  <2>3. WantsAre(at[0], e) BY <1>5, <1>7, <2>2 DEF WantsAre
  <2>4. Recs(<<>>) /\ Kinds(<<>>) = {} /\ DOMAIN <<>> = {} BY NoElems DEF Only
  <2>5. Hold(f[0], e, K) BY <1>3, <2>2, <2>4 DEF Hold, Matches
  <2> QED BY <2>2, <2>3, <2>5
<1>9. ASSUME NEW k \in 1 .. Len(rss), k - 1 \in S PROVE k \in S
  <2>1. PICK i \in Nat : i = k - 1 BY <1>1
  <2>2. PICK d : WantsAre(at[i], d) /\ DOMAIN d = N /\ Hold(f[i], d, K) BY <1>9, <2>1
  <2>3. PICK rs, p, q, a : rs = rss[k] /\ p = at[i] /\ q = at[k] /\ a = f[i] OBVIOUS
  <2>4. Fits(rs, K, DOMAIN d) BY <1>1, <2>2, <2>3
  <2>5. k \in Nat BY <1>1
  <2>6. DOMAIN q = N /\ \A n \in N : q[n] = want_inputs(p[n], rs)
    BY <1>5, <1>7, <2>1, <2>3, <2>5
  <2>7. \E c : WantsAre(q, c) /\ DOMAIN c = DOMAIN d /\ Hold(store_inputs(a, rs), c, K)
    BY <2>2, <2>3, <2>4, <2>6, EntryInputsHold
  <2>8. f[k] = store_inputs(a, rs) BY <1>3, <2>1, <2>3
  <2> QED BY <2>2, <2>3, <2>5, <2>7, <2>8
<1>10. Len(rss) \in S
  <2> HIDE DEF S
  <2> QED BY <1>1, <1>8, <1>9, AllIn!LoopInduction
<1>11. PICK d : WantsAre(at[Len(rss)], d) /\ DOMAIN d = N /\ Hold(f[Len(rss)], d, K) BY <1>10
<1>12. PICK z : z = [n \in N |-> AllWantsIn!Fold(Wants(n, <<>>), rss).elements] OBVIOUS
<1>13. ASSUME NEW n \in N PROVE z[n] = d[n]
  <2>1. AllWantsIn!Fold(Wants(n, <<>>), rss) = Wants(n, d[n]) BY <1>1, <1>5, <1>7, <1>11 DEF WantsAre
  <2>2. z[n] = Wants(n, d[n]).elements BY <1>12, <2>1
  <2> QED BY <2>2 DEF Wants
<1>14. Matches(f[Len(rss)], d) BY <1>11 DEF Hold
<1>15. DOMAIN z = N BY <1>12
<1>16. Matches(f[Len(rss)], z) BY <1>11, <1>13, <1>14, <1>15 DEF Matches
<1> QED BY <1>3, <1>12, <1>16

(* Of a registry: outputs. *)
LEMMA AllOutputsHold ==
  ASSUME NEW K, OneKind(K), NEW N,
         NEW rss, IsSeq(rss), \A i \in DOMAIN rss : Fits(rss[i], K, N)
  PROVE  Matches(AllOut!Fold(<<>>, rss), [n \in N |-> AllWantsOut!Fold(Wants(n, <<>>), rss).elements])
<1>1. Len(rss) \in Nat /\ DOMAIN rss = 1 .. Len(rss) BY SeqFacts
<1>2. PICK f : f = AllOut!Stages(<<>>, rss) OBVIOUS
<1>3. /\ f[0] = <<>>
      /\ \A k \in 1 .. Len(rss) : f[k] = store_outputs(f[k - 1], rss[k])
      /\ AllOut!Fold(<<>>, rss) = f[Len(rss)]
  BY <1>1, <1>2, AllOut!StageSteps
<1>4. PICK g : g = [n \in N |-> AllWantsOut!Stages(Wants(n, <<>>), rss)] OBVIOUS
<1>5. ASSUME NEW n \in N
      PROVE  /\ g[n][0] = Wants(n, <<>>)
             /\ \A k \in 1 .. Len(rss) : g[n][k] = want_outputs(g[n][k - 1], rss[k])
             /\ AllWantsOut!Fold(Wants(n, <<>>), rss) = g[n][Len(rss)]
  <2>1. PICK b, h : b = Wants(n, <<>>) /\ h = AllWantsOut!Stages(b, rss) OBVIOUS
  <2>2. /\ h[0] = b
        /\ \A k \in 1 .. Len(rss) : h[k] = want_outputs(h[k - 1], rss[k])
        /\ AllWantsOut!Fold(b, rss) = h[Len(rss)]
    BY <1>1, <2>1, AllWantsOut!StageSteps
  <2>3. g[n] = h BY <1>4, <2>1
  <2> QED BY <2>1, <2>2, <2>3
<1>6. PICK at : at = [k \in Nat |-> [n \in N |-> g[n][k]]] OBVIOUS
<1>7. \A k \in Nat : DOMAIN at[k] = N /\ \A n \in N : at[k][n] = g[n][k] BY <1>6
<1> DEFINE S == {k \in Nat : \E d : WantsAre(at[k], d) /\ DOMAIN d = N /\ Hold(f[k], d, K)}
<1>8. 0 \in S
  <2>1. PICK e : e = [n \in N |-> <<>>] OBVIOUS
  <2>2. DOMAIN e = N /\ \A n \in N : e[n] = <<>> BY <2>1
  <2>3. WantsAre(at[0], e) BY <1>5, <1>7, <2>2 DEF WantsAre
  <2>4. Recs(<<>>) /\ Kinds(<<>>) = {} /\ DOMAIN <<>> = {} BY NoElems DEF Only
  <2>5. Hold(f[0], e, K) BY <1>3, <2>2, <2>4 DEF Hold, Matches
  <2> QED BY <2>2, <2>3, <2>5
<1>9. ASSUME NEW k \in 1 .. Len(rss), k - 1 \in S PROVE k \in S
  <2>1. PICK i \in Nat : i = k - 1 BY <1>1
  <2>2. PICK d : WantsAre(at[i], d) /\ DOMAIN d = N /\ Hold(f[i], d, K) BY <1>9, <2>1
  <2>3. PICK rs, p, q, a : rs = rss[k] /\ p = at[i] /\ q = at[k] /\ a = f[i] OBVIOUS
  <2>4. Fits(rs, K, DOMAIN d) BY <1>1, <2>2, <2>3
  <2>5. k \in Nat BY <1>1
  <2>6. DOMAIN q = N /\ \A n \in N : q[n] = want_outputs(p[n], rs)
    BY <1>5, <1>7, <2>1, <2>3, <2>5
  <2>7. \E c : WantsAre(q, c) /\ DOMAIN c = DOMAIN d /\ Hold(store_outputs(a, rs), c, K)
    BY <2>2, <2>3, <2>4, <2>6, EntryOutputsHold
  <2>8. f[k] = store_outputs(a, rs) BY <1>3, <2>1, <2>3
  <2> QED BY <2>2, <2>3, <2>5, <2>7, <2>8
<1>10. Len(rss) \in S
  <2> HIDE DEF S
  <2> QED BY <1>1, <1>8, <1>9, AllOut!LoopInduction
<1>11. PICK d : WantsAre(at[Len(rss)], d) /\ DOMAIN d = N /\ Hold(f[Len(rss)], d, K) BY <1>10
<1>12. PICK z : z = [n \in N |-> AllWantsOut!Fold(Wants(n, <<>>), rss).elements] OBVIOUS
<1>13. ASSUME NEW n \in N PROVE z[n] = d[n]
  <2>1. AllWantsOut!Fold(Wants(n, <<>>), rss) = Wants(n, d[n]) BY <1>1, <1>5, <1>7, <1>11 DEF WantsAre
  <2>2. z[n] = Wants(n, d[n]).elements BY <1>12, <2>1
  <2> QED BY <2>2 DEF Wants
<1>14. Matches(f[Len(rss)], d) BY <1>11 DEF Hold
<1>15. DOMAIN z = N BY <1>12
<1>16. Matches(f[Len(rss)], z) BY <1>11, <1>13, <1>14, <1>15 DEF Matches
<1> QED BY <1>3, <1>12, <1>16

LEMMA RegistryFits ==
  ASSUME NEW s, NEW reg, IsSeq(reg), NEW P, \A i \in DOMAIN reg : EntryOf(reg[i], P), SameKinds(reg),
         NEW rss, rss = TaggedAll(s, reg)
  PROVE  /\ IsSeq(rss)
         /\ \E K : OneKind(K) /\ \A i \in DOMAIN rss : Fits(rss[i], K, NamesIn(reg))
<1>1. PICK n : n = Len(reg) OBVIOUS
<1>2. n \in Nat /\ DOMAIN reg = 1 .. n BY <1>1, SeqFacts
<1>3. /\ IsSeq(rss) /\ DOMAIN rss = 1 .. n
      /\ \A i \in 1 .. n : rss[i] = Tagged(s, reg[i])
  BY <1>1, <1>2, TaggedAllIs
<1>4. PICK K : K = {<<reg[i].name, reg[i].kind>> : i \in DOMAIN reg} OBVIOUS
<1>5. OneKind(K) BY <1>4 DEF OneKind, SameKinds
<1>6. ASSUME NEW i \in DOMAIN rss PROVE Fits(rss[i], K, NamesIn(reg))
  <2>1. PICK rs, e : rs = rss[i] /\ e = reg[i] OBVIOUS
  <2>2. i \in DOMAIN reg /\ rs = Tagged(s, e) /\ EntryOf(e, P) BY <1>2, <1>3, <2>1
  <2>3. IsSeq(e.residues) BY <2>2 DEF EntryOf
  <2>4. /\ IsSeq(rs) /\ DOMAIN rs = 1 .. Len(e.residues)
        /\ \A j \in 1 .. Len(e.residues) : rs[j].name = e.name /\ rs[j].kind = e.kind
    BY <2>2, <2>3, TaggedIs
  <2>5. <<e.name, e.kind>> \in K BY <1>4, <2>1, <2>2
  <2>6. e.name \in NamesIn(reg) BY <2>1, <2>2 DEF NamesIn
  <2> QED BY <2>1, <2>4, <2>5, <2>6 DEF Fits, KindsIn
<1> QED BY <1>3, <1>5, <1>6

LEMMA TaggedSame ==
  ASSUME NEW s, NEW t, t.address_modulus = s.address_modulus, NEW reg
  PROVE  TaggedAll(t, reg) = TaggedAll(s, reg)
BY DEF TaggedAll, Tagged

(* The sync from nothing captured captures everything once. *)
LEMMA SyncOnce ==
  ASSUME NEW s, NEW c, NEW tg, NEW P, Books(s, c, tg, P),
         s.captured_inputs = <<>>, s.captured_outputs = <<>>, NEW y, Synced(s, y),
         NEW t, t.captured_inputs = y.captured_inputs, t.captured_outputs = y.captured_outputs,
         t.input_registry = s.input_registry, t.probe_registry = s.probe_registry,
         t.address_modulus = s.address_modulus
  PROVE  Once(t)
<1>1. ASSUME SameKinds(t.input_registry) PROVE Matches(t.captured_inputs, WantedInputs(t))
  <2>1. PICK reg, rss, N : reg = s.input_registry /\ rss = TaggedAll(s, reg) /\ N = NamesIn(reg)
    OBVIOUS
  <2>2. IsSeq(reg) /\ SameKinds(reg) /\ \A i \in DOMAIN reg : EntryOf(reg[i], P)
    BY <1>1, <2>1 DEF Books
  <2>3. IsSeq(rss) /\ \E K : OneKind(K) /\ \A i \in DOMAIN rss : Fits(rss[i], K, N)
    BY <2>1, <2>2, RegistryFits
  <2>4. PICK K : OneKind(K) /\ \A i \in DOMAIN rss : Fits(rss[i], K, N) BY <2>3
  <2>5. Matches(AllIn!Fold(<<>>, rss), [n \in N |-> AllWantsIn!Fold(Wants(n, <<>>), rss).elements])
    BY <2>3, <2>4, AllInputsHold
  <2>6. t.captured_inputs = AllIn!Fold(<<>>, rss) BY <2>1 DEF Synced
  <2>7. t.input_registry = reg /\ TaggedAll(t, reg) = rss BY <2>1, TaggedSame
  <2>8. WantedInputs(t) = [n \in N |-> AllWantsIn!Fold(Wants(n, <<>>), rss).elements]
    BY <2>1, <2>7 DEF WantedInputs
  <2> QED BY <2>5, <2>6, <2>8
<1>2. ASSUME SameKinds(t.probe_registry) PROVE Matches(t.captured_outputs, WantedOutputs(t))
  <2>1. PICK reg, rss, N : reg = s.probe_registry /\ rss = TaggedAll(s, reg) /\ N = NamesIn(reg)
    OBVIOUS
  <2>2. IsSeq(reg) /\ SameKinds(reg) /\ \A i \in DOMAIN reg : EntryOf(reg[i], P)
    BY <1>2, <2>1 DEF Books
  <2>3. IsSeq(rss) /\ \E K : OneKind(K) /\ \A i \in DOMAIN rss : Fits(rss[i], K, N)
    BY <2>1, <2>2, RegistryFits
  <2>4. PICK K : OneKind(K) /\ \A i \in DOMAIN rss : Fits(rss[i], K, N) BY <2>3
  <2>5. Matches(AllOut!Fold(<<>>, rss), [n \in N |-> AllWantsOut!Fold(Wants(n, <<>>), rss).elements])
    BY <2>3, <2>4, AllOutputsHold
  <2>6. t.captured_outputs = AllOut!Fold(<<>>, rss) BY <2>1 DEF Synced
  <2>7. t.probe_registry = reg /\ TaggedAll(t, reg) = rss BY <2>1, TaggedSame
  <2>8. WantedOutputs(t) = [n \in N |-> AllWantsOut!Fold(Wants(n, <<>>), rss).elements]
    BY <2>1, <2>7 DEF WantedOutputs
  <2> QED BY <2>5, <2>6, <2>8
<1> QED BY <1>1, <1>2 DEF Once

-----------------------------------------------------------------------------
(* The inductive invariant *)

(* The rules of the hosts considered here. *)
AllRules == {"inside", "intime", "typed", "cleared"} \subseteq Rules

Shape ==
  /\ host \in Hosts
  /\ running \in BOOLEAN /\ dropped \in BOOLEAN /\ api.synced \in BOOLEAN
  /\ cycle \in 0 .. host.max_cycles /\ objects \in 0 .. host.max_objects
  /\ Api(api) /\ DOMAIN api.address_modulus \subseteq 0 .. api.next_address - 1
  /\ api.next_address <= 6 * Len(Base) * objects

(* Handles are of this cycle or of earlier ones. *)
Aged == \A x \in polys \cup mrps \cup tagged : x.cycle \in 0 .. cycle

(* While the session runs nothing is captured. *)
Uncaptured ==
  running => /\ api.recording /\ api.synced = FALSE
             /\ api.captured_inputs = <<>> /\ api.captured_outputs = <<>>

(* The cycle's handles P and inputs I. *)
Now(I, P) ==
  /\ Stands(api, I, P)
  /\ HandlesOf(cycle, polys, mrps, P)
  /\ Books(api, cycle, tagged, P)
  /\ api.synced => Captured(api, P)
  /\ trace # None /\ ~dropped /\ SameKinds(api.input_registry) =>
       Agrees(Loaded(api.captured_inputs), I)

Standing == running \/ api.synced => \E I, P : Now(I, P)

Replayed ==
  /\ trace # None => api.synced /\ ~running /\ api.log = trace
  /\ memory # None =>
       trace # None /\ ~dropped /\ memory = Run(Loaded(api.captured_inputs), trace)

Inv == Shape /\ Aged /\ Uncaptured /\ Standing /\ Replayed

LEMMA InitInv == Init => Inv
<1> SUFFICES ASSUME Init PROVE Inv OBVIOUS
<1>1. Api(NewApi) BY NewApiIs
<1>2. /\ NewApi.next_address = 0 /\ NewApi.synced = FALSE /\ NewApi.address_modulus = <<>>
  BY DEF NewApi
<1>3. Shape
  <2>1. host \in Hosts /\ host.max_objects \in Nat /\ host.max_cycles \in Nat
    BY HostsAssumption DEF Init
  <2>2. DOMAIN <<>> = {} OBVIOUS
  <2>3. DOMAIN api.address_modulus = {} /\ api.next_address = 0 BY <1>2, <2>2 DEF Init
  <2>4. api.next_address <= 6 * Len(Base) * objects
    <3>1. PICK K \in Nat : K = 6 * Len(Base) BY BaseIs
    <3>2. K * 0 = 0 OBVIOUS
    <3>3. objects = 0 BY DEF Init
    <3> QED BY <2>3, <3>1, <3>2, <3>3
  <2>5. DOMAIN api.address_modulus \subseteq 0 .. api.next_address - 1 BY <2>3
  <2>6. /\ running \in BOOLEAN /\ dropped \in BOOLEAN /\ api.synced \in BOOLEAN /\ Api(api)
        /\ cycle \in 0 .. host.max_cycles /\ objects \in 0 .. host.max_objects
    <3>1. running \in BOOLEAN /\ dropped \in BOOLEAN BY DEF Init
    <3>2. api.synced \in BOOLEAN /\ Api(api) BY <1>1, <1>2 DEF Init
    <3>3. cycle = 0 /\ objects = 0 BY DEF Init
    <3>4. cycle \in 0 .. host.max_cycles BY <2>1, <3>3
    <3>5. objects \in 0 .. host.max_objects BY <2>1, <3>3
    <3> QED BY <3>1, <3>2, <3>4, <3>5
  <2> QED BY <2>1, <2>4, <2>5, <2>6 DEF Shape
<1>4. Aged /\ Uncaptured /\ Standing /\ Replayed
  BY <1>2 DEF Aged, Uncaptured, Standing, Replayed, Init
<1> QED BY <1>3, <1>4 DEF Inv

(* Every action finds room for the addresses it takes. *)
LEMMA Room ==
  ASSUME NEW K \in Nat, NEW n \in Nat, NEW m \in Nat, n < m, NEW a \in Nat, a <= K * n,
         NEW z \in Nat, K * m <= z
  PROVE  a + K <= z /\ \A b \in Nat : b <= a + K => b <= K * (n + 1)
<1>1. K * (n + 1) = K * n + K OBVIOUS
<1>2. PICK d \in Nat : m = (n + 1) + d
  <2>1. m - (n + 1) \in Nat /\ m = (n + 1) + (m - (n + 1)) OBVIOUS
  <2> QED BY <2>1
<1>3. K * m = K * (n + 1) + K * d BY <1>2
<1>4. K * d \in Nat /\ K * n \in Nat /\ K * m \in Nat OBVIOUS
<1>5. PICK u, v, w : u = K * n /\ v = K * d /\ w = K * (n + 1) OBVIOUS
<1>6. u \in Nat /\ v \in Nat /\ w = u + K /\ w + v <= z /\ a <= u BY <1>1, <1>3, <1>4, <1>5
<1>7. a + K <= z /\ \A b \in Nat : b <= a + K => b <= w BY <1>6
<1> QED BY <1>5, <1>7

(* An action that makes an object keeps the invariant when its handles     *)
(* stand.                                                                  *)
Made(Q) ==
  /\ running /\ objects < host.max_objects
  /\ \E J : Stands(api', J, Q)
  /\ HandlesOf(cycle, polys', mrps', Q)
  /\ SameBooks(api, api')
  /\ api'.next_address <= api.next_address + 6 * Len(Base)
  /\ \A x \in polys' \cup mrps' : x \in polys \cup mrps \/ x.cycle = cycle
  /\ objects' = objects + 1
  /\ UNCHANGED <<host, running, trace, memory, tagged, cycle, dropped>>

LEMMA MadeKeeps ==
  ASSUME Inv, NEW I, NEW P, Now(I, P), NEW Q, P \subseteq Q, Made(Q)
  PROVE  Inv'
<1>1. PICK J : Stands(api', J, Q) BY DEF Made
<1>2. host \in Hosts /\ host.max_objects \in Nat /\ objects \in Nat /\ objects < host.max_objects
  BY HostsAssumption DEF Inv, Shape, Made
<1>3. api.next_address \in Nat /\ api'.next_address \in Nat BY <1>1 DEF Inv, Shape, Api, Stands, Sound
<1>4. api'.next_address <= 6 * Len(Base) * (objects + 1)
  <2>1. PICK K \in Nat : K = 6 * Len(Base) BY BaseIs
  <2>2. api.next_address <= K * objects BY <2>1 DEF Inv, Shape
  <2>3. K * host.max_objects <= AddressSpace BY <1>2, <2>1, HostsAssumption
  <2>4. api'.next_address <= api.next_address + K BY <2>1 DEF Made
  <2>5. PICK n, m, a, b, z : /\ n = objects /\ m = host.max_objects /\ a = api.next_address
                             /\ b = api'.next_address /\ z = AddressSpace
    OBVIOUS
  <2>6. /\ n \in Nat /\ m \in Nat /\ n < m /\ a \in Nat /\ a <= K * n /\ z \in Nat /\ K * m <= z
        /\ b \in Nat /\ b <= a + K
    BY <1>2, <1>3, <2>2, <2>3, <2>4, <2>5, AddressSpaceAssumption
  <2>7. b <= K * (n + 1) BY <2>6, Room
  <2> QED BY <2>1, <2>5, <2>7
<1>5. Shape'
  <2>1. Api(api') /\ DOMAIN api'.address_modulus \subseteq 0 .. api'.next_address - 1
    BY <1>1 DEF Stands, Sound, Moduli
  <2>2. api'.synced = api.synced BY DEF Made, SameBooks
  <2>3. objects' \in 0 .. host'.max_objects BY <1>2 DEF Made
  <2>4. api'.next_address <= 6 * Len(Base) * objects' BY <1>4 DEF Made
  <2>5. /\ host' \in Hosts /\ running' \in BOOLEAN /\ dropped' \in BOOLEAN
        /\ cycle' \in 0 .. host'.max_cycles
    BY DEF Inv, Shape, Made
  <2>6. api'.synced \in BOOLEAN BY <2>2 DEF Inv, Shape
  <2> QED BY <2>1, <2>3, <2>4, <2>5, <2>6 DEF Shape
<1>6. Aged'
  <2>1. cycle \in Nat BY <1>2, HostsAssumption DEF Inv, Shape
  <2>2. cycle' = cycle /\ tagged' = tagged BY DEF Made
  <2>3. ASSUME NEW x \in polys' \cup mrps' \cup tagged' PROVE x.cycle \in 0 .. cycle
    <3>1. x \in polys \cup mrps \cup tagged \/ x.cycle = cycle BY <2>2 DEF Made
    <3> QED BY <2>1, <3>1 DEF Inv, Aged
  <2> QED BY <2>2, <2>3 DEF Aged
<1>7. Uncaptured' BY DEF Inv, Uncaptured, Made, SameBooks
<1>8. Replayed' BY DEF Inv, Replayed, Made
<1>9. Now(J, Q)'
  <2>1. HandlesOf(cycle', polys', mrps', Q) BY DEF Made
  <2>2. Books(api', cycle, tagged, Q)
    <3>1. PICK s, t, c, tg : s = api /\ t = api' /\ c = cycle /\ tg = tagged OBVIOUS
    <3>2. Books(s, c, tg, P) BY <3>1 DEF Now
    <3>3. t.input_registry = s.input_registry /\ t.probe_registry = s.probe_registry
      BY <3>1 DEF Made, SameBooks
    <3>4. Books(t, c, tg, Q) BY <3>2, <3>3, BooksGrow
    <3> QED BY <3>1, <3>4
  <2>3. api'.synced = FALSE BY DEF Made, Inv, Uncaptured, SameBooks
  <2>4. trace' = None BY DEF Made, Inv, Replayed
  <2>5. Books(api', cycle', tagged', Q) BY <2>2 DEF Made
  <2> QED BY <1>1, <2>1, <2>3, <2>4, <2>5 DEF Now
<1>10. Standing' BY <1>9 DEF Standing
<1> QED BY <1>5, <1>6, <1>7, <1>8, <1>10 DEF Inv

(* Actions that make polynomials and multi-residue polynomials. *)
LEMMA MakesKeeps ==
  ASSUME Inv, running, objects < host.max_objects, NEW I, NEW P, Now(I, P),
         NEW r, Makes(r), NEW J, NEW Q, Stands(r.api, J, Q), P \subseteq Q, r.out \in Q,
         \A x \in Q \ P : x.data # None => x = r.out,
         SameBooks(api, r.api), r.api.next_address <= api.next_address + 6 * Len(Base)
  PROVE  Inv'
<1>1. PICK h : h = [cycle |-> cycle, p |-> r.out] OBVIOUS
<1>2. api' = r.api /\ polys' = polys \cup {h} /\ mrps' = mrps BY <1>1 DEF Makes, Held
<1>3. HandlesOf(cycle, polys', mrps', Q)
  <2>1. PICK c, ps, ms, pt : c = cycle /\ ps = polys /\ ms = mrps /\ pt = polys' OBVIOUS
  <2>2. HandlesOf(c, ps, ms, P) BY <2>1 DEF Now
  <2>3. \A x \in pt \ ps : x.p \in Q BY <1>1, <1>2, <2>1
  <2>4. \A x \in Q \ P : x.data # None => [cycle |-> c, p |-> x] \in pt BY <1>1, <1>2, <2>1
  <2>5. ps \subseteq pt /\ ms \subseteq ms /\ \A x \in ms \ ms : MRPIn(x.p, Q) BY <1>2, <2>1
  <2>6. HandlesOf(c, pt, ms, Q) BY <2>2, <2>3, <2>4, <2>5, HandlesGrow
  <2> QED BY <1>2, <2>1, <2>6
<1>4. Made(Q)
  <2>1. \A x \in polys' \cup mrps' : x \in polys \cup mrps \/ x.cycle = cycle BY <1>1, <1>2
  <2> QED BY <1>2, <1>3, <2>1 DEF Made, Makes
<1> QED BY <1>4, MadeKeeps

LEMMA MakesMRPKeeps ==
  ASSUME Inv, running, objects < host.max_objects, NEW I, NEW P, Now(I, P),
         NEW r, MakesMRP(r), GrowsMRP(api, P, r, 6 * Len(Base))
  PROVE  Inv'
<1>1. PICK h : h = [cycle |-> cycle, p |-> r.out] OBVIOUS
<1>2. api' = r.api /\ mrps' = mrps \cup {h} /\ polys' = polys BY <1>1 DEF MakesMRP, Held
<1>3. PICK Q : Grows(api, P, r.api, Q, 6 * Len(Base)) /\ MRPIn(r.out, Q) BY DEF GrowsMRP
<1>4. P \subseteq Q /\ \A x \in Q \ P : x.data = None BY <1>3 DEF Grows
<1>5. HandlesOf(cycle, polys', mrps', Q)
  <2>1. PICK c, ps, ms, mt : c = cycle /\ ps = polys /\ ms = mrps /\ mt = mrps' OBVIOUS
  <2>2. HandlesOf(c, ps, ms, P) BY <2>1 DEF Now
  <2>3. \A x \in mt \ ms : MRPIn(x.p, Q) BY <1>1, <1>2, <1>3, <2>1
  <2>4. ms \subseteq mt /\ ps \subseteq ps /\ \A x \in ps \ ps : x.p \in Q BY <1>2, <2>1
  <2>5. \A x \in Q \ P : x.data # None => [cycle |-> c, p |-> x] \in ps BY <1>4
  <2>6. HandlesOf(c, ps, mt, Q) BY <1>4, <2>2, <2>3, <2>4, <2>5, HandlesGrow
  <2> QED BY <1>2, <2>1, <2>6
<1>6. Made(Q)
  <2>1. \A x \in polys' \cup mrps' : x \in polys \cup mrps \/ x.cycle = cycle BY <1>1, <1>2
  <2> QED BY <1>2, <1>3, <1>5, <2>1 DEF Made, MakesMRP, Grows
<1> QED BY <1>4, <1>6, MadeKeeps

-----------------------------------------------------------------------------
(* Polynomials and calls *)

LEMMA Ready ==
  ASSUME Inv, running, objects < host.max_objects
  PROVE  /\ \E I, P : Now(I, P)
         /\ api.recording /\ Api(api) /\ api.next_address \in Nat
         /\ api.next_address + 6 * Len(Base) <= AddressSpace
<1>1. \E I, P : Now(I, P) BY DEF Inv, Standing
<1>2. api.recording /\ Api(api) /\ api.next_address \in Nat BY DEF Inv, Uncaptured, Shape, Api
<1>3. PICK K \in Nat : K = 6 * Len(Base) BY BaseIs
<1>4. PICK n, m, a, z : /\ n = objects /\ m = host.max_objects /\ a = api.next_address
                        /\ z = AddressSpace
  OBVIOUS
<1>5. host \in Hosts /\ objects \in 0 .. host.max_objects /\ a <= K * n BY <1>3, <1>4 DEF Inv, Shape
<1>6. m \in Nat /\ K * m <= z BY <1>3, <1>4, <1>5, HostsAssumption
<1>7. n \in Nat /\ n < m /\ a \in Nat /\ z \in Nat BY <1>2, <1>4, <1>5, <1>6, AddressSpaceAssumption
<1>8. a + K <= z BY <1>5, <1>6, <1>7, Room
<1> QED BY <1>1, <1>2, <1>3, <1>4, <1>8

LEMMA NewPolynomialKeeps == AllRules /\ Inv /\ NewPolynomial => Inv'
<1> SUFFICES ASSUME AllRules, Inv, NewPolynomial PROVE Inv' OBVIOUS
<1>1. running /\ objects < host.max_objects BY DEF AllRules, NewPolynomial, MayMake
<1>2. PICK I, P : Now(I, P) BY <1>1, Ready
<1>3. PICK v : v = <<"data", objects>> OBVIOUS
<1>4. v # None
  <2>1. host \in Hosts /\ objects \in 0 .. host.max_objects BY DEF Inv, Shape
  <2> QED BY <1>3, <2>1, DataAssumption
<1>5. PICK r, s : r = from_data(api, v) /\ s = api OBVIOUS
<1>6. Makes(r) BY <1>3, <1>5 DEF NewPolynomial
<1>7. Stands(s, I, P) /\ r = from_data(s, v) BY <1>2, <1>5 DEF Now
<1>8. PICK Q : Q = P \cup {r.out} OBVIOUS
<1>9. /\ Stands(r.api, I \cup {r.out}, Q)
      /\ SameBooks(s, r.api) /\ r.api.next_address = s.next_address + 1
  BY <1>4, <1>7, <1>8, StandsInput
<1>10. r.api.next_address <= api.next_address + 6 * Len(Base)
  BY <1>1, <1>5, <1>9, Ready, BaseIs
<1>11. P \subseteq Q /\ r.out \in Q /\ \A x \in Q \ P : x.data # None => x = r.out BY <1>8
<1>12. PICK J : J = I \cup {r.out} OBVIOUS
<1>13. Stands(r.api, J, Q) /\ SameBooks(api, r.api) BY <1>5, <1>9, <1>12
<1> QED BY <1>1, <1>2, <1>6, <1>10, <1>11, <1>13, MakesKeeps

LEMMA GrowsKeeps ==
  ASSUME Inv, running, objects < host.max_objects, NEW I, NEW P, Now(I, P),
         NEW r, Makes(r), Grows(api, P, r.api, P \cup {r.out}, 2)
  PROVE  Inv'
<1>1. PICK Q : Q = P \cup {r.out} OBVIOUS
<1>2. Grows(api, P, r.api, Q, 2) BY <1>1
<1>3. PICK J : Stands(r.api, J, Q) BY <1>2 DEF Grows
<1>4. P \subseteq Q /\ r.out \in Q /\ \A x \in Q \ P : x.data # None => x = r.out BY <1>1
<1>5. SameBooks(api, r.api) BY <1>2 DEF Grows
<1>6. r.api.next_address <= api.next_address + 6 * Len(Base)
  <2>1. r.api.next_address <= api.next_address + 2 BY <1>2 DEF Grows
  <2>2. r.api.next_address \in Nat BY <1>3 DEF Stands, Sound, Api
  <2>3. api.next_address \in Nat BY Ready
  <2>4. Len(Base) \in Nat \ {0} BY BaseIs
  <2> QED BY <2>1, <2>2, <2>3, <2>4
<1> QED BY <1>3, <1>4, <1>5, <1>6, MakesKeeps

LEMMA HandleIn ==
  ASSUME AllRules, NEW I, NEW P, Now(I, P), NEW x, Usable(x)
  PROVE  /\ x \in polys => x.p \in P
         /\ x \in mrps => MRPIn(x.p, P)
BY DEF AllRules, Usable, Now, HandlesOf

LEMMA SkipNone ==
  ASSUME NEW s, Api(s)
  PROVE  Skips(s, s, 1) /\ Skips(s, from_int(s), 1)
<1>1. s.next_address \in Nat BY DEF Api
<1>2. Skips(s, s, 1) BY <1>1 DEF Skips, SameBooks
<1>3. PICK u : u = from_int(s) OBVIOUS
<1>4. /\ Api(u) /\ SameBooks(s, u) /\ u.log = s.log /\ u.address_modulus = s.address_modulus
      /\ u.next_address = s.next_address + 1
  BY <1>3, AllocIs DEF from_int
<1>5. Skips(s, u, 1) BY <1>1, <1>4 DEF Skips
<1> QED BY <1>2, <1>3, <1>5

(* A call of the host's: r records after at most a scalar was made. *)
LEMMA CallKeeps ==
  ASSUME Inv, running, objects < host.max_objects, NEW I, NEW P, Now(I, P),
         NEW u, Skips(api, u, 1), NEW q, NEW r, Records(u, P, r, q), Makes(r)
  PROVE  Inv'
<1>1. api.recording /\ api.next_address + 2 <= AddressSpace
  <2>1. api.recording /\ api.next_address \in Nat /\ api.next_address + 6 * Len(Base) <= AddressSpace
    BY Ready
  <2>2. Len(Base) \in Nat \ {0} BY BaseIs
  <2> QED BY <2>1, <2>2, AddressSpaceAssumption
<1>2. PICK s : s = api OBVIOUS
<1>3. Stands(s, I, P) /\ s.recording /\ s.next_address + 2 <= AddressSpace /\ Skips(s, u, 1)
  BY <1>1, <1>2 DEF Now
<1>4. Grows(s, P, r.api, P \cup {r.out}, 2) BY <1>3, GrowsCall
<1> QED BY <1>2, <1>4, GrowsKeeps

LEMMA CallsKeep ==
  AllRules /\ Inv /\ (\E op, imm, q : \E a, b \in polys : Call(op, a, b, imm, q)) => Inv'
<1> SUFFICES ASSUME AllRules, Inv, NEW op, NEW imm, NEW q, NEW a \in polys, NEW b \in polys,
                    Call(op, a, b, imm, q)
             PROVE  Inv'
  OBVIOUS
<1>1. running /\ objects < host.max_objects BY DEF Call, MayCall
<1>2. PICK I, P : Now(I, P) BY <1>1, Ready
<1>3. a.p \in P /\ b.p \in P BY <1>2, HandleIn DEF Call
<1>4. PICK u : u = IF op \in ScalarOps THEN from_int(api) ELSE api OBVIOUS
<1>5. PICK m : m = IF op \in InertOps \ {"permute", "automorph_coeff"} THEN None ELSE q OBVIOUS
<1>6. PICK r : r = sr(u, op, a.p, b.p, imm, m) OBVIOUS
<1>7. Makes(r) BY <1>4, <1>5, <1>6 DEF Call
<1>8. r = record(u, op, a.p, b.p, imm, m, m) BY <1>6 DEF sr
<1>9. Records(u, P, r, m) BY <1>3, <1>8 DEF Records
<1>10. Skips(api, u, 1)
  <2>1. Api(api) BY <1>1, Ready
  <2> QED BY <1>4, <2>1, SkipNone
<1> QED BY <1>1, <1>2, <1>7, <1>9, <1>10, CallKeeps

LEMMA AutomorphEvalKeeps ==
  ASSUME AllRules, Inv, NEW x \in polys, NEW k, NEW q, AutomorphEval(x, k, q)
  PROVE  Inv'
<1>1. running /\ objects < host.max_objects BY DEF AutomorphEval, MayCall
<1>2. PICK I, P : Now(I, P) BY <1>1, Ready
<1>3. x.p \in P BY <1>2, HandleIn DEF AutomorphEval
<1>4. PICK u, r : u = api /\ r = sr_automorph_eval(api, x.p, k, q) OBVIOUS
<1>5. Makes(r) BY <1>4 DEF AutomorphEval
<1>6. r = record(u, "automorph_eval", x.p, x.p, k, COPY_SENTINEL, q) BY <1>4 DEF sr_automorph_eval
<1>7. Records(u, P, r, q) BY <1>3, <1>6, PrimesAssumption DEF Records
<1>8. Skips(api, u, 1)
  <2>1. Api(api) BY <1>1, Ready
  <2> QED BY <1>4, <2>1, SkipNone
<1> QED BY <1>1, <1>2, <1>5, <1>7, <1>8, CallKeeps

LEMMA CopyKeeps ==
  ASSUME AllRules, Inv, NEW x \in polys, NEW q \in Primes, Copy(x, q)
  PROVE  Inv'
<1>1. running /\ objects < host.max_objects BY DEF Copy, MayCall
<1>2. PICK I, P : Now(I, P) BY <1>1, Ready
<1>3. x.p \in P BY <1>2, HandleIn DEF Copy
<1>4. PICK s, p, r : s = api /\ p = x.p /\ r = copy_residue(s, p, q) OBVIOUS
<1>5. Makes(r) BY <1>4 DEF Copy
<1>6. s.recording /\ s.next_address + 2 <= AddressSpace /\ Stands(s, I, P)
  <2>1. api.recording /\ api.next_address \in Nat /\ api.next_address + 6 * Len(Base) <= AddressSpace
    BY <1>1, Ready
  <2>2. Len(Base) \in Nat \ {0} BY BaseIs
  <2>3. api.next_address + 2 <= AddressSpace BY <2>1, <2>2, AddressSpaceAssumption
  <2> QED BY <1>2, <1>4, <2>1, <2>3 DEF Now
<1>7. Grows(s, P, r.api, P \cup {r.out}, 2) BY <1>3, <1>4, <1>6, GrowsCopy
<1> QED BY <1>1, <1>2, <1>4, <1>5, <1>7, GrowsKeeps

-----------------------------------------------------------------------------
(* Actions that leave the host's objects as they are *)

(* The session runs on, and the handles stand. *)
Kept(P) ==
  /\ running
  /\ \E J : Stands(api', J, P)
  /\ Books(api', cycle, tagged', P)
  /\ api'.synced = api.synced /\ api'.recording = api.recording
  /\ api'.next_address = api.next_address
  /\ api'.captured_inputs = api.captured_inputs /\ api'.captured_outputs = api.captured_outputs
  /\ \A x \in tagged' : x \in tagged \/ x.cycle = cycle
  /\ UNCHANGED <<host, running, trace, memory, polys, mrps, cycle, dropped, objects>>

LEMMA KeptKeeps ==
  ASSUME Inv, NEW I, NEW P, Now(I, P), Kept(P)
  PROVE  Inv'
<1>1. PICK J : Stands(api', J, P) BY DEF Kept
<1>2. Shape'
  <2>1. Api(api') /\ DOMAIN api'.address_modulus \subseteq 0 .. api'.next_address - 1
    BY <1>1 DEF Stands, Sound, Moduli
  <2>2. /\ host' \in Hosts /\ running' \in BOOLEAN /\ dropped' \in BOOLEAN
        /\ cycle' \in 0 .. host'.max_cycles /\ objects' \in 0 .. host'.max_objects
    BY DEF Inv, Shape, Kept
  <2>3. api'.synced \in BOOLEAN BY DEF Inv, Shape, Kept
  <2>4. api'.next_address <= 6 * Len(Base) * objects' BY DEF Inv, Shape, Kept
  <2> QED BY <2>1, <2>2, <2>3, <2>4 DEF Shape
<1>3. Aged'
  <2>1. cycle \in Nat BY HostsAssumption DEF Inv, Shape
  <2>2. cycle' = cycle /\ polys' = polys /\ mrps' = mrps BY DEF Kept
  <2>3. ASSUME NEW x \in polys' \cup mrps' \cup tagged' PROVE x.cycle \in 0 .. cycle
    <3>1. x \in polys \cup mrps \cup tagged \/ x.cycle = cycle BY <2>2 DEF Kept
    <3> QED BY <2>1, <3>1 DEF Inv, Aged
  <2> QED BY <2>2, <2>3 DEF Aged
<1>4. Uncaptured' BY DEF Inv, Uncaptured, Kept
<1>5. Replayed' BY DEF Inv, Replayed, Kept
<1>6. Now(J, P)'
  <2>1. HandlesOf(cycle', polys', mrps', P) BY DEF Kept, Now
  <2>2. Books(api', cycle', tagged', P) BY DEF Kept
  <2>3. api'.synced = FALSE BY DEF Kept, Inv, Uncaptured
  <2>4. trace' = None BY DEF Kept, Inv, Replayed
  <2> QED BY <1>1, <2>1, <2>2, <2>3, <2>4 DEF Now
<1>7. Standing' BY <1>6 DEF Standing
<1> QED BY <1>2, <1>3, <1>4, <1>5, <1>7 DEF Inv

LEMMA InSession ==
  ASSUME Inv, running
  PROVE  (\E I, P : Now(I, P)) /\ Api(api)
BY DEF Inv, Standing, Shape

LEMMA BindModulusKeeps ==
  ASSUME AllRules, Inv, NEW x \in polys, NEW q, BindModulus(x, q)
  PROVE  Inv'
<1>1. running BY DEF BindModulus
<1>2. PICK I, P : Now(I, P) BY <1>1, InSession
<1>3. x.p \in P BY <1>2, HandleIn DEF BindModulus
<1>4. PICK s, t, A : s = api /\ t = api' /\ A = {x.p.address} OBVIOUS
<1>5. t = remember_modulus(s, A, q) BY <1>4 DEF BindModulus, bind_modulus
<1>6. Stands(s, I, P) /\ Api(s) BY <1>1, <1>2, <1>4, InSession DEF Now
<1>7. A \subseteq 0 .. s.next_address - 1 BY <1>3, <1>4, <1>6 DEF Stands, Sound, Below
<1>8. Stands(t, I, P) BY <1>5, <1>6, <1>7, StandsRemember
<1>9. SameBooks(s, t) /\ t.next_address = s.next_address BY <1>5, <1>6, RememberIs DEF Remembers
<1>10. Books(t, cycle, tagged, P)
  <2>1. PICK c, tg : c = cycle /\ tg = tagged OBVIOUS
  <2>2. Books(s, c, tg, P) BY <1>2, <1>4, <2>1 DEF Now
  <2>3. Books(t, c, tg, P) BY <1>9, <2>2, BooksGrow DEF SameBooks
  <2> QED BY <2>1, <2>3
<1>11. Kept(P)
  <2>1. tagged' = tagged BY DEF BindModulus
  <2>2. /\ api'.synced = api.synced /\ api'.recording = api.recording
        /\ api'.next_address = api.next_address
        /\ api'.captured_inputs = api.captured_inputs /\ api'.captured_outputs = api.captured_outputs
    BY <1>4, <1>9 DEF SameBooks
  <2> QED BY <1>1, <1>4, <1>8, <1>10, <2>1, <2>2 DEF Kept, BindModulus
<1> QED BY <1>2, <1>11, KeptKeeps

(* A tag whose entry has handles of the cycle. *)
LEMMA TagInputKeeps ==
  ASSUME AllRules, Inv, NEW I, NEW P, Now(I, P), NEW e, EntryOf(e, P), NEW hs, TagsAll(e, hs),
         \A h \in hs : h.cycle = cycle, TagInput(e, hs)
  PROVE  Inv'
<1>1. running BY DEF TagInput, MayTag, AllRules
<1>2. PICK s, t : s = api /\ t = api' OBVIOUS
<1>3. t = tag_input(s, e) BY <1>2 DEF TagInput
<1>4. Api(s) /\ Stands(s, I, P) BY <1>1, <1>2, InSession DEF Now
<1>5. /\ Api(t) /\ t.input_registry = Append(s.input_registry, e)
      /\ t.probe_registry = s.probe_registry
      /\ t.next_address = s.next_address /\ t.log = s.log
      /\ t.address_modulus = s.address_modulus
      /\ t.synced = s.synced /\ t.recording = s.recording
      /\ t.captured_inputs = s.captured_inputs /\ t.captured_outputs = s.captured_outputs
  BY <1>3, <1>4, TagInputIs
<1>6. Stands(t, I, P)
  <2>1. s.next_address \in Nat BY <1>4 DEF Api
  <2>2. t.next_address >= s.next_address BY <1>5, <2>1
  <2> QED BY <1>4, <1>5, <2>2, StandsSame
<1>7. Books(t, cycle, tagged', P)
  <2>1. PICK c, tg : c = cycle /\ tg = tagged OBVIOUS
  <2>2. Books(s, c, tg, P) BY <1>2, <2>1 DEF Now
  <2>3. Books(t, c, tg \cup hs, P) BY <1>5, <2>2, BooksInput
  <2> QED BY <2>1, <2>3 DEF TagInput
<1>8. Kept(P)
  <2>1. \A x \in tagged' : x \in tagged \/ x.cycle = cycle BY DEF TagInput
  <2>2. /\ api'.synced = api.synced /\ api'.recording = api.recording
        /\ api'.next_address = api.next_address
        /\ api'.captured_inputs = api.captured_inputs /\ api'.captured_outputs = api.captured_outputs
    BY <1>2, <1>5
  <2> QED BY <1>1, <1>2, <1>6, <1>7, <2>1, <2>2 DEF Kept, TagInput
<1> QED BY <1>8, KeptKeeps

LEMMA TagOutputKeeps ==
  ASSUME AllRules, Inv, NEW I, NEW P, Now(I, P), NEW e, EntryOf(e, P), TagOutput(e)
  PROVE  Inv'
<1>1. running BY DEF TagOutput, MayTag, AllRules
<1>2. PICK s, t : s = api /\ t = api' OBVIOUS
<1>3. t = tag_output(s, e) BY <1>2 DEF TagOutput
<1>4. Api(s) /\ Stands(s, I, P) BY <1>1, <1>2, InSession DEF Now
<1>5. /\ Api(t) /\ t.probe_registry = Append(s.probe_registry, e)
      /\ t.input_registry = s.input_registry
      /\ t.next_address = s.next_address /\ t.log = s.log
      /\ t.address_modulus = s.address_modulus
      /\ t.synced = s.synced /\ t.recording = s.recording
      /\ t.captured_inputs = s.captured_inputs /\ t.captured_outputs = s.captured_outputs
  BY <1>3, <1>4, TagOutputIs
<1>6. Stands(t, I, P)
  <2>1. s.next_address \in Nat BY <1>4 DEF Api
  <2>2. t.next_address >= s.next_address BY <1>5, <2>1
  <2> QED BY <1>4, <1>5, <2>2, StandsSame
<1>7. Books(t, cycle, tagged, P)
  <2>1. PICK c, tg : c = cycle /\ tg = tagged OBVIOUS
  <2>2. Books(s, c, tg, P) BY <1>2, <2>1 DEF Now
  <2>3. Books(t, c, tg, P) BY <1>5, <2>2, BooksOutput
  <2> QED BY <2>1, <2>3
<1>8. Kept(P)
  <2>1. tagged' = tagged BY DEF TagOutput
  <2>2. /\ api'.synced = api.synced /\ api'.recording = api.recording
        /\ api'.next_address = api.next_address
        /\ api'.captured_inputs = api.captured_inputs /\ api'.captured_outputs = api.captured_outputs
    BY <1>2, <1>5
  <2> QED BY <1>1, <1>2, <1>6, <1>7, <2>1, <2>2 DEF Kept, TagOutput
<1> QED BY <1>8, KeptKeeps

LEMMA TagInputsKeep ==
  ASSUME AllRules, Inv, NEW name, TagInputs(name)
  PROVE  Inv'
<1>0. running BY DEF TagInputs, TagInput, MayTag, AllRules
<1>1. PICK I, P : Now(I, P) BY <1>0, InSession
<1>2. \A x : Usable(x) => x.cycle = cycle BY DEF Usable, AllRules
<1>3. ASSUME NEW x \in polys, Usable(x), TagInput(OfPolynomial(name, x.p), {x}) PROVE Inv'
  <2>1. PICK e, hs : e = OfPolynomial(name, x.p) /\ hs = {x} OBVIOUS
  <2>2. x.p \in P BY <1>1, <1>3, HandleIn
  <2>3. EntryOf(e, P) /\ x.p \in Polys(e) BY <2>1, <2>2, EntryPolynomial
  <2>4. TagsAll(e, hs) /\ \A h \in hs : h.cycle = cycle BY <1>2, <1>3, <2>1, <2>3 DEF TagsAll
  <2>5. TagInput(e, hs) BY <1>3, <2>1
  <2> QED BY <1>1, <2>3, <2>4, <2>5, TagInputKeeps
<1>4. ASSUME NEW x \in polys, NEW y \in polys, Usable(x), Usable(y),
             TagInput(OfSRPArray(name, <<x.p, y.p>>), {x, y})
      PROVE  Inv'
  <2>1. PICK e, hs : e = OfSRPArray(name, <<x.p, y.p>>) /\ hs = {x, y} OBVIOUS
  <2>2. x.p \in P /\ y.p \in P BY <1>1, <1>4, HandleIn
  <2>3. EntryOf(e, P) /\ x.p \in Polys(e) /\ y.p \in Polys(e) BY <2>1, <2>2, EntrySRPArray
  <2>4. TagsAll(e, hs) /\ \A h \in hs : h.cycle = cycle BY <1>2, <1>4, <2>1, <2>3 DEF TagsAll
  <2>5. TagInput(e, hs) BY <1>4, <2>1
  <2> QED BY <1>1, <2>3, <2>4, <2>5, TagInputKeeps
<1>5. ASSUME NEW x \in mrps, Usable(x), NEW e, ResiduesAre(e.residues, x.p), TagInput(e, ResiduesOf(x))
      PROVE  Inv'
  <2>1. PICK m, hs : m = x.p /\ hs = ResiduesOf(x) OBVIOUS
  <2>2. MRPIn(m, P) BY <1>1, <1>5, <2>1, HandleIn
  <2>3. EntryOf(e, P) /\ \A q \in DOMAIN m.res : m.res[q] \in Polys(e)
    BY <1>5, <2>1, <2>2, EntryResidues
  <2>4. ASSUME NEW h \in hs PROVE h.cycle = cycle /\ h.p \in Polys(e)
    <3>1. PICK q \in DOMAIN m.res : h = [cycle |-> x.cycle, p |-> m.res[q]]
      BY <2>1 DEF ResiduesOf
    <3>2. h.cycle = x.cycle /\ h.p = m.res[q] BY <3>1
    <3> QED BY <1>2, <1>5, <2>3, <3>2
  <2>5. TagsAll(e, hs) /\ \A h \in hs : h.cycle = cycle BY <2>4 DEF TagsAll
  <2>6. TagInput(e, hs) BY <1>5, <2>1
  <2> QED BY <1>1, <2>3, <2>5, <2>6, TagInputKeeps
<1>6. ASSUME NEW x \in mrps, Usable(x), TagInput(OfMRP(name, x.p), ResiduesOf(x)) PROVE Inv'
  <2>1. PICK e, m : e = OfMRP(name, m) /\ m = x.p OBVIOUS
  <2>2. MRPIn(m, P) BY <1>1, <1>6, <2>1, HandleIn
  <2>3. ResiduesAre(e.residues, m) BY <2>1, <2>2, EntryMRP
  <2> QED BY <1>5, <1>6, <2>1, <2>3
<1>7. ASSUME NEW x \in mrps, Usable(x), TagInput(OfMRPArray(name, <<x.p>>), ResiduesOf(x)) PROVE Inv'
  <2>1. PICK e, m : e = OfMRPArray(name, <<m>>) /\ m = x.p OBVIOUS
  <2>2. MRPIn(m, P) BY <1>1, <1>7, <2>1, HandleIn
  <2>3. ResiduesAre(e.residues, m) BY <2>1, <2>2, EntryMRPArray
  <2> QED BY <1>5, <1>7, <2>1, <2>3
<1> QED BY <1>3, <1>4, <1>6, <1>7 DEF TagInputs

LEMMA TagOutputsKeep ==
  ASSUME AllRules, Inv, NEW name, TagOutputs(name)
  PROVE  Inv'
<1>0. running BY DEF TagOutputs, TagOutput, MayTag, AllRules
<1>1. PICK I, P : Now(I, P) BY <1>0, InSession
<1>3. ASSUME NEW x \in polys, Usable(x), TagOutput(OfPolynomial(name, x.p)) PROVE Inv'
  <2>1. PICK e : e = OfPolynomial(name, x.p) OBVIOUS
  <2>2. x.p \in P BY <1>1, <1>3, HandleIn
  <2>3. EntryOf(e, P) BY <2>1, <2>2, EntryPolynomial
  <2> QED BY <1>1, <1>3, <2>1, <2>3, TagOutputKeeps
<1>4. ASSUME NEW x \in polys, NEW y \in polys, Usable(x), Usable(y),
             TagOutput(OfSRPArray(name, <<x.p, y.p>>))
      PROVE  Inv'
  <2>1. PICK e : e = OfSRPArray(name, <<x.p, y.p>>) OBVIOUS
  <2>2. x.p \in P /\ y.p \in P BY <1>1, <1>4, HandleIn
  <2>3. EntryOf(e, P) BY <2>1, <2>2, EntrySRPArray
  <2> QED BY <1>1, <1>4, <2>1, <2>3, TagOutputKeeps
<1>5. ASSUME NEW x \in mrps, Usable(x), NEW e, ResiduesAre(e.residues, x.p), TagOutput(e)
      PROVE  Inv'
  <2>1. PICK m : m = x.p OBVIOUS
  <2>2. MRPIn(m, P) BY <1>1, <1>5, <2>1, HandleIn
  <2>3. EntryOf(e, P) BY <1>5, <2>1, <2>2, EntryResidues
  <2> QED BY <1>1, <1>5, <2>3, TagOutputKeeps
<1>6. ASSUME NEW x \in mrps, Usable(x), TagOutput(OfMRP(name, x.p)) PROVE Inv'
  <2>1. PICK e, m : e = OfMRP(name, m) /\ m = x.p OBVIOUS
  <2>2. MRPIn(m, P) BY <1>1, <1>6, <2>1, HandleIn
  <2>3. ResiduesAre(e.residues, m) BY <2>1, <2>2, EntryMRP
  <2> QED BY <1>5, <1>6, <2>1, <2>3
<1>7. ASSUME NEW x \in mrps, Usable(x), TagOutput(OfMRPArray(name, <<x.p>>)) PROVE Inv'
  <2>1. PICK e, m : e = OfMRPArray(name, <<m>>) /\ m = x.p OBVIOUS
  <2>2. MRPIn(m, P) BY <1>1, <1>7, <2>1, HandleIn
  <2>3. ResiduesAre(e.residues, m) BY <2>1, <2>2, EntryMRPArray
  <2> QED BY <1>5, <1>7, <2>1, <2>3
<1> QED BY <1>3, <1>4, <1>6, <1>7 DEF TagOutputs

-----------------------------------------------------------------------------
(* Multi-residue polynomials *)

LEMMA GrowsWider ==
  ASSUME NEW s, s.next_address \in Nat, NEW P, NEW m, NEW n \in Nat, NEW k \in Nat, n <= k,
         GrowsMRP(s, P, m, n)
  PROVE  GrowsMRP(s, P, m, k)
<1>1. PICK Q : Grows(s, P, m.api, Q, n) /\ MRPIn(m.out, Q) BY DEF GrowsMRP
<1>2. m.api.next_address \in Nat BY <1>1 DEF Grows, Stands, Sound, Api
<1>3. Grows(s, P, m.api, Q, k) BY <1>1, <1>2 DEF Grows
<1> QED BY <1>1, <1>3 DEF GrowsMRP

LEMMA FromPairsKeeps ==
  ASSUME AllRules, Inv, NEW f \in [ToSet(Base) -> polys], FromPairs(f)
  PROVE  Inv'
<1>1. running /\ objects < host.max_objects BY DEF FromPairs, MayMake, AllRules
<1>2. PICK I, P : Now(I, P) BY <1>1, Ready
<1>3. PICK s, res, r : s = api /\ res = [q \in ToSet(Base) |-> f[q].p] /\ r = Returns(s, MRP(Base, res))
  OBVIOUS
<1>4. MakesMRP(r) BY <1>3 DEF FromPairs
<1>5. r.api = s /\ r.out.base = Base /\ r.out.res = res BY <1>3 DEF Returns, MRP
<1>6. Stands(s, I, P) /\ Api(s) BY <1>1, <1>2, <1>3, Ready DEF Now
<1>7. ASSUME NEW q \in ToSet(Base) PROVE res[q] \in P /\ res[q].q \in {None, q}
  <2>1. PICK h : h = f[q] OBVIOUS
  <2>2. h \in polys /\ Usable(h) /\ h.p.data # None BY <2>1 DEF FromPairs
  <2>3. h.p \in P BY <1>2, <2>2, HandleIn
  <2>4. h.p.q = None BY <1>6, <2>2, <2>3 DEF Stands
  <2>5. res[q] = h.p BY <1>3, <2>1
  <2> QED BY <2>3, <2>4, <2>5
<1>8. MRPIn(r.out, P) BY <1>3, <1>5, <1>7 DEF MRPIn
<1>9. Skips(s, s, 1) BY <1>6, SkipNone
<1>10. Grows(s, P, r.api, P, 1) BY <1>5, <1>6, <1>9, GrowsSkip
<1>11. GrowsMRP(s, P, r, 1) BY <1>8, <1>10 DEF GrowsMRP
<1>12. GrowsMRP(s, P, r, 6 * Len(Base))
  <2>1. s.next_address \in Nat BY <1>6 DEF Api
  <2>2. PICK k : k = 6 * Len(Base) OBVIOUS
  <2>3. 1 \in Nat /\ k \in Nat /\ 1 <= k BY <2>2, BaseIs
  <2>4. GrowsMRP(s, P, r, k) BY <1>11, <2>1, <2>3, GrowsWider
  <2> QED BY <2>2, <2>4
<1> QED BY <1>1, <1>2, <1>3, <1>4, <1>12, MakesMRPKeeps

(* Calls that take fewer addresses than a dot product. *)
LEMMA MRPCallKeeps ==
  ASSUME Inv, running, objects < host.max_objects, NEW I, NEW P, Now(I, P),
         NEW s, s = api, NEW r, MakesMRP(r), NEW n \in 0 .. 6, GrowsMRP(s, P, r, n * Len(Base))
  PROVE  Inv'
<1>1. s.next_address \in Nat BY Ready
<1>2. PICK j, k : j = n * Len(Base) /\ k = 6 * Len(Base) OBVIOUS
<1>3. j \in Nat /\ k \in Nat /\ j <= k
  <2>1. Len(Base) \in Nat BY BaseIs
  <2>2. n = 0 \/ n = 1 \/ n = 2 \/ n = 3 \/ n = 4 \/ n = 5 \/ n = 6 OBVIOUS
  <2> QED BY <1>2, <2>1, <2>2
<1>4. GrowsMRP(s, P, r, k) BY <1>1, <1>2, <1>3, GrowsWider
<1> QED BY <1>2, <1>4, MakesMRPKeeps

LEMMA MultiCallKeeps ==
  ASSUME AllRules, Inv, NEW op, NEW x \in mrps, NEW y \in mrps, NEW imm, MultiCall(op, x, y, imm)
  PROVE  Inv'
<1>1. running /\ objects < host.max_objects BY DEF MultiCall, MayCall
<1>2. PICK I, P : Now(I, P) BY <1>1, Ready
<1>3. PICK s, L : s = api /\ L = Len(Base) OBVIOUS
<1>4. PICK u : u = IF op \in ScalarOps THEN [s EXCEPT !.next_address = @ + L] ELSE s OBVIOUS
<1>5. PICK v, w : v = x.p /\ w = y.p OBVIOUS
<1>6. PICK r : r = mr(u, op, v, w, imm) OBVIOUS
<1>7. MakesMRP(r) BY <1>3, <1>4, <1>5, <1>6 DEF MultiCall
<1>8. MRPIn(v, P) /\ MRPIn(w, P) BY <1>2, <1>5, HandleIn DEF MultiCall
<1>9. /\ s.recording /\ Api(s) /\ s.next_address \in Nat /\ L \in Nat
      /\ s.next_address + 6 * L <= AddressSpace /\ Stands(s, I, P)
  BY <1>1, <1>2, <1>3, Ready, BaseIs DEF Now
<1>10. Skips(s, u, L)
  <2>1. CASE op \in ScalarOps
    <3>1. u = [s EXCEPT !.next_address = s.next_address + L] BY <1>4, <2>1
    <3>2. DOMAIN s = Fields /\ IsSeq(s.log) BY <1>9 DEF Api
    <3>3. PICK a : a = s.next_address + L OBVIOUS
    <3>4. DOMAIN u = Fields /\ u.log = s.log /\ u.address_modulus = s.address_modulus
          /\ u.next_address = a
      BY <3>1, <3>2, <3>3 DEF Fields
    <3>5. SameBooks(s, u) BY <3>1, <3>2, <3>3 DEF SameBooks, Fields
    <3>6. a \in Nat /\ a >= s.next_address /\ a <= s.next_address + L BY <1>9, <3>3
    <3>7. Api(u) BY <3>2, <3>4, <3>6 DEF Api
    <3> QED BY <3>4, <3>5, <3>6, <3>7 DEF Skips
  <2>2. CASE op \notin ScalarOps
    <3>1. u = s BY <1>4, <2>2
    <3>2. s.next_address >= s.next_address /\ s.next_address <= s.next_address + L BY <1>9
    <3>3. Skips(s, s, L) BY <1>9, <3>2 DEF Skips, SameBooks
    <3> QED BY <3>1, <3>3
  <2> QED BY <2>1, <2>2
<1>11. Stands(u, I, P) /\ Grows(s, P, u, P, L) BY <1>9, <1>10, GrowsSkip
<1>12. u.recording /\ u.next_address + 2 * Len(Base) <= AddressSpace
  <2>1. u.next_address \in Nat BY <1>11 DEF Stands, Sound, Api
  <2>2. SameBooks(s, u) /\ u.next_address <= s.next_address + L BY <1>10 DEF Skips
  <2>3. u.next_address + 2 * L <= AddressSpace BY <1>9, <2>1, <2>2, AddressSpaceAssumption
  <2> QED BY <1>3, <1>9, <2>2, <2>3 DEF SameBooks
<1>13. GrowsMRP(u, P, r, 2 * Len(Base)) BY <1>6, <1>8, <1>11, <1>12, MrIs
<1>14. PICK Q : Grows(u, P, r.api, Q, 2 * L) /\ MRPIn(r.out, Q) BY <1>3, <1>13 DEF GrowsMRP
<1>15. PICK k : k = 2 * L OBVIOUS
<1>16. k \in Nat /\ L + k = 3 * Len(Base) BY <1>3, <1>9, <1>15
<1>17. Grows(s, P, r.api, Q, L + k) BY <1>9, <1>11, <1>14, <1>15, <1>16, GrowsBoth
<1>18. GrowsMRP(s, P, r, 3 * Len(Base)) BY <1>14, <1>16, <1>17 DEF GrowsMRP
<1>19. PICK n \in 0 .. 6 : n = 3 OBVIOUS
<1>20. GrowsMRP(s, P, r, n * Len(Base)) BY <1>18, <1>19
<1> QED BY <1>1, <1>2, <1>3, <1>7, <1>20, MRPCallKeeps

LEMMA MultiAutomorphEvalKeeps ==
  ASSUME AllRules, Inv, NEW x \in mrps, NEW k, MultiAutomorphEval(x, k)
  PROVE  Inv'
<1>1. running /\ objects < host.max_objects BY DEF MultiAutomorphEval, MayCall
<1>2. PICK I, P : Now(I, P) BY <1>1, Ready
<1>3. PICK s, v, r : s = api /\ v = x.p /\ r = mr_automorph_eval(s, v, k) OBVIOUS
<1>4. MakesMRP(r) BY <1>3 DEF MultiAutomorphEval
<1>5. MRPIn(v, P) BY <1>2, <1>3, HandleIn DEF MultiAutomorphEval
<1>6. /\ s.recording /\ s.next_address \in Nat /\ s.next_address + 6 * Len(Base) <= AddressSpace
      /\ Stands(s, I, P)
  BY <1>1, <1>2, <1>3, Ready DEF Now
<1>7. s.next_address + 2 * Len(Base) <= AddressSpace BY <1>6, BaseIs, AddressSpaceAssumption
<1>8. GrowsMRP(s, P, r, 2 * Len(Base)) BY <1>3, <1>5, <1>6, <1>7, MrAutomorphIs
<1>9. PICK n \in 0 .. 6 : n = 2 OBVIOUS
<1>10. GrowsMRP(s, P, r, n * Len(Base)) BY <1>8, <1>9
<1> QED BY <1>1, <1>2, <1>3, <1>4, <1>10, MRPCallKeeps

LEMMA DotProductKeeps ==
  ASSUME AllRules, Inv, NEW x \in mrps, NEW y \in mrps, DotProduct(x, y)
  PROVE  Inv'
<1>1. running /\ objects < host.max_objects BY DEF DotProduct, MayCall
<1>2. PICK I, P : Now(I, P) BY <1>1, Ready
<1>3. PICK s, v, w, r : s = api /\ v = x.p /\ w = y.p /\ r = mrpa_dotproduct(s, <<v, w>>, <<w, v>>)
  OBVIOUS
<1>4. MakesMRP(r) BY <1>3 DEF DotProduct
<1>5. MRPIn(v, P) /\ MRPIn(w, P) BY <1>2, <1>3, HandleIn DEF DotProduct
<1>6. /\ s.recording /\ s.next_address + 6 * Len(Base) <= AddressSpace /\ Stands(s, I, P)
  BY <1>1, <1>2, <1>3, Ready DEF Now
<1>7. GrowsMRP(s, P, r, 6 * Len(Base)) BY <1>3, <1>5, <1>6, DotIs
<1>8. PICK n \in 0 .. 6 : n = 6 OBVIOUS
<1>9. GrowsMRP(s, P, r, n * Len(Base)) BY <1>7, <1>8
<1> QED BY <1>1, <1>2, <1>3, <1>4, <1>9, MRPCallKeeps

-----------------------------------------------------------------------------
(* The compiler's session *)

LEMMA StartKeeps ==
  ASSUME AllRules, Inv, Start
  PROVE  Inv'
<1>1. PICK s, t : s = api /\ t = api' OBVIOUS
<1>2. DOMAIN s = Fields BY <1>1 DEF Inv, Shape, Api
<1>3. t = [reset_for_epoch(s) EXCEPT !.log = <<>>, !.comments = <<>>, !.recording = TRUE]
  BY <1>1 DEF Start
<1>4. /\ DOMAIN t = Fields /\ t.next_address = 0 /\ t.log = <<>> /\ t.address_modulus = <<>>
      /\ t.input_registry = <<>> /\ t.probe_registry = <<>> /\ t.synced = FALSE
      /\ t.recording = TRUE
      /\ t.captured_inputs = s.captured_inputs /\ t.captured_outputs = s.captured_outputs
  BY <1>2, <1>3 DEF reset_for_epoch, Fields
<1>5. s.captured_inputs = <<>> /\ s.captured_outputs = <<>> BY <1>1 DEF Start, AllRules
<1>6. Stands(t, {}, {}) BY <1>4, StandsNew
<1>7. cycle \in Nat /\ cycle' = cycle + 1 /\ cycle < host.max_cycles /\ host \in Hosts
      /\ host.max_cycles \in Nat /\ objects \in Nat
  BY HostsAssumption DEF Inv, Shape, Start
<1>8. Shape'
  <2>1. Api(t) /\ DOMAIN t.address_modulus \subseteq 0 .. t.next_address - 1
    BY <1>6 DEF Stands, Sound, Moduli
  <2>2. t.next_address <= 6 * Len(Base) * objects
    <3>1. PICK K \in Nat : K = 6 * Len(Base) BY BaseIs
    <3>2. PICK n \in Nat : n = objects BY <1>7
    <3>3. K * n \in Nat OBVIOUS
    <3> QED BY <1>4, <3>1, <3>2, <3>3
  <2>3. /\ host' \in Hosts /\ running' \in BOOLEAN /\ dropped' \in BOOLEAN
        /\ objects' \in 0 .. host'.max_objects
    BY DEF Inv, Shape, Start
  <2>4. cycle' \in 0 .. host'.max_cycles
    <3>1. cycle + 1 \in 0 .. host.max_cycles BY <1>7
    <3> QED BY <1>7, <3>1 DEF Start
  <2>5. api'.synced \in BOOLEAN BY <1>1, <1>4
  <2>6. api'.next_address <= 6 * Len(Base) * objects' BY <1>1, <2>2 DEF Start
  <2> QED BY <1>1, <2>1, <2>3, <2>4, <2>5, <2>6 DEF Shape
<1>9. \A x \in polys \cup mrps \cup tagged : x.cycle \in 0 .. cycle' /\ x.cycle # cycle'
  BY <1>7 DEF Inv, Aged
<1>10. Aged' BY <1>9 DEF Aged, Start
<1>11. Uncaptured' BY <1>1, <1>4, <1>5 DEF Uncaptured
<1>12. Replayed' BY DEF Replayed, Start
<1>13. Now({}, {})'
  <2>1. HandlesOf(cycle', polys', mrps', {}) BY <1>9 DEF HandlesOf, Start
  <2>2. IsSeq(<<>>) /\ DOMAIN <<>> = {}
    <3>1. <<>> \in Seq({}) OBVIOUS
    <3> QED BY <3>1 DEF IsSeq
  <2>3. Books(t, cycle', tagged', {}) BY <1>4, <1>9, <2>2 DEF Books, Start
  <2>4. api'.synced = FALSE BY <1>1, <1>4
  <2>5. trace' = None BY DEF Start
  <2> QED BY <1>1, <1>6, <2>1, <2>3, <2>4, <2>5 DEF Now
<1>14. Standing' BY <1>13 DEF Standing
<1> QED BY <1>8, <1>10, <1>11, <1>12, <1>14 DEF Inv

LEMMA StopKeeps ==
  ASSUME AllRules, Inv, Stop
  PROVE  Inv'
<1>1. running BY DEF Stop
<1>2. PICK I, P : Now(I, P) BY <1>1, InSession
<1>3. PICK s, y, t : s = api /\ t = api' /\ y = sync_fhetch_state_to_compiler(s) OBVIOUS
<1>4. t = [halt(y) EXCEPT !.recording = FALSE] BY <1>3 DEF Stop
<1>5. /\ Stands(s, I, P) /\ s.recording /\ s.synced = FALSE
      /\ s.captured_inputs = <<>> /\ s.captured_outputs = <<>>
  BY <1>1, <1>2, <1>3 DEF Now, Inv, Uncaptured
<1>6. PICK c, tg : c = cycle /\ tg = tagged OBVIOUS
<1>7. Books(s, c, tg, P) BY <1>2, <1>3, <1>6 DEF Now
<1>8. Captured(y, P) BY <1>3, <1>5, <1>7, SyncModuli
<1>9. /\ Stands(t, I, P) /\ Captured(t, P)
      /\ t.input_registry = s.input_registry /\ t.probe_registry = s.probe_registry
      /\ t.synced = TRUE /\ t.captured_inputs = y.captured_inputs
      /\ t.next_address = s.next_address
  <2>1. Stopped(s, y, t, I, P) BY <1>3, <1>4, <1>5, <1>8, StopIs
  <2> QED BY <2>1 DEF Stopped
<1>10. SameKinds(s.input_registry) => Agrees(Loaded(t.captured_inputs), I)
  <2> SUFFICES ASSUME SameKinds(s.input_registry) PROVE Agrees(Loaded(t.captured_inputs), I)
    OBVIOUS
  <2>1. \A p \in P : p.data # None => [cycle |-> c, p |-> p] \in tg
    <3>1. ASSUME NEW p \in P, p.data # None PROVE [cycle |-> c, p |-> p] \in tg
      <4>1. PICK h : h = [cycle |-> c, p |-> p] OBVIOUS
      <4>2. h \in polys BY <1>2, <1>6, <3>1, <4>1 DEF Now, HandlesOf
      <4>3. h.p = p BY <4>1
      <4>4. h \in tagged BY <3>1, <4>2, <4>3 DEF Stop, AllTagged
      <4> QED BY <1>6, <4>1, <4>4
    <3> QED BY <3>1
  <2>2. TypedBooks(s)
    <3>1. \A e \in ToSet(s.input_registry) : \A r \in ToSet(Tagged(s, e)) : r.modulus # None
      BY <1>3 DEF Stop, AllRules, AllTyped
    <3>2. ASSUME NEW i \in 1 .. Len(s.input_registry),
                 NEW j \in 1 .. Len(Tagged(s, s.input_registry[i]))
          PROVE  Tagged(s, s.input_registry[i])[j].modulus # None
      <4>1. PICK reg, e, rs : reg = s.input_registry /\ e = reg[i] /\ rs = Tagged(s, e) OBVIOUS
      <4>2. IsSeq(reg) /\ i \in DOMAIN reg /\ EntryOf(e, P)
        BY <1>7, <4>1, SeqFacts DEF Books
      <4>3. e \in ToSet(reg) BY <4>1, <4>2 DEF ToSet
      <4>4. IsSeq(e.residues) BY <4>2 DEF EntryOf
      <4>5. IsSeq(rs) BY <4>1, <4>4, TaggedIs
      <4>6. j \in DOMAIN rs BY <4>1, <4>5, SeqFacts
      <4>7. rs[j] \in ToSet(rs) BY <4>6 DEF ToSet
      <4> QED BY <3>1, <4>1, <4>3, <4>7
    <3> QED BY <3>2 DEF TypedBooks
  <2>3. Agrees(Loaded(y.captured_inputs), I)
    BY <1>3, <1>5, <1>7, <2>1, <2>2, SyncInputs
  <2> QED BY <1>9, <2>3
<1>11. Shape'
  <2>1. Api(t) /\ DOMAIN t.address_modulus \subseteq 0 .. t.next_address - 1
    BY <1>9 DEF Stands, Sound, Moduli
  <2>2. /\ host' \in Hosts /\ running' \in BOOLEAN /\ dropped' \in BOOLEAN
        /\ cycle' \in 0 .. host'.max_cycles /\ objects' \in 0 .. host'.max_objects
    BY DEF Inv, Shape, Stop
  <2>3. api'.synced \in BOOLEAN BY <1>3, <1>9
  <2>4. api'.next_address <= 6 * Len(Base) * objects' BY <1>3, <1>9 DEF Inv, Shape, Stop
  <2> QED BY <1>3, <2>1, <2>2, <2>3, <2>4 DEF Shape
<1>12. Aged' BY DEF Inv, Aged, Stop
<1>13. Uncaptured' BY DEF Uncaptured, Stop
<1>14. Replayed'
  <2>1. api'.synced BY <1>3, <1>9
  <2>2. memory' = None BY <1>1 DEF Stop, Inv, Replayed
  <2>3. ~running' /\ trace' = api'.log BY DEF Stop
  <2> QED BY <2>1, <2>2, <2>3 DEF Replayed
<1>15. Now(I, P)'
  <2>1. HandlesOf(cycle', polys', mrps', P) BY <1>2 DEF Now, Stop
  <2>2. Books(t, c, tg, P) BY <1>7, <1>9, BooksGrow
  <2>3. Books(api', cycle', tagged', P) BY <1>3, <1>6, <2>2 DEF Stop
  <2>4. SameKinds(api'.input_registry) => Agrees(Loaded(api'.captured_inputs), I)
    BY <1>3, <1>9, <1>10
  <2>5. Stands(api', I, P) /\ Captured(api', P) BY <1>3, <1>9
  <2> QED BY <2>1, <2>3, <2>4, <2>5 DEF Now
<1>16. Standing' BY <1>15 DEF Standing
<1> QED BY <1>11, <1>12, <1>13, <1>14, <1>16 DEF Inv

LEMMA ReplayKeeps ==
  ASSUME AllRules, Inv, Replay
  PROVE  Inv'
<1>1. api.synced BY DEF Inv, Replayed, Replay
<1>2. api' = api BY <1>1 DEF Replay, sync_fhetch_state_to_compiler
<1>3. UNCHANGED <<host, running, trace, polys, mrps, tagged, cycle, dropped, objects>> BY DEF Replay
<1>4. Shape' BY <1>2, <1>3 DEF Inv, Shape
<1>5. Aged' BY <1>3 DEF Inv, Aged
<1>6. Uncaptured' BY <1>2, <1>3 DEF Inv, Uncaptured
<1>7. Standing'
  <2>1. PICK I, P : Now(I, P) BY <1>1 DEF Inv, Standing
  <2>2. Now(I, P)' BY <1>2, <1>3, <2>1 DEF Now
  <2> QED BY <2>2 DEF Standing
<1>8. Replayed'
  <2>1. memory' = Run(Loaded(api'.captured_inputs), trace') /\ trace' # None /\ ~dropped'
    BY <1>3 DEF Replay
  <2>2. api'.synced /\ ~running' /\ api'.log = trace' BY <1>2, <1>3 DEF Inv, Replayed, Replay
  <2> QED BY <2>1, <2>2 DEF Replayed
<1> QED BY <1>4, <1>5, <1>6, <1>7, <1>8 DEF Inv

LEMMA ClearCapturedKeeps ==
  ASSUME AllRules, Inv, ClearCaptured
  PROVE  Inv'
<1>1. PICK s, t : s = api /\ t = api' OBVIOUS
<1>2. Api(s) BY <1>1 DEF Inv, Shape
<1>3. t = [s EXCEPT !.captured_inputs = <<>>, !.captured_outputs = <<>>]
  BY <1>1 DEF ClearCaptured
<1>4. /\ Api(t) /\ t.next_address = s.next_address /\ t.log = s.log
      /\ t.address_modulus = s.address_modulus /\ t.synced = s.synced
      /\ t.input_registry = s.input_registry /\ t.probe_registry = s.probe_registry
      /\ t.captured_inputs = <<>> /\ t.captured_outputs = <<>>
  BY <1>2, <1>3 DEF Api, Fields
<1>5. UNCHANGED <<host, running, trace, polys, mrps, tagged, cycle, objects>> /\ dropped'
      /\ memory' = None /\ ~running
  BY DEF ClearCaptured
<1>6. Shape'
  <2>1. DOMAIN t.address_modulus \subseteq 0 .. t.next_address - 1 BY <1>1, <1>4 DEF Inv, Shape
  <2>2. /\ host' \in Hosts /\ running' \in BOOLEAN
        /\ cycle' \in 0 .. host'.max_cycles /\ objects' \in 0 .. host'.max_objects
    BY <1>5 DEF Inv, Shape
  <2>3. api'.synced \in BOOLEAN BY <1>1, <1>4 DEF Inv, Shape
  <2>4. api'.next_address <= 6 * Len(Base) * objects' BY <1>1, <1>4, <1>5 DEF Inv, Shape
  <2>5. dropped' \in BOOLEAN BY DEF ClearCaptured
  <2> QED BY <1>1, <1>4, <2>1, <2>2, <2>3, <2>4, <2>5 DEF Shape
<1>7. Aged' BY <1>5 DEF Inv, Aged
<1>8. Uncaptured' BY <1>5 DEF Uncaptured
<1>9. Replayed' BY <1>1, <1>4, <1>5 DEF Inv, Replayed
<1>10. Standing'
  <2> SUFFICES ASSUME running' \/ api'.synced PROVE \E I, P : Now(I, P)' BY DEF Standing
  <2>1. PICK I, P : Now(I, P) BY <1>1, <1>4, <1>5 DEF Inv, Standing
  <2>2. Stands(t, I, P)
    <3>1. Stands(s, I, P) BY <1>1, <2>1 DEF Now
    <3>2. t.next_address >= s.next_address BY <1>2, <1>4 DEF Api
    <3> QED BY <1>4, <3>1, <3>2, StandsSame
  <2>3. Books(api', cycle', tagged', P)
    <3>1. PICK c, tg : c = cycle /\ tg = tagged OBVIOUS
    <3>2. Books(s, c, tg, P) BY <1>1, <2>1, <3>1 DEF Now
    <3>3. Books(t, c, tg, P) BY <1>4, <3>2, BooksGrow
    <3> QED BY <1>1, <1>5, <3>1, <3>3
  <2>4. HandlesOf(cycle', polys', mrps', P) BY <1>5, <2>1 DEF Now
  <2>5. Captured(t, P) BY <1>4, NoElems DEF Captured
  <2>6. Now(I, P)' BY <1>1, <1>5, <2>2, <2>3, <2>4, <2>5 DEF Now
  <2> QED BY <2>6
<1> QED BY <1>6, <1>7, <1>8, <1>9, <1>10 DEF Inv

LEMMA ResetKeeps ==
  ASSUME AllRules, Inv, Reset
  PROVE  Inv'
<1>1. PICK s, t : s = api /\ t = api' OBVIOUS
<1>2. Api(s) BY <1>1 DEF Inv, Shape
<1>3. t = [clear_recording_registries(s) EXCEPT
             !.captured_inputs = <<>>, !.captured_outputs = <<>>, !.log = <<>>, !.comments = <<>>]
  BY <1>1 DEF Reset
<1>4. /\ DOMAIN t = Fields /\ t.next_address = s.next_address /\ t.log = <<>>
      /\ t.address_modulus = <<>> /\ t.synced = FALSE
  BY <1>2, <1>3 DEF Api, Fields, clear_recording_registries
<1>5. Api(t) /\ DOMAIN t.address_modulus = {}
  <2>1. <<>> \in Seq({}) /\ DOMAIN <<>> = {} OBVIOUS
  <2> QED BY <1>2, <1>4, <2>1 DEF Api, IsSeq
<1>6. Shape'
  <2>1. /\ host' \in Hosts /\ running' \in BOOLEAN /\ dropped' \in BOOLEAN
        /\ cycle' \in 0 .. host'.max_cycles /\ objects' \in 0 .. host'.max_objects
    BY DEF Inv, Shape, Reset
  <2>2. api'.next_address <= 6 * Len(Base) * objects' BY <1>1, <1>4 DEF Inv, Shape, Reset
  <2>3. api'.synced \in BOOLEAN BY <1>1, <1>4
  <2> QED BY <1>1, <1>5, <2>1, <2>2, <2>3 DEF Shape
<1>7. Aged' BY DEF Inv, Aged, Reset
<1>8. Uncaptured' /\ Replayed' BY DEF Uncaptured, Replayed, Reset
<1>9. Standing'
  <2>1. ~running' BY DEF Reset
  <2>2. ~api'.synced BY <1>1, <1>4
  <2> QED BY <2>1, <2>2 DEF Standing
<1> QED BY <1>6, <1>7, <1>8, <1>9 DEF Inv

-----------------------------------------------------------------------------
(* Theorems *)

LEMMA NextInv == AllRules /\ Inv /\ [Next]_vars => Inv'
<1> SUFFICES ASSUME AllRules, Inv, [Next]_vars PROVE Inv' OBVIOUS
<1>1. host \in Hosts /\ host.primes \subseteq Primes BY HostsAssumption DEF Inv, Shape
<1>2. CASE UNCHANGED vars
  BY <1>2 DEF vars, Inv, Shape, Aged, Uncaptured, Standing, Now, Replayed
<1>3. CASE Next
  <2>1. CASE NewPolynomial BY <2>1, NewPolynomialKeeps
  <2>2. CASE \E op \in host.calls \ {"automorph_eval"}, imm \in host.immediates, q \in host.primes,
               a, b \in polys : Call(op, a, b, imm, q)
    BY <2>2, CallsKeep
  <2>3. CASE \E op \in host.multi_calls, imm \in host.immediates, x, y \in mrps :
               MultiCall(op, x, y, imm)
    BY <2>3, MultiCallKeeps
  <2>4. CASE \E x \in polys, k \in host.immediates, q \in host.primes \cup {None} : AutomorphEval(x, k, q)
    BY <2>4, AutomorphEvalKeeps
  <2>5. CASE \E x \in polys, q \in host.primes : Copy(x, q) \/ BindModulus(x, q)
    <3>1. PICK x \in polys, q \in host.primes : Copy(x, q) \/ BindModulus(x, q) BY <2>5
    <3>2. q \in Primes BY <1>1
    <3> QED BY <3>1, <3>2, CopyKeeps, BindModulusKeeps
  <2>6. CASE \E f \in [ToSet(Base) -> polys] : FromPairs(f) BY <2>6, FromPairsKeeps
  <2>7. CASE \E x \in mrps, k \in host.immediates : MultiAutomorphEval(x, k)
    BY <2>7, MultiAutomorphEvalKeeps
  <2>8. CASE \E x, y \in mrps : DotProduct(x, y) BY <2>8, DotProductKeeps
  <2>9. CASE \E name \in Names : TagInputs(name) \/ TagOutputs(name)
    BY <2>9, TagInputsKeep, TagOutputsKeep
  <2>10. CASE Start BY <2>10, StartKeeps
  <2>11. CASE Stop BY <2>11, StopKeeps
  <2>12. CASE Replay BY <2>12, ReplayKeeps
  <2>13. CASE ClearCaptured BY <2>13, ClearCapturedKeeps
  <2>14. CASE Reset BY <2>14, ResetKeeps
  <2> QED BY <1>3, <2>1, <2>2, <2>3, <2>4, <2>5, <2>6, <2>7, <2>8, <2>9, <2>10, <2>11, <2>12, <2>13,
             <2>14 DEF Next
<1> QED BY <1>2, <1>3

(* Hosts that create and tag between start() and stop(), give every input  *)
(* a modulus and reset before the next start() never leave Inv: the cycle's*)
(* handles stand, and what was captured is what they mean                  *)
(* (src/fhetch_api.cpp, alloc_address() to sync_fhetch_state_to_compiler()).*)
THEOREM InvHolds == ASSUME AllRules PROVE Spec => []Inv
<1>1. Init => Inv BY InitInv
<1>2. Inv /\ [Next]_vars => Inv' BY NextInv
<1> QED BY <1>1, <1>2, PTL DEF Spec

(* The types hold; only addresses that alloc_address() has given out have  *)
(* a modulus, and the writer records while the session runs.               *)
THEOREM TypeCorrect == ASSUME AllRules PROVE Spec => []TypeOK
<1>1. Inv => TypeOK BY DEF Inv, Shape, Uncaptured, Api, TypeOK
<1> QED BY <1>1, InvHolds, PTL

(* After replay() every tagged output holds what the calls that built it   *)
(* mean, applied to the data of the tagged inputs, however many objects,   *)
(* calls, tags and cycles there are (sr_* and mr_* to                      *)
(* sync_fhetch_state_to_compiler() of src/fhetch_api.cpp, replay()).       *)
THEOREM OutputsAreRight == ASSUME AllRules PROVE Spec => []OutputsRight
<1>1. Inv => OutputsRight
  <2> SUFFICES ASSUME Inv, memory # None, SameKinds(api.input_registry),
                      NEW i \in DOMAIN api.probe_registry, NEW p \in Polys(api.probe_registry[i])
               PROVE  At(memory, p.address) = p.term
    BY DEF OutputsRight
  <2>1. trace # None /\ ~dropped /\ memory = Run(Loaded(api.captured_inputs), trace)
        /\ api.synced /\ api.log = trace
    BY DEF Inv, Replayed
  <2>2. PICK I, P : Now(I, P) BY <2>1 DEF Inv, Standing
  <2>3. PICK m : m = Loaded(api.captured_inputs) OBVIOUS
  <2>4. Agrees(m, I) BY <2>1, <2>2, <2>3 DEF Now
  <2>5. Meaning(api.log, I, P) BY <2>2 DEF Now, Stands, Sound
  <2>6. Agrees(Run(m, api.log), P) BY <2>4, <2>5 DEF Meaning
  <2>7. p \in P
    <3>1. EntryOf(api.probe_registry[i], P) BY <2>2 DEF Now, Books
    <3> QED BY <3>1 DEF EntryOf, Polys
  <2> QED BY <2>1, <2>3, <2>6, <2>7 DEF Agrees
<1> QED BY <1>1, InvHolds, PTL

(* A captured output carries the modulus it was computed under, and a      *)
(* captured input the copy sentinel only if nothing reads it under a real  *)
(* modulus (remember_modulus(), sync_fhetch_state_to_compiler()).          *)
THEOREM ModuliAreRight == ASSUME AllRules PROVE Spec => []ModuliRight
<1>1. Inv => ModuliRight
  <2> SUFFICES ASSUME Inv, api.synced PROVE ModuliRight BY DEF ModuliRight
  <2>1. PICK I, P : Now(I, P) BY DEF Inv, Standing
  <2>2. Captured(api, P) BY <2>1 DEF Now
  <2>3. ASSUME NEW i \in DOMAIN api.captured_outputs,
               NEW k \in DOMAIN api.captured_outputs[i].elements,
               NEW x \in polys, x.cycle = cycle,
               x.p.address = api.captured_outputs[i].elements[k].addr_id, x.p.q \in Primes
        PROVE  api.captured_outputs[i].elements[k].modulus = x.p.q
    <3>1. PICK el : el = api.captured_outputs[i].elements[k] OBVIOUS
    <3>2. el \in Elems(api.captured_outputs) BY <3>1 DEF Elems, ElemsOf
    <3>3. x.p \in P BY <2>1, <2>3 DEF Now, HandlesOf
    <3> QED BY <2>2, <2>3, <3>1, <3>2, <3>3 DEF Captured, OutModuli
  <2>4. ASSUME NEW i \in DOMAIN api.captured_inputs,
               NEW k \in DOMAIN api.captured_inputs[i].elements,
               api.captured_inputs[i].elements[k].modulus = COPY_SENTINEL,
               NEW j \in DOMAIN api.log,
               api.captured_inputs[i].elements[k].addr_id \in Reads(api.log[j])
        PROVE  api.log[j].modulus \notin Primes
    <3>1. PICK el : el = api.captured_inputs[i].elements[k] OBVIOUS
    <3>2. el \in Elems(api.captured_inputs) BY <3>1 DEF Elems, ElemsOf
    <3> QED BY <2>2, <2>4, <3>1, <3>2 DEF Captured, InModulus
  <2> QED BY <2>3, <2>4 DEF ModuliRight
<1> QED BY <1>1, InvHolds, PTL
-----------------------------------------------------------------------------
(* Everything tagged is captured once: kept from stop() to the next        *)
(* start(), unless the captures are cleared.                               *)
Complete == trace # None /\ ~dropped => Once(api)

LEMMA StopComplete ==
  ASSUME AllRules, Inv, Stop
  PROVE  Complete'
<1>1. running BY DEF Stop
<1>2. PICK I, P : Now(I, P) BY <1>1, InSession
<1>3. PICK s, y, t : s = api /\ t = api' /\ y = sync_fhetch_state_to_compiler(s) OBVIOUS
<1>4. t = [halt(y) EXCEPT !.recording = FALSE] BY <1>3 DEF Stop
<1>5. /\ Stands(s, I, P) /\ s.recording /\ s.synced = FALSE
      /\ s.captured_inputs = <<>> /\ s.captured_outputs = <<>>
  BY <1>1, <1>2, <1>3 DEF Now, Inv, Uncaptured
<1>6. PICK c, tg : c = cycle /\ tg = tagged OBVIOUS
<1>7. Books(s, c, tg, P) BY <1>2, <1>3, <1>6 DEF Now
<1>8. Captured(y, P) BY <1>3, <1>5, <1>7, SyncModuli
<1>9. Stopped(s, y, t, I, P) BY <1>3, <1>4, <1>5, <1>8, StopIs
<1>10. Api(s) BY <1>5 DEF Stands, Sound
<1>11. Synced(s, y) BY <1>3, <1>5, <1>10, SyncIs
<1>12. /\ t.captured_inputs = y.captured_inputs /\ t.captured_outputs = y.captured_outputs
       /\ t.input_registry = s.input_registry /\ t.probe_registry = s.probe_registry
       /\ t.address_modulus = s.address_modulus
  BY <1>9 DEF Stopped
<1>13. Once(t) BY <1>5, <1>7, <1>11, <1>12, SyncOnce
<1> QED BY <1>3, <1>13 DEF Complete

LEMMA NextComplete == AllRules /\ Inv /\ Complete /\ [Next]_vars => Complete'
<1> SUFFICES ASSUME AllRules, Inv, Complete, [Next]_vars PROVE Complete' OBVIOUS
<1>1. ASSUME running, UNCHANGED trace PROVE Complete'
  BY <1>1 DEF Complete, Inv, Replayed
<1>2. ASSUME MayMake \/ MayCall \/ MayTag PROVE running
  <2>1. CASE MayMake BY <2>1 DEF MayMake, AllRules
  <2>2. CASE MayCall BY <2>2 DEF MayCall
  <2>3. CASE MayTag BY <2>3 DEF MayTag, AllRules
  <2> QED BY <1>2, <2>1, <2>2, <2>3
<1>3. CASE UNCHANGED vars BY <1>3 DEF vars, Complete
<1>4. CASE Next
  <2>1. CASE NewPolynomial BY <1>1, <1>2, <2>1 DEF NewPolynomial, Makes
  <2>2. CASE \E op \in host.calls \ {"automorph_eval"}, imm \in host.immediates, q \in host.primes,
               a, b \in polys : Call(op, a, b, imm, q)
    BY <1>1, <1>2, <2>2 DEF Call, Makes
  <2>3. CASE \E op \in host.multi_calls, imm \in host.immediates, x, y \in mrps :
               MultiCall(op, x, y, imm)
    BY <1>1, <1>2, <2>3 DEF MultiCall, MakesMRP
  <2>4. CASE \E x \in polys, k \in host.immediates, q \in host.primes \cup {None} : AutomorphEval(x, k, q)
    BY <1>1, <1>2, <2>4 DEF AutomorphEval, Makes
  <2>5. CASE \E x \in polys, q \in host.primes : Copy(x, q) \/ BindModulus(x, q)
    BY <1>1, <1>2, <2>5 DEF Copy, BindModulus, Makes
  <2>6. CASE \E f \in [ToSet(Base) -> polys] : FromPairs(f)
    BY <1>1, <1>2, <2>6 DEF FromPairs, MakesMRP
  <2>7. CASE \E x \in mrps, k \in host.immediates : MultiAutomorphEval(x, k)
    BY <1>1, <1>2, <2>7 DEF MultiAutomorphEval, MakesMRP
  <2>8. CASE \E x, y \in mrps : DotProduct(x, y) BY <1>1, <1>2, <2>8 DEF DotProduct, MakesMRP
  <2>9. CASE \E name \in Names : TagInputs(name) \/ TagOutputs(name)
    <3>1. MayTag /\ UNCHANGED trace BY <2>9 DEF TagInputs, TagOutputs, TagInput, TagOutput
    <3> QED BY <1>1, <1>2, <3>1
  <2>10. CASE Start BY <2>10 DEF Start, Complete
  <2>11. CASE Stop BY <2>11, StopComplete
  <2>12. CASE Replay
    <3>1. api' = api BY <2>12 DEF Inv, Replayed, Replay, sync_fhetch_state_to_compiler
    <3> QED BY <2>12, <3>1 DEF Replay, Complete
  <2>13. CASE ClearCaptured BY <2>13 DEF ClearCaptured, Complete
  <2>14. CASE Reset BY <2>14 DEF Reset, Complete
  <2> QED BY <1>4, <2>1, <2>2, <2>3, <2>4, <2>5, <2>6, <2>7, <2>8, <2>9, <2>10, <2>11, <2>12, <2>13,
             <2>14 DEF Next
<1> QED BY <1>3, <1>4

(* When replay() has run, every residue tagged in this cycle is captured   *)
(* once, in the order of the tags, and nothing else is, however many tags  *)
(* and cycles there are (sync_fhetch_state_to_compiler(),                  *)
(* find_or_create_record() of src/fhetch_api.cpp).                         *)
THEOREM EverythingIsCapturedOnce == ASSUME AllRules PROVE Spec => []CapturedOnce
<1>1. Init => Complete BY DEF Init, Complete
<1>2. Inv /\ Complete /\ [Next]_vars => Complete' BY NextComplete
<1>3. Inv /\ Complete => CapturedOnce BY DEF Inv, Replayed, Complete, CapturedOnce
<1> QED BY <1>1, <1>2, <1>3, InvHolds, PTL DEF Spec
=============================================================================
