---------------------------- MODULE DriverProofs -----------------------------
(***************************************************************************)
(* Proofs about Driver, for every file and every set of inputs: the second *)
(* trace computes what the file computes, from the file's live-ins.        *)
(*                                                                         *)
(* While the file is driven, the driver's polynomials stand for what the   *)
(* file computes at their keys (Computes), and the recorded trace leaves   *)
(* what the polynomials stand for, whatever memory it runs on that holds   *)
(* the inputs (Sound).  That the memory replay() starts from is one of     *)
(* those is shown at the end, from the sync and the load of the inputs.    *)
(***************************************************************************)
EXTENDS Driver, FhetchApiProofs

FileKinds == {<<a, "SRP">> : a \in FileAddrs}

(* The inputs of the second trace: those captured, and the placeholders.   *)
InPairs(s) ==
       {[address |-> el.addr_id, term |-> el.values] : el \in Elems(s.captured_inputs)}
  \cup {[address |-> s.input_registry[i].residues[1].poly.address, term |-> Zero] :
          i \in DOMAIN s.input_registry}

OneValue(I) == \A x, y \in I : x.address = y.address => x.term = y.term

RegNames(s) == {s.input_registry[i].name : i \in DOMAIN s.input_registry}
PolySet(d) == {d.polys[a] : a \in DOMAIN d.polys}

Placeholder(e) == \E a \in FileAddrs : \E p : e = OfPolynomial(a, p) /\ p.data = None

Books(s) ==
  /\ Api(s) /\ s.recording = TRUE /\ s.synced = FALSE
  /\ s.probe_registry = <<>> /\ s.captured_outputs = <<>>
  /\ Recs(s.captured_inputs) /\ Kinds(s.captured_inputs) \subseteq FileKinds
  /\ IsSeq(s.input_registry)
  /\ \A i \in DOMAIN s.input_registry : Placeholder(s.input_registry[i])

DriverOK(d) ==
  /\ DOMAIN d = {"api", "polys"}
  /\ Books(d.api)
  /\ DOMAIN d.polys \subseteq FileAddrs
  /\ Below(PolySet(d), d.api.next_address)

(* mem: what the file has computed so far. *)
Computes(d, mem) ==
  /\ Sound(d.api, InPairs(d.api), PolySet(d))
  /\ OneValue(InPairs(d.api))
  /\ \A a \in DOMAIN d.polys : d.polys[a].term = At(mem, a)
  /\ \A a \in FileAddrs \ DOMAIN d.polys : At(mem, a) = At(Given, a)

-----------------------------------------------------------------------------
(* Sources *)

LEMMA FileKindsOne == OneKind(FileKinds)
BY DEF OneKind, FileKinds

LEMMA WithIs ==
  ASSUME NEW f, NEW x, NEW v
  PROVE  /\ DOMAIN With(f, x, v) = DOMAIN f \cup {x}
         /\ With(f, x, v)[x] = v
         /\ \A y \in DOMAIN f : y # x => With(f, x, v)[y] = f[y]
BY DEF With

LEMMA WithRange ==
  ASSUME NEW f, NEW x, NEW v
  PROVE  \A y \in DOMAIN With(f, x, v) :
           With(f, x, v)[y] = v \/ (y \in DOMAIN f /\ With(f, x, v)[y] = f[y])
BY DEF With

LEMMA PutIs ==
  ASSUME NEW d, NEW a, NEW r
  PROVE  /\ DOMAIN put(d, a, r) = {"api", "polys"}
         /\ put(d, a, r).api = r.api
         /\ put(d, a, r).polys = With(d.polys, a, r.out)
         /\ PolySet(put(d, a, r)) \subseteq PolySet(d) \cup {r.out}
<1>1. put(d, a, r) = [api |-> r.api, polys |-> With(d.polys, a, r.out)] BY DEF put
<1>2. put(d, a, r).polys = With(d.polys, a, r.out) BY <1>1
<1>3. PolySet(put(d, a, r)) \subseteq PolySet(d) \cup {r.out}
  <2>1. PICK f, v : f = d.polys /\ v = r.out OBVIOUS
  <2>2. PICK g : g = With(f, a, v) OBVIOUS
  <2>3. put(d, a, r).polys = g BY <1>2, <2>1, <2>2
  <2> SUFFICES ASSUME NEW y \in DOMAIN g PROVE g[y] \in PolySet(d) \cup {r.out}
    BY <2>3 DEF PolySet
  <2>4. g[y] = v \/ (y \in DOMAIN f /\ g[y] = f[y]) BY <2>2, WithRange
  <2> QED BY <2>1, <2>4 DEF PolySet
<1> QED BY <1>1, <1>3

LEMMA BelowPut ==
  ASSUME NEW d, NEW a, NEW r, NEW n \in Nat, NEW k \in Nat, n <= k,
         Below(PolySet(d), n), r.out.address \in 0 .. k - 1
  PROVE  Below(PolySet(put(d, a, r)), k)
BY PutIs DEF Below

(* The books of a state whose inputs are those of another. *)
LEMMA SameBooksBooks ==
  ASSUME NEW s, Books(s), NEW t, Api(t), SameBooks(s, t)
  PROVE  /\ Books(t) /\ InPairs(t) = InPairs(s) /\ RegNames(t) = RegNames(s)
         /\ RecNames(t.captured_inputs) = RecNames(s.captured_inputs)
BY DEF Books, SameBooks, InPairs, RegNames

(* A source with the caller's values: stored straight away. *)
LEMMA GivenSource ==
  ASSUME NEW d, DriverOK(d), NEW a \in FileAddrs, a \notin DOMAIN d.polys, inputs[a] = "given",
         NEW e, e = get_or_create_src(d, a)
  PROVE  /\ \E p : /\ e = put(d, a, Returns(e.api, p))
                   /\ p.address = d.api.next_address /\ p.term = At(Given, a)
                   /\ InPairs(e.api) = InPairs(d.api) \cup
                        {[address |-> d.api.next_address, term |-> p.term]}
         /\ Books(e.api) /\ e.api.log = d.api.log
         /\ e.api.next_address = d.api.next_address + 1
         /\ RecNames(e.api.captured_inputs) = RecNames(d.api.captured_inputs) \cup {a}
         /\ RegNames(e.api) = RegNames(d.api)
<1> DEFINE s == d.api
           p == Handle(s, Values[a], Values[a], None)
           elem == [addr_id |-> s.next_address, modulus |-> InputModulus, values |-> Values[a]]
           new == store_element(Alloc(s).captured_inputs, a, "SRP", FALSE, elem)
           t == [Alloc(s) EXCEPT !.captured_inputs = new]
<1>1. /\ p.address = s.next_address /\ p.term = Values[a] BY DEF Handle
<1>2. e = put(d, a, Returns(t, p))
  <2> DEFINE r == from_data(d.api, Values[a])
  <2>1. r.api = Alloc(s) /\ r.out = p BY DEF from_data, Returns
  <2>2. r.out.address = s.next_address BY <2>1, <1>1
  <2>3. e = put(d, a, Returns([r.api EXCEPT !.captured_inputs =
                   store_element(@, a, "SRP", FALSE,
                     [addr_id |-> r.out.address, modulus |-> InputModulus, values |-> Values[a]])], r.out))
    BY DEF get_or_create_src
  <2> HIDE DEF r
  <2> QED BY <2>1, <2>2, <2>3
<1>3. e.api = t
  <2> HIDE DEF t, p
  <2>1. Returns(t, p).api = t BY DEF Returns
  <2> QED BY <1>2, <2>1, PutIs
<1>4. Api(s) /\ Books(s) BY DEF DriverOK, Books
<1>5. /\ Api(Alloc(s)) /\ SameBooks(s, Alloc(s)) /\ Alloc(s).log = s.log
      /\ Alloc(s).next_address = s.next_address + 1
  BY <1>4, AllocIs
<1>6. Alloc(s).captured_inputs = s.captured_inputs BY <1>5 DEF SameBooks
<1>7. /\ Recs(new) /\ Kinds(new) \subseteq FileKinds
      /\ Elems(new) = Elems(s.captured_inputs) \cup {elem}
      /\ RecNames(new) = RecNames(s.captured_inputs) \cup {a}
  <2>1. Recs(s.captured_inputs) /\ Kinds(s.captured_inputs) \subseteq FileKinds
    BY <1>4 DEF Books
  <2>2. <<a, "SRP">> \in FileKinds BY DEF FileKinds
  <2>3. PICK no : no = FALSE OBVIOUS
  <2>4. new = store_element(s.captured_inputs, a, "SRP", no, elem) BY <1>6, <2>3
  <2> HIDE DEF new, elem, s
  <2> QED BY <2>1, <2>2, <2>4, FileKindsOne, StoreElement
<1>8. /\ Api(t) /\ t.log = s.log /\ t.next_address = s.next_address + 1
      /\ t.captured_inputs = new /\ t.input_registry = s.input_registry
      /\ t.probe_registry = s.probe_registry /\ t.captured_outputs = s.captured_outputs
      /\ t.synced = s.synced /\ t.recording = s.recording
  <2> HIDE DEF new, s
  <2> QED BY <1>5 DEF Api, Fields, SameBooks
<1>9. Books(t)
  <2> HIDE DEF new, t, s
  <2> QED BY <1>4, <1>7, <1>8 DEF Books
<1>10. elem.addr_id = s.next_address /\ elem.values = Values[a] OBVIOUS
<1>11. InPairs(t) = InPairs(s) \cup {[address |-> s.next_address, term |-> Values[a]]}
  <2> HIDE DEF new, t, s, elem
  <2> QED BY <1>7, <1>8, <1>10 DEF InPairs
<1>12. Values[a] = At(Given, a) BY DEF At, Given
<1>13. RegNames(t) = RegNames(s)
  <2> HIDE DEF t, s
  <2> QED BY <1>8 DEF RegNames
<1> HIDE DEF p, t, s, new
<1>14. p.term = At(Given, a) /\ InPairs(t) = InPairs(s) \cup {[address |-> s.next_address, term |-> p.term]}
  BY <1>1, <1>11, <1>12
<1>15. e = put(d, a, Returns(e.api, p)) BY <1>2, <1>3
<1>16. \E z : /\ e = put(d, a, Returns(e.api, z))
              /\ z.address = s.next_address /\ z.term = At(Given, a)
              /\ InPairs(e.api) = InPairs(s) \cup {[address |-> s.next_address, term |-> z.term]}
  BY <1>1, <1>3, <1>14, <1>15
<1> QED BY <1>3, <1>7, <1>8, <1>9, <1>13, <1>16 DEF s

(* A source without values: a tagged placeholder of zeros. *)
LEMMA MissingSource ==
  ASSUME NEW d, DriverOK(d), NEW a \in FileAddrs, a \notin DOMAIN d.polys, inputs[a] # "given",
         NEW e, e = get_or_create_src(d, a)
  PROVE  /\ \E p : /\ e = put(d, a, Returns(e.api, p))
                   /\ p.address = d.api.next_address /\ p.term = At(Given, a)
                   /\ InPairs(e.api) = InPairs(d.api) \cup
                        {[address |-> d.api.next_address, term |-> p.term]}
         /\ Books(e.api) /\ e.api.log = d.api.log
         /\ e.api.next_address = d.api.next_address + 1
         /\ RecNames(e.api.captured_inputs) = RecNames(d.api.captured_inputs)
         /\ RegNames(e.api) = RegNames(d.api) \cup {a}
<1> DEFINE s == d.api
           p == Handle(s, None, Zero, None)
           entry == OfPolynomial(a, p)
           t == tag_input(Alloc(s), entry)
           reg == s.input_registry
<1>1. p.address = s.next_address /\ p.term = Zero /\ p.data = None BY DEF Handle
<1>2. e = put(d, a, Returns(t, p)) BY DEF get_or_create_src, zeros, Returns
<1>3. e.api = t BY <1>2, PutIs DEF Returns
<1>4. Api(s) /\ Books(s) BY DEF DriverOK, Books
<1>5. /\ Api(Alloc(s)) /\ SameBooks(s, Alloc(s)) /\ Alloc(s).log = s.log
      /\ Alloc(s).next_address = s.next_address + 1
  BY <1>4, AllocIs
<1>6. /\ entry.name = a /\ entry.residues[1].poly = p
  BY DEF OfPolynomial, Residue
<1>7. Placeholder(entry) BY <1>1 DEF Placeholder
<1>8. /\ Api(t) /\ t.log = s.log /\ t.next_address = s.next_address + 1
      /\ t.input_registry = Append(reg, entry)
      /\ t.captured_inputs = s.captured_inputs
      /\ t.probe_registry = s.probe_registry /\ t.captured_outputs = s.captured_outputs
      /\ t.synced = s.synced /\ t.recording = s.recording
  <2> HIDE DEF entry, s
  <2> QED BY <1>5 DEF Api, Fields, SameBooks, tag_input, reg
<1> HIDE DEF p, t, s, entry, reg
<1>9. IsSeq(reg) /\ \A i \in DOMAIN reg : Placeholder(reg[i]) BY <1>4 DEF Books, reg
<1>10. /\ IsSeq(t.input_registry) /\ Len(reg) \in Nat /\ DOMAIN reg = 1 .. Len(reg)
       /\ DOMAIN t.input_registry = 1 .. Len(reg) + 1
       /\ t.input_registry[Len(reg) + 1] = entry
       /\ \A i \in 1 .. Len(reg) : t.input_registry[i] = reg[i]
  BY <1>8, <1>9, AppendIsSeq
<1>11. PICK n \in Nat : n = Len(reg) BY <1>10
<1>12. 1 .. n + 1 = (1 .. n) \cup {n + 1} BY <1>11
<1>13. Books(t)
  <2>1. \A i \in DOMAIN t.input_registry : Placeholder(t.input_registry[i])
    BY <1>7, <1>9, <1>10, <1>11, <1>12
  <2> QED BY <1>4, <1>8, <1>10, <2>1 DEF Books
<1>14. RegNames(t) = RegNames(s) \cup {a}
  BY <1>6, <1>10, <1>11, <1>12 DEF RegNames, reg
<1>15. InPairs(t) = InPairs(s) \cup {[address |-> s.next_address, term |-> p.term]}
  <2> DEFINE pair(r) == [address |-> r.residues[1].poly.address, term |-> Zero]
             caught == {[address |-> el.addr_id, term |-> el.values] : el \in Elems(s.captured_inputs)}
  <2>1. InPairs(s) = caught \cup {pair(reg[i]) : i \in 1 .. n}
    BY <1>10, <1>11 DEF InPairs, reg
  <2>2. InPairs(t) = caught \cup {pair(t.input_registry[i]) : i \in 1 .. n + 1}
    BY <1>8, <1>10, <1>11 DEF InPairs
  <2>3. pair(entry) = [address |-> s.next_address, term |-> p.term] BY <1>1, <1>6
  <2>4. t.input_registry[n + 1] = entry /\ \A i \in 1 .. n : t.input_registry[i] = reg[i]
    BY <1>10, <1>11
  <2> HIDE DEF pair, caught
  <2> QED BY <1>12, <2>1, <2>2, <2>3, <2>4
<1>16. At(Given, a) = Zero BY DEF At, Given
<1>17. \E z : /\ e = put(d, a, Returns(e.api, z))
              /\ z.address = s.next_address /\ z.term = At(Given, a)
              /\ InPairs(e.api) = InPairs(s) \cup {[address |-> s.next_address, term |-> z.term]}
  BY <1>1, <1>2, <1>3, <1>15, <1>16
<1>18. RecNames(t.captured_inputs) = RecNames(s.captured_inputs) BY <1>8
<1> QED BY <1>3, <1>8, <1>13, <1>14, <1>17, <1>18 DEF s

(* e is d with the sources A at hand: those that were missing are new      *)
(* live-ins.                                                               *)
Took(d, e, A) ==
  /\ DriverOK(e)
  /\ DOMAIN e.polys = DOMAIN d.polys \cup A
  /\ e.api.next_address >= d.api.next_address
  /\ RecNames(e.api.captured_inputs) =
       RecNames(d.api.captured_inputs) \cup {x \in A \ DOMAIN d.polys : inputs[x] = "given"}
  /\ RegNames(e.api) \subseteq RegNames(d.api) \cup (A \ DOMAIN d.polys)
  /\ \A mem : Computes(d, mem) => Computes(e, mem)

LEMMA TookNone ==
  ASSUME NEW d, DriverOK(d), NEW A, A \subseteq DOMAIN d.polys PROVE Took(d, d, A)
<1>1. A \ DOMAIN d.polys = {} OBVIOUS
<1>2. d.api.next_address \in Nat BY DEF DriverOK, Books, Api
<1>3. DOMAIN d.polys = DOMAIN d.polys \cup A OBVIOUS
<1> QED BY <1>1, <1>2, <1>3 DEF Took

LEMMA TookBoth ==
  ASSUME NEW d, DriverOK(d), NEW e, NEW f, NEW A, NEW B, Took(d, e, A), Took(e, f, B)
  PROVE  Took(d, f, A \cup B)
<1>1. /\ d.api.next_address \in Nat /\ e.api.next_address \in Nat /\ f.api.next_address \in Nat
  BY DEF Took, DriverOK, Books, Api
<1>2. f.api.next_address >= d.api.next_address BY <1>1 DEF Took
<1>3. DOMAIN f.polys = DOMAIN d.polys \cup (A \cup B) BY DEF Took
<1>4. RecNames(f.api.captured_inputs) =
        RecNames(d.api.captured_inputs) \cup {x \in (A \cup B) \ DOMAIN d.polys : inputs[x] = "given"}
  BY DEF Took
<1>5. RegNames(f.api) \subseteq RegNames(d.api) \cup ((A \cup B) \ DOMAIN d.polys) BY DEF Took
<1> QED BY <1>2, <1>3, <1>4, <1>5 DEF Took

(* get_or_create_src(): the source is at hand, and stands for what the     *)
(* file reads at its address.                                              *)
LEMMA SourceTook ==
  ASSUME NEW d, DriverOK(d), NEW a \in FileAddrs,
         NEW e, e = get_or_create_src(d, a)
  PROVE  /\ Took(d, e, {a})
         /\ e.api.next_address <= d.api.next_address + 1
<1>0. d.api.next_address \in Nat BY DEF DriverOK, Books, Api
<1>1. CASE a \in DOMAIN d.polys
  <2>1. e = d BY <1>1 DEF get_or_create_src
  <2>2. Took(d, d, {a}) BY <1>1, TookNone
  <2> QED BY <1>0, <2>1, <2>2
<1>2. CASE a \notin DOMAIN d.polys
  <2> DEFINE n == d.api.next_address
  <2>1. /\ \E p : /\ e = put(d, a, Returns(e.api, p))
                  /\ p.address = n /\ p.term = At(Given, a)
                  /\ InPairs(e.api) = InPairs(d.api) \cup {[address |-> n, term |-> p.term]}
        /\ Books(e.api) /\ e.api.log = d.api.log /\ e.api.next_address = n + 1
    BY <1>2, GivenSource, MissingSource
  <2>2. RecNames(e.api.captured_inputs) =
          RecNames(d.api.captured_inputs) \cup {x \in {a} \ DOMAIN d.polys : inputs[x] = "given"}
    <3>1. CASE inputs[a] = "given"
      <4>1. RecNames(e.api.captured_inputs) = RecNames(d.api.captured_inputs) \cup {a}
        BY <1>2, <3>1, GivenSource
      <4>2. {x \in {a} \ DOMAIN d.polys : inputs[x] = "given"} = {a} BY <1>2, <3>1
      <4> QED BY <4>1, <4>2
    <3>2. CASE inputs[a] # "given"
      <4>1. RecNames(e.api.captured_inputs) = RecNames(d.api.captured_inputs)
        BY <1>2, <3>2, MissingSource
      <4>2. {x \in {a} \ DOMAIN d.polys : inputs[x] = "given"} = {} BY <3>2
      <4> QED BY <4>1, <4>2
    <3> QED BY <3>1, <3>2
  <2>3. RegNames(e.api) \subseteq RegNames(d.api) \cup ({a} \ DOMAIN d.polys)
    BY <1>2, GivenSource, MissingSource
  <2>4. PICK p : /\ e = put(d, a, Returns(e.api, p))
                 /\ p.address = n /\ p.term = At(Given, a)
                 /\ InPairs(e.api) = InPairs(d.api) \cup {[address |-> n, term |-> p.term]}
    BY <2>1
  <2>5. PICK r : r = Returns(e.api, p) OBVIOUS
  <2>6. r.out = p /\ r.api = e.api /\ e = put(d, a, r) BY <2>4, <2>5 DEF Returns
  <2>7. DOMAIN e = {"api", "polys"} /\ e.polys = With(d.polys, a, p) BY <2>6, PutIs
  <2>8. DOMAIN e.polys = DOMAIN d.polys \cup {a} /\ e.polys[a] = p
        /\ \A y \in DOMAIN d.polys : e.polys[y] = d.polys[y]
    <3>1. PICK f : f = d.polys OBVIOUS
    <3>2. PICK g : g = e.polys OBVIOUS
    <3>3. g = With(f, a, p) BY <2>7, <3>1, <3>2
    <3>4. DOMAIN g = DOMAIN f \cup {a} /\ g[a] = p /\ \A y \in DOMAIN f : g[y] = f[y]
      <4>1. a \notin DOMAIN f BY <1>2, <3>1
      <4> QED BY <3>3, <4>1 DEF With
    <3> QED BY <3>1, <3>2, <3>4
  <2>9. n + 1 \in Nat /\ n <= n + 1 /\ r.out.address \in 0 .. (n + 1) - 1 BY <1>0, <2>4, <2>6
  <2>10. Below(PolySet(e), n + 1)
    <3>1. Below(PolySet(d), n) BY DEF DriverOK
    <3> HIDE DEF n
    <3> QED BY <1>0, <2>6, <2>9, <3>1, BelowPut DEF n
  <2>11. DriverOK(e)
    BY <2>1, <2>7, <2>8, <2>10 DEF DriverOK
  <2>12. ASSUME NEW mem, Computes(d, mem) PROVE Computes(e, mem)
    <3> DEFINE pair == [address |-> n, term |-> p.term]
    <3>1. pair.address = n /\ pair.term = p.term OBVIOUS
    <3>2. Sound(d.api, InPairs(d.api), PolySet(d)) BY <2>12 DEF Computes
    <3>3. Api(e.api) BY <2>1 DEF Books
    <3>4. Sound(e.api, InPairs(e.api), PolySet(d) \cup {pair})
      <4>1. e.api.next_address > d.api.next_address BY <1>0, <2>1
      <4> HIDE DEF pair
      <4>2. Sound(e.api, InPairs(d.api) \cup {pair}, PolySet(d) \cup {pair})
        BY <2>1, <3>1, <3>2, <3>3, <4>1, SoundInput
      <4> QED BY <2>4, <4>2 DEF pair
    <3>5. PolySet(e) \subseteq PolySet(d) \cup {p} BY <2>6, PutIs
    <3>6. Sound(e.api, InPairs(e.api), PolySet(e))
      <4> HIDE DEF pair, n
      <4> QED BY <2>4, <3>1, <3>4, <3>5 DEF Sound, Below, Meaning, Agrees
    <3>7. OneValue(InPairs(e.api))
      <4>1. OneValue(InPairs(d.api)) BY <2>12 DEF Computes
      <4>2. \A x \in InPairs(d.api) : x.address # pair.address
        BY <1>0, <3>2 DEF Sound, Below
      <4>3. InPairs(e.api) = InPairs(d.api) \cup {pair} BY <2>4
      <4> HIDE DEF pair
      <4> QED BY <4>1, <4>2, <4>3 DEF OneValue
    <3>8. At(mem, a) = At(Given, a) BY <1>2, <2>12 DEF Computes
    <3>9. \A y \in DOMAIN e.polys : e.polys[y].term = At(mem, y)
      BY <2>4, <2>8, <2>12, <3>8 DEF Computes
    <3>10. \A y \in FileAddrs \ DOMAIN e.polys : At(mem, y) = At(Given, y)
      BY <2>8, <2>12 DEF Computes
    <3> QED BY <3>6, <3>7, <3>9, <3>10 DEF Computes
  <2>13. e.api.next_address >= d.api.next_address /\ e.api.next_address <= d.api.next_address + 1
    BY <1>0, <2>1
  <2> QED BY <2>2, <2>3, <2>8, <2>11, <2>12, <2>13 DEF Took
<1> QED BY <1>1, <1>2

(* get_or_create_zero_src(): a placeholder nobody reads. *)
LEMMA ZeroSource ==
  ASSUME NEW d, DriverOK(d), NEW a \in FileAddrs,
         NEW e, e = get_or_create_zero_src(d, a)
  PROVE  /\ DriverOK(e) /\ DOMAIN e.polys = DOMAIN d.polys \cup {a}
         /\ e.api.next_address >= d.api.next_address
         /\ e.api.next_address <= d.api.next_address + 1
         /\ e.api.log = d.api.log /\ SameBooks(d.api, e.api)
         /\ \A y \in DOMAIN d.polys : e.polys[y] = d.polys[y]
<1>0. Api(d.api) /\ Books(d.api) /\ d.api.next_address \in Nat BY DEF DriverOK, Books, Api
<1>1. CASE a \in DOMAIN d.polys
  <2>1. e = d BY <1>1 DEF get_or_create_zero_src
  <2> QED BY <1>0, <1>1, <2>1 DEF SameBooks
<1>2. CASE a \notin DOMAIN d.polys
  <2> DEFINE r == zeros(d.api)
             n == d.api.next_address
  <2>1. e = put(d, a, r) BY <1>2 DEF get_or_create_zero_src
  <2>2. r.api = Alloc(d.api) /\ r.out.address = n BY DEF zeros, Returns, Handle
  <2> HIDE DEF r
  <2>3. DOMAIN e = {"api", "polys"} /\ e.api = Alloc(d.api) /\ e.polys = With(d.polys, a, r.out)
    BY <2>1, <2>2, PutIs
  <2>4. DOMAIN e.polys = DOMAIN d.polys \cup {a} /\ \A y \in DOMAIN d.polys : e.polys[y] = d.polys[y]
    <3>1. PICK f : f = d.polys OBVIOUS
    <3>2. PICK g, v : g = e.polys /\ v = r.out OBVIOUS
    <3>3. g = With(f, a, v) BY <2>3, <3>1, <3>2
    <3>4. DOMAIN g = DOMAIN f \cup {a} /\ \A y \in DOMAIN f : g[y] = f[y]
      <4>1. a \notin DOMAIN f BY <1>2, <3>1
      <4> QED BY <3>3, <4>1 DEF With
    <3> QED BY <3>1, <3>2, <3>4
  <2>5. /\ Api(e.api) /\ SameBooks(d.api, e.api) /\ e.api.log = d.api.log
        /\ e.api.next_address = n + 1
    BY <1>0, <2>3, AllocIs
  <2>6. Books(e.api) BY <1>0, <2>5, SameBooksBooks
  <2>7. Below(PolySet(e), n + 1)
    <3>1. Below(PolySet(d), n) BY DEF DriverOK
    <3>2. n + 1 \in Nat /\ n <= n + 1 /\ r.out.address \in 0 .. (n + 1) - 1 BY <1>0, <2>2
    <3> HIDE DEF n
    <3> QED BY <1>0, <2>1, <3>1, <3>2, BelowPut DEF n
  <2>8. DriverOK(e) BY <2>3, <2>4, <2>5, <2>6, <2>7 DEF DriverOK
  <2> QED BY <1>0, <2>4, <2>5, <2>8
<1> QED BY <1>1, <1>2

-----------------------------------------------------------------------------
(* One instruction *)

(* s is the API's state of d, with some more addresses given out. *)
Ready(d, s) ==
  /\ Api(s) /\ SameBooks(d.api, s) /\ s.log = d.api.log
  /\ s.next_address >= d.api.next_address /\ s.next_address < AddressSpace

(* e is d with a call's result at dest. *)
RecordedAt(d, s, dest, e) ==
  /\ DriverOK(e) /\ DOMAIN e.polys = DOMAIN d.polys \cup {dest}
  /\ e.api.next_address = s.next_address + 1
  /\ RecNames(e.api.captured_inputs) = RecNames(d.api.captured_inputs)
  /\ RegNames(e.api) = RegNames(d.api) /\ InPairs(e.api) = InPairs(d.api)

LEMMA RecordPut ==
  ASSUME NEW d, DriverOK(d), NEW s, Ready(d, s), NEW dest \in FileAddrs,
         NEW op, NEW a, NEW b, NEW imm, NEW token, NEW q,
         a.address \in 0 .. s.next_address - 1, b.address \in 0 .. s.next_address - 1,
         NEW r, r = record(s, op, a, b, imm, token, q),
         NEW e, e = put(d, dest, r)
  PROVE  RecordedAt(d, s, dest, e)
<1>1. /\ Books(d.api) /\ d.api.next_address \in Nat /\ d.api.recording = TRUE
      /\ s.next_address \in Nat /\ Api(s)
  BY DEF DriverOK, Books, Api, Ready
<1>2. s.recording BY <1>1 DEF Ready, SameBooks
<1>3. /\ Api(r.api) /\ SameBooks(s, r.api) /\ r.api.next_address = s.next_address + 1
      /\ r.out.address = s.next_address
  BY <1>1, <1>2, RecordIs DEF Ready
<1>4. SameBooks(d.api, r.api) BY <1>3 DEF Ready, SameBooks
<1>5. DOMAIN e = {"api", "polys"} /\ e.api = r.api /\ e.polys = With(d.polys, dest, r.out)
  BY PutIs
<1>6. /\ Books(e.api) /\ InPairs(e.api) = InPairs(d.api) /\ RegNames(e.api) = RegNames(d.api)
      /\ RecNames(e.api.captured_inputs) = RecNames(d.api.captured_inputs)
  BY <1>1, <1>3, <1>4, <1>5, SameBooksBooks
<1>7. DOMAIN e.polys = DOMAIN d.polys \cup {dest}
  <2>1. PICK f, v : f = d.polys /\ v = r.out OBVIOUS
  <2>2. e.polys = With(f, dest, v) BY <1>5, <2>1
  <2> QED BY <2>1, <2>2 DEF With
<1>8. Below(PolySet(e), e.api.next_address)
  <2>1. PICK n, k : n = d.api.next_address /\ k = e.api.next_address OBVIOUS
  <2>2. n \in Nat /\ k \in Nat /\ n <= k /\ r.out.address \in 0 .. k - 1
    BY <1>1, <1>3, <1>5, <2>1 DEF Ready
  <2>3. Below(PolySet(d), n) BY <2>1 DEF DriverOK
  <2> QED BY <2>1, <2>2, <2>3, BelowPut
<1> QED BY <1>3, <1>5, <1>6, <1>7, <1>8 DEF DriverOK, RecordedAt

(* What an instruction computes depends on its opcode, its immediate and,  *)
(* for all but the evaluation automorphism, its modulus.                   *)
LEMMA ValueSame ==
  ASSUME NEW i, NEW j, NEW x, NEW y, i.opcode = j.opcode, i.immediate = j.immediate,
         i.opcode # "automorph_eval" => i.modulus = j.modulus
  PROVE  Value(i, x, y) = Value(j, x, y)
BY DEF Value, IsZeroInit, IsCopy

Resolve(inst) == [inst EXCEPT !.modulus = Modulus(inst)]

LEMMA ResolveIs ==
  ASSUME NEW inst \in FileCode
  PROVE  /\ Resolve(inst).opcode = inst.opcode /\ Resolve(inst).dest = inst.dest
         /\ Resolve(inst).src1 = inst.src1 /\ Resolve(inst).src2 = inst.src2
         /\ Resolve(inst).immediate = inst.immediate /\ Resolve(inst).modulus = Modulus(inst)
<1>1. DOMAIN inst = {"opcode", "dest", "src1", "src2", "immediate", "modulus"}
  BY FileCodeAssumption DEF Instruction
<1> QED BY <1>1 DEF Resolve

LEMMA RecordComputes ==
  ASSUME NEW d, DriverOK(d), NEW mem, Computes(d, mem), NEW s, Ready(d, s),
         NEW inst \in FileCode, inst.opcode \notin InertOps, inst.dest \in FileAddrs,
         NEW a, NEW b, NEW token, NEW q,
         a.address \in 0 .. s.next_address - 1, b.address \in 0 .. s.next_address - 1,
         ReadsFirst(inst.opcode, inst.immediate) =>
           inst.src1 \in DOMAIN d.polys /\ a = d.polys[inst.src1],
         inst.opcode \in PolyPolyOps => inst.src2 \in DOMAIN d.polys /\ b = d.polys[inst.src2],
         inst.opcode # "automorph_eval" => token = Modulus(inst),
         NEW r, r = record(s, inst.opcode, a, b, inst.immediate, token, q),
         NEW e, e = put(d, inst.dest, r)
  PROVE  Computes(e, Step(mem, Resolve(inst)))
<1> DEFINE op == inst.opcode
           imm == inst.immediate
           rec == RecordedInst(s, op, a, b, imm, token)
           ri == Resolve(inst)
<1>0. /\ d.api.next_address \in Nat /\ d.api.recording = TRUE
      /\ s.next_address \in Nat /\ Api(s) /\ s.recording
  BY DEF DriverOK, Books, Api, Ready, SameBooks
<1>1. InPairs(e.api) = InPairs(d.api) /\ DOMAIN e.polys = DOMAIN d.polys \cup {inst.dest}
  <2>1. RecordedAt(d, s, inst.dest, e) BY RecordPut
  <2> QED BY <2>1 DEF RecordedAt
<1>2. e.api = r.api /\ e.polys = With(d.polys, inst.dest, r.out) /\ PolySet(e) \subseteq PolySet(d) \cup {r.out}
  BY PutIs
<1>3. Sound(e.api, InPairs(e.api), PolySet(e))
  <2>1. Sound(d.api, InPairs(d.api), PolySet(d)) BY DEF Computes
  <2>2. Sound(s, InPairs(d.api), PolySet(d)) BY <2>1, SoundSame DEF Ready
  <2>3. /\ ReadsFirst(op, imm) => a \in PolySet(d)
        /\ op \in PolyPolyOps => b \in PolySet(d)
    BY DEF PolySet
  <2>4. s.next_address < AddressSpace BY DEF Ready
  <2>5. Sound(r.api, IF op \in InertOps THEN InPairs(d.api) \cup {r.out} ELSE InPairs(d.api),
              PolySet(d) \cup {r.out})
    <3>1. PICK J, Q : J = InPairs(d.api) /\ Q = PolySet(d) OBVIOUS
    <3>2. /\ Sound(s, J, Q) /\ s.recording /\ s.next_address < AddressSpace
          /\ ReadsFirst(op, imm) => a \in Q
          /\ op \in PolyPolyOps => b \in Q
      BY <1>0, <2>2, <2>3, <2>4, <3>1
    <3> HIDE DEF op, imm
    <3>3. r = record(s, op, a, b, imm, token, q) BY DEF op, imm
    <3>4. Sound(r.api, IF op \in InertOps THEN J \cup {r.out} ELSE J, Q \cup {r.out})
      BY <3>2, <3>3, SoundRecord
    <3> QED BY <3>1, <3>4
  <2>6. Sound(r.api, InPairs(d.api), PolySet(d) \cup {r.out}) BY <2>5
  <2> QED BY <1>1, <1>2, <2>6, SoundFewer
<1>4. OneValue(InPairs(e.api)) BY <1>1 DEF Computes
<1>5. r.out.term = Value(rec, a.term, b.term)
  <2> HIDE DEF rec
  <2> QED BY <1>0, RecordIs DEF Ready, rec
<1>6. rec.opcode = op /\ rec.immediate = imm /\ rec.modulus = token
  BY DEF RecordedInst, ir, Instruction
<1>7. /\ ri.opcode = op /\ ri.dest = inst.dest /\ ri.src1 = inst.src1 /\ ri.src2 = inst.src2
      /\ ri.immediate = imm /\ ri.modulus = Modulus(inst)
  BY ResolveIs
<1> HIDE DEF rec, ri
<1>8. r.out.term = Value(ri, At(mem, ri.src1), At(mem, ri.src2))
  <2>1. Value(rec, a.term, b.term) = Value(ri, a.term, b.term) BY <1>6, <1>7, ValueSame
  <2>2. ReadsFirst(ri.opcode, ri.immediate) => a.term = At(mem, ri.src1)
    BY <1>7 DEF Computes
  <2>3. ri.opcode \in PolyPolyOps => b.term = At(mem, ri.src2)
    BY <1>7 DEF Computes
  <2>4. Value(ri, a.term, b.term) = Value(ri, At(mem, ri.src1), At(mem, ri.src2))
    BY <2>2, <2>3, ValueReads
  <2> QED BY <1>5, <2>1, <2>4
<1>9. \A y : At(Step(mem, ri), y) = IF y = inst.dest THEN r.out.term ELSE At(mem, y)
  BY <1>7, <1>8, StepAt
<1>10. \A y \in DOMAIN e.polys : e.polys[y].term = At(Step(mem, ri), y)
  <2>1. PICK f, g, v : f = d.polys /\ g = e.polys /\ v = r.out OBVIOUS
  <2>2. g = With(f, inst.dest, v) BY <1>2, <2>1
  <2> SUFFICES ASSUME NEW y \in DOMAIN g PROVE g[y].term = At(Step(mem, ri), y) BY <2>1
  <2>3. CASE y = inst.dest BY <1>9, <2>1, <2>2, <2>3 DEF With
  <2>4. CASE y # inst.dest
    <3>1. y \in DOMAIN f /\ g[y] = f[y] BY <2>2, <2>4 DEF With
    <3>2. f[y].term = At(mem, y) BY <2>1, <3>1 DEF Computes
    <3> QED BY <1>9, <2>4, <3>1, <3>2
  <2> QED BY <2>3, <2>4
<1>11. \A y \in FileAddrs \ DOMAIN e.polys : At(Step(mem, ri), y) = At(Given, y)
  BY <1>1, <1>9 DEF Computes
<1> QED BY <1>3, <1>4, <1>10, <1>11 DEF Computes, ri

LEMMA PutOver ==
  ASSUME NEW d, NEW a, NEW z, NEW r
  PROVE  put(put(d, a, z), a, r) = put(d, a, r)
<1>1. PICK f, v, w : f = d.polys /\ v = z.out /\ w = r.out OBVIOUS
<1>2. With(With(f, a, v), a, w) = With(f, a, w) BY DEF With
<1>3. put(d, a, z).polys = With(f, a, v) BY <1>1, PutIs
<1> QED BY <1>1, <1>2, <1>3 DEF put

LEMMA SourcesAre ==
  ASSUME NEW d, DriverOK(d), NEW inst \in FileCode, inst.opcode # "halt",
         NEW e, e = SourcesOf(d, inst)
  PROVE  /\ DriverOK(e) /\ inst.src1 \in DOMAIN e.polys
         /\ inst.opcode \in TwoSources => inst.src2 \in DOMAIN e.polys
         /\ e.api.next_address >= d.api.next_address
         /\ e.api.next_address <= d.api.next_address + 2
         /\ inst.opcode \notin TwoSources => e.api.next_address <= d.api.next_address + 1
         /\ ~IsZeroInit(inst) =>
              Took(d, e, IF inst.opcode \in TwoSources THEN {inst.src1, inst.src2} ELSE {inst.src1})
<1> DEFINE one == IF IsZeroInit(inst) THEN get_or_create_zero_src(d, inst.src1)
                  ELSE get_or_create_src(d, inst.src1)
<1>1. inst.src1 \in FileAddrs /\ (inst.opcode \in TwoSources => inst.src2 \in FileAddrs)
  BY FileCodeAssumption
<1>2. e = IF inst.opcode \in TwoSources THEN get_or_create_src(one, inst.src2) ELSE one
  BY DEF SourcesOf
<1>3. /\ DriverOK(one) /\ inst.src1 \in DOMAIN one.polys
      /\ one.api.next_address >= d.api.next_address
      /\ one.api.next_address <= d.api.next_address + 1
      /\ ~IsZeroInit(inst) => Took(d, one, {inst.src1})
  <2>1. CASE IsZeroInit(inst)
    <3>1. one = get_or_create_zero_src(d, inst.src1) BY <2>1
    <3> HIDE DEF one
    <3>2. /\ DriverOK(one) /\ DOMAIN one.polys = DOMAIN d.polys \cup {inst.src1}
          /\ one.api.next_address >= d.api.next_address
          /\ one.api.next_address <= d.api.next_address + 1
      BY <1>1, <3>1, ZeroSource
    <3> QED BY <2>1, <3>2
  <2>2. CASE ~IsZeroInit(inst)
    <3>1. one = get_or_create_src(d, inst.src1) BY <2>2
    <3> HIDE DEF one
    <3>2. Took(d, one, {inst.src1}) /\ one.api.next_address <= d.api.next_address + 1
      BY <1>1, <3>1, SourceTook
    <3> QED BY <3>2 DEF Took
  <2> QED BY <2>1, <2>2
<1> HIDE DEF one
<1>4. d.api.next_address \in Nat /\ one.api.next_address \in Nat
  BY <1>3 DEF DriverOK, Books, Api
<1>5. CASE inst.opcode \notin TwoSources
  <2>1. e = one BY <1>2, <1>5
  <2> QED BY <1>3, <1>4, <1>5, <2>1
<1>6. CASE inst.opcode \in TwoSources
  <2>1. e = get_or_create_src(one, inst.src2) BY <1>2, <1>6
  <2>2. Took(one, e, {inst.src2}) /\ e.api.next_address <= one.api.next_address + 1
    BY <1>1, <1>3, <1>6, <2>1, SourceTook
  <2>3. e.api.next_address \in Nat /\ e.api.next_address >= one.api.next_address
    BY <2>2 DEF Took, DriverOK, Books, Api
  <2>4. DriverOK(e) /\ inst.src1 \in DOMAIN e.polys /\ inst.src2 \in DOMAIN e.polys
    BY <1>3, <2>2 DEF Took
  <2>5. ~IsZeroInit(inst) => Took(d, e, {inst.src1} \cup {inst.src2}) BY <1>3, <2>2, TookBoth
  <2>6. {inst.src1} \cup {inst.src2} = {inst.src1, inst.src2} OBVIOUS
  <2>7. e.api.next_address >= d.api.next_address /\ e.api.next_address <= d.api.next_address + 2
    BY <1>3, <1>4, <2>2, <2>3
  <2> QED BY <1>6, <2>4, <2>5, <2>6, <2>7
<1> QED BY <1>5, <1>6

(* drive_instruction() is the recorded call on the sources. *)
LEMMA DriveIs ==
  ASSUME NEW d, DriverOK(d), d.api.next_address + 3 <= AddressSpace,
         NEW inst \in FileCode, inst.opcode # "halt",
         NEW e, e = drive_instruction(d, inst),
         NEW ready, ready = SourcesOf(d, inst)
  PROVE  \E s, a, b, token, q :
           /\ Ready(ready, s) /\ s.next_address <= d.api.next_address + 2
           /\ a = ready.polys[inst.src1]
           /\ b = IF inst.opcode \in TwoSources THEN ready.polys[inst.src2] ELSE a
           /\ inst.opcode \notin InertOps \cup {"automorph_eval"} => token = Modulus(inst)
           /\ e = put(ready, inst.dest, record(s, inst.opcode, a, b, inst.immediate, token, q))
<1> DEFINE op == inst.opcode
           a == ready.polys[inst.src1]
           b == IF op \in TwoSources THEN ready.polys[inst.src2] ELSE a
           s == IF op \in ScalarOps THEN from_int(ready.api) ELSE ready.api
           m == IF op \in InertOps \ {"permute", "automorph_coeff"} THEN None ELSE Modulus(inst)
           token == IF op = "automorph_eval" THEN COPY_SENTINEL ELSE m
           q == IF op = "automorph_eval" THEN None ELSE m
<1>1. e = put(ready, inst.dest, record(s, op, a, b, inst.immediate, token, q))
  <2>1. CASE op = "automorph_eval"
    <3>1. op \notin ScalarOps /\ op \notin TwoSources /\ op \notin InertOps BY <2>1 DEF ScalarOps, TwoSources, PolyPolyOps, InertOps
    <3> QED BY <2>1, <3>1 DEF drive_instruction, sr_automorph_eval
  <2>2. CASE op # "automorph_eval" BY <2>2 DEF drive_instruction, sr
  <2> QED BY <2>1, <2>2
<1>2. op \notin InertOps \cup {"automorph_eval"} => token = Modulus(inst) OBVIOUS
<1>3. /\ DriverOK(ready) /\ ready.api.next_address >= d.api.next_address
      /\ ready.api.next_address <= d.api.next_address + 2
      /\ op \notin TwoSources => ready.api.next_address <= d.api.next_address + 1
  BY SourcesAre
<1>4. Api(ready.api) /\ ready.api.next_address \in Nat /\ d.api.next_address \in Nat
  BY <1>3 DEF DriverOK, Books, Api
<1>5. op \in ScalarOps => op \notin TwoSources BY DEF ScalarOps, TwoSources, PolyPolyOps
<1>6. Ready(ready, s) /\ s.next_address <= d.api.next_address + 2
  <2>1. CASE op \in ScalarOps
    <3>1. s = Alloc(ready.api) BY <2>1 DEF from_int
    <3>2. /\ Api(s) /\ SameBooks(ready.api, s) /\ s.log = ready.api.log
          /\ s.next_address = ready.api.next_address + 1
      BY <1>4, <3>1, AllocIs
    <3> QED BY <1>3, <1>4, <1>5, <2>1, <3>2, AddressSpaceAssumption DEF Ready
  <2>2. CASE op \notin ScalarOps
    <3>1. s = ready.api BY <2>2
    <3>2. SameBooks(ready.api, ready.api) BY DEF SameBooks
    <3> QED BY <1>3, <1>4, <3>1, <3>2, AddressSpaceAssumption DEF Ready
  <2> QED BY <2>1, <2>2
<1> HIDE DEF a, s, m, token, q
<1>7. \E z : z = a OBVIOUS
<1> QED BY <1>1, <1>2, <1>6 DEF a

LEMMA OperandsBelow ==
  ASSUME NEW d, DriverOK(d), NEW s, Ready(d, s), NEW x \in DOMAIN d.polys
  PROVE  d.polys[x].address \in 0 .. s.next_address - 1
<1>1. d.polys[x].address \in 0 .. d.api.next_address - 1 BY DEF DriverOK, PolySet, Below
<1>2. d.api.next_address \in Nat /\ s.next_address \in Nat BY DEF DriverOK, Books, Api, Ready
<1> QED BY <1>1, <1>2 DEF Ready

(* Every instruction keeps the driver's books. *)
LEMMA DriveOK ==
  ASSUME NEW d, DriverOK(d), d.api.next_address + 3 <= AddressSpace,
         NEW inst \in FileCode, NEW e, e = drive_instruction(d, inst)
  PROVE  DriverOK(e) /\ e.api.next_address <= d.api.next_address + 3
<1>0. d.api.next_address \in Nat BY DEF DriverOK, Books, Api
<1>1. CASE inst.opcode = "halt"
  <2>1. e = [d EXCEPT !.api = halt(@)] BY <1>1 DEF drive_instruction
  <2>2. DOMAIN e = DOMAIN d /\ e.api = halt(d.api) /\ e.polys = d.polys BY <2>1 DEF DriverOK
  <2>3. Api(d.api) /\ Books(d.api) /\ d.api.recording BY DEF DriverOK, Books
  <2>4. Api(halt(d.api)) /\ SameBooks(d.api, halt(d.api)) /\ halt(d.api).next_address = d.api.next_address
    BY <2>3, HaltIs
  <2>5. Books(e.api) BY <2>2, <2>3, <2>4, SameBooksBooks
  <2>6. PolySet(e) = PolySet(d) BY <2>2 DEF PolySet
  <2> QED BY <1>0, <2>2, <2>4, <2>5, <2>6 DEF DriverOK
<1>2. CASE inst.opcode # "halt"
  <2>1. PICK ready : ready = SourcesOf(d, inst) OBVIOUS
  <2>2. PICK s, a, b, token, q :
           /\ Ready(ready, s) /\ s.next_address <= d.api.next_address + 2
           /\ a = ready.polys[inst.src1]
           /\ b = IF inst.opcode \in TwoSources THEN ready.polys[inst.src2] ELSE a
           /\ e = put(ready, inst.dest, record(s, inst.opcode, a, b, inst.immediate, token, q))
    BY <1>2, <2>1, DriveIs
  <2>3. /\ DriverOK(ready) /\ inst.src1 \in DOMAIN ready.polys
        /\ inst.opcode \in TwoSources => inst.src2 \in DOMAIN ready.polys
    BY <1>2, <2>1, SourcesAre
  <2>4. a.address \in 0 .. s.next_address - 1 /\ b.address \in 0 .. s.next_address - 1
    BY <2>2, <2>3, OperandsBelow
  <2>5. inst.dest \in FileAddrs BY <1>2, FileCodeAssumption
  <2>6. DriverOK(e) /\ e.api.next_address = s.next_address + 1
    <3>1. RecordedAt(ready, s, inst.dest, e) BY <2>2, <2>3, <2>4, <2>5, RecordPut
    <3> QED BY <3>1 DEF RecordedAt
  <2>7. s.next_address \in Nat BY <2>2 DEF Ready, Api
  <2> QED BY <1>0, <2>2, <2>6, <2>7
<1> QED BY <1>1, <1>2

-----------------------------------------------------------------------------
(* Live-ins *)

WrittenBy(prog) == UNION {Writes(prog[j]) : j \in DOMAIN prog}

(* The driver holds a polynomial for each address the file has used, and   *)
(* its inputs are the live-ins so far.                                     *)
LiveIns(d, prog) ==
  /\ DOMAIN d.polys = ReadBeforeWrite(prog) \cup WrittenBy(prog)
  /\ RecNames(d.api.captured_inputs) \subseteq ReadBeforeWrite(prog)
  /\ RegNames(d.api) \subseteq ReadBeforeWrite(prog)
  /\ \A a \in ReadBeforeWrite(prog) : inputs[a] = "given" => a \in RecNames(d.api.captured_inputs)

LEMMA UsedAre ==
  ASSUME NEW prog, IsSeq(prog)
  PROVE  Used(prog, Len(prog)) \subseteq ReadBeforeWrite(prog) \cup WrittenBy(prog)
<1>1. Len(prog) \in Nat /\ DOMAIN prog = 1 .. Len(prog) BY SeqFacts
<1> SUFFICES ASSUME NEW i \in 1 .. Len(prog), NEW a \in Reads(prog[i]), a \notin WrittenBy(prog)
             PROVE  a \in ReadBeforeWrite(prog)
  BY <1>1 DEF Used, WrittenBy
<1>2. \A j \in 1 .. i - 1 : j \in DOMAIN prog BY <1>1
<1>3. \A j \in 1 .. i - 1 : a \notin Writes(prog[j]) BY <1>2 DEF WrittenBy
<1> QED BY <1>1, <1>3 DEF ReadBeforeWrite

LEMMA AppendLive ==
  ASSUME NEW prog, IsSeq(prog), NEW inst
  PROVE  /\ WrittenBy(Append(prog, inst)) = WrittenBy(prog) \cup Writes(inst)
         /\ ReadBeforeWrite(Append(prog, inst)) =
              ReadBeforeWrite(prog) \cup (Reads(inst) \ WrittenBy(prog))
<1> DEFINE more == Append(prog, inst)
<1>1. /\ Len(prog) \in Nat /\ DOMAIN prog = 1 .. Len(prog) /\ DOMAIN more = 1 .. Len(prog) + 1
      /\ more[Len(prog) + 1] = inst /\ \A i \in 1 .. Len(prog) : more[i] = prog[i]
  BY AppendIsSeq
<1> HIDE DEF more
<1>2. PICK n \in Nat : n = Len(prog) BY <1>1
<1>3. 1 .. n + 1 = (1 .. n) \cup {n + 1} /\ (n + 1) - 1 = n /\ \A i \in 1 .. n : 1 .. i - 1 \subseteq 1 .. n
  BY <1>2
<1>4. WrittenBy(more) = WrittenBy(prog) \cup Writes(inst)
  BY <1>1, <1>2, <1>3 DEF WrittenBy
<1> DEFINE New(p, i) == {a \in Reads(p[i]) : \A j \in 1 .. i - 1 : a \notin Writes(p[j])}
<1>5. \A i \in 1 .. n : New(more, i) = New(prog, i) BY <1>1, <1>2, <1>3
<1>6. New(more, n + 1) = Reads(inst) \ WrittenBy(prog)
  <2>1. WrittenBy(prog) = UNION {Writes(more[j]) : j \in 1 .. n} BY <1>1, <1>2 DEF WrittenBy
  <2> QED BY <1>1, <1>2, <1>3, <2>1
<1>7. ReadBeforeWrite(prog) = UNION {New(prog, i) : i \in 1 .. n} BY <1>1, <1>2 DEF ReadBeforeWrite
<1>8. ReadBeforeWrite(more) = UNION {New(more, i) : i \in 1 .. n + 1} BY <1>1, <1>2 DEF ReadBeforeWrite
<1> HIDE DEF New
<1>9. ReadBeforeWrite(more) = ReadBeforeWrite(prog) \cup (Reads(inst) \ WrittenBy(prog))
  BY <1>3, <1>5, <1>6, <1>7, <1>8
<1> QED BY <1>4, <1>9 DEF more

(* The sources of an instruction that reads are its reads. *)
LEMMA ReadsAre ==
  ASSUME NEW inst \in FileCode, inst.opcode \notin InertOps, ~IsZeroInit(inst)
  PROVE  Reads(inst) = IF inst.opcode \in TwoSources THEN {inst.src1, inst.src2} ELSE {inst.src1}
<1>1. inst.opcode \in TwoSources <=> inst.opcode \in PolyPolyOps
  BY DEF TwoSources, InertOps
<1> QED BY <1>1 DEF Reads

Drives(d, e, prog, inst) ==
  /\ LiveIns(e, Append(prog, inst))
  /\ \A mem : Computes(d, mem) => Computes(e, Step(mem, Resolve(inst)))

(* An instruction that reads its sources. *)
LEMMA DriveReads ==
  ASSUME NEW prog, IsSeq(prog), NEW d, DriverOK(d), LiveIns(d, prog),
         NEW inst \in FileCode, inst.opcode \notin InertOps, ~IsZeroInit(inst),
         d.api.next_address + 3 <= AddressSpace,
         NEW e, e = drive_instruction(d, inst)
  PROVE  Drives(d, e, prog, inst)
<1>0. inst.opcode # "halt" BY DEF InertOps
<1>1. PICK ready : ready = SourcesOf(d, inst) OBVIOUS
<1>2. PICK s, a, b, token, q :
         /\ Ready(ready, s)
         /\ a = ready.polys[inst.src1]
         /\ b = IF inst.opcode \in TwoSources THEN ready.polys[inst.src2] ELSE a
         /\ inst.opcode \notin InertOps \cup {"automorph_eval"} => token = Modulus(inst)
         /\ e = put(ready, inst.dest, record(s, inst.opcode, a, b, inst.immediate, token, q))
  BY <1>0, <1>1, DriveIs
<1>3. /\ DriverOK(ready) /\ inst.src1 \in DOMAIN ready.polys
      /\ inst.opcode \in TwoSources => inst.src2 \in DOMAIN ready.polys
      /\ Took(d, ready, Reads(inst))
  <2>1. /\ DriverOK(ready) /\ inst.src1 \in DOMAIN ready.polys
        /\ inst.opcode \in TwoSources => inst.src2 \in DOMAIN ready.polys
        /\ Took(d, ready, IF inst.opcode \in TwoSources THEN {inst.src1, inst.src2} ELSE {inst.src1})
    BY <1>0, <1>1, SourcesAre
  <2>2. Reads(inst) = IF inst.opcode \in TwoSources THEN {inst.src1, inst.src2} ELSE {inst.src1}
    BY ReadsAre
  <2> QED BY <2>1, <2>2
<1>4. a.address \in 0 .. s.next_address - 1 /\ b.address \in 0 .. s.next_address - 1
  BY <1>2, <1>3, OperandsBelow
<1>5. inst.dest \in FileAddrs BY <1>0, FileCodeAssumption
<1>6. PICK r : r = record(s, inst.opcode, a, b, inst.immediate, token, q) OBVIOUS
<1>7. e = put(ready, inst.dest, r) BY <1>2, <1>6
<1>8. /\ DOMAIN e.polys = DOMAIN ready.polys \cup {inst.dest}
      /\ RecNames(e.api.captured_inputs) = RecNames(ready.api.captured_inputs)
      /\ RegNames(e.api) = RegNames(ready.api)
  <2>1. RecordedAt(ready, s, inst.dest, e) BY <1>2, <1>3, <1>4, <1>5, <1>6, <1>7, RecordPut
  <2> QED BY <2>1 DEF RecordedAt
<1>9. ASSUME NEW mem, Computes(d, mem) PROVE Computes(e, Step(mem, Resolve(inst)))
  <2>1. Computes(ready, mem) BY <1>3, <1>9 DEF Took
  <2>2. inst.opcode \in PolyPolyOps => inst.src2 \in DOMAIN ready.polys /\ b = ready.polys[inst.src2]
    BY <1>2, <1>3 DEF TwoSources
  <2>3. inst.opcode # "automorph_eval" => token = Modulus(inst) BY <1>2
  <2> QED BY <1>2, <1>3, <1>4, <1>5, <1>6, <1>7, <2>1, <2>2, <2>3, RecordComputes
<1>10. LiveIns(e, Append(prog, inst))
  <2> DEFINE R == ReadBeforeWrite(prog)
             W == WrittenBy(prog)
             A == Reads(inst)
             more == Append(prog, inst)
  <2>1. Writes(inst) = {inst.dest} BY DEF Writes
  <2>2. WrittenBy(more) = W \cup {inst.dest} /\ ReadBeforeWrite(more) = R \cup (A \ W)
    BY <2>1, AppendLive
  <2>3. DOMAIN d.polys = R \cup W BY DEF LiveIns
  <2>4. DOMAIN e.polys = (R \cup W) \cup A \cup {inst.dest} BY <1>3, <1>8, <2>3 DEF Took
  <2>5. RecNames(e.api.captured_inputs) =
          RecNames(d.api.captured_inputs) \cup {x \in A \ (R \cup W) : inputs[x] = "given"}
    BY <1>3, <1>8, <2>3 DEF Took
  <2>6. RegNames(e.api) \subseteq RegNames(d.api) \cup (A \ (R \cup W))
    BY <1>3, <1>8, <2>3 DEF Took
  <2>7. RecNames(d.api.captured_inputs) \subseteq R /\ RegNames(d.api) \subseteq R
        /\ \A x \in R : inputs[x] = "given" => x \in RecNames(d.api.captured_inputs)
    BY DEF LiveIns
  <2> HIDE DEF R, W, A, more
  <2>8. DOMAIN e.polys = ReadBeforeWrite(more) \cup WrittenBy(more) BY <2>2, <2>4
  <2>9. RecNames(e.api.captured_inputs) \subseteq ReadBeforeWrite(more) BY <2>2, <2>5, <2>7
  <2>10. RegNames(e.api) \subseteq ReadBeforeWrite(more) BY <2>2, <2>6, <2>7
  <2>11. \A x \in ReadBeforeWrite(more) : inputs[x] = "given" => x \in RecNames(e.api.captured_inputs)
    BY <2>2, <2>5, <2>7
  <2> QED BY <2>8, <2>9, <2>10, <2>11 DEF LiveIns, more
<1> QED BY <1>9, <1>10 DEF Drives

(* A zero-init on its destination, or on an address used before. *)
LEMMA DriveZeroInit ==
  ASSUME NEW prog, IsSeq(prog), NEW d, DriverOK(d), LiveIns(d, prog),
         NEW inst \in FileCode, IsZeroInit(inst),
         inst.src1 \in {inst.dest} \cup DOMAIN d.polys,
         d.api.next_address + 3 <= AddressSpace,
         NEW e, e = drive_instruction(d, inst)
  PROVE  Drives(d, e, prog, inst)
<1>0. /\ inst.opcode = "mulps" /\ inst.immediate = 0 /\ inst.opcode # "halt"
      /\ inst.opcode \notin InertOps /\ inst.opcode \notin TwoSources
      /\ inst.opcode \notin PolyPolyOps
  BY DEF IsZeroInit, InertOps, TwoSources, PolyPolyOps
<1>1. PICK ready : ready = SourcesOf(d, inst) OBVIOUS
<1>2. PICK s, a, b, token, q :
         /\ Ready(ready, s)
         /\ a = ready.polys[inst.src1]
         /\ b = IF inst.opcode \in TwoSources THEN ready.polys[inst.src2] ELSE a
         /\ inst.opcode \notin InertOps \cup {"automorph_eval"} => token = Modulus(inst)
         /\ e = put(ready, inst.dest, record(s, inst.opcode, a, b, inst.immediate, token, q))
  BY <1>0, <1>1, DriveIs
<1>3. DriverOK(ready) /\ inst.src1 \in DOMAIN ready.polys BY <1>0, <1>1, SourcesAre
<1>4. a.address \in 0 .. s.next_address - 1 /\ b.address \in 0 .. s.next_address - 1
  BY <1>0, <1>2, <1>3, OperandsBelow
<1>5. inst.dest \in FileAddrs /\ inst.src1 \in FileAddrs BY <1>0, FileCodeAssumption
<1>6. PICK r : r = record(s, inst.opcode, a, b, inst.immediate, token, q) OBVIOUS
<1>7. ready = get_or_create_zero_src(d, inst.src1) BY <1>0, <1>1 DEF SourcesOf
<1>8. Ready(d, s)
  <2>1. /\ ready.api.next_address >= d.api.next_address /\ ready.api.log = d.api.log
        /\ SameBooks(d.api, ready.api)
    BY <1>5, <1>7, ZeroSource
  <2>2. /\ d.api.next_address \in Nat /\ ready.api.next_address \in Nat /\ s.next_address \in Nat
    BY <1>2, <1>3 DEF DriverOK, Books, Api, Ready
  <2>3. s.next_address >= d.api.next_address BY <1>2, <2>1, <2>2 DEF Ready
  <2> QED BY <1>2, <2>1, <2>3 DEF Ready, SameBooks
<1>9. e = put(d, inst.dest, r)
  <2>1. CASE inst.src1 \in DOMAIN d.polys
    <3>1. ready = d BY <1>7, <2>1 DEF get_or_create_zero_src
    <3> QED BY <1>2, <1>6, <3>1
  <2>2. CASE inst.src1 \notin DOMAIN d.polys
    <3>1. inst.src1 = inst.dest BY <2>2
    <3>2. PICK z : z = zeros(d.api) OBVIOUS
    <3>3. ready = put(d, inst.dest, z) BY <1>7, <2>2, <3>1, <3>2 DEF get_or_create_zero_src
    <3> QED BY <1>2, <1>6, <3>3, PutOver
  <2> QED BY <2>1, <2>2
<1>10. /\ DOMAIN e.polys = DOMAIN d.polys \cup {inst.dest}
       /\ RecNames(e.api.captured_inputs) = RecNames(d.api.captured_inputs)
       /\ RegNames(e.api) = RegNames(d.api)
  <2>1. RecordedAt(d, s, inst.dest, e) BY <1>4, <1>5, <1>6, <1>8, <1>9, RecordPut
  <2> QED BY <2>1 DEF RecordedAt
<1>11. ASSUME NEW mem, Computes(d, mem) PROVE Computes(e, Step(mem, Resolve(inst)))
  <2>1. ~ReadsFirst(inst.opcode, inst.immediate) BY <1>0 DEF ReadsFirst
  <2>2. token = Modulus(inst) BY <1>0, <1>2
  <2> QED BY <1>0, <1>4, <1>5, <1>6, <1>8, <1>9, <1>11, <2>1, <2>2, RecordComputes
<1>12. LiveIns(e, Append(prog, inst))
  <2>1. Writes(inst) = {inst.dest} BY <1>0 DEF Writes
  <2>2. Reads(inst) = {} BY DEF Reads
  <2> QED BY <1>10, <2>1, <2>2, AppendLive DEF LiveIns
<1> QED BY <1>11, <1>12 DEF Drives

LEMMA DriveHalt ==
  ASSUME NEW prog, IsSeq(prog), NEW d, DriverOK(d), LiveIns(d, prog),
         NEW inst \in FileCode, inst.opcode = "halt",
         NEW e, e = drive_instruction(d, inst)
  PROVE  Drives(d, e, prog, inst)
<1>1. e = [d EXCEPT !.api = halt(@)] BY DEF drive_instruction
<1>2. e.api = halt(d.api) /\ e.polys = d.polys BY <1>1 DEF DriverOK
<1>3. Api(d.api) /\ Books(d.api) /\ d.api.recording BY DEF DriverOK, Books
<1>4. Api(halt(d.api)) /\ SameBooks(d.api, halt(d.api)) BY <1>3, HaltIs
<1>5. /\ InPairs(e.api) = InPairs(d.api) /\ RegNames(e.api) = RegNames(d.api)
      /\ RecNames(e.api.captured_inputs) = RecNames(d.api.captured_inputs)
  BY <1>2, <1>3, <1>4, SameBooksBooks
<1>6. PolySet(e) = PolySet(d) BY <1>2 DEF PolySet
<1>7. Resolve(inst).opcode \in InertOps BY ResolveIs DEF InertOps
<1>8. \A mem : Step(mem, Resolve(inst)) = mem BY <1>7 DEF Step, Writes
<1>9. ASSUME NEW mem, Computes(d, mem) PROVE Computes(e, mem)
  <2>1. Sound(e.api, InPairs(e.api), PolySet(e))
    BY <1>2, <1>3, <1>5, <1>6, <1>9, SoundHalt DEF Computes
  <2> QED BY <1>2, <1>5, <1>9, <2>1 DEF Computes
<1>10. Writes(inst) = {} /\ Reads(inst) = {} BY DEF Writes, Reads, InertOps
<1>11. LiveIns(e, Append(prog, inst)) BY <1>2, <1>5, <1>10, AppendLive DEF LiveIns
<1> QED BY <1>8, <1>9, <1>11 DEF Drives
-----------------------------------------------------------------------------
(* The outputs *)

(* e is d with the first n outputs tagged. *)
FinalTags(d, e, n) ==
  /\ DOMAIN e = {"api", "polys"} /\ e.polys = d.polys /\ Api(e.api)
  /\ IsSeq(e.api.probe_registry)
  /\ e.api.next_address = d.api.next_address /\ e.api.log = d.api.log
  /\ e.api.synced = d.api.synced /\ e.api.recording = d.api.recording
  /\ e.api.input_registry = d.api.input_registry
  /\ e.api.captured_inputs = d.api.captured_inputs
  /\ e.api.captured_outputs = d.api.captured_outputs
  /\ ToSet(Outputs) \subseteq DOMAIN d.polys =>
       /\ Len(e.api.probe_registry) = n
       /\ \A i \in 1 .. n : e.api.probe_registry[i] = OfPolynomial("out", d.polys[Outputs[i]])

LEMMA FinalTag ==
  ASSUME NEW d, NEW e, NEW n \in 1 .. Len(Outputs), FinalTags(d, e, n - 1),
         NEW f, f = tag_final(e, Outputs[n])
  PROVE  FinalTags(d, f, n)
<1>0. n \in Nat /\ n - 1 \in Nat /\ (n - 1) + 1 = n BY OutputsAssumption
<1> DEFINE a == Outputs[n]
<1>1. CASE a \in DOMAIN e.polys
  <2> DEFINE entry == OfPolynomial("out", e.polys[a])
             reg == e.api.probe_registry
  <2>1. f = [e EXCEPT !.api = tag_output(@, entry)] BY <1>1 DEF tag_final
  <2> HIDE DEF entry, a
  <2>2. DOMAIN f = {"api", "polys"} /\ f.polys = e.polys /\ f.api = tag_output(e.api, entry)
    BY <2>1 DEF FinalTags
  <2>3. PICK s, t : s = e.api /\ t = f.api OBVIOUS
  <2>4. /\ Api(t) /\ t.probe_registry = Append(s.probe_registry, entry)
        /\ t.input_registry = s.input_registry
        /\ t.next_address = s.next_address /\ t.log = s.log
        /\ t.synced = s.synced /\ t.recording = s.recording
        /\ t.captured_inputs = s.captured_inputs /\ t.captured_outputs = s.captured_outputs
    BY <2>2, <2>3, TagOutputIs DEF FinalTags
  <2>5. IsSeq(reg) /\ t.probe_registry = Append(reg, entry) BY <2>3, <2>4 DEF FinalTags
  <2>6. /\ IsSeq(t.probe_registry) /\ Len(t.probe_registry) = Len(reg) + 1
        /\ t.probe_registry[Len(reg) + 1] = entry
        /\ \A i \in 1 .. Len(reg) : t.probe_registry[i] = reg[i]
    BY <2>5, AppendIsSeq
  <2>7. ASSUME ToSet(Outputs) \subseteq DOMAIN d.polys
        PROVE  /\ Len(t.probe_registry) = n
               /\ \A i \in 1 .. n : t.probe_registry[i] = OfPolynomial("out", d.polys[Outputs[i]])
    <3>1. Len(reg) = n - 1 /\ \A i \in 1 .. n - 1 : reg[i] = OfPolynomial("out", d.polys[Outputs[i]])
      BY <2>7 DEF FinalTags
    <3>2. entry = OfPolynomial("out", d.polys[Outputs[n]]) BY DEF entry, a, FinalTags
    <3>3. 1 .. n = (1 .. n - 1) \cup {n} BY <1>0
    <3> HIDE DEF reg
    <3>4. t.probe_registry[n] = entry /\ Len(t.probe_registry) = n BY <1>0, <2>6, <3>1
    <3>5. \A i \in 1 .. n - 1 : t.probe_registry[i] = reg[i] BY <2>6, <3>1
    <3> QED BY <3>1, <3>2, <3>3, <3>4, <3>5
  <2> QED BY <2>2, <2>3, <2>4, <2>6, <2>7 DEF FinalTags
<1>2. CASE a \notin DOMAIN e.polys
  <2>1. f = e BY <1>2 DEF tag_final
  <2>2. a \in ToSet(Outputs)
    <3>1. n \in DOMAIN Outputs BY OutputsAssumption
    <3> QED BY <3>1 DEF ToSet
  <2>3. ~(ToSet(Outputs) \subseteq DOMAIN d.polys) BY <1>2, <2>2 DEF FinalTags
  <2> QED BY <2>1, <2>3 DEF FinalTags
<1> QED BY <1>1, <1>2

(* finalize_outputs() tags the polynomial at every output address. *)
LEMMA FinalsAre ==
  ASSUME NEW d, DriverOK(d)
  PROVE  FinalTags(d, finalize_outputs(d), Len(Outputs))
<1> DEFINE f == Finals!Stages(d, Outputs)
           S == {n \in Nat : FinalTags(d, f[n], n)}
<1>1. Len(Outputs) \in Nat BY OutputsAssumption
<1>2. /\ f[0] = d
      /\ \A n \in 1 .. Len(Outputs) : f[n] = tag_final(f[n - 1], Outputs[n])
      /\ finalize_outputs(d) = f[Len(Outputs)]
  BY <1>1, Finals!StageSteps DEF finalize_outputs
<1> HIDE DEF f
<1>3. 0 \in S
  <2>1. DOMAIN d = {"api", "polys"} /\ Api(d.api) /\ d.api.probe_registry = <<>>
    BY DEF DriverOK, Books
  <2>2. IsSeq(d.api.probe_registry) /\ Len(d.api.probe_registry) = 0 BY <2>1 DEF IsSeq
  <2>3. FinalTags(d, d, 0) BY <2>1, <2>2 DEF FinalTags
  <2> QED BY <1>2, <2>3
<1>4. ASSUME NEW n \in 1 .. Len(Outputs), n - 1 \in S PROVE n \in S
  <2>1. f[n] = tag_final(f[n - 1], Outputs[n]) BY <1>2
  <2>2. FinalTags(d, f[n - 1], n - 1) BY <1>4
  <2>3. FinalTags(d, f[n], n) BY <2>1, <2>2, FinalTag
  <2> QED BY <1>1, <2>3
<1>5. Len(Outputs) \in S
  <2> HIDE DEF S
  <2> QED BY <1>1, <1>3, <1>4, Finals!LoopInduction
<1> QED BY <1>2, <1>5

(* The record of the first n outputs, at the addresses adr. *)
OneOutput(records, n, adr) ==
  IF n = 0 THEN records = <<>>
  ELSE \E r : /\ records = <<r>>
              /\ DOMAIN r = RecordFields /\ r.name = "out" /\ r.kind = "SRP"
              /\ IsSeq(r.elements) /\ Len(r.elements) = n
              /\ \A i \in 1 .. n : r.elements[i].addr_id = adr[i]

LEMMA StoreOutput ==
  ASSUME NEW records, NEW n \in Nat, NEW adr, OneOutput(records, n, adr),
         NEW x, x.name = "out", x.kind = "SRP", x.addr_id = adr[n + 1],
         NEW new, new = store_output(records, x)
  PROVE  OneOutput(new, n + 1, adr)
<1> DEFINE elem == Probe(x)
           known == \E j \in DOMAIN records : records[j].name = "out"
           fresh == [name |-> "out", kind |-> "SRP", element_starts |-> <<>>, elements |-> <<>>]
           all == IF known THEN records ELSE Append(records, fresh)
           i == CHOOSE j \in DOMAIN all : all[j].name = "out"
<1>1. elem.addr_id = adr[n + 1] BY DEF Probe
<1> HIDE DEF elem
<1>2. PICK r : /\ all = <<r>>
               /\ DOMAIN r = RecordFields /\ r.name = "out" /\ r.kind = "SRP"
               /\ IsSeq(r.elements) /\ Len(r.elements) = n
               /\ \A k \in 1 .. n : r.elements[k].addr_id = adr[k]
  <2>1. CASE n = 0
    <3>1. records = <<>> BY <2>1 DEF OneOutput
    <3>2. all = <<fresh>> BY <3>1
    <3>3. DOMAIN fresh = RecordFields /\ fresh.elements = <<>> /\ fresh.name = "out" /\ fresh.kind = "SRP"
      BY DEF RecordFields
    <3>4. IsSeq(<<>>) /\ Len(<<>>) = 0 BY DEF IsSeq
    <3> HIDE DEF fresh, all
    <3>5. IsSeq(fresh.elements) /\ Len(fresh.elements) = n BY <2>1, <3>3, <3>4
    <3>6. 1 .. n = {} BY <2>1
    <3> QED BY <3>2, <3>3, <3>5, <3>6
  <2>2. CASE n # 0
    <3>1. PICK r : /\ records = <<r>>
                   /\ DOMAIN r = RecordFields /\ r.name = "out" /\ r.kind = "SRP"
                   /\ IsSeq(r.elements) /\ Len(r.elements) = n
                   /\ \A k \in 1 .. n : r.elements[k].addr_id = adr[k]
      BY <2>2 DEF OneOutput
    <3>2. known
      <4>1. DOMAIN records = {1} /\ records[1] = r BY <3>1
      <4> QED BY <3>1, <4>1
    <3>3. all = records BY <3>2
    <3> HIDE DEF all
    <3> QED BY <3>1, <3>3
  <2> QED BY <2>1, <2>2
<1>3. new = store_element(records, "out", "SRP", x.starts, elem) BY DEF store_output, elem
<1>4. DOMAIN all = {1} /\ all[1] = r
  <2> HIDE DEF all
  <2> QED BY <1>2
<1>5. i = 1
  <2> HIDE DEF all
  <2> QED BY <1>2, <1>4
<1>6. PICK longer : new = [all EXCEPT ![i].element_starts = longer, ![i].elements = Append(@, elem)]
  <2>1. all[i].kind = "SRP"
    <3> HIDE DEF all, i
    <3> QED BY <1>2, <1>4, <1>5
  <2>2. new = [all EXCEPT
          ![i].element_starts = IF x.starts THEN Append(@, Len(all[i].elements)) ELSE @,
          ![i].elements = Append(@, elem)]
    BY <1>3, <2>1 DEF store_element
  <2> HIDE DEF all, i
  <2> QED BY <2>2
<1> DEFINE one == [r EXCEPT !.element_starts = longer, !.elements = Append(@, elem)]
<1>7. new = <<one>>
  <2> HIDE DEF all, i
  <2>1. new = [<<r>> EXCEPT ![1].element_starts = longer, ![1].elements = Append(@, elem)]
    BY <1>2, <1>5, <1>6
  <2> QED BY <1>2, <2>1 DEF RecordFields
<1>8. /\ DOMAIN one = RecordFields /\ one.name = "out" /\ one.kind = "SRP"
      /\ one.elements = Append(r.elements, elem)
  BY <1>2 DEF RecordFields
<1> HIDE DEF one
<1>9. PICK els : els = r.elements OBVIOUS
<1>10. /\ IsSeq(Append(els, elem)) /\ Len(Append(els, elem)) = n + 1
       /\ Append(els, elem)[n + 1] = elem
       /\ \A k \in 1 .. n : Append(els, elem)[k] = els[k]
  BY <1>2, <1>9, AppendIsSeq
<1>11. \A k \in 1 .. n + 1 : k \in 1 .. n \/ k = n + 1 OBVIOUS
<1>12. \A k \in 1 .. n + 1 : one.elements[k].addr_id = adr[k]
  BY <1>1, <1>2, <1>8, <1>9, <1>10, <1>11
<1>13. n + 1 # 0 OBVIOUS
<1>14. IsSeq(one.elements) /\ Len(one.elements) = n + 1 BY <1>8, <1>9, <1>10
<1>15. PICK o : o = one OBVIOUS
<1>16. /\ new = <<o>> /\ DOMAIN o = RecordFields /\ o.name = "out" /\ o.kind = "SRP"
       /\ IsSeq(o.elements) /\ Len(o.elements) = n + 1
       /\ \A k \in 1 .. n + 1 : o.elements[k].addr_id = adr[k]
  BY <1>7, <1>8, <1>12, <1>14, <1>15
<1> QED BY <1>13, <1>16 DEF OneOutput
(* What is stored of a tagged polynomial. *)
LEMMA TaggedPolynomial ==
  ASSUME NEW s, NEW name, NEW p, NEW rs, rs = Tagged(s, OfPolynomial(name, p))
  PROVE  /\ IsSeq(rs) /\ Len(rs) = 1 /\ DOMAIN rs = {1}
         /\ rs[1].name = name /\ rs[1].kind = "SRP"
         /\ rs[1].addr_id = p.address /\ rs[1].values = data_or_zeros(p)
<1> DEFINE e == OfPolynomial(name, p)
           one == Residue(p, None, FALSE)
<1>1. e.name = name /\ e.kind = "SRP" /\ e.residues = <<one>> BY DEF OfPolynomial
<1>2. one.poly = p BY DEF Residue
<1> HIDE DEF one
<1>3. IsSeq(e.residues) /\ Len(e.residues) = 1 /\ e.residues[1] = one /\ 1 .. 1 = {1}
  <2>1. <<one>> \in Seq({one}) /\ Len(<<one>>) = 1 /\ <<one>>[1] = one OBVIOUS
  <2>2. IsSeq(<<one>>) BY <2>1 DEF IsSeq
  <2>3. 1 .. 1 = {1} OBVIOUS
  <2> HIDE DEF e
  <2> QED BY <1>1, <2>1, <2>2, <2>3
<1>4. rs = Tagged(s, e) OBVIOUS
<1> HIDE DEF e
<1>5. /\ IsSeq(rs) /\ Len(rs) = Len(e.residues) /\ DOMAIN rs = 1 .. Len(e.residues)
      /\ \A j \in 1 .. Len(e.residues) :
           /\ rs[j].name = e.name /\ rs[j].kind = e.kind
           /\ rs[j].addr_id = e.residues[j].poly.address
           /\ rs[j].values = data_or_zeros(e.residues[j].poly)
  BY <1>3, <1>4, TaggedIs
<1> QED BY <1>1, <1>2, <1>3, <1>5

(* The captured outputs are the tagged polynomials, in their order. *)
LEMMA OutputsCaptured ==
  ASSUME NEW s, NEW reg, IsSeq(reg), NEW adr, NEW p,
         \A i \in 1 .. Len(reg) : reg[i] = OfPolynomial("out", p[i]) /\ adr[i] = p[i].address
  PROVE  OneOutput(AllOut!Fold(<<>>, TaggedAll(s, reg)), Len(reg), adr)
<1> DEFINE rss == TaggedAll(s, reg)
           f == AllOut!Stages(<<>>, rss)
           S == {n \in Nat : OneOutput(f[n], n, adr)}
<1>1. /\ Len(reg) \in Nat /\ Len(rss) = Len(reg)
      /\ \A i \in 1 .. Len(reg) : rss[i] = Tagged(s, reg[i])
  BY SeqFacts, TaggedAllIs
<1>2. /\ f[0] = <<>>
      /\ \A n \in 1 .. Len(rss) : f[n] = store_outputs(f[n - 1], rss[n])
      /\ AllOut!Fold(<<>>, rss) = f[Len(rss)]
  BY <1>1, AllOut!StageSteps
<1> HIDE DEF f, rss
<1>3. 0 \in S BY <1>2 DEF OneOutput
<1>4. ASSUME NEW n \in 1 .. Len(reg), n - 1 \in S PROVE n \in S
  <2>0. n \in Nat /\ n - 1 \in Nat /\ (n - 1) + 1 = n BY <1>1
  <2>1. PICK rs : rs = Tagged(s, reg[n]) OBVIOUS
  <2>2. reg[n] = OfPolynomial("out", p[n]) /\ adr[n] = p[n].address OBVIOUS
  <2>3. /\ IsSeq(rs) /\ Len(rs) = 1
        /\ rs[1].name = "out" /\ rs[1].kind = "SRP" /\ rs[1].addr_id = adr[n]
    BY <2>1, <2>2, TaggedPolynomial
  <2>4. f[n] = store_outputs(f[n - 1], rs) BY <1>1, <1>2, <2>1
  <2>5. PICK x : x = rs[1] OBVIOUS
  <2>6. rs = <<x>> BY <2>3, <2>5 DEF IsSeq
  <2>7. f[n] = store_output(f[n - 1], x) BY <2>4, <2>6, EntryOut!FoldOne DEF store_outputs
  <2>8. OneOutput(f[n - 1], n - 1, adr) BY <1>4
  <2>9. x.name = "out" /\ x.kind = "SRP" /\ x.addr_id = adr[(n - 1) + 1] BY <2>0, <2>3, <2>5
  <2>10. OneOutput(f[n], (n - 1) + 1, adr) BY <2>0, <2>7, <2>8, <2>9, StoreOutput
  <2> QED BY <2>0, <2>10
<1>5. Len(reg) \in S
  <2> HIDE DEF S
  <2> QED BY <1>1, <1>3, <1>4, AllOut!LoopInduction
<1> QED BY <1>1, <1>2, <1>5 DEF rss

-----------------------------------------------------------------------------
(* The inputs *)

InBooks(s) ==
  /\ Recs(s.captured_inputs) /\ Kinds(s.captured_inputs) \subseteq FileKinds
  /\ IsSeq(s.input_registry)
  /\ \A i \in DOMAIN s.input_registry : Placeholder(s.input_registry[i])

(* The memory replay() starts from holds the inputs: the sync stores only  *)
(* the zeros of the placeholders.                                          *)
LEMMA InputsLoaded ==
  ASSUME NEW s, InBooks(s),
         NEW new, new = AllIn!Fold(s.captured_inputs, TaggedAll(s, s.input_registry))
  PROVE  /\ RecNames(s.captured_inputs) \subseteq RecNames(new)
         /\ RecNames(new) \subseteq RecNames(s.captured_inputs) \cup RegNames(s)
         /\ OneValue(InPairs(s)) => Agrees(Loaded(new), InPairs(s))
<1> DEFINE reg == s.input_registry
           ci == s.captured_inputs
           rss == TaggedAll(s, reg)
           n == Len(reg)
           Pair(el) == [address |-> el.addr_id, term |-> el.values]
<1>0. /\ IsSeq(reg) /\ n \in Nat /\ DOMAIN reg = 1 .. n
      /\ IsSeq(rss) /\ Len(rss) = n /\ DOMAIN rss = 1 .. n
      /\ \A i \in 1 .. n : rss[i] = Tagged(s, reg[i])
  BY SeqFacts, TaggedAllIs DEF InBooks
<1>1. Recs(ci) /\ Kinds(ci) \subseteq FileKinds /\ \A i \in 1 .. n : Placeholder(reg[i])
  BY <1>0 DEF InBooks
<1> HIDE DEF rss
<1>2. ASSUME NEW i \in 1 .. n
      PROVE  /\ IsSeq(rss[i]) /\ Len(rss[i]) = 1 /\ KindsIn(rss[i], FileKinds)
             /\ rss[i][1].name = reg[i].name
             /\ rss[i][1].addr_id = reg[i].residues[1].poly.address
             /\ rss[i][1].values = Zero
  <2>1. PICK a, p : a \in FileAddrs /\ reg[i] = OfPolynomial(a, p) /\ p.data = None
    BY <1>1 DEF Placeholder
  <2>2. PICK rs : rs = rss[i] OBVIOUS
  <2>3. rs = Tagged(s, OfPolynomial(a, p)) BY <1>0, <2>1, <2>2
  <2>4. /\ IsSeq(rs) /\ Len(rs) = 1 /\ DOMAIN rs = {1}
        /\ rs[1].name = a /\ rs[1].kind = "SRP"
        /\ rs[1].addr_id = p.address /\ rs[1].values = data_or_zeros(p)
    BY <2>3, TaggedPolynomial
  <2>5. data_or_zeros(p) = Zero BY <2>1 DEF data_or_zeros
  <2>6. KindsIn(rs, FileKinds) BY <2>1, <2>4 DEF KindsIn, FileKinds
  <2>7. OfPolynomial(a, p).name = a /\ OfPolynomial(a, p).residues[1].poly = p
    BY DEF OfPolynomial, Residue
  <2> QED BY <2>1, <2>2, <2>4, <2>5, <2>6, <2>7
<1>3. Adds(ci, new, FileKinds, AllInElems(rss, n), AllInNames(rss, n))
  <2>1. \A i \in DOMAIN rss : IsSeq(rss[i]) /\ KindsIn(rss[i], FileKinds) BY <1>0, <1>2
  <2>2. new = AllIn!Fold(ci, rss) BY DEF rss
  <2> HIDE DEF ci, n, reg
  <2>3. Adds(ci, new, FileKinds, AllInElems(rss, Len(rss)), AllInNames(rss, Len(rss)))
    BY <1>0, <1>1, <2>1, <2>2, FileKindsOne, StoreAllInputs
  <2> QED BY <1>0, <2>3
<1>4. ASSUME NEW el \in AllInElems(rss, n)
      PROVE  \E i \in 1 .. n : el.addr_id = reg[i].residues[1].poly.address /\ el.values = Zero
  <2>1. PICK i \in 1 .. n : el \in InElems(rss[i], Len(rss[i])) BY DEF AllInElems
  <2>2. el \in InElems(rss[i], 1) BY <1>2, <2>1
  <2>3. PICK j \in 1 .. 1 : el = Input(rss[i][j]) BY <2>2 DEF InElems, Typed
  <2>4. el = Input(rss[i][1]) BY <2>3
  <2> QED BY <1>2, <2>4 DEF Input
<1>5. AllInNames(rss, n) \subseteq RegNames(s)
  <2> SUFFICES ASSUME NEW x \in AllInNames(rss, n) PROVE x \in RegNames(s) OBVIOUS
  <2>1. PICK i \in 1 .. n : x \in InNames(rss[i], Len(rss[i])) BY DEF AllInNames
  <2>2. x \in InNames(rss[i], 1) BY <1>2, <2>1
  <2>3. PICK j \in 1 .. 1 : x = rss[i][j].name BY <2>2 DEF InNames, Typed
  <2>4. x = reg[i].name BY <1>2, <2>3
  <2> QED BY <1>0, <2>4 DEF RegNames
<1>6. ASSUME OneValue(InPairs(s)) PROVE Agrees(Loaded(new), InPairs(s))
  <2>1. InPairs(s) = {Pair(el) : el \in Elems(ci)}
          \cup {[address |-> reg[i].residues[1].poly.address, term |-> Zero] : i \in 1 .. n}
    BY <1>0 DEF InPairs
  <2>2. \A el \in Elems(new) : Pair(el) \in InPairs(s)
    <3> SUFFICES ASSUME NEW el \in Elems(new) PROVE Pair(el) \in InPairs(s) OBVIOUS
    <3>1. CASE el \in Elems(ci) BY <2>1, <3>1
    <3>2. CASE el \in AllInElems(rss, n)
      <4>1. PICK i \in 1 .. n : el.addr_id = reg[i].residues[1].poly.address /\ el.values = Zero
        BY <1>4, <3>2
      <4>2. Pair(el) = [address |-> reg[i].residues[1].poly.address, term |-> Zero] BY <4>1
      <4> HIDE DEF reg, n
      <4> QED BY <2>1, <4>2
    <3> QED BY <1>3, <3>1, <3>2 DEF Adds
  <2>3. \A el : Pair(el).address = el.addr_id /\ Pair(el).term = el.values OBVIOUS
  <2> HIDE DEF Pair
  <2>4. \A x, y \in Elems(new) : x.addr_id = y.addr_id => x.values = y.values
    BY <1>6, <2>2, <2>3 DEF OneValue
  <2>5. /\ \A el \in Elems(new) : At(Loaded(new), el.addr_id) = el.values
        /\ \A a : (\A el \in Elems(new) : el.addr_id # a) => At(Loaded(new), a) = Zero
    BY <1>3, <2>4, LoadedHolds DEF Adds
  <2>6. ASSUME NEW x \in InPairs(s) PROVE At(Loaded(new), x.address) = x.term
    <3>1. CASE \E el \in Elems(new) : el.addr_id = x.address
      <4>1. PICK el \in Elems(new) : el.addr_id = x.address BY <3>1
      <4>2. x.term = el.values BY <1>6, <2>2, <2>3, <4>1 DEF OneValue
      <4> QED BY <2>5, <4>1, <4>2
    <3>2. CASE ~ \E el \in Elems(new) : el.addr_id = x.address
      <4>1. \A el \in Elems(ci) : x # Pair(el) BY <1>3, <2>3, <3>2 DEF Adds
      <4>2. PICK i \in 1 .. n : x = [address |-> reg[i].residues[1].poly.address, term |-> Zero]
        BY <2>1, <4>1
      <4>3. x.term = Zero BY <4>2
      <4>4. At(Loaded(new), x.address) = Zero BY <2>5, <3>2
      <4> QED BY <4>3, <4>4
    <3> QED BY <3>1, <3>2
  <2> QED BY <2>6 DEF Agrees
<1> QED BY <1>3, <1>5, <1>6 DEF Adds
-----------------------------------------------------------------------------
(* The whole file *)

ResolvedOf(prog) == [i \in DOMAIN prog |-> Resolve(prog[i])]

LEMMA ResolvedAppend ==
  ASSUME NEW prog, IsSeq(prog), NEW inst, NEW mem
  PROVE  Run(mem, ResolvedOf(Append(prog, inst))) = Step(Run(mem, ResolvedOf(prog)), Resolve(inst))
<1> DEFINE more == Append(prog, inst)
           old == ResolvedOf(prog)
           new == ResolvedOf(more)
<1>1. /\ Len(prog) \in Nat /\ DOMAIN prog = 1 .. Len(prog) /\ DOMAIN more = 1 .. Len(prog) + 1
      /\ more[Len(prog) + 1] = inst /\ \A i \in 1 .. Len(prog) : more[i] = prog[i]
  BY AppendIsSeq
<1> HIDE DEF more
<1>2. PICK n \in Nat : n = Len(prog) BY <1>1
<1>3. old = [i \in 1 .. n |-> Resolve(prog[i])] BY <1>1, <1>2 DEF ResolvedOf
<1>4. new = [i \in 1 .. n + 1 |-> Resolve(more[i])] BY <1>1, <1>2 DEF ResolvedOf
<1> HIDE DEF old, new
<1> DEFINE T == {Resolve(prog[i]) : i \in 1 .. n} \cup {Resolve(inst)}
<1>5. old \in Seq(T) /\ Len(old) = n /\ \A i \in 1 .. n : old[i] = Resolve(prog[i])
  BY <1>3
<1>6. new = Append(old, Resolve(inst))
  <2> DEFINE app == Append(old, Resolve(inst))
  <2>1. /\ app \in Seq(T) /\ Len(app) = n + 1 /\ app[n + 1] = Resolve(inst)
        /\ \A i \in 1 .. n : app[i] = old[i]
    BY <1>5
  <2>2. DOMAIN app = 1 .. n + 1 /\ app = [i \in 1 .. n + 1 |-> app[i]]
    <3> HIDE DEF app, T
    <3> QED BY <2>1
  <2>3. \A i \in 1 .. n + 1 : app[i] = Resolve(more[i])
    <3> SUFFICES ASSUME NEW i \in 1 .. n + 1 PROVE app[i] = Resolve(more[i]) OBVIOUS
    <3>1. i \in 1 .. n \/ i = n + 1 OBVIOUS
    <3> HIDE DEF app, T
    <3> QED BY <1>1, <1>2, <1>5, <2>1, <3>1
  <2> HIDE DEF app
  <2> QED BY <1>4, <2>2, <2>3 DEF app
<1>7. IsSeq(old) BY <1>5 DEF IsSeq
<1> QED BY <1>6, <1>7, RunAppend DEF more, old, new

LEMMA RegularAppend ==
  ASSUME NEW prog, IsSeq(prog), NEW inst, Regular(Append(prog, inst))
  PROVE  /\ Regular(prog) /\ inst.opcode \notin InertOps \ {"halt"}
         /\ IsZeroInit(inst) => inst.src1 \in {inst.dest} \cup Used(prog, Len(prog))
<1> DEFINE more == Append(prog, inst)
<1>1. /\ Len(prog) \in Nat /\ DOMAIN prog = 1 .. Len(prog) /\ DOMAIN more = 1 .. Len(prog) + 1
      /\ more[Len(prog) + 1] = inst /\ \A i \in 1 .. Len(prog) : more[i] = prog[i]
  BY AppendIsSeq
<1> HIDE DEF more
<1>2. PICK n \in Nat : n = Len(prog) BY <1>1
<1>3. ASSUME NEW i \in 1 .. n + 1 PROVE Used(more, i - 1) = Used(prog, i - 1)
  <2>1. \A j \in 1 .. i - 1 : more[j] = prog[j] BY <1>1, <1>2
  <2> QED BY <2>1 DEF Used
<1>4. Regular(more) BY DEF more
<1>5. \A i \in 1 .. n + 1 :
        /\ more[i].opcode \notin InertOps \ {"halt"}
        /\ IsZeroInit(more[i]) => more[i].src1 \in {more[i].dest} \cup Used(prog, i - 1)
  BY <1>1, <1>2, <1>3, <1>4 DEF Regular
<1>6. \A i \in 1 .. n : i \in 1 .. n + 1 OBVIOUS
<1>7. Regular(prog) BY <1>1, <1>2, <1>5, <1>6 DEF Regular
<1>8. n + 1 \in 1 .. n + 1 /\ (n + 1) - 1 = n OBVIOUS
<1>9. /\ inst.opcode \notin InertOps \ {"halt"}
      /\ IsZeroInit(inst) => inst.src1 \in {inst.dest} \cup Used(prog, n)
  BY <1>1, <1>2, <1>5, <1>8
<1> QED BY <1>2, <1>7, <1>9

(* One more instruction of a regular file. *)
LEMMA DriveNext ==
  ASSUME NEW prog, IsSeq(prog), NEW d, DriverOK(d), NEW inst \in FileCode,
         d.api.next_address + 3 <= AddressSpace,
         LiveIns(d, prog), Computes(d, Run(Given, ResolvedOf(prog))),
         Regular(Append(prog, inst)),
         NEW e, e = drive_instruction(d, inst)
  PROVE  LiveIns(e, Append(prog, inst)) /\ Computes(e, Run(Given, ResolvedOf(Append(prog, inst))))
<1>1. /\ inst.opcode \notin InertOps \ {"halt"}
      /\ IsZeroInit(inst) => inst.src1 \in {inst.dest} \cup Used(prog, Len(prog))
  BY RegularAppend
<1>2. Used(prog, Len(prog)) \subseteq DOMAIN d.polys BY UsedAre DEF LiveIns
<1>3. Drives(d, e, prog, inst)
  <2>1. CASE inst.opcode = "halt" BY <2>1, DriveHalt
  <2>2. CASE inst.opcode # "halt" /\ IsZeroInit(inst)
    <3>1. inst.src1 \in {inst.dest} \cup DOMAIN d.polys BY <1>1, <1>2, <2>2
    <3> QED BY <2>2, <3>1, DriveZeroInit
  <2>3. CASE inst.opcode # "halt" /\ ~IsZeroInit(inst) BY <1>1, <2>3, DriveReads
  <2> QED BY <2>1, <2>2, <2>3
<1>4. PICK mem : mem = Run(Given, ResolvedOf(prog)) OBVIOUS
<1>5. Computes(e, Step(mem, Resolve(inst))) BY <1>3, <1>4 DEF Drives
<1>6. Run(Given, ResolvedOf(Append(prog, inst))) = Step(mem, Resolve(inst)) BY <1>4, ResolvedAppend
<1> QED BY <1>3, <1>5, <1>6 DEF Drives

(* finalize_outputs(), stop() and replay(). *)
LEMMA Finished ==
  ASSUME NEW d, DriverOK(d), NEW g, g = finalize_outputs(d).api,
         NEW h, h = halt(sync_fhetch_state_to_compiler(g))
  PROVE  /\ h.next_address = d.api.next_address
         /\ RecNames(d.api.captured_inputs) \subseteq RecNames(h.captured_inputs)
         /\ RecNames(h.captured_inputs) \subseteq RecNames(d.api.captured_inputs) \cup RegNames(d.api)
         /\ \A mem : Computes(d, mem) => Agrees(Run(Loaded(h.captured_inputs), h.log), PolySet(d))
         /\ ToSet(Outputs) \subseteq DOMAIN d.polys =>
              OneOutput(h.captured_outputs, Len(Outputs),
                        [i \in 1 .. Len(Outputs) |-> d.polys[Outputs[i]].address])
<1> DEFINE t == sync_fhetch_state_to_compiler(g)
           reg == g.probe_registry
           adr == [i \in 1 .. Len(Outputs) |-> d.polys[Outputs[i]].address]
<1>0. Books(d.api) /\ d.api.next_address \in Nat BY DEF DriverOK, Books, Api
<1>1. /\ Api(g) /\ IsSeq(reg)
      /\ g.next_address = d.api.next_address /\ g.log = d.api.log
      /\ g.synced = FALSE /\ g.recording = TRUE
      /\ g.input_registry = d.api.input_registry
      /\ g.captured_inputs = d.api.captured_inputs /\ g.captured_outputs = <<>>
      /\ ToSet(Outputs) \subseteq DOMAIN d.polys =>
           /\ Len(reg) = Len(Outputs)
           /\ \A i \in 1 .. Len(Outputs) : reg[i] = OfPolynomial("out", d.polys[Outputs[i]])
  <2>1. PICK f : f = finalize_outputs(d) OBVIOUS
  <2>2. FinalTags(d, f, Len(Outputs)) BY <2>1, FinalsAre
  <2>3. g = f.api BY <2>1
  <2> QED BY <1>0, <2>2, <2>3 DEF FinalTags, Books
<1>2. /\ Api(t)
      /\ t.captured_inputs = AllIn!Fold(g.captured_inputs, TaggedAll(g, g.input_registry))
      /\ t.captured_outputs = AllOut!Fold(<<>>, TaggedAll(g, reg))
      /\ t.next_address = g.next_address /\ t.log = g.log /\ t.recording = g.recording
  <2>1. PICK u : u = sync_fhetch_state_to_compiler(g) OBVIOUS
  <2>2. PICK r : r = g.probe_registry OBVIOUS
  <2>3. /\ Api(u)
        /\ u.captured_inputs = AllIn!Fold(g.captured_inputs, TaggedAll(g, g.input_registry))
        /\ u.captured_outputs = AllOut!Fold(g.captured_outputs, TaggedAll(g, g.probe_registry))
        /\ u.next_address = g.next_address /\ u.log = g.log /\ u.recording = g.recording
    <3>1. PICK s : s = g OBVIOUS
    <3>2. Api(s) /\ s.synced = FALSE BY <1>1, <3>1
    <3>3. u = sync_fhetch_state_to_compiler(s) BY <2>1, <3>1
    <3>4. /\ Api(u)
          /\ u.captured_inputs = AllIn!Fold(s.captured_inputs, TaggedAll(s, s.input_registry))
          /\ u.captured_outputs = AllOut!Fold(s.captured_outputs, TaggedAll(s, s.probe_registry))
          /\ u.next_address = s.next_address /\ u.log = s.log /\ u.recording = s.recording
      <4>1. Synced(s, u) BY <3>2, <3>3, SyncIs
      <4> QED BY <4>1 DEF Synced
    <3> QED BY <3>1, <3>4
  <2>4. u.captured_outputs = AllOut!Fold(<<>>, TaggedAll(g, r))
    <3>1. g.captured_outputs = <<>> BY <1>1
    <3> QED BY <2>2, <2>3, <3>1
  <2> QED BY <2>1, <2>2, <2>3, <2>4
<1> HIDE DEF t, reg
<1>3. /\ Api(h) /\ SameBooks(t, h) /\ h.log = Append(t.log, Halt) /\ h.next_address = t.next_address
  BY <1>1, <1>2, HaltIs DEF t
<1>4. /\ h.captured_inputs = t.captured_inputs /\ h.captured_outputs = t.captured_outputs
  BY <1>3 DEF SameBooks
<1>5. InBooks(g) /\ InPairs(g) = InPairs(d.api) /\ RegNames(g) = RegNames(d.api)
  BY <1>0, <1>1 DEF Books, InBooks, InPairs, RegNames
<1>6. /\ RecNames(g.captured_inputs) \subseteq RecNames(h.captured_inputs)
      /\ RecNames(h.captured_inputs) \subseteq RecNames(g.captured_inputs) \cup RegNames(g)
      /\ OneValue(InPairs(g)) => Agrees(Loaded(h.captured_inputs), InPairs(g))
  BY <1>2, <1>4, <1>5, InputsLoaded
<1>7. ASSUME NEW mem, Computes(d, mem)
      PROVE  Agrees(Run(Loaded(h.captured_inputs), h.log), PolySet(d))
  <2>1. Sound(d.api, InPairs(d.api), PolySet(d)) /\ OneValue(InPairs(d.api)) BY <1>7 DEF Computes
  <2>2. Sound(t, InPairs(d.api), PolySet(d)) BY <1>0, <1>1, <1>2, <2>1, SoundSame
  <2>3. Sound(h, InPairs(d.api), PolySet(d)) BY <1>1, <1>2, <2>2, SoundHalt DEF t
  <2>4. Agrees(Loaded(h.captured_inputs), InPairs(d.api)) BY <1>5, <1>6, <2>1
  <2> QED BY <2>3, <2>4 DEF Sound, Meaning
<1>8. ASSUME ToSet(Outputs) \subseteq DOMAIN d.polys
      PROVE  OneOutput(h.captured_outputs, Len(Outputs), adr)
  <2> DEFINE p == [i \in 1 .. Len(Outputs) |-> d.polys[Outputs[i]]]
  <2>1. \A i \in 1 .. Len(reg) : reg[i] = OfPolynomial("out", p[i]) /\ adr[i] = p[i].address
    BY <1>1, <1>8
  <2> HIDE DEF p, adr
  <2>2. OneOutput(AllOut!Fold(<<>>, TaggedAll(g, reg)), Len(reg), adr)
    BY <1>1, <2>1, OutputsCaptured
  <2> QED BY <1>1, <1>2, <1>4, <1>8, <2>2
<1>9. h.next_address = d.api.next_address BY <1>1, <1>2, <1>3
<1> QED BY <1>1, <1>6, <1>5, <1>7, <1>8, <1>9
-----------------------------------------------------------------------------
(* The inductive invariant *)

Counts ==
  /\ inputs \in [FileAddrs -> {"given", "missing"}]
  /\ program \in Seq(FileCode) /\ Len(program) <= MaxProgram
  /\ phase \in {"driving", "rejected", "failed", "stopped"}
  /\ skipped \in 0 .. Len(program)
  /\ DOMAIN drv.polys \subseteq FileAddrs
  /\ drv.api.next_address \in Nat /\ Below(PolySet(drv), drv.api.next_address)

(* While a regular file is driven, none of it skipped, the polynomials are *)
(* what it computes and the inputs are its live-ins.                       *)
Driving ==
  phase = "driving" =>
    /\ DriverOK(drv)
    /\ drv.api.next_address <= 3 * Len(program)
    /\ skipped = 0 /\ Regular(program) =>
         LiveIns(drv, program) /\ Computes(drv, Run(Given, ResolvedOf(program)))

Inv == Counts /\ Driving /\ DriveFaithful /\ InputsAreLiveIns

LEMMA InitInv == Init => Inv
<1> SUFFICES ASSUME Init PROVE Inv OBVIOUS
<1> DEFINE s == [NewApi EXCEPT !.recording = TRUE]
<1>1. drv = [api |-> s, polys |-> <<>>] BY DEF Init
<1>2. /\ DOMAIN s = Fields /\ s.next_address = 0 /\ s.log = <<>>
      /\ s.recording = TRUE /\ s.synced = FALSE
      /\ s.probe_registry = <<>> /\ s.captured_outputs = <<>>
      /\ s.captured_inputs = <<>> /\ s.input_registry = <<>>
  BY DEF NewApi, Fields
<1> HIDE DEF s
<1>3. drv.api = s /\ drv.polys = <<>> /\ DOMAIN drv = {"api", "polys"} BY <1>1
<1>4. IsSeq(<<>>) /\ DOMAIN <<>> = {} BY DEF IsSeq
<1>5. /\ Recs(<<>>) /\ Kinds(<<>>) = {} /\ RecNames(<<>>) = {} /\ Elems(<<>>) = {}
  BY <1>4 DEF Recs, Kinds, RecNames, Elems
<1>6. PolySet(drv) = {} /\ InPairs(s) = {} /\ RegNames(s) = {}
  BY <1>2, <1>3, <1>4, <1>5 DEF PolySet, InPairs, RegNames
<1>7. Api(s) BY <1>2, <1>4 DEF Api
<1>8. Books(s) BY <1>2, <1>4, <1>5, <1>7 DEF Books
<1>9. DriverOK(drv) BY <1>2, <1>3, <1>4, <1>6, <1>8 DEF DriverOK, Below
<1>10. program = <<>> /\ Len(program) = 0 /\ skipped = 0 /\ phase = "driving" BY DEF Init
<1>11. Counts
  <2>1. program \in Seq(FileCode) /\ Len(program) <= MaxProgram BY <1>10, MaxProgramAssumption
  <2>2. inputs \in [FileAddrs -> {"given", "missing"}] BY DEF Init
  <2>3. skipped \in 0 .. Len(program) BY <1>10
  <2>4. DOMAIN drv.polys \subseteq FileAddrs BY <1>3, <1>4
  <2>5. drv.api.next_address \in Nat /\ Below(PolySet(drv), drv.api.next_address)
    BY <1>2, <1>3, <1>6 DEF Below
  <2> QED BY <1>10, <2>1, <2>2, <2>3, <2>4, <2>5 DEF Counts
<1>12. LiveIns(drv, program)
  <2>1. ReadBeforeWrite(program) = {} /\ WrittenBy(program) = {}
    BY <1>4, <1>10 DEF ReadBeforeWrite, WrittenBy
  <2> QED BY <1>2, <1>3, <1>4, <1>5, <1>6, <2>1 DEF LiveIns
<1>13. Computes(drv, Run(Given, ResolvedOf(program)))
  <2>1. Run(Given, ResolvedOf(program)) = Given
    <3>1. ResolvedOf(<<>>) = <<>> BY <1>4 DEF ResolvedOf
    <3> QED BY <1>10, <3>1, RunEmpty
  <2>2. Sound(s, {}, {}) BY <1>2, SoundNew
  <2> QED BY <1>3, <1>4, <1>6, <2>1, <2>2 DEF Computes, OneValue
<1>14. Driving BY <1>2, <1>3, <1>9, <1>10, <1>12, <1>13 DEF Driving
<1>15. ~Driven BY <1>10 DEF Driven
<1> QED BY <1>11, <1>14, <1>15 DEF Inv, DriveFaithful, InputsAreLiveIns

LEMMA ReadingCounts ==
  ASSUME Inv, NEW inst \in FileCode, Reading(inst)
  PROVE  /\ program' \in Seq(FileCode) /\ Len(program') = Len(program) + 1
         /\ Len(program) \in Nat /\ Len(program') <= MaxProgram /\ IsSeq(program)
         /\ DriverOK(drv) /\ drv.api.next_address \in Nat
         /\ drv.api.next_address + 3 <= AddressSpace
         /\ drv.api.next_address <= 3 * Len(program)
<1>1. program \in Seq(FileCode) /\ phase = "driving" /\ program' = Append(program, inst)
  BY DEF Inv, Counts, Reading
<1>2. /\ program' \in Seq(FileCode) /\ Len(program') = Len(program) + 1 /\ Len(program) \in Nat
  BY <1>1
<1>3. Len(program) < MaxProgram BY DEF Reading
<1>4. DriverOK(drv) /\ drv.api.next_address <= 3 * Len(program) BY <1>1 DEF Inv, Driving
<1>5. drv.api.next_address \in Nat BY DEF Inv, Counts
<1>6. drv.api.next_address + 3 <= AddressSpace
  BY <1>2, <1>3, <1>4, <1>5, MaxProgramAssumption, AddressSpaceAssumption
<1> QED BY <1>1, <1>2, <1>3, <1>4, <1>5, <1>6, MaxProgramAssumption DEF IsSeq

LEMMA DriveKeepsInv ==
  ASSUME Inv, NEW inst \in FileCode, Drive(inst) PROVE Inv'
<1>0. Reading(inst) /\ phase = "driving" /\ phase' = "driving" /\ inputs' = inputs
      /\ skipped' = skipped /\ program' = Append(program, inst)
  BY DEF Drive, Reading
<1>1. /\ program' \in Seq(FileCode) /\ Len(program') = Len(program) + 1
      /\ Len(program) \in Nat /\ Len(program') <= MaxProgram /\ IsSeq(program)
      /\ DriverOK(drv) /\ drv.api.next_address \in Nat
      /\ drv.api.next_address + 3 <= AddressSpace
      /\ drv.api.next_address <= 3 * Len(program)
  BY <1>0, ReadingCounts
<1>2. PICK d, e : d = drv /\ e = drive_instruction(d, inst) OBVIOUS
<1>3. drv' = e BY <1>2 DEF Drive
<1>4. DriverOK(e) /\ e.api.next_address <= d.api.next_address + 3 BY <1>1, <1>2, DriveOK
<1>5. e.api.next_address \in Nat BY <1>4 DEF DriverOK, Books, Api
<1>6. e.api.next_address <= 3 * Len(program') BY <1>1, <1>2, <1>4, <1>5
<1>7. Counts'
  <2>1. skipped' \in 0 .. Len(program') BY <1>0, <1>1 DEF Inv, Counts
  <2> QED BY <1>0, <1>1, <1>3, <1>4, <1>5, <2>1 DEF Inv, Counts, DriverOK, PolySet
<1>8. ASSUME skipped = 0, Regular(Append(program, inst))
      PROVE  LiveIns(e, Append(program, inst))
             /\ Computes(e, Run(Given, ResolvedOf(Append(program, inst))))
  <2>1. PICK prog : prog = program OBVIOUS
  <2>2. IsSeq(prog) /\ Regular(Append(prog, inst)) BY <1>1, <1>8, <2>1
  <2>3. Regular(prog) BY <2>2, RegularAppend
  <2>4. LiveIns(d, prog) /\ Computes(d, Run(Given, ResolvedOf(prog)))
    BY <1>0, <1>2, <1>8, <2>1, <2>3 DEF Inv, Driving
  <2>5. DriverOK(d) /\ d.api.next_address + 3 <= AddressSpace BY <1>1, <1>2
  <2>6. LiveIns(e, Append(prog, inst)) /\ Computes(e, Run(Given, ResolvedOf(Append(prog, inst))))
    BY <1>2, <2>2, <2>4, <2>5, DriveNext
  <2> QED BY <2>1, <2>6
<1>9. Driving'
  <2>1. PICK more : more = Append(program, inst) OBVIOUS
  <2>2. program' = more BY <1>0, <2>1
  <2>3. skipped = 0 /\ Regular(more) => LiveIns(e, more) /\ Computes(e, Run(Given, ResolvedOf(more)))
    BY <1>8, <2>1
  <2>4. Given' = Given BY <1>0 DEF Given
  <2>5. LiveIns(e, more) => LiveIns(drv, program)' BY <1>0, <1>3, <2>2 DEF LiveIns
  <2>6. Computes(e, Run(Given, ResolvedOf(more))) => Computes(drv, Run(Given, ResolvedOf(program)))'
    BY <1>3, <2>2, <2>4 DEF Computes
  <2>7. skipped' = skipped /\ (Regular(program)' <=> Regular(more)) BY <1>0, <2>2
  <2>8. DriverOK(drv)' BY <1>3, <1>4
  <2> QED BY <1>3, <1>6, <2>3, <2>5, <2>6, <2>7, <2>8 DEF Driving
<1>10. ~Driven' BY <1>0 DEF Driven
<1> QED BY <1>7, <1>9, <1>10 DEF Inv, DriveFaithful, InputsAreLiveIns

LEMMA SkipKeepsInv ==
  ASSUME Inv, NEW inst \in FileCode, Skip(inst) PROVE Inv'
<1>0. Reading(inst) /\ phase = "driving" /\ phase' = "driving" /\ inputs' = inputs
      /\ skipped' = skipped + 1 /\ drv' = drv
  BY DEF Skip, Reading
<1>1. /\ program' \in Seq(FileCode) /\ Len(program') = Len(program) + 1
      /\ Len(program) \in Nat /\ Len(program') <= MaxProgram
      /\ DriverOK(drv) /\ drv.api.next_address \in Nat
      /\ drv.api.next_address <= 3 * Len(program)
  BY <1>0, ReadingCounts
<1>2. skipped \in 0 .. Len(program) BY DEF Inv, Counts
<1>3. skipped' \in 0 .. Len(program') /\ skipped' # 0 BY <1>0, <1>1, <1>2
<1>4. Counts' BY <1>0, <1>1, <1>3 DEF Inv, Counts
<1>5. drv'.api.next_address <= 3 * Len(program') BY <1>0, <1>1
<1>6. DriverOK(drv)' BY <1>0, <1>1
<1>7. Driving' BY <1>3, <1>5, <1>6 DEF Driving
<1>8. ~Driven' BY <1>0 DEF Driven
<1> QED BY <1>4, <1>7, <1>8 DEF Inv, DriveFaithful, InputsAreLiveIns

LEMMA RejectKeepsInv ==
  ASSUME Inv, NEW inst \in FileCode, Reject(inst) PROVE Inv'
<1>0. Reading(inst) /\ phase' = "rejected" /\ inputs' = inputs /\ skipped' = skipped
  BY DEF Reject, Reading
<1>1. /\ program' \in Seq(FileCode) /\ Len(program') = Len(program) + 1
      /\ Len(program) \in Nat /\ Len(program') <= MaxProgram /\ DriverOK(drv)
  BY <1>0, ReadingCounts
<1>2. PICK d, e : d = drv /\ e = SourcesOf(d, inst) OBVIOUS
<1>3. drv' = e BY <1>2 DEF Reject
<1>4. inst.opcode # "halt" BY DEF Reject, rejects, Roots
<1>5. DriverOK(e) BY <1>1, <1>2, <1>4, SourcesAre
<1>6. skipped' \in 0 .. Len(program') BY <1>0, <1>1 DEF Inv, Counts
<1>7. Counts' BY <1>0, <1>1, <1>3, <1>5, <1>6 DEF Inv, Counts, DriverOK, Books, Api, PolySet
<1>8. Driving' /\ ~Driven' BY <1>0 DEF Driving, Driven
<1> QED BY <1>7, <1>8 DEF Inv, DriveFaithful, InputsAreLiveIns

LEMMA FinishKeepsInv ==
  ASSUME Inv, Finish PROVE Inv'
<1> DEFINE n == Len(Outputs)
<1>0. /\ phase = "driving" /\ phase' = "stopped" /\ inputs' = inputs
      /\ program' = program /\ skipped' = skipped
  BY DEF Finish, Stop
<1>1. DriverOK(drv) BY <1>0 DEF Inv, Driving
<1>2. PICK d : d = drv OBVIOUS
<1>3. PICK g : g = finalize_outputs(d).api OBVIOUS
<1>4. PICK h : h = halt(sync_fhetch_state_to_compiler(g)) OBVIOUS
<1>5. /\ h.next_address = d.api.next_address
      /\ RecNames(d.api.captured_inputs) \subseteq RecNames(h.captured_inputs)
      /\ RecNames(h.captured_inputs) \subseteq RecNames(d.api.captured_inputs) \cup RegNames(d.api)
      /\ \A mem : Computes(d, mem) => Agrees(Run(Loaded(h.captured_inputs), h.log), PolySet(d))
      /\ ToSet(Outputs) \subseteq DOMAIN d.polys =>
           OneOutput(h.captured_outputs, n, [i \in 1 .. n |-> d.polys[Outputs[i]].address])
  BY <1>1, <1>2, <1>3, <1>4, Finished
<1>6. drv' = [drv EXCEPT !.api = h]
  BY <1>2, <1>3, <1>4 DEF Finish, Stop
<1>7. drv'.api = h /\ drv'.polys = d.polys BY <1>1, <1>2, <1>6 DEF DriverOK
<1>8. memory' = Run(Loaded(h.captured_inputs), h.log) BY <1>7 DEF Finish
<1>9. Counts'
  <2>1. PolySet(drv)' = PolySet(d) BY <1>7 DEF PolySet
  <2> QED BY <1>0, <1>2, <1>5, <1>7, <2>1 DEF Inv, Counts
<1>10. Driving' BY <1>0 DEF Driving
<1>11. ASSUME Driven'
       PROVE  LiveIns(d, program) /\ Computes(d, Run(Given, ResolvedOf(program)))
  <2>1. skipped = 0 /\ Regular(program) BY <1>0, <1>11 DEF Driven
  <2> QED BY <1>0, <1>2, <2>1 DEF Inv, Driving
<1>12. DriveFaithful'
  <2> SUFFICES ASSUME Driven', (ToSet(Outputs) \subseteq DOMAIN drv.polys)'
               PROVE  LET out == h.captured_outputs[1].elements IN
                      /\ Len(out) = n
                      /\ \A i \in DOMAIN out : At(memory', out[i].addr_id) = At(FileMemory', Outputs[i])
    BY <1>7 DEF DriveFaithful
  <2>1. ToSet(Outputs) \subseteq DOMAIN d.polys BY <1>7
  <2>2. n \in Nat /\ n # 0 /\ \A i \in 1 .. n : Outputs[i] \in ToSet(Outputs)
    BY OutputsAssumption DEF ToSet
  <2>3. PICK mem : mem = Run(Given, ResolvedOf(program)) OBVIOUS
  <2>4. Computes(d, mem) BY <1>11, <2>3
  <2>5. FileMemory' = mem
    <3>1. FileMemory = mem BY <2>3 DEF FileMemory, Resolved, ResolvedOf, Resolve
    <3>2. FileMemory' = FileMemory BY <1>0 DEF FileMemory, Resolved, Given
    <3> QED BY <3>1, <3>2
  <2>6. Agrees(memory', PolySet(d)) BY <1>5, <1>8, <2>4
  <2> DEFINE adr == [i \in 1 .. n |-> d.polys[Outputs[i]].address]
  <2>7. OneOutput(h.captured_outputs, n, adr) BY <1>5, <2>1
  <2>8. \A i \in 1 .. n : adr[i] = d.polys[Outputs[i]].address OBVIOUS
  <2> HIDE DEF adr, n
  <2>9. PICK r : /\ h.captured_outputs = <<r>>
                 /\ IsSeq(r.elements) /\ Len(r.elements) = n
                 /\ \A i \in 1 .. n : r.elements[i].addr_id = adr[i]
    BY <2>2, <2>7 DEF OneOutput
  <2>10. PICK out : out = r.elements OBVIOUS
  <2>11. h.captured_outputs[1].elements = out BY <2>9, <2>10
  <2>12. Len(out) = n /\ DOMAIN out = 1 .. n BY <2>9, <2>10, SeqFacts
  <2>13. ASSUME NEW i \in 1 .. n PROVE At(memory', out[i].addr_id) = At(mem, Outputs[i])
    <3>1. PICK p : p = d.polys[Outputs[i]] OBVIOUS
    <3>2. Outputs[i] \in DOMAIN d.polys BY <2>1, <2>2
    <3>3. p \in PolySet(d) BY <3>1, <3>2 DEF PolySet
    <3>4. At(memory', p.address) = p.term BY <2>6, <3>3 DEF Agrees
    <3>5. p.term = At(mem, Outputs[i]) BY <2>4, <3>1, <3>2 DEF Computes
    <3>6. out[i].addr_id = p.address BY <2>8, <2>9, <2>10, <3>1
    <3> QED BY <3>4, <3>5, <3>6
  <2> QED BY <2>5, <2>11, <2>12, <2>13
<1>13. InputsAreLiveIns'
  <2> SUFFICES ASSUME Driven'
               PROVE  LET captured == {h.captured_inputs[i].name : i \in DOMAIN h.captured_inputs} IN
                      /\ captured \subseteq ReadBeforeWrite(program)
                      /\ {a \in ReadBeforeWrite(program) : inputs[a] = "given"} \subseteq captured
    BY <1>0, <1>7 DEF InputsAreLiveIns
  <2>1. LiveIns(d, program) BY <1>11
  <2>2. RecNames(h.captured_inputs) = {h.captured_inputs[i].name : i \in DOMAIN h.captured_inputs}
    BY DEF RecNames
  <2>3. RecNames(h.captured_inputs) \subseteq ReadBeforeWrite(program)
    BY <1>5, <2>1 DEF LiveIns
  <2>4. {a \in ReadBeforeWrite(program) : inputs[a] = "given"} \subseteq RecNames(h.captured_inputs)
    BY <1>5, <2>1 DEF LiveIns
  <2> QED BY <2>2, <2>3, <2>4
<1> QED BY <1>9, <1>10, <1>12, <1>13 DEF Inv

LEMMA GiveUpKeepsInv ==
  ASSUME Inv, GiveUp PROVE Inv'
<1>0. /\ phase = "driving" /\ phase' = "failed" /\ inputs' = inputs
      /\ program' = program /\ skipped' = skipped
  BY DEF GiveUp, Stop
<1>1. DriverOK(drv) BY <1>0 DEF Inv, Driving
<1>2. PICK d : d = drv OBVIOUS
<1>3. PICK g : g = finalize_outputs(d).api OBVIOUS
<1>4. PICK h : h = halt(sync_fhetch_state_to_compiler(g)) OBVIOUS
<1>5. h.next_address = d.api.next_address BY <1>1, <1>2, <1>3, <1>4, Finished
<1>6. drv' = [drv EXCEPT !.api = h] BY <1>2, <1>3, <1>4 DEF GiveUp, Stop
<1>7. drv'.api = h /\ drv'.polys = d.polys BY <1>1, <1>2, <1>6 DEF DriverOK
<1>8. Counts'
  <2>1. PolySet(drv)' = PolySet(d) BY <1>7 DEF PolySet
  <2> QED BY <1>0, <1>2, <1>5, <1>7, <2>1 DEF Inv, Counts
<1>9. Driving' /\ ~Driven' BY <1>0 DEF Driving, Driven
<1> QED BY <1>8, <1>9 DEF Inv, DriveFaithful, InputsAreLiveIns

(* The polynomials of the driver stand for what the file computes, through *)
(* every instruction, skipped index, refused root and the final sync.      *)
THEOREM InvHolds == Spec => []Inv
<1>1. Init => Inv BY InitInv
<1>2. Inv /\ [Next]_vars => Inv'
  <2> SUFFICES ASSUME Inv, [Next]_vars PROVE Inv' OBVIOUS
  <2>1. ASSUME NEW inst \in FileCode, Drive(inst) PROVE Inv' BY <2>1, DriveKeepsInv
  <2>2. ASSUME NEW inst \in FileCode, Skip(inst) PROVE Inv' BY <2>2, SkipKeepsInv
  <2>3. ASSUME NEW inst \in FileCode, Reject(inst) PROVE Inv' BY <2>3, RejectKeepsInv
  <2>4. CASE Finish BY <2>4, FinishKeepsInv
  <2>6. CASE GiveUp BY <2>6, GiveUpKeepsInv
  <2>5. CASE UNCHANGED vars
    <3>1. Counts' BY <2>5 DEF vars, Inv, Counts, Below, PolySet
    <3>2. (phase' = phase /\ drv' = drv /\ program' = program /\ inputs' = inputs
           /\ skipped' = skipped /\ memory' = memory) BY <2>5 DEF vars
    <3>3. Given' = Given BY <3>2 DEF Given
    <3>4. (LiveIns(drv, program) => LiveIns(drv, program)') BY <3>2 DEF LiveIns
    <3>5. Computes(drv, Run(Given, ResolvedOf(program)))
            => Computes(drv, Run(Given, ResolvedOf(program)))'
      BY <3>2, <3>3 DEF Computes
    <3>6. Driving' BY <3>2, <3>4, <3>5 DEF Inv, Driving
    <3>7. DriveFaithful'
      <4>1. FileMemory' = FileMemory BY <3>2, <3>3 DEF FileMemory, Resolved
      <4> QED BY <3>2, <4>1 DEF Inv, DriveFaithful, Driven
    <3>8. InputsAreLiveIns' BY <3>2 DEF Inv, InputsAreLiveIns, Driven
    <3> QED BY <3>1, <3>6, <3>7, <3>8 DEF Inv
  <2> QED BY <2>1, <2>2, <2>3, <2>4, <2>5, <2>6 DEF Next
<1> QED BY <1>1, <1>2, PTL DEF Spec

-----------------------------------------------------------------------------
(* The properties *)

(* Driver::put keeps the counter of the API ahead of every polynomial of   *)
(* the driver's map, whatever the file.                                    *)
THEOREM TypeCorrect == Spec => []TypeOK
<1>1. Inv => TypeOK
  <2> SUFFICES ASSUME Inv PROVE TypeOK OBVIOUS
  <2>1. Counts BY DEF Inv
  <2>2. ASSUME NEW a \in DOMAIN drv.polys PROVE drv.polys[a].address < drv.api.next_address
    <3>1. drv.polys[a].address \in 0 .. drv.api.next_address - 1 BY <2>1 DEF Counts, Below, PolySet
    <3>2. drv.api.next_address \in Nat BY <2>1 DEF Counts
    <3> QED BY <3>1, <3>2
  <2> QED BY <2>1, <2>2 DEF TypeOK, Counts
<1> QED BY <1>1, InvHolds, PTL

(* drive_instruction() maps every opcode to the call that records it: of   *)
(* every regular file of any length, the trace the drive records, replayed *)
(* from the captured inputs, leaves at the outputs what the file computes. *)
THEOREM DriveIsFaithful == Spec => []DriveFaithful
<1>1. Inv => DriveFaithful BY DEF Inv
<1> QED BY <1>1, InvHolds, PTL

(* get_or_create_src() takes for an input what the file reads before it    *)
(* writes it, and the operand of no zero-init.                             *)
THEOREM InputsAreTheLiveIns == Spec => []InputsAreLiveIns
<1>1. Inv => InputsAreLiveIns BY DEF Inv
<1> QED BY <1>1, InvHolds, PTL
=============================================================================
