------------------------------ MODULE LeftFold -------------------------------
(***************************************************************************)
(* A loop over a sequence: Fold(base, seq) applies Op to base and the      *)
(* first element, to the result and the second, and so on.  Op is a        *)
(* constant of the module, so each loop of the models is an instance of    *)
(* it, and the induction over the loop's steps is proved here, once for    *)
(* all of them.                                                            *)
(***************************************************************************)
EXTENDS Naturals, Sequences, WellFoundedInduction, TLAPS

CONSTANT Op(_, _)

(* Op(a, x).  The bound variable has TLC compute a first, which keeps the  *)
(* evaluation of a long loop shallow.                                      *)
Apply(a, x) == CHOOSE z \in {Op(v, x) : v \in {a}} : TRUE

(* What the loop holds after 0, 1, .. Len(seq) steps. *)
Stages(base, seq) ==
  LET acc[n \in 0 .. Len(seq)] == IF n = 0 THEN base ELSE Apply(acc[n - 1], seq[n])
  IN acc

Fold(base, seq) == Stages(base, seq)[Len(seq)]

-----------------------------------------------------------------------------
(* Induction over the natural numbers, on sets *)

LEMMA MinNat ==
  ASSUME NEW T, T \subseteq Nat, T # {}
  PROVE \E x \in T : \A y \in T : x <= y
<1>0. PICK R : R = OpToRel(<, Nat) OBVIOUS
<1>1. IsWellFoundedOn(R, Nat) BY <1>0, NatLessThanWellFounded
<1>2. PICK x \in T : \A y \in T : ~ (<<y, x>> \in R) BY <1>1, WFMin
<1>3. \A a, b \in Nat : a < b => <<a, b>> \in R BY <1>0 DEF OpToRel
<1>4. ASSUME NEW y \in T PROVE x <= y
  <2>1. x \in Nat /\ y \in Nat OBVIOUS
  <2>2. ~(y < x) BY <1>2, <1>3, <2>1
  <2> QED BY <2>1, <2>2
<1> QED BY <1>4

LEMMA SetInduction ==
  ASSUME NEW S, 0 \in S, \A n \in Nat : n \in S => n + 1 \in S
  PROVE Nat \subseteq S
<1> SUFFICES ASSUME Nat \ S # {} PROVE FALSE OBVIOUS
<1>1. PICK x \in Nat \ S : \A y \in Nat \ S : x <= y BY MinNat
<1>2. x # 0 OBVIOUS
<1>3. x - 1 \in Nat /\ x - 1 \notin Nat \ S BY <1>1, <1>2
<1> QED BY <1>1, <1>3

(* What holds before the loop and is kept by each of its len steps holds   *)
(* after it: S is the set of the steps after which it holds.               *)
LEMMA LoopInduction ==
  ASSUME NEW S, NEW len \in Nat, 0 \in S,
         \A n \in 1 .. len : n - 1 \in S => n \in S
  PROVE len \in S
<1> DEFINE T == {n \in Nat : n <= len => n \in S}
<1>1. 0 \in T OBVIOUS
<1>2. ASSUME NEW n \in Nat, n \in T PROVE n + 1 \in T
  <2>1. CASE n + 1 <= len
    <3>1. n + 1 \in 1 .. len /\ (n + 1) - 1 = n /\ n <= len BY <2>1
    <3>2. n \in S BY <3>1, <1>2
    <3> QED BY <3>1, <3>2
  <2>2. CASE ~(n + 1 <= len) BY <2>2
  <2> QED BY <2>1, <2>2
<1>3. Nat \subseteq T
  <2> HIDE DEF T
  <2> QED BY <1>1, <1>2, SetInduction
<1> QED BY <1>3

-----------------------------------------------------------------------------
(* The equations of the loop *)

LEMMA ApplyIsOp ==
  ASSUME NEW a, NEW x PROVE Apply(a, x) = Op(a, x)
<1>1. {Op(v, x) : v \in {a}} = {Op(a, x)} OBVIOUS
<1> QED BY <1>1 DEF Apply

IsStages(f, base, seq, m) ==
  f = [n \in 0 .. m |-> IF n = 0 THEN base ELSE Apply(f[n - 1], seq[n])]

LEMMA StagesExist ==
  ASSUME NEW base, NEW seq, NEW m \in Nat
  PROVE  \E f : IsStages(f, base, seq, m)
<1> DEFINE S == {n \in Nat : \E f : IsStages(f, base, seq, n)}
<1>1. 0 \in S
  <2>1. IsStages([n \in 0 .. 0 |-> base], base, seq, 0)
    BY DEF IsStages
  <2> QED BY <2>1
<1>2. ASSUME NEW n \in Nat, n \in S PROVE n + 1 \in S
  <2>1. PICK f : IsStages(f, base, seq, n) BY <1>2
  <2> DEFINE g == [i \in 0 .. n + 1 |-> IF i = n + 1 THEN Apply(f[n], seq[n + 1]) ELSE f[i]]
  <2>2. ASSUME NEW i \in 0 .. n + 1 PROVE g[i] = IF i = 0 THEN base ELSE Apply(g[i - 1], seq[i])
    <3>1. CASE i = n + 1
      <4>1. g[i] = Apply(f[n], seq[n+1]) /\ g[n] = f[n] BY <3>1
      <4> QED BY <4>1, <3>1
    <3>2. CASE i # n + 1
      <4>1. i \in 0 .. n BY <3>2
      <4>2. g[i] = f[i] BY <3>2
      <4>3. f[i] = IF i = 0 THEN base ELSE Apply(f[i - 1], seq[i]) BY <4>1, <2>1 DEF IsStages
      <4>4. i # 0 => g[i - 1] = f[i - 1] BY <4>1
      <4> HIDE DEF g
      <4> QED BY <4>2, <4>3, <4>4
    <3> QED BY <3>1, <3>2
  <2>3. g = [i \in 0 .. n + 1 |-> g[i]] OBVIOUS
  <2>4. IsStages(g, base, seq, n + 1)
    <3> HIDE DEF g
    <3> QED BY <2>2, <2>3 DEF IsStages
  <2> QED BY <2>4
<1>3. Nat \subseteq S
  <2> HIDE DEF S
  <2> QED BY <1>1, <1>2, SetInduction
<1> QED BY <1>3

LEMMA StagesAre ==
  ASSUME NEW base, NEW seq, Len(seq) \in Nat
  PROVE  IsStages(Stages(base, seq), base, seq, Len(seq))
BY StagesExist DEF Stages, IsStages

(* The loop starts at base, each step applies Op, and the last stage is    *)
(* the result.                                                             *)
LEMMA StageSteps ==
  ASSUME NEW base, NEW seq, Len(seq) \in Nat
  PROVE  /\ Stages(base, seq)[0] = base
         /\ \A n \in 1 .. Len(seq) :
              Stages(base, seq)[n] = Op(Stages(base, seq)[n - 1], seq[n])
         /\ Fold(base, seq) = Stages(base, seq)[Len(seq)]
<1> DEFINE f == Stages(base, seq)
<1>1. f = [n \in 0 .. Len(seq) |-> IF n = 0 THEN base ELSE Apply(f[n - 1], seq[n])]
  BY StagesAre DEF IsStages
<1>2. f[0] = base
  <2> HIDE DEF f
  <2> QED BY <1>1
<1>3. ASSUME NEW n \in 1 .. Len(seq) PROVE f[n] = Op(f[n - 1], seq[n])
  <2> HIDE DEF f
  <2>1. n \in 0 .. Len(seq) /\ n # 0 OBVIOUS
  <2>2. f[n] = Apply(f[n - 1], seq[n]) BY <1>1, <2>1
  <2> QED BY <2>2, ApplyIsOp
<1> QED BY <1>2, <1>3 DEF Fold

LEMMA FoldEmpty ==
  ASSUME NEW base PROVE Fold(base, <<>>) = base
<1>1. Len(<<>>) = 0 OBVIOUS
<1> QED BY <1>1, StageSteps

(* One more element is one more step. *)
LEMMA FoldAppend ==
  ASSUME NEW base, NEW T, NEW seq \in Seq(T), NEW x
  PROVE  Fold(base, Append(seq, x)) = Op(Fold(base, seq), x)
<1> DEFINE more == Append(seq, x)
           f == Stages(base, seq)
           g == Stages(base, more)
           S == {n \in Nat : f[n] = g[n]}
<1>1. /\ Len(seq) \in Nat
      /\ Len(more) = Len(seq) + 1
      /\ Len(more) \in Nat
      /\ more[Len(seq) + 1] = x
      /\ \A n \in 1 .. Len(seq) : more[n] = seq[n]
  OBVIOUS
<1>2. /\ f[0] = base
      /\ \A n \in 1 .. Len(seq) : f[n] = Op(f[n - 1], seq[n])
      /\ Fold(base, seq) = f[Len(seq)]
  BY <1>1, StageSteps
<1>3. /\ g[0] = base
      /\ \A n \in 1 .. Len(more) : g[n] = Op(g[n - 1], more[n])
      /\ Fold(base, more) = g[Len(more)]
  <2> HIDE DEF more
  <2> QED BY <1>1, StageSteps
<1> HIDE DEF more, f, g
<1>4. 0 \in S BY <1>2, <1>3
<1>5. ASSUME NEW n \in 1 .. Len(seq), n - 1 \in S PROVE n \in S
  <2>1. n \in 1 .. Len(more) BY <1>1
  <2>2. f[n] = Op(f[n - 1], seq[n]) /\ g[n] = Op(g[n - 1], seq[n]) BY <1>1, <1>2, <1>3, <2>1
  <2>3. f[n - 1] = g[n - 1] BY <1>5
  <2> QED BY <2>2, <2>3, <1>1
<1>6. Len(seq) \in S
  <2> HIDE DEF S
  <2> QED BY <1>1, <1>4, <1>5, LoopInduction
<1>7. f[Len(seq)] = g[Len(seq)] BY <1>6
<1>8. Len(seq) + 1 \in 1 .. Len(more) /\ (Len(seq) + 1) - 1 = Len(seq) BY <1>1
<1>9. g[Len(seq) + 1] = Op(g[(Len(seq) + 1) - 1], more[Len(seq) + 1]) BY <1>3, <1>8
<1>10. Fold(base, more) = Op(g[Len(seq)], x) BY <1>1, <1>3, <1>8, <1>9
<1> QED BY <1>2, <1>7, <1>10 DEF more

(* A loop of one step. *)
LEMMA FoldOne ==
  ASSUME NEW base, NEW x PROVE Fold(base, <<x>>) = Op(base, x)
<1>1. <<>> \in Seq({}) /\ Append(<<>>, x) = <<x>> OBVIOUS
<1>2. Fold(base, Append(<<>>, x)) = Op(Fold(base, <<>>), x) BY <1>1, FoldAppend
<1> QED BY <1>1, <1>2, FoldEmpty
=============================================================================
