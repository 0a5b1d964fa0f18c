------------------------------ MODULE Gadgets -------------------------------
(***************************************************************************)
(* The base-conversion gadgets of the FHETCH API (src/fhetch_api.cpp):     *)
(* fast base conversion, rescaling and digit decomposition, each a         *)
(* sequence of recorded calls whose immediates are computed here.  All of  *)
(* them act coefficient by coefficient, so one integer stands for a        *)
(* polynomial.                                                             *)
(***************************************************************************)
EXTENDS FhetchApi, Integers

CONSTANTS
  Conversions,      (* fast_base_convert: <<source base, target base>>     *)
  Rescalings,       (* rescale_fbc: <<base, rescale base>>                 *)
  Decompositions    (* dig_decomp: <<digit bases, P base>>                 *)

VARIABLES
  task,      (* the gadget to record, with its arguments                   *)
  X,         (* the integer whose residues are the operand                 *)
  inputs,    (* address -> value of the operand's residues                 *)
  operand,   (* the operand                                                *)
  api,       (* the API's state                                            *)
  results    (* the multi-residue polynomials returned, or None            *)

vars == <<task, X, inputs, operand, api, results>>

(* F(r), where TLC computes r before F. *)
After(r, F(_)) == CHOOSE z \in {F(v) : v \in {r}} : TRUE

(* One call for each modulus of the base, in its order. *)
PerResidue(s, base, Call(_, _)) ==
  LET Put(res, q, r) == Returns(r.api, With(res, q, r.out))
      Add(acc, q) == After(acc, LAMBDA v : Put(v.out, q, Call(v.api, q)))
  IN Collect(base, FoldLeft(Add, Returns(s, <<>>), base))

Product(base) == FoldLeft(LAMBDA r, q : r * q, 1, base)

-----------------------------------------------------------------------------
(* Immediates *)

(* powmod_u64(): by repeated squaring. *)
powmod_u64(a, e, m) ==
  LET pow[k \in 0 .. e] ==
        IF k = 0 THEN 1 % m
        ELSE LET h == pow[k \div 2] IN
             IF k % 2 = 1 THEN (((h * h) % m) * (a % m)) % m ELSE (h * h) % m
  IN pow[e]

modinv_prime(a, p) == powmod_u64(a % p, p - 2, p)

prod_mod(base, m) == FoldLeft(LAMBDA r, q : (r * (q % m)) % m, 1 % m, base)
prod_mod_skip_index(base, skip, m) == prod_mod(RemoveAt(base, skip), m)

q_hat_inv_mod_q(base) ==
  [i \in DOMAIN base |-> modinv_prime(prod_mod_skip_index(base, i, base[i]), base[i])]
q_hat_mod_p(base, p) == [i \in DOMAIN base |-> prod_mod_skip_index(base, i, p)]
P_inv_mod_q(rescale_base, target_base) ==
  [i \in DOMAIN target_base |-> modinv_prime(prod_mod(rescale_base, target_base[i]), target_base[i])]

-----------------------------------------------------------------------------
(* Recorded calls.  One that continues a computation takes the pair the    *)
(* last one returned.                                                      *)

mulps(r, imm, q) == After(r, LAMBDA v : sr(from_int(v.api), "mulps", v.out, v.out, imm, q))
addps(r, imm, q) == After(r, LAMBDA v : sr(from_int(v.api), "addps", v.out, v.out, imm, q))

(* r's object joins a list. *)
Push(list, r) == Returns(r.api, Append(list, r.out))

(* scaled[i] = x[q_i] * q_hat[i] mod q_i. *)
prescale_by_q_hat(s, x, q_hat) ==
  FoldLeft(LAMBDA acc, i : Push(acc.out, mulps(Returns(acc.api, x.res[x.base[i]]), q_hat[i], x.base[i])),
           Returns(s, <<>>), [i \in DOMAIN x.base |-> i])

half(q_i) == (q_i - 1) \div 2
neg_half(q_i, p) == IF half(q_i) % p = 0 THEN 0 ELSE p - (half(q_i) % p)

(* Variant: the shift is not taken back. *)
center_mod_q_into_p_Shifted(r, q_i, target_p, shape) ==
  mulps(addps(r, half(q_i), q_i), 1, target_p)

(* Variant: FourOp's leading multiplication is recorded under the target prime. *)
center_mod_q_into_p_Early(r, q_i, target_p, shape) ==
  LET shift_in == IF shape = "FourOp" THEN mulps(r, 1, target_p) ELSE r
      rebased == mulps(addps(shift_in, half(q_i), q_i), 1, target_p)
  IN addps(rebased, neg_half(q_i, target_p), target_p)

(* Shift, rebase and shift back; FourOp starts with a multiplication by 1. *)
center_mod_q_into_p(r, q_i, target_p, shape) ==
  LET shift_in == IF shape = "FourOp" THEN mulps(r, 1, q_i) ELSE r
      rebased == mulps(addps(shift_in, half(q_i), q_i), 1, target_p)
  IN addps(rebased, neg_half(q_i, target_p), target_p)

fbc_term(s, scaled_i, q_i, target_p, q_star_i, variant, shape) ==
  LET coeff == IF variant = "ReducedNoise"
               THEN center_mod_q_into_p(Returns(s, scaled_i), q_i, target_p, shape)
               ELSE Returns(s, scaled_i)
  IN mulps(coeff, q_star_i, target_p)

sum_fbc_terms(s, scaled, base, target_p, q_star, variant, shape) ==
  LET Term(st, i) == fbc_term(st, scaled[i], base[i], target_p, q_star[i], variant, shape)
      Plus(sum, t) == sr(t.api, "addp", sum, t.out, 0, target_p)
      Add(acc, i) == After(acc, LAMBDA v : Plus(v.out, Term(v.api, i)))
  IN FoldLeft(Add, Term(s, 1), [i \in 1 .. Len(base) - 1 |-> i + 1])

(* Source primes in the target are passed through. *)
convert_residue(st, x, scaled, p, variant, shape) ==
  IF p \in ToSet(x.base) THEN copy_residue(st, x.res[p], p)
  ELSE sum_fbc_terms(st, scaled, x.base, p, q_hat_mod_p(x.base, p), variant, shape)

fast_base_convert(s, x, target_base, variant, shape) ==
  LET From(scaled) == PerResidue(scaled.api, target_base, LAMBDA st, p :
                        convert_residue(st, x, scaled.out, p, variant, shape)) IN
  IF x.base = <<>> THEN mr_zeros(s, target_base)
  ELSE From(prescale_by_q_hat(s, x, q_hat_inv_mod_q(x.base)))

target_after_rescale(base, rescale_base) ==
  SelectSeq(base, LAMBDA q : q \notin ToSet(rescale_base))

(* Variant: the difference is not divided. *)
rescale_residue_NotDivided(s, x_q, y_q, q, P_inv_q) == sr(s, "subp", x_q, y_q, 0, q)

rescale_residue(s, x_q, y_q, q, P_inv_q) ==
  mulps(sr(s, "subp", x_q, y_q, 0, q), P_inv_q, q)

(* Each residue of x less that of y, divided by the rescale base. *)
divide_residues(x, y, rescale_base) ==
  LET target == y.out.base
      P_inv == P_inv_mod_q(rescale_base, target)
      Index(q) == CHOOSE i \in DOMAIN target : target[i] = q
  IN PerResidue(y.api, target, LAMBDA st, q :
       rescale_residue(st, x.res[q], y.out.res[q], q, P_inv[Index(q)]))

rescale_fbc(s, x, rescale_base, variant, shape) ==
  divide_residues(x, fast_base_convert(s, mr_subset(x, rescale_base),
                                       target_after_rescale(x.base, rescale_base), variant, shape),
                  rescale_base)

(* Variant: every digit converts the whole operand. *)
dig_decomp_Whole(s, x, digit_bases, p_base, shape) ==
  FoldLeft(LAMBDA acc, base :
             Push(acc.out, fast_base_convert(acc.api, x, x.base \o p_base, "ReducedNoise", shape)),
           Returns(s, <<>>), digit_bases)

(* One conversion per digit, to the operand's base and the P base. *)
dig_decomp(s, x, digit_bases, p_base, shape) ==
  FoldLeft(LAMBDA acc, base :
             Push(acc.out, fast_base_convert(acc.api, mr_subset(x, base), x.base \o p_base,
                                             "ReducedNoise", shape)),
           Returns(s, <<>>), digit_bases)

-----------------------------------------------------------------------------
Tasks ==
       UNION {[gadget : {"convert"}, base : {c[1]}, arg : {c[2]},
               variant : {"Standard", "ReducedNoise"}, shape : {"ThreeOp", "FourOp"}] : c \in Conversions}
  \cup UNION {[gadget : {"rescale"}, base : {c[1]}, arg : {c[2]},
               variant : {"Standard", "ReducedNoise"}, shape : {"ThreeOp", "FourOp"}] : c \in Rescalings}
  \cup UNION {[gadget : {"decompose"}, base : {FlattenSeq(c[1])}, arg : {c},
               variant : {"ReducedNoise"}, shape : {"ThreeOp", "FourOp"}] : c \in Decompositions}

(* The host's operand: the residues of X, tagged data of its own. *)
Init ==
  /\ task \in Tasks
  /\ X \in 0 .. Product(task.base) - 1
  /\ LET made == PerResidue([NewApi EXCEPT !.recording = TRUE], task.base, LAMBDA s, q : from_data(s, X % q)) IN
     /\ api = made.api
     /\ operand = made.out
     /\ inputs = [a \in 0 .. Len(task.base) - 1 |-> X % task.base[a + 1]]
  /\ results = None

(* The call's trace and the multi-residue polynomials it returns. *)
Records(r) ==
  /\ results = None
  /\ api' = r.api
  /\ results' = r.out
  /\ UNCHANGED <<task, X, inputs, operand>>

Convert ==
  /\ task.gadget = "convert"
  /\ Records(Push(<<>>, fast_base_convert(api, operand, task.arg, task.variant, task.shape)))

Rescale ==
  /\ task.gadget = "rescale"
  /\ Records(Push(<<>>, rescale_fbc(api, operand, task.arg, task.variant, task.shape)))

Decompose ==
  /\ task.gadget = "decompose"
  /\ Records(dig_decomp(api, operand, task.arg[1], task.arg[2], task.shape))

Next == Convert \/ Rescale \/ Decompose

Spec == Init /\ [][Next]_vars

-----------------------------------------------------------------------------
(* Properties *)

(* What replaying the recorded instructions leaves at a result. *)
Replayed == Run(inputs, api.log)
ValueOf(m, q) == At(Replayed, m.res[q].address)

(* The integers a conversion of x from base may stand for: x up to a few   *)
(* multiples of the base's product, centred for ReducedNoise.              *)
Lifts(x, base, variant) ==
  LET Q == Product(base) n == Len(base) IN
  {L \in {(x % Q) + u * Q : u \in -(n + 1) .. n + 1} :
     IF variant = "Standard" THEN n = 0 \/ (0 <= L /\ L < n * Q)
     ELSE n = 0 \/ (-(n * Q) < 2 * L /\ 2 * L < n * Q)}

IsLift(m, x, base, variant) ==
  \E L \in Lifts(x, base, variant) : \A i \in DOMAIN m.base : ValueOf(m, m.base[i]) = L % m.base[i]

(* The trace of a fast base conversion computes, at all target primes      *)
(* together, one and the same integer congruent to the operand, with the   *)
(* noise its variant allows; shared primes keep their residue.             *)
ConversionLifts ==
  results # None /\ task.gadget = "convert" => IsLift(results[1], X, task.base, task.variant)

(* Rescaling divides exactly: the operand less a small integer congruent   *)
(* to it modulo P, divided by P.                                           *)
RescaleDivides ==
  results # None /\ task.gadget = "rescale" =>
    LET P == Product(task.arg) z == results[1] IN
    \E L \in Lifts(X, task.arg, task.variant) :
      \A i \in DOMAIN z.base : ValueOf(z, z.base[i]) = ((X - L) \div P) % z.base[i]

(* Each digit is one integer at every prime of the extended base,          *)
(* congruent to the operand modulo the digit's own primes.                 *)
DigitsLift ==
  results # None /\ task.gadget = "decompose" =>
    \A i \in DOMAIN results : IsLift(results[i], X, task.arg[1][i], "ReducedNoise")

(* Both shapes of centring replay to the same values. *)
ShapesAgree ==
  results # None /\ task.gadget = "convert" =>
    LET other == IF task.shape = "FourOp" THEN "ThreeOp" ELSE "FourOp"
        start == [NewApi EXCEPT !.recording = TRUE, !.next_address = Len(task.base)]
        Agrees(r) == \A p \in ToSet(task.arg) :
                       At(Run(inputs, r.api.log), r.out.res[p].address) = ValueOf(results[1], p)
    IN Agrees(fast_base_convert(start, operand, task.arg, task.variant, other))

(* A result is bound to its own prime, whatever token its last instruction *)
(* carries: the contract of captured output shapes.                        *)
ResultsBound ==
  results # None =>
    \A i \in DOMAIN results : \A q \in ToSet(results[i].base) :
      LET a == results[i].res[q].address IN
      task.base # <<>> => a \in DOMAIN api.address_modulus /\ api.address_modulus[a] = q
=============================================================================
