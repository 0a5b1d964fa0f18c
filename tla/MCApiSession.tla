---------------------------- MODULE MCApiSession ----------------------------
(* Values are the terms that denote them. *)
EXTENDS ApiSession

Term(op, imm, q, a, b) == <<op, imm, q, a, b>>

SingleResidue == [calls |-> {"addp", "mulps", "ft", "automorph_eval"}, multi_calls |-> {},
                  primes |-> Primes, immediates |-> {0, 1},
                  max_objects |-> 3, max_tags |-> 3, max_cycles |-> 2]
MultiResidue == [calls |-> {}, multi_calls |-> {"addp", "mulps"},
                 primes |-> {}, immediates |-> {1},
                 max_objects |-> 5, max_tags |-> 2, max_cycles |-> 1]
BothHosts == {SingleResidue, MultiResidue}

(* A host that only adds, once. *)
Adder == [calls |-> {"addp"}, multi_calls |-> {}, primes |-> Primes, immediates |-> {1},
          max_objects |-> 3, max_tags |-> 3, max_cycles |-> 1]
OneHost == {Adder}

TwoPrimes == <<3, 5>>
=============================================================================
