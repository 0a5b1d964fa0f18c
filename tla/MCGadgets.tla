----------------------------- MODULE MCGadgets ------------------------------
(* Small primes, and the simulator's arithmetic on one coefficient. *)
EXTENDS Gadgets

Kernel(op, imm, q, a, b) ==
  CASE op = "addp"  -> (a + b) % q
    [] op = "subp"  -> (a - b) % q
    [] op = "mulps" -> (a * imm) % q
    [] op = "addps" -> (a + imm) % q

SmallConversions ==
  {<<s, t>> : s \in {<<>>, <<7>>, <<5, 3>>}, t \in {<<11, 13>>, <<3, 17, 11>>, <<17, 7, 5>>}}
  \cup {<<<<3, 5, 7>>, <<5, 17>>>>, <<<<3, 5, 7>>, <<11, 13>>>>}
SmallRescalings == {<<<<3, 5, 7>>, <<7>>>>, <<<<7, 5, 3>>, <<5, 3>>>>, <<<<11, 3, 5>>, <<3>>>>}
SmallDecompositions == {<<<<<<3>>, <<7>>>>, <<11, 13>>>>, <<<<<<5, 3>>, <<7>>>>, <<11>>>>}
=============================================================================
