----------------------------- MODULE MCProject ------------------------------
(* Two programs over two inputs and two keys; the second has other         *)
(* addresses, an input made by the host, and an output one of whose        *)
(* polynomials has no address.                                             *)
EXTENDS Project, TLC

First == [inputs |-> <<"x", "y">>, backed |-> {"x", "y"}, keys |-> <<"mk">>, precompute |-> <<>>,
          ids |-> "x" :> <<1, 0>> @@ "y" :> <<2, 3>> @@ "mk" :> <<4>>,
          live_in |-> {0, 2, 4}, computed |-> {5, 6},
          probes |-> <<"p", "q">>,
          towers |-> "p" :> 1 @@ "q" :> 2, outputs |-> "p" :> <<5>> @@ "q" :> <<5, 6>>]
Second == [inputs |-> <<"y", "x">>, backed |-> {"x"}, keys |-> <<>>, precompute |-> <<"bp">>,
           ids |-> "x" :> <<3, 2>> @@ "y" :> <<0, 1>> @@ "bp" :> <<4>>,
           live_in |-> {0, 1, 2, 3, 4}, computed |-> {6},
           probes |-> <<"q", "p">>,
           towers |-> "p" :> 1 @@ "q" :> 2, outputs |-> "p" :> <<6>> @@ "q" :> <<6>>]
TwoPrograms == {First, Second}

(* The first program again, with a polynomial of an output unmapped. *)
Shorter == [First EXCEPT !.outputs = "p" :> <<5>> @@ "q" :> <<5>>]
Rerecorded == {First, Shorter}
=============================================================================
