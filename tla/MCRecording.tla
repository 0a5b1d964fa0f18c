---------------------------- MODULE MCRecording -----------------------------
(* Two probe threads and one API thread; a host that waits for them before *)
(* it drives the session, and one that does not.                           *)
EXTENDS Recording

Disciplined == [rules |-> {"quiescent", "resumed"}, primes |-> {5, 7}, hollow_modes |-> BOOLEAN,
                max_ops |-> 2, max_files |-> 2]
Longer == [rules |-> {"quiescent", "resumed"}, primes |-> {5, 7}, hollow_modes |-> {FALSE},
           max_ops |-> 3, max_files |-> 1]
Careless == [rules |-> {}, primes |-> {5}, hollow_modes |-> {FALSE},
             max_ops |-> 2, max_files |-> 1]
AllHosts == {Disciplined, Longer, Careless}
=============================================================================
