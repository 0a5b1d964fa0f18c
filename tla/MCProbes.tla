------------------------------ MODULE MCProbes ------------------------------
(* A small instance of Probes: polynomials are residues modulo 2.  OpenFHE *)
(* has constructed the ids of the scenario (each by NewId), the inputs of  *)
(* the scenario have been captured in order (each by Capture, taking       *)
(* addresses 1, 2, ...) and, if the scenario is quiet, recording started.  *)
EXTENDS Probes, FiniteSets, TLC

CONSTANT Scenarios   (* the scenarios of a run                             *)

(* ids: polynomials the host uses; inputs: those captured before the first *)
(* step; room: addresses; steps: bound on a behaviour; ops, imms: what its *)
(* operations are made of; quiet: recording stays on and the probes are    *)
(* never silenced or paused, a smaller state space for more polynomials.   *)
TwoPolys    == [ids |-> 2, inputs |-> 1, room |-> 3, steps |-> 5, quiet |-> FALSE,
                ops |-> Ops, imms |-> Imms]
ThreePolys  == [ids |-> 3, inputs |-> 2, room |-> 4, steps |-> 4, quiet |-> TRUE,
                ops |-> {"addp"}, imms |-> {1}]
LineageLeak == [ids |-> 3, inputs |-> 1, room |-> 4, steps |-> 6, quiet |-> TRUE,
                ops |-> Ops, imms |-> Imms]

PassingScenarios == {TwoPolys, ThreePolys}
LeakScenarios    == {LineageLeak}

VARIABLES
  scenario,   (* the scenario of this behaviour                            *)
  idle,       (* the ids it does not use                                   *)
  steps       (* steps taken                                               *)

MCAddrs == 0 .. MaxAddr
MCValues == 0 .. 1
MCKernel(inst, a, b) ==
  CASE inst.opcode \in {"addp", "subp"} -> (a + b) % 2
    [] inst.opcode = "mulp" -> a * b
    [] inst.opcode \in {"addps", "subps"} -> (a + 1) % 2
    [] OTHER -> a
MCRefuses(inst) == FALSE

IdSymmetry == Permutations(Ids)

MCInit ==
  /\ scenario \in Scenarios
  /\ idle \in SUBSET Ids /\ Cardinality(Ids \ idle) = scenario.ids
  /\ \E order \in {f \in [1 .. scenario.inputs -> Ids \ idle] :
                    \A i, j \in DOMAIN f : f[i] = f[j] => i = j} :
       LET Address(id) == IF \E i \in DOMAIN order : order[i] = id
                          THEN CHOOSE i \in DOMAIN order : order[i] = id ELSE 0
           v == [i \in DOMAIN order |-> i % 2]
           ins == {order[i] : i \in DOMAIN order}
       IN  /\ alloc = [map |-> [id \in Ids |-> Address(id)],
                       next |-> scenario.inputs + 1, pool |-> <<>>]
           /\ pinned = ins /\ known = ins /\ captured = ins /\ moved = {}
           /\ refcount = [id \in Ids |-> IF id \in idle THEN 0 ELSE 1]
           /\ data_parent = [a \in Addrs |-> 0]
           /\ running = scenario.quiet
           /\ paused = FALSE /\ suppressed = FALSE /\ serialization = FALSE
           /\ inputs = [a \in Addrs |-> IF a \in DOMAIN v THEN v[a] ELSE Absent]
           /\ mem = inputs
           /\ first = [a \in Addrs |-> "none"]
           /\ val = [id \in Ids |-> IF id \in ins THEN v[Address(id)] ELSE Zero]
           /\ steps = 0

MCNext ==
  /\ steps < scenario.steps
  /\ steps' = steps + 1
  /\ UNCHANGED <<scenario, idle>>
  /\ NextWith(scenario.ops, scenario.imms)
  /\ \A id \in idle : refcount'[id] = 0
  /\ alloc'.next <= scenario.room + 1
  /\ scenario.quiet => running' /\ ~paused' /\ ~suppressed' /\ ~serialization'

MCSpec == MCInit /\ [][MCNext]_<<vars, scenario, idle, steps>>
=============================================================================
