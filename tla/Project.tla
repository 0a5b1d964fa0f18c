------------------------------ MODULE Project -------------------------------
(***************************************************************************)
(* A project directory over several runs of a host program: a run records  *)
(* into it or finds a recording there, brings its inputs up to date, and   *)
(* has a worker replay it from the files (src/compiler.cpp,                *)
(* src/auto_facade.cpp, src/local_replay.cpp).  The host tags its inputs   *)
(* while it records and replays cooperatively (auto_tagging, target local).*)
(* Files are written one after the other, and a crash may come before any  *)
(* of the writes or in the middle of it.                                   *)
(*                                                                         *)
(* A source file is known by its version, which is also its modification   *)
(* time.  A program is known by its addresses: where its inputs and keys   *)
(* lie, which of those its trace reads, which it writes, and what its      *)
(* probes name.                                                            *)
(***************************************************************************)
EXTENDS Naturals, Sequences, Functions

CONSTANTS
  None,
  Programs,     (* the programs a host may record                          *)
  Formats,      (* the trace formats: "text", "binary", "both"             *)
  Names,        (* the names of inputs and keys                            *)
  Probes,       (* the names of outputs                                    *)
  Foreign,      (* source versions that cannot be used: no file that can   *)
                (* be opened, or one of another layout                     *)
  MaxVersion, MaxRuns, MaxCrashes,   (* bounds                             *)
  Rules         (* see below                                               *)

(* "cached": the host records only if is_cache_valid() is false, and the   *)
(*           directory is removed as a whole before another program is     *)
(*           recorded in it;                                               *)
(* "newer":  a source is replaced only by a newer one;                     *)
(* "steady": sources are not replaced while the host records;              *)
(* "small":  an .ids file is on disk as a whole or not at all.             *)

Versions == 1 .. MaxVersion
Usable(v) == v \notin Foreign

(* The names of the keys, and what a program tags. *)
KeyFiles == <<"mk", "rk", "bp">>
Tagged(prog) == Range(prog.inputs) \cup Range(prog.keys) \cup Range(prog.precompute)

(* There is one record for each name.  A polynomial that is tagged has an  *)
(* address of its own, and the trace reads nothing that is neither tagged  *)
(* nor written by it.                                                      *)
ASSUME VersionsAssumption == MaxVersion \in Nat \ {0}
ASSUME NoneAssumption == None \notin Programs /\ None \notin Versions
ASSUME NamesAssumption == Range(KeyFiles) \subseteq Names
ASSUME FormatsAssumption == Formats \subseteq {"text", "binary", "both"}
ASSUME ProgramsAssumption ==
  \A prog \in Programs :
    /\ prog.inputs \in Seq(Names \ Range(KeyFiles)) /\ IsInjective(prog.inputs)
    /\ prog.backed \subseteq Range(prog.inputs)
    /\ prog.keys \in Seq(Range(KeyFiles)) /\ prog.precompute \in Seq(Range(KeyFiles))
    /\ \A n \in Tagged(prog) : prog.ids[n] \in Seq(Nat)
    /\ \A m, n \in Tagged(prog) : \A i \in DOMAIN prog.ids[m], j \in DOMAIN prog.ids[n] :
         prog.ids[m][i] = prog.ids[n][j] => m = n /\ i = j
    /\ \A a \in prog.live_in : \E n \in Tagged(prog) : a \in Range(prog.ids[n])
    /\ prog.probes \in Seq(Probes)
    /\ \A p \in Range(prog.probes) : prog.towers[p] \in Nat \ {0} /\ prog.outputs[p] \in Seq(Nat)

VARIABLES
  source,    (* the version of each source file                            *)
  dir,       (* the contents of each file of the directory                 *)
  stage,     (* how far the host, or its worker, is                        *)
  format,    (* NIOBIUM_TRACE_FORMAT of the run that records               *)
  todo,      (* the writes it has left to make before its next decision    *)
  mtime,     (* Impl: source_mtime of each captured input                  *)
  queue,     (* what is left of the list it goes through: names to tag,    *)
             (* inputs to refresh, probes to reconstruct                   *)
  outcome,   (* of replay(): "none" yet, "true" or "false"                 *)
  seen,      (* history: the version of each input this replay looked at   *)
             (* and could use                                              *)
  recorded,  (* history: the program last recorded here                    *)
  cut,       (* history: a worker of this replay crashed                   *)
  runs, crashes

vars == <<source, dir, stage, format, todo, mtime, queue, outcome, seen, recorded, cut, runs, crashes>>
history == <<runs, crashes>>

Recording == {"tagging", "probing", "stopping", "indexing"}

-----------------------------------------------------------------------------
(* Files *)

cryptocontext == <<"cryptocontext", "dat">>
fhetch == <<"trace", "fhetch">>
fhex == <<"trace", "fhex">>
inputs_json == <<"inputs", "json">>
outputs_json == <<"outputs", "json">>
replay_json == <<"fhetch_replay", "json">>
replay_outputs == <<"fhetch_replay_outputs", "json">>
ids(n) == <<n, "ids">>
bin(n) == <<n, "bin">>
template(p) == <<p, "template">>
ct(p) == <<p, "ct">>

Files == {cryptocontext, fhetch, fhex, inputs_json, outputs_json, replay_json, replay_outputs}
           \cup (Names \X {"ids", "bin"}) \cup (Probes \X {"template", "ct"})

Absent == [state |-> "absent"]
Empty == [state |-> "empty"]
Part(data) == [state |-> "part", data |-> data]
Whole(data) == [state |-> "whole", data |-> data]

Exists(f) == dir[f].state # "absent"
IsWhole(f) == dir[f].state = "whole"

(* The steps of a run between two decisions. *)
Put(f, data) == [op |-> "put", file |-> f, to |-> Whole(data)]
Create(f) == [op |-> "put", file |-> f, to |-> Empty]
Unlink(f) == [op |-> "put", file |-> f, to |-> Absent]
TakeTime(n) == [op |-> "time", name |-> n]
PutInputs == [op |-> "inputs", file |-> inputs_json]

(* What a crash in the middle of a step may leave of its file. *)
Left(step) ==
  IF step.op = "inputs" THEN {Empty, Part(<<>>)}
  ELSE IF step.op = "time" \/ step.to.state # "whole" THEN {}
  ELSE {Empty} \cup (IF step.file[2] = "ids" /\ "small" \in Rules THEN {} ELSE {Part(step.to.data)})

-----------------------------------------------------------------------------
(* Recording *)

existing_trace_path == Exists(fhex) \/ Exists(fhetch)
is_cache_valid == existing_trace_path

Version(prog, n) == IF n \in prog.backed THEN source[n] ELSE 1

(* tag_input(), tag_keys(), tag_bootstrap_precompute(): the addresses, then *)
(* the data, then the time of the file it came from.                       *)
tag(prog, n) ==
  LET addresses == Put(ids(n), prog.ids[n])
      data == Put(bin(n), Version(prog, n)) IN
  IF n \in prog.backed THEN <<addresses, data, TakeTime(n)>> ELSE <<addresses, data>>

(* TraceWriter::write(): the text file is created in every format. *)
TraceWrites(prog, fmt) ==
  CASE fmt = "text"   -> <<Create(fhetch), Put(fhetch, prog)>>
    [] fmt = "both"   -> <<Create(fhetch), Put(fhetch, prog), Put(fhex, prog)>>
    [] fmt = "binary" -> <<Create(fhetch), Put(fhex, prog), Unlink(fhetch)>>

(* A probe none of whose polynomials has an address is not listed: its     *)
(* entry is empty, and readers pass over it.                               *)
OutputsOf(prog) ==
  [i \in DOMAIN prog.probes |-> [name |-> prog.probes[i], addrs |-> prog.outputs[prog.probes[i]]]]

(* Variant: the outcome of the run before is still there. *)
LaunchKeepsOutcome ==
  /\ stage \in {"ended", "done"} /\ runs < MaxRuns
  /\ stage' = "launched"
  /\ todo' = IF Exists(cryptocontext) THEN <<>> ELSE <<Put(cryptocontext, "cc")>>
  /\ cut' = FALSE
  /\ seen' = [n \in Names |-> None]
  /\ runs' = runs + 1
  /\ UNCHANGED <<source, dir, format, mtime, queue, outcome, recorded, crashes>>

(* A run starts with capture_crypto_context(). *)
Launch ==
  /\ stage \in {"ended", "done"} /\ runs < MaxRuns
  /\ stage' = "launched"
  /\ todo' = IF Exists(cryptocontext) THEN <<>> ELSE <<Put(cryptocontext, "cc")>>
  /\ outcome' = "none" /\ cut' = FALSE
  /\ seen' = [n \in Names |-> None]
  /\ runs' = runs + 1
  /\ UNCHANGED <<source, dir, format, mtime, queue, recorded, crashes>>

Record(prog) ==
  /\ stage = "launched" /\ todo = <<>>
  /\ "cached" \in Rules => ~is_cache_valid /\ recorded \in {None, prog}
  /\ \A n \in prog.backed : Usable(source[n])
  /\ stage' = "tagging"
  /\ queue' = prog.inputs \o prog.keys
  /\ recorded' = prog
  /\ UNCHANGED <<source, dir, format, todo, mtime, outcome, seen, cut, history>>

(* The host's tag_input() and tag_keys(), then auto_capture_at_stop. *)
Tag ==
  /\ stage \in {"tagging", "stopping"} /\ todo = <<>> /\ queue # <<>>
  /\ todo' = tag(recorded, Head(queue))
  /\ queue' = Tail(queue)
  /\ UNCHANGED <<source, dir, stage, format, mtime, outcome, seen, recorded, cut, history>>

(* probe(): the template of each output. *)
TagProbes ==
  /\ stage = "tagging" /\ todo = <<>> /\ queue = <<>>
  /\ stage' = "probing"
  /\ todo' = [i \in DOMAIN recorded.probes |->
                Put(template(recorded.probes[i]), recorded.towers[recorded.probes[i]])]
  /\ UNCHANGED <<source, dir, format, mtime, queue, outcome, seen, recorded, cut, history>>

(* stop(): the trace, and the names left to capture. *)
Stop(fmt) ==
  /\ stage = "probing" /\ todo = <<>>
  /\ stage' = "stopping"
  /\ format' = fmt
  /\ todo' = TraceWrites(recorded, fmt)
  /\ queue' = recorded.precompute
  /\ UNCHANGED <<source, dir, mtime, outcome, seen, recorded, cut, history>>

(* write_replay_json(): the index is last. *)
WriteReplayJson ==
  /\ stage = "stopping" /\ todo = <<>> /\ queue = <<>>
  /\ stage' = "indexing"
  /\ todo' = <<PutInputs, Put(outputs_json, OutputsOf(recorded)),
               Put(replay_json, IF format = "binary" THEN fhex ELSE fhetch)>>
  /\ UNCHANGED <<source, dir, format, mtime, queue, outcome, seen, recorded, cut, history>>

(* The next step of a run. *)
ListedInputs ==
  [i \in DOMAIN recorded.inputs |->
     LET n == recorded.inputs[i] IN
     [name |-> n, mtime |-> IF n \in recorded.backed THEN mtime[n] ELSE None]]
Step ==
  /\ todo # <<>>
  /\ LET step == Head(todo) IN
     \/ step.op = "put" /\ dir' = [dir EXCEPT ![step.file] = step.to] /\ UNCHANGED mtime
     \/ step.op = "time" /\ mtime' = [mtime EXCEPT ![step.name] = source[step.name]] /\ UNCHANGED dir
     \/ /\ step.op = "inputs"
        /\ dir' = [dir EXCEPT ![inputs_json] = Whole(ListedInputs)]
        /\ UNCHANGED mtime
  /\ todo' = Tail(todo)
  /\ UNCHANGED <<source, stage, format, queue, outcome, seen, recorded, cut, history>>

-----------------------------------------------------------------------------
(* replay(): refresh_stale_inputs(), then the worker *)

(* read_addr_ids(), read_ids(): what a cut file does not hold reads as 0. *)
read_ids(n) ==
  CASE dir[ids(n)].state = "whole" -> dir[ids(n)].data
    [] dir[ids(n)].state = "part" -> [i \in DOMAIN dir[ids(n)].data |-> IF i = 1 THEN dir[ids(n)].data[1] ELSE 0]
    [] OTHER -> <<>>

Ends(result) == stage' = "done" /\ outcome' = result /\ todo' = <<>> /\ queue' = <<>>

(* A run may replay without having recorded, whether or not there is a     *)
(* trace.                                                                  *)
Replay ==
  /\ todo = <<>>
  /\ stage \in {"launched", "indexing"}
  /\ IF existing_trace_path
     THEN /\ stage' = "refreshing"
          /\ queue' = IF IsWhole(inputs_json) THEN dir[inputs_json].data ELSE <<>>
          /\ UNCHANGED <<outcome, todo>>
     ELSE Ends("false")
  /\ UNCHANGED <<source, dir, format, mtime, seen, recorded, cut, history>>

(* Variant: the new time is listed before the data is rewritten. *)
RefreshInputMarksFirst ==
  /\ stage = "refreshing" /\ todo = <<>> /\ queue # <<>>
  /\ queue' = Tail(queue)
  /\ LET n == Head(queue).name
         addrs == read_ids(n)
         unchanged == source[n] = Head(queue).mtime
         reload == /\ Head(queue).mtime # None /\ ~unchanged
                   /\ addrs # <<>> /\ Usable(source[n]) /\ Len(addrs) = Len(recorded.ids[n]) IN
     /\ seen' = [seen EXCEPT ![n] = IF Head(queue).mtime # None /\ (unchanged \/ reload)
                                    THEN source[n] ELSE None]
     /\ todo' = IF reload
                THEN <<Put(inputs_json, [i \in DOMAIN dir[inputs_json].data |->
                                           IF dir[inputs_json].data[i].name = n
                                           THEN [name |-> n, mtime |-> source[n]]
                                           ELSE dir[inputs_json].data[i]]),
                       Put(ids(n), addrs), Put(bin(n), source[n])>>
                ELSE <<>>
  /\ UNCHANGED <<source, dir, stage, format, mtime, outcome, recorded, cut, history>>

(* One turn of refresh_stale_inputs(): a changed source is written over    *)
(* the recorded data, at the addresses the .ids file holds; one that       *)
(* cannot be used is skipped.                                              *)
RefreshInput ==
  /\ stage = "refreshing" /\ todo = <<>> /\ queue # <<>>
  /\ queue' = Tail(queue)
  /\ LET n == Head(queue).name
         addrs == read_ids(n)
         unchanged == source[n] = Head(queue).mtime
         reload == /\ Head(queue).mtime # None /\ ~unchanged
                   /\ addrs # <<>> /\ Usable(source[n]) /\ Len(addrs) = Len(recorded.ids[n]) IN
     /\ seen' = [seen EXCEPT ![n] = IF Head(queue).mtime # None /\ (unchanged \/ reload)
                                    THEN source[n] ELSE None]
     /\ todo' = IF reload THEN <<Put(ids(n), addrs), Put(bin(n), source[n])>> ELSE <<>>
  /\ UNCHANGED <<source, dir, stage, format, mtime, outcome, recorded, cut, history>>

-----------------------------------------------------------------------------
(* The worker: run_local_replay_from_project() *)

(* The instructions before some cut read and write some of what prog does. *)
Prefixes(prog) ==
  {[prog EXCEPT !.live_in = reads, !.computed = writes] :
     reads \in SUBSET prog.live_in, writes \in SUBSET prog.computed}

(* read_project_index(), Simulator::load_trace(): what the trace may read  *)
(* as.  A cut text is the instructions before the cut, if there are any;   *)
(* a cut binary is not read at all.                                        *)
Traces ==
  IF ~IsWhole(replay_json) THEN {None}
  ELSE LET f == dir[replay_json].data IN
       CASE IsWhole(f) -> {dir[f].data}
         [] dir[f].state = "part" /\ f = fhetch -> {None} \cup Prefixes(dir[f].data)
         [] OTHER -> {None}

(* load_source_inputs(), load_source_keys(): the files in the order in     *)
(* which they are loaded; a key that is not there is passed over.          *)
InputFiles == IF Exists(inputs_json)
              THEN [i \in DOMAIN dir[inputs_json].data |-> dir[inputs_json].data[i].name]
              ELSE <<>>
Present(n) == Exists(ids(n)) /\ Exists(bin(n))
Loads ==
  /\ Exists(inputs_json) => IsWhole(inputs_json)
  /\ \A n \in Range(InputFiles) : Present(n) /\ IsWhole(bin(n))
  /\ \A k \in Range(KeyFiles) : Present(k) => IsWhole(bin(k))

Polynomial(n, v, i) == <<n, v, i>>

(* Where an address is loaded from: the file, and the place in its .ids.   *)
(* Each polynomial goes to the next address, and the last one stays.       *)
Loaded == InputFiles \o KeyFiles
Places(a) ==
  UNION {{j} \X {i \in DOMAIN read_ids(Loaded[j]) : read_ids(Loaded[j])[i] = a} :
           j \in {k \in DOMAIN Loaded : Present(Loaded[k])}}
LastPlace(a) ==
  CHOOSE h \in Places(a) : \A g \in Places(a) : g[1] < h[1] \/ (g[1] = h[1] /\ g[2] <= h[2])

(* Variant: a live-in that no file supplies is left at zero. *)
populate_inputs_ZeroFills(trace) == Loads

(* populate_inputs(): every live-in must have been stored. *)
populate_inputs(trace) == Loads /\ \A a \in trace.live_in : Places(a) # {}

(* What was stored; an address nothing was stored at reads as zeros. *)
Stored(trace) ==
  [a \in trace.live_in |->
     IF Places(a) = {} THEN <<>>
     ELSE LET n == Loaded[LastPlace(a)[1]] IN Polynomial(n, dir[bin(n)].data, LastPlace(a)[2])]

(* The value a run leaves at an address: empty if nothing wrote it. *)
Value(trace, mem, a) == IF a \in trace.computed THEN <<a, mem>> ELSE <<>>

Worker ==
  /\ stage = "refreshing" /\ todo = <<>> /\ queue = <<>>
  /\ \E trace \in Traces :
       IF trace # None /\ populate_inputs(trace) /\ IsWhole(outputs_json)
       THEN /\ stage' = "working"
            /\ todo' = LET outputs == dir[outputs_json].data IN
                       <<Put(replay_outputs,
                             [i \in DOMAIN outputs |->
                                [name |-> outputs[i].name,
                                 values |-> [k \in DOMAIN outputs[i].addrs |->
                                               Value(trace, Stored(trace), outputs[i].addrs[k])]]])>>
            /\ UNCHANGED <<outcome, queue>>
       ELSE Ends("false")
  /\ UNCHANGED <<source, dir, format, mtime, seen, recorded, cut, history>>

(* reconstruct_probes_in(), one output at a time: a probe is written if    *)
(* every tower of its template has a value; a template that cannot be read *)
(* ends the worker.                                                        *)
Listed(o) == o.values # <<>>
Broken(o) == Listed(o) /\ Exists(template(o.name)) /\ ~IsWhole(template(o.name))
Filled(o) ==
  /\ Listed(o) /\ IsWhole(template(o.name))
  /\ LET towers == dir[template(o.name)].data IN
     Len(o.values) >= towers /\ \A i \in 1 .. towers : o.values[i] # <<>>

Reconstruct ==
  /\ stage = "working" /\ todo = <<>>
  /\ IF IsWhole(cryptocontext)
     THEN /\ stage' = "reconstructing"
          /\ queue' = dir[replay_outputs].data
          /\ UNCHANGED <<outcome, todo>>
     ELSE Ends("false")
  /\ UNCHANGED <<source, dir, format, mtime, seen, recorded, cut, history>>

ReconstructProbe ==
  /\ stage = "reconstructing" /\ todo = <<>> /\ queue # <<>>
  /\ LET o == Head(queue) IN
     IF Broken(o) THEN Ends("false")
     ELSE /\ queue' = Tail(queue)
          /\ todo' = IF Filled(o)
                     THEN <<Put(ct(o.name), [i \in 1 .. dir[template(o.name)].data |-> o.values[i]])>>
                     ELSE <<>>
          /\ UNCHANGED <<stage, outcome>>
  /\ UNCHANGED <<source, dir, format, mtime, seen, recorded, cut, history>>

(* replay_project(): the worker succeeded and left some probe. *)
Finish ==
  /\ stage = "reconstructing" /\ todo = <<>> /\ queue = <<>>
  /\ Ends(IF \E p \in Probes : Exists(ct(p)) THEN "true" ELSE "false")
  /\ UNCHANGED <<source, dir, format, mtime, seen, recorded, cut, history>>

-----------------------------------------------------------------------------
(* The environment *)

Torn == {dir} \cup (IF todo = <<>> THEN {} ELSE {[dir EXCEPT ![Head(todo).file] = c] : c \in Left(Head(todo))})

(* The host is killed, or its worker is: then replay() is false. *)
Crash ==
  /\ stage \notin {"ended", "done"} /\ crashes < MaxCrashes
  /\ dir' \in Torn
  /\ crashes' = crashes + 1
  /\ \/ /\ stage' = "ended"
        /\ todo' = <<>> /\ queue' = <<>>
        /\ UNCHANGED <<outcome, cut>>
     \/ /\ stage \in {"working", "reconstructing"}
        /\ Ends("false")
        /\ cut' = TRUE
  /\ UNCHANGED <<source, format, mtime, seen, recorded, runs>>

ReplaceSource(n, v) ==
  /\ v # source[n]
  /\ "newer" \in Rules => v > source[n]
  /\ "steady" \in Rules => stage \notin Recording
  /\ source' = [source EXCEPT ![n] = v]
  /\ UNCHANGED <<dir, stage, format, todo, mtime, queue, outcome, seen, recorded, cut, history>>

RemoveDirectory ==
  /\ stage \in {"ended", "done"} /\ recorded # None
  /\ dir' = [f \in Files |-> Absent]
  /\ stage' = "ended"
  /\ recorded' = None
  /\ UNCHANGED <<source, format, todo, mtime, queue, outcome, seen, cut, history>>

-----------------------------------------------------------------------------
Backed == UNION {prog.backed : prog \in Programs}

Init ==
  /\ source = [n \in Backed |-> 1]
  /\ dir = [f \in Files |-> Absent]
  /\ stage = "ended" /\ todo = <<>> /\ queue = <<>>
  /\ format = None
  /\ mtime = [n \in Backed |-> None]
  /\ outcome = "none"
  /\ seen = [n \in Names |-> None]
  /\ recorded = None
  /\ cut = FALSE
  /\ runs = 0 /\ crashes = 0

Next ==
  \/ Launch \/ Step
  \/ \E prog \in Programs : Record(prog)
  \/ Tag \/ TagProbes \/ (\E fmt \in Formats : Stop(fmt)) \/ WriteReplayJson
  \/ Replay \/ RefreshInput \/ Worker \/ Reconstruct \/ ReconstructProbe \/ Finish
  \/ Crash \/ RemoveDirectory
  \/ \E n \in Backed, v \in Versions : ReplaceSource(n, v)

Spec == Init /\ [][Next]_vars

-----------------------------------------------------------------------------
(* Properties *)

(* Types; replay() has an outcome exactly when the run got to its end, and *)
(* refresh_stale_inputs() looked at usable sources of file-backed inputs.  *)
TypeOK ==
  /\ source \in [Backed -> Versions]
  /\ DOMAIN dir = Files
  /\ stage \in {"ended", "launched", "refreshing", "working", "reconstructing", "done"} \cup Recording
  /\ outcome \in {"none", "true", "false"}
  /\ stage = "done" <=> outcome # "none" /\ stage # "ended"
  /\ \A n \in Names : seen[n] # None => n \in Backed /\ Usable(seen[n])

(* The ciphertext of a probe, computed from given versions of the inputs. *)
Inputs(prog, ver) ==
  [a \in prog.live_in |->
     LET n == CHOOSE m \in Tagged(prog) : a \in Range(prog.ids[m]) IN
     Polynomial(n, IF n \in prog.backed THEN ver[n] ELSE 1,
                CHOOSE i \in DOMAIN prog.ids[n] : prog.ids[n][i] = a)]
Ciphertext(prog, ver, p) ==
  [i \in 1 .. prog.towers[p] |-> Value(prog, Inputs(prog, ver), prog.outputs[p][i])]

Complete(prog, p) ==
  /\ Len(prog.outputs[p]) >= prog.towers[p]
  /\ \A i \in 1 .. prog.towers[p] : prog.outputs[p][i] \in prog.computed

(* After a replay that returned true, a result that is found is the        *)
(* recorded program's, on one version of every input: the one the replay   *)
(* looked at, unless that could not be used.  Whatever crashed before.     *)
FreshResult ==
  outcome = "true" /\ stage = "done" =>
    \A p \in Probes :
      IsWhole(ct(p)) =>
        /\ p \in Range(recorded.probes) /\ Complete(recorded, p)
        /\ \E ver \in [recorded.backed -> Versions] :
             /\ \A n \in recorded.backed : seen[n] # None => ver[n] = seen[n]
             /\ dir[ct(p)].data = Ciphertext(recorded, ver, p)

(* A replay of a recording that was finished succeeds, and finds every     *)
(* complete probe, as long as its addresses are on disk, the sources can   *)
(* be used and the worker lives: a crash in an earlier replay is made good.*)
ReplayRecovers ==
  /\ stage = "done" /\ ~cut
  /\ IsWhole(replay_json) /\ IsWhole(cryptocontext)
  /\ \A n \in Tagged(recorded) : IsWhole(ids(n))
  /\ \A n \in recorded.backed : seen[n] # None
  /\ \E p \in Range(recorded.probes) : Complete(recorded, p)
  => /\ outcome = "true"
     /\ \A p \in Range(recorded.probes) : Complete(recorded, p) => IsWhole(ct(p))
=============================================================================
