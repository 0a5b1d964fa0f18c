# niobium-fhetch in TLA+

This directory specifies niobium-fhetch: a client that watches OpenFHE compute
on polynomials, or is called through an API of its own, records what was done
as a FHETCH trace, writes it to a directory with its inputs, and replays it
elsewhere. The one promise everything else
serves is **a replay of the trace reproduces what the host computed**. It is
kept by parts that are each easy to test alone and hard to test together: an
address allocator that recycles, a lineage map that rewrites operands, a writer
that renumbers moduli, two file formats that say the same program differently,
a directory that outlives the run that wrote it, a simulator that frees memory
while it runs.

## 1. The system

| Part | State | Operations | Talks to |
|---|---|---|---|
| OpenFHE probes (`src/probes.cpp`) | id → address map, free pool, next address, pins, reference counts, clone lineage, suppression flags | one C function per polynomial operation | called by OpenFHE; calls the trace writer |
| Trace writer (`src/trace_writer.cpp`) | instruction log, modulus table, recording and paused flags, one mutex | register, emit, start/stop/pause/resume, normalise, write, clear | called by probes, FHETCH API, session |
| Session (`src/compiler.cpp`) | running flag, epoch, captured inputs and outputs, cache parameters, program directory | start, stop, pause, resume, stop_epoch, reset, capture, replay, write index | drives the writer, local replay, auto facade |
| Auto facade (`src/auto_facade.cpp`) | files of the program directory, captured ciphertexts and keys | tag inputs, keys, probes; capture internal polynomials; refresh stale inputs; reconstruct results | probes (pin, ensure address), session |
| FHETCH API (`src/fhetch_api.cpp`) | address counter, input/output registries | `sr_*`, `mr_*` operations, gadgets, file I/O | trace writer, session |
| FHETCH driver (`src/fhetch_parser.cpp`) | name → polynomial map | re-issues a parsed program through the API | API |
| Reader, writer, encoding (`src/fhetch_reader.cpp`, `fhetch_writer.cpp`, `fhetch_encoding.cpp`) | none | text and binary forms of a program | everyone |
| Simulator (`src/fhetch_sim/`) | loaded program, memory, live-out set, free schedule, error count | load, store, liveness, run, read back | local replay, command line |
| Local replay (`src/local_replay.cpp`) | index of a program directory | load trace, populate live-ins, run, write outputs | simulator, auto facade |

OpenFHE itself is a submodule that is not in the repository. Whatever the
models say about it is external: it is read off how the probes are used.

What is hard here: operations whose meaning depends on when an id was mapped,
pinned, cloned or recycled; state that outlives the trace it belongs to (maps,
lineage, captured records, files); two-step calls into the writer from several
threads; releases scheduled from a static analysis of a program that writes
addresses more than once; a dozen files that are written one after the other,
in place, by runs that may be killed, and found again by their existence. `PROJECT.json` lists each hazard at its line.

## 2. Modules

```
FhetchIR ─┬─ Execution ─┬─ Replay
          │             ├─ Simulator ── MCSimulator, SimulatorProofs
          │             └─ Probes ───── MCProbes, ProbesProofs
LeftFold ─┴─ FhetchApi ─┬─ ApiSession ── MCApiSession, ApiSessionProofs
                        ├─ Driver ────── MCDriver, DriverProofs
                        ├─ Gadgets ───── MCGadgets
                        └─ FhetchApiProofs (for ApiSessionProofs, DriverProofs)
TraceWriter ── Recording ── MCRecording, RecordingProofs
FhetchProgram ── Fhex ── FhetchText ── TraceFiles ── MCTraceFiles
Project ── MCProject, ProjectProofs
```

### Programs and their execution

**FhetchIR** — opcodes grouped by what the simulator does with them,
instructions, and the read and write sets that `classify_uses` computes. The
zero idiom (`mulps` by 0) reads nothing, the copy idiom (`addps` by 0) does not
reduce. Live-ins are the addresses whose first access is a read.

**Execution** — one instruction over a memory. Kernel arithmetic is a constant
operator `Kernel`; what surrounds it is written out: which operand is read, an
empty address reading as zeros, the checks that refuse an instruction, the
error counts, and an unresolved modulus, after which the code computes modulo
0: the model lets any value result. A literal modulus and an index inside the
table are the same case (both resolve), a missing one and an index outside are.

**Replay** — what a replay promises: instructions in order over a memory that
only stores change. It is the simulator with `NIOBIUM_DISABLE_SIM_FREES` set.

**Simulator** — `store_polynomial`, `compute_liveness` (or its opt-out), the
execute loop with its releases, and the read-back. `free_after` is the
schedule; `unfreed` is a history variable, the memory the same run would have
without releases, and the refinement mapping to `Replay`.

### Recording

**Probes** — all of `probes.cpp`, with the host that calls it and the session
calls that matter to it. `alloc` holds the address map, the next fresh address
and the free pool; `MapAddress` is `map_address`, threaded through a probe's
operands in the order of the code. The trace is represented by `mem`, the
memory a replay of it leaves, because the log is append-only and only a replay
reads it; `first` records how the trace first accesses an address, which
decides whether a captured input is loaded there. The host side is `val` (the
value each polynomial really has), `known` (those the trace must reproduce:
captured, or computed by recorded operations from known ones) and `captured`.
Two things are assumed throughout: a moved-from id is not used again, and one
value belongs to one id (OpenFHE gives a copy-assigned polynomial the id of its
source). `openfhe_cprobe_input`, `_output`, `_key`, `_max`, `_address` and
`_result` are one action, `Touch`.

**TraceWriter, Recording** — the writer's methods as operators, one per
critical section, and threads that call them. A probe checks `should_record()`
without a lock, takes `g_probe_mutex`, registers its modulus, emits; an API
call does the last two only. The session thread's calls are sequences of writer
calls in the code's order. A behaviour belongs to one of several hosts, which
differ in the rules they keep to and in their bounds.

### The FHETCH API

**FhetchApi** — `fhetch_api.cpp` as operators from state to state: handles and
the address counter, the first-modulus-wins map, every recorded call of one and
of several residues, copies, tags of all four kinds, the registries, the
synchronisation into the compiler's captured records, and the two resets. A
handle carries, as history, the term its calls mean; `Run` is the simulator's
execution of the log. Each loop of the code (over a base, an array, a registry,
a record, a log) is an instance of **LeftFold**, whose `Op` is the loop's body.

**ApiSession** — a host that makes polynomials, calls, binds and tags between
`start()`, `stop()`, `replay()`, `clear_captured()` and `reset()`, over several
cycles. A host is a record: the calls it makes, and its bounds.

**Driver** — `fhetch_parser.cpp`: a file driven through the API instruction by
instruction, with values given for some of its live-ins, skipped and rejected
instructions, and outputs tagged at the end. A modulus is an index of the
table, a literal prime, or absent, which the driver passes on as 0. When no
instruction was replayed the driver reports failure and its caller does not
replay (`GiveUp`).

**Gadgets** — fast base conversion, rescaling and digit decomposition as the
calls they record, with the immediates they compute. They act coefficient by
coefficient, so a polynomial is one integer modulo each prime.

### Files

**FhetchProgram, Fhex, FhetchText** — an instruction with all its operands, its
binary record, the bytes of a `.fhex` file (prologue, tagged metadata, table,
varint-packed records) and the lines and tokens of a `.fhetch` file, with both
readers and every way they refuse. Spelling is left out: a token is its kind
and its value, and a comment is a separator or label, a field with its key, or
prose, the cases `Reader::comment` tells apart. **TraceFiles** writes a program in either form, reads it back,
writes it again, and cuts a write short.

**Project** — a program directory over several runs of a host. A run captures
its context (`Launch`), then records or finds a recording. Recording goes
through the host's calls in their order: `Tag` each input and key, `TagProbes`,
`Stop` with its trace and the names `auto_capture_at_stop` tags, and
`WriteReplayJson`, whose index is the last file. `Replay` refreshes stale
inputs one by one (`RefreshInput`) and has a worker replay from the files alone
(`Worker`, `Reconstruct`, `ReconstructProbe`, `Finish`). Between two decisions
a run has a list `todo` of writes to make; each is a step, and the host or the
worker may be killed before any of them or in its middle. `dir` maps each file
to absent, empty, part or whole; a trace cut in text reads as some of the
instructions of its program (`Prefixes`), or not at all. A source file is known by its version, which
is its modification time too; a program by where its inputs and keys lie, what
its trace reads and writes, and what its probes name. Of a program it is assumed
(`ProgramsAssumption`) that no two inputs have a name in common or a key's name
(`find_or_create_record` keeps one record per name, and `write_replay_json`
leaves captures under a key's name to the key files), that a tagged polynomial
has an address of its own, and that the trace reads nothing that is neither
tagged nor written by it.

Definitions introduced as "Variant" are the code with one plausible mistake;
they are what shows that each property can fail.

## 3. What is checked

| Run | Question | Result |
|---|---|---|
| `simulator` | does freeing memory ever show? is everything dead freed? are the live-ins enough? | holds, and the simulator implements `Replay` |
| `probes` | two polynomials, all probes, all controls; three polynomials, recycling and lineage | `ReplayFaithful`, `InputsStayLoadable`, `LineageSound`, `OneOwner`, `PinnedNeverPooled` hold under the rules |
| `lineage_leak` | drop `fresh_lineage` | violated: a clone link used across `stop_epoch()` |
| `recording` | interleaved register and emit, epochs, pauses, hollow mode, a session driven at any moment | nothing accepted is lost or repeated, tables are sorted, no operation hangs; for hosts that keep the rules, moduli and halts are right too |
| `api` | do replayed outputs mean what the calls say, over several cycles? | `OutputsRight`, `CapturedOnce`, `ModuliRight` hold under the rules |
| `early_input` | inputs made and tagged before `start()`, as in `examples/fhetch/simple_fhetch.cpp` | violated: the registries are emptied and the addresses given out again |
| `driver` | does the re-driven program compute what the file computes? | `DriveFaithful`, `InputsAreLiveIns` hold |
| `output_tags` | a file that writes an output address twice | violated: the address is tagged once, at the end, not whenever an instruction writes it |
| `gadgets` | are the recorded immediates right? | conversions lift, rescaling divides, digits lift, both shapes agree, results are bound to their prime |
| `trace_files` | do programs survive any sequence of conversions? what does a cut file read as? | they do; a cut binary is refused, a cut text is a prefix |
| `project` | crashes, replaced sources, three formats: is a result ever stale or wrong? can a finished recording always be replayed? | `FreshResult`, `ReplayRecovers` hold under the rules |
| `stale_result` | record again in a directory with results | violated: an incomplete probe's old file is found |

The four violations are findings: each contradicts a comment or an example of
the repository. In `output_tags` it is the text that is out of date: the header
(`fhetch_parser.h:82-86`) and `reconstruct_probes_in` (`auto_facade.cpp:1259-1262`)
describe tags made at every write, while `finalize_outputs` tags the last
polynomial of each address, and `DriveFaithful` shows that this is what a caller
wants. Two more phrases of that header do not fit the code: the name of an
output is not suffixed by its `poly_index`, which only orders the tags, and
values from `DriveInputs` go to `store_input_element` and not through
`tag_input`.

### What the parts need from their callers

The code relies on its callers in ways it mostly does not state. The models
state them as rules. What TLC finds when one is dropped:

*Probes* (constant `Rules`):
- `clone_first`: the clones of a polynomial are consumed before it is written
  or its last reference is gone. Without it `c = copy(p); p += x; c += y` records
  the last operation against the new `p`; and when `p` is let go instead, its
  address is recycled, or serves as scratch, and the operation is recorded
  against whatever was written there. What happens to a recycled address is
  nothing a host can see, so the rule speaks of the original only.
- `capture_first`: an input is captured before the trace touches its address
  and without lineage, or when it is already reproducible. Without it an input
  that a probe mapped before it was pinned sits at a recycled address, which
  `map_address` says pinned ids never do.
- `recapture_same`: an input that the trace has already read is captured again
  only with the value it had. Without it the records hold the later value, and
  what was computed from the earlier one is replayed from it.
- `pinned_stay`: a pinned polynomial is not moved. Without it the pinned address
  goes to the pool with the id it was moved to.
- `fresh_lineage`: a new trace starts when no captured input has a clone parent
  (run `lineage_leak`).

*Recording* (`host.rules`):
- `quiescent`: the session is driven between operations. Without it an operation
  that registered before an epoch was closed emits a stale index into the next.
- `resumed`: a trace is not closed while recording is paused. Without it `emit`
  drops the halt.
- Brackets of OpenFHE's pause are not nested; a second pause before the resume
  overwrites the saved hollow flag.

*ApiSession* (constant `Rules`):
- `inside`: objects are made and tagged between `start()` and `stop()` (run
  `early_input`).
- `intime`: nothing is tagged after `stop()`. The sync runs once per reset, so a
  tag between `stop()` and `replay()` is never captured.
- `typed`: every tagged input has a modulus by `stop()`. Without one it is left
  out of the captured inputs, and a trace that reads it through
  `sr_automorph_eval(x, k)` replays zeros.
- `cleared`: a cycle that captured is followed by `reset()`. Otherwise the next
  cycle's records hold the residues of both.
- The address space is larger than the objects made (`HostsAssumption`).
  `ir()` narrows to 32 bits before `emit()` compares, so a wider address is
  truncated, not refused.
- An input name is tagged with one kind (`SameKinds`). `store_input_element`
  reports a second kind and drops the residue (`compiler.cpp:640-653`), and the
  trace then reads zeros.

*Driver* (`Regular`): a zero-init has as operand its destination, as the probes
write it, or an address that the program used before. With any other operand
the placeholder made for it hides the caller's values from a later read. An instruction whose root is refused has already registered
its source as an input when the API throws.

*TraceFiles*: tables are no longer than `kMaxModulusIndex` allows. A longer one
is refused from text and accepted from binary. A comment that reads like a field
of the header (`# Description: ...`) is taken for one wherever it stands: it
replaces the field and is not kept as a comment; one that reads like a separator
or a section label is dropped. `TextKeepsNotes` is therefore about the others.

*Project* (constant `Rules`):
- `cached`: the host records only when `is_cache_valid()` is false, and removes
  the directory before recording another program there. Otherwise old results
  (run `stale_result`), an old `.fhex` and old key files are used.
- `newer`: a source is replaced by newer ones only. The refresh never updates
  the recorded time, so a source set back to it is taken for unchanged.
- `steady`: sources stay while the host records; their time is read after their
  data.
- `small`: an `.ids` file is on disk as a whole or not at all. A cut one reads
  as addresses 0.

Two behaviours break no property and are worth knowing. A host killed in
`stop()` after the trace file was created leaves a directory for which
`is_cache_valid()` is true and every replay fails; a cut `cryptocontext.dat` is
never rewritten, with the same effect. And a changed source that cannot be used
is skipped by the refresh: `replay()` still returns true, with a result on the
data recorded before. `FreshResult` therefore speaks of the sources a replay
could use.

### Bounds

- `simulator`: three addresses, values modulo 2, all programs of two
  instructions over a broad vocabulary (every opcode class, the two idioms,
  aliased destinations, an index outside the table, a refused kernel) and of
  three over a narrow one: three instructions are what a value needs to be
  written, read for the last time and overwritten.
- `probes`: two scenarios. Two ids and three addresses, one input captured and
  the session idle, five steps of every kind, enough to start, clone, pause,
  write and close an epoch; and three ids and four addresses, four steps from a
  recording with two inputs (seven from the start), where a parent can be let go
  and its address recycled; there the recording stays on, unpaused, and the
  arithmetic is `addp`, the multiply-accumulate and the modulus switch. The
  probes of a family differ only in the opcode, so one of each stands for it.
  209,147 states.
- `recording`: two probe threads and one API thread; a host with two moduli, two
  operations and two traces, one with three operations and one trace, and one
  without rules.
- `api`: a host with up to three single-residue objects over two cycles, one
  with up to five over a base of two primes; values are the terms that denote
  them, so nothing is equal by accident. 1,036,133 states.
- `driver`: three file addresses, three instructions, every subset of the
  live-ins given; moduli that are indices inside and outside the table, a literal
  prime, and none; two outputs whose order differs from their addresses'.
  778,488 states.
- `gadgets`: every integer below the product of bases of none to three primes
  below 20, targets disjoint from them and overlapping, digits of one and of two
  primes, both shapes, both variants.
- `trace_files`: two instructions, one comment, two readings. Words are 15 bits
  and addresses 8, so that a word still ends one bit into its last varint byte
  (64 = 9·7 + 1, 15 = 2·7 + 1), `kMaxModulusIndex` is 2 and a floating immediate
  is rounded to a multiple of 10 units. Operands lie at 0, at the one- and
  two-byte limits and at the maximum. A crash is tried for programs over the
  instructions of four operand forms (`Sample`), at each byte of the binary file
  and each token and digit of the text file; comments other than prose, a
  separator, a known and an unknown field, are tried for the same programs.
  417,495 states.
- `project`: two programs that share names and addresses, three versions of a
  source one of which cannot be used, four runs, two crashes: enough for a
  recording, a replay killed in its refresh, a replay that repairs it, and one
  after that. 905,052 states.

**Deadlock** is checked in `Recording`, whose sessions can always go on. The
other specifications end: a run is over, a file is read, or a bound is used up.

**Fairness** appears in `Recording` only: a thread that can take its next step
takes it, and the session thread finishes its call. `std::mutex` is not fair,
so a waiting probe is promised the lock only once it stays free; with finitely
many operations that is enough for `OperationsEnd`. Nothing else in the system
runs by itself: a replay is taken up when its host runs again.

## 4. What is proved

`SimulatorProofs` proves, for every set of addresses and values, every program,
live-out set and kernel, from the assumptions `ValuesAssumption` (zero is a
value, absence is not), `TableAssumption`, `KernelAssumption` (kernels map
values to values), `ProgramsAssumption` and `LiveOutsAssumption`:

- `TypeCorrect`: the type invariant, with the fact that the schedule is either
  empty or exactly `FreeAfter(program, live_out)`;
- `FreesNeverObserved`: `FreesInvisible`. The invariant is inductive beside the
  type invariant: an address released after instruction *i* is not live-out and
  no instruction from *i + 1* on reads it before writing it, so the addresses
  that still matter keep agreeing with `unfreed`, and a kernel's result depends
  on the addresses it reads only;
- `MemoryIsReleased`: `NothingLeftBehind`. The strengthening speaks of the
  middle of a run: a resident, accessed address that is not live-out is still
  to be accessed;
- `LiveInsAreEnough`: `OnlyLiveInsEmpty`. The strengthening: with no error so
  far, an address written before and read from here on is resident;
- `SimulatorImplementsReplay`: `ImplementsReplay`, by step simulation with
  `memory <- unfreed`, using `FreesInvisible` at the operands and at the
  outputs.

`ProbesProofs` proves, for any number of ids, addresses, references and moduli
and any subset of the calling rules, from the assumptions of `Execution` and
`AddrsAssumption`, `ModuliAssumption`, `OpsAssumption`, `MaxRefAssumption`:

- `ProbesTypeOK`, `ProbesOneOwner`, and, if `pinned_stay` is among the rules,
  `ProbesPinnedNeverPooled`. All three follow from one inductive invariant,
  `IInv`: the types; `Owned`, that every address given out is below
  `next` (so a fresh one is nobody's), live ids have distinct addresses and the
  pool is duplicate-free and disjoint from them; and `Kept`, that a pinned id,
  dead or alive, shares its address with no live id and that only pinned ids
  use the address of a stored input. `Kept` speaks of dead ids because a pinned
  id keeps its address after its last reference is gone. Lemmas show that each
  operation of the allocator (pop, fresh, scratch, take over, free, pin, hold)
  preserves the pair; each action is then a few citations.

A second part goes on from there to what the probes are for. Its invariant
`RInv` adds to `IInv`:

- `Tracked`: captured polynomials are known, known ones are live and have an
  address, and an unchanged captured input is stored at the address the map
  gives it. It holds for every host, and `ProbesInputsStayLoadable` is its last
  part;
- `Faithful`: if the host keeps `clone_first`, `capture_first`,
  `recapture_same` and `fresh_lineage`, then `ReplayFaithful`, `LineageSound`,
  `ParentsRead`, that the clone parent of a known polynomial was read by the
  trace before, and `ParentsInUse`, that it was given out and is not in the
  pool. Without `ParentsRead` an input could still be captured over the parent's
  address, and the value the clone stands for would be lost; without
  `ParentsInUse` a recycled or a scratch address could be the parent's.
  `ParentsInUse` is where `clone_first` meets the allocator: every operation
  takes unused addresses only (`TakesUnused`), and an address goes to the pool
  only when no known clone has it for a parent. `ReplayFaithful` and
  `LineageSound` are not inductive one without the other: an operation reads
  through the lineage, and the lineage is sound because what was recorded is.

From it follow `ProbesInputsStayLoadable`, and under the four rules
`ProbesReplayFaithful` and `ProbesLineageSound`. `pinned_stay` turns out not to
be needed for these.

`RecordingProofs` is about any set of probe and API threads, any hosts and
moduli and any number of operations and traces, from `CopyModulusAssumption`
(the sentinel is a number), `PrimesAssumption` (moduli lie below it),
`BoundsAssumption` and `ThreadsAssumption`. A
first part is about sorting: `SortedIndex` numbers the moduli without gaps, in
order and with the sentinel at 0, by a counting argument on finite sets, so the
renumbering in `write()` keeps every index at its modulus. The inductive
invariant `IInv` then has:

- `Mutex`, `Tables`, `Numbers`: who holds `g_probe_mutex`, the table starts with
  the sentinel and has no duplicates, every operation under way has a number of
  its own that was not appended yet;
- `Flags`: recording and running at each writer call of `start`, `stop` and
  `stop_epoch`; the other parts need to know at which of them the log was
  written, cleared, or closed;
- `Obeyed`: for a host that keeps the rules, nobody records while the session is
  driven and a trace being closed is not paused;
- `Halts`, `Indices`: from there, where the halt is at each call, and that an
  index in the log, in a file or held by a thread between register and emit
  names its modulus;
- `Kept`: where each accepted operation is, and whether the log is already in a
  file; this part is for every host;
- `Modes`: the saved hollow flag inside a bracket, the flag outside.

From it: `RecordingTypeOK`, `RecordingKeptOnce`, `RecordingTablesSorted` and
`RecordingHollowRestored` for all hosts; `RecordingModulusFaithful` and
`RecordingHaltIsLast` are conditional on the host's rules, as the properties
are. `OperationsEnd` is a liveness property and stays with TLC.

`ProjectProofs` is about any programs, names, probes, versions, formats and
numbers of runs and crashes, for a host that keeps the four rules
(`Disciplined`), from the assumptions named in `Project`. Its `IInv` has:

- `Types`, with what is left to do at each stage;
- `Directory`: what any sequence of runs and crashes leaves. An `.ids` file is
  absent, empty or right and a whole `.bin` holds some version up to the
  source's (`Contents`); listed times are never later than the data, and
  earlier than the source's if the data was cut (`InputsListed`): this is why
  the refresh after a crash rewrites what was cut; a whole index means that
  everything it names is in place (`InPlace`); results belong to complete
  probes of a finished recording (`Results`);
- `Host`: where a recording is between its writes: each name is queued,
  captured, or about to be written (`Progress`), the trace file is there by the
  time it is indexed (`Traced`), and the last three writes are in order
  (`Indexed`);
- `Replays`: what a replay has looked at is in its `.bin` or about to be
  (`SeenKept`), the worker's lists hold the program's results on the data now
  on disk (`Worked`, `Reconstructed`), and why a replay that ended with false
  did (`Ended`);
- `Pending`: every write that is left, stage by stage, is one of those the code
  makes there. A crash cuts the first of them, so this is what bounds the damage.

From it: `ProjectTypeOK`, `ProjectFreshResult` and `ProjectReplayRecovers`. The
step from the directory to the result is a lemma of its own: with every file of
a finished recording whole, the places an address is loaded from are exactly
the one the program gave it, so the worker's memory is the program's inputs.

### The API and the driver

What a log computes is defined by a loop, so these proofs are inductions over
data. `LeftFold` makes them possible: its body `Op` is a constant of the module,
and the lemmas about it are proved there once, from the well-foundedness of the
natural numbers: its stages, no step, one more step, and induction over the
steps, given as the set of the numbers of steps after which something holds.
Every loop of `FhetchApi` is an instance, and its lemma names that set.

`FhetchApiProofs` says what the calls do. `Sound(s, I, P)`: on whatever memory
the log is replayed, if the memory holds at the addresses of the inputs `I`
what they stand for, then the replay leaves at the addresses of the polynomials
`P` what they stand for, and no address that was not given out is touched. It is
kept by a fresh handle, by `record` (hence by every `sr_*` call), by a copy, and
by the loops of `mr_*` and of the dot product. The second half is about the
registries: a sync only adds records, drops nothing that has a modulus unless
its name is known with another kind, and loading the records leaves the tagged
data at the tagged addresses.

`DriverProofs` is about files of any length over any addresses, any table,
inputs, outputs and kernels, from `FileCodeAssumption` (the reader hands over
instructions with legal opcodes, on addresses of the file),
`OutputsAssumption` and `MaxProgramAssumption` (an instruction takes at most
three addresses, and all fit). Its `Inv` has:

- `Counts`: types, and that every polynomial of the map has an address the API
  gave out;
- `Driving`: while nothing was skipped and the file is regular, `LiveIns` (the
  inputs registered so far are the addresses read before they are written) and
  `Computes` (`Sound` for the polynomials of the map, each of which stands for
  what the file leaves at its address). The two need each other: a polynomial
  that is made for a first read must stand for the caller's value, and that is
  so because the file has not written that address yet.

From it: `TypeCorrect`, `DriveIsFaithful`, `InputsAreTheLiveIns`.

`ApiSessionProofs` is about any hosts, names, bases and primes, and any number
of objects, tags and cycles, for hosts that keep the four rules, from
`PrimesAssumption` (the sentinel and absence are no primes), `BaseAssumption`,
`DataAssumption` and `HostsAssumption`: no object takes more addresses than a
dot product of two pairs, which is six calls on a base, and all fit. `Stands(s,
I, P)` is `Sound` with what a session needs besides: no address is given twice,
only inputs carry data, and `Moduli`: a result computed under a prime stays
bound to it, and an address that is read under a prime is not bound to the
sentinel. That last part is what first-modulus-wins with its one exception is
for, and it is not inductive without the log. Its `Inv` has:

- `Shape` and `Aged`: types, at most `6 * Len(Base)` addresses per object, and
  that no object is of a later cycle;
- `Uncaptured`: while the session runs nothing is captured;
- `Standing`: from `start()` to `reset()`, `Stands` for the handles of the cycle;
  the registries hold handles of this cycle, what was captured comes from them,
  and after `stop()` loading it leaves the inputs' data at their addresses;
- `Replayed`: the trace is the log as it stood at `stop()`, and the memory is
  what that trace leaves on the captured inputs.

From it: `TypeCorrect`, `OutputsAreRight`, `ModuliAreRight`. For
`EverythingIsCapturedOnce` there is a second layer, `Complete`: from `stop()` on
until the captures are cleared, what is captured matches what the registries
want (`Once`). Every other action needs a running session, and then there is no
trace, so the work is in `stop()`: two loops run over the same residues, the
sync, which stores each in the record of its name, and for every name the one
that collects what is wanted under it (`WantedInputs`, `WantedOutputs`). After
each step the records hold exactly what is wanted so far (`Hold`), residue by
residue within an entry and then entry by entry.

The inductive invariants were first checked by TLC on the instances of section
3, except for `Sound` and what is built on it: they speak of every memory at
once, so TLC checked the properties they imply.

### Only model-checked

- `OperationsEnd`: liveness under fairness is out of this prover's reach.
- The gadgets: their properties are number theory (lifts by the Chinese
  remainder theorem, inverses by Fermat's), checked over all integers below the
  product of small bases. `ShapesAgree` and `ResultsBound` need none of that, but
  an induction over the gadgets' loops, which fold over local operators.
- The files: what a reader makes of what a writer wrote is an induction over
  bytes, tokens and varint digits at once. It is checked over operands at every
  boundary of an encoding.
- That each rule is needed, which TLC shows when it is dropped.

## 5. Status

The modules of section 2, and the proofs of section 4: every safety property of
the simulator, the probes, the recording, the project directory, the driver and
the API session has a proof. What would come next: `CutBinaryRefused` and
`BinaryExact` of `TraceFiles` for programs of any length, with the readers'
loops as instances of `LeftFold`, and `ResultsBound` of `Gadgets` the same way.

## 6. Not modelled

- The arithmetic of the NTT, the automorphisms and the rotations: the simulator
  and the API models take kernels as parameters. Coefficient arithmetic is
  concrete in `Gadgets` only.
- The API's calls that record nothing (coefficient access, stubs of gadget
  decomposition, external product and bootstrap) and its JSON files.
- OpenFHE's serialisation formats, the payload framing of `.bin` files, the hooks
  that call the facade from inside OpenFHE's serialisation, input streaming and
  the release of memory at replay.
- Spelling: digits, padding, mnemonics and comments of the text form as
  characters; header fields the text form does not carry. Byte order on
  big-endian hosts.
- Replay targets other than `local`, which are external processes, and the
  driver harness for local replay, an alternative worker built on `Driver`.
- Logging, debug tracking, command-line parsing, version checks, and the Python
  bindings, which wrap the C++ API without state of their own.
