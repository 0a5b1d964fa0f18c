---------------------------- MODULE ProjectProofs ----------------------------
(***************************************************************************)
(* Proofs about Project: what a project directory holds after any number   *)
(* of runs and crashes, and that a replay which returns true leaves the    *)
(* results of the recorded program on the inputs it looked at.             *)
(***************************************************************************)
EXTENDS Project, TLAPS

(* The discipline of the host that the results rest on. *)
Disciplined == {"cached", "newer", "steady", "small"} \subseteq Rules

Listing(s) == s \in Seq(Range(s))

(* The write of a file has been made, or is one of those left to make. *)
Claim(f, data) == dir[f] = Whole(data) \/ Put(f, data) \in Range(todo)

-----------------------------------------------------------------------------
(* The inductive invariant: the directory *)

Finished == IsWhole(replay_json)

IdsKept(n) ==
  dir[ids(n)] = Absent \/ (n \in Tagged(recorded) /\ dir[ids(n)] \in {Empty, Whole(recorded.ids[n])})

Holds(n, v) == v \in Versions /\ (IF n \in recorded.backed THEN v <= source[n] ELSE v = 1)
BinKept(n) == IsWhole(bin(n)) => \E v \in Versions : dir[bin(n)] = Whole(v) /\ Holds(n, v)

(* Nothing is in the directory but what this program put there. *)
Contents ==
  /\ recorded = None => \A f \in Files : f # cryptocontext => dir[f] = Absent
  /\ recorded # None => \A n \in Names : IdsKept(n) /\ BinKept(n)

(* The time that is listed for an input is not later than its data, and    *)
(* earlier than its source if the data was cut.                            *)
Dated(n, t) ==
  /\ t \in Versions /\ Usable(t) /\ t <= source[n]
  /\ \A v \in Versions : dir[bin(n)] = Whole(v) => t <= v
  /\ ~IsWhole(bin(n)) => t < source[n]
Entry(e, n) == e.name = n /\ (IF n \in recorded.backed THEN Dated(n, e.mtime) ELSE e.mtime = None)

InputsListed ==
  IsWhole(inputs_json) =>
    /\ recorded # None
    /\ dir[fhetch] = Whole(recorded) \/ dir[fhex] = Whole(recorded)
    /\ DOMAIN dir[inputs_json].data = DOMAIN recorded.inputs
    /\ Listing(dir[inputs_json].data)
    /\ \A i \in DOMAIN recorded.inputs : Entry(dir[inputs_json].data[i], recorded.inputs[i])

(* A recording with an index is complete. *)
InPlace ==
  Finished =>
    /\ recorded # None /\ IsWhole(inputs_json)
    /\ dir[outputs_json] = Whole(OutputsOf(recorded))
    /\ \E f \in {fhetch, fhex} : dir[replay_json] = Whole(f) /\ dir[f] = Whole(recorded)
    /\ \A p \in Range(recorded.probes) : dir[template(p)] = Whole(recorded.towers[p])
    /\ \A n \in Tagged(recorded) \ recorded.backed : dir[bin(n)] = Whole(1)

(* Only complete probes have results. *)
Results ==
  \A p \in Probes : Exists(ct(p)) => Finished /\ p \in Range(recorded.probes) /\ Complete(recorded, p)

Directory == Contents /\ InputsListed /\ InPlace /\ Results

-----------------------------------------------------------------------------
(* The inductive invariant: a run that records *)

Types ==
  /\ TypeOK
  /\ mtime \in [Backed -> Versions \cup {None}]
  /\ seen \in [Names -> Versions \cup {None}]
  /\ recorded \in Programs \cup {None}
  /\ Listing(todo) /\ Listing(queue)
  /\ cut \in BOOLEAN
  /\ stage \in {"ended", "done"} => todo = <<>> /\ queue = <<>>
  /\ stage = "launched" => queue = <<>>
  /\ stage \in Recording \cup {"refreshing", "working", "reconstructing"} => recorded # None
  /\ stage \in {"launched"} \cup Recording => \A n \in Names : seen[n] = None
  /\ stage \in Recording => \A n \in recorded.backed : Usable(source[n])

Captured(n) ==
  /\ Claim(ids(n), recorded.ids[n])
  /\ Claim(bin(n), Version(recorded, n))
  /\ n \in recorded.backed => mtime[n] = source[n] \/ TakeTime(n) \in Range(todo)

TraceFile == IF format = "binary" THEN fhex ELSE fhetch
Indices == Put(outputs_json, OutputsOf(recorded))
LastStep == Put(replay_json, TraceFile)

Progress ==
  stage \in Recording =>
    /\ \A n \in Range(recorded.inputs) \cup Range(recorded.keys) : n \in Range(queue) \/ Captured(n)
    /\ stage \in {"stopping", "indexing"} =>
         \A n \in Range(recorded.precompute) : n \in Range(queue) \/ Captured(n)
    /\ stage # "tagging" =>
         \A p \in Range(recorded.probes) : Claim(template(p), recorded.towers[p])
    /\ Range(queue) \subseteq Tagged(recorded)
    /\ stage \in {"probing", "indexing"} => queue = <<>>
    /\ stage # "indexing" => ~IsWhole(inputs_json) /\ ~Finished

Traced ==
  /\ stage = "stopping" =>
       /\ format \in Formats
       /\ \/ todo = TraceWrites(recorded, format)
          \/ Create(fhetch) \notin Range(todo) /\ Claim(TraceFile, recorded)
  /\ stage = "indexing" => dir[TraceFile] = Whole(recorded)

Indexed ==
  stage = "indexing" =>
    \/ todo = <<PutInputs, Indices, LastStep>> /\ ~Finished
    \/ todo = <<Indices, LastStep>> /\ ~Finished /\ IsWhole(inputs_json)
    \/ todo = <<LastStep>> /\ ~Finished /\ IsWhole(inputs_json)
         /\ dir[outputs_json] = Whole(OutputsOf(recorded))
    \/ todo = <<>>

-----------------------------------------------------------------------------
(* The inductive invariant: a run that replays *)

CurrentVersions == [n \in recorded.backed |-> dir[bin(n)].data]
BinsWhole == \A n \in recorded.backed : IsWhole(bin(n))
Current(p) == Ciphertext(recorded, CurrentVersions, p)
ResultOf(p) ==
  [name |-> p,
   values |-> [k \in DOMAIN recorded.outputs[p] |->
                 Value(recorded, Inputs(recorded, CurrentVersions), recorded.outputs[p][k])]]
ResultList == [i \in DOMAIN recorded.probes |-> ResultOf(recorded.probes[i])]

SeenKept ==
  stage # "ended" => \A n \in Names : seen[n] # None => Claim(bin(n), seen[n])

Refreshed ==
  stage = "refreshing" /\ queue # <<>> =>
    IsWhole(inputs_json) /\ Range(queue) \subseteq Range(dir[inputs_json].data)

Worked ==
  stage = "working" =>
    /\ Finished /\ BinsWhole
    /\ todo = <<Put(replay_outputs, ResultList)>> \/ (todo = <<>> /\ dir[replay_outputs] = Whole(ResultList))

Reconstructed ==
  stage = "reconstructing" =>
    /\ Finished /\ BinsWhole
    /\ \A o \in Range(queue) : \E p \in Range(recorded.probes) : o = ResultOf(p)
    /\ \A p \in Range(recorded.probes) :
         Complete(recorded, p) => ResultOf(p) \in Range(queue) \/ Claim(ct(p), Current(p))

Excused ==
  \/ ~Finished \/ ~IsWhole(cryptocontext)
  \/ \E n \in Tagged(recorded) : ~IsWhole(ids(n))
  \/ \E n \in recorded.backed : seen[n] = None
  \/ \A p \in Range(recorded.probes) : ~Complete(recorded, p)

Ended ==
  stage = "done" =>
    /\ outcome = "true" =>
         /\ Finished /\ BinsWhole
         /\ \A p \in Range(recorded.probes) : Complete(recorded, p) => dir[ct(p)] = Whole(Current(p))
    /\ outcome = "false" /\ ~cut => Excused

-----------------------------------------------------------------------------
(* The inductive invariant: the writes that are left to make *)

CaptureStep(s) ==
  \E n \in Tagged(recorded) :
    \/ s = Put(ids(n), recorded.ids[n])
    \/ s = Put(bin(n), Version(recorded, n))
    \/ n \in recorded.backed /\ s = TakeTime(n)
TemplateStep(s) == \E p \in Range(recorded.probes) : s = Put(template(p), recorded.towers[p])
TraceStep(s) ==
  \/ s \in {Create(fhetch), Put(fhetch, recorded), Put(fhex, recorded)}
  \/ format = "binary" /\ s = Unlink(fhetch)
Overdue(n, v) ==
  \A i \in DOMAIN recorded.inputs : recorded.inputs[i] = n => dir[inputs_json].data[i].mtime < v
RefreshStep(s) ==
  /\ IsWhole(inputs_json)
  /\ \E n \in recorded.backed :
       \/ s = Put(ids(n), recorded.ids[n])
       \/ \E v \in Versions : s = Put(bin(n), v) /\ v = seen[n] /\ v <= source[n] /\ Overdue(n, v)
ResultStep(s) ==
  \E p \in Range(recorded.probes) : Complete(recorded, p) /\ s = Put(ct(p), Current(p))

Pending ==
  \A s \in Range(todo) :
    /\ stage = "launched" => s = Put(cryptocontext, "cc")
    /\ stage = "tagging" => CaptureStep(s)
    /\ stage = "probing" => TemplateStep(s)
    /\ stage = "stopping" => CaptureStep(s) \/ TraceStep(s)
    /\ stage = "refreshing" => RefreshStep(s)
    /\ stage = "reconstructing" => ResultStep(s)

Host == Progress /\ Traced /\ Indexed
Replays == SeenKept /\ Refreshed /\ Worked /\ Reconstructed /\ Ended

IInv == Types /\ Directory /\ Host /\ Replays /\ Pending

-----------------------------------------------------------------------------
(* Sequences *)

LEMMA ListingOf ==
  ASSUME NEW S, NEW s \in Seq(S)
  PROVE  Listing(s) /\ Range(s) \subseteq S
  BY DEF Listing, Range

LEMMA ListingTail ==
  ASSUME NEW s, Listing(s), s # <<>>
  PROVE  /\ Listing(Tail(s)) /\ Head(s) \in Range(s)
         /\ Range(s) = {Head(s)} \cup Range(Tail(s))
<1>1. Tail(s) \in Seq(Range(s)) /\ Head(s) = s[1] /\ Len(s) \in Nat \ {0} /\ DOMAIN s = 1 .. Len(s)
  BY DEF Listing
<1>2. DOMAIN Tail(s) = 1 .. (Len(s) - 1) /\ \A i \in DOMAIN Tail(s) : Tail(s)[i] = s[i + 1]
  BY <1>1 DEF Listing
<1>3. Range(s) \subseteq {Head(s)} \cup Range(Tail(s))
  <2> SUFFICES ASSUME NEW i \in 1 .. Len(s), i # 1 PROVE s[i] \in Range(Tail(s))
    BY <1>1 DEF Range
  <2>1. i - 1 \in DOMAIN Tail(s) /\ Tail(s)[i - 1] = s[i]
    BY <1>1, <1>2
  <2> QED BY <2>1 DEF Range
<1>4. {Head(s)} \cup Range(Tail(s)) \subseteq Range(s)
  BY <1>1, <1>2 DEF Range
<1>5. Listing(Tail(s))
  BY <1>1, ListingOf
<1> QED BY <1>1, <1>3, <1>4, <1>5 DEF Range

LEMMA RangeOfTuple ==
  /\ Listing(<<>>) /\ Range(<<>>) = {}
  /\ \A a : Listing(<<a>>) /\ Range(<<a>>) = {a} /\ Head(<<a>>) = a /\ Tail(<<a>>) = <<>>
  /\ \A a, b : /\ Listing(<<a, b>>) /\ Range(<<a, b>>) = {a, b}
               /\ Head(<<a, b>>) = a /\ Tail(<<a, b>>) = <<b>>
  /\ \A a, b, c : /\ Listing(<<a, b, c>>) /\ Range(<<a, b, c>>) = {a, b, c}
                  /\ Head(<<a, b, c>>) = a /\ Tail(<<a, b, c>>) = <<b, c>>
<1>1. Listing(<<>>) /\ Range(<<>>) = {}
  BY DEF Listing, Range
<1>2. ASSUME NEW a PROVE Listing(<<a>>) /\ Range(<<a>>) = {a} /\ Head(<<a>>) = a /\ Tail(<<a>>) = <<>>
  <2>1. <<a>> \in Seq({a}) OBVIOUS
  <2>2. Range(<<a>>) = {a} BY DEF Range
  <2>3. Listing(<<a>>) BY <2>1, ListingOf
  <2>4. Head(<<a>>) = a /\ Tail(<<a>>) = <<>> OBVIOUS
  <2> QED BY <2>2, <2>3, <2>4
<1>3. ASSUME NEW a, NEW b
      PROVE /\ Listing(<<a, b>>) /\ Range(<<a, b>>) = {a, b}
            /\ Head(<<a, b>>) = a /\ Tail(<<a, b>>) = <<b>>
  <2>1. <<a, b>> \in Seq({a, b}) OBVIOUS
  <2>2. Range(<<a, b>>) = {a, b} BY DEF Range
  <2>3. Listing(<<a, b>>) BY <2>1, ListingOf
  <2>4. Head(<<a, b>>) = a /\ Tail(<<a, b>>) = <<b>> OBVIOUS
  <2> QED BY <2>2, <2>3, <2>4
<1>4. ASSUME NEW a, NEW b, NEW c
      PROVE /\ Listing(<<a, b, c>>) /\ Range(<<a, b, c>>) = {a, b, c}
            /\ Head(<<a, b, c>>) = a /\ Tail(<<a, b, c>>) = <<b, c>>
  <2>1. <<a, b, c>> \in Seq({a, b, c}) OBVIOUS
  <2>2. Range(<<a, b, c>>) = {a, b, c} BY DEF Range
  <2>3. Listing(<<a, b, c>>) BY <2>1, ListingOf
  <2>4. Head(<<a, b, c>>) = a /\ Tail(<<a, b, c>>) = <<b, c>> OBVIOUS
  <2> QED BY <2>2, <2>3, <2>4
<1> QED BY <1>1, <1>2, <1>3, <1>4

LEMMA ListingEmpty ==
  ASSUME NEW s, Listing(s)
  PROVE  s = <<>> <=> Range(s) = {}
<1>1. s # <<>> => Range(s) # {}
  BY ListingTail
<1> QED BY <1>1, RangeOfTuple

LEMMA RangeConcat ==
  ASSUME NEW S, NEW s \in Seq(S), NEW t \in Seq(S)
  PROVE  Listing(s \o t) /\ Range(s \o t) = Range(s) \cup Range(t)
<1>1. s \o t \in Seq(S) /\ Len(s \o t) = Len(s) + Len(t)
  OBVIOUS
<1>2. Range(s \o t) \subseteq Range(s) \cup Range(t)
  <2> SUFFICES ASSUME NEW i \in 1 .. Len(s) + Len(t) PROVE (s \o t)[i] \in Range(s) \cup Range(t)
    BY <1>1 DEF Range
  <2>1. CASE i <= Len(s)
    BY <2>1 DEF Range
  <2>2. CASE i > Len(s)
    <3>1. (s \o t)[i] = t[i - Len(s)] /\ i - Len(s) \in DOMAIN t
      BY <2>2
    <3> QED BY <3>1 DEF Range
  <2> QED BY <2>1, <2>2
<1>3. Range(s) \subseteq Range(s \o t)
  <2> SUFFICES ASSUME NEW i \in 1 .. Len(s) PROVE s[i] \in Range(s \o t)
    BY DEF Range
  <2>1. (s \o t)[i] = s[i] /\ i \in DOMAIN (s \o t)
    BY <1>1
  <2> QED BY <2>1 DEF Range
<1>4. Range(t) \subseteq Range(s \o t)
  <2> SUFFICES ASSUME NEW i \in 1 .. Len(t) PROVE t[i] \in Range(s \o t)
    BY DEF Range
  <2>1. (s \o t)[Len(s) + i] = t[i] /\ Len(s) + i \in DOMAIN (s \o t)
    BY <1>1
  <2> QED BY <2>1 DEF Range
<1>5. Listing(s \o t)
  BY <1>1, ListingOf
<1> QED BY <1>2, <1>3, <1>4, <1>5

-----------------------------------------------------------------------------
(* What a program tags *)

LEMMA ProgramFacts ==
  ASSUME NEW prog \in Programs
  PROVE  /\ Tagged(prog) \subseteq Names /\ prog.backed \subseteq Tagged(prog)
         /\ prog.backed \subseteq Backed /\ prog.backed \subseteq Range(prog.inputs)
         /\ Range(prog.probes) \subseteq Probes
         /\ Range(prog.inputs) \subseteq Tagged(prog) /\ Range(prog.keys) \subseteq Tagged(prog)
         /\ Range(prog.precompute) \subseteq Tagged(prog)
<1>1. Range(prog.inputs) \subseteq Names /\ Range(prog.keys) \subseteq Range(KeyFiles)
      /\ Range(prog.precompute) \subseteq Range(KeyFiles) /\ Range(prog.probes) \subseteq Probes
  BY ProgramsAssumption, ListingOf
<1>2. prog.backed \subseteq Range(prog.inputs)
  BY ProgramsAssumption
<1> QED BY <1>1, <1>2, NamesAssumption DEF Tagged, Backed

-----------------------------------------------------------------------------
(* Writes that keep the directory *)

SafeBin(n, c) ==
  /\ c.state = "whole" => \E v \in Versions : c = Whole(v) /\ Holds(n, v)
  /\ n \notin recorded.backed => ~Finished
  /\ IsWhole(inputs_json) /\ n \in recorded.backed =>
       \A i \in DOMAIN recorded.inputs : recorded.inputs[i] = n =>
         /\ c.state # "whole" => dir[inputs_json].data[i].mtime < source[n]
         /\ \A v \in Versions : c = Whole(v) => dir[inputs_json].data[i].mtime <= v

(* What inputs.json may be written with, and what must be there before     *)
(* fhetch_replay.json is.                                                  *)
SafeList(L) ==
  /\ dir[fhetch] = Whole(recorded) \/ dir[fhex] = Whole(recorded)
  /\ DOMAIN L = DOMAIN recorded.inputs /\ Listing(L)
  /\ \A i \in DOMAIN recorded.inputs : Entry(L[i], recorded.inputs[i])
Ready ==
  /\ IsWhole(inputs_json)
  /\ dir[outputs_json] = Whole(OutputsOf(recorded))
  /\ \A p \in Range(recorded.probes) : dir[template(p)] = Whole(recorded.towers[p])
  /\ \A n \in Tagged(recorded) \ recorded.backed : dir[bin(n)] = Whole(1)

SafeWrite(f, c) ==
  \/ f \in {cryptocontext, replay_outputs}
  \/ \E n \in Tagged(recorded) : f = ids(n) /\ c \in {Empty, Whole(recorded.ids[n])}
  \/ \E n \in Tagged(recorded) : f = bin(n) /\ SafeBin(n, c)
  \/ ~Finished /\ f = outputs_json
  \/ ~Finished /\ \E p \in Probes : f = template(p)
  \/ ~Finished /\ ~IsWhole(inputs_json) /\ f \in {fhetch, fhex}
  \/ /\ ~Finished /\ f = inputs_json
     /\ c.state = "whole" => \E L : c = Whole(L) /\ SafeList(L)
  \/ /\ ~Finished /\ f = replay_json
     /\ c.state = "whole" => \E t \in {fhetch, fhex} : c = Whole(t) /\ dir[t] = Whole(recorded) /\ Ready
  \/ Finished /\ \E p \in Range(recorded.probes) : f = ct(p) /\ Complete(recorded, p)

Writes(f, c) ==
  /\ f \in Files /\ DOMAIN dir = Files
  /\ recorded \in Programs \cup {None} /\ (recorded # None \/ f = cryptocontext)
  /\ Directory /\ SafeWrite(f, c)
  /\ dir' = [dir EXCEPT ![f] = c] /\ source' = source /\ recorded' = recorded

USE DEF cryptocontext, fhetch, fhex, inputs_json, outputs_json, replay_json, replay_outputs,
        ids, bin, template, ct

LEMMA WriteLeaves ==
  ASSUME NEW f, NEW c, Writes(f, c)
  PROVE  DOMAIN dir' = Files /\ dir'[f] = c /\ \A g \in Files : g # f => dir'[g] = dir[g]
  BY DEF Writes

LEMMA FilesThere ==
  /\ {cryptocontext, fhetch, fhex, inputs_json, outputs_json, replay_json, replay_outputs} \subseteq Files
  /\ \A n \in Names : ids(n) \in Files /\ bin(n) \in Files
  /\ \A p \in Probes : template(p) \in Files /\ ct(p) \in Files
  BY DEF Files

(* A result is never written over the values of an input.                   *)
LEMMA BinIsNoResult ==
  ASSUME NEW n, NEW f, f = replay_outputs \/ \E p : f = ct(p)
  PROVE  bin(n) # f
<1>1. CASE f = replay_outputs
  BY <1>1
<1>2. CASE \E p : f = ct(p)
  <2>1. PICK p : f = ct(p)
    BY <1>2
  <2> QED BY <2>1
<1> QED BY <1>1, <1>2

LEMMA WriteKeepsContents ==
  ASSUME NEW f, NEW c, Writes(f, c)
  PROVE  Contents'
<1>1. CASE recorded = None
  <2>1. f = cryptocontext /\ recorded' = None /\ \A g \in Files : g # cryptocontext => dir[g] = Absent
    BY <1>1 DEF Contents, Writes, Directory
  <2>2. \A g \in Files : g # cryptocontext => dir'[g] = dir[g]
    BY <2>1, WriteLeaves
  <2> QED BY <2>1, <2>2 DEF Contents, Absent
<1>2. CASE recorded # None
  <2> SUFFICES ASSUME NEW n \in Names PROVE IdsKept(n)' /\ BinKept(n)'
    BY <1>2 DEF Contents, Writes
  <2>0. recorded' = recorded /\ source' = source /\ IdsKept(n) /\ BinKept(n)
    BY <1>2 DEF Contents, Writes, Directory
  <2>1. IdsKept(n)'
    <3>1. CASE f = ids(n)
      <4>1. n \in Tagged(recorded) /\ c \in {Empty, Whole(recorded.ids[n])}
        BY <3>1 DEF Writes, SafeWrite
      <4> QED BY <4>1, <3>1, <2>0, WriteLeaves DEF IdsKept, Tagged
    <3>2. CASE f # ids(n)
      <4>1. dir'[ids(n)] = dir[ids(n)]
        BY <3>2, WriteLeaves, FilesThere
      <4> QED BY <4>1, <2>0 DEF IdsKept, Tagged
    <3> QED BY <3>1, <3>2
  <2>2. BinKept(n)'
    <3>1. CASE f = bin(n)
      <4>1. c.state = "whole" => \E v \in Versions : c = Whole(v) /\ Holds(n, v)
        BY <3>1 DEF Writes, SafeWrite, SafeBin
      <4> QED BY <4>1, <3>1, <2>0, WriteLeaves DEF BinKept, IsWhole, Holds
    <3>2. CASE f # bin(n)
      <4>1. dir'[bin(n)] = dir[bin(n)]
        BY <3>2, WriteLeaves, FilesThere
      <4> QED BY <4>1, <2>0 DEF BinKept, IsWhole, Holds
    <3> QED BY <3>1, <3>2
  <2> QED BY <2>1, <2>2
<1> QED BY <1>1, <1>2

LEMMA WriteKeepsInputsListed ==
  ASSUME NEW f, NEW c, Writes(f, c)
  PROVE  InputsListed'
<1>0. recorded' = recorded /\ source' = source /\ InputsListed
  BY DEF Writes, Directory
<1> SUFFICES ASSUME IsWhole(inputs_json)'
             PROVE  /\ recorded # None
                    /\ dir'[fhetch] = Whole(recorded) \/ dir'[fhex] = Whole(recorded)
                    /\ DOMAIN dir'[inputs_json].data = DOMAIN recorded.inputs
                    /\ Listing(dir'[inputs_json].data)
                    /\ \A i \in DOMAIN recorded.inputs : Entry(dir[inputs_json].data[i], recorded.inputs[i])'
  BY <1>0 DEF InputsListed, Listing, Whole
<1>1. \A g \in {inputs_json, fhetch, fhex} : g \in Files
  BY FilesThere
<1>2. f \in {cryptocontext, replay_outputs, outputs_json, replay_json} \cup {ids(n) : n \in Names} \cup {bin(n) : n \in Names}
        \cup {template(p) : p \in Probes} \cup {ct(p) : p \in Probes} \cup {inputs_json, fhetch, fhex}
  BY DEF Writes, Files
<1>3. CASE f = inputs_json
  <2>0. recorded # None
    BY <1>3 DEF Writes
  <2>1. PICK L : c = Whole(L) /\ SafeList(L)
    <3>1. c.state = "whole"
      BY <1>3, WriteLeaves DEF IsWhole
    <3> QED BY <3>1, <1>3 DEF Writes, SafeWrite
  <2>2. dir'[inputs_json].data = L
    BY <2>1, <1>3, WriteLeaves DEF Whole
  <2>3. \A g \in Files : g # inputs_json => dir'[g] = dir[g]
    BY <1>3, WriteLeaves
  <2>4. ASSUME NEW i \in DOMAIN recorded.inputs PROVE Entry(dir[inputs_json].data[i], recorded.inputs[i])'
    <3>1. Entry(L[i], recorded.inputs[i])
      BY <2>1 DEF SafeList
    <3>2. recorded.inputs[i] \in Names
      BY <2>0, ProgramsAssumption DEF Writes
    <3>3. dir'[bin(recorded.inputs[i])] = dir[bin(recorded.inputs[i])]
      BY <3>2, <2>3, FilesThere
    <3> QED BY <3>1, <3>3, <2>2, <1>0 DEF Entry, Dated, IsWhole, Usable, Whole
  <2> QED BY <2>0, <2>1, <2>2, <2>3, <2>4, <1>1 DEF SafeList
<1>4. CASE f # inputs_json
  <2>1. dir'[inputs_json] = dir[inputs_json] /\ IsWhole(inputs_json)
    BY <1>4, <1>1, WriteLeaves DEF IsWhole
  <2>2. recorded # None /\ recorded \in Programs
    BY <2>1, <1>0 DEF InputsListed, Writes
  <2>3. f \notin {fhetch, fhex}
    BY <2>1 DEF Writes, SafeWrite
  <2>4. dir'[fhetch] = dir[fhetch] /\ dir'[fhex] = dir[fhex]
    BY <2>3, <1>1, WriteLeaves
  <2>5. ASSUME NEW i \in DOMAIN recorded.inputs PROVE Entry(dir[inputs_json].data[i], recorded.inputs[i])'
    <3> DEFINE n == recorded.inputs[i]
               t == dir[inputs_json].data[i].mtime
    <3>1. Entry(dir[inputs_json].data[i], n)
      BY <2>1, <1>0 DEF InputsListed
    <3>a. n \in Names
      BY <2>2, ProgramsAssumption
    <3>2. n \in Names /\ bin(n) \in Files
      BY <3>a, FilesThere
    <3>3. CASE f # bin(n)
      <4>1. dir'[bin(n)] = dir[bin(n)]
        BY <3>2, <3>3, WriteLeaves
      <4> QED BY <3>1, <4>1, <2>1, <1>0 DEF Entry, Dated, IsWhole, Usable, Whole
    <3>4. CASE f = bin(n)
      <4>1. SafeBin(n, c)
        BY <3>4 DEF Writes, SafeWrite
      <4>2. dir'[bin(n)] = c
        BY <3>4, WriteLeaves
      <4>3. CASE n \notin recorded.backed
        BY <4>3, <3>1, <2>1, <1>0 DEF Entry
      <4>4. CASE n \in recorded.backed
        <5>1. (c.state # "whole" => t < source[n]) /\ \A v \in Versions : c = Whole(v) => t <= v
          BY <4>1, <4>4, <2>1 DEF SafeBin
        <5>2. t \in Versions /\ Usable(t) /\ t <= source[n]
          BY <4>4, <3>1 DEF Entry, Dated
        <5> QED BY <5>1, <5>2, <4>2, <3>1, <2>1, <1>0 DEF Entry, Dated, IsWhole, Usable, Whole
      <4> QED BY <4>3, <4>4
    <3> QED BY <3>3, <3>4
  <2> QED BY <2>1, <2>2, <2>4, <2>5, <1>0 DEF InputsListed
<1> QED BY <1>3, <1>4

LEMMA WriteKeepsInPlace ==
  ASSUME NEW f, NEW c, Writes(f, c)
  PROVE  InPlace'
<1>0. recorded' = recorded /\ InPlace
  BY DEF Writes, Directory
<1>1. {outputs_json, replay_json, inputs_json, fhetch, fhex} \subseteq Files
  BY FilesThere
<1> SUFFICES ASSUME Finished' PROVE InPlace'
  BY DEF InPlace
<1>2. CASE f = replay_json
  <2>1. c.state = "whole" /\ recorded # None /\ recorded \in Programs
    BY <1>2, WriteLeaves DEF Finished, IsWhole, Writes
  <2>2. PICK t \in {fhetch, fhex} : c = Whole(t) /\ dir[t] = Whole(recorded) /\ Ready
    BY <1>2, <2>1 DEF Writes, SafeWrite
  <2>3. \A g \in Files : g # replay_json => dir'[g] = dir[g]
    BY <1>2, WriteLeaves
  <2>4. \A p \in Range(recorded.probes) : dir'[template(p)] = dir[template(p)]
    BY <2>1, <2>3, FilesThere, ProgramFacts
  <2>5. \A n \in Tagged(recorded) : dir'[bin(n)] = dir[bin(n)]
    BY <2>1, <2>3, FilesThere, ProgramFacts
  <2>6. dir'[outputs_json] = dir[outputs_json] /\ dir'[inputs_json] = dir[inputs_json] /\ dir'[t] = dir[t] /\ dir'[replay_json] = Whole(t)
    BY <1>1, <1>2, <2>2, <2>3, WriteLeaves
  <2>7. IsWhole(inputs_json)' /\ dir'[outputs_json] = Whole(OutputsOf(recorded))
    BY <2>2, <2>6 DEF Ready, IsWhole
  <2>8. \A p \in Range(recorded.probes) : dir'[template(p)] = Whole(recorded.towers[p])
    BY <2>2, <2>4 DEF Ready
  <2>9. \A n \in Tagged(recorded) \ recorded.backed : dir'[bin(n)] = Whole(1)
    BY <2>2, <2>5 DEF Ready
  <2> QED BY <1>0, <2>1, <2>2, <2>6, <2>7, <2>8, <2>9 DEF InPlace, Whole, OutputsOf, Tagged
<1>3. CASE f # replay_json
  <2>1. Finished
    BY <1>1, <1>3, WriteLeaves DEF Finished, IsWhole
  <2>2. recorded # None /\ recorded \in Programs
    BY <2>1, <1>0 DEF InPlace, Writes
  <2>3. \/ f \in {cryptocontext, replay_outputs}
        \/ \E n \in Names : f = ids(n)
        \/ \E n \in Tagged(recorded) : f = bin(n) /\ n \in recorded.backed
        \/ \E p \in Probes : f = ct(p)
    BY <2>1, <2>2, <1>3, ProgramFacts DEF Writes, SafeWrite, SafeBin
  <2>a. Range(recorded.probes) \subseteq Probes /\ Tagged(recorded) \subseteq Names
    BY <2>2, ProgramFacts
  <2>b. /\ \A p \in Probes : template(p) # f
        /\ \A n \in Names \ recorded.backed : bin(n) # f
    BY <2>3
  <2>4. \A p \in Range(recorded.probes) : template(p) # f /\ template(p) \in Files
    BY <2>a, <2>b, FilesThere
  <2>5. \A n \in Tagged(recorded) \ recorded.backed : bin(n) # f /\ bin(n) \in Files
    BY <2>a, <2>b, FilesThere
  <2>6. f \notin {outputs_json, replay_json, inputs_json, fhetch, fhex}
    BY <2>3
  <2>7. \A g \in {outputs_json, replay_json, inputs_json, fhetch, fhex} : dir'[g] = dir[g]
    BY <1>1, <2>6, WriteLeaves
  <2>8. \A p \in Range(recorded.probes) : dir'[template(p)] = dir[template(p)]
    BY <2>4, WriteLeaves
  <2>9. \A n \in Tagged(recorded) \ recorded.backed : dir'[bin(n)] = dir[bin(n)]
    BY <2>5, WriteLeaves
  <2>10. /\ IsWhole(inputs_json) /\ dir[outputs_json] = Whole(OutputsOf(recorded))
         /\ \E t \in {fhetch, fhex} : dir[replay_json] = Whole(t) /\ dir[t] = Whole(recorded)
    BY <2>1, <1>0 DEF InPlace
  <2>11. /\ IsWhole(inputs_json)' /\ dir'[outputs_json] = Whole(OutputsOf(recorded))
         /\ \E t \in {fhetch, fhex} : dir'[replay_json] = Whole(t) /\ dir'[t] = Whole(recorded)
    BY <2>7, <2>10 DEF IsWhole
  <2>12. \A p \in Range(recorded.probes) : dir'[template(p)] = Whole(recorded.towers[p])
    BY <2>8, <2>1, <1>0 DEF InPlace
  <2>13. \A n \in Tagged(recorded) \ recorded.backed : dir'[bin(n)] = Whole(1)
    BY <2>9, <2>1, <1>0 DEF InPlace
  <2> QED BY <1>0, <2>2, <2>11, <2>12, <2>13 DEF InPlace, Whole, OutputsOf, Tagged
<1> QED BY <1>2, <1>3

LEMMA WriteKeepsResults ==
  ASSUME NEW f, NEW c, Writes(f, c)
  PROVE  Results'
<1>0. recorded' = recorded /\ Results
  BY DEF Writes, Directory
<1> SUFFICES ASSUME NEW p \in Probes, Exists(ct(p))'
             PROVE  Finished' /\ p \in Range(recorded.probes) /\ Complete(recorded, p)
  BY <1>0 DEF Results, Complete
<1>1. ct(p) \in Files /\ replay_json \in Files
  BY FilesThere
<1>2. CASE f = ct(p)
  <2>1. Finished /\ p \in Range(recorded.probes) /\ Complete(recorded, p)
    BY <1>2 DEF Writes, SafeWrite
  <2>2. dir'[replay_json] = dir[replay_json]
    BY <1>1, <1>2, WriteLeaves
  <2> QED BY <2>1, <2>2 DEF Finished, IsWhole
<1>3. CASE f # ct(p)
  <2>1. Finished /\ p \in Range(recorded.probes) /\ Complete(recorded, p)
    BY <1>0, <1>1, <1>3, WriteLeaves DEF Results, Exists
  <2>2. f # replay_json
    BY <2>1 DEF Writes, SafeWrite
  <2>3. dir'[replay_json] = dir[replay_json]
    BY <1>1, <2>2, WriteLeaves
  <2> QED BY <2>1, <2>3 DEF Finished, IsWhole
<1> QED BY <1>2, <1>3

LEMMA WriteKeepsDirectory ==
  ASSUME NEW f, NEW c, Writes(f, c)
  PROVE  Directory'
  BY WriteKeepsContents, WriteKeepsInputsListed, WriteKeepsInPlace, WriteKeepsResults DEF Directory

-----------------------------------------------------------------------------
(* The writes of a run keep the directory *)

(* What a step may make of its file: the step as a whole, or cut by a      *)
(* crash.                                                                  *)
OutcomesOf(s) ==
  (CASE s.op = "put" -> {s.to} [] s.op = "inputs" -> {Whole(ListedInputs)} [] OTHER -> {}) \cup Left(s)

LEMMA PutOutcomes ==
  ASSUME NEW f, NEW d, NEW c \in OutcomesOf(Put(f, d))
  PROVE  c = Whole(d) \/ c.state # "whole"
  BY DEF OutcomesOf, Put, Left, Whole, Empty, Part

LEMMA IdsOutcomes ==
  ASSUME Disciplined, NEW n, NEW d, NEW c \in OutcomesOf(Put(ids(n), d))
  PROVE  c \in {Empty, Whole(d)}
<1>1. Put(ids(n), d).op = "put" /\ Put(ids(n), d).file[2] = "ids" /\ Put(ids(n), d).to = Whole(d)
  BY DEF Put
<1>2. "small" \in Rules
  BY DEF Disciplined
<1> QED BY <1>1, <1>2 DEF OutcomesOf, Left, Empty, Whole

LEMMA SourceHolds ==
  ASSUME Types, recorded # None, NEW n
  PROVE  Version(recorded, n) \in Versions /\ Holds(n, Version(recorded, n))
<1>1. 1 \in Versions
  BY VersionsAssumption DEF Versions
<1>2. n \in recorded.backed => source[n] \in Versions
  BY ProgramFacts DEF Types, TypeOK
<1> QED BY <1>1, <1>2 DEF Version, Holds, Versions

LEMMA IndexingFacts ==
  ASSUME Types, Host, stage = "indexing"
  PROVE  /\ recorded \in Programs
         /\ \A n \in Tagged(recorded) :
              /\ dir[ids(n)] = Whole(recorded.ids[n])
              /\ dir[bin(n)] = Whole(Version(recorded, n))
              /\ n \in recorded.backed => mtime[n] = source[n]
         /\ \A p \in Range(recorded.probes) : dir[template(p)] = Whole(recorded.towers[p])
         /\ dir[TraceFile] = Whole(recorded) /\ TraceFile \in {fhetch, fhex}
<1>1. Range(todo) \subseteq {PutInputs, Indices, LastStep}
  BY RangeOfTuple DEF Host, Indexed
<1>2. \A s \in Range(todo) : /\ s.op \in {"inputs", "put"}
                             /\ s.op = "put" => s.file \in {outputs_json, replay_json}
  BY <1>1 DEF PutInputs, Indices, LastStep, Put
<1>3. /\ \A n, d : Put(ids(n), d) \notin Range(todo) /\ Put(bin(n), d) \notin Range(todo)
      /\ \A n, d : Put(template(n), d) \notin Range(todo)
      /\ \A n : TakeTime(n) \notin Range(todo)
  BY <1>2 DEF Put, TakeTime
<1>4. recorded \in Programs /\ Range(queue) = {}
  BY RangeOfTuple DEF Types, Recording, Host, Progress
<1>5. \A n \in Tagged(recorded) : Captured(n)
  BY <1>4 DEF Host, Progress, Tagged, Recording
<1>6. \A p \in Range(recorded.probes) : Claim(template(p), recorded.towers[p])
  BY DEF Host, Progress, Recording
<1> QED BY <1>3, <1>4, <1>5, <1>6 DEF Captured, Claim, Host, Traced, TraceFile

(* The time of an input is listed as that of the data recorded for it. *)
LEMMA ListedInputsSafe ==
  ASSUME Types, Host, stage = "indexing"
  PROVE  SafeList(ListedInputs)
<1>0. recorded \in Programs /\ recorded.inputs \in Seq(Names)
  BY IndexingFacts, ProgramsAssumption
<1>1. dir[fhetch] = Whole(recorded) \/ dir[fhex] = Whole(recorded)
  BY IndexingFacts
<1>2. DOMAIN ListedInputs = DOMAIN recorded.inputs
  BY DEF ListedInputs
<1>3. Listing(ListedInputs)
  <2> DEFINE S == {ListedInputs[i] : i \in DOMAIN recorded.inputs}
             L == Len(recorded.inputs)
  <2>1. L \in Nat /\ DOMAIN recorded.inputs = 1 .. L
    BY <1>0
  <2>2. ListedInputs = [i \in 1 .. L |-> ListedInputs[i]]
    BY <2>1 DEF ListedInputs
  <2>3. \A i \in 1 .. L : ListedInputs[i] \in S
    BY <2>1
  <2> HIDE DEF S, L
  <2>4. ListedInputs \in Seq(S)
    BY <2>1, <2>2, <2>3
  <2> QED BY <2>4, ListingOf
<1>4. ASSUME NEW i \in DOMAIN recorded.inputs PROVE Entry(ListedInputs[i], recorded.inputs[i])
  <2> DEFINE n == recorded.inputs[i]
  <2>1. n \in Tagged(recorded)
    BY DEF Tagged, Range
  <2>2. ListedInputs[i] = [name |-> n, mtime |-> IF n \in recorded.backed THEN mtime[n] ELSE None]
    BY DEF ListedInputs
  <2>3. CASE n \notin recorded.backed
    BY <2>2, <2>3 DEF Entry
  <2>4. CASE n \in recorded.backed
    <3>1. dir[bin(n)] = Whole(source[n]) /\ mtime[n] = source[n]
      BY <2>1, <2>4, IndexingFacts DEF Version
    <3>2. source[n] \in Versions /\ Usable(source[n])
      BY <1>0, <2>4, ProgramFacts DEF Types, TypeOK, Recording
    <3>3. Dated(n, source[n])
      BY <3>1, <3>2 DEF Dated, IsWhole, Whole, Versions
    <3> QED BY <2>2, <2>4, <3>1, <3>3 DEF Entry
  <2> QED BY <2>3, <2>4
<1> QED BY <1>1, <1>2, <1>3, <1>4 DEF SafeList

LEMMA PendingIsSafe ==
  ASSUME Disciplined, IInv, todo # <<>>, Head(todo).op # "time",
         NEW c \in OutcomesOf(Head(todo))
  PROVE  /\ Head(todo).file \in Files /\ SafeWrite(Head(todo).file, c)
         /\ recorded # None \/ Head(todo).file = cryptocontext
<1> DEFINE s == Head(todo)
<1>0. s \in Range(todo) /\ Types /\ Host /\ Directory /\ Pending
  BY ListingTail DEF IInv, Types
<1>1. CASE stage = "launched"
  <2>1. s = Put(cryptocontext, "cc")
    BY <1>0, <1>1 DEF Pending
  <2> QED BY <2>1, FilesThere DEF Put, SafeWrite
<1>c. ASSUME stage \in {"tagging", "stopping"}, CaptureStep(s)
      PROVE s.file \in Files /\ SafeWrite(s.file, c) /\ recorded # None
  <2>0. recorded # None /\ recorded \in Programs /\ ~Finished /\ ~IsWhole(inputs_json)
    BY <1>0, <1>c DEF Types, Recording, Host, Progress
  <2>1. PICK n \in Tagged(recorded) : s \in {Put(ids(n), recorded.ids[n]), Put(bin(n), Version(recorded, n))}
    BY <1>c DEF CaptureStep, TakeTime
  <2>2. n \in Names /\ ids(n) \in Files /\ bin(n) \in Files
    <3>1. n \in Names BY <2>0, ProgramFacts
    <3> QED BY <3>1, FilesThere
  <2>3. CASE s = Put(ids(n), recorded.ids[n])
    <3>1. c \in {Empty, Whole(recorded.ids[n])}
      BY <2>3, IdsOutcomes
    <3> QED BY <2>0, <2>2, <2>3, <3>1 DEF SafeWrite, Put
  <2>4. CASE s = Put(bin(n), Version(recorded, n))
    <3>1. c = Whole(Version(recorded, n)) \/ c.state # "whole"
      BY <2>4, PutOutcomes
    <3>2. SafeBin(n, c)
      BY <1>0, <2>0, <3>1, SourceHolds DEF SafeBin
    <3> QED BY <2>0, <2>2, <2>4, <3>2 DEF SafeWrite, Put
  <2> QED BY <2>1, <2>3, <2>4
<1>2. CASE stage = "tagging"
  BY <1>0, <1>2, <1>c DEF Pending
<1>3. CASE stage = "probing"
  <2>0. recorded # None /\ recorded \in Programs /\ ~Finished
    BY <1>0, <1>3 DEF Types, Recording, Host, Progress
  <2>1. PICK p \in Range(recorded.probes) : s = Put(template(p), recorded.towers[p])
    BY <1>0, <1>3 DEF Pending, TemplateStep
  <2>2. p \in Probes /\ s.file = template(p)
    BY <2>0, <2>1, ProgramFacts DEF Put
  <2> QED BY <2>0, <2>2, FilesThere DEF SafeWrite
<1>4. CASE stage = "stopping"
  <2>1. CaptureStep(s) \/ TraceStep(s)
    BY <1>0, <1>4 DEF Pending
  <2>2. CASE TraceStep(s)
    <3>0. recorded # None /\ ~Finished /\ ~IsWhole(inputs_json)
      BY <1>0, <1>4 DEF Types, Recording, Host, Progress
    <3>1. s.file \in {fhetch, fhex}
      BY <2>2 DEF TraceStep, Put, Create, Unlink
    <3> QED BY <3>0, <3>1, FilesThere DEF SafeWrite
  <2> QED BY <2>1, <2>2, <1>4, <1>c
<1>5. CASE stage = "indexing"
  <2>0. recorded # None /\ recorded \in Programs
    BY <1>0, <1>5 DEF Types, Recording
  <2>1. \/ s = PutInputs /\ ~Finished
        \/ s = Indices /\ ~Finished
        \/ s = LastStep /\ ~Finished /\ IsWhole(inputs_json) /\ dir[outputs_json] = Whole(OutputsOf(recorded))
    BY <1>0, <1>5, RangeOfTuple DEF Host, Indexed
  <2>2. CASE s = PutInputs
    <3>1. c = Whole(ListedInputs) \/ c.state # "whole"
      BY <2>2 DEF OutcomesOf, PutInputs, Left, Whole, Empty, Part
    <3>2. SafeList(ListedInputs)
      BY <1>0, <1>5, ListedInputsSafe
    <3>3. s.file = inputs_json /\ inputs_json \in Files
      BY <2>2, FilesThere DEF PutInputs
    <3>4. ~Finished
      BY <2>1, <2>2 DEF PutInputs
    <3> QED BY <2>0, <3>1, <3>2, <3>3, <3>4 DEF SafeWrite
  <2>3. CASE s = Indices
    <3>1. ~Finished /\ s.file = outputs_json /\ outputs_json \in Files
      BY <2>1, <2>3, FilesThere DEF Indices, Put
    <3> QED BY <2>0, <3>1 DEF SafeWrite
  <2>4. CASE s = LastStep
    <3>1. c = Whole(TraceFile) \/ c.state # "whole"
      BY <2>4, PutOutcomes DEF LastStep
    <3>2. ~Finished /\ IsWhole(inputs_json) /\ dir[outputs_json] = Whole(OutputsOf(recorded))
      BY <2>1, <2>4 DEF LastStep, PutInputs, Indices, Put
    <3>3. \A n \in Tagged(recorded) \ recorded.backed : dir[bin(n)] = Whole(1)
      BY <1>0, <1>5, IndexingFacts DEF Version
    <3>4. Ready /\ dir[TraceFile] = Whole(recorded) /\ TraceFile \in {fhetch, fhex}
      BY <1>0, <1>5, <3>2, <3>3, IndexingFacts DEF Ready
    <3>5. s.file = replay_json /\ replay_json \in Files
      BY <2>4, FilesThere DEF LastStep, Put
    <3>6. c.state = "whole" => \E t \in {fhetch, fhex} : c = Whole(t) /\ dir[t] = Whole(recorded) /\ Ready
      BY <3>1, <3>4
    <3> QED BY <2>0, <3>2, <3>5, <3>6 DEF SafeWrite
  <2> QED BY <2>1, <2>2, <2>3, <2>4
<1>6. CASE stage = "refreshing"
  <2>0. recorded # None /\ recorded \in Programs /\ IsWhole(inputs_json)
    BY <1>0, <1>6 DEF Types, Pending, RefreshStep
  <2>1. PICK n \in recorded.backed : \/ s = Put(ids(n), recorded.ids[n])
                                     \/ \E v \in Versions : s = Put(bin(n), v) /\ v <= source[n] /\ Overdue(n, v)
    BY <1>0, <1>6 DEF Pending, RefreshStep
  <2>2. n \in Names /\ n \in Tagged(recorded) /\ n \in Backed /\ ids(n) \in Files /\ bin(n) \in Files
    <3>1. n \in Names /\ n \in Tagged(recorded) /\ n \in Backed BY <2>0, ProgramFacts
    <3> QED BY <3>1, FilesThere
  <2>3. CASE s = Put(ids(n), recorded.ids[n])
    <3>1. c \in {Empty, Whole(recorded.ids[n])}
      BY <2>3, IdsOutcomes
    <3> QED BY <2>0, <2>2, <2>3, <3>1 DEF SafeWrite, Put
  <2>4. ASSUME NEW v \in Versions, s = Put(bin(n), v), v <= source[n], Overdue(n, v)
        PROVE  s.file \in Files /\ SafeWrite(s.file, c)
    <3>1. c = Whole(v) \/ c.state # "whole"
      BY <2>4, PutOutcomes
    <3>2. source[n] \in Versions /\ source[n] \in Nat /\ v \in Nat
      BY <1>0, <2>2 DEF Types, TypeOK, Versions
    <3>3. ASSUME NEW i \in DOMAIN recorded.inputs, recorded.inputs[i] = n
          PROVE  /\ dir[inputs_json].data[i].mtime < source[n]
                 /\ dir[inputs_json].data[i].mtime <= v
      <4>1. Entry(dir[inputs_json].data[i], n)
        BY <1>0, <2>0, <3>3 DEF Directory, InputsListed
      <4>2. dir[inputs_json].data[i].mtime \in Nat
        BY <4>1 DEF Entry, Dated, Versions
      <4>3. dir[inputs_json].data[i].mtime < v
        BY <2>4, <3>3 DEF Overdue
      <4> QED BY <4>2, <4>3, <3>2, <2>4
    <3>4. \A w \in Versions : c = Whole(w) => w = v
      BY <3>1 DEF Whole
    <3>5. SafeBin(n, c)
      BY <3>1, <3>3, <3>4, <2>4 DEF SafeBin, Holds
    <3>6. s.file = bin(n)
      BY <2>4 DEF Put
    <3> QED BY <2>2, <3>5, <3>6 DEF SafeWrite
  <2> QED BY <2>0, <2>1, <2>3, <2>4
<1>7. CASE stage = "working"
  <2>1. s = Put(replay_outputs, ResultList) /\ recorded # None
    BY <1>7, <1>0, RangeOfTuple DEF IInv, Replays, Worked, Types
  <2> QED BY <2>1, FilesThere DEF Put, SafeWrite
<1>8. CASE stage = "reconstructing"
  <2>0. recorded # None /\ recorded \in Programs /\ Finished
    BY <1>0, <1>8 DEF Types, IInv, Replays, Reconstructed
  <2>1. PICK p \in Range(recorded.probes) : Complete(recorded, p) /\ s = Put(ct(p), Current(p))
    BY <1>0, <1>8 DEF Pending, ResultStep
  <2>2. p \in Probes /\ s.file = ct(p)
    BY <2>0, <2>1, ProgramFacts DEF Put
  <2> QED BY <2>0, <2>1, <2>2, FilesThere DEF SafeWrite
<1>9. stage \notin {"ended", "done"}
  BY <1>0 DEF Types
<1> QED BY <1>0, <1>1, <1>2, <1>3, <1>4, <1>5, <1>6, <1>7, <1>8, <1>9 DEF Types, TypeOK, Recording

-----------------------------------------------------------------------------
(* Frames *)

LEMMA DirectoryFrame ==
  ASSUME Directory, dir' = dir, source' = source, recorded' = recorded
  PROVE  Directory'
<1>1. Contents'
  BY DEF Directory, Contents, IdsKept, BinKept, Holds, IsWhole, Absent, Empty, Whole, Tagged
<1>2. InputsListed'
  BY DEF Directory, InputsListed, IsWhole, Entry, Dated, Usable, Listing, Whole
<1>3. InPlace'
  BY DEF Directory, InPlace, Finished, IsWhole, OutputsOf, Tagged, Whole
<1>4. Results'
  BY DEF Directory, Results, Finished, IsWhole, Exists, Complete
<1> QED BY <1>1, <1>2, <1>3, <1>4 DEF Directory

(* What the results are computed from. *)
LEMMA ResultsFrame ==
  ASSUME recorded' = recorded, \A n \in recorded.backed : dir'[bin(n)] = dir[bin(n)]
  PROVE  /\ CurrentVersions' = CurrentVersions /\ BinsWhole' = BinsWhole
         /\ \A p : Current(p)' = Current(p) /\ ResultOf(p)' = ResultOf(p)
         /\ ResultList' = ResultList
<1>1. CurrentVersions' = CurrentVersions /\ BinsWhole' = BinsWhole
  BY DEF CurrentVersions, BinsWhole, IsWhole
<1>2. ASSUME NEW p PROVE Current(p)' = Current(p) /\ ResultOf(p)' = ResultOf(p)
  BY <1>1 DEF Current, ResultOf
<1>3. ResultList' = ResultList
  <2>1. \A i \in DOMAIN recorded.probes : ResultOf(recorded.probes[i])' = ResultOf(recorded.probes[i])
    BY <1>1 DEF ResultOf
  <2> QED BY <2>1 DEF ResultList
<1> QED BY <1>1, <1>2, <1>3

LEMMA ReadyClaims ==
  ASSUME todo = <<>>, NEW f, NEW d, Claim(f, d)
  PROVE  dir[f] = Whole(d)
  BY RangeOfTuple DEF Claim

LEMMA CapturedKept ==
  ASSUME todo = <<>>, NEW n, Captured(n), dir' = dir, recorded' = recorded, source' = source, mtime' = mtime
  PROVE  Captured(n)'
<1>1. Range(todo) = {}
  BY RangeOfTuple
<1> QED BY <1>1 DEF Captured, Claim, Version, Whole, Put

LEMMA TemplatesKept ==
  ASSUME todo = <<>>, NEW p, Claim(template(p), recorded.towers[p]), dir' = dir, recorded' = recorded
  PROVE  Claim(template(p), recorded.towers[p])'
<1>1. Range(todo) = {}
  BY RangeOfTuple
<1> QED BY <1>1 DEF Claim, Whole

-----------------------------------------------------------------------------
(* Initially *)

LEMMA InitInv ==
  Init => IInv
<1> SUFFICES ASSUME Init PROVE IInv
  OBVIOUS
<1>0. dir = [f \in Files |-> Absent] /\ stage = "ended" /\ todo = <<>> /\ queue = <<>> /\ outcome = "none"
      /\ recorded = None /\ cut = FALSE /\ source = [n \in Backed |-> 1]
      /\ mtime = [n \in Backed |-> None] /\ seen = [n \in Names |-> None]
  BY DEF Init
<1>a. \A f \in Files : dir[f] = Absent
  BY <1>0
<1>b. \A f \in Files : ~IsWhole(f) /\ ~Exists(f)
  BY <1>a DEF IsWhole, Exists, Absent
<1>1. Types
  <2>1. 1 \in Versions
    BY VersionsAssumption DEF Versions
  <2>2. Listing(todo) /\ Listing(queue)
    BY <1>0, RangeOfTuple
  <2> QED BY <1>0, <2>1, <2>2 DEF Types, TypeOK, Recording
<1>2. Directory
  <2>1. Contents
    BY <1>0, <1>a DEF Contents
  <2>2. ~IsWhole(inputs_json) /\ ~Finished /\ \A p \in Probes : ~Exists(ct(p))
    BY <1>b, FilesThere DEF Finished
  <2> QED BY <2>1, <2>2 DEF Directory, InputsListed, InPlace, Results
<1>3. Host
  BY <1>0 DEF Host, Progress, Traced, Indexed, Recording
<1>4. Replays
  BY <1>0 DEF Replays, SeenKept, Refreshed, Worked, Reconstructed, Ended
<1>5. Pending
  BY <1>0, RangeOfTuple DEF Pending
<1> QED BY <1>1, <1>2, <1>3, <1>4, <1>5 DEF IInv

-----------------------------------------------------------------------------
(* A run that records *)

LEMMA LaunchInv ==
  ASSUME IInv, Launch
  PROVE  IInv'
<1>0. /\ stage' = "launched" /\ outcome' = "none" /\ cut' = FALSE /\ seen' = [n \in Names |-> None]
      /\ todo' \in {<<>>, <<Put(cryptocontext, "cc")>>} /\ queue = <<>>
      /\ source' = source /\ dir' = dir /\ mtime' = mtime /\ queue' = queue /\ recorded' = recorded
  BY DEF IInv, Types, Launch
<1>1. Types'
  <2>1. Listing(todo') /\ Listing(queue')
    BY <1>0, RangeOfTuple
  <2> QED BY <1>0, <2>1 DEF IInv, Types, TypeOK, Recording, Listing, Usable
<1>2. Directory'
  BY <1>0, DirectoryFrame DEF IInv
<1>3. Host'
  BY <1>0 DEF Host, Progress, Traced, Indexed, Recording
<1>4. Replays'
  BY <1>0 DEF Replays, SeenKept, Refreshed, Worked, Reconstructed, Ended
<1>5. Pending'
  <2>1. Range(todo') \subseteq {Put(cryptocontext, "cc")}
    BY <1>0, RangeOfTuple
  <2> QED BY <1>0, <2>1 DEF Pending
<1> QED BY <1>1, <1>2, <1>3, <1>4, <1>5 DEF IInv

LEMMA RecordInv ==
  ASSUME Disciplined, IInv, NEW prog \in Programs, Record(prog)
  PROVE  IInv'
<1>0. /\ stage = "launched" /\ todo = <<>> /\ stage' = "tagging" /\ queue' = prog.inputs \o prog.keys
      /\ recorded' = prog /\ recorded \in {None, prog}
      /\ ~Exists(fhex) /\ ~Exists(fhetch) /\ \A n \in prog.backed : Usable(source[n])
      /\ source' = source /\ dir' = dir /\ todo' = todo /\ mtime' = mtime
      /\ outcome' = outcome /\ seen' = seen /\ cut' = cut
  BY DEF Record, is_cache_valid, existing_trace_path, Disciplined
<1>1. Listing(queue') /\ Range(queue') = Range(prog.inputs) \cup Range(prog.keys)
  <2>1. prog.inputs \in Seq(Names) /\ prog.keys \in Seq(Range(KeyFiles))
    BY ProgramsAssumption
  <2>2. prog.keys \in Seq(Names)
    BY <2>1, NamesAssumption
  <2> QED BY <1>0, <2>1, <2>2, RangeConcat
<1>2. Types'
  <2>1. /\ recorded' # None /\ recorded' \in Programs /\ outcome = "none"
        /\ \A n \in Names : seen[n] = None
    BY <1>0, NoneAssumption DEF IInv, Types, TypeOK
  <2>2. TypeOK'
    BY <1>0, <2>1 DEF IInv, Types, TypeOK, Recording, Usable
  <2>3. Listing(todo')
    BY <1>0, RangeOfTuple
  <2> QED BY <1>0, <1>1, <2>1, <2>2, <2>3 DEF IInv, Types, Recording, Usable, Listing
<1>3. ~IsWhole(inputs_json) /\ ~Finished
  BY <1>0 DEF IInv, Directory, InputsListed, InPlace, Exists, Whole
<1>4. Directory'
  <2>1. CASE recorded = prog
    BY <1>0, <2>1, DirectoryFrame DEF IInv
  <2>2. CASE recorded = None
    <3>1. \A f \in Files : f # cryptocontext => dir[f] = Absent
      BY <2>2 DEF IInv, Directory, Contents
    <3>2. \A n \in Names : dir[ids(n)] = Absent /\ dir[bin(n)] = Absent
      BY <3>1, FilesThere
    <3>3. \A p \in Probes : dir[ct(p)] = Absent
      BY <3>1, FilesThere
    <3>4. Contents'
      BY <1>0, <3>2, NoneAssumption DEF Contents, IdsKept, BinKept, IsWhole, Absent
    <3>5. Results'
      BY <1>0, <3>3 DEF Results, Exists, Absent
    <3> QED BY <1>0, <1>3, <3>4, <3>5 DEF Directory, InputsListed, InPlace, Finished, IsWhole
  <2> QED BY <1>0, <2>1, <2>2
<1>5. Host'
  <2>1. Range(queue') \subseteq Tagged(prog)
    BY <1>1 DEF Tagged
  <2>2. ~IsWhole(inputs_json)' /\ ~Finished'
    BY <1>0, <1>3 DEF IsWhole, Finished
  <2>3. Progress'
    BY <1>0, <1>1, <2>1, <2>2 DEF Progress, Tagged
  <2> QED BY <1>0, <2>3 DEF Host, Traced, Indexed
<1>6. Replays'
  <2>1. \A n \in Names : seen'[n] = None
    BY <1>0 DEF IInv, Types
  <2> QED BY <1>0, <2>1 DEF Replays, SeenKept, Refreshed, Worked, Reconstructed, Ended
<1>7. Pending'
  BY <1>0, RangeOfTuple DEF Pending
<1> QED BY <1>2, <1>4, <1>5, <1>6, <1>7 DEF IInv

(* A decision of a run that records: it changes no file. *)
RecordingDecision ==
  /\ IInv /\ todo = <<>> /\ stage \in Recording /\ stage' \in Recording
  /\ Listing(todo') /\ Listing(queue')
  /\ source' = source /\ dir' = dir /\ mtime' = mtime /\ outcome' = outcome /\ seen' = seen
  /\ recorded' = recorded /\ cut' = cut

LEMMA RecordingFrame ==
  ASSUME RecordingDecision
  PROVE  Types' /\ Directory' /\ Replays'
<1>1. Directory'
  BY DirectoryFrame DEF RecordingDecision, IInv
<1>2. Types'
  <2>1. TypeOK'
    BY DEF RecordingDecision, IInv, Types, TypeOK, Recording, Usable
  <2>2. stage' \notin {"ended", "done", "launched"}
    BY DEF RecordingDecision, Recording
  <2>3. recorded # None /\ (\A n \in Names : seen[n] = None) /\ \A n \in recorded.backed : Usable(source[n])
    BY DEF RecordingDecision, IInv, Types
  <2> QED BY <2>1, <2>2, <2>3 DEF RecordingDecision, IInv, Types, Listing, Usable
<1>3. Replays'
  <2>1. \A n \in Names : seen'[n] = None
    BY DEF RecordingDecision, IInv, Types
  <2>2. stage' \notin {"refreshing", "working", "reconstructing", "done"}
    BY DEF RecordingDecision, Recording
  <2> QED BY <2>1, <2>2 DEF Replays, SeenKept, Refreshed, Worked, Reconstructed, Ended
<1> QED BY <1>1, <1>2, <1>3

LEMMA TracedWhenIdle ==
  ASSUME IInv, stage = "stopping", todo = <<>>
  PROVE  dir[TraceFile] = Whole(recorded) /\ format \in Formats
<1>1. format \in Formats /\ (todo = TraceWrites(recorded, format) \/ Claim(TraceFile, recorded))
  BY DEF IInv, Host, Traced
<1>2. todo # TraceWrites(recorded, format)
  <2>1. format \in {"text", "binary", "both"}
    BY <1>1, FormatsAssumption
  <2> QED BY <2>1 DEF TraceWrites
<1> QED BY <1>1, <1>2, ReadyClaims

LEMMA TagInv ==
  ASSUME IInv, Tag
  PROVE  IInv'
<1>n. PICK n : n = Head(queue)
  OBVIOUS
<1> DEFINE a == Put(ids(n), recorded.ids[n])
           b == Put(bin(n), Version(recorded, n))
<1>0. /\ stage \in {"tagging", "stopping"} /\ todo = <<>> /\ queue # <<>>
      /\ todo' = tag(recorded, n) /\ queue' = Tail(queue)
      /\ source' = source /\ dir' = dir /\ stage' = stage /\ format' = format /\ mtime' = mtime
      /\ outcome' = outcome /\ seen' = seen /\ recorded' = recorded /\ cut' = cut
  BY <1>n DEF Tag
<1>1. Listing(queue') /\ Range(queue) = {n} \cup Range(queue')
  BY <1>n, <1>0, ListingTail DEF IInv, Types
<1>2. n \in Tagged(recorded)
  BY <1>0, <1>1 DEF IInv, Host, Progress, Recording
<1>3. Listing(todo') /\ Range(todo') = {a, b} \cup (IF n \in recorded.backed THEN {TakeTime(n)} ELSE {})
  <2>1. todo' = IF n \in recorded.backed THEN <<a, b, TakeTime(n)>> ELSE <<a, b>>
    BY <1>0 DEF tag
  <2> HIDE DEF a, b
  <2>2. CASE n \in recorded.backed
    <3>1. todo' = <<a, b, TakeTime(n)>>
      BY <2>1, <2>2
    <3> QED BY <3>1, <2>2, RangeOfTuple
  <2>3. CASE n \notin recorded.backed
    <3>1. todo' = <<a, b>>
      BY <2>1, <2>3
    <3> QED BY <3>1, <2>3, RangeOfTuple
  <2> QED BY <2>2, <2>3
<1>4. RecordingDecision
  BY <1>0, <1>1, <1>3 DEF RecordingDecision, Recording
<1>5. Captured(n)'
  BY <1>0, <1>3 DEF Captured, Claim, Version, Put
<1>6. \A m : m \in Range(queue) \/ Captured(m) => m \in Range(queue') \/ Captured(m)'
  <2> SUFFICES ASSUME NEW m, m \in Range(queue) \/ Captured(m), m \notin Range(queue')
               PROVE Captured(m)'
    OBVIOUS
  <2>1. CASE m = n
    BY <2>1, <1>5
  <2>2. CASE m # n
    <3>1. Captured(m)
      BY <2>2, <1>1
    <3> QED BY <3>1, <1>0, CapturedKept
  <2> QED BY <2>1, <2>2
<1>7. Progress'
  <2>1. /\ \A m \in Range(recorded.inputs) \cup Range(recorded.keys) : m \in Range(queue') \/ Captured(m)'
        /\ stage = "stopping" => \A m \in Range(recorded.precompute) : m \in Range(queue') \/ Captured(m)'
    BY <1>0, <1>6 DEF IInv, Host, Progress, Recording
  <2>2. stage = "stopping" => \A p \in Range(recorded.probes) : Claim(template(p), recorded.towers[p])'
    BY <1>0, TemplatesKept DEF IInv, Host, Progress, Recording
  <2>3. Range(queue') \subseteq Tagged(recorded)
    BY <1>0, <1>1 DEF IInv, Host, Progress, Recording
  <2>4. ~IsWhole(inputs_json)' /\ ~Finished'
    BY <1>0 DEF IInv, Host, Progress, Recording, Finished, IsWhole
  <2> QED BY <1>0, <2>1, <2>2, <2>3, <2>4 DEF Progress, Tagged
<1>8. Traced'
  <2> SUFFICES ASSUME stage = "stopping"
               PROVE  /\ format \in Formats /\ Create(fhetch) \notin Range(todo')
                      /\ dir'[TraceFile'] = Whole(recorded)
    BY <1>0 DEF Traced, Claim
  <2>1. TraceFile' = TraceFile
    BY <1>0 DEF TraceFile
  <2>2. \A s \in Range(todo') : s # Create(fhetch)
    BY <1>3 DEF Create, Put, TakeTime
  <2> QED BY <1>0, <2>1, <2>2, TracedWhenIdle
<1>9. Indexed'
  BY <1>0 DEF Indexed
<1>10. Pending'
  <2>1. \A s \in Range(todo') : CaptureStep(s)'
    BY <1>0, <1>2, <1>3 DEF CaptureStep, Tagged, Version
  <2> QED BY <1>0, <2>1 DEF Pending
<1> QED BY <1>4, <1>7, <1>8, <1>9, <1>10, RecordingFrame DEF IInv, Host

LEMMA TagProbesInv ==
  ASSUME IInv, TagProbes
  PROVE  IInv'
<1>0. /\ stage = "tagging" /\ todo = <<>> /\ queue = <<>> /\ stage' = "probing"
      /\ todo' = [i \in DOMAIN recorded.probes |->
                    Put(template(recorded.probes[i]), recorded.towers[recorded.probes[i]])]
      /\ source' = source /\ dir' = dir /\ mtime' = mtime /\ queue' = queue
      /\ outcome' = outcome /\ seen' = seen /\ recorded' = recorded /\ cut' = cut
  BY DEF TagProbes
<1>1. recorded \in Programs /\ Range(queue) = {} /\ recorded.probes \in Seq(Probes)
  BY <1>0, RangeOfTuple, ProgramsAssumption DEF IInv, Types, Recording
<1>2. Range(todo') = {Put(template(p), recorded.towers[p]) : p \in Range(recorded.probes)}
  BY <1>0 DEF Range
<1>3. Listing(todo')
  <2> DEFINE L == Len(recorded.probes)
             S == Range(todo')
  <2>1. L \in Nat /\ DOMAIN recorded.probes = 1 .. L
    BY <1>1
  <2>2. todo' = [i \in 1 .. L |-> todo'[i]] /\ \A i \in 1 .. L : todo'[i] \in S
    BY <1>0, <2>1 DEF Range
  <2> HIDE DEF L, S
  <2>3. todo' \in Seq(S)
    BY <2>1, <2>2
  <2> QED BY <2>3, ListingOf
<1>4. RecordingDecision
  BY <1>0, <1>3 DEF RecordingDecision, Recording, IInv, Types
<1>5. Progress'
  <2>1. \A m \in Range(recorded.inputs) \cup Range(recorded.keys) : Captured(m)'
    BY <1>0, <1>1, CapturedKept DEF IInv, Host, Progress, Recording
  <2>2. \A p \in Range(recorded.probes) : Claim(template(p), recorded.towers[p])'
    BY <1>0, <1>2 DEF Claim
  <2>3. ~IsWhole(inputs_json)' /\ ~Finished'
    BY <1>0 DEF IInv, Host, Progress, Recording, Finished, IsWhole
  <2> QED BY <1>0, <1>1, <2>1, <2>2, <2>3 DEF Progress
<1>6. Traced' /\ Indexed'
  BY <1>0 DEF Traced, Indexed
<1>7. Pending'
  BY <1>0, <1>2 DEF Pending, TemplateStep
<1> QED BY <1>4, <1>5, <1>6, <1>7, RecordingFrame DEF IInv, Host

LEMMA StopInv ==
  ASSUME IInv, NEW fmt \in Formats, Stop(fmt)
  PROVE  IInv'
<1>0. /\ stage = "probing" /\ todo = <<>> /\ stage' = "stopping" /\ format' = fmt
      /\ todo' = TraceWrites(recorded, fmt) /\ queue' = recorded.precompute
      /\ source' = source /\ dir' = dir /\ mtime' = mtime
      /\ outcome' = outcome /\ seen' = seen /\ recorded' = recorded /\ cut' = cut
  BY DEF Stop
<1>1. recorded \in Programs /\ Range(queue) = {}
  BY <1>0, RangeOfTuple DEF IInv, Types, Recording, Host, Progress
<1>2. Listing(queue') /\ Range(queue') = Range(recorded.precompute)
  BY <1>0, <1>1, ProgramsAssumption, ListingOf
<1>3. /\ Listing(todo')
      /\ \A s \in Range(todo') : \/ s \in {Create(fhetch), Put(fhetch, recorded), Put(fhex, recorded)}
                                 \/ fmt = "binary" /\ s = Unlink(fhetch)
  <2>1. CASE fmt = "text"
    <3>1. todo' = <<Create(fhetch), Put(fhetch, recorded)>>
      BY <1>0, <2>1 DEF TraceWrites
    <3> QED BY <3>1, RangeOfTuple
  <2>2. CASE fmt = "both"
    <3>1. todo' = <<Create(fhetch), Put(fhetch, recorded), Put(fhex, recorded)>>
      BY <1>0, <2>2 DEF TraceWrites
    <3> QED BY <3>1, RangeOfTuple
  <2>3. CASE fmt = "binary"
    <3>1. todo' = <<Create(fhetch), Put(fhex, recorded), Unlink(fhetch)>>
      BY <1>0, <2>3 DEF TraceWrites
    <3> QED BY <3>1, <2>3, RangeOfTuple
  <2> QED BY <2>1, <2>2, <2>3, FormatsAssumption
<1>4. RecordingDecision
  BY <1>0, <1>2, <1>3 DEF RecordingDecision, Recording
<1>5. Progress'
  <2>1. \A m \in Range(recorded.inputs) \cup Range(recorded.keys) : Captured(m)'
    BY <1>0, <1>1, CapturedKept DEF IInv, Host, Progress, Recording
  <2>2. \A p \in Range(recorded.probes) : Claim(template(p), recorded.towers[p])'
    BY <1>0, TemplatesKept DEF IInv, Host, Progress, Recording
  <2>3. ~IsWhole(inputs_json)' /\ ~Finished'
    BY <1>0 DEF IInv, Host, Progress, Recording, Finished, IsWhole
  <2> QED BY <1>0, <1>2, <2>1, <2>2, <2>3 DEF Progress, Tagged
<1>6. Traced' /\ Indexed'
  BY <1>0 DEF Traced, Indexed
<1>7. Pending'
  <2>1. \A s \in Range(todo') : TraceStep(s)'
    BY <1>0, <1>3 DEF TraceStep, Create, Put, Unlink
  <2> QED BY <1>0, <2>1 DEF Pending
<1> QED BY <1>4, <1>5, <1>6, <1>7, RecordingFrame DEF IInv, Host

LEMMA WriteReplayJsonInv ==
  ASSUME IInv, WriteReplayJson
  PROVE  IInv'
<1>0. /\ stage = "stopping" /\ todo = <<>> /\ queue = <<>> /\ stage' = "indexing" /\ format' = format
      /\ todo' = <<PutInputs, Put(outputs_json, OutputsOf(recorded)), Put(replay_json, TraceFile)>>
      /\ source' = source /\ dir' = dir /\ mtime' = mtime /\ queue' = queue
      /\ outcome' = outcome /\ seen' = seen /\ recorded' = recorded /\ cut' = cut
  BY DEF WriteReplayJson, TraceFile
<1>1. Range(queue) = {} /\ Listing(queue') /\ Listing(todo')
  BY <1>0, RangeOfTuple
<1>2. RecordingDecision
  BY <1>0, <1>1 DEF RecordingDecision, Recording
<1>3. ~IsWhole(inputs_json) /\ ~Finished
  BY <1>0 DEF IInv, Host, Progress, Recording
<1>4. Progress'
  <2>1. \A m \in Range(recorded.inputs) \cup Range(recorded.keys) \cup Range(recorded.precompute) : Captured(m)'
    BY <1>0, <1>1, CapturedKept DEF IInv, Host, Progress, Recording
  <2>2. \A p \in Range(recorded.probes) : Claim(template(p), recorded.towers[p])'
    BY <1>0, TemplatesKept DEF IInv, Host, Progress, Recording
  <2> QED BY <1>0, <1>1, <2>1, <2>2 DEF Progress, Recording
<1>5. TraceFile' = TraceFile
  BY <1>0 DEF TraceFile
<1>6. Traced'
  BY <1>0, <1>5, TracedWhenIdle DEF Traced
<1>7. Indexed'
  BY <1>0, <1>3, <1>5 DEF Indexed, Indices, LastStep, PutInputs, Finished, IsWhole, OutputsOf, Put
<1>8. Pending'
  BY <1>0 DEF Pending
<1> QED BY <1>2, <1>4, <1>6, <1>7, <1>8, RecordingFrame DEF IInv, Host

-----------------------------------------------------------------------------
(* A run that replays *)

(* A decision of a run that replays: it changes no file. *)
ReplayDecision ==
  /\ IInv /\ todo = <<>>
  /\ source' = source /\ dir' = dir /\ mtime' = mtime /\ recorded' = recorded /\ cut' = cut
  /\ \/ /\ stage' \in {"refreshing", "working", "reconstructing"} /\ recorded # None
        /\ outcome' = outcome /\ outcome = "none" /\ Listing(todo') /\ Listing(queue')
     \/ stage' = "done" /\ outcome' \in {"true", "false"} /\ todo' = <<>> /\ queue' = <<>>

LEMMA ReplayFrame ==
  ASSUME ReplayDecision, seen' = seen
  PROVE  Types' /\ Directory' /\ Host'
<1>1. Directory'
  BY DirectoryFrame DEF ReplayDecision, IInv
<1>2. stage' \in {"refreshing", "working", "reconstructing", "done"}
  BY DEF ReplayDecision
<1>3. Host'
  BY <1>2 DEF Host, Progress, Traced, Indexed, Recording
<1>4. TypeOK'
  BY DEF ReplayDecision, IInv, Types, TypeOK, Recording, Usable
<1>5. Listing(todo') /\ Listing(queue')
  BY RangeOfTuple DEF ReplayDecision
<1>6. stage' \in {"ended", "done"} => todo' = <<>> /\ queue' = <<>>
  BY <1>2 DEF ReplayDecision
<1>7. stage' # "done" => recorded # None
  BY <1>2 DEF ReplayDecision
<1>8. Types'
  BY <1>2, <1>4, <1>5, <1>6, <1>7 DEF ReplayDecision, IInv, Types, Recording, Listing
<1> QED BY <1>1, <1>3, <1>8

LEMMA NotYet ==
  ASSUME Types, stage \in {"launched", "refreshing", "working", "reconstructing"} \cup Recording
  PROVE  outcome = "none"
  BY DEF Types, TypeOK, Recording

LEMMA ReplayInv ==
  ASSUME IInv, Replay
  PROVE  IInv'
<1>0. /\ todo = <<>> /\ stage \in {"launched", "indexing"}
      /\ source' = source /\ dir' = dir /\ mtime' = mtime /\ seen' = seen /\ recorded' = recorded /\ cut' = cut
  BY DEF Replay
<1>1. outcome = "none" /\ \A n \in Names : seen[n] = None
  BY <1>0, NotYet DEF IInv, Types, Recording
<1>2. CASE existing_trace_path
  <2>1. /\ stage' = "refreshing" /\ outcome' = outcome /\ todo' = todo
        /\ queue' = IF IsWhole(inputs_json) THEN dir[inputs_json].data ELSE <<>>
    BY <1>2 DEF Replay
  <2>2. recorded # None
    <3>1. dir[fhetch] # Absent \/ dir[fhex] # Absent
      BY <1>2 DEF existing_trace_path, Exists, Absent
    <3> QED BY <3>1, FilesThere DEF IInv, Directory, Contents
  <2>3. Listing(queue') /\ Listing(todo')
    BY <1>0, <2>1, RangeOfTuple DEF IInv, Directory, InputsListed
  <2>4. ReplayDecision
    BY <1>0, <1>1, <2>1, <2>2, <2>3 DEF ReplayDecision
  <2>5. Replays'
    BY <1>0, <1>1, <2>1 DEF Replays, SeenKept, Refreshed, Worked, Reconstructed, Ended, IsWhole
  <2>6. Pending'
    BY <1>0, <2>1, RangeOfTuple DEF Pending
  <2> QED BY <1>0, <2>4, <2>5, <2>6, ReplayFrame DEF IInv
<1>3. CASE ~existing_trace_path
  <2>1. stage' = "done" /\ outcome' = "false" /\ todo' = <<>> /\ queue' = <<>>
    BY <1>3 DEF Replay, Ends
  <2>2. ~Finished
    BY <1>3 DEF IInv, Directory, InPlace, existing_trace_path, Exists, Whole
  <2>3. ReplayDecision
    BY <1>0, <2>1 DEF ReplayDecision
  <2>4. Excused'
    BY <1>0, <2>2 DEF Excused, Finished, IsWhole
  <2>5. Replays'
    BY <1>0, <1>1, <2>1, <2>4 DEF Replays, SeenKept, Refreshed, Worked, Reconstructed, Ended
  <2>6. Pending'
    BY <2>1, RangeOfTuple DEF Pending
  <2> QED BY <1>0, <2>3, <2>5, <2>6, ReplayFrame DEF IInv
<1> QED BY <1>2, <1>3

(* The addresses on disk are those recorded, or none. *)
LEMMA IdsRead ==
  ASSUME IInv, recorded # None, NEW n \in Names
  PROVE  read_ids(n) \in {recorded.ids[n], <<>>} /\ (IsWhole(ids(n)) => read_ids(n) = recorded.ids[n])
         /\ (read_ids(n) # <<>> => n \in Tagged(recorded))
<1>1. dir[ids(n)] = Absent \/ (n \in Tagged(recorded) /\ dir[ids(n)] \in {Empty, Whole(recorded.ids[n])})
  BY DEF IInv, Directory, Contents, IdsKept
<1> QED BY <1>1 DEF read_ids, IsWhole, Absent, Empty, Whole

LEMMA RefreshInputInv ==
  ASSUME IInv, RefreshInput
  PROVE  IInv'
<1>e. PICK e : e = Head(queue)
  OBVIOUS
<1>n. PICK n : n = e.name
  OBVIOUS
<1> DEFINE addrs == read_ids(n)
           unchanged == source[n] = e.mtime
           reload == /\ e.mtime # None /\ ~unchanged
                     /\ addrs # <<>> /\ Usable(source[n]) /\ Len(addrs) = Len(recorded.ids[n])
           look == e.mtime # None /\ (unchanged \/ reload)
<1>0. /\ stage = "refreshing" /\ todo = <<>> /\ queue # <<>> /\ queue' = Tail(queue)
      /\ seen' = [seen EXCEPT ![n] = IF look THEN source[n] ELSE None]
      /\ todo' = IF reload THEN <<Put(ids(n), addrs), Put(bin(n), source[n])>> ELSE <<>>
      /\ source' = source /\ dir' = dir /\ stage' = stage /\ mtime' = mtime /\ outcome' = outcome
      /\ recorded' = recorded /\ cut' = cut
  BY <1>e, <1>n DEF RefreshInput
<1>1. /\ Listing(queue') /\ e \in Range(queue) /\ Range(queue') \subseteq Range(queue)
      /\ recorded # None /\ recorded \in Programs /\ IsWhole(inputs_json)
      /\ Range(queue) \subseteq Range(dir[inputs_json].data)
  BY <1>e, <1>0, ListingTail DEF IInv, Types, Recording, Replays, Refreshed
<1>2. PICK i \in DOMAIN recorded.inputs : e = dir[inputs_json].data[i]
  BY <1>1 DEF Range, IInv, Directory, InputsListed
<1>3. n = recorded.inputs[i] /\ Entry(e, n)
  BY <1>1, <1>2, <1>n DEF IInv, Directory, InputsListed, Entry
<1>4. n \in Names /\ n \in Tagged(recorded)
  <2>1. n \in Range(recorded.inputs)
    BY <1>3 DEF Range
  <2> QED BY <2>1, <1>1, ProgramFacts
<1>5. e.mtime # None => n \in recorded.backed /\ n \in Backed /\ Dated(n, e.mtime)
  BY <1>1, <1>3, ProgramFacts DEF Entry
<1>6. reload => addrs = recorded.ids[n]
  BY <1>1, <1>4, IdsRead
<1>7. n \in Backed => source[n] \in Versions /\ source[n] \in Nat
  BY DEF IInv, Types, TypeOK, Versions
<1>8. e.mtime # None /\ unchanged => dir[bin(n)] = Whole(source[n]) /\ Usable(source[n])
  <2> SUFFICES ASSUME e.mtime # None, unchanged PROVE dir[bin(n)] = Whole(source[n]) /\ Usable(source[n])
    OBVIOUS
  <2>1. IsWhole(bin(n)) /\ Usable(source[n])
    BY <1>5, <1>7 DEF Dated
  <2>2. PICK v \in Versions : dir[bin(n)] = Whole(v) /\ v <= source[n]
    BY <2>1, <1>1, <1>4, <1>5 DEF IInv, Directory, Contents, BinKept, Holds
  <2>3. source[n] <= v
    BY <2>2, <1>5 DEF Dated
  <2>4. v = source[n]
    BY <2>2, <2>3, <1>5, <1>7 DEF Versions
  <2> QED BY <2>1, <2>2, <2>4
<1>9. reload => Overdue(n, source[n])
  <2> SUFFICES ASSUME reload, NEW j \in DOMAIN recorded.inputs, recorded.inputs[j] = n
               PROVE  dir[inputs_json].data[j].mtime < source[n]
    BY DEF Overdue
  <2>1. j = i
    BY <1>1, <1>3, ProgramsAssumption DEF IsInjective
  <2>2. e.mtime \in Nat /\ e.mtime <= source[n] /\ e.mtime # source[n]
    BY <1>5 DEF Dated, Versions
  <2> QED BY <2>1, <2>2, <1>2, <1>5, <1>7
<1>10. /\ Listing(todo')
       /\ ~reload => Range(todo') = {}
       /\ reload => Range(todo') = {Put(ids(n), recorded.ids[n]), Put(bin(n), source[n])}
  <2>1. CASE reload
    <3>1. todo' = <<Put(ids(n), recorded.ids[n]), Put(bin(n), source[n])>>
      BY <2>1, <1>0, <1>6
    <3> QED BY <2>1, <3>1, RangeOfTuple
  <2>2. CASE ~reload
    <3>1. todo' = <<>>
      BY <2>2, <1>0
    <3> QED BY <2>2, <3>1, RangeOfTuple
  <2> QED BY <2>1, <2>2
<1>11. /\ look => n \in Backed /\ Usable(source[n]) /\ source[n] \in Versions
       /\ look => dir[bin(n)] = Whole(source[n]) \/ Put(bin(n), source[n]) \in Range(todo')
  BY <1>5, <1>7, <1>8, <1>10
<1> HIDE DEF addrs, unchanged, reload, look
<1>12. seen' \in [Names -> Versions \cup {None}]
  BY <1>0, <1>4, <1>11 DEF IInv, Types
<1>13. \A m \in Names : seen'[m] = IF m = n THEN (IF look THEN source[n] ELSE None) ELSE seen[m]
  BY <1>0 DEF IInv, Types
<1>14. Types'
  <2>1. \A m \in Names : seen'[m] # None => m \in Backed /\ Usable(seen'[m])
    BY <1>11, <1>13 DEF IInv, Types, TypeOK
  <2>2. TypeOK'
    BY <1>0, <2>1 DEF IInv, Types, TypeOK, Usable
  <2> QED BY <1>0, <1>1, <1>10, <1>12, <2>2 DEF IInv, Types, Recording, Listing
<1>15. Directory'
  BY <1>0, DirectoryFrame DEF IInv
<1>16. Host'
  BY <1>0 DEF Host, Progress, Traced, Indexed, Recording
<1>17. SeenKept'
  <2> SUFFICES ASSUME NEW m \in Names, seen'[m] # None
               PROVE  dir'[bin(m)] = Whole(seen'[m]) \/ Put(bin(m), seen'[m]) \in Range(todo')
    BY DEF SeenKept, Claim, Whole, Put
  <2>1. CASE m = n
    BY <2>1, <1>0, <1>11, <1>13
  <2>2. CASE m # n
    <3>1. Claim(bin(m), seen[m])
      BY <2>2, <1>0, <1>13 DEF IInv, Replays, SeenKept
    <3> QED BY <2>2, <3>1, <1>0, <1>13, ReadyClaims
  <2> QED BY <2>1, <2>2
<1>18. Replays'
  BY <1>0, <1>1, <1>17 DEF Replays, Refreshed, Worked, Reconstructed, Ended, IsWhole
<1>19. Pending'
  <2>1. reload => n \in recorded.backed /\ source[n] \in Versions /\ source[n] <= source[n]
    BY <1>5, <1>7 DEF reload
  <2>2. reload => seen'[n] = source[n]
    BY <1>4, <1>13 DEF reload, look
  <2>3. ASSUME NEW s \in Range(todo') PROVE RefreshStep(s)'
    <3>1. reload /\ s \in {Put(ids(n), recorded.ids[n]), Put(bin(n), source[n])}
      BY <1>10
    <3>2. Overdue(n, source[n])'
      BY <1>0, <1>9, <3>1 DEF Overdue
    <3> QED BY <1>0, <1>1, <2>1, <2>2, <3>1, <3>2 DEF RefreshStep, IsWhole, Put, Whole
  <2> QED BY <1>0, <2>3 DEF Pending
<1> QED BY <1>14, <1>15, <1>16, <1>18, <1>19 DEF IInv

-----------------------------------------------------------------------------
(* What the worker loads *)

LEMMA TraceIsRecorded ==
  ASSUME IInv, Finished
  PROVE  Traces = {recorded} /\ recorded \in Programs /\ recorded # None
<1>1. PICK f \in {fhetch, fhex} : dir[replay_json] = Whole(f) /\ dir[f] = Whole(recorded)
  BY DEF IInv, Directory, InPlace
<1>2. dir[replay_json].data = f /\ IsWhole(f) /\ dir[f].data = recorded /\ dir[f].state # "part"
  BY <1>1 DEF Whole, IsWhole
<1>3. recorded \in Programs /\ recorded # None
  BY DEF IInv, Types, Directory, InPlace
<1> QED BY <1>2, <1>3 DEF Traces, Finished

LEMMA InputFilesAreRecorded ==
  ASSUME IInv, Finished
  PROVE  /\ InputFiles = recorded.inputs /\ IsWhole(inputs_json) /\ Exists(inputs_json)
         /\ Loaded = recorded.inputs \o KeyFiles
<1>1. IsWhole(inputs_json) /\ Exists(inputs_json) /\ recorded \in Programs
  BY TraceIsRecorded DEF IInv, Directory, InPlace, IsWhole, Exists
<1>2. /\ DOMAIN dir[inputs_json].data = DOMAIN recorded.inputs
      /\ \A i \in DOMAIN recorded.inputs : dir[inputs_json].data[i].name = recorded.inputs[i]
  BY <1>1 DEF IInv, Directory, InputsListed, Entry
<1>3. recorded.inputs = [i \in DOMAIN recorded.inputs |-> recorded.inputs[i]]
  BY <1>1, ProgramsAssumption
<1>4. InputFiles = recorded.inputs
  BY <1>1, <1>2, <1>3 DEF InputFiles
<1> QED BY <1>1, <1>4 DEF Loaded

(* One file for each name. *)
LEMMA LoadedOnce ==
  ASSUME NEW prog \in Programs
  PROVE  /\ prog.inputs \o KeyFiles \in Seq(Names)
         /\ Range(prog.inputs \o KeyFiles) = Range(prog.inputs) \cup Range(KeyFiles)
         /\ IsInjective(prog.inputs \o KeyFiles)
<1> DEFINE K == Range(KeyFiles)
           s == prog.inputs
           t == KeyFiles
<1>1. s \in Seq(Names \ K) /\ IsInjective(s)
  BY ProgramsAssumption
<1>2. t \in Seq(K) /\ Len(t) = 3 /\ IsInjective(t) /\ \A i \in DOMAIN t : t[i] \in K
  <2>1. K = {"mk", "rk", "bp"}
    BY RangeOfTuple DEF KeyFiles
  <2> QED BY <2>1 DEF KeyFiles, IsInjective
<1>3. s \in Seq(Names) /\ t \in Seq(Names)
  BY <1>1, <1>2, NamesAssumption
<1>4. IsInjective(s \o t)
  <2> HIDE DEF s, t, K
  <2> SUFFICES ASSUME NEW i \in 1 .. Len(s) + Len(t), NEW j \in 1 .. Len(s) + Len(t), (s \o t)[i] = (s \o t)[j]
               PROVE  i = j
    BY <1>3 DEF IsInjective
  <2>1. \A k \in 1 .. Len(s) + Len(t) :
          \/ k \in DOMAIN s /\ (s \o t)[k] = s[k] /\ s[k] \notin K
          \/ k > Len(s) /\ k - Len(s) \in DOMAIN t /\ (s \o t)[k] = t[k - Len(s)] /\ t[k - Len(s)] \in K
    <3> SUFFICES ASSUME NEW k \in 1 .. Len(s) + Len(t)
                 PROVE \/ k \in DOMAIN s /\ (s \o t)[k] = s[k] /\ s[k] \notin K
                       \/ k > Len(s) /\ k - Len(s) \in DOMAIN t /\ (s \o t)[k] = t[k - Len(s)] /\ t[k - Len(s)] \in K
      OBVIOUS
    <3>0. Len(s) \in Nat /\ Len(t) \in Nat /\ DOMAIN s = 1 .. Len(s) /\ DOMAIN t = 1 .. Len(t)
      BY <1>3
    <3>1. CASE k <= Len(s)
      <4>1. k \in DOMAIN s /\ (s \o t)[k] = s[k]
        BY <1>3, <3>0, <3>1
      <4> QED BY <4>1, <1>1
    <3>2. CASE k > Len(s)
      <4>1. k - Len(s) \in DOMAIN t /\ (s \o t)[k] = t[k - Len(s)]
        BY <1>3, <3>0, <3>2
      <4> QED BY <4>1, <3>2, <1>2
    <3> QED BY <3>0, <3>1, <3>2
  <2>2. CASE i \in DOMAIN s /\ j \in DOMAIN s /\ s[i] = s[j]
    BY <1>1, <2>2 DEF IsInjective
  <2>3. CASE /\ i - Len(s) \in DOMAIN t /\ j - Len(s) \in DOMAIN t
             /\ t[i - Len(s)] = t[j - Len(s)]
    <3>1. i - Len(s) = j - Len(s)
      BY <1>2, <2>3 DEF IsInjective
    <3> QED BY <3>1, <1>1
  <2> QED BY <2>1, <2>2, <2>3
<1> QED BY <1>3, <1>4, RangeConcat

(* An address is loaded from one place: the one the program gave it. *)
Gives(j, i, a) ==
  /\ j \in DOMAIN Loaded /\ Loaded[j] \in Tagged(recorded)
  /\ i \in DOMAIN recorded.ids[Loaded[j]] /\ recorded.ids[Loaded[j]][i] = a

LEMMA PlaceIsRecorded ==
  ASSUME IInv, Finished, NEW a, NEW h \in Places(a)
  PROVE  \E j, i : h = <<j, i>> /\ Gives(j, i, a)
<1>1. recorded \in Programs /\ recorded # None
  BY TraceIsRecorded
<1>2. PICK j \in DOMAIN Loaded : h \in {j} \X {i \in DOMAIN read_ids(Loaded[j]) : read_ids(Loaded[j])[i] = a}
  BY DEF Places
<1>3. PICK i \in DOMAIN read_ids(Loaded[j]) : h = <<j, i>> /\ read_ids(Loaded[j])[i] = a
  BY <1>2
<1>4. Loaded[j] \in Names
  BY <1>1, LoadedOnce, InputFilesAreRecorded
<1>5. read_ids(Loaded[j]) # <<>>
  BY <1>3
<1>6. read_ids(Loaded[j]) = recorded.ids[Loaded[j]] /\ Loaded[j] \in Tagged(recorded)
  BY <1>1, <1>4, <1>5, IdsRead
<1> QED BY <1>3, <1>6 DEF Gives

LEMMA OnePlace ==
  ASSUME IInv, Finished, NEW a, NEW h \in Places(a)
  PROVE  LastPlace(a) = h
<1>1. recorded \in Programs
  BY TraceIsRecorded
<1>2. ASSUME NEW g \in Places(a) PROVE g = h
  <2>1. PICK j, i : h = <<j, i>> /\ Gives(j, i, a)
    BY PlaceIsRecorded
  <2>2. PICK l, k : g = <<l, k>> /\ Gives(l, k, a)
    BY PlaceIsRecorded
  <2>3. Loaded[j] = Loaded[l] /\ i = k
    BY <1>1, <2>1, <2>2, ProgramsAssumption DEF Gives
  <2>4. j = l
    BY <1>1, <2>1, <2>2, <2>3, LoadedOnce, InputFilesAreRecorded DEF IsInjective, Gives
  <2> QED BY <2>1, <2>2, <2>3, <2>4
<1>3. h[2] <= h[2]
  <2>1. PICK j, i : h = <<j, i>> /\ Gives(j, i, a)
    BY PlaceIsRecorded
  <2>2. i \in Nat
    BY <1>1, <2>1, ProgramsAssumption DEF Gives
  <2> QED BY <2>1, <2>2
<1>4. Places(a) = {h}
  BY <1>2
<1> QED BY <1>3, <1>4 DEF LastPlace

LEMMA StoredIsRecorded ==
  ASSUME IInv, Finished, BinsWhole, \A a \in recorded.live_in : Places(a) # {}
  PROVE  Stored(recorded) = Inputs(recorded, CurrentVersions)
<1>0. recorded \in Programs
  BY TraceIsRecorded
<1> SUFFICES ASSUME NEW a \in recorded.live_in
             PROVE  Stored(recorded)[a] = Inputs(recorded, CurrentVersions)[a]
  BY DEF Stored, Inputs
<1>1. PICK h \in Places(a) : TRUE
  OBVIOUS
<1>2. PICK j, i : h = <<j, i>> /\ Gives(j, i, a)
  BY PlaceIsRecorded
<1>3. PICK n : n = Loaded[j]
  OBVIOUS
<1>4. Stored(recorded)[a] = Polynomial(n, dir[bin(n)].data, i)
  <2>1. LastPlace(a) = <<j, i>> /\ Places(a) # {}
    BY <1>1, <1>2, OnePlace
  <2> QED BY <2>1, <1>3 DEF Stored
<1>5. n \in Tagged(recorded) /\ i \in DOMAIN recorded.ids[n] /\ recorded.ids[n][i] = a
  BY <1>2, <1>3 DEF Gives
<1>6. \A m \in Tagged(recorded) : \A k \in DOMAIN recorded.ids[m] : recorded.ids[m][k] = a => m = n /\ k = i
  BY <1>0, <1>5, ProgramsAssumption
<1>7. n = CHOOSE m \in Tagged(recorded) : a \in Range(recorded.ids[m])
  <2>1. \E m \in Tagged(recorded) : a \in Range(recorded.ids[m])
    BY <1>5 DEF Range
  <2>2. \A m \in Tagged(recorded) : a \in Range(recorded.ids[m]) => m = n
    BY <1>6 DEF Range
  <2> QED BY <2>1, <2>2
<1>8. i = CHOOSE k \in DOMAIN recorded.ids[n] : recorded.ids[n][k] = a
  BY <1>5, <1>6
<1>9. Inputs(recorded, CurrentVersions)[a]
        = Polynomial(n, IF n \in recorded.backed THEN CurrentVersions[n] ELSE 1, i)
  BY <1>7, <1>8 DEF Inputs
<1>10. dir[bin(n)].data = IF n \in recorded.backed THEN CurrentVersions[n] ELSE 1
  <2>1. CASE n \in recorded.backed
    BY <2>1 DEF CurrentVersions
  <2>2. CASE n \notin recorded.backed
    BY <2>2, <1>5 DEF IInv, Directory, InPlace, Whole
  <2> QED BY <2>1, <2>2
<1> QED BY <1>4, <1>9, <1>10

(* Everything there, and every input looked at: the worker loads it. *)
LEMMA EverythingLoads ==
  ASSUME IInv, stage = "refreshing", todo = <<>>, Finished,
         \A n \in Tagged(recorded) : IsWhole(ids(n)),
         \A n \in recorded.backed : seen[n] # None
  PROVE  populate_inputs(recorded)
<1>0. recorded \in Programs /\ recorded # None
  BY TraceIsRecorded
<1>1. \A n \in Tagged(recorded) : n \in Names /\ IsWhole(bin(n)) /\ Present(n) /\ read_ids(n) = recorded.ids[n]
  <2> SUFFICES ASSUME NEW n \in Tagged(recorded)
               PROVE  n \in Names /\ IsWhole(bin(n)) /\ Present(n) /\ read_ids(n) = recorded.ids[n]
    OBVIOUS
  <2>1. n \in Names
    BY <1>0, ProgramFacts
  <2>2. IsWhole(bin(n))
    <3>1. CASE n \in recorded.backed
      <4>1. Claim(bin(n), seen[n])
        BY <3>1, <2>1 DEF IInv, Replays, SeenKept
      <4>2. dir[bin(n)] = Whole(seen[n])
        BY <4>1, ReadyClaims
      <4> QED BY <4>2 DEF IsWhole, Whole
    <3>2. CASE n \notin recorded.backed
      BY <3>2 DEF IInv, Directory, InPlace, IsWhole, Whole
    <3> QED BY <3>1, <3>2
  <2>3. read_ids(n) = recorded.ids[n]
    BY <1>0, <2>1, IdsRead
  <2> QED BY <2>1, <2>2, <2>3 DEF Present, Exists, IsWhole
<1>2. Loads
  <2>1. \A n \in Range(InputFiles) : Present(n) /\ IsWhole(bin(n))
    BY <1>0, <1>1, InputFilesAreRecorded, ProgramFacts
  <2>2. ASSUME NEW k \in Range(KeyFiles), Present(k) PROVE IsWhole(bin(k))
    <3>1. k \in Names
      BY NamesAssumption
    <3>2. k \in Tagged(recorded)
      BY <1>0, <2>2, <3>1 DEF Present, Exists, Absent, IInv, Directory, Contents, IdsKept
    <3> QED BY <3>2, <1>1
  <2> QED BY <2>1, <2>2, InputFilesAreRecorded DEF Loads
<1>3. ASSUME NEW a \in recorded.live_in PROVE Places(a) # {}
  <2>1. PICK n \in Tagged(recorded) : a \in Range(recorded.ids[n])
    BY <1>0, ProgramsAssumption
  <2>2. PICK i \in DOMAIN recorded.ids[n] : recorded.ids[n][i] = a
    BY <2>1 DEF Range
  <2>3. n \in Range(Loaded)
    <3>1. Range(recorded.keys) \subseteq Range(KeyFiles) /\ Range(recorded.precompute) \subseteq Range(KeyFiles)
      BY <1>0, ProgramsAssumption, ListingOf
    <3>2. Range(Loaded) = Range(recorded.inputs) \cup Range(KeyFiles)
      BY <1>0, LoadedOnce, InputFilesAreRecorded
    <3> QED BY <3>1, <3>2 DEF Tagged
  <2>4. PICK j \in DOMAIN Loaded : Loaded[j] = n
    BY <2>3 DEF Range
  <2>5. Present(Loaded[j]) /\ i \in DOMAIN read_ids(Loaded[j]) /\ read_ids(Loaded[j])[i] = a
    BY <1>1, <2>2, <2>4
  <2>6. <<j, i>> \in {j} \X {k \in DOMAIN read_ids(Loaded[j]) : read_ids(Loaded[j])[k] = a}
    BY <2>5
  <2>7. <<j, i>> \in Places(a)
    BY <2>5, <2>6 DEF Places
  <2> QED BY <2>7
<1> QED BY <1>2, <1>3 DEF populate_inputs

LEMMA SeenStays ==
  ASSUME IInv, stage # "ended", todo = <<>>, dir' = dir, seen' = seen
  PROVE  SeenKept'
<1> SUFFICES ASSUME NEW n \in Names, seen[n] # None PROVE dir[bin(n)] = Whole(seen[n])
  BY DEF SeenKept, Claim, Whole
<1>1. Claim(bin(n), seen[n])
  BY DEF IInv, Replays, SeenKept
<1> QED BY <1>1, ReadyClaims

-----------------------------------------------------------------------------
(* The worker *)

LEMMA WorkerInv ==
  ASSUME IInv, Worker
  PROVE  IInv'
<1> DEFINE outputs == dir[outputs_json].data
           written(trace) == [i \in DOMAIN outputs |->
                                [name |-> outputs[i].name,
                                 values |-> [k \in DOMAIN outputs[i].addrs |->
                                               Value(trace, Stored(trace), outputs[i].addrs[k])]]]
           succeeds(trace) == trace # None /\ populate_inputs(trace) /\ IsWhole(outputs_json)
<1>0. /\ stage = "refreshing" /\ todo = <<>> /\ queue = <<>>
      /\ source' = source /\ dir' = dir /\ mtime' = mtime /\ seen' = seen /\ recorded' = recorded /\ cut' = cut
  BY DEF Worker
<1>1. outcome = "none" /\ recorded # None
  BY <1>0, NotYet DEF IInv, Types
<1>2. SeenKept'
  BY <1>0, SeenStays
<1>3. PICK t \in Traces :
        IF succeeds(t)
        THEN stage' = "working" /\ todo' = <<Put(replay_outputs, written(t))>> /\ UNCHANGED <<outcome, queue>>
        ELSE Ends("false")
  BY DEF Worker
<1>4. CASE succeeds(t)
  <2>1. stage' = "working" /\ todo' = <<Put(replay_outputs, written(t))>> /\ outcome' = outcome /\ queue' = queue
    BY <1>4, <1>3
  <2>2. Finished
    BY <1>4, <1>3 DEF Traces, Finished
  <2>3. t = recorded /\ recorded \in Programs
    BY <1>3, <2>2, TraceIsRecorded
  <2>4. BinsWhole
    BY <1>4, <2>2, <2>3, InputFilesAreRecorded, ProgramFacts DEF populate_inputs, Loads, BinsWhole
  <2>5. Stored(t) = Inputs(recorded, CurrentVersions)
    <3>1. \A a \in recorded.live_in : Places(a) # {}
      BY <1>4, <2>3 DEF populate_inputs
    <3> QED BY <3>1, <2>2, <2>3, <2>4, StoredIsRecorded
  <2>6. written(t) = ResultList
    <3>1. outputs = OutputsOf(recorded)
      BY <2>2 DEF IInv, Directory, InPlace, Whole
    <3>2. DOMAIN outputs = DOMAIN recorded.probes
      BY <3>1 DEF OutputsOf
    <3>3. ASSUME NEW i \in DOMAIN recorded.probes PROVE written(t)[i] = ResultOf(recorded.probes[i])
      <4>1. outputs[i].name = recorded.probes[i] /\ outputs[i].addrs = recorded.outputs[recorded.probes[i]]
        BY <3>1 DEF OutputsOf
      <4> QED BY <2>3, <2>5, <3>2, <4>1 DEF ResultOf
    <3> QED BY <3>2, <3>3 DEF ResultList
  <2> HIDE DEF written, outputs, succeeds
  <2>7. Listing(todo') /\ Listing(queue')
    BY <1>0, <2>1, RangeOfTuple
  <2>8. ReplayDecision
    BY <1>0, <1>1, <2>1, <2>7 DEF ReplayDecision
  <2>9. Finished' /\ BinsWhole' /\ ResultList' = ResultList
    BY <1>0, <2>2, <2>4, ResultsFrame DEF Finished, IsWhole
  <2>10. Worked'
    BY <2>1, <2>6, <2>9 DEF Worked, Put
  <2>11. Replays'
    BY <1>2, <2>1, <2>10 DEF Replays, Refreshed, Reconstructed, Ended
  <2>12. Pending'
    BY <2>1 DEF Pending
  <2> QED BY <1>0, <2>8, <2>11, <2>12, ReplayFrame DEF IInv
<1>5. CASE ~succeeds(t)
  <2>1. stage' = "done" /\ outcome' = "false" /\ todo' = <<>> /\ queue' = <<>>
    BY <1>5, <1>3 DEF Ends
  <2>2. Excused
    <3> SUFFICES ASSUME Finished, \A n \in Tagged(recorded) : IsWhole(ids(n)), \A n \in recorded.backed : seen[n] # None
                 PROVE  FALSE
      BY DEF Excused
    <3>1. t = recorded /\ IsWhole(outputs_json)
      BY <1>3, TraceIsRecorded DEF IInv, Directory, InPlace, IsWhole, Whole
    <3>2. populate_inputs(recorded)
      BY <1>0, EverythingLoads
    <3> QED BY <1>1, <1>5, <3>1, <3>2
  <2>3. ReplayDecision
    BY <1>0, <2>1 DEF ReplayDecision
  <2>4. Excused'
    BY <1>0, <2>2 DEF Excused, Finished, IsWhole, Complete, Tagged
  <2>5. Replays'
    BY <1>2, <2>1, <2>4 DEF Replays, Refreshed, Worked, Reconstructed, Ended
  <2>6. Pending'
    BY <2>1, RangeOfTuple DEF Pending
  <2> QED BY <1>0, <2>3, <2>5, <2>6, ReplayFrame DEF IInv
<1> QED BY <1>4, <1>5

LEMMA ReconstructInv ==
  ASSUME IInv, Reconstruct
  PROVE  IInv'
<1>0. /\ stage = "working" /\ todo = <<>>
      /\ source' = source /\ dir' = dir /\ mtime' = mtime /\ seen' = seen /\ recorded' = recorded /\ cut' = cut
  BY DEF Reconstruct
<1>1. outcome = "none" /\ recorded # None /\ recorded \in Programs
  BY <1>0, NotYet DEF IInv, Types
<1>2. SeenKept'
  BY <1>0, SeenStays
<1>3. Finished /\ BinsWhole /\ dir[replay_outputs] = Whole(ResultList)
  BY <1>0 DEF IInv, Replays, Worked
<1>4. CASE IsWhole(cryptocontext)
  <2>1. stage' = "reconstructing" /\ queue' = ResultList /\ outcome' = outcome /\ todo' = todo
    BY <1>3, <1>4 DEF Reconstruct, Whole
  <2>2. Range(ResultList) = {ResultOf(p) : p \in Range(recorded.probes)}
    BY DEF ResultList, Range
  <2>3. Listing(ResultList)
    <3> DEFINE L == Len(recorded.probes)
               S == Range(ResultList)
    <3>1. L \in Nat /\ DOMAIN recorded.probes = 1 .. L
      BY <1>1, ProgramsAssumption
    <3>2. ResultList = [i \in 1 .. L |-> ResultList[i]] /\ \A i \in 1 .. L : ResultList[i] \in S
      BY <3>1 DEF ResultList, Range
    <3> HIDE DEF L, S
    <3>3. ResultList \in Seq(S)
      BY <3>1, <3>2
    <3> QED BY <3>3, ListingOf
  <2>4. Listing(queue') /\ Listing(todo')
    BY <1>0, <2>1, <2>3, RangeOfTuple
  <2>5. ReplayDecision
    BY <1>0, <1>1, <2>1, <2>4 DEF ReplayDecision
  <2>6. Finished' /\ BinsWhole' /\ \A p : ResultOf(p)' = ResultOf(p)
    BY <1>0, <1>3, ResultsFrame DEF Finished, IsWhole
  <2>7. Reconstructed'
    <3>1. \A p \in Range(recorded.probes) : ResultOf(p)' \in Range(queue')
      BY <2>1, <2>2, <2>6
    <3>2. \A o \in Range(queue') : \E p \in Range(recorded.probes) : o = ResultOf(p)'
      BY <2>1, <2>2, <2>6
    <3> QED BY <1>0, <2>6, <3>1, <3>2 DEF Reconstructed
  <2>8. Replays'
    BY <1>2, <2>1, <2>7 DEF Replays, Refreshed, Worked, Ended
  <2>9. Pending'
    BY <1>0, <2>1, RangeOfTuple DEF Pending
  <2> QED BY <1>0, <2>5, <2>8, <2>9, ReplayFrame DEF IInv
<1>5. CASE ~IsWhole(cryptocontext)
  <2>1. stage' = "done" /\ outcome' = "false" /\ todo' = <<>> /\ queue' = <<>>
    BY <1>5 DEF Reconstruct, Ends
  <2>2. ReplayDecision
    BY <1>0, <2>1 DEF ReplayDecision
  <2>3. Excused'
    BY <1>0, <1>5 DEF Excused, IsWhole
  <2>4. Replays'
    BY <1>2, <2>1, <2>3 DEF Replays, Refreshed, Worked, Reconstructed, Ended
  <2>5. Pending'
    BY <2>1, RangeOfTuple DEF Pending
  <2> QED BY <1>0, <2>2, <2>4, <2>5, ReplayFrame DEF IInv
<1> QED BY <1>4, <1>5

(* A probe is written exactly if it is complete, with its ciphertext. *)
LEMMA FilledIsComplete ==
  ASSUME IInv, Finished, NEW p \in Range(recorded.probes)
  PROVE  /\ ~Broken(ResultOf(p))
         /\ Filled(ResultOf(p)) <=> Complete(recorded, p)
         /\ Complete(recorded, p) =>
              [i \in 1 .. dir[template(p)].data |-> ResultOf(p).values[i]] = Current(p)
<1> DEFINE V == ResultOf(p).values
           addrs == recorded.outputs[p]
           tw == recorded.towers[p]
           mem == Inputs(recorded, CurrentVersions)
<1>0. recorded \in Programs
  BY TraceIsRecorded
<1>1. dir[template(p)] = Whole(tw)
  BY DEF IInv, Directory, InPlace
<1>2. tw \in Nat \ {0} /\ addrs \in Seq(Nat)
  BY <1>0, ProgramsAssumption
<1>3. ResultOf(p).name = p /\ V = [k \in DOMAIN addrs |-> Value(recorded, mem, addrs[k])]
  BY DEF ResultOf
<1>4. DOMAIN addrs = 1 .. Len(addrs) /\ Len(addrs) \in Nat
  BY <1>2
<1>5. Len(V) = Len(addrs) /\ \A k \in 1 .. Len(addrs) : V[k] = Value(recorded, mem, addrs[k])
  <2> HIDE DEF V, addrs, mem
  <2>1. V = [k \in 1 .. Len(addrs) |-> Value(recorded, mem, addrs[k])]
    BY <1>3, <1>4
  <2> QED BY <2>1, <1>4
<1>6. \A k \in 1 .. Len(addrs) : V[k] # <<>> <=> addrs[k] \in recorded.computed
  <2> HIDE DEF V, addrs, mem
  <2> SUFFICES ASSUME NEW k \in 1 .. Len(addrs) PROVE V[k] # <<>> <=> addrs[k] \in recorded.computed
    OBVIOUS
  <2>1. V[k] = IF addrs[k] \in recorded.computed THEN <<addrs[k], mem>> ELSE <<>>
    BY <1>5 DEF Value
  <2>2. <<addrs[k], mem>> # <<>>
    OBVIOUS
  <2> QED BY <2>1, <2>2
<1>7. ~Broken(ResultOf(p))
  BY <1>1, <1>3 DEF Broken, IsWhole, Whole
<1>8. IsWhole(template(ResultOf(p).name)) /\ dir[template(ResultOf(p).name)].data = tw /\ dir[template(p)].data = tw
  BY <1>1, <1>3 DEF IsWhole, Whole
<1>9. Filled(ResultOf(p)) <=> V # <<>> /\ Len(V) >= tw /\ \A i \in 1 .. tw : V[i] # <<>>
  BY <1>8 DEF Filled, Listed
<1>10. Complete(recorded, p) <=> Len(addrs) >= tw /\ \A i \in 1 .. tw : addrs[i] \in recorded.computed
  BY DEF Complete
<1>11. Len(addrs) >= tw => \A i \in 1 .. tw : i \in 1 .. Len(addrs)
  BY <1>2, <1>4
<1>12. Len(V) >= tw => V # <<>>
  <2> HIDE DEF V, addrs, tw
  <2>1. V = <<>> => Len(V) = 0
    OBVIOUS
  <2> QED BY <2>1, <1>2, <1>4, <1>5
<1>13. Filled(ResultOf(p)) <=> Complete(recorded, p)
  <2> HIDE DEF V, addrs, tw
  <2> QED BY <1>5, <1>6, <1>9, <1>10, <1>11, <1>12
<1>14. ASSUME Complete(recorded, p)
       PROVE  [i \in 1 .. dir[template(p)].data |-> ResultOf(p).values[i]] = Current(p)
  <2>1. Current(p) = [i \in 1 .. tw |-> Value(recorded, mem, addrs[i])]
    BY DEF Current, Ciphertext
  <2>2. \A i \in 1 .. tw : V[i] = Value(recorded, mem, addrs[i])
    <3> HIDE DEF V, addrs, tw, mem
    <3> QED BY <1>5, <1>10, <1>11, <1>14
  <2>3. dir[template(p)].data = tw
    BY <1>8
  <2> HIDE DEF V, addrs, tw, mem
  <2>4. [i \in 1 .. tw |-> V[i]] = Current(p)
    BY <2>1, <2>2
  <2> QED BY <2>3, <2>4 DEF V
<1> QED BY <1>7, <1>13, <1>14

LEMMA ReconstructProbeInv ==
  ASSUME IInv, ReconstructProbe
  PROVE  IInv'
<1>o. PICK o : o = Head(queue)
  OBVIOUS
<1>0. /\ stage = "reconstructing" /\ todo = <<>> /\ queue # <<>>
      /\ source' = source /\ dir' = dir /\ mtime' = mtime /\ seen' = seen /\ recorded' = recorded /\ cut' = cut
  BY DEF ReconstructProbe
<1>1. outcome = "none" /\ recorded # None /\ recorded \in Programs
  BY <1>0, NotYet DEF IInv, Types
<1>2. SeenKept'
  BY <1>0, SeenStays
<1>3. Listing(Tail(queue)) /\ o \in Range(queue) /\ Range(queue) = {o} \cup Range(Tail(queue))
  BY <1>o, <1>0, ListingTail DEF IInv, Types
<1>4. /\ Finished /\ BinsWhole
      /\ \A r \in Range(queue) : \E p \in Range(recorded.probes) : r = ResultOf(p)
      /\ \A p \in Range(recorded.probes) :
           Complete(recorded, p) => ResultOf(p) \in Range(queue) \/ Claim(ct(p), Current(p))
  BY <1>0 DEF IInv, Replays, Reconstructed
<1>5. PICK p \in Range(recorded.probes) : o = ResultOf(p)
  BY <1>3, <1>4
<1>6. o.name = p /\ ~Broken(o) /\ (Filled(o) <=> Complete(recorded, p))
  BY <1>4, <1>5, FilledIsComplete DEF ResultOf
<1>7. /\ stage' = "reconstructing" /\ outcome' = outcome /\ queue' = Tail(queue)
      /\ todo' = IF Complete(recorded, p) THEN <<Put(ct(p), Current(p))>> ELSE <<>>
  <2>1. /\ queue' = Tail(queue) /\ stage' = stage /\ outcome' = outcome
        /\ todo' = IF Filled(o)
                   THEN <<Put(ct(o.name), [i \in 1 .. dir[template(o.name)].data |-> o.values[i]])>>
                   ELSE <<>>
    BY <1>o, <1>6 DEF ReconstructProbe
  <2>2. CASE Complete(recorded, p)
    <3>1. [i \in 1 .. dir[template(p)].data |-> o.values[i]] = Current(p)
      BY <1>4, <1>5, <2>2, FilledIsComplete
    <3> QED BY <1>0, <1>6, <2>1, <2>2, <3>1
  <2>3. CASE ~Complete(recorded, p)
    BY <1>0, <1>6, <2>1, <2>3
  <2> QED BY <2>2, <2>3
<1>8. /\ Listing(todo')
      /\ Complete(recorded, p) => Range(todo') = {Put(ct(p), Current(p))}
      /\ ~Complete(recorded, p) => Range(todo') = {}
  BY <1>7, RangeOfTuple
<1>9. ReplayDecision
  BY <1>0, <1>1, <1>3, <1>7, <1>8 DEF ReplayDecision
<1>10. Finished' /\ BinsWhole' /\ \A q : ResultOf(q)' = ResultOf(q) /\ Current(q)' = Current(q)
  BY <1>0, <1>4, ResultsFrame DEF Finished, IsWhole
<1>11. ASSUME NEW q \in Range(recorded.probes), Complete(recorded, q)
       PROVE  ResultOf(q)' \in Range(queue') \/ Claim(ct(q), Current(q))'
  <2>1. CASE ResultOf(q) \in Range(Tail(queue))
    BY <2>1, <1>7, <1>10
  <2>2. CASE ResultOf(q) = o
    <3>1. q = p
      BY <2>2, <1>6 DEF ResultOf
    <3> QED BY <3>1, <1>8, <1>10, <1>11 DEF Claim
  <2>3. CASE Claim(ct(q), Current(q))
    <3>1. dir'[ct(q)] = Whole(Current(q)')
      BY <2>3, <1>0, <1>10, ReadyClaims
    <3> QED BY <3>1 DEF Claim, Whole
  <2> QED BY <2>1, <2>2, <2>3, <1>3, <1>4, <1>11
<1>12. Reconstructed'
  <2>1. \A r \in Range(queue') : \E q \in Range(recorded.probes) : r = ResultOf(q)'
    BY <1>3, <1>4, <1>7, <1>10
  <2> QED BY <1>0, <1>10, <1>11, <2>1 DEF Reconstructed, Complete
<1>13. Replays'
  BY <1>2, <1>7, <1>12 DEF Replays, Refreshed, Worked, Ended
<1>14. Pending'
  <2>1. \A s \in Range(todo') : ResultStep(s)'
    BY <1>0, <1>8, <1>10 DEF ResultStep, Put, Whole, Complete
  <2> QED BY <1>7, <2>1 DEF Pending
<1> QED BY <1>0, <1>9, <1>13, <1>14, ReplayFrame DEF IInv

LEMMA FinishInv ==
  ASSUME IInv, Finish
  PROVE  IInv'
<1>0. /\ stage = "reconstructing" /\ todo = <<>> /\ queue = <<>>
      /\ stage' = "done" /\ todo' = <<>> /\ queue' = <<>>
      /\ outcome' = IF \E p \in Probes : Exists(ct(p)) THEN "true" ELSE "false"
      /\ source' = source /\ dir' = dir /\ mtime' = mtime /\ seen' = seen /\ recorded' = recorded /\ cut' = cut
  BY DEF Finish, Ends
<1>1. recorded # None /\ recorded \in Programs /\ Range(queue) = {}
  BY <1>0, RangeOfTuple DEF IInv, Types
<1>2. SeenKept'
  BY <1>0, SeenStays
<1>3. Finished /\ BinsWhole
      /\ \A p \in Range(recorded.probes) : Complete(recorded, p) => dir[ct(p)] = Whole(Current(p))
  BY <1>0, <1>1, ReadyClaims DEF IInv, Replays, Reconstructed
<1>4. Finished' /\ BinsWhole' /\ \A p : Current(p)' = Current(p)
  BY <1>0, <1>3, ResultsFrame DEF Finished, IsWhole
<1>5. outcome' = "false" => \A p \in Range(recorded.probes) : ~Complete(recorded, p)
  <2> SUFFICES ASSUME outcome' = "false", NEW p \in Range(recorded.probes), Complete(recorded, p) PROVE FALSE
    OBVIOUS
  <2>1. p \in Probes
    BY <1>1, ProgramFacts
  <2>a. dir[ct(p)] = Whole(Current(p))
    BY <1>3
  <2>2. Exists(ct(p))
    BY <2>a DEF Exists, Whole
  <2> QED BY <1>0, <2>1, <2>2
<1>6. Ended'
  <2>1. outcome' = "false" => Excused'
    BY <1>0, <1>5 DEF Excused, Complete
  <2>2. \A p \in Range(recorded.probes) : Complete(recorded, p) => dir'[ct(p)] = Whole(Current(p)')
    BY <1>0, <1>3, <1>4
  <2> QED BY <1>0, <1>4, <2>1, <2>2 DEF Ended, Complete, Whole
<1>7. ReplayDecision
  BY <1>0 DEF ReplayDecision
<1>8. Replays'
  BY <1>0, <1>2, <1>6 DEF Replays, Refreshed, Worked, Reconstructed
<1>9. Pending'
  BY <1>0, RangeOfTuple DEF Pending
<1> QED BY <1>0, <1>7, <1>8, <1>9, ReplayFrame DEF IInv

-----------------------------------------------------------------------------
(* The environment *)

LEMMA TornDirectory ==
  ASSUME Disciplined, IInv, dir' \in Torn, source' = source, recorded' = recorded
  PROVE  /\ Directory' /\ DOMAIN dir' = Files
         /\ \A f \in Files : \/ dir'[f] = dir[f]
                             \/ todo # <<>> /\ Head(todo).op # "time" /\ f = Head(todo).file
<1>0. DOMAIN dir = Files /\ recorded \in Programs \cup {None} /\ Directory
  BY DEF IInv, Types, TypeOK
<1>1. CASE dir' = dir
  BY <1>0, <1>1, DirectoryFrame
<1>2. CASE dir' # dir
  <2>1. todo # <<>> /\ dir' \in {[dir EXCEPT ![Head(todo).file] = c] : c \in Left(Head(todo))}
    BY <1>2 DEF Torn
  <2>2. PICK c \in Left(Head(todo)) : dir' = [dir EXCEPT ![Head(todo).file] = c]
    BY <2>1
  <2>3. Head(todo).op # "time"
    BY <2>2 DEF Left
  <2>4. c \in OutcomesOf(Head(todo))
    BY <2>2 DEF OutcomesOf
  <2>5. Writes(Head(todo).file, c)
    BY <1>0, <2>1, <2>2, <2>3, <2>4, PendingIsSafe DEF Writes
  <2> QED BY <2>1, <2>3, <2>5, WriteKeepsDirectory, WriteLeaves
<1> QED BY <1>1, <1>2

LEMMA CrashInv ==
  ASSUME Disciplined, IInv, Crash
  PROVE  IInv'
<1>0. /\ stage \notin {"ended", "done"} /\ dir' \in Torn /\ todo' = <<>> /\ queue' = <<>>
      /\ source' = source /\ mtime' = mtime /\ seen' = seen /\ recorded' = recorded
      /\ \/ stage' = "ended" /\ outcome' = outcome /\ cut' = cut
         \/ /\ stage \in {"working", "reconstructing"}
            /\ stage' = "done" /\ outcome' = "false" /\ cut' = TRUE
  BY DEF Crash, Ends
<1>1. Directory' /\ DOMAIN dir' = Files
  BY <1>0, TornDirectory
<1>2. Types'
  <2>1. TypeOK'
    BY <1>0, <1>1 DEF IInv, Types, TypeOK, Recording, Usable
  <2> QED BY <1>0, <2>1, RangeOfTuple DEF IInv, Types, Recording, Listing
<1>3. Host'
  BY <1>0 DEF Host, Progress, Traced, Indexed, Recording
<1>4. Pending'
  BY <1>0, RangeOfTuple DEF Pending
<1>5. Replays'
  <2>1. CASE stage' = "ended"
    BY <2>1 DEF Replays, SeenKept, Refreshed, Worked, Reconstructed, Ended
  <2>2. CASE stage' # "ended"
    <3>0. stage \in {"working", "reconstructing"} /\ stage' = "done" /\ outcome' = "false" /\ cut' = TRUE
      BY <1>0, <2>2
    <3>1. \A s \in Range(todo) : s.op = "put" /\ (s.file = replay_outputs \/ \E p : s.file = ct(p))
      BY <3>0, RangeOfTuple DEF IInv, Replays, Worked, Pending, ResultStep, Put
    <3>2. todo # <<>> => Head(todo) \in Range(todo)
      BY ListingTail DEF IInv, Types
    <3>3. ASSUME NEW n \in Names PROVE dir'[bin(n)] = dir[bin(n)]
      <4>1. bin(n) \in Files
        BY FilesThere
      <4>2. todo # <<>> => Head(todo).file # bin(n)
        BY <3>1, <3>2
      <4> QED BY <1>0, <4>1, <4>2, TornDirectory
    <3>4. \A n, v : Put(bin(n), v) \notin Range(todo)
      BY <3>1 DEF Put
    <3>5. SeenKept'
      <4> SUFFICES ASSUME NEW n \in Names, seen[n] # None PROVE dir[bin(n)] = Whole(seen[n])
        BY <1>0, <3>3 DEF SeenKept, Claim, Whole
      <4>1. Claim(bin(n), seen[n])
        BY <1>0 DEF IInv, Replays, SeenKept
      <4> QED BY <4>1, <3>4 DEF Claim
    <3> QED BY <3>0, <3>5 DEF Replays, Refreshed, Worked, Reconstructed, Ended
  <2> QED BY <2>1, <2>2
<1> QED BY <1>1, <1>2, <1>3, <1>4, <1>5 DEF IInv

LEMMA ReplaceSourceInv ==
  ASSUME Disciplined, IInv, NEW n \in Backed, NEW v \in Versions, ReplaceSource(n, v)
  PROVE  IInv'
<1>0. /\ v > source[n] /\ stage \notin Recording /\ source' = [source EXCEPT ![n] = v]
      /\ dir' = dir /\ stage' = stage /\ format' = format /\ todo' = todo /\ mtime' = mtime /\ queue' = queue
      /\ outcome' = outcome /\ seen' = seen /\ recorded' = recorded /\ cut' = cut
  BY DEF ReplaceSource, Disciplined
<1>1. source \in [Backed -> Versions] /\ source' \in [Backed -> Versions]
  BY <1>0 DEF IInv, Types, TypeOK
<1>2. \A m \in Backed : source[m] \in Nat /\ source'[m] \in Nat /\ source[m] <= source'[m]
  BY <1>0, <1>1 DEF Versions
<1>3. recorded # None => recorded.backed \subseteq Backed
  BY ProgramFacts DEF IInv, Types
<1>4. Types'
  <2>1. TypeOK'
    BY <1>0, <1>1 DEF IInv, Types, TypeOK, Recording, Usable
  <2> QED BY <1>0, <2>1 DEF IInv, Types, Listing, Recording
<1>5. Directory'
  <2>1. Contents'
    <3>1. recorded # None => \A m \in Names : IdsKept(m)'
      BY <1>0 DEF IInv, Directory, Contents, IdsKept, Absent, Empty, Whole, Tagged
    <3>2. ASSUME recorded # None, NEW m \in Names PROVE BinKept(m)'
      <4>1. BinKept(m)
        BY <3>2 DEF IInv, Directory, Contents
      <4>2. \A w \in Versions : Holds(m, w) => Holds(m, w)'
        <5> SUFFICES ASSUME NEW w \in Versions, m \in recorded.backed, w <= source[m] PROVE w <= source'[m]
          BY <1>0 DEF Holds
        <5> QED BY <1>2, <1>3, <3>2 DEF Versions
      <4> QED BY <1>0, <4>1, <4>2 DEF BinKept, IsWhole, Whole
    <3> QED BY <1>0, <3>1, <3>2 DEF IInv, Directory, Contents, Absent
  <2>2. InputsListed'
    <3> SUFFICES ASSUME IsWhole(inputs_json), NEW i \in DOMAIN recorded.inputs
                 PROVE  Entry(dir[inputs_json].data[i], recorded.inputs[i])'
      BY <1>0 DEF IInv, Directory, InputsListed, IsWhole, Whole, Listing
    <3> DEFINE m == recorded.inputs[i]
               t == dir[inputs_json].data[i].mtime
    <3>1. Entry(dir[inputs_json].data[i], m) /\ recorded # None
      BY DEF IInv, Directory, InputsListed
    <3>2. CASE m \notin recorded.backed
      BY <1>0, <3>1, <3>2 DEF Entry
    <3>3. CASE m \in recorded.backed
      <4>1. /\ t \in Versions /\ Usable(t) /\ t <= source[m]
            /\ \A w \in Versions : dir[bin(m)] = Whole(w) => t <= w
            /\ ~IsWhole(bin(m)) => t < source[m]
        BY <3>1, <3>3 DEF Entry, Dated
      <4>2. t \in Nat /\ source[m] \in Nat /\ source'[m] \in Nat /\ source[m] <= source'[m]
        BY <1>2, <1>3, <3>1, <3>3, <4>1 DEF Versions
      <4>3. t <= source'[m] /\ (~IsWhole(bin(m)) => t < source'[m])
        BY <4>1, <4>2
      <4> QED BY <1>0, <3>1, <3>3, <4>1, <4>3 DEF Entry, Dated, IsWhole, Usable, Whole
    <3> QED BY <3>2, <3>3
  <2>3. InPlace'
    BY <1>0 DEF IInv, Directory, InPlace, Finished, IsWhole, OutputsOf, Tagged, Whole
  <2>4. Results'
    BY <1>0 DEF IInv, Directory, Results, Finished, IsWhole, Exists, Complete
  <2> QED BY <2>1, <2>2, <2>3, <2>4 DEF Directory
<1>6. Host'
  BY <1>0 DEF Host, Progress, Traced, Indexed, Recording
<1>7. /\ BinsWhole' = BinsWhole /\ ResultList' = ResultList
      /\ \A p : Current(p)' = Current(p) /\ ResultOf(p)' = ResultOf(p)
  BY <1>0, ResultsFrame
<1>8. Replays'
  <2>1. SeenKept'
    BY <1>0 DEF IInv, Replays, SeenKept, Claim, Put, Whole
  <2>2. Refreshed'
    BY <1>0 DEF IInv, Replays, Refreshed, IsWhole
  <2>3. Worked'
    BY <1>0, <1>7 DEF IInv, Replays, Worked, Finished, IsWhole, Put, Whole
  <2>4. Reconstructed'
    <3>1. \A p : Claim(ct(p), Current(p)) => Claim(ct(p), Current(p))'
      BY <1>0, <1>7 DEF Claim, Put, Whole
    <3> QED BY <1>0, <1>7, <3>1 DEF IInv, Replays, Reconstructed, Finished, IsWhole, Complete
  <2>5. Ended'
    <3>1. Excused => Excused'
      BY <1>0 DEF Excused, Finished, IsWhole, Complete, Tagged
    <3> QED BY <1>0, <1>7, <3>1 DEF IInv, Replays, Ended, Finished, IsWhole, Complete, Whole
  <2> QED BY <2>1, <2>2, <2>3, <2>4, <2>5 DEF Replays
<1>9. Pending'
  <2>1. ASSUME stage = "refreshing", NEW s \in Range(todo) PROVE RefreshStep(s)'
    <3>1. RefreshStep(s) /\ recorded # None
      BY <2>1 DEF IInv, Pending, Types
    <3>2. \A m \in recorded.backed : \A w \in Versions : w <= source[m] => w <= source'[m]
      BY <1>2, <1>3, <3>1 DEF Versions
    <3> QED BY <1>0, <3>1, <3>2 DEF RefreshStep, Overdue, IsWhole, Put, Whole
  <2>2. ASSUME stage = "reconstructing", NEW s \in Range(todo) PROVE ResultStep(s)'
    <3>1. ResultStep(s)
      BY <2>2 DEF IInv, Pending
    <3> QED BY <1>0, <1>7, <3>1 DEF ResultStep, Complete, Put, Whole
  <2>3. stage = "launched" => \A s \in Range(todo) : s = Put(cryptocontext, "cc")
    BY DEF IInv, Pending
  <2> QED BY <1>0, <2>1, <2>2, <2>3 DEF Pending, Recording
<1> QED BY <1>4, <1>5, <1>6, <1>8, <1>9 DEF IInv

LEMMA RemoveDirectoryInv ==
  ASSUME IInv, RemoveDirectory
  PROVE  IInv'
<1>0. /\ dir' = [f \in Files |-> Absent] /\ stage' = "ended" /\ recorded' = None
      /\ todo' = <<>> /\ queue' = <<>>
      /\ source' = source /\ mtime' = mtime /\ outcome' = outcome /\ seen' = seen /\ cut' = cut
  BY DEF RemoveDirectory, IInv, Types
<1>1. Types'
  <2>1. TypeOK'
    BY <1>0 DEF IInv, Types, TypeOK, Usable
  <2> QED BY <1>0, <2>1, RangeOfTuple DEF IInv, Types, Recording, Listing
<1>2. \A f \in Files : dir'[f] = Absent /\ dir'[f].state = "absent"
  BY <1>0 DEF Absent
<1>3. Directory'
  <2>1. Contents'
    BY <1>0, <1>2 DEF Contents, Absent
  <2>2. ~IsWhole(inputs_json)' /\ ~Finished' /\ \A p \in Probes : ~Exists(ct(p))'
    BY <1>2, FilesThere DEF Finished, IsWhole, Exists
  <2> QED BY <2>1, <2>2 DEF Directory, InputsListed, InPlace, Results
<1>4. Host'
  BY <1>0 DEF Host, Progress, Traced, Indexed, Recording
<1>5. Replays'
  BY <1>0 DEF Replays, SeenKept, Refreshed, Worked, Reconstructed, Ended
<1>6. Pending'
  BY <1>0, RangeOfTuple DEF Pending
<1> QED BY <1>1, <1>3, <1>4, <1>5, <1>6 DEF IInv

-----------------------------------------------------------------------------
(* The steps between two decisions *)

LEMMA OpsOfSteps ==
  ASSUME IInv, NEW s \in Range(todo)
  PROVE  /\ s.op \in {"put", "inputs", "time"}
         /\ s.op = "inputs" => s = PutInputs /\ stage = "indexing"
         /\ s.op = "time" => /\ stage \in {"tagging", "stopping"}
                             /\ \E n \in recorded.backed : s = TakeTime(n)
<1>1. CASE stage = "launched"
  BY <1>1 DEF IInv, Pending, Put
<1>2. ASSUME CaptureStep(s), stage \in {"tagging", "stopping"}
      PROVE s.op \in {"put", "time"} /\ (s.op = "time" => \E n \in recorded.backed : s = TakeTime(n))
  BY <1>2 DEF CaptureStep, Put, TakeTime
<1>3. CASE stage = "tagging"
  BY <1>2, <1>3 DEF IInv, Pending
<1>4. CASE stage = "probing"
  BY <1>4 DEF IInv, Pending, TemplateStep, Put
<1>5. CASE stage = "stopping"
  <2>1. TraceStep(s) => s.op = "put"
    BY DEF TraceStep, Create, Put, Unlink
  <2> QED BY <1>2, <1>5, <2>1 DEF IInv, Pending
<1>6. CASE stage = "indexing"
  <2>1. s \in {PutInputs, Indices, LastStep}
    BY <1>6, RangeOfTuple DEF IInv, Host, Indexed
  <2> QED BY <1>6, <2>1 DEF PutInputs, Indices, LastStep, Put
<1>7. CASE stage = "refreshing"
  BY <1>7 DEF IInv, Pending, RefreshStep, Put
<1>8. CASE stage = "working"
  <2>1. s = Put(replay_outputs, ResultList)
    BY <1>8, RangeOfTuple DEF IInv, Replays, Worked
  <2> QED BY <2>1 DEF Put
<1>9. CASE stage = "reconstructing"
  BY <1>9 DEF IInv, Pending, ResultStep, Put
<1>10. stage \notin {"ended", "done"}
  BY RangeOfTuple DEF IInv, Types
<1> QED BY <1>1, <1>3, <1>4, <1>5, <1>6, <1>7, <1>8, <1>9, <1>10 DEF IInv, Types, TypeOK, Recording

LEMMA StepWrites ==
  ASSUME Disciplined, IInv, Step
  PROVE  /\ Directory' /\ DOMAIN dir' = Files
         /\ Listing(todo') /\ Head(todo) \in Range(todo) /\ Range(todo) = {Head(todo)} \cup Range(todo')
         /\ Head(todo).op = "put" => dir'[Head(todo).file] = Head(todo).to
         /\ Head(todo).op = "inputs" => dir'[inputs_json] = Whole(ListedInputs)
         /\ \A f \in Files : Head(todo).op = "time" \/ f # Head(todo).file => dir'[f] = dir[f]
<1> DEFINE s == Head(todo)
<1>0. /\ todo # <<>> /\ todo' = Tail(todo) /\ source' = source /\ recorded' = recorded
      /\ DOMAIN dir = Files /\ recorded \in Programs \cup {None} /\ Directory
  BY DEF Step, IInv, Types, TypeOK
<1>1. Listing(todo') /\ s \in Range(todo) /\ Range(todo) = {s} \cup Range(todo')
  BY <1>0, ListingTail DEF IInv, Types
<1>2. CASE s.op = "put"
  <2>1. dir' = [dir EXCEPT ![s.file] = s.to]
    BY <1>2 DEF Step
  <2>2. s.to \in OutcomesOf(s)
    BY <1>2 DEF OutcomesOf
  <2>3. Writes(s.file, s.to)
    BY <1>0, <1>2, <2>1, <2>2, PendingIsSafe DEF Writes
  <2> QED BY <1>1, <1>2, <2>3, WriteKeepsDirectory, WriteLeaves
<1>3. CASE s.op = "inputs"
  <2>1. dir' = [dir EXCEPT ![s.file] = Whole(ListedInputs)] /\ s.file = inputs_json
    BY <1>1, <1>3, OpsOfSteps DEF Step, PutInputs
  <2>2. Whole(ListedInputs) \in OutcomesOf(s)
    BY <1>3 DEF OutcomesOf
  <2>3. Writes(s.file, Whole(ListedInputs))
    BY <1>0, <1>3, <2>1, <2>2, PendingIsSafe DEF Writes
  <2> QED BY <1>1, <1>3, <2>1, <2>3, WriteKeepsDirectory, WriteLeaves
<1>4. CASE s.op = "time"
  <2>1. dir' = dir
    BY <1>4 DEF Step
  <2> QED BY <1>0, <1>1, <1>4, <2>1, DirectoryFrame
<1> QED BY <1>1, <1>2, <1>3, <1>4, OpsOfSteps

LEMMA StepClaim ==
  ASSUME Disciplined, IInv, Step, NEW f \in Files, NEW d, Claim(f, d),
         Head(todo).op = "put" /\ Head(todo).file = f => Head(todo).to = Whole(d),
         Head(todo).op = "inputs" => f # inputs_json
  PROVE  dir'[f] = Whole(d) \/ Put(f, d) \in Range(todo')
<1>1. CASE Put(f, d) \in Range(todo')
  BY <1>1
<1>2. CASE Put(f, d) = Head(todo)
  <2>1. Head(todo).op = "put" /\ Head(todo).file = f
    BY <1>2 DEF Put
  <2> QED BY <2>1, StepWrites
<1>3. CASE dir[f] = Whole(d)
  <2>1. CASE Head(todo).op = "put" /\ Head(todo).file = f
    BY <2>1, StepWrites
  <2>2. CASE Head(todo).op = "time" \/ f # Head(todo).file
    BY <1>3, <2>2, StepWrites
  <2>3. Head(todo).op = "inputs" => f # Head(todo).file
    BY StepWrites, OpsOfSteps DEF PutInputs
  <2> QED BY <2>1, <2>2, <2>3, StepWrites, OpsOfSteps
<1> QED BY <1>1, <1>2, <1>3, StepWrites DEF Claim

(* A run that records writes what it has to. *)
LEMMA RecordingSteps ==
  ASSUME IInv, stage \in Recording, NEW s \in Range(todo), s.op = "put"
  PROVE  /\ \A n : s.file = ids(n) => s.to = Whole(recorded.ids[n])
         /\ \A n : s.file = bin(n) => s.to = Whole(Version(recorded, n))
         /\ \A p : s.file = template(p) => s.to = Whole(recorded.towers[p])
         /\ stage # "indexing" => s.file \notin {inputs_json, replay_json}
<1>1. CaptureStep(s) \/ TemplateStep(s) \/ TraceStep(s) \/ (s \in {Indices, LastStep} /\ stage = "indexing")
  <2>1. CASE stage = "indexing"
    <3>1. s \in {PutInputs, Indices, LastStep}
      BY <2>1, RangeOfTuple DEF IInv, Host, Indexed
    <3> QED BY <2>1, <3>1 DEF PutInputs
  <2> QED BY <2>1 DEF IInv, Pending, Recording
<1>2. CASE CaptureStep(s)
  BY <1>2 DEF CaptureStep, Put, TakeTime
<1>3. CASE TemplateStep(s)
  BY <1>3 DEF TemplateStep, Put
<1>4. CASE TraceStep(s)
  BY <1>4 DEF TraceStep, Put, Create, Unlink
<1>5. CASE s \in {Indices, LastStep} /\ stage = "indexing"
  BY <1>5 DEF Indices, LastStep, Put
<1> QED BY <1>1, <1>2, <1>3, <1>4, <1>5

LEMMA StepCaptured ==
  ASSUME Disciplined, IInv, Step, stage \in Recording, NEW n \in Tagged(recorded), Captured(n)
  PROVE  Captured(n)'
<1>0. recorded' = recorded /\ source' = source /\ recorded \in Programs /\ Head(todo) \in Range(todo)
  BY StepWrites DEF Step, IInv, Types
<1>1. n \in Names
  BY <1>0, ProgramFacts
<1>2. ids(n) \in Files /\ bin(n) \in Files
  BY <1>1, FilesThere
<1>3. dir'[ids(n)] = Whole(recorded.ids[n]) \/ Put(ids(n), recorded.ids[n]) \in Range(todo')
  <2>1. Claim(ids(n), recorded.ids[n])
    BY DEF Captured
  <2>2. Head(todo).op = "put" /\ Head(todo).file = ids(n) => Head(todo).to = Whole(recorded.ids[n])
    BY <1>0, RecordingSteps
  <2> QED BY <1>2, <2>1, <2>2, StepClaim
<1>4. dir'[bin(n)] = Whole(Version(recorded, n)) \/ Put(bin(n), Version(recorded, n)) \in Range(todo')
  <2>1. Claim(bin(n), Version(recorded, n))
    BY DEF Captured
  <2>2. Head(todo).op = "put" /\ Head(todo).file = bin(n) => Head(todo).to = Whole(Version(recorded, n))
    BY <1>0, RecordingSteps
  <2> QED BY <1>2, <2>1, <2>2, StepClaim
<1>5. n \in recorded.backed => mtime'[n] = source[n] \/ TakeTime(n) \in Range(todo')
  <2> SUFFICES ASSUME n \in recorded.backed PROVE mtime'[n] = source[n] \/ TakeTime(n) \in Range(todo')
    OBVIOUS
  <2>1. n \in Backed /\ mtime \in [Backed -> Versions \cup {None}]
    BY <1>0, ProgramFacts DEF IInv, Types
  <2>2. CASE Head(todo) = TakeTime(n)
    <3>1. mtime' = [mtime EXCEPT ![n] = source[n]]
      BY <2>2 DEF Step, TakeTime
    <3> QED BY <2>1, <3>1
  <2>3. CASE Head(todo) # TakeTime(n)
    <3>1. mtime[n] = source[n] \/ TakeTime(n) \in Range(todo')
      BY <2>3, StepWrites DEF Captured
    <3>2. mtime'[n] \in {mtime[n], source[n]}
      <4>1. CASE Head(todo).op # "time"
        BY <4>1 DEF Step
      <4>2. CASE Head(todo).op = "time"
        BY <4>2, <2>1 DEF Step
      <4> QED BY <4>1, <4>2
    <3> QED BY <3>1, <3>2
  <2> QED BY <2>2, <2>3
<1>6. Version(recorded, n)' = Version(recorded, n)
  BY <1>0 DEF Version
<1> QED BY <1>0, <1>3, <1>4, <1>5, <1>6 DEF Captured, Claim, Put, Whole

LEMMA StepTypes ==
  ASSUME Disciplined, IInv, Step
  PROVE  Types'
<1>0. /\ todo # <<>> /\ source' = source /\ stage' = stage /\ queue' = queue /\ outcome' = outcome
      /\ seen' = seen /\ recorded' = recorded /\ cut' = cut
  BY DEF Step
<1>1. stage \notin {"ended", "done"} /\ DOMAIN dir' = Files /\ Listing(todo') /\ Head(todo) \in Range(todo)
  BY <1>0, StepWrites DEF IInv, Types
<1>2. mtime' \in [Backed -> Versions \cup {None}]
  <2>1. CASE Head(todo).op # "time"
    BY <2>1 DEF Step, IInv, Types
  <2>2. CASE Head(todo).op = "time"
    <3>1. PICK n \in recorded.backed : Head(todo) = TakeTime(n)
      BY <1>1, <2>2, OpsOfSteps
    <3>2. recorded \in Programs
      BY <1>1, <2>2, OpsOfSteps DEF IInv, Types, Recording
    <3>3. n \in Backed /\ source[n] \in Versions
      BY <3>1, <3>2, ProgramFacts DEF IInv, Types, TypeOK
    <3>4. mtime' = [mtime EXCEPT ![n] = source[n]]
      BY <3>1 DEF Step, TakeTime
    <3> QED BY <3>3, <3>4 DEF IInv, Types
  <2> QED BY <2>1, <2>2
<1>3. TypeOK'
  BY <1>0, <1>1 DEF IInv, Types, TypeOK, Usable
<1> QED BY <1>0, <1>1, <1>2, <1>3 DEF IInv, Types, Listing, Usable

LEMMA StepProgress ==
  ASSUME Disciplined, IInv, Step
  PROVE  Progress'
<1> SUFFICES ASSUME stage \in Recording PROVE Progress'
  BY DEF Progress, Step
<1>0. stage' = stage /\ queue' = queue /\ recorded' = recorded /\ recorded \in Programs /\ Head(todo) \in Range(todo)
  BY StepWrites DEF Step, IInv, Types
<1>1. \A n \in Tagged(recorded) : Captured(n) => Captured(n)'
  BY StepCaptured
<1>2. Range(recorded.inputs) \cup Range(recorded.keys) \cup Range(recorded.precompute) \subseteq Tagged(recorded)
  BY DEF Tagged
<1>3. ASSUME stage # "tagging", NEW p \in Range(recorded.probes)
      PROVE  Claim(template(p), recorded.towers[p])'
  <2>1. template(p) \in Files
    <3>1. p \in Probes BY <1>0, ProgramFacts
    <3> QED BY <3>1, FilesThere
  <2>2. Claim(template(p), recorded.towers[p])
    BY <1>3 DEF IInv, Host, Progress
  <2>3. Head(todo).op = "put" /\ Head(todo).file = template(p) => Head(todo).to = Whole(recorded.towers[p])
    BY <1>0, RecordingSteps
  <2>4. dir'[template(p)] = Whole(recorded.towers[p]) \/ Put(template(p), recorded.towers[p]) \in Range(todo')
    BY <2>1, <2>2, <2>3, StepClaim
  <2> QED BY <1>0, <2>4 DEF Claim, Put, Whole
<1>4. ASSUME stage # "indexing" PROVE ~IsWhole(inputs_json)' /\ ~Finished'
  <2>1. ~IsWhole(inputs_json) /\ ~Finished
    BY <1>4 DEF IInv, Host, Progress
  <2>2. Head(todo).op = "time" \/ Head(todo).file \notin {inputs_json, replay_json}
    BY <1>0, <1>4, OpsOfSteps, RecordingSteps
  <2>3. dir'[inputs_json] = dir[inputs_json] /\ dir'[replay_json] = dir[replay_json]
    BY <2>2, StepWrites, FilesThere
  <2> QED BY <2>1, <2>3 DEF IsWhole, Finished
<1>5. /\ \A n \in Range(recorded.inputs) \cup Range(recorded.keys) : n \in Range(queue) \/ Captured(n)
      /\ stage \in {"stopping", "indexing"} =>
           \A n \in Range(recorded.precompute) : n \in Range(queue) \/ Captured(n)
      /\ Range(queue) \subseteq Tagged(recorded)
      /\ stage \in {"probing", "indexing"} => queue = <<>>
  BY DEF IInv, Host, Progress
<1>6. /\ \A n \in Range(recorded.inputs) \cup Range(recorded.keys) : n \in Range(queue) \/ Captured(n)'
      /\ stage \in {"stopping", "indexing"} =>
           \A n \in Range(recorded.precompute) : n \in Range(queue) \/ Captured(n)'
  BY <1>1, <1>2, <1>5
<1> QED BY <1>0, <1>3, <1>4, <1>5, <1>6 DEF Progress, Tagged

LEMMA StepTraced ==
  ASSUME Disciplined, IInv, Step
  PROVE  Traced'
<1>0. /\ stage' = stage /\ format' = format /\ recorded' = recorded /\ Head(todo) \in Range(todo)
      /\ todo' = Tail(todo) /\ TraceFile' = TraceFile /\ TraceFile \in Files
  BY StepWrites, FilesThere DEF Step, TraceFile
<1>1. CASE stage = "indexing"
  <2>1. dir[TraceFile] = Whole(recorded)
    BY <1>1 DEF IInv, Host, Traced
  <2>2. Head(todo) \in {PutInputs, Indices, LastStep}
    BY <1>0, <1>1, RangeOfTuple DEF IInv, Host, Indexed
  <2>3. TraceFile # Head(todo).file
    BY <2>2 DEF PutInputs, Indices, LastStep, Put, TraceFile
  <2>4. dir'[TraceFile] = Whole(recorded)
    BY <1>0, <2>1, <2>3, StepWrites
  <2> QED BY <1>0, <1>1, <2>4 DEF Traced, Whole
<1>2. CASE stage = "stopping"
  <2>0. format \in Formats /\ format \in {"text", "binary", "both"}
    BY <1>2, FormatsAssumption DEF IInv, Host, Traced
  <2> SUFFICES Create(fhetch) \notin Range(todo') /\ (dir'[TraceFile] = Whole(recorded) \/ Put(TraceFile, recorded) \in Range(todo'))
    BY <1>0, <1>2, <2>0 DEF Traced, Claim, Put, Whole, Create
  <2>1. CASE todo = TraceWrites(recorded, format)
    <3>1. CASE format = "text"
      <4>1. todo = <<Create(fhetch), Put(fhetch, recorded)>>
        BY <2>1, <3>1 DEF TraceWrites
      <4>2. Range(todo') = {Put(fhetch, recorded)}
        BY <1>0, <4>1, RangeOfTuple
      <4> QED BY <3>1, <4>2 DEF TraceFile, Create, Put, Empty, Whole
    <3>2. CASE format = "both"
      <4>1. todo = <<Create(fhetch), Put(fhetch, recorded), Put(fhex, recorded)>>
        BY <2>1, <3>2 DEF TraceWrites
      <4>2. Range(todo') = {Put(fhetch, recorded), Put(fhex, recorded)}
        BY <1>0, <4>1, RangeOfTuple
      <4> QED BY <3>2, <4>2 DEF TraceFile, Create, Put, Empty, Whole
    <3>3. CASE format = "binary"
      <4>1. todo = <<Create(fhetch), Put(fhex, recorded), Unlink(fhetch)>>
        BY <2>1, <3>3 DEF TraceWrites
      <4>2. Range(todo') = {Put(fhex, recorded), Unlink(fhetch)}
        BY <1>0, <4>1, RangeOfTuple
      <4> QED BY <3>3, <4>2 DEF TraceFile, Create, Put, Unlink, Absent, Empty, Whole
    <3> QED BY <2>0, <3>1, <3>2, <3>3
  <2>2. CASE Create(fhetch) \notin Range(todo) /\ Claim(TraceFile, recorded)
    <3>1. Create(fhetch) \notin Range(todo')
      BY <2>2, StepWrites
    <3>2. Head(todo).op # "inputs"
      BY <1>0, <1>2, OpsOfSteps
    <3>3. Head(todo).op = "put" /\ Head(todo).file = TraceFile => Head(todo).to = Whole(recorded)
      <4>1. CaptureStep(Head(todo)) \/ TraceStep(Head(todo))
        BY <1>0, <1>2 DEF IInv, Pending
      <4>2. CASE CaptureStep(Head(todo))
        BY <4>2 DEF CaptureStep, Put, TakeTime, TraceFile
      <4>3. CASE TraceStep(Head(todo))
        <5>1. Head(todo) # Create(fhetch)
          BY <1>0, <2>2
        <5> QED BY <4>3, <5>1 DEF TraceStep, Put, Unlink, TraceFile
      <4> QED BY <4>1, <4>2, <4>3
    <3>4. dir'[TraceFile] = Whole(recorded) \/ Put(TraceFile, recorded) \in Range(todo')
      BY <1>0, <2>2, <3>2, <3>3, StepClaim
    <3> QED BY <3>1, <3>4
  <2> QED BY <1>2, <2>1, <2>2 DEF IInv, Host, Traced
<1> QED BY <1>0, <1>1, <1>2 DEF Traced

LEMMA StepIndexed ==
  ASSUME Disciplined, IInv, Step
  PROVE  Indexed'
<1>0. /\ stage' = stage /\ recorded' = recorded /\ todo' = Tail(todo) /\ todo # <<>>
      /\ TraceFile' = TraceFile /\ Indices' = Indices /\ LastStep' = LastStep /\ PutInputs' = PutInputs
  BY DEF Step, TraceFile, Indices, LastStep, OutputsOf, Put, PutInputs
<1> SUFFICES ASSUME stage = "indexing" PROVE Indexed'
  BY <1>0 DEF Indexed
<1>f. inputs_json \in Files /\ outputs_json \in Files /\ replay_json \in Files
  BY FilesThere
<1>1. CASE todo = <<PutInputs, Indices, LastStep>> /\ ~Finished
  <2>1. Head(todo) = PutInputs /\ todo' = <<Indices, LastStep>>
    BY <1>0, <1>1, RangeOfTuple
  <2>2. dir'[inputs_json] = Whole(ListedInputs) /\ dir'[replay_json] = dir[replay_json]
    BY <1>f, <2>1, StepWrites DEF PutInputs
  <2>3. IsWhole(inputs_json)' /\ ~Finished'
    BY <1>1, <2>2 DEF IsWhole, Finished, Whole
  <2> QED BY <1>0, <2>1, <2>3 DEF Indexed
<1>2. CASE todo = <<Indices, LastStep>> /\ ~Finished /\ IsWhole(inputs_json)
  <2>1. Head(todo) = Indices /\ todo' = <<LastStep>>
    BY <1>0, <1>2, RangeOfTuple
  <2>2. Indices.op = "put" /\ Indices.file = outputs_json /\ Indices.to = Whole(OutputsOf(recorded))
    BY DEF Indices, Put
  <2>3. dir'[outputs_json] = Whole(OutputsOf(recorded))
    BY <2>1, <2>2, StepWrites
  <2>4. dir'[replay_json] = dir[replay_json] /\ dir'[inputs_json] = dir[inputs_json]
    BY <1>f, <2>1, <2>2, StepWrites
  <2>5. IsWhole(inputs_json)' /\ ~Finished'
    BY <1>2, <2>4 DEF IsWhole, Finished
  <2> QED BY <1>0, <2>1, <2>3, <2>5 DEF Indexed, Whole, OutputsOf
<1>3. CASE todo = <<LastStep>>
  <2>1. todo' = <<>>
    BY <1>0, <1>3, RangeOfTuple
  <2> QED BY <2>1 DEF Indexed
<1> QED BY <1>0, <1>1, <1>2, <1>3 DEF IInv, Host, Indexed

LEMMA StepReplays ==
  ASSUME Disciplined, IInv, Step
  PROVE  Replays'
<1>0. /\ stage' = stage /\ queue' = queue /\ outcome' = outcome /\ seen' = seen /\ recorded' = recorded
      /\ todo # <<>> /\ todo' = Tail(todo) /\ Head(todo) \in Range(todo) /\ stage \notin {"ended", "done"}
  BY StepWrites DEF Step, IInv, Types
<1>1. CASE stage \in {"launched"} \cup Recording
  <2>1. \A n \in Names : seen[n] = None
    BY <1>1 DEF IInv, Types
  <2> QED BY <1>0, <1>1, <2>1 DEF Replays, SeenKept, Refreshed, Worked, Reconstructed, Ended, Recording
<1>2. CASE stage = "refreshing"
  <2>1. PICK n \in recorded.backed :
          \/ Head(todo) = Put(ids(n), recorded.ids[n])
          \/ \E v \in Versions : Head(todo) = Put(bin(n), v) /\ v = seen[n]
    BY <1>0, <1>2 DEF IInv, Pending, RefreshStep
  <2>2. /\ Head(todo).op = "put" /\ Head(todo).file \in {ids(n), bin(n)}
        /\ Head(todo).file = bin(n) => Head(todo).to = Whole(seen[n])
    BY <2>1 DEF Put
  <2>3. ASSUME NEW m \in Names, seen[m] # None
        PROVE  dir'[bin(m)] = Whole(seen[m]) \/ Put(bin(m), seen[m]) \in Range(todo')
    <3>1. Claim(bin(m), seen[m])
      BY <1>0, <2>3 DEF IInv, Replays, SeenKept
    <3>2. Head(todo).file = bin(m) => Head(todo).to = Whole(seen[m])
      BY <2>2
    <3>3. bin(m) \in Files
      BY FilesThere
    <3> QED BY <2>2, <3>1, <3>2, <3>3, StepClaim
  <2>4. SeenKept'
    BY <1>0, <2>3 DEF SeenKept, Claim, Put, Whole
  <2>5. dir'[inputs_json] = dir[inputs_json]
    BY <2>2, StepWrites, FilesThere
  <2>6. Refreshed'
    BY <1>0, <2>5 DEF IInv, Replays, Refreshed, IsWhole
  <2> QED BY <1>0, <1>2, <2>4, <2>6 DEF Replays, Worked, Reconstructed, Ended
<1>3. ASSUME stage \in {"working", "reconstructing"}, Head(todo).op = "put",
             Head(todo).file = replay_outputs \/ \E p : Head(todo).file = ct(p)
      PROVE  /\ SeenKept' /\ Finished' = Finished /\ BinsWhole' = BinsWhole /\ ResultList' = ResultList
             /\ \A p : Current(p)' = Current(p) /\ ResultOf(p)' = ResultOf(p)
  <2>0. recorded \in Programs
    BY <1>3 DEF IInv, Types
  <2>1. ASSUME NEW n \in Names PROVE dir'[bin(n)] = dir[bin(n)]
    <3>0. bin(n) \in Files
      BY FilesThere
    <3>1. bin(n) # Head(todo).file
      BY <1>3, BinIsNoResult
    <3> QED BY <3>0, <3>1, StepWrites
  <2>2. dir'[replay_json] = dir[replay_json]
    BY <1>3, StepWrites, FilesThere
  <2>3. recorded.backed \subseteq Names
    BY <2>0, ProgramFacts
  <2>4. ASSUME NEW m \in Names, seen[m] # None
        PROVE  dir'[bin(m)] = Whole(seen[m]) \/ Put(bin(m), seen[m]) \in Range(todo')
    <3>1. Claim(bin(m), seen[m])
      BY <1>0, <2>4 DEF IInv, Replays, SeenKept
    <3>2. bin(m) \in Files
      BY FilesThere
    <3>3. Head(todo).file # bin(m)
      BY <1>3, BinIsNoResult
    <3> QED BY <1>3, <3>1, <3>2, <3>3, StepClaim
  <2>5. SeenKept'
    BY <1>0, <2>4 DEF SeenKept, Claim, Put, Whole
  <2>6. Finished' = Finished
    BY <2>2 DEF Finished, IsWhole
  <2> QED BY <1>0, <2>1, <2>3, <2>5, <2>6, ResultsFrame
<1>4. CASE stage = "working"
  <2>1. todo = <<Put(replay_outputs, ResultList)>> /\ Finished /\ BinsWhole
    BY <1>0, <1>4 DEF IInv, Replays, Worked
  <2>2. Head(todo) = Put(replay_outputs, ResultList) /\ todo' = <<>>
    BY <1>0, <2>1, RangeOfTuple
  <2>3. Head(todo).op = "put" /\ Head(todo).file = replay_outputs /\ Head(todo).to = Whole(ResultList)
    BY <2>2 DEF Put
  <2>4. SeenKept' /\ Finished' /\ BinsWhole' /\ ResultList' = ResultList
    BY <1>3, <1>4, <2>1, <2>3
  <2>5. dir'[replay_outputs] = Whole(ResultList)
    BY <2>3, StepWrites
  <2>6. Worked'
    BY <2>2, <2>4, <2>5 DEF Worked, Whole
  <2> QED BY <1>0, <1>4, <2>4, <2>6 DEF Replays, Refreshed, Reconstructed, Ended
<1>5. CASE stage = "reconstructing"
  <2>1. PICK p \in Range(recorded.probes) : Head(todo) = Put(ct(p), Current(p))
    BY <1>0, <1>5 DEF IInv, Pending, ResultStep
  <2>2. Head(todo).op = "put" /\ Head(todo).file = ct(p) /\ Head(todo).to = Whole(Current(p))
    BY <2>1 DEF Put
  <2>3. /\ Finished /\ BinsWhole
        /\ \A o \in Range(queue) : \E q \in Range(recorded.probes) : o = ResultOf(q)
        /\ \A q \in Range(recorded.probes) :
             Complete(recorded, q) => ResultOf(q) \in Range(queue) \/ Claim(ct(q), Current(q))
    BY <1>5 DEF IInv, Replays, Reconstructed
  <2>4. /\ SeenKept' /\ Finished' /\ BinsWhole'
        /\ \A q : Current(q)' = Current(q) /\ ResultOf(q)' = ResultOf(q)
    BY <1>3, <1>5, <2>2, <2>3
  <2>5. ASSUME NEW q \in Range(recorded.probes), Claim(ct(q), Current(q))
        PROVE  Claim(ct(q), Current(q))'
    <3>1. ct(q) \in Files
      <4>1. q \in Probes BY <1>5, ProgramFacts DEF IInv, Types
      <4> QED BY <4>1, FilesThere
    <3>2. Head(todo).file = ct(q) => Head(todo).to = Whole(Current(q))
      BY <2>2
    <3>3. dir'[ct(q)] = Whole(Current(q)) \/ Put(ct(q), Current(q)) \in Range(todo')
      BY <2>2, <2>5, <3>1, <3>2, StepClaim
    <3> QED BY <2>4, <3>3 DEF Claim, Put, Whole
  <2>6. Reconstructed'
    <3>1. \A q \in Range(recorded.probes) :
            Complete(recorded, q) => ResultOf(q)' \in Range(queue) \/ Claim(ct(q), Current(q))'
      BY <2>3, <2>4, <2>5
    <3>2. \A o \in Range(queue) : \E q \in Range(recorded.probes) : o = ResultOf(q)'
      BY <2>3, <2>4
    <3> QED BY <1>0, <2>4, <3>1, <3>2 DEF Reconstructed, Complete
  <2> QED BY <1>0, <1>5, <2>4, <2>6 DEF Replays, Refreshed, Worked, Ended
<1> QED BY <1>0, <1>1, <1>2, <1>4, <1>5 DEF IInv, Types, TypeOK

LEMMA StepPending ==
  ASSUME Disciplined, IInv, Step
  PROVE  Pending'
<1>0. /\ stage' = stage /\ format' = format /\ source' = source /\ seen' = seen /\ recorded' = recorded
      /\ Range(todo') \subseteq Range(todo) /\ Head(todo) \in Range(todo)
  BY StepWrites DEF Step
<1> SUFFICES ASSUME NEW s \in Range(todo')
             PROVE  /\ stage = "launched" => s = Put(cryptocontext, "cc")
                    /\ stage = "tagging" => CaptureStep(s)'
                    /\ stage = "probing" => TemplateStep(s)'
                    /\ stage = "stopping" => CaptureStep(s)' \/ TraceStep(s)'
                    /\ stage = "refreshing" => RefreshStep(s)'
                    /\ stage = "reconstructing" => ResultStep(s)'
  BY <1>0 DEF Pending
<1>1. s \in Range(todo)
  BY <1>0
<1>2. stage = "launched" => s = Put(cryptocontext, "cc")
  BY <1>1 DEF IInv, Pending
<1>3. CaptureStep(s) => CaptureStep(s)'
  BY <1>0 DEF CaptureStep, Version, Tagged, Put, Whole
<1>4. TemplateStep(s) => TemplateStep(s)'
  BY <1>0 DEF TemplateStep, Put, Whole
<1>5. TraceStep(s) => TraceStep(s)'
  BY <1>0 DEF TraceStep, Put, Whole, Create, Unlink
<1>6. ASSUME stage = "refreshing" PROVE RefreshStep(s)'
  <2>1. RefreshStep(s) /\ RefreshStep(Head(todo))
    BY <1>0, <1>1, <1>6 DEF IInv, Pending
  <2>2. Head(todo).file # inputs_json
    BY <2>1 DEF RefreshStep, Put
  <2>3. dir'[inputs_json] = dir[inputs_json]
    BY <2>2, StepWrites, FilesThere
  <2> QED BY <1>0, <2>1, <2>3 DEF RefreshStep, Overdue, IsWhole, Put, Whole
<1>7. ASSUME stage = "reconstructing" PROVE ResultStep(s)'
  <2>1. ResultStep(s) /\ ResultStep(Head(todo)) /\ recorded \in Programs
    BY <1>0, <1>1, <1>7 DEF IInv, Pending, Types
  <2>2. \A n : Head(todo).file # bin(n)
    BY <2>1 DEF ResultStep, Put
  <2>3. \A n \in Names : bin(n) \in Files
    BY FilesThere
  <2>4. \A n \in recorded.backed : dir'[bin(n)] = dir[bin(n)]
    BY <2>1, <2>2, <2>3, StepWrites, ProgramFacts
  <2>5. \A p : Current(p)' = Current(p)
    BY <1>0, <2>4, ResultsFrame
  <2> QED BY <1>0, <2>1, <2>5 DEF ResultStep, Complete, Put, Whole
<1>8. /\ stage = "tagging" => CaptureStep(s) /\ stage = "tagging"
      /\ stage = "probing" => TemplateStep(s)
      /\ stage = "stopping" => CaptureStep(s) \/ TraceStep(s)
  BY <1>1 DEF IInv, Pending
<1> QED BY <1>2, <1>3, <1>4, <1>5, <1>6, <1>7, <1>8

LEMMA StepInv ==
  ASSUME Disciplined, IInv, Step
  PROVE  IInv'
  BY StepWrites, StepTypes, StepProgress, StepTraced, StepIndexed, StepReplays, StepPending DEF IInv, Host

-----------------------------------------------------------------------------
(* Theorems *)

LEMMA StutterInv ==
  ASSUME IInv, UNCHANGED vars
  PROVE  IInv'
<1>0. /\ source' = source /\ dir' = dir /\ stage' = stage /\ format' = format /\ todo' = todo
      /\ mtime' = mtime /\ queue' = queue /\ outcome' = outcome /\ seen' = seen
      /\ recorded' = recorded /\ cut' = cut
  BY DEF vars, history
<1>1. Types'
  BY <1>0 DEF IInv, Types, TypeOK, Usable, Listing, Recording
<1>2. Directory'
  BY <1>0, DirectoryFrame DEF IInv
<1>3. \A n : Captured(n) => Captured(n)'
  BY <1>0 DEF Captured, Claim, Version, Put, Whole
<1>4. TraceFile' = TraceFile /\ Indices' = Indices /\ LastStep' = LastStep /\ PutInputs' = PutInputs
  BY <1>0 DEF TraceFile, Indices, LastStep, OutputsOf, Put, PutInputs
<1>5. Progress'
  BY <1>0, <1>3 DEF IInv, Host, Progress, Claim, Put, Whole, Finished, IsWhole, Tagged
<1>6. Traced'
  BY <1>0, <1>4 DEF IInv, Host, Traced, TraceWrites, Claim, Put, Whole, Create, Unlink
<1>7. Indexed'
  BY <1>0, <1>4 DEF IInv, Host, Indexed, Finished, IsWhole, Whole, OutputsOf
<1>8. /\ BinsWhole' = BinsWhole /\ ResultList' = ResultList
      /\ \A p : Current(p)' = Current(p) /\ ResultOf(p)' = ResultOf(p)
  BY <1>0, ResultsFrame
<1>9. SeenKept' /\ Refreshed'
  BY <1>0 DEF IInv, Replays, SeenKept, Refreshed, Claim, Put, Whole, IsWhole
<1>10. Worked'
  BY <1>0, <1>8 DEF IInv, Replays, Worked, Finished, IsWhole, Put, Whole
<1>11. Reconstructed'
  <2>1. \A p : Claim(ct(p), Current(p)) => Claim(ct(p), Current(p))'
    BY <1>0, <1>8 DEF Claim, Put, Whole
  <2> QED BY <1>0, <1>8, <2>1 DEF IInv, Replays, Reconstructed, Finished, IsWhole, Complete
<1>12. Ended'
  <2>1. Excused => Excused'
    BY <1>0 DEF Excused, Finished, IsWhole, Complete, Tagged
  <2> QED BY <1>0, <1>8, <2>1 DEF IInv, Replays, Ended, Finished, IsWhole, Complete, Whole
<1>13. Pending'
  <2>1. \A s : CaptureStep(s) => CaptureStep(s)'
    BY <1>0 DEF CaptureStep, Version, Tagged, Put, Whole
  <2>2. \A s : (TemplateStep(s) => TemplateStep(s)') /\ (TraceStep(s) => TraceStep(s)')
    BY <1>0 DEF TemplateStep, TraceStep, Put, Whole, Create, Unlink
  <2>3. \A s : RefreshStep(s) => RefreshStep(s)'
    BY <1>0 DEF RefreshStep, Overdue, IsWhole, Put, Whole
  <2>4. \A s : ResultStep(s) => ResultStep(s)'
    BY <1>0, <1>8 DEF ResultStep, Complete, Put, Whole
  <2> QED BY <1>0, <2>1, <2>2, <2>3, <2>4 DEF IInv, Pending
<1> QED BY <1>1, <1>2, <1>5, <1>6, <1>7, <1>9, <1>10, <1>11, <1>12, <1>13 DEF IInv, Host, Replays

LEMMA NextInv ==
  ASSUME Disciplined, IInv, [Next]_vars
  PROVE  IInv'
  BY LaunchInv, StepInv, RecordInv, TagInv, TagProbesInv, StopInv, WriteReplayJsonInv, ReplayInv,
     RefreshInputInv, WorkerInv, ReconstructInv, ReconstructProbeInv, FinishInv, CrashInv,
     RemoveDirectoryInv, ReplaceSourceInv, StutterInv
  DEF Next

(* Whatever crashed and wherever: a directory holds what the recorded      *)
(* program put there, and its index is on disk only when everything it     *)
(* names is (Compiler::write_replay_json() writes it last).                *)
THEOREM ProjectInvariant ==
  ASSUME Disciplined
  PROVE  Spec => []IInv
  BY InitInv, NextInv, PTL DEF Spec

(* The types, and Compiler::replay() has an outcome exactly when the run   *)
(* got to its end; refresh_stale_inputs() looked at usable sources only.   *)
THEOREM ProjectTypeOK ==
  ASSUME Disciplined
  PROVE  Spec => []TypeOK
<1>1. IInv => TypeOK
  BY DEF IInv, Types
<1> QED BY <1>1, ProjectInvariant, PTL

(* After a Compiler::replay() that returned true, Compiler::result() finds *)
(* only results of the recorded program, on the inputs that replay looked  *)
(* at, after any crashes of the host and of its workers.                   *)
THEOREM ProjectFreshResult ==
  ASSUME Disciplined
  PROVE  Spec => []FreshResult
<1>1. IInv => FreshResult
  <2> SUFFICES ASSUME IInv, outcome = "true", stage = "done", NEW p \in Probes, IsWhole(ct(p))
               PROVE  /\ p \in Range(recorded.probes) /\ Complete(recorded, p)
                      /\ \E ver \in [recorded.backed -> Versions] :
                           /\ \A n \in recorded.backed : seen[n] # None => ver[n] = seen[n]
                           /\ dir[ct(p)].data = Ciphertext(recorded, ver, p)
    BY DEF FreshResult
  <2>1. p \in Range(recorded.probes) /\ Complete(recorded, p) /\ Finished
    BY DEF IInv, Directory, Results, Exists, IsWhole
  <2>2. BinsWhole /\ dir[ct(p)] = Whole(Current(p)) /\ recorded \in Programs /\ recorded # None
    BY <2>1, TraceIsRecorded DEF IInv, Replays, Ended
  <2>3. recorded.backed \subseteq Names
    BY <2>2, ProgramFacts
  <2>4. ASSUME NEW n \in recorded.backed PROVE CurrentVersions[n] \in Versions
    <3>1. IsWhole(bin(n)) /\ BinKept(n)
      BY <2>2, <2>3 DEF BinsWhole, IInv, Directory, Contents
    <3>2. PICK v \in Versions : dir[bin(n)] = Whole(v)
      BY <3>1 DEF BinKept
    <3>3. dir[bin(n)].data = v
      BY <3>2 DEF Whole
    <3> QED BY <3>3 DEF CurrentVersions
  <2>5. ASSUME NEW n \in recorded.backed, seen[n] # None PROVE CurrentVersions[n] = seen[n]
    <3>1. Claim(bin(n), seen[n]) /\ todo = <<>>
      BY <2>3, <2>5 DEF IInv, Types, Replays, SeenKept
    <3>2. dir[bin(n)] = Whole(seen[n])
      BY <3>1, ReadyClaims
    <3> QED BY <3>2 DEF CurrentVersions, Whole
  <2>6. CurrentVersions \in [recorded.backed -> Versions]
    BY <2>4 DEF CurrentVersions
  <2>7. dir[ct(p)].data = Ciphertext(recorded, CurrentVersions, p)
    BY <2>2 DEF Current, Whole
  <2> QED BY <2>1, <2>5, <2>6, <2>7
<1> QED BY <1>1, ProjectInvariant, PTL

(* A replay of a finished recording whose sources could be used and whose  *)
(* worker lives returns true and leaves every complete probe: whatever an  *)
(* earlier replay was killed at, refresh_stale_inputs() makes good.        *)
THEOREM ProjectReplayRecovers ==
  ASSUME Disciplined
  PROVE  Spec => []ReplayRecovers
<1>1. IInv => ReplayRecovers
  <2> SUFFICES ASSUME IInv, stage = "done", ~cut, IsWhole(replay_json), IsWhole(cryptocontext),
                      \A n \in Tagged(recorded) : IsWhole(ids(n)),
                      \A n \in recorded.backed : seen[n] # None,
                      \E p \in Range(recorded.probes) : Complete(recorded, p)
               PROVE  /\ outcome = "true"
                      /\ \A p \in Range(recorded.probes) : Complete(recorded, p) => IsWhole(ct(p))
    BY DEF ReplayRecovers
  <2>1. ~Excused
    BY DEF Excused, Finished
  <2>2. outcome = "true"
    BY <2>1 DEF IInv, Types, TypeOK, Replays, Ended
  <2>3. \A p \in Range(recorded.probes) : Complete(recorded, p) => dir[ct(p)] = Whole(Current(p))
    BY <2>2 DEF IInv, Replays, Ended
  <2>4. ASSUME NEW p \in Range(recorded.probes), Complete(recorded, p) PROVE IsWhole(ct(p))
    <3>1. dir[ct(p)] = Whole(Current(p))
      BY <2>3, <2>4
    <3> QED BY <3>1 DEF IsWhole, Whole
  <2> QED BY <2>2, <2>4
<1> QED BY <1>1, ProjectInvariant, PTL
=============================================================================
