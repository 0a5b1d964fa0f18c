---------------------------- MODULE TraceWriter -----------------------------
(***************************************************************************)
(* The trace writer (src/trace_writer.cpp).  Each public method takes the  *)
(* writer's mutex for its whole body, so each is one operator from a       *)
(* writer to a writer, and a caller that makes two calls is interleaved    *)
(* between them.                                                           *)
(*                                                                         *)
(* table[i + 1] is modulus_table_[i]; entry 1 is the copy sentinel.  An    *)
(* instruction carries its modulus by index (idx).                         *)
(***************************************************************************)
EXTENDS Naturals, Sequences, FiniteSets

CONSTANT CopyModulus   (* COPY_MODULUS_VALUE, larger than every modulus    *)
ASSUME CopyModulusAssumption == CopyModulus \in Nat

NewWriter == [recording |-> FALSE, paused |-> FALSE,
              instructions |-> <<>>, table |-> <<CopyModulus>>]

StartRecording(w) == [w EXCEPT !.recording = TRUE, !.paused = FALSE]
StopRecording(w)  == [w EXCEPT !.recording = FALSE, !.paused = FALSE]
PauseRecording(w) == [w EXCEPT !.paused = TRUE]
ResumeRecording(w) == [w EXCEPT !.paused = FALSE]

Moduli(w) == {w.table[i] : i \in DOMAIN w.table}

(* The index a registered modulus has. *)
IndexOf(w, q) == (CHOOSE i \in DOMAIN w.table : w.table[i] = q) - 1

(* register_modulus(): the table afterwards; the index is IndexOf of it. *)
RegisterModulus(w, q) ==
  IF q \in Moduli(w) THEN w ELSE [w EXCEPT !.table = Append(@, q)]

(* emit() *)
Accepts(w) == w.recording /\ ~w.paused
Emit(w, inst) ==
  IF Accepts(w) THEN [w EXCEPT !.instructions = Append(@, inst)] ELSE w

(* Variant: descending. *)
SortedIndexDown(w, q) ==
  IF q = CopyModulus THEN 0
  ELSE Cardinality({p \in Moduli(w) \ {CopyModulus} : p >= q})

(* The index a modulus gets when the regular ones are sorted ascending. *)
SortedIndex(w, q) ==
  IF q = CopyModulus THEN 0
  ELSE Cardinality({p \in Moduli(w) \ {CopyModulus} : p <= q})

(* Variant: the recorded instructions keep their old indices. *)
NormalizeTableOnly(w) ==
  [w EXCEPT !.table = [i \in DOMAIN w.table |->
                         CHOOSE q \in Moduli(w) : SortedIndex(w, q) = i - 1]]

(* normalize_modulus_table(): sort the table and remap every index into it. *)
Normalize(w) ==
  [w EXCEPT
     !.table = [i \in DOMAIN w.table |->
                  CHOOSE q \in Moduli(w) : SortedIndex(w, q) = i - 1],
     !.instructions =
        [k \in DOMAIN w.instructions |->
           LET inst == w.instructions[k] IN
           IF inst.idx + 1 \in DOMAIN w.table
           THEN [inst EXCEPT !.idx = SortedIndex(w, w.table[inst.idx + 1])]
           ELSE inst]]

(* What write() puts in the file once it has normalised. *)
Written(w) == [table |-> w.table, instructions |-> w.instructions]

(* clear(): the recording flags survive. *)
Clear(w) == [w EXCEPT !.instructions = <<>>, !.table = <<CopyModulus>>]
=============================================================================
