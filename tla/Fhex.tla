-------------------------------- MODULE Fhex --------------------------------
(***************************************************************************)
(* The binary form of a program (src/fhetch_encoding.cpp): a sequence of   *)
(* bytes holding a prologue, tagged metadata, the modulus table and        *)
(* varint-packed records.                                                  *)
(*                                                                         *)
(* A varint has seven payload bits per byte, as in the code; the 64-bit    *)
(* words it holds are WordBits wide and the 32-bit addresses AddrBits, so  *)
(* that the last byte's spare bits stay as they are (64 = 9 * 7 + 1).      *)
(***************************************************************************)
EXTENDS FhetchProgram, FiniteSetsExt, SequencesExt

CONSTANTS WordBits, AddrBits

ASSUME WidthAssumption ==
  /\ WordBits \in Nat /\ AddrBits \in Nat /\ AddrBits < WordBits
  /\ WordBits % 7 = 1

MaxWord == 2 ^ WordBits - 1
kMaxAddress == 2 ^ AddrBits - 1
kFhexMaxVarintBytes == (WordBits + 6) \div 7
kFhexPrologueBytes == 24
kFhexAlign == 8
kFhexMagic == <<78, 66, 70, 72>>
kFhexVersion == 1

fhex_align_up(n) == ((n + kFhexAlign - 1) \div kFhexAlign) * kFhexAlign

-----------------------------------------------------------------------------
(* Scalars are little-endian, width bytes of them. *)

put_scalar(v, width) ==
  LET Rest[i \in 1 .. width] == IF i = 1 THEN v ELSE Rest[i - 1] \div 256
  IN  [i \in 1 .. width |-> Rest[i] % 256]

(* The scalar of that width at an offset, which counts from 0. *)
get_scalar(bytes, offset, width) ==
  FoldRight(LAMBDA b, acc : b + 256 * acc, SubSeq(bytes, offset + 1, offset + width), 0)

(* Zeros up to the next boundary. *)
Padding(n) == [i \in 1 .. fhex_align_up(n) - n |-> 0]

-----------------------------------------------------------------------------
(* Varints *)

Payload(b) == b % 128
More(b) == b >= 128

put_varint(v) ==
  LET n == CHOOSE m \in 1 .. kFhexMaxVarintBytes :
             v < 128 ^ m /\ (m > 1 => v >= 128 ^ (m - 1))
  IN  [i \in 1 .. n |->
         ((v \div 128 ^ (i - 1)) % 128) + (IF i < n THEN 128 ELSE 0)]

(* Does not fit what the word has left for the i-th byte. *)
Overflows(b, i) == Payload(b) > MaxWord \div 128 ^ i

Failed == [ok |-> FALSE, at |-> 0, v |-> 0]

(* get_varint() at an offset: the first byte that is missing, too large or *)
(* last decides.                                                           *)
get_varint(bytes, at) ==
  LET Short(i) == at + i >= Len(bytes)
      Byte(i) == bytes[at + i + 1]
      Bad(i) == Short(i) \/ Overflows(Byte(i), i)
      Ends == {i \in 0 .. kFhexMaxVarintBytes - 1 : Bad(i) \/ ~More(Byte(i))}
      Through(n) == IF Bad(n) THEN Failed
                    ELSE [ok |-> TRUE, at |-> at + n + 1,
                          v |-> MapThenSumSet(LAMBDA i : Payload(Byte(i)) * 128 ^ i, 0 .. n)]
  IN  IF Ends = {} THEN Failed ELSE Through(Min(Ends))

-----------------------------------------------------------------------------
(* Metadata: for each tag a string (a sequence of bytes) or a number;      *)
(* the empty string and 0 stand for absent.                                *)

StringTags == {1, 2, 3, 4, 5, 6, 7, 16}
NumberTags == 8 .. 13
VersionTag == 14
DateTag    == 15
NoMetadata == [t \in StringTags \cup NumberTags |-> IF t \in StringTags THEN <<>> ELSE 0]

(* The revision a file is written in: a version, a date, or both. *)
NoVersion == <<0, 0, 0>>
NoDate == <<0, 0, 0>>
VersionKnown(spec) == spec.version # NoVersion
DateKnown(spec) == spec.date[1] # 0
SpecValid(spec) == VersionKnown(spec) \/ DateKnown(spec)

(* Version numbers are 16 bits wide in the code. *)
VersionBase == 256
fhex_pack_version(v) == (v[1] * VersionBase + v[2]) * VersionBase + v[3]
fhex_unpack_version(p) == <<(p \div VersionBase ^ 2) % VersionBase, (p \div VersionBase) % VersionBase, p % VersionBase>>
fhex_pack_spec_date(d) == d[1] * 10000 + d[2] * 100 + d[3]
fhex_unpack_spec_date(p) == <<p \div 10000, (p \div 100) % 100, p % 100>>

put_meta_entry(tag, payload) ==
  put_scalar(tag, 2) \o put_scalar(0, 2) \o put_scalar(Len(payload), 4)
    \o payload \o Padding(Len(payload))
put_meta_string(tag, s) == IF s = <<>> THEN <<>> ELSE put_meta_entry(tag, s)
put_meta_u64(tag, n) == IF n = 0 THEN <<>> ELSE put_meta_entry(tag, put_scalar(n, 8))

build_metadata(meta, spec) ==
  (IF VersionKnown(spec) THEN put_meta_u64(VersionTag, fhex_pack_version(spec.version)) ELSE <<>>)
  \o (IF DateKnown(spec) THEN put_meta_u64(DateTag, fhex_pack_spec_date(spec.date)) ELSE <<>>)
  \o FlattenSeq([i \in 1 .. 8 |-> LET tag == <<1, 16, 2, 3, 4, 5, 6, 7>>[i]
                                  IN  put_meta_string(tag, meta[tag])])
  \o FlattenSeq([i \in 1 .. 6 |-> put_meta_u64(i + 7, meta[i + 7])])

(* The entries of the section; one that runs past it, or a number that is  *)
(* not eight bytes, is malformed and is the last.                          *)
MetaEntries(bytes) ==
  LET size == Len(bytes)
      From[at \in 0 .. size + kFhexAlign] ==
        IF at + 8 > size THEN <<>>
        ELSE LET tag == get_scalar(bytes, at, 2)
                 length == get_scalar(bytes, at + 4, 4)
                 next == at + 8 + fhex_align_up(length)
             IN  IF at + 8 + length > size \/ (tag \in 8 .. 15 /\ length # 8)
                 THEN <<[ok |-> FALSE, tag |-> tag, payload |-> <<>>]>>
                 ELSE <<[ok |-> TRUE, tag |-> tag, payload |-> SubSeq(bytes, at + 9, at + 8 + length)]>>
                      \o From[IF next > size THEN size ELSE next]
  IN  From[0]

(* parse_metadata(): the last entry of each tag counts, unknown tags are   *)
(* skipped.                                                                *)
parse_metadata(bytes) ==
  LET Tagged(entries, tag) == SelectSeq(entries, LAMBDA e : e.tag = tag)
      Text(found) == IF found = <<>> THEN <<>> ELSE Last(found).payload
      Number(found) == IF found = <<>> THEN 0 ELSE get_scalar(Last(found).payload, 0, 8)
      Parsed(entries) ==
        [ok |-> \A i \in DOMAIN entries : entries[i].ok,
         meta |-> [t \in DOMAIN NoMetadata |-> IF t \in StringTags THEN Text(Tagged(entries, t))
                                                ELSE Number(Tagged(entries, t))],
         spec |-> [version |-> fhex_unpack_version(Number(Tagged(entries, VersionTag))),
                   date |-> fhex_unpack_spec_date(Number(Tagged(entries, DateTag)))]]
  IN  Parsed(MetaEntries(bytes))

-----------------------------------------------------------------------------
(* Records *)

FlagBit == [HAS_MOD |-> 1, MOD_LITERAL |-> 2, HAS_IMM |-> 4, HAS_SRC2 |-> 8,
            HAS_AUX |-> 16, HAS_LOGN |-> 32]
FlagByte(flags) == MapThenSumSet(LAMBDA f : FlagBit[f], flags)
FlagsIn(b) == {f \in DOMAIN FlagBit : (b \div FlagBit[f]) % 2 = 1}

put_record(r) ==
  <<r.opcode, FlagByte(r.flags)>>
  \o (IF "HAS_LOGN" \in r.flags THEN <<r.logn>> ELSE <<>>)
  \o (IF fh_opcode_has_operands(r.opcode) THEN put_varint(r.dst) \o put_varint(r.src1) ELSE <<>>)
  \o (IF "HAS_SRC2" \in r.flags THEN put_varint(r.src2) ELSE <<>>)
  \o (IF "HAS_MOD" \in r.flags THEN put_varint(r.modulus) ELSE <<>>)
  \o (IF "HAS_IMM" \in r.flags THEN put_varint(r.imm) ELSE <<>>)
  \o (IF "HAS_AUX" \in r.flags THEN put_varint(r.aux) ELSE <<>>)

BlankRecord(op, flags) ==
  [opcode |-> op, flags |-> flags, dst |-> 0, src1 |-> 0, src2 |-> 0,
   modulus |-> 0, imm |-> 0, aux |-> 0, logn |-> 0]

(* A read in progress: one record, and where the next operand is. *)
TakeVarint(bytes, rd, present, field, limit) ==
  LET Put(got) == [ok |-> got.ok /\ got.v <= limit, at |-> got.at,
                   rec |-> [rd.rec EXCEPT ![field] = got.v]]
  IN  IF rd.ok /\ present THEN Put(get_varint(bytes, rd.at)) ELSE rd

(* The operands a record may have, in their order on the wire. *)
WireFields == <<"dst", "src1", "src2", "modulus", "imm", "aux">>
FieldPresent(rec, field) ==
  CASE field \in {"dst", "src1"} -> fh_opcode_has_operands(rec.opcode)
    [] field = "src2" -> "HAS_SRC2" \in rec.flags
    [] field = "modulus" -> "HAS_MOD" \in rec.flags
    [] field = "imm" -> "HAS_IMM" \in rec.flags
    [] field = "aux" -> "HAS_AUX" \in rec.flags
FieldLimit(field) == IF field \in {"dst", "src1", "src2"} THEN kMaxAddress ELSE MaxWord

get_record(bytes, at) ==
  LET OpAndFlags == BlankRecord(bytes[at + 1], FlagsIn(bytes[at + 2]))
      WithLogn(rec) ==
        IF "HAS_LOGN" \notin rec.flags THEN [ok |-> TRUE, at |-> at + 2, rec |-> rec]
        ELSE IF at + 2 >= Len(bytes) THEN [ok |-> FALSE, at |-> at + 2, rec |-> rec]
        ELSE [ok |-> TRUE, at |-> at + 3, rec |-> [rec EXCEPT !.logn = bytes[at + 3]]]
  IN  IF at + 2 > Len(bytes) THEN [ok |-> FALSE, at |-> at, rec |-> BlankRecord(FH_ILL, {})]
      ELSE FoldLeft(LAMBDA rd, field :
                      TakeVarint(bytes, rd, FieldPresent(rd.rec, field), field, FieldLimit(field)),
                    WithLogn(OpAndFlags), WireFields)

-----------------------------------------------------------------------------
(* The whole file *)

encode_fhetch_program(meta, table, records, spec) ==
  LET m == build_metadata(meta, spec) IN
  kFhexMagic \o put_scalar(kFhexVersion, 2) \o put_scalar(0, 2)
    \o put_scalar(Len(m), 4) \o put_scalar(Len(table), 4) \o put_scalar(Len(records), 8)
    \o m \o FlattenSeq([i \in DOMAIN table |-> put_scalar(table[i], 8)])
    \o FlattenSeq([i \in DOMAIN records |-> put_record(records[i])])

Refused(err) == [err |-> err, meta |-> NoMetadata, table |-> <<>>, records |-> <<>>]

(* The declared number of records from an offset on. *)
get_records(bytes, at, count) ==
  LET Put(recs, got) == [ok |-> got.ok, at |-> got.at, recs |-> Append(recs, got.rec)] IN
  FoldLeft(LAMBDA rd, i : IF rd.ok THEN Put(rd.recs, get_record(bytes, rd.at)) ELSE rd,
           [ok |-> TRUE, at |-> at, recs |-> <<>>], [i \in 1 .. count |-> i])

(* The prologue's counts, and where they put the table and the records. *)
Layout(bytes) ==
  LET Of(meta_bytes, modulus_count, count) ==
        [meta_bytes |-> meta_bytes, modulus_count |-> modulus_count, count |-> count,
         modulus_at |-> kFhexPrologueBytes + meta_bytes,
         record_at |-> kFhexPrologueBytes + meta_bytes + modulus_count * 8]
  IN  Of(get_scalar(bytes, 8, 4), get_scalar(bytes, 12, 4), get_scalar(bytes, 16, 8))

Decoded(bytes, at, parsed, read) ==
  [err |-> "None", meta |-> parsed.meta,
   table |-> [i \in 1 .. at.modulus_count |-> get_scalar(bytes, at.modulus_at + 8 * (i - 1), 8)],
   records |-> read.recs]

(* Variant: the records the bytes hold are enough. *)
decode_fhetch_program_Lenient(bytes) ==
  LET Sections(at) ==
        IF at.record_at > Len(bytes) THEN Refused("Truncated")
        ELSE Decoded(bytes, at, parse_metadata(SubSeq(bytes, kFhexPrologueBytes + 1, at.modulus_at)),
                     get_records(bytes, at.record_at, at.count))
  IN  IF Len(bytes) < kFhexPrologueBytes \/ SubSeq(bytes, 1, 4) # kFhexMagic THEN Refused("BadMagic")
      ELSE Sections(Layout(bytes))

decode_fhetch_program(bytes) ==
  LET Body(at, parsed, read) ==
        IF ~parsed.ok THEN Refused("Malformed")
        ELSE IF ~SpecValid(parsed.spec) THEN Refused("MissingSpec")
        ELSE IF ~read.ok THEN Refused("Truncated")
        ELSE Decoded(bytes, at, parsed, read)
      Sections(at) ==
        IF at.meta_bytes % kFhexAlign # 0 THEN Refused("Malformed")
        ELSE IF \/ at.record_at > Len(bytes)
                \/ at.count > (Len(bytes) - at.record_at) \div 2 THEN Refused("Truncated")
        ELSE Body(at, parse_metadata(SubSeq(bytes, kFhexPrologueBytes + 1, at.modulus_at)),
                  get_records(bytes, at.record_at, at.count))
  IN  IF Len(bytes) < kFhexPrologueBytes \/ SubSeq(bytes, 1, 4) # kFhexMagic THEN Refused("BadMagic")
      ELSE IF get_scalar(bytes, 4, 2) # kFhexVersion THEN Refused("UnsupportedVersion")
      ELSE Sections(Layout(bytes))
=============================================================================
