------------------------------ MODULE ZcfParser ------------------------------
(***************************************************************************)
(* What zcf_config.c finds in the bytes of a ZCF: the sections of control  *)
(* records, with their outputs, and the section of the loads, with the     *)
(* names of the outputs.                                                   *)
(*                                                                         *)
(* The format says nowhere where a section begins.  Every offset of the    *)
(* file is tried, and a section is taken when its records fill it exactly. *)
(* Offsets are counted from 0, as in the code.                             *)
(***************************************************************************)
EXTENDS Integers, SequencesExt

CONSTANTS
  Word,                \* a size_t or uint32_t counts modulo Word
  ZCF_MAX_FILE_BYTES,  \* larger files are not parsed
  ZCF_NAME_MAX         \* room for a name and its end

ASSUME ZcfParserAssumption ==
  /\ ZCF_MAX_FILE_BYTES \in Nat \ {0}
  /\ Word \in Nat /\ Word >= 4 * ZCF_MAX_FILE_BYTES + 524288
  /\ ZCF_NAME_MAX \in Nat \ {0}

UINT8_MAX  == 255
UINT16_MAX == 65535
LEVEL_MAX  == 1023   \* of a level of 10 bits

Buffer == {buf \in Seq(0 .. UINT8_MAX) : Len(buf) <= ZCF_MAX_FILE_BYTES}

Plus(a, b) == (a + b) % Word

Byte(buf, i) == buf[i + 1]
U16(buf, i)  == Byte(buf, i) + 256 * Byte(buf, i + 1)
U32(buf, i)  == (U16(buf, i) + 65536 * U16(buf, i + 2)) % Word

\* copy_name: n bytes from offset i, as far as there is room.
NameOf(buf, i, n) == SubSeq(buf, i + 1, i + (IF n >= ZCF_NAME_MAX THEN ZCF_NAME_MAX - 1 ELSE n))
-----------------------------------------------------------------------------
(* The loads: [u32 length][u16 count][h], then records of h bytes, the     *)
(* first two the channel address, the last the length of the name after it *)

NameLen(buf, o, h) == Byte(buf, o + h - 1)

LoadFits(buf, o, end, h) ==
  /\ Plus(o, h) <= end
  /\ Plus(Plus(o, h), NameLen(buf, o, h)) <= end

NextLoad(buf, o, h) == Plus(Plus(o, h), NameLen(buf, o, h))

\* The offsets of the records from o on that lie before the end, one after another.
LoadsFrom(buf, start, end, h) ==
  LET from[o \in 0 .. Len(buf)] ==
        IF LoadFits(buf, o, end, h) THEN <<o>> \o from[NextLoad(buf, o, h)] ELSE <<>>
  IN from[start]

LoadsHeader(buf, i) ==
  /\ U32(buf, i) \in 8 .. Len(buf)
  /\ Plus(Plus(i, 4), U32(buf, i)) <= Len(buf)
  /\ U16(buf, i + 4) \in 1 .. 4000
  /\ Byte(buf, i + 6) \in 15 .. 24

LoadRecords(buf, i) ==
  LoadsFrom(buf, i + 7, Plus(Plus(i, 4), U32(buf, i)), Byte(buf, i + 6))

\* A record whose name is longer than one byte and begins with a printable one.
Named(buf, o, h) == NameLen(buf, o, h) >= 2 /\ Byte(buf, o + h) \in 32 .. 126

LoadsSectionOk(buf, i) ==
  LET q == LoadRecords(buf, i)
      h == Byte(buf, i + 6)
  IN /\ Len(q) = U16(buf, i + 4)
     /\ NextLoad(buf, q[Len(q)], h) = Plus(Plus(i, 4), U32(buf, i))
     /\ Cardinality({k \in DOMAIN q : Named(buf, q[k], h)}) >= Len(q) \div 2

\* Mutant of BestLoads: the last of the largest.
LastLoads(buf) ==
  LET valid == {i \in 6 .. Len(buf) - 8 : LoadsHeader(buf, i) /\ LoadsSectionOk(buf, i)}
  IN {i \in valid : \A j \in valid : j <= i}

\* find_best_loads_section: the first of those with the most records, if any.
BestLoads(buf) ==
  LET valid   == {i \in 6 .. Len(buf) - 8 : LoadsHeader(buf, i) /\ LoadsSectionOk(buf, i)}
      largest == {i \in valid : \A j \in valid : U16(buf, j + 4) <= U16(buf, i + 4)}
  IN {i \in largest : \A j \in largest : i <= j}

\* lookup_load_name: the name of the first load at an address, or no name.
NameInLoads(buf, i, address) ==
  LET q     == LoadRecords(buf, i)
      h     == Byte(buf, i + 6)
      there == {k \in DOMAIN q : U16(buf, q[k]) = address}
      first == CHOOSE k \in there : \A j \in there : k <= j
  IN IF there = {} THEN <<>> ELSE NameOf(buf, q[first] + h, NameLen(buf, q[first], h))

LoadName(buf, address) ==
  IF BestLoads(buf) = {} THEN <<>>
  ELSE NameInLoads(buf, CHOOSE i \in BestLoads(buf) : TRUE, address)
-----------------------------------------------------------------------------
(* A control record: circuit, six bytes, name with its length; commanders  *)
(* with their length; outputs with their length and count, five bytes each *)

NameAt(o)            == Plus(o, 8)
CmdLenAt(buf, o)     == Plus(NameAt(o), Byte(buf, o + 7))
CmdAt(buf, o)        == Plus(CmdLenAt(buf, o), 4)
OutLenAt(buf, o)     == Plus(CmdAt(buf, o), U32(buf, CmdLenAt(buf, o)))
OutLen(buf, o)       == U32(buf, OutLenAt(buf, o))
OutCount(buf, o)     == U16(buf, OutLenAt(buf, o) + 4)
OutAt(buf, o)        == Plus(OutLenAt(buf, o), 6)
NextRecord(buf, o)   == Plus(Plus(OutLenAt(buf, o), 4), OutLen(buf, o))

NameFits(o, end)            == NameAt(o) <= end
CmdLenFits(buf, o, end)     == CmdAt(buf, o) <= end
CommandersFit(buf, o, end)  ==
  /\ U32(buf, CmdLenAt(buf, o)) <= end - CmdAt(buf, o)
  /\ OutAt(buf, o) <= end
OutputsFit(buf, o, end) ==
  /\ OutLen(buf, o) >= 2
  /\ OutLen(buf, o) <= end - Plus(OutLenAt(buf, o), 4)

RecordFits(buf, o, end) ==
  /\ NameFits(o, end)
  /\ CmdLenFits(buf, o, end)
  /\ CommandersFit(buf, o, end)
  /\ OutputsFit(buf, o, end)

RecordsFrom(buf, start, end) ==
  LET from[o \in 0 .. Len(buf)] ==
        IF RecordFits(buf, o, end) THEN <<o>> \o from[NextRecord(buf, o)] ELSE <<>>
  IN from[start]

\* Mutant of HasChannels: a scene's outputs are taken for channels.
AnyOutputs(buf, o) == OutLen(buf, o) >= 2 + 5 * OutCount(buf, o)

\* Records of scenes and modes have outputs of another kind, and of another length.
HasChannels(buf, o) == OutLen(buf, o) = (2 + 5 * OutCount(buf, o)) % Word

OutputAt(buf, o, j) ==
  LET e == OutAt(buf, o) + 5 * (j - 1)
  IN [circuit |-> Byte(buf, o),
      address |-> U16(buf, e),
      level   |-> U16(buf, e + 2) % (LEVEL_MAX + 1),
      name    |-> NameOf(buf, NameAt(o), Byte(buf, o + 7)),
      load    |-> LoadName(buf, U16(buf, e))]

Outputs(buf, o) ==
  IF HasChannels(buf, o)
  THEN FlattenSeq([j \in 1 .. OutCount(buf, o) |-> <<OutputAt(buf, o, j)>>])
  ELSE <<>>

\* The marker 08 ?? 05 0E at offset i, after the length and the count of a section.
SectionEnd(buf, i) == Plus(i - 2, U32(buf, i - 6))

Marked(buf, i) ==
  /\ Byte(buf, i) = 8 /\ Byte(buf, i + 2) = 5 /\ Byte(buf, i + 3) = 14
  /\ U32(buf, i - 6) >= 6
  /\ U16(buf, i - 2) # 0
  /\ SectionEnd(buf, i) <= Len(buf)
  /\ SectionEnd(buf, i) > i

\* What parse_control_records goes through at marker i: the outputs, in their
\* order, of all records up to the first that does not fit, and whether the
\* records are as many as they should be and fill the section.
SectionAt(buf, i) ==
  LET count == U16(buf, i - 2)
      found == RecordsFrom(buf, i + 4, SectionEnd(buf, i))
      taken == SubSeq(found, 1, IF Len(found) < count THEN Len(found) ELSE count)
  IN [outputs |-> FlattenSeq([k \in DOMAIN taken |-> Outputs(buf, taken[k])]),
      exact   |-> /\ Len(taken) = count
                  /\ NextRecord(buf, taken[count]) = SectionEnd(buf, i)]

\* zcf_config_load: the sections it tries, at one marker after another.
SectionsOf(buf) ==
  FlattenSeq([i \in 1 .. Len(buf) - 4 |->
                IF i >= 6 /\ Marked(buf, i) THEN <<SectionAt(buf, i)>> ELSE <<>>])

Parsable(buf) == Len(buf) \in 16 .. ZCF_MAX_FILE_BYTES
=============================================================================
