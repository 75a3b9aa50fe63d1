----------------------------- MODULE ByteBuffer -----------------------------
(***************************************************************************)
(* game/demonware/byte_buffer.cpp, the format of the emulated online       *)
(* services: one program writes some fields, the other reads fields of the *)
(* same kinds from the bytes it gets. A value is the sequence of its       *)
(* bytes, lowest first.                                                    *)
(***************************************************************************)
EXTENDS Integers, SequencesExt

CONSTANTS
  ByteFields,  \* what may be written: kinds with values
  MaxFields    \* bound on the fields of a message

ByteMarker ==
  [bool |-> 1, byte |-> 3, int16 |-> 5, uint16 |-> 6, int32 |-> 7, uint32 |-> 8,
   int64 |-> 9, uint64 |-> 10, float |-> 13, string |-> 16, blob |-> 19, array |-> 108]
Fixed ==
  [bool |-> 1, byte |-> 1, int16 |-> 2, uint16 |-> 2, int32 |-> 4, uint32 |-> 4,
   int64 |-> 8, uint64 |-> 8, float |-> 4]

MaxInt == 2147483647

\* Lengths are an int in the code, a C string has no zero. The value of an
\* array's header is its count, not zero as the reader divides by it, of
\* elements of four bytes.
ASSUME ByteFieldsAssumption ==
  /\ MaxFields \in Nat
  /\ \A field \in ByteFields :
       \/ /\ field.kind \in DOMAIN Fixed
          /\ field.value \in Seq(0 .. 255) /\ Len(field.value) = Fixed[field.kind]
       \/ field.kind = "string" /\ field.value \in Seq(1 .. 255)
       \/ field.kind = "blob" /\ field.value \in Seq(0 .. 255) /\ Len(field.value) <= MaxInt
       \/ field.kind = "array" /\ field.value \in Seq(1 .. MaxInt \div 4) /\ Len(field.value) = 1

VARIABLES
  types,        \* use_data_types_ of the writer, which the reader begins with
  readerTypes,  \* use_data_types_ of the reader
  bytes,        \* buffer_
  currentByte,  \* current_byte_ of the reader; the writer appends
  written,      \* history: the fields written
  read,         \* history: the values read, in order
  reading

byteVars == <<types, readerTypes, bytes, currentByte, written, read, reading>>

ByteInit ==
  /\ types \in BOOLEAN /\ readerTypes = types
  /\ bytes = <<>> /\ currentByte = 0
  /\ written = <<>> /\ read = <<>> /\ reading = FALSE

----------------------------------------------------------------------------
(* Writing *)

Shifted(n) == n \div 256
Uint32(n) ==
  <<n % 256, Shifted(n) % 256, Shifted(Shifted(n)) % 256, Shifted(Shifted(Shifted(n)))>>
Marker(marked, kind) == IF marked THEN <<ByteMarker[kind]>> ELSE <<>>

\* The header of an array of uint32 has its marker and the size marked, the
\* count not, whatever the buffer's setting.
Encoded(marked, field) ==
  CASE field.kind = "string" -> Marker(marked, "string") \o field.value \o <<0>>
    [] field.kind = "blob" ->
         Marker(marked, "blob") \o Marker(marked, "uint32") \o Uint32(Len(field.value)) \o field.value
    [] field.kind = "array" ->
         Marker(TRUE, "array") \o Marker(TRUE, "uint32") \o Uint32(4 * field.value[1]) \o Uint32(field.value[1])
    [] OTHER -> Marker(marked, field.kind) \o field.value

Write ==
  /\ ~reading /\ Len(written) < MaxFields
  /\ \E field \in ByteFields :
       /\ bytes' = bytes \o Encoded(types, field)
       /\ written' = Append(written, field)
  /\ UNCHANGED <<types, readerTypes, currentByte, read, reading>>

Send ==
  /\ ~reading
  /\ reading' = TRUE
  /\ UNCHANGED <<types, readerTypes, bytes, currentByte, written, read>>

----------------------------------------------------------------------------
(* Reading *)

\* read: n bytes after the reader's position
Bytes(from, n) == SubSeq(bytes, from + 1, from + n)

Number(from) ==
  bytes[from + 1] + 256 * (bytes[from + 2] + 256 * (bytes[from + 3] + 256 * bytes[from + 4]))

\* The length of a string is found by its zero; a buffer has one at its end.
Zero(from) == Min({i \in from + 1 .. Len(bytes) : bytes[i] = 0} \cup {Len(bytes) + 1})

Marks == IF readerTypes THEN 1 ELSE 0
HasMarker(from, kind) == from < Len(bytes) /\ bytes[from + 1] = ByteMarker[kind]

\* What a read needs to succeed. A string is looked for, not tested. A read that
\* goes on past the end, with a size or a count it could not read, or divides by
\* zero, has no value either.
Readable(field) ==
  LET from == currentByte + Marks IN
  /\ readerTypes => HasMarker(currentByte, field.kind)
  /\ field.kind \in DOMAIN Fixed => from + Fixed[field.kind] <= Len(bytes)
  /\ field.kind = "blob" =>
       /\ readerTypes => HasMarker(from, "uint32")
       /\ from + Marks + 4 <= Len(bytes)
       /\ from + Marks + 4 + Number(from + Marks) <= Len(bytes)
  /\ field.kind = "array" =>
       /\ readerTypes => HasMarker(from, "uint32")
       /\ from + Marks + 8 <= Len(bytes)
       /\ Number(from + Marks + 4) # 0

Unreadable == <<-1>>

\* read_array_header skips the markers only with the types on.
ReadField(field) ==
  LET from == currentByte + Marks IN
  \/ /\ field.kind \in DOMAIN Fixed
     /\ read' = Append(read, Bytes(from, Fixed[field.kind]))
     /\ currentByte' = from + Fixed[field.kind]
  \/ /\ field.kind = "string"
     /\ read' = Append(read, Bytes(from, Zero(from) - from - 1))
     /\ currentByte' = Zero(from)
  \/ /\ field.kind = "blob"
     /\ LET size == Number(from + Marks) IN
        /\ read' = Append(read, Bytes(from + Marks + 4, size))
        /\ currentByte' = from + Marks + 4 + size
  \/ /\ field.kind = "array"
     /\ LET count == Number(from + Marks + 4) IN
        read' = Append(read, <<count, Number(from + Marks) \div count>>)
     /\ currentByte' = from + Marks + 8

\* The reader asks for the kind that was written, and no further after a failure.
\* An array's header leaves its types on.
Read ==
  /\ reading /\ Len(read) < Len(written) /\ Unreadable \notin ToSet(read)
  /\ LET field == written[Len(read) + 1] IN
     IF Readable(field) THEN ReadField(field) /\ readerTypes' = (readerTypes \/ field.kind = "array")
     ELSE read' = Append(read, Unreadable) /\ UNCHANGED <<currentByte, readerTypes>>
  /\ UNCHANGED <<types, bytes, written, reading>>

ByteNext == Write \/ Send \/ Read

ByteSpec == ByteInit /\ [][ByteNext]_byteVars
----------------------------------------------------------------------------
(* Properties *)

\* What an array's header says: how many elements, of which size.
Meaning(field) == IF field.kind = "array" THEN <<field.value[1], 4>> ELSE field.value

\* No array is among the first n fields, or arrays are written with the types on.
ArraysMarked(n) == types \/ \A i \in 1 .. n : written[i].kind # "array"

\* The other side reads what was written, whatever fields lie before it, with the
\* types on or off, up to an array that is written with the types off: its header
\* has markers nevertheless, which the reader takes for the size.
BytesReadBack == \A i \in DOMAIN read : ArraysMarked(i) => read[i] = Meaning(written[i])
=============================================================================
