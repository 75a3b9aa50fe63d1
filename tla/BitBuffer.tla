------------------------------ MODULE BitBuffer ------------------------------
(***************************************************************************)
(* game/demonware/bit_buffer.cpp, the other format of the services: fields *)
(* follow each other bit by bit, from the lowest of each byte on, and both *)
(* loops go by the bytes they meet. A byte is the set of its bits, so that *)
(* & is \cap, | is \cup and ~ the complement.                              *)
(***************************************************************************)
EXTENDS Integers, SequencesExt

CONSTANTS
  BitFields,    \* what may be written: kinds with values
  MaxBitFields  \* bound on the fields of a message

Bit == 0 .. 7
BitWidth == [bool |-> 1, int32 |-> 32, uint32 |-> 32]

\* A value fills its bits: a bool is one bit of a byte, numbers have four bytes,
\* and a write of no bytes fails.
ASSUME BitFieldsAssumption ==
  /\ MaxBitFields \in Nat
  /\ \A field \in BitFields :
       /\ field.value \in Seq(SUBSET Bit) /\ field.value # <<>>
       /\ \/ field.kind = "bool" /\ field.value \in {<<{}>>, <<{0}>>}
          \/ field.kind \in {"int32", "uint32"} /\ Len(field.value) = 4
          \/ field.kind = "bytes"

VARIABLES
  bitTypes,    \* use_data_types_ of the writer and of the reader
  bitBuffer,   \* buffer_
  currentBit,  \* current_bit_ of the writer, then of the reader
  pending,     \* the calls of write that the field has yet to make
  bitsLeft,    \* the bits left in the loop of write or read, 0 outside
  puts,        \* history: the calls of write made
  gets,        \* what the calls of read put out, the reader's in the same order
  fields,      \* history: how many fields were written
  bitReading

bitVars == <<bitTypes, bitBuffer, currentBit, pending, bitsLeft, puts, gets, fields, bitReading>>

BitInit ==
  /\ bitTypes \in BOOLEAN
  /\ bitBuffer = <<>> /\ currentBit = 0
  /\ pending = <<>> /\ bitsLeft = 0
  /\ puts = <<>> /\ gets = <<>> /\ fields = 0 /\ bitReading = FALSE

----------------------------------------------------------------------------
(* Bytes *)

LowBits(n) == 0 .. n - 1
ShiftedLeft(byte, n) == {k \in Bit : k - n \in byte}
ShiftedRight(byte, n) == {k \in Bit : k + n \in byte}
AtMost(m, n) == IF m < n THEN m ELSE n

----------------------------------------------------------------------------
(* Writing *)

Put(n, value) == [bits |-> n, data |-> value]

BitMarker == [bool |-> {0}, int32 |-> {0, 1, 2}, uint32 |-> {3}]

\* write_bool, write_int32, write_uint32 and write_bytes, which has no type
Puts(field) ==
  IF field.kind = "bytes" THEN <<Put(8 * Len(field.value), field.value)>>
  ELSE (IF bitTypes THEN <<Put(5, <<BitMarker[field.kind]>>)>> ELSE <<>>)
       \o <<Put(BitWidth[field.kind], field.value)>>

WriteField ==
  /\ ~bitReading /\ pending = <<>> /\ fields < MaxBitFields
  /\ fields' = fields + 1
  /\ \E field \in BitFields : pending' = Puts(field)
  /\ UNCHANGED <<bitTypes, bitBuffer, currentBit, bitsLeft, puts, gets, bitReading>>

\* write makes room first, with zeroes.
BeginWrite ==
  /\ ~bitReading /\ pending # <<>> /\ bitsLeft = 0
  /\ bitsLeft' = Head(pending).bits
  /\ bitBuffer' = bitBuffer \o [i \in 1 .. Head(pending).bits \div 8 + 1 |-> {}]
  /\ UNCHANGED <<bitTypes, currentBit, pending, puts, gets, fields, bitReading>>

\* The byte that a round leaves: what lies around the bits written stays.
Merged(old, new, bitPos, thisWrite) ==
  LET mask == LowBits(bitPos) \cup (bitPos + thisWrite .. 7) IN
  (ShiftedLeft(new, bitPos) \ mask) \cup (mask \cap old)

\* The eight bits of data that follow the first ones, which are done
ThisData(put, done) ==
  LET thisBit == done % 8
      thisByte == done \div 8 + 1
      nextByte == IF (put.bits - 1) \div 8 >= thisByte THEN put.data[thisByte + 1] ELSE {} IN
  ShiftedLeft(nextByte, 8 - thisBit) \cup ShiftedRight(put.data[thisByte], thisBit)

\* A round of write: the rest of a byte, or of what is left.
WriteRound ==
  LET put == Head(pending)
      bitPos == currentBit % 8
      bytePos == currentBit \div 8 + 1
      thisWrite == AtMost(bitsLeft, 8 - bitPos)
      thisData == ThisData(put, put.bits - bitsLeft) IN
  /\ ~bitReading /\ bitsLeft > 0
  /\ bitBuffer' = [bitBuffer EXCEPT ![bytePos] = Merged(@, thisData, bitPos, thisWrite)]
  /\ currentBit' = currentBit + thisWrite
  /\ bitsLeft' = bitsLeft - thisWrite
  /\ IF bitsLeft' = 0 THEN puts' = Append(puts, put) /\ pending' = Tail(pending)
     ELSE UNCHANGED <<puts, pending>>
  /\ UNCHANGED <<bitTypes, gets, fields, bitReading>>

\* get_buffer cuts the room that is not used; the reader has a buffer of its own.
BitSend ==
  /\ ~bitReading /\ pending = <<>>
  /\ bitReading' = TRUE
  /\ bitBuffer' = SubSeq(bitBuffer, 1, (currentBit + 7) \div 8)
  /\ currentBit' = 0
  /\ UNCHANGED <<bitTypes, pending, bitsLeft, puts, gets, fields>>

----------------------------------------------------------------------------
(* Reading *)

\* The reader asks for the kinds that were written, so for as many bits; a read
\* beyond the end fails and puts nothing out.
BeginRead ==
  /\ bitReading /\ bitsLeft = 0 /\ Len(gets) < Len(puts)
  /\ LET bits == puts[Len(gets) + 1].bits IN
     bitsLeft' = IF currentBit + bits > 8 * Len(bitBuffer) THEN 0 ELSE bits
  /\ gets' = Append(gets, <<>>)
  /\ UNCHANGED <<bitTypes, bitBuffer, currentBit, pending, puts, fields, bitReading>>

\* Mutant: what is below the part of the second byte is not masked.
ThisReadUnmasked ==
  LET minBit == AtMost(bitsLeft, 8)
      thisByte == bitBuffer[currentBit \div 8 + 1]
      remain == currentBit % 8 IN
  IF minBit + remain <= 8 THEN LowBits(minBit) \cap ShiftedRight(thisByte, remain)
  ELSE ShiftedLeft(bitBuffer[currentBit \div 8 + 2], remain) \cup ShiftedRight(thisByte, remain)

\* From one byte or from two
ThisRead ==
  LET minBit == AtMost(bitsLeft, 8)
      thisByte == bitBuffer[currentBit \div 8 + 1]
      remain == currentBit % 8 IN
  IF minBit + remain <= 8 THEN LowBits(minBit) \cap ShiftedRight(thisByte, remain)
  ELSE (LowBits(minBit) \cap ShiftedLeft(bitBuffer[currentBit \div 8 + 2], 8 - remain))
       \cup ShiftedRight(thisByte, remain)

\* A round of read: a byte of output
ReadRound ==
  /\ bitReading /\ bitsLeft > 0
  /\ gets' = [gets EXCEPT ![Len(gets)] = Append(@, ThisRead)]
  /\ currentBit' = currentBit + AtMost(bitsLeft, 8)
  /\ bitsLeft' = bitsLeft - AtMost(bitsLeft, 8)
  /\ UNCHANGED <<bitTypes, bitBuffer, pending, puts, fields, bitReading>>

BitNext == WriteField \/ BeginWrite \/ WriteRound \/ BitSend \/ BeginRead \/ ReadRound

BitSpec == BitInit /\ [][BitNext]_bitVars
----------------------------------------------------------------------------
(* Properties *)

\* The other side reads what was written, markers and values, wherever in a byte
\* they begin and whatever lies before and after them.
BitsReadBack ==
  \A i \in DOMAIN gets : i < Len(gets) \/ bitsLeft = 0 => gets[i] = puts[i].data
=============================================================================
