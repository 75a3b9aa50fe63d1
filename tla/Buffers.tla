------------------------------ MODULE Buffers ------------------------------
(***************************************************************************)
(* The two formats of the emulated online services, byte_buffer.cpp and    *)
(* bit_buffer.cpp, each with its writer and its reader.                    *)
(***************************************************************************)
EXTENDS ByteBuffer, BitBuffer

\* The other side reads what was written, in both formats, as long as no array is
\* written without types.
ReadsWhatWasWritten == BytesReadBack /\ BitsReadBack
=============================================================================
