---------------------------- MODULE VorbisEncoder ----------------------------
(***************************************************************************)
(* encode and out_buffer in src/vorbisencoder/encoder.c: libvorbis keeps   *)
(* samples until they fill an Ogg page; a page goes to encoded_buffer and  *)
(* moves granulepos to its end, and what fits of encoded_buffer is handed  *)
(* to the caller.  An encoded byte is counted as the sample it stands for, *)
(* and a sample is known by its number since the server started.           *)
(***************************************************************************)
EXTENDS Integers

CONSTANTS OutCap   \* samples whose encoding fits the caller's 20000 bytes

ASSUME VorbisAssumption == OutCap \in Nat \ {0}

VARIABLES granulepos,   \* samples on the pages made so far
          handed,       \* samples handed out: encoded_buffer has those between
          chunk,        \* the last Chunk of streamVorbis: its encoderPos and its first sample
          overflowed    \* a call left something in encoded_buffer (history)

vorbisVars == <<granulepos, handed, chunk, overflowed>>

VorbisInit ==
    /\ granulepos = 0 /\ handed = 0
    /\ chunk = [encoderPos |-> 0, first |-> 0]
    /\ overflowed = FALSE

AtMost(a, b) == IF a < b THEN a ELSE b

\* write_page: libvorbis may have made pages of the samples it was given.
MakePages(given) == \E g \in granulepos .. given : granulepos' = g

\* out_buffer: what fits the caller's slice.
HandOut ==
    /\ handed' = AtMost(handed + OutCap, granulepos')
    /\ overflowed' = (overflowed \/ handed' < granulepos')

\* A Chunk is made when there was output.
MakeChunk(pos) ==
    chunk' = IF handed' = handed THEN chunk ELSE [encoderPos |-> pos, first |-> handed]

\* Variant of VorbisEncode: the position is asked for after the call.
VorbisEncodePosAfter(given) == MakePages(given) /\ HandOut /\ MakeChunk(granulepos')

\* pos := GranulePos(), then Encode with the samples up to "given": out_buffer is
\* called before the new samples are analysed and after it.
VorbisEncode(given) == MakePages(given) /\ HandOut /\ MakeChunk(granulepos)

-----------------------------------------------------------------------------
(* Property. *)

\* "startPos should contains the number of the first audio frame sent to the audio
\* stream": the encoderPos of a Chunk, which becomes startPos, is the number of its
\* first sample, as long as every call's output has fitted its 20000 bytes.
ChunkStartsAtPos == ~overflowed => chunk.encoderPos = chunk.first
=============================================================================
