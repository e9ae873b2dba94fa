------------------------------ MODULE Decoder ------------------------------
(***************************************************************************)
(* The life of an AVDecoder: src/streamdecoder/streamdecoder.go and        *)
(* decoder.c.  It is opened in a dozen steps, each of which may fail and   *)
(* then has to give back what the ones before it obtained.                 *)
(*                                                                         *)
(* A read asks for a number of samples, libav yields them packet by packet *)
(* in frames of another size, and what a frame has too much is kept in     *)
(* decoded_buffer for the next read.                                       *)
(*                                                                         *)
(* The sound of a track is 1, 2, 3, ...: the samples in the order in which *)
(* they are decoded.  The module has no next-state relation of its own:    *)
(* preloadTrack reads (module Pipeline).                                   *)
(***************************************************************************)
EXTENDS Integers, Sequences, SequencesExt

CONSTANTS ReadLen,    \* samples a read asks for (3840 bytes)
          BufferSize, \* samples decoded_buffer has room for (16384 bytes)
          MaxFrame,   \* samples in a decoded frame, at most
          MaxPacket   \* bound: packets in the container

ASSUME DecoderAssumption ==
    /\ ReadLen \in Nat \ {0}
    /\ BufferSize \in Nat
    /\ MaxFrame \in Nat \ {0}
    /\ MaxPacket \in Nat

VARIABLES decoder,    \* "opening", "failed", "open" or "closed"
          got,        \* what was obtained for it
          freed,      \* what was given back: pairs of the place and the thing
          reading,    \* decoder_read: "no", in its "loop", or out of it: "stop";
                      \* or the process ended there: "aborted", "faulted"
          out,        \* the samples it has copied out
          leftover,   \* decoded_ptr .. decoded_end
          packets,    \* packets read from the container
          made,       \* samples decoded
          errRead,    \* the decoder has answered io.EOF
          delivered   \* all that reads have returned (history)

lifeVars    == <<decoder, got, freed>>
decoderVars == <<lifeVars, reading, out, leftover, packets, made, errRead, delivered>>

Sound(n) == [i \in 1 .. n |-> i]

\* track.Stream has opened the body, and the decoder has a handle C may keep.
DecoderInit ==
    /\ decoder = "opening" /\ got = {"stream", "pointer"} /\ freed = {}
    /\ reading = "no"
    /\ out = <<>> /\ leftover = <<>>
    /\ packets = 0 /\ made = 0
    /\ errRead = FALSE
    /\ delivered = <<>>

DecoderTypeOK ==
    /\ decoder \in {"opening", "failed", "open", "closed"}
    /\ reading \in {"no", "loop", "stop", "aborted", "faulted"}
    /\ Len(out) <= ReadLen /\ Len(leftover) < MaxFrame /\ Len(leftover) <= BufferSize
    /\ packets \in 0 .. MaxPacket /\ made \in 0 .. MaxPacket * MaxFrame
    /\ errRead \in BOOLEAN

-----------------------------------------------------------------------------
(* decoder_new and decoder_close. *)

\* What each cleanup label gives back.
GivesBack == << {}, {"dec"}, {"ioBuffer"}, {"ioBuffer", "ioctx"}, {"container"}, {"codec"},
                {"swr"}, {"packet"}, {"frame"} >>

\* Variant of Passes: cleanup_4 falls through to cleanup_3.
FallsThrough(label) == 1 .. label

\* The labels passed: each falls through to the one below it, but cleanup_4 goes
\* to cleanup_2.
Passes(label) == IF label > 3 THEN (1 .. label) \ {3} ELSE 1 .. label

Cleanup(label) == UNION {{l} \X GivesBack[l] : l \in Passes(label)}

\* The steps: what each obtains, and where it goes if it fails.  The three after
\* the container obtain nothing more: a failing avformat_open_input frees the
\* container itself, which comes to the same as cleanup_5; then there is the
\* search for an audio stream and for its codec; likewise avcodec_open2 (with the
\* copy of its extradata, which goes with the codec) and swr_init.
Step(what, label) == [gets |-> what, onFailure |-> label]
Steps == << Step({"dec"}, 1), Step({"ioBuffer"}, 2), Step({"ioctx"}, 3),
            Step({"container"}, 4), Step({}, 5), Step({"codec"}, 5), Step({}, 6),
            Step({"swr"}, 6), Step({}, 7), Step({"packet"}, 7), Step({"frame"}, 8),
            Step({"decodedBuffer"}, 9) >>

Obtained(n) == UNION {Steps[i].gets : i \in 1 .. n}

\* decoder_new succeeds ...
Open ==
    /\ decoder = "opening"
    /\ decoder' = "open"
    /\ got' = got \cup Obtained(Len(Steps))
    /\ UNCHANGED <<freed, reading, out, leftover, packets, made, errRead, delivered>>

\* ... or fails at one of its steps, with all it has obtained before.
OpenFails ==
    /\ decoder = "opening"
    /\ decoder' = "failed"
    /\ \E n \in DOMAIN Steps :
          /\ got' = got \cup Obtained(n - 1)
          /\ freed' = Cleanup(Steps[n].onFailure)
    /\ UNCHANGED <<reading, out, leftover, packets, made, errRead, delivered>>

\* What decoder_close gives back.
DecoderClose == {"decodedBuffer", "frame", "packet", "swr", "codec", "container", "ioBuffer",
                 "ioctx", "dec"}

\* AVDecoder.Close: decoder_close, the handle, and the body.
Close ==
    /\ decoder' = "closed"
    /\ freed' = {0} \X (DecoderClose \cup {"pointer", "stream"})
    /\ UNCHANGED <<got, reading, out, leftover, packets, made, errRead, delivered>>

-----------------------------------------------------------------------------
(* AVDecoder.Read and decoder_read. *)

FirstOf(s, n) == SubSeq(s, 1, IF n < Len(s) THEN n ELSE Len(s))
RestOf(s, n)  == SubSeq(s, n + 1, Len(s))

\* Variant of StartRead: what is left over is not looked at.
StartReadAfresh ==
    /\ reading = "no" /\ ~errRead
    /\ reading' = "loop"
    /\ out' = <<>>
    /\ UNCHANGED <<lifeVars, leftover, packets, made, errRead, delivered>>

\* Read is called: what is left over comes first.
StartRead ==
    /\ reading = "no" /\ ~errRead
    /\ reading' = "loop"
    /\ out' = FirstOf(leftover, ReadLen)
    /\ leftover' = RestOf(leftover, ReadLen)
    /\ UNCHANGED <<lifeVars, packets, made, errRead, delivered>>

\* av_read_frame finds a packet, unless enough was copied.
Packet ==
    /\ reading = "loop"
    /\ Len(out) < ReadLen
    /\ packets < MaxPacket
    /\ packets' = packets + 1

\* A packet of another stream, or one that completes no frame.
SkipPacket ==
    /\ Packet
    /\ UNCHANGED <<lifeVars, reading, out, leftover, made, errRead, delivered>>

\* A packet libav cannot decode, or no memory for its frame, ends the read.
BadPacket ==
    /\ Packet
    /\ reading' = "stop"
    /\ UNCHANGED <<lifeVars, out, leftover, made, errRead, delivered>>

\* swr_convert fails or yields no sample: av_samples_get_buffer_size is negative and
\* so is the size that memcpy is given, which no memory has.
ConversionFails ==
    /\ Packet
    /\ reading' = "faulted"
    /\ UNCHANGED <<lifeVars, out, leftover, made, errRead, delivered>>

\* What a frame of n samples has too much, if there is still room for some.
Rest(n) == n - (ReadLen - Len(out))

\* More is left over than decoded_buffer holds: assert ends the whole server.
LeftoverTooLong(n) ==
    /\ Packet
    /\ Rest(n) > BufferSize
    /\ reading' = "aborted"
    /\ UNCHANGED <<lifeVars, out, leftover, made, errRead, delivered>>

\* A frame of n samples: as many as there is room for are copied out.
DecodeFrame(n) ==
    LET frame == [i \in 1 .. n |-> made + i]
        room  == ReadLen - Len(out)
    IN /\ Packet
       /\ Rest(n) <= BufferSize
       /\ made' = made + n
       /\ out' = out \o FirstOf(frame, room)
       /\ leftover' = IF room < n THEN RestOf(frame, room) ELSE leftover
       /\ UNCHANGED <<lifeVars, reading, errRead, delivered>>

\* av_read_frame fails: the container ends here, or the source broke off (d.err
\* keeps it from being read again).
EndOfInput ==
    /\ reading = "loop"
    /\ Len(out) < ReadLen
    /\ packets' = MaxPacket
    /\ reading' = "stop"
    /\ UNCHANGED <<lifeVars, out, leftover, made, errRead, delivered>>

DecoderRead ==
    \/ SkipPacket \/ BadPacket \/ EndOfInput \/ ConversionFails
    \/ \E n \in 1 .. MaxFrame : DecodeFrame(n) \/ LeftoverTooLong(n)

\* The process has survived its reads.
Alive == reading \notin {"aborted", "faulted"}

\* Read returns what was copied; nothing at all is taken for the end.
EndRead ==
    /\ reading = "stop" \/ (reading = "loop" /\ Len(out) = ReadLen)
    /\ reading' = "no"
    /\ errRead' = (out = <<>>)
    /\ delivered' = delivered \o out
    /\ UNCHANGED <<lifeVars, out, leftover, packets, made>>

-----------------------------------------------------------------------------
(* Properties. *)

\* What reads return is the sound in order and without a gap, however the sizes
\* of reads and frames fall, as long as no frame has more left over than
\* decoded_buffer holds and every one can be converted: there the process ends.
\* The rest is in the decoder, and nothing is when it says that the track has ended.
DecoderLosesNothing ==
    /\ delivered \o (IF reading = "no" THEN <<>> ELSE out) \o leftover = Sound(made)
    /\ errRead => leftover = <<>>

\* Wherever decoder_new fails it has given back all it had obtained, nothing twice,
\* and so has Close for a decoder that was opened.  (When decoder_new fails,
\* NewAVDecoder keeps the handle and nobody closes the body.)
ResourcesReturned ==
    LET returned(kept) == /\ {f[2] : f \in freed} = got \ kept
                          /\ \A f, g \in freed : f[2] = g[2] => f = g
    IN /\ decoder = "failed" => returned({"stream", "pointer"})
       /\ decoder = "closed" => returned({})
       /\ decoder = "open"   => freed = {}
=============================================================================
