-------------------------- MODULE PipelineProofs --------------------------
(***************************************************************************)
(* Proofs about module Pipeline, for every size of reads, frames, packets, *)
(* channels and encoder output.                                            *)
(***************************************************************************)
EXTENDS Pipeline, SequenceTheorems, TLAPS

Samples == Seq(Int)
Chunk   == [nil : BOOLEAN, samples : Samples]

-----------------------------------------------------------------------------
(* The operators the decoder is built from. *)

\* FirstOf and RestOf cut a sequence of samples in two.
LEMMA Cut ==
  ASSUME NEW s \in Samples, NEW n \in Nat
  PROVE  /\ FirstOf(s, n) \in Samples /\ RestOf(s, n) \in Samples
         /\ s = FirstOf(s, n) \o RestOf(s, n)
         /\ Len(FirstOf(s, n)) = IF n < Len(s) THEN n ELSE Len(s)
         /\ n >= Len(s) => FirstOf(s, n) = s /\ RestOf(s, n) = <<>>
         /\ Len(FirstOf(s, n)) < n => RestOf(s, n) = <<>>
  <1> DEFINE k == IF n < Len(s) THEN n ELSE Len(s)
  <1>1. /\ Len(s) \in Nat /\ k \in 0 .. Len(s) /\ \A i \in 1 .. Len(s) : s[i] \in Int
    BY LenProperties, ElementOfSeq DEF Samples
  <1>2. SubSeq(s, 1, k) \in Samples /\ Len(SubSeq(s, 1, k)) = k
    BY <1>1, SubSeqProperties, Z3 DEF Samples
  <1>3. SubSeq(s, n + 1, Len(s)) \in Samples
    BY <1>1, SubSeqProperties DEF Samples
  <1>4. CASE n < Len(s)
    <2>1. SubSeq(s, 1, Len(s)) = SubSeq(s, 1, n) \o SubSeq(s, n + 1, Len(s))
      <3>1. /\ 1 \in 1 .. Len(s) + 1 /\ n \in 1 - 1 .. Len(s) /\ Len(s) \in n .. Len(s)
            /\ s \in Seq(Int)
        BY <1>1, <1>4 DEF Samples
      <3> QED
        BY <3>1, ConcatAdjacentSubSeq, Zenon
    <2>2. s = SubSeq(s, 1, n) \o SubSeq(s, n + 1, Len(s))
      BY <2>1, SubSeqFull DEF Samples
    <2>3. FirstOf(s, n) = SubSeq(s, 1, n) /\ RestOf(s, n) = SubSeq(s, n + 1, Len(s))
      BY <1>4 DEF FirstOf, RestOf
    <2>4. SubSeq(s, 1, n) \in Samples /\ Len(SubSeq(s, 1, n)) = n
      BY <1>2, <1>4
    <2>5. /\ FirstOf(s, n) \in Samples /\ RestOf(s, n) \in Samples /\ Len(FirstOf(s, n)) = n
          /\ s = FirstOf(s, n) \o RestOf(s, n)
      BY <1>3, <2>2, <2>3, <2>4, Zenon
    <2> QED
      BY <1>1, <1>4, <2>5
  <1>5. CASE ~ n < Len(s)
    <2>1. SubSeq(s, n + 1, Len(s)) = <<>>
      BY <1>1, <1>5, SubSeqEmpty
    <2>2. SubSeq(s, 1, Len(s)) = s /\ s \o <<>> = s
      BY SubSeqFull, ConcatEmptySeq DEF Samples
    <2> QED
      BY <1>1, <1>2, <1>3, <1>5, <2>1, <2>2 DEF FirstOf, RestOf
  <1> QED
    BY <1>4, <1>5

LEMMA Assoc ==
  ASSUME NEW s \in Samples, NEW t \in Samples, NEW u \in Samples
  PROVE  (s \o t) \o u = s \o (t \o u)
  BY ConcatAssociative DEF Samples

\* The next n samples continue the sound.
LEMMA NextSamples ==
  ASSUME NEW m \in Nat, NEW n \in Nat
  PROVE  /\ Sound(m) \in Samples /\ [i \in 1 .. n |-> m + i] \in Samples
         /\ Sound(m) \o [i \in 1 .. n |-> m + i] = Sound(m + n)
  <1> DEFINE f == [i \in 1 .. n |-> m + i]
  <1>1. /\ Sound(m) \in Samples /\ Len(Sound(m)) = m
        /\ f \in Samples /\ Len(f) = n
        /\ Sound(m + n) \in Samples /\ Len(Sound(m + n)) = m + n
    BY DEF Sound, Samples
  <1>2. \A i \in 1 .. m + n : Sound(m + n)[i] = IF i <= m THEN Sound(m)[i] ELSE f[i - m]
    BY DEF Sound
  <1> HIDE DEF f
  <1>3. /\ Sound(m) \o f \in Samples /\ Len(Sound(m) \o f) = m + n
        /\ \A i \in 1 .. m + n :
              (Sound(m) \o f)[i] = IF i <= m THEN Sound(m)[i] ELSE f[i - m]
    <2> DEFINE s == Sound(m)
    <2>1. s \in Seq(Int) /\ f \in Seq(Int) /\ Len(s) = m /\ Len(f) = n
      BY <1>1, Zenon DEF Samples
    <2> HIDE DEF s
    <2>2. /\ s \o f \in Seq(Int) /\ Len(s \o f) = m + n
          /\ \A i \in 1 .. m + n : (s \o f)[i] = IF i <= m THEN s[i] ELSE f[i - m]
      BY <2>1, ConcatProperties
    <2> QED
      BY <2>2, Zenon DEF s, Samples
  <1>4. Sound(m) \o f = Sound(m + n)
    BY <1>1, <1>2, <1>3, SeqEqual DEF Samples
  <1> QED
    BY <1>1, <1>4, Zenon DEF f

-----------------------------------------------------------------------------
(* What the reads return. *)

soundVars == <<reading, out, leftover, made, errRead, delivered>>

SoundType ==
    /\ reading \in {"no", "loop", "stop", "aborted", "faulted"} /\ errRead \in BOOLEAN
    /\ out \in Samples /\ leftover \in Samples /\ delivered \in Samples
    /\ made \in Nat
    /\ Len(out) <= ReadLen

\* Nothing is left over while a read goes on, nor when one is cut short, and a
\* decoder that has said that the track has ended is not read again.
LeftoverFirst ==
    /\ reading = "loop" /\ Len(out) < ReadLen => leftover = <<>>
    /\ reading = "stop" => leftover = <<>>
    /\ errRead => reading = "no"

DecoderInv == SoundType /\ LeftoverFirst /\ DecoderLosesNothing

\* The pipeline touches the decoder's samples only by reading.
LEMMA OnlyReads == [Next]_vars => StartRead \/ DecoderRead \/ EndRead \/ UNCHANGED soundVars
  BY DEF Next, vars, decoderVars, soundVars, Cancel, PreloadTrack, PushSilence, CheckCancelled,
     Decode, ReadReturns, PushSamples, PushEnd, CloseStream, Close, StreamToClients, OpenStream,
     Open, OpenStreamFails, OpenFails, CheckContext, Receive, SendVorbis, SendMP3, Drain,
     playerRest, StreamVorbis, StreamMP3, Stop, EncodeVorbis, EncodeMP3, Report, encoderRest

LEMMA DecoderInvInit == Init => DecoderInv
  <1> SUFFICES ASSUME Init PROVE DecoderInv
    OBVIOUS
  <1>1. /\ reading = "no" /\ errRead = FALSE /\ out = <<>> /\ leftover = <<>> /\ delivered = <<>>
        /\ made = 0
    BY DEF Init, DecoderInit
  <1>2. <<>> \in Samples /\ Len(<<>>) = 0 /\ <<>> \o <<>> = <<>>
    BY EmptySeq, ConcatEmptySeq DEF Samples
  <1>3. Sound(0) = <<>>
    BY DEF Sound
  <1>4. SoundType /\ LeftoverFirst
    <2>1. out \in Samples /\ leftover \in Samples /\ delivered \in Samples /\ Len(out) = 0
      BY <1>1, <1>2, Zenon
    <2>2. errRead \in BOOLEAN /\ ~errRead
      BY <1>1, Zenon
    <2>3. reading = "no" /\ made \in Nat /\ Len(out) <= ReadLen
      BY <1>1, <2>1, DecoderAssumption
    <2> QED
      BY <2>1, <2>2, <2>3, Zenon DEF SoundType, LeftoverFirst
  <1>5. DecoderLosesNothing
    BY <1>1, <1>2, <1>3, Zenon DEF DecoderLosesNothing
  <1> QED
    BY <1>4, <1>5 DEF DecoderInv

LEMMA StartReadKeeps ==
  ASSUME DecoderInv, StartRead
  PROVE  DecoderInv'
  <1>1. /\ FirstOf(leftover, ReadLen) \in Samples /\ RestOf(leftover, ReadLen) \in Samples
        /\ leftover = FirstOf(leftover, ReadLen) \o RestOf(leftover, ReadLen)
        /\ Len(FirstOf(leftover, ReadLen)) <= ReadLen
        /\ Len(FirstOf(leftover, ReadLen)) < ReadLen => RestOf(leftover, ReadLen) = <<>>
    BY Cut, LenProperties, DecoderAssumption DEF DecoderInv, SoundType, Samples
  <1>2. SoundType' /\ LeftoverFirst'
    BY <1>1 DEF StartRead, DecoderInv, SoundType, LeftoverFirst
  <1>3. (delivered \o out') \o leftover' = delivered \o leftover
    <2>1. /\ out' = FirstOf(leftover, ReadLen) /\ leftover' = RestOf(leftover, ReadLen)
          /\ delivered \in Samples
      BY DEF StartRead, DecoderInv, SoundType
    <2>2. (delivered \o out') \o leftover' = delivered \o (out' \o leftover')
      BY <1>1, <2>1, Assoc, Zenon
    <2> QED
      BY <1>1, <2>1, <2>2, Zenon
  <1>4. delivered \o leftover = Sound(made)
    BY ConcatEmptySeq DEF StartRead, DecoderInv, SoundType, DecoderLosesNothing, Samples
  <1>5. DecoderLosesNothing'
    BY <1>3, <1>4 DEF StartRead, DecoderInv, SoundType, DecoderLosesNothing
  <1> QED
    BY <1>2, <1>5 DEF DecoderInv

LEMMA DecodeFrameKeeps ==
  ASSUME DecoderInv, NEW n \in 1 .. MaxFrame, DecodeFrame(n)
  PROVE  DecoderInv'
  <1> DEFINE frame == [i \in 1 .. n |-> made + i]
             room  == ReadLen - Len(out)
             copied == FirstOf(frame, room)
             kept  == RestOf(frame, room)
  <1>1. /\ SoundType /\ reading = "loop" /\ reading' = "loop" /\ leftover = <<>>
        /\ Len(out) \in Nat /\ room \in Nat \ {0} /\ n \in Nat
    BY LenProperties, DecoderAssumption
       DEF DecoderInv, SoundType, LeftoverFirst, DecodeFrame, Packet, Samples
  <1>2. /\ made' = made + n /\ out' = out \o copied
        /\ leftover' = IF room < n THEN kept ELSE leftover
        /\ errRead' = errRead /\ delivered' = delivered
    BY DEF DecodeFrame
  <1>3. /\ frame \in Samples /\ Len(frame) = n /\ Sound(made) \in Samples
        /\ Sound(made) \o frame = Sound(made + n)
    <2>1. Len(frame) = n
      BY <1>1
    <2> QED
      BY <1>1, <2>1, NextSamples DEF SoundType
  <1> HIDE DEF frame
  <1>4. /\ copied \in Samples /\ kept \in Samples /\ frame = copied \o kept
        /\ Len(copied) = IF room < n THEN room ELSE n
        /\ room >= n => kept = <<>>
    BY <1>1, <1>3, Cut
  <1>5. leftover' = kept
    BY <1>1, <1>2, <1>4
  <1> HIDE DEF copied, kept
  <1>6. out' \in Samples /\ Len(out') = Len(out) + Len(copied)
    BY <1>1, <1>2, <1>4, ConcatProperties DEF SoundType, Samples
  <1>7. SoundType' /\ LeftoverFirst'
    BY <1>1, <1>2, <1>4, <1>5, <1>6, DecoderAssumption DEF SoundType, LeftoverFirst, DecoderInv
  <1>8. delivered \o out = Sound(made) /\ delivered \o out \in Samples
    <2>1. delivered \o out \in Samples
      BY <1>1, ConcatProperties DEF SoundType, Samples
    <2>2. (delivered \o out) \o <<>> = Sound(made)
      BY <1>1 DEF DecoderInv, DecoderLosesNothing
    <2> QED
      BY <2>1, <2>2, ConcatEmptySeq DEF Samples
  <1>9. (delivered \o out') \o kept = Sound(made) \o frame
    <2>1. delivered \o (out \o copied) = (delivered \o out) \o copied
      BY <1>1, <1>4, Assoc, Zenon DEF SoundType
    <2>2. (Sound(made) \o copied) \o kept = Sound(made) \o (copied \o kept)
      BY <1>3, <1>4, Assoc, Zenon
    <2> QED
      BY <1>2, <1>4, <1>8, <2>1, <2>2
  <1>10. DecoderLosesNothing'
    BY <1>1, <1>2, <1>3, <1>5, <1>9 DEF DecoderLosesNothing, DecoderInv, LeftoverFirst
  <1> QED
    BY <1>7, <1>10 DEF DecoderInv

LEMMA EndReadKeeps ==
  ASSUME DecoderInv, EndRead
  PROVE  DecoderInv'
  <1>1. /\ reading # "no" /\ reading' = "no" /\ errRead' = (out = <<>>)
        /\ delivered' = delivered \o out /\ out' = out /\ leftover' = leftover /\ made' = made
    BY DEF EndRead
  <1>2. delivered' \in Samples /\ delivered' \o <<>> = delivered'
    BY <1>1, ConcatProperties, ConcatEmptySeq DEF DecoderInv, SoundType, Samples
  <1>3. SoundType' /\ LeftoverFirst'
    BY <1>1, <1>2 DEF DecoderInv, SoundType, LeftoverFirst
  <1>4. out = <<>> => leftover = <<>>
    BY EmptySeq, DecoderAssumption DEF EndRead, DecoderInv, LeftoverFirst
  <1>5. DecoderLosesNothing'
    BY <1>1, <1>2, <1>4 DEF DecoderInv, DecoderLosesNothing
  <1> QED
    BY <1>3, <1>5 DEF DecoderInv

LEMMA DecoderInvStep == DecoderInv /\ [Next]_vars => DecoderInv'
  <1> SUFFICES ASSUME DecoderInv, [Next]_vars PROVE DecoderInv'
    OBVIOUS
  <1>1. CASE StartRead
    BY <1>1, StartReadKeeps
  <1>2. CASE SkipPacket
    BY <1>2 DEF SkipPacket, DecoderInv, SoundType, LeftoverFirst, DecoderLosesNothing
  <1>3. CASE BadPacket \/ EndOfInput \/ ConversionFails \/ \E n \in 1 .. MaxFrame : LeftoverTooLong(n)
    BY <1>3 DEF BadPacket, EndOfInput, ConversionFails, LeftoverTooLong, Packet, DecoderInv,
       SoundType, LeftoverFirst, DecoderLosesNothing
  <1>4. ASSUME NEW n \in 1 .. MaxFrame, DecodeFrame(n) PROVE DecoderInv'
    BY <1>4, DecodeFrameKeeps
  <1>5. CASE EndRead
    BY <1>5, EndReadKeeps
  <1>6. CASE UNCHANGED soundVars
    BY <1>6 DEF soundVars, DecoderInv, SoundType, LeftoverFirst, DecoderLosesNothing
  <1> QED
    BY <1>1, <1>2, <1>3, <1>4, <1>5, <1>6, OnlyReads DEF DecoderRead

\* However the sizes of reads and frames fall and wherever decoding breaks off,
\* AVDecoder.Read and decoder_read neither lose, repeat nor reorder a sample, up to
\* a read that ends the process: at a frame with more left over than decoded_buffer
\* holds, or one that cannot be converted.
THEOREM ReadsLoseNothing == Spec => []DecoderLosesNothing
  <1>1. DecoderInv => DecoderLosesNothing
    BY DEF DecoderInv
  <1> QED
    BY <1>1, DecoderInvInit, DecoderInvStep, PTL DEF Spec

-----------------------------------------------------------------------------
(* What is left in bufferingChannel. *)

Preloaded == preloader \in {"close", "done"}

BufferType == buffer \in Seq(Chunk) /\ inHand \in Chunk

\* preloadTrack runs once streamToClients is there, and the end mark is the last
\* that it pushes.
NotBegun  == player = "open" => preloader = "off"
EndIsLast == \A i \in 1 .. Len(buffer) : buffer[i].nil => i = Len(buffer) /\ Preloaded

\* Where streamToClients has taken the end mark.
EndTaken ==
    player \in {"awaitVorbis", "awaitMP3", "returned"} \/ (player \in {"toVorbis", "toMP3"} /\ inHand.nil)
        => buffer = <<>> /\ Preloaded

BufferInv == BufferType /\ NotBegun /\ EndIsLast /\ EndTaken

LEMMA BufferInvInit == Init => BufferInv
  <1> SUFFICES ASSUME Init PROVE BufferInv
    OBVIOUS
  <1>1. buffer = <<>> /\ inHand = NilChunk /\ player = "open" /\ preloader = "off"
    BY DEF Init
  <1>2. <<>> \in Seq(Chunk) /\ <<>> \in Samples /\ Len(<<>>) = 0
    BY EmptySeq DEF Samples
  <1>3. NilChunk \in Chunk
    BY <1>2, Zenon DEF NilChunk, Chunk
  <1> QED
    BY <1>1, <1>2, <1>3 DEF BufferInv, BufferType, NotBegun, EndIsLast, EndTaken

\* A push, before which the end mark was not in the channel.
LEMMA PushKeeps ==
  ASSUME BufferInv, ~Preloaded, preloader # "off", NEW c \in Chunk, PushChunk(c),
         c.nil => Preloaded',
         UNCHANGED <<player, inHand>>
  PROVE  BufferInv'
  <1>1. /\ buffer' \in Seq(Chunk) /\ Len(buffer') = Len(buffer) + 1 /\ Len(buffer) \in Nat
        /\ \A i \in 1 .. Len(buffer) : buffer'[i] = buffer[i]
        /\ buffer'[Len(buffer) + 1] = c
    BY AppendProperties, LenProperties DEF PushChunk, BufferInv, BufferType
  <1>2. BufferType' /\ EndTaken' /\ NotBegun'
    BY <1>1 DEF BufferInv, BufferType, EndTaken, NotBegun, Preloaded
  <1>3. EndIsLast'
    <2> SUFFICES ASSUME NEW i \in 1 .. Len(buffer'), buffer'[i].nil
                 PROVE  i = Len(buffer') /\ Preloaded'
      BY DEF EndIsLast
    <2>1. CASE i \in 1 .. Len(buffer)
      BY <1>1, <2>1 DEF BufferInv, EndIsLast
    <2>2. CASE i = Len(buffer) + 1
      BY <1>1, <2>2
    <2> QED
      BY <1>1, <2>1, <2>2
  <1> QED
    BY <1>2, <1>3 DEF BufferInv

\* If only the last chunk of a sequence is nil, so it is with its tail; and a nil
\* head is all there is.
LEMMA TailEndsLast ==
  ASSUME NEW s \in Seq(Chunk), s # <<>>, \A j \in 1 .. Len(s) : s[j].nil => j = Len(s)
  PROVE  /\ Tail(s) \in Seq(Chunk) /\ Head(s) \in Chunk
         /\ \A i \in 1 .. Len(Tail(s)) :
               Tail(s)[i].nil => i = Len(Tail(s)) /\ \E j \in 1 .. Len(s) : s[j].nil
         /\ Head(s).nil => Tail(s) = <<>> /\ \E j \in 1 .. Len(s) : s[j].nil
  <1>1. /\ Tail(s) \in Seq(Chunk) /\ Head(s) \in Chunk /\ Head(s) = s[1]
        /\ Len(s) \in Nat \ {0} /\ Len(Tail(s)) = Len(s) - 1
        /\ \A i \in 1 .. Len(Tail(s)) : Tail(s)[i] = s[i + 1]
    BY HeadTailProperties, EmptySeq
  <1> DEFINE t == Tail(s)
  <1> HIDE DEF t
  <1>2. /\ t \in Seq(Chunk) /\ Len(s) \in Nat \ {0} /\ Len(t) = Len(s) - 1
        /\ \A i \in 1 .. Len(t) : t[i] = s[i + 1]
    BY <1>1, Zenon DEF t
  <1>3. ASSUME NEW i \in 1 .. Len(t), t[i].nil
        PROVE  i = Len(t) /\ \E j \in 1 .. Len(s) : s[j].nil
    <2>1. i + 1 \in 1 .. Len(s)
      BY <1>2
    <2>2. s[i + 1].nil
      BY <1>2, <1>3, Zenon
    <2>3. i + 1 = Len(s)
      BY <2>1, <2>2, Zenon
    <2>4. i = Len(t)
      BY <1>2, <2>3
    <2> QED
      BY <2>1, <2>2, <2>4, Zenon
  <1>4. ASSUME Head(s).nil PROVE t = <<>> /\ \E j \in 1 .. Len(s) : s[j].nil
    <2>1. 1 \in 1 .. Len(s)
      BY <1>2
    <2>2. s[1].nil /\ 1 = Len(s)
      BY <1>1, <1>4, <2>1, Zenon
    <2>3. Len(t) = 0
      BY <1>2, <2>2
    <2>4. t = <<>>
      BY <1>2, <2>3, EmptySeq
    <2> QED
      BY <2>1, <2>2, <2>4, Zenon
  <1> QED
    BY <1>1, <1>3, <1>4, Zenon DEF t

\* What taking the first chunk leaves.
LEMMA TakeKeeps ==
  ASSUME BufferInv, buffer # <<>>, buffer' = Tail(buffer), UNCHANGED preloader
  PROVE  /\ buffer' \in Seq(Chunk) /\ Head(buffer) \in Chunk
         /\ EndIsLast'
         /\ Head(buffer).nil => buffer' = <<>> /\ Preloaded'
  <1>1. /\ buffer \in Seq(Chunk)
        /\ \A j \in 1 .. Len(buffer) : buffer[j].nil => j = Len(buffer) /\ Preloaded'
    BY Zenon DEF BufferInv, BufferType, EndIsLast, Preloaded
  <1>2. /\ Tail(buffer) \in Seq(Chunk) /\ Head(buffer) \in Chunk
        /\ \A i \in 1 .. Len(Tail(buffer)) :
              Tail(buffer)[i].nil
                 => i = Len(Tail(buffer)) /\ \E j \in 1 .. Len(buffer) : buffer[j].nil
        /\ Head(buffer).nil
              => Tail(buffer) = <<>> /\ \E j \in 1 .. Len(buffer) : buffer[j].nil
    BY <1>1, TailEndsLast, Zenon
  <1> QED
    BY <1>1, <1>2, Zenon DEF EndIsLast

LEMMA BufferInvStep == DecoderInv /\ BufferInv /\ [Next]_vars => BufferInv'
  <1> SUFFICES ASSUME DecoderInv, BufferInv, [Next]_vars PROVE BufferInv'
    OBVIOUS
  <1> USE DEF Preload, Play, preloadRest, playerRest, encoderRest, playerVars, preloadVars
  <1>1. CASE Cancel \/ CheckCancelled \/ Decode \/ ReadReturns \/ CloseStream
    BY <1>1 DEF Cancel, CheckCancelled, Decode, ReadReturns, CloseStream, BufferInv, BufferType,
       NotBegun, EndIsLast, EndTaken, Preloaded
  <1>2. CASE PushSilence
    <2>1. Pcm(Silence) \in Chunk /\ ~Pcm(Silence).nil
      BY DEF Pcm, Silence, Chunk, Samples
    <2> QED
      BY <1>2, <2>1, PushKeeps DEF PushSilence, Preloaded
  <1>3. CASE PushSamples
    <2>1. Pcm(out) \in Chunk /\ ~Pcm(out).nil
      BY DEF Pcm, Chunk, DecoderInv, SoundType
    <2> QED
      BY <1>3, <2>1, PushKeeps DEF PushSamples, Preloaded
  <1>4. CASE PushEnd
    <2>1. NilChunk \in Chunk
      BY EmptySeq DEF NilChunk, Chunk, Samples
    <2> QED
      BY <1>4, <2>1, PushKeeps DEF PushEnd, Preloaded
  <1>5. CASE OpenStream
    BY <1>5 DEF OpenStream, BufferInv, BufferType, NotBegun, EndIsLast, EndTaken, Preloaded
  <1>6. CASE OpenStreamFails \/ CheckContext \/ SendVorbis \/ SendMP3
    BY <1>6 DEF OpenStreamFails, CheckContext, SendVorbis, SendMP3, BufferInv, BufferType,
       NotBegun, EndIsLast, EndTaken, Preloaded
  <1>7. CASE Receive
    BY <1>7, TakeKeeps DEF Receive, BufferInv, BufferType, NotBegun, EndTaken
  <1>8. CASE Drain
    BY <1>8, TakeKeeps DEF Drain, BufferInv, BufferType, NotBegun, EndTaken
  <1>9. ASSUME NEW f \in Format, Stop(f) PROVE BufferInv'
    BY <1>9 DEF Stop, BufferInv, BufferType, NotBegun, EndIsLast, EndTaken, Preloaded
  <1>10. CASE EncodeVorbis \/ EncodeMP3
    BY <1>10 DEF EncodeVorbis, EncodeMP3, BufferInv, BufferType, NotBegun, EndIsLast, EndTaken,
       Preloaded
  <1>11. CASE Report("vorbis", "awaitVorbis", "awaitMP3") \/ Report("mp3", "awaitMP3", "returned")
    BY <1>11 DEF Report, BufferInv, BufferType, NotBegun, EndIsLast, EndTaken, Preloaded
  <1>12. CASE UNCHANGED vars
    BY <1>12 DEF vars, BufferInv, BufferType, NotBegun, EndIsLast, EndTaken, Preloaded
  <1> QED
    BY <1>1, <1>2, <1>3, <1>4, <1>5, <1>6, <1>7, <1>8, <1>9, <1>10, <1>11, <1>12
       DEF Next, PreloadTrack, StreamToClients, StreamVorbis, StreamMP3, Format

\* When streamToClients returns, skipped or not, it has taken the end mark and
\* nothing of the track is or will be in bufferingChannel.
THEOREM BufferIsClean == Spec => []NothingLeftBehind
  <1>1. BufferInv => NothingLeftBehind
    BY DEF BufferInv, EndTaken, NothingLeftBehind, Preloaded
  <1> QED
    BY <1>1, DecoderInvInit, DecoderInvStep, BufferInvInit, BufferInvStep, PTL DEF Spec

-----------------------------------------------------------------------------
(* The position of a Chunk. *)

\* Until a call's output does not fit, encoded_buffer is empty between calls.
VorbisInv ==
    /\ granulepos \in Int /\ handed \in Int
    /\ handed <= granulepos
    /\ overflowed \in BOOLEAN
    /\ ~overflowed => handed = granulepos
    /\ ChunkStartsAtPos

LEMMA VorbisInvInit == Init => VorbisInv
  <1> SUFFICES ASSUME Init PROVE VorbisInv
    OBVIOUS
  <1>1. overflowed \in BOOLEAN /\ granulepos = 0 /\ handed = 0 /\ chunk.encoderPos = chunk.first
    BY Zenon DEF Init, VorbisInit
  <1> QED
    BY <1>1 DEF VorbisInv, ChunkStartsAtPos

LEMMA VorbisEncodeKeeps ==
  ASSUME VorbisInv, NEW given, VorbisEncode(given)
  PROVE  VorbisInv'
  <1>1. granulepos' \in Int /\ granulepos <= granulepos' /\ OutCap \in Nat
    BY VorbisAssumption DEF VorbisEncode, MakePages, VorbisInv
  <1>2. /\ handed' = IF handed + OutCap < granulepos' THEN handed + OutCap ELSE granulepos'
        /\ overflowed' = (overflowed \/ handed' < granulepos')
        /\ chunk' = IF handed' = handed THEN chunk
                    ELSE [encoderPos |-> granulepos, first |-> handed]
    BY DEF VorbisEncode, HandOut, MakeChunk, AtMost
  <1>3. /\ handed' \in Int /\ handed' <= granulepos'
        /\ (overflowed \/ handed' < granulepos') \in BOOLEAN
        /\ ~ handed' < granulepos' => handed' = granulepos'
    BY <1>1, <1>2 DEF VorbisInv
  <1>4. ~overflowed' => ~overflowed /\ handed' = granulepos'
    BY <1>2, <1>3
  <1>5. ASSUME ~overflowed' PROVE chunk'.encoderPos = chunk'.first
    <2>1. handed = granulepos /\ chunk.encoderPos = chunk.first
      BY <1>4, <1>5 DEF VorbisInv, ChunkStartsAtPos
    <2> QED
      BY <1>2, <2>1
  <1>6. overflowed' \in BOOLEAN
    BY <1>2
  <1> QED
    BY <1>1, <1>3, <1>4, <1>5, <1>6 DEF VorbisInv, ChunkStartsAtPos

LEMMA VorbisInvStep == VorbisInv /\ [Next]_vars => VorbisInv'
  <1> SUFFICES ASSUME VorbisInv, [Next]_vars PROVE VorbisInv'
    OBVIOUS
  <1>1. CASE \E given : VorbisEncode(given)
    BY <1>1, VorbisEncodeKeeps
  <1>2. CASE UNCHANGED vorbisVars
    BY <1>2 DEF vorbisVars, VorbisInv, ChunkStartsAtPos
  <1>3. (\E given : VorbisEncode(given)) \/ UNCHANGED vorbisVars
    BY DEF Next, vars, encoderVars, Cancel, PreloadTrack, PushSilence, CheckCancelled, Decode,
       ReadReturns, PushSamples, PushEnd, CloseStream, StreamToClients, OpenStream,
       OpenStreamFails, CheckContext, Receive, SendVorbis, SendMP3, Drain, preloadRest,
       playerRest, StreamVorbis, StreamMP3, Stop, EncodeVorbis, EncodeMP3, Report
  <1> QED
    BY <1>1, <1>2, <1>3

\* As long as every call's output has fitted, the position that streamVorbis puts
\* into a Chunk is the number of the first sample in it.
THEOREM PositionsAreTrue == Spec => []ChunkStartsAtPos
  <1>1. VorbisInv => ChunkStartsAtPos
    BY DEF VorbisInv
  <1> QED
    BY <1>1, VorbisInvInit, VorbisInvStep, PTL DEF Spec

-----------------------------------------------------------------------------
(* What the clients hear.  The sound of a track is one silent sample, d samples   *)
(* that were read, and one silent sample; p of these have been pushed into         *)
(* bufferingChannel, and they are all if the end mark was pushed, too (e).  A      *)
(* sequence of chunks carries the sound from position a to position b if positions *)
(* can be given to the borders of its chunks.                                      *)

At(i, d) == IF i <= d + 1 THEN i - 1 ELSE 0
Heard(s, a, d) == \A i \in 1 .. Len(s) : s[i] = At(a + i, d)

Joins(c, a, b, d, p, e) ==
    /\ b = a + Len(c.samples) /\ Heard(c.samples, a, d)
    /\ c.nil => e /\ b = p /\ c.samples = <<>>

Flow(s, a, b, d, p, e) ==
    \E pos \in [0 .. Len(s) -> 0 .. p] :
      /\ pos[0] = a /\ pos[Len(s)] = b
      /\ \A i \in 1 .. Len(s) : Joins(s[i], pos[i - 1], pos[i], d, p, e)

\* The sound goes on and what was pushed of it stays.
Grows(d, p, e, d2, p2, e2) ==
    /\ p2 \in Nat /\ p <= p2
    /\ \A i \in 1 .. p : At(i, d2) = At(i, d)
    /\ e => e2 /\ d2 = d /\ p2 = p

LEMMA HeardGrows ==
  ASSUME NEW s \in Samples, NEW a \in Nat, NEW d \in Nat, NEW p \in Nat, NEW e \in BOOLEAN,
         NEW d2 \in Nat, NEW p2, NEW e2, Grows(d, p, e, d2, p2, e2), Heard(s, a, d),
         a + Len(s) <= p \/ e
  PROVE  Heard(s, a, d2)
<1>1. Len(s) \in Nat
  BY LenProperties DEF Samples
<1>2. CASE e
  BY <1>2 DEF Grows
<1>3. CASE a + Len(s) <= p
  <2>1. \A i \in 1 .. Len(s) : a + i \in 1 .. p
    BY <1>1, <1>3
  <2> QED BY <2>1 DEF Grows, Heard
<1> QED BY <1>2, <1>3

LEMMA JoinsGrows ==
  ASSUME NEW c \in Chunk, NEW a \in Nat, NEW d \in Nat, NEW p \in Nat, NEW e \in BOOLEAN,
         NEW b \in 0 .. p, NEW d2 \in Nat, NEW p2, NEW e2, Grows(d, p, e, d2, p2, e2),
         Joins(c, a, b, d, p, e)
  PROVE  Joins(c, a, b, d2, p2, e2)
<1>1. c.samples \in Samples /\ a + Len(c.samples) <= p
  BY DEF Chunk, Joins
<1>2. Heard(c.samples, a, d2)
  BY <1>1, HeardGrows DEF Joins
<1> QED BY <1>2 DEF Joins, Grows

LEMMA FlowGrows ==
  ASSUME NEW s \in Seq(Chunk), NEW a, NEW b, NEW d \in Nat, NEW p \in Nat, NEW e \in BOOLEAN,
         NEW d2 \in Nat, NEW p2, NEW e2, Grows(d, p, e, d2, p2, e2), Flow(s, a, b, d, p, e)
  PROVE  Flow(s, a, b, d2, p2, e2)
<1>1. PICK pos \in [0 .. Len(s) -> 0 .. p] :
        /\ pos[0] = a /\ pos[Len(s)] = b
        /\ \A i \in 1 .. Len(s) : Joins(s[i], pos[i - 1], pos[i], d, p, e)
  BY DEF Flow
<1>2. Len(s) \in Nat /\ \A i \in 1 .. Len(s) : s[i] \in Chunk
  BY LenProperties, ElementOfSeq
<1>3. pos \in [0 .. Len(s) -> 0 .. p2]
  BY DEF Grows
<1>4. ASSUME NEW i \in 1 .. Len(s) PROVE Joins(s[i], pos[i - 1], pos[i], d2, p2, e2)
  <2>1. pos[i - 1] \in Nat /\ pos[i] \in 0 .. p
    BY <1>2
  <2> QED BY <1>1, <1>2, <2>1, JoinsGrows
<1> QED BY <1>1, <1>3, <1>4 DEF Flow

LEMMA FlowEmpty ==
  ASSUME NEW a, NEW b, NEW d, NEW p, NEW e
  PROVE  /\ Flow(<<>>, a, b, d, p, e) => a = b
         /\ a \in 0 .. p => Flow(<<>>, a, a, d, p, e)
<1>1. Len(<<>>) = 0 /\ 1 .. 0 = {} /\ 0 .. 0 = {0}
  OBVIOUS
<1>2. ASSUME a \in 0 .. p PROVE Flow(<<>>, a, a, d, p, e)
  <2> DEFINE f == [i \in 0 .. 0 |-> a]
  <2>1. f \in [0 .. 0 -> 0 .. p] /\ f[0] = a
    BY <1>2
  <2> HIDE DEF f
  <2>2. PICK pos \in [0 .. 0 -> 0 .. p] : pos[0] = a
    BY <2>1
  <2>3. \A i \in 1 .. 0 : FALSE
    OBVIOUS
  <2> QED BY <1>1, <2>2, <2>3 DEF Flow
<1> QED BY <1>1, <1>2 DEF Flow

LEMMA FlowAppend ==
  ASSUME NEW s \in Seq(Chunk), NEW c \in Chunk, NEW a, NEW b, NEW d, NEW p \in Nat, NEW e,
         Flow(s, a, b, d, p, e), NEW q \in 0 .. p, Joins(c, b, q, d, p, e)
  PROVE  Flow(Append(s, c), a, q, d, p, e)
<1>1. PICK pos \in [0 .. Len(s) -> 0 .. p] :
        /\ pos[0] = a /\ pos[Len(s)] = b
        /\ \A i \in 1 .. Len(s) : Joins(s[i], pos[i - 1], pos[i], d, p, e)
  BY DEF Flow
<1>2. PICK n \in Nat : n = Len(s)
  BY LenProperties
<1>3. PICK t \in Seq(Chunk) : t = Append(s, c)
  BY AppendProperties
<1>4. Len(t) = n + 1 /\ t[n + 1] = c /\ \A i \in 1 .. n : t[i] = s[i]
  BY <1>2, <1>3, AppendProperties
<1> DEFINE to == [i \in 0 .. n + 1 |-> IF i = n + 1 THEN q ELSE pos[i]]
<1>5. /\ to \in [0 .. n + 1 -> 0 .. p] /\ to[0] = a /\ to[n + 1] = q /\ to[n] = b
      /\ \A i \in 1 .. n : to[i] = pos[i] /\ to[i - 1] = pos[i - 1]
  BY <1>1, <1>2
<1> HIDE DEF to
<1>6. ASSUME NEW i \in 1 .. n + 1 PROVE Joins(t[i], to[i - 1], to[i], d, p, e)
  <2>1. CASE i \in 1 .. n
    BY <1>1, <1>2, <1>4, <1>5, <2>1
  <2>2. CASE i = n + 1
    <3>1. i - 1 = n
      BY <1>2, <2>2
    <3> QED BY <1>4, <1>5, <2>2, <3>1
  <2> QED BY <1>2, <2>1, <2>2
<1>7. Flow(t, a, q, d, p, e)
  BY <1>4, <1>5, <1>6 DEF Flow
<1> QED BY <1>3, <1>7

LEMMA FlowTail ==
  ASSUME NEW s \in Seq(Chunk), s # <<>>, NEW a, NEW b, NEW d, NEW p \in Nat, NEW e,
         Flow(s, a, b, d, p, e)
  PROVE  \E q \in 0 .. p : Joins(Head(s), a, q, d, p, e) /\ Flow(Tail(s), q, b, d, p, e)
<1>1. PICK pos \in [0 .. Len(s) -> 0 .. p] :
        /\ pos[0] = a /\ pos[Len(s)] = b
        /\ \A i \in 1 .. Len(s) : Joins(s[i], pos[i - 1], pos[i], d, p, e)
  BY DEF Flow
<1>2. PICK n \in Nat : Len(s) = n + 1
  BY LenProperties, EmptySeq
<1>3. PICK t \in Seq(Chunk) : t = Tail(s)
  BY HeadTailProperties
<1>4. Len(t) = n /\ Head(s) = s[1] /\ \A i \in 1 .. n : t[i] = s[i + 1]
  BY <1>2, <1>3, HeadTailProperties
<1> DEFINE to == [i \in 0 .. n |-> pos[i + 1]]
<1>5. /\ to \in [0 .. n -> 0 .. p] /\ to[0] = pos[1] /\ to[n] = b
      /\ \A i \in 1 .. n : to[i] = pos[i + 1] /\ to[i - 1] = pos[i]
      /\ pos[1] \in 0 .. p
  BY <1>1, <1>2
<1> HIDE DEF to
<1>6. \A i \in 1 .. n : Joins(s[i + 1], pos[i], pos[i + 1], d, p, e)
  <2> SUFFICES ASSUME NEW i \in 1 .. n PROVE Joins(s[i + 1], pos[i], pos[i + 1], d, p, e)
    OBVIOUS
  <2>1. PICK j : j = i + 1
    OBVIOUS
  <2>2. j \in 1 .. Len(s) /\ j - 1 = i
    BY <1>2, <2>1
  <2> QED BY <1>1, <2>1, <2>2
<1>7. Flow(t, pos[1], b, d, p, e)
  BY <1>4, <1>5, <1>6 DEF Flow
<1>8. Joins(Head(s), a, pos[1], d, p, e)
  <2>1. 1 \in 1 .. Len(s) /\ 1 - 1 = 0
    BY <1>2
  <2> QED BY <1>1, <1>4, <2>1
<1> QED BY <1>3, <1>5, <1>7, <1>8

-----------------------------------------------------------------------------
(* The reader: how much of the track it has read and pushed. *)

NRead == Len(delivered)
Pushed ==
    CASE preloader \in {"off", "silence"} -> 0
      [] preloader = "push" -> NRead + 1 - Len(out)
      [] preloader \in {"feed", "read", "tail"} -> NRead + 1
      [] OTHER -> NRead + 2

ReaderInv ==
    /\ preloader \in {"off", "silence", "feed", "read", "push", "tail", "end", "close", "done"}
    /\ cancelled \in BOOLEAN
    /\ reading # "no" => preloader = "read"
    /\ preloader \in {"off", "silence"} => delivered = <<>>
    /\ preloader = "push" => Len(out) <= NRead /\ Heard(out, Pushed, NRead)
    /\ preloader \in {"tail", "end", "close", "done"} /\ ~cancelled => errRead

\* More of it is pushed only on the way out of the states that push.
TrackGrows ==
    /\ Grows(NRead, Pushed, Preloaded, NRead', Pushed', Preloaded')
    /\ preloader' = preloader \/ preloader \notin {"silence", "push", "tail"} => Pushed' = Pushed

LEMMA PushedType ==
  ASSUME SoundType, ReaderInv
  PROVE  NRead \in Nat /\ Pushed \in Nat /\ Preloaded \in BOOLEAN /\ Pushed <= NRead + 2
<1>1. NRead \in Nat /\ Len(out) \in Nat
  BY LenProperties DEF SoundType, Samples, NRead
<1> QED BY <1>1 DEF ReaderInv, Pushed, Preloaded

\* What is read after s is numbered on from it; u is left over.
MakeUp(s, t, u, m) == (s \o t) \o u = Sound(m)

LEMMA Numbered ==
  ASSUME NEW s \in Samples, NEW t \in Samples, NEW u \in Samples, NEW m \in Nat,
         MakeUp(s, t, u, m)
  PROVE  /\ s \o t \in Samples /\ Len(s \o t) = Len(s) + Len(t) /\ Len(s) \in Nat /\ Len(t) \in Nat
         /\ \A j \in 1 .. Len(t) : t[j] = Len(s) + j
<1>1. /\ s \o t \in Seq(Int) /\ Len(s \o t) = Len(s) + Len(t) /\ Len(s) \in Nat /\ Len(t) \in Nat
      /\ \A i \in 1 .. Len(s) + Len(t) : (s \o t)[i] = IF i <= Len(s) THEN s[i] ELSE t[i - Len(s)]
  BY ConcatProperties, LenProperties DEF Samples
<1>2. PICK w \in Seq(Int) : w = s \o t
  BY <1>1
<1>3. /\ Len(w \o u) = Len(w) + Len(u) /\ Len(w) \in Nat /\ Len(u) \in Nat
      /\ \A i \in 1 .. Len(w) + Len(u) : (w \o u)[i] = IF i <= Len(w) THEN w[i] ELSE u[i - Len(w)]
  BY ConcatProperties, LenProperties DEF Samples
<1>4. Len(w \o u) = m /\ \A i \in 1 .. m : (w \o u)[i] = i
  <2>1. w \o u = Sound(m)
    BY <1>2 DEF MakeUp
  <2>2. Len(Sound(m)) = m /\ \A i \in 1 .. m : Sound(m)[i] = i
    BY DEF Sound
  <2> QED BY <2>1, <2>2
<1>5. \A i \in 1 .. Len(w) : w[i] = i
  BY <1>3, <1>4
<1>6. ASSUME NEW j \in 1 .. Len(t) PROVE t[j] = Len(s) + j
  <2>1. PICK i : i = Len(s) + j
    OBVIOUS
  <2>2. i \in 1 .. Len(s) + Len(t) /\ ~ i <= Len(s) /\ i - Len(s) = j
    BY <1>1, <2>1
  <2>3. w[i] = t[j]
    BY <1>1, <1>2, <2>2
  <2>4. w[i] = i
    BY <1>1, <1>2, <1>5, <2>2
  <2> QED BY <2>1, <2>3, <2>4
<1> QED BY <1>1, <1>6 DEF Samples

\* The decoder changes only while it is read.
LEMMA WhileReading ==
  ASSUME [Next]_vars
  PROVE  \/ preloader = "feed" /\ preloader' = "read" /\ StartRead /\ UNCHANGED cancelled
         \/ DecoderRead /\ UNCHANGED <<preloader, cancelled>>
         \/ preloader = "read" /\ preloader' = "push" /\ EndRead /\ UNCHANGED cancelled
         \/ /\ UNCHANGED soundVars
            /\ \/ UNCHANGED preloader /\ (cancelled' = cancelled \/ cancelled')
               \/ /\ UNCHANGED cancelled
                  /\ \/ preloader = "off" /\ preloader' = "silence"
                     \/ preloader = "silence" /\ preloader' = "feed"
                     \/ preloader = "feed" /\ preloader' = "tail" /\ cancelled
                     \/ preloader = "push" /\ preloader' = IF errRead THEN "tail" ELSE "feed"
                     \/ preloader = "tail" /\ preloader' = "end"
                     \/ preloader = "end" /\ preloader' = "close"
                     \/ preloader = "close" /\ preloader' = "done"
                     \/ player = "open" /\ preloader' = "silence"
<1> USE DEF Preload, preloadVars, preloadRest
<1>1. CASE CheckCancelled \/ Decode \/ ReadReturns
  BY <1>1 DEF CheckCancelled, Decode, ReadReturns, decoderVars, soundVars
<1>2. CASE PushSilence \/ PushSamples \/ PushEnd \/ CloseStream
  BY <1>2 DEF PushSilence, PushSamples, PushEnd, CloseStream, Close, decoderVars, soundVars
<1>3. CASE OpenStream
  BY <1>3 DEF OpenStream, Open, soundVars, Play
<1>4. CASE Cancel
  BY <1>4 DEF Cancel, decoderVars, soundVars
<1>5. CASE UNCHANGED <<soundVars, preloader, cancelled>>
  BY <1>5
<1> QED
  BY <1>1, <1>2, <1>3, <1>4, <1>5
  DEF Next, vars, decoderVars, soundVars, PreloadTrack, StreamToClients, OpenStreamFails, OpenFails,
      CheckContext, Receive, SendVorbis, SendMP3, Drain, playerRest, StreamVorbis, StreamMP3, Stop,
      EncodeVorbis, EncodeMP3, Report, encoderRest

LEMMA ReaderStep ==
  ASSUME DecoderInv, DecoderInv', ReaderInv, NotBegun, [Next]_vars
  PROVE  ReaderInv' /\ TrackGrows
<1>1. /\ NRead \in Nat /\ NRead' \in Nat /\ Len(out) \in Nat /\ Len(out)' \in Nat
      /\ (delivered = <<>> => NRead = 0)
  BY LenProperties, EmptySeq DEF DecoderInv, SoundType, Samples, NRead
<1>2. CASE preloader = "feed" /\ preloader' = "read" /\ StartRead /\ UNCHANGED cancelled
  BY <1>1, <1>2 DEF StartRead, ReaderInv, TrackGrows, Grows, Pushed, NRead, Preloaded
<1>3. CASE DecoderRead /\ UNCHANGED <<preloader, cancelled>>
  <2>1. reading = "loop" /\ reading' # "no" /\ UNCHANGED <<delivered, errRead>>
    BY <1>3 DEF DecoderRead, SkipPacket, BadPacket, EndOfInput, ConversionFails, DecodeFrame,
       LeftoverTooLong, Packet
  <2> QED BY <1>1, <1>3, <2>1 DEF ReaderInv, TrackGrows, Grows, Pushed, NRead, Preloaded
<1>4. CASE preloader = "read" /\ preloader' = "push" /\ EndRead /\ UNCHANGED cancelled
  <2>1. /\ delivered' = delivered \o out /\ out' = out /\ reading' = "no"
        /\ leftover' = leftover /\ made' = made
    BY <1>4 DEF EndRead
  <2>2. (delivered \o out) \o leftover = Sound(made)
    BY <1>4 DEF EndRead, DecoderInv, DecoderLosesNothing
  <2>3. NRead' = NRead + Len(out) /\ \A j \in 1 .. Len(out) : out[j] = NRead + j
    <3>1. /\ delivered \in Samples /\ out \in Samples /\ leftover \in Samples /\ made \in Nat
          /\ NRead' = Len(delivered \o out)
      BY <2>1 DEF DecoderInv, SoundType, NRead
    <3>2. /\ Len(delivered \o out) = Len(delivered) + Len(out)
          /\ \A j \in 1 .. Len(out) : out[j] = Len(delivered) + j
      <4>1. PICK s \in Samples, t \in Samples, u \in Samples, m \in Nat :
              s = delivered /\ t = out /\ u = leftover /\ m = made
        BY <3>1
      <4>2. MakeUp(s, t, u, m)
        BY <2>2, <4>1 DEF MakeUp
      <4>3. /\ s \o t \in Samples /\ Len(s \o t) = Len(s) + Len(t) /\ Len(s) \in Nat /\ Len(t) \in Nat
            /\ \A j \in 1 .. Len(t) : t[j] = Len(s) + j
        BY <4>2, Numbered, Zenon
      <4>4. /\ Len(delivered \o out) = Len(s \o t) /\ Len(delivered) = Len(s) /\ Len(out) = Len(t)
            /\ \A j : out[j] = t[j]
        BY <4>1, Zenon
      <4>5. Len(delivered \o out) = Len(delivered) + Len(out)
        BY <4>3, <4>4, Zenon
      <4>6. ASSUME NEW j \in 1 .. Len(out) PROVE out[j] = Len(delivered) + j
        BY <4>3, <4>4, <4>6, Zenon
      <4> QED BY <4>5, <4>6, Zenon
    <3> QED BY <3>1, <3>2 DEF NRead
  <2>4. Pushed' = NRead + 1 /\ Pushed = NRead + 1
    BY <1>1, <1>4, <2>1, <2>3 DEF Pushed
  <2>5. Heard(out', Pushed', NRead')
    BY <1>1, <2>1, <2>3, <2>4 DEF Heard, At
  <2>6. TrackGrows
    BY <1>1, <1>4, <2>3, <2>4 DEF TrackGrows, Grows, At, Preloaded
  <2>7. Len(out') <= NRead'
    BY <1>1, <2>1, <2>3
  <2> QED BY <1>4, <2>1, <2>5, <2>6, <2>7 DEF ReaderInv
<1>5. CASE UNCHANGED soundVars
  <2>1. UNCHANGED <<reading, out, delivered, errRead, NRead>>
    BY <1>5 DEF soundVars, NRead
  <2>2. CASE UNCHANGED preloader /\ (cancelled' = cancelled \/ cancelled')
    <3>1. UNCHANGED <<Pushed, Preloaded>>
      BY <2>1, <2>2 DEF Pushed, Preloaded
    <3>2. ReaderInv'
      BY <2>1, <2>2, <3>1 DEF ReaderInv
    <3>3. Pushed \in Nat
      BY PushedType DEF DecoderInv
    <3> QED BY <2>1, <3>1, <3>2, <3>3 DEF TrackGrows, Grows
  <2>3. ASSUME UNCHANGED cancelled,
               \/ preloader = "off" /\ preloader' = "silence"
               \/ preloader = "silence" /\ preloader' = "feed"
               \/ preloader = "feed" /\ preloader' = "tail" /\ cancelled
               \/ preloader = "push" /\ preloader' = IF errRead THEN "tail" ELSE "feed"
               \/ preloader = "tail" /\ preloader' = "end"
               \/ preloader = "end" /\ preloader' = "close"
               \/ preloader = "close" /\ preloader' = "done"
        PROVE  ReaderInv' /\ TrackGrows
    <3>1. ReaderInv'
      BY <2>1, <2>3 DEF ReaderInv
    <3>2. /\ Pushed \in Nat /\ Pushed' \in Nat /\ Pushed <= Pushed'
          /\ (Preloaded => Preloaded' /\ Pushed' = Pushed)
          /\ preloader' # preloader /\ (preloader \notin {"silence", "push", "tail"} => Pushed' = Pushed)
      BY <1>1, <2>1, <2>3 DEF Pushed, Preloaded, ReaderInv
    <3> QED BY <2>1, <3>1, <3>2 DEF TrackGrows, Grows
  <2> QED
    BY <1>5, <2>1, <2>2, <2>3, WhileReading DEF NotBegun, StartRead, EndRead, DecoderRead
<1> QED BY <1>2, <1>3, <1>4, <1>5, WhileReading

-----------------------------------------------------------------------------
(* What the encoders were given. *)

Given == fed["mp3"] \o mp3Buffer

EncoderTypes ==
    /\ source \in [Format -> Seq(Chunk)]
    /\ encoder \in [Format -> {"select", "report", "done"}]
    /\ fed \in [Format -> Samples] /\ mp3Buffer \in Samples
    /\ inHand \in Chunk

\* libvorbis was given the sound from its beginning, all of it if it was not
\* stopped.
VorbisHeard ==
    /\ Heard(fed["vorbis"], 0, NRead) /\ Len(fed["vorbis"]) <= Pushed
    /\ encoder["vorbis"] # "select" /\ ~cancelled => Preloaded /\ Len(fed["vorbis"]) = Pushed

Framed(s) == Len(s) % Frame = 0

\* So was LAME, with its buffer, in whole frames; the last one has silence added.
MP3Heard ==
    /\ Heard(Given, 0, NRead)
    /\ Framed(fed["mp3"]) /\ Len(mp3Buffer) < Frame
    /\ \/ Len(Given) <= Pushed /\ (encoder["mp3"] # "select" => cancelled)
       \/ /\ Preloaded /\ mp3Buffer = <<>> /\ encoder["mp3"] # "select"
          /\ Len(fed["mp3"]) - Pushed \in 1 .. Frame

\* streamToClients has received the sound up to r, and sent it to libvorbis up to v,
\* to LAME up to m.  What it drains no longer counts.
Sent(f, from, to) ==
    encoder[f] = "select" => Flow(source[f], from, to, NRead, Pushed, Preloaded)

Position(v, m, r) ==
    /\ player \in {"open", "check", "receive", "toVorbis", "toMP3"} =>
         Flow(buffer, r, Pushed, NRead, Pushed, Preloaded)
    /\ player \in {"open", "check", "receive"} => v = r /\ m = r
    /\ player = "toVorbis" => v = m /\ Joins(inHand, v, r, NRead, Pushed, Preloaded)
    /\ player = "toMP3" => v = r /\ Joins(inHand, m, r, NRead, Pushed, Preloaded)

Delivery ==
    \E v, m, r \in 0 .. Pushed :
      /\ Sent("vorbis", Len(fed["vorbis"]), v) /\ Sent("mp3", Len(Given), m)
      /\ Position(v, m, r)

Reported ==
    /\ player \in {"awaitMP3", "returned"} => encoder["vorbis"] = "done"
    /\ player = "returned" => encoder["mp3"] = "done"

PlaybackInv == EncoderTypes /\ VorbisHeard /\ MP3Heard /\ Delivery /\ Reported

SoundInv == DecoderInv /\ BufferInv /\ ReaderInv /\ PlaybackInv

LEMMA SoundInvInit == Init => ReaderInv /\ PlaybackInv
<1> SUFFICES ASSUME Init PROVE ReaderInv /\ PlaybackInv
  OBVIOUS
<1>1. /\ <<>> \in Samples /\ Len(<<>>) = 0 /\ <<>> \o <<>> = <<>> /\ <<>> \in Seq(Chunk)
      /\ NilChunk \in Chunk
  BY EmptySeq, ConcatEmptySeq DEF Samples, NilChunk, Chunk
<1>2. /\ source = [f \in Format |-> <<>>] /\ encoder = [f \in Format |-> "select"]
      /\ fed = [f \in Format |-> <<>>] /\ mp3Buffer = <<>> /\ buffer = <<>>
      /\ delivered = <<>> /\ reading = "no" /\ preloader = "off" /\ player = "open"
      /\ cancelled = FALSE /\ inHand = NilChunk
  BY DEF Init, DecoderInit
<1>3. /\ "vorbis" \in Format /\ "mp3" \in Format
      /\ source["vorbis"] = <<>> /\ source["mp3"] = <<>> /\ fed["vorbis"] = <<>> /\ fed["mp3"] = <<>>
      /\ encoder["vorbis"] = "select" /\ encoder["mp3"] = "select"
  BY <1>2 DEF Format
<1>4. NRead = 0 /\ Pushed = 0 /\ Given = <<>>
  BY <1>1, <1>2, <1>3 DEF NRead, Pushed, Given
<1>5. ReaderInv
  BY <1>2 DEF ReaderInv
<1>6. EncoderTypes
  BY <1>1, <1>2 DEF EncoderTypes
<1>7. Heard(<<>>, 0, 0) /\ 0 % Frame = 0
  BY <1>1, PipelineAssumption DEF Heard
<1>8. VorbisHeard /\ MP3Heard
  BY <1>1, <1>2, <1>3, <1>4, <1>7, PipelineAssumption DEF VorbisHeard, MP3Heard, Framed
<1>9. Delivery
  <2>1. 0 \in 0 .. Pushed /\ \A d, p, e : 0 \in 0 .. p => Flow(<<>>, 0, 0, d, p, e)
    BY <1>4, FlowEmpty
  <2>2. Flow(<<>>, 0, 0, NRead, Pushed, Preloaded)
    BY <2>1
  <2>3. Sent("vorbis", Len(fed["vorbis"]), 0) /\ Sent("mp3", Len(Given), 0) /\ Position(0, 0, 0)
    BY <1>1, <1>2, <1>3, <1>4, <2>2 DEF Sent, Position
  <2> QED BY <2>1, <2>3 DEF Delivery
<1>10. Reported
  BY <1>2 DEF Reported
<1> QED BY <1>5, <1>6, <1>8, <1>9, <1>10 DEF PlaybackInv

\* The track before a step and after it.
Going == SoundInv /\ DecoderInv' /\ BufferInv' /\ ReaderInv' /\ TrackGrows

LEMMA GoingTypes ==
  ASSUME Going
  PROVE  /\ NRead \in Nat /\ NRead' \in Nat /\ Pushed \in Nat /\ Pushed' \in Nat
         /\ Preloaded \in BOOLEAN /\ Preloaded' \in BOOLEAN
         /\ 0 .. Pushed \subseteq 0 .. Pushed'
         /\ Grows(NRead, Pushed, Preloaded, NRead', Pushed', Preloaded')
         /\ "vorbis" \in Format /\ "mp3" \in Format /\ "vorbis" # "mp3"
<1>1. NRead \in Nat /\ Pushed \in Nat /\ Preloaded \in BOOLEAN
  BY PushedType DEF Going, SoundInv, DecoderInv
<1>2. NRead' \in Nat /\ Len(out)' \in Nat
  BY LenProperties DEF Going, DecoderInv, SoundType, Samples, NRead
<1>3. Pushed' \in Nat /\ Preloaded' \in BOOLEAN
  BY <1>2 DEF Going, ReaderInv, Pushed, Preloaded
<1>4. Grows(NRead, Pushed, Preloaded, NRead', Pushed', Preloaded')
  BY DEF Going, TrackGrows
<1> QED BY <1>1, <1>2, <1>3, <1>4 DEF Grows, Format

\* What was read and pushed stays where it is.
LEMMA StillHeard ==
  ASSUME Going
  PROVE  /\ \A s \in Samples : Heard(s, 0, NRead) /\ (Len(s) <= Pushed \/ Preloaded)
              => Heard(s, 0, NRead')
         /\ \A c \in Chunk, a \in Nat, b \in 0 .. Pushed :
              Joins(c, a, b, NRead, Pushed, Preloaded) => Joins(c, a, b, NRead', Pushed', Preloaded')
         /\ \A s \in Seq(Chunk) : \A a, b :
              Flow(s, a, b, NRead, Pushed, Preloaded) => Flow(s, a, b, NRead', Pushed', Preloaded')
<1>1. PICK d \in Nat, p \in Nat, e \in BOOLEAN, d2 \in Nat, p2 \in Nat, e2 \in BOOLEAN :
        d = NRead /\ p = Pushed /\ e = Preloaded /\ d2 = NRead' /\ p2 = Pushed' /\ e2 = Preloaded'
  BY GoingTypes
<1>2. Grows(d, p, e, d2, p2, e2)
  BY <1>1, GoingTypes
<1>3. ASSUME NEW s \in Samples, Heard(s, 0, d), Len(s) <= p \/ e PROVE Heard(s, 0, d2)
  <2>1. Len(s) \in Nat
    BY LenProperties DEF Samples
  <2> QED BY <1>2, <1>3, <2>1, HeardGrows
<1>4. ASSUME NEW c \in Chunk, NEW a \in Nat, NEW b \in 0 .. p, Joins(c, a, b, d, p, e)
      PROVE  Joins(c, a, b, d2, p2, e2)
  BY <1>2, <1>4, JoinsGrows
<1>5. ASSUME NEW s \in Seq(Chunk), NEW a, NEW b, Flow(s, a, b, d, p, e)
      PROVE  Flow(s, a, b, d2, p2, e2)
  BY <1>2, <1>5, FlowGrows
<1> QED BY <1>1, <1>3, <1>4, <1>5

LEMMA GivenTypes ==
  ASSUME EncoderTypes
  PROVE  /\ fed["vorbis"] \in Samples /\ fed["mp3"] \in Samples /\ Given \in Samples
         /\ Len(fed["vorbis"]) \in Nat /\ Len(fed["mp3"]) \in Nat /\ Len(mp3Buffer) \in Nat
         /\ Len(Given) = Len(fed["mp3"]) + Len(mp3Buffer)
         /\ source["vorbis"] \in Seq(Chunk) /\ source["mp3"] \in Seq(Chunk)
<1>1. /\ fed["vorbis"] \in Samples /\ fed["mp3"] \in Samples
      /\ source["vorbis"] \in Seq(Chunk) /\ source["mp3"] \in Seq(Chunk)
  BY DEF EncoderTypes, Format
<1> QED BY <1>1, ConcatProperties, LenProperties DEF EncoderTypes, Given, Samples

\* What an encoder was given is not disturbed by the steps of the others.
LEMMA EncodersGrow ==
  ASSUME Going, cancelled => cancelled'
  PROVE  /\ UNCHANGED <<encoder["vorbis"], fed["vorbis"]>> => VorbisHeard'
         /\ UNCHANGED <<encoder["mp3"], fed["mp3"], mp3Buffer>> => MP3Heard'
<1>1. /\ Given \in Samples /\ fed["vorbis"] \in Samples
      /\ Len(Given) \in Nat /\ Len(fed["vorbis"]) \in Nat /\ Len(fed["mp3"]) \in Nat
  BY GivenTypes DEF Going, SoundInv, PlaybackInv
<1>2. VorbisHeard /\ MP3Heard
  BY DEF Going, SoundInv, PlaybackInv
<1>3. /\ Pushed \in Nat /\ Pushed' \in Nat /\ Pushed <= Pushed'
      /\ (Preloaded => Preloaded' /\ Pushed' = Pushed)
  BY GoingTypes DEF Grows
<1>4. /\ Heard(fed["vorbis"], 0, NRead')
      /\ Heard(Given, 0, NRead')
  BY <1>1, <1>2, StillHeard DEF VorbisHeard, MP3Heard
<1>5. ASSUME UNCHANGED <<encoder["vorbis"], fed["vorbis"]>> PROVE VorbisHeard'
  BY <1>1, <1>2, <1>3, <1>4, <1>5 DEF VorbisHeard
<1>6. ASSUME UNCHANGED <<encoder["mp3"], fed["mp3"], mp3Buffer>> PROVE MP3Heard'
  <2>1. Given' = Given
    BY <1>6 DEF Given
  <2> QED BY <1>1, <1>2, <1>3, <1>4, <1>6, <2>1 DEF MP3Heard
<1> QED BY <1>5, <1>6

\* Nor is what is on its way to it.
LEMMA SentStays ==
  ASSUME Going, NEW v, NEW m
  PROVE  /\ /\ Sent("vorbis", Len(fed["vorbis"]), v)
            /\ UNCHANGED <<encoder["vorbis"], fed["vorbis"], source["vorbis"]>>
            => Sent("vorbis", Len(fed["vorbis"]), v)'
         /\ /\ Sent("mp3", Len(Given), m)
            /\ UNCHANGED <<encoder["mp3"], fed["mp3"], mp3Buffer, source["mp3"]>>
            => Sent("mp3", Len(Given), m)'
<1>1. source["vorbis"] \in Seq(Chunk) /\ source["mp3"] \in Seq(Chunk)
  BY GivenTypes DEF Going, SoundInv, PlaybackInv
<1>2. ASSUME Sent("vorbis", Len(fed["vorbis"]), v),
             UNCHANGED <<encoder["vorbis"], fed["vorbis"], source["vorbis"]>>
      PROVE  Sent("vorbis", Len(fed["vorbis"]), v)'
  BY <1>1, <1>2, StillHeard DEF Sent
<1>3. ASSUME Sent("mp3", Len(Given), m),
             UNCHANGED <<encoder["mp3"], fed["mp3"], mp3Buffer, source["mp3"]>>
      PROVE  Sent("mp3", Len(Given), m)'
  <2>1. Given' = Given
    BY <1>3 DEF Given
  <2> QED BY <1>1, <1>3, <2>1, StillHeard DEF Sent
<1> QED BY <1>2, <1>3

\* Steps that do not touch the channels.
LEMMA PlaybackStays ==
  ASSUME Going, cancelled => cancelled',
         UNCHANGED <<buffer, inHand, source, encoder, fed, mp3Buffer>>, Pushed' = Pushed,
         \/ player' = player
         \/ player \in {"open", "check"} /\ player' \in {"failed", "check", "receive", "drain"}
  PROVE  PlaybackInv'
<1>1. EncoderTypes' /\ Reported'
  BY DEF Going, SoundInv, PlaybackInv, EncoderTypes, Reported
<1>2. VorbisHeard' /\ MP3Heard'
  BY EncodersGrow
<1>3. PICK v \in 0 .. Pushed, m \in 0 .. Pushed, r \in 0 .. Pushed :
        /\ Sent("vorbis", Len(fed["vorbis"]), v) /\ Sent("mp3", Len(Given), m)
        /\ Position(v, m, r)
  BY DEF Going, SoundInv, PlaybackInv, Delivery
<1>4. Sent("vorbis", Len(fed["vorbis"]), v)' /\ Sent("mp3", Len(Given), m)'
  BY <1>3, SentStays
<1>5. v \in Nat /\ m \in Nat /\ r \in 0 .. Pushed /\ buffer \in Seq(Chunk) /\ inHand \in Chunk
  BY GoingTypes DEF Going, SoundInv, BufferInv, BufferType
<1>6. Position(v, m, r)'
  BY <1>3, <1>5, StillHeard DEF Position
<1>7. Delivery'
  BY <1>4, <1>6 DEF Delivery
<1> QED BY <1>1, <1>2, <1>7 DEF PlaybackInv
LEMMA OthersKeepPlayback ==
  ASSUME Going, [Next]_vars,
         \/ Cancel \/ CheckCancelled \/ Decode \/ ReadReturns \/ CloseStream
         \/ OpenStream \/ OpenStreamFails \/ CheckContext \/ UNCHANGED vars
  PROVE  PlaybackInv'
<1> USE DEF Preload, Play, preloadRest, playerRest, playerVars, preloadVars, encoderVars
<1>1. reading # "no" => preloader = "read"
  BY DEF Going, SoundInv, ReaderInv
<1>2. CASE Cancel
  BY <1>2, PlaybackStays DEF Cancel, Going, TrackGrows
<1>3. CASE CheckCancelled \/ Decode \/ ReadReturns \/ CloseStream
  BY <1>3, PlaybackStays DEF CheckCancelled, Decode, ReadReturns, CloseStream, Going, TrackGrows
<1>4. CASE OpenStream \/ OpenStreamFails \/ CheckContext
  <2>1. player = "open" => preloader = "off"
    BY DEF Going, SoundInv, BufferInv, NotBegun
  <2> QED
    BY <1>4, <2>1, PlaybackStays DEF OpenStream, OpenStreamFails, CheckContext, Going, TrackGrows
<1>5. CASE UNCHANGED vars
  BY <1>5, PlaybackStays DEF vars, Going, TrackGrows
<1> QED BY <1>2, <1>3, <1>4, <1>5

\* A chunk that joins on is pushed into the channel.
LEMMA PushKeepsPlayback ==
  ASSUME Going, NEW c \in Chunk, PushChunk(c),
         Joins(c, Pushed, Pushed', NRead', Pushed', Preloaded'),
         UNCHANGED <<cancelled, player, inHand, source, encoder, fed, mp3Buffer>>
  PROVE  PlaybackInv'
<1>1. EncoderTypes' /\ Reported'
  BY DEF Going, SoundInv, PlaybackInv, EncoderTypes, Reported
<1>2. VorbisHeard' /\ MP3Heard'
  BY EncodersGrow
<1>3. PICK v \in 0 .. Pushed, m \in 0 .. Pushed, r \in 0 .. Pushed :
        /\ Sent("vorbis", Len(fed["vorbis"]), v) /\ Sent("mp3", Len(Given), m)
        /\ Position(v, m, r)
  BY DEF Going, SoundInv, PlaybackInv, Delivery
<1>4. Sent("vorbis", Len(fed["vorbis"]), v)' /\ Sent("mp3", Len(Given), m)'
  BY <1>3, SentStays
<1>5. v \in Nat /\ m \in Nat /\ r \in 0 .. Pushed /\ buffer \in Seq(Chunk) /\ inHand \in Chunk
  BY GoingTypes DEF Going, SoundInv, BufferInv, BufferType
<1>6. ASSUME Flow(buffer, r, Pushed, NRead, Pushed, Preloaded)
      PROVE  Flow(buffer', r, Pushed', NRead', Pushed', Preloaded')
  <2>1. PICK s \in Seq(Chunk), b \in Nat, q \in Nat, d \in Nat, e \in BOOLEAN :
          s = buffer /\ b = Pushed /\ q = Pushed' /\ d = NRead' /\ e = Preloaded'
    BY <1>5, GoingTypes
  <2>2. Flow(s, r, b, d, q, e)
    BY <1>6, <2>1, StillHeard
  <2>3. Joins(c, b, q, d, q, e) /\ q \in 0 .. q
    BY <2>1
  <2>4. Flow(Append(s, c), r, q, d, q, e)
    BY <2>2, <2>3, FlowAppend
  <2> QED BY <2>1, <2>4 DEF PushChunk
<1>7. Position(v, m, r)'
  BY <1>3, <1>5, <1>6, StillHeard DEF Position
<1>8. v \in 0 .. Pushed' /\ m \in 0 .. Pushed' /\ r \in 0 .. Pushed'
  BY GoingTypes
<1>9. Delivery'
  BY <1>4, <1>7, <1>8 DEF Delivery
<1> QED BY <1>1, <1>2, <1>9 DEF PlaybackInv

LEMMA PushesKeepPlayback ==
  ASSUME Going, PushSilence \/ PushSamples \/ PushEnd
  PROVE  PlaybackInv'
<1> USE DEF Preload, preloadRest, playerVars, encoderVars, decoderVars
<1>1. /\ NRead \in Nat /\ Len(out) \in Nat /\ out \in Samples
      /\ UNCHANGED <<NRead, out>>
  BY LenProperties
  DEF Going, SoundInv, DecoderInv, SoundType, Samples, NRead, PushSilence, PushSamples, PushEnd
<1>2. delivered = <<>> => NRead = 0
  BY EmptySeq DEF NRead
<1>3. CASE PushSilence
  <2>1. /\ Pushed' = Pushed + 1
        /\ Pushed = 0 \/ Pushed = NRead + 1
    BY <1>1, <1>2, <1>3 DEF PushSilence, Going, SoundInv, ReaderInv, Pushed
  <2>2. PICK c : c = Pcm(Silence)
    OBVIOUS
  <2>3. c \in Chunk /\ ~c.nil /\ Len(c.samples) = 1 /\ c.samples[1] = 0
    BY <2>2 DEF Pcm, Silence, Chunk, Samples
  <2>4. Heard(c.samples, Pushed, NRead')
    BY <1>1, <2>1, <2>3 DEF Heard, At
  <2>5. Joins(c, Pushed, Pushed', NRead', Pushed', Preloaded')
    BY <2>1, <2>3, <2>4 DEF Joins
  <2> QED BY <1>3, <2>2, <2>3, <2>5, PushKeepsPlayback DEF PushSilence
<1>4. CASE PushSamples
  <2>1. Pushed' = Pushed + Len(out) /\ Heard(out, Pushed, NRead')
    BY <1>1, <1>4 DEF PushSamples, Going, SoundInv, ReaderInv, Pushed
  <2>2. PICK c : c = Pcm(out)
    OBVIOUS
  <2>3. c \in Chunk /\ ~c.nil /\ c.samples = out
    BY <1>1, <2>2 DEF Pcm, Chunk
  <2>4. Joins(c, Pushed, Pushed', NRead', Pushed', Preloaded')
    BY <2>1, <2>3 DEF Joins
  <2> QED BY <1>4, <2>2, <2>3, <2>4, PushKeepsPlayback DEF PushSamples
<1>5. CASE PushEnd
  <2>1. Pushed' = Pushed /\ Preloaded' /\ Pushed \in Nat
    BY <1>1, <1>5 DEF PushEnd, Pushed, Preloaded
  <2>2. NilChunk \in Chunk /\ NilChunk.samples = <<>> /\ Len(NilChunk.samples) = 0
    BY EmptySeq DEF NilChunk, Chunk, Samples
  <2>3. Heard(NilChunk.samples, Pushed, NRead')
    BY <2>2 DEF Heard
  <2>4. Joins(NilChunk, Pushed, Pushed', NRead', Pushed', Preloaded')
    BY <2>1, <2>2, <2>3 DEF Joins
  <2> QED BY <1>5, <2>2, <2>4, PushKeepsPlayback DEF PushEnd
<1> QED BY <1>3, <1>4, <1>5

LEMMA ReceiveKeepsPlayback ==
  ASSUME Going, Receive
  PROVE  PlaybackInv'
<1> USE DEF Play, playerRest, decoderVars, encoderVars
<1>1. EncoderTypes' /\ Reported'
  BY DEF Going, SoundInv, BufferInv, BufferType, PlaybackInv, EncoderTypes, Reported, Receive
<1>2. VorbisHeard' /\ MP3Heard'
  BY EncodersGrow DEF Receive
<1>3. PICK v \in 0 .. Pushed, m \in 0 .. Pushed, r \in 0 .. Pushed :
        /\ Sent("vorbis", Len(fed["vorbis"]), v) /\ Sent("mp3", Len(Given), m)
        /\ Position(v, m, r)
  BY DEF Going, SoundInv, PlaybackInv, Delivery
<1>4. Sent("vorbis", Len(fed["vorbis"]), v)' /\ Sent("mp3", Len(Given), m)'
  BY <1>3, SentStays DEF Receive
<1>5. /\ buffer \in Seq(Chunk) /\ buffer # <<>> /\ buffer' = Tail(buffer) /\ inHand' = Head(buffer)
      /\ inHand' \in Chunk /\ buffer' \in Seq(Chunk)
      /\ player = "receive" /\ player' = "toVorbis"
  BY DEF Going, SoundInv, BufferInv, BufferType, Receive
<1>6. Flow(buffer, r, Pushed, NRead, Pushed, Preloaded) /\ v = r /\ m = r
  BY <1>3, <1>5 DEF Position
<1>7. PICK q \in 0 .. Pushed :
        /\ Joins(inHand', r, q, NRead, Pushed, Preloaded)
        /\ Flow(buffer', q, Pushed, NRead, Pushed, Preloaded)
  <2>1. PICK s \in Seq(Chunk), b \in Nat, d \in Nat, e \in BOOLEAN :
          s = buffer /\ b = Pushed /\ d = NRead /\ e = Preloaded
    BY <1>5, GoingTypes
  <2>2. PICK q \in 0 .. b : Joins(Head(s), r, q, d, b, e) /\ Flow(Tail(s), q, b, d, b, e)
    BY <1>5, <1>6, <2>1, FlowTail
  <2> QED BY <1>5, <2>1, <2>2
<1>8. /\ Joins(inHand', r, q, NRead', Pushed', Preloaded')
      /\ Flow(buffer', q, Pushed, NRead', Pushed', Preloaded')
  <2>1. r \in Nat
    BY GoingTypes
  <2> QED BY <1>5, <1>7, <2>1, StillHeard
<1>9. Pushed' = Pushed
  BY DEF Going, TrackGrows, Receive
<1>10. Position(v, m, q)'
  BY <1>5, <1>6, <1>8, <1>9 DEF Position
<1>11. Delivery'
  BY <1>4, <1>9, <1>10 DEF Delivery
<1> QED BY <1>1, <1>2, <1>11 DEF PlaybackInv

\* A chunk that joins on is sent to an encoder, which may have stopped.
LEMMA GiveKeepsFlow ==
  ASSUME Going, NEW f \in Format, Give(f), UNCHANGED <<encoder, fed, mp3Buffer>>,
         NEW a, NEW b \in 0 .. Pushed, NEW q \in 0 .. Pushed, Sent(f, a, b),
         Joins(inHand, b, q, NRead, Pushed, Preloaded)
  PROVE  /\ source' \in [Format -> Seq(Chunk)]
         /\ \A g \in Format : g # f => source'[g] = source[g]
         /\ encoder[f] = "select" => Flow(source'[f], a, q, NRead', Pushed', Preloaded')
<1>1. source \in [Format -> Seq(Chunk)] /\ source[f] \in Seq(Chunk) /\ inHand \in Chunk
  BY DEF Going, SoundInv, BufferInv, BufferType, PlaybackInv, EncoderTypes
<1>2. source' = [source EXCEPT ![f] = Append(source[f], inHand)]
  BY DEF Give
<1>3. PICK t \in Seq(Chunk) : t = Append(source[f], inHand)
  BY <1>1, AppendProperties
<1>4. source' = [source EXCEPT ![f] = t]
  BY <1>2, <1>3
<1>5. ASSUME encoder[f] = "select" PROVE Flow(t, a, q, NRead', Pushed', Preloaded')
  <2>1. PICK s \in Seq(Chunk), c \in Chunk, p \in Nat, d \in Nat, e \in BOOLEAN :
          s = source[f] /\ c = inHand /\ p = Pushed /\ d = NRead /\ e = Preloaded
    BY <1>1, GoingTypes
  <2>2. Flow(s, a, b, d, p, e) /\ Joins(c, b, q, d, p, e) /\ q \in 0 .. p
    BY <1>5, <2>1 DEF Sent
  <2>3. Flow(Append(s, c), a, q, d, p, e)
    BY <2>2, FlowAppend
  <2>4. Flow(t, a, q, NRead, Pushed, Preloaded)
    BY <1>3, <2>1, <2>3
  <2> QED BY <2>4, StillHeard
<1> QED BY <1>1, <1>4, <1>5

LEMMA SendsKeepPlayback ==
  ASSUME Going, SendVorbis \/ SendMP3
  PROVE  PlaybackInv'
<1> USE DEF Play, playerRest, decoderVars, encoderVars
<1>1. UNCHANGED <<encoder, fed, mp3Buffer, cancelled, buffer, inHand, preloader>>
  BY DEF SendVorbis, SendMP3
<1>2. VorbisHeard' /\ MP3Heard'
  BY <1>1, EncodersGrow
<1>3. PICK v \in 0 .. Pushed, m \in 0 .. Pushed, r \in 0 .. Pushed :
        /\ Sent("vorbis", Len(fed["vorbis"]), v) /\ Sent("mp3", Len(Given), m)
        /\ Position(v, m, r)
  BY DEF Going, SoundInv, PlaybackInv, Delivery
<1>4. /\ v \in Nat /\ m \in Nat /\ buffer \in Seq(Chunk) /\ inHand \in Chunk
      /\ Pushed' = Pushed /\ Given' = Given
      /\ "vorbis" \in Format /\ "mp3" \in Format /\ "vorbis" # "mp3"
  BY <1>1, GoingTypes DEF Going, SoundInv, BufferInv, BufferType, TrackGrows, Given
<1>5. PlaybackInv
  BY DEF Going, SoundInv
<1>6. CASE SendVorbis
  <2>1. player = "toVorbis" /\ player' = "toMP3" /\ Give("vorbis")
    BY <1>6 DEF SendVorbis
  <2>2. v = m /\ Joins(inHand, v, r, NRead, Pushed, Preloaded)
    BY <1>3, <2>1 DEF Position
  <2>3. /\ source' \in [Format -> Seq(Chunk)] /\ source'["mp3"] = source["mp3"]
        /\ encoder["vorbis"] = "select"
             => Flow(source'["vorbis"], Len(fed["vorbis"]), r, NRead', Pushed', Preloaded')
    <3>1. PICK a : a = Len(fed["vorbis"])
      OBVIOUS
    <3>2. Sent("vorbis", a, v)
      BY <1>3, <3>1
    <3>3. /\ source' \in [Format -> Seq(Chunk)]
          /\ \A g \in Format : g # "vorbis" => source'[g] = source[g]
          /\ encoder["vorbis"] = "select" => Flow(source'["vorbis"], a, r, NRead', Pushed', Preloaded')
      BY <1>1, <1>4, <2>1, <2>2, <3>2, GiveKeepsFlow
    <3> QED BY <1>4, <3>1, <3>3
  <2>4. Sent("mp3", Len(Given), m)'
    BY <1>1, <1>3, <2>3, SentStays
  <2>5. Sent("vorbis", Len(fed["vorbis"]), r)'
    BY <1>1, <2>3 DEF Sent
  <2>6. Position(r, m, r)'
    BY <1>1, <1>3, <1>4, <2>1, <2>2, StillHeard DEF Position
  <2>7. Delivery' /\ EncoderTypes' /\ Reported'
    BY <1>1, <1>4, <1>5, <2>1, <2>3, <2>4, <2>5, <2>6
    DEF Delivery, EncoderTypes, Reported, PlaybackInv
  <2> QED BY <1>2, <2>7 DEF PlaybackInv
<1>7. CASE SendMP3
  <2>1. player = "toMP3" /\ player' \in {"awaitVorbis", "check"} /\ Give("mp3")
    BY <1>7 DEF SendMP3
  <2>2. v = r /\ Joins(inHand, m, r, NRead, Pushed, Preloaded)
    BY <1>3, <2>1 DEF Position
  <2>3. /\ source' \in [Format -> Seq(Chunk)] /\ source'["vorbis"] = source["vorbis"]
        /\ encoder["mp3"] = "select"
             => Flow(source'["mp3"], Len(Given), r, NRead', Pushed', Preloaded')
    <3>1. PICK a : a = Len(Given)
      OBVIOUS
    <3>2. Sent("mp3", a, m)
      BY <1>3, <3>1
    <3>3. /\ source' \in [Format -> Seq(Chunk)]
          /\ \A g \in Format : g # "mp3" => source'[g] = source[g]
          /\ encoder["mp3"] = "select" => Flow(source'["mp3"], a, r, NRead', Pushed', Preloaded')
      BY <1>1, <1>4, <2>1, <2>2, <3>2, GiveKeepsFlow
    <3> QED BY <1>4, <3>1, <3>3
  <2>4. Sent("vorbis", Len(fed["vorbis"]), v)'
    BY <1>1, <1>3, <2>3, SentStays
  <2>5. Sent("mp3", Len(Given), r)'
    BY <1>1, <1>4, <2>3 DEF Sent
  <2>6. Position(v, r, r)'
    BY <1>1, <1>3, <1>4, <2>1, <2>2, StillHeard DEF Position
  <2>7. Delivery' /\ EncoderTypes' /\ Reported'
    BY <1>1, <1>4, <1>5, <2>1, <2>3, <2>4, <2>5, <2>6
    DEF Delivery, EncoderTypes, Reported, PlaybackInv
  <2> QED BY <1>2, <2>7 DEF PlaybackInv
<1> QED BY <1>6, <1>7

LEMMA DrainKeepsPlayback ==
  ASSUME Going, Drain
  PROVE  PlaybackInv'
<1> USE DEF Play, playerRest, decoderVars, encoderVars
<1>1. EncoderTypes' /\ Reported'
  BY DEF Going, SoundInv, PlaybackInv, EncoderTypes, Reported, Drain
<1>2. VorbisHeard' /\ MP3Heard'
  BY EncodersGrow DEF Drain
<1>3. PICK v \in 0 .. Pushed, m \in 0 .. Pushed, r \in 0 .. Pushed :
        Sent("vorbis", Len(fed["vorbis"]), v) /\ Sent("mp3", Len(Given), m)
  BY DEF Going, SoundInv, PlaybackInv, Delivery
<1>4. Sent("vorbis", Len(fed["vorbis"]), v)' /\ Sent("mp3", Len(Given), m)'
  BY <1>3, SentStays DEF Drain
<1>5. player' \in {"drain", "awaitVorbis"} /\ Pushed' = Pushed
  BY DEF Drain, Going, TrackGrows
<1>6. Position(v, m, r)'
  BY <1>5 DEF Position
<1> QED BY <1>1, <1>2, <1>4, <1>5, <1>6 DEF PlaybackInv, Delivery

\* The encoders' steps do not change the track.
LEMMA EncodersLeaveTrack ==
  ASSUME UNCHANGED encoderRest
  PROVE  /\ UNCHANGED <<NRead, Pushed, Preloaded, cancelled, buffer, inHand>>
         /\ player' = player => \A v, m, r : Position(v, m, r) => Position(v, m, r)'
<1>1. UNCHANGED <<NRead, Pushed, Preloaded, cancelled, buffer, inHand>>
  BY DEF encoderRest, decoderVars, preloadVars, NRead, Pushed, Preloaded
<1> QED BY <1>1 DEF Position

LEMMA StopKeepsPlayback ==
  ASSUME Going, NEW f \in Format, Stop(f)
  PROVE  PlaybackInv'
<1>1. /\ UNCHANGED <<NRead, Pushed, Preloaded, cancelled, buffer, inHand>>
      /\ UNCHANGED <<player, fed, mp3Buffer, Given>> /\ cancelled
      /\ \A v, m, r : Position(v, m, r) => Position(v, m, r)'
  <2>1. UNCHANGED encoderRest /\ UNCHANGED <<player, fed, mp3Buffer, Given>> /\ cancelled
    BY DEF Stop, Given
  <2> QED BY <2>1, EncodersLeaveTrack
<1>2. /\ encoder[f] = "select" /\ encoder' = [encoder EXCEPT ![f] = "report"]
      /\ source' = [source EXCEPT ![f] = <<>>] /\ <<>> \in Seq(Chunk)
  BY DEF Stop
<1>3. SoundInv /\ PlaybackInv /\ EncoderTypes
  BY DEF Going, SoundInv, PlaybackInv
<1>4. /\ encoder'[f] = "report" /\ encoder' \in [Format -> {"select", "report", "done"}]
      /\ source' \in [Format -> Seq(Chunk)]
      /\ \A g \in Format : g # f => encoder'[g] = encoder[g] /\ source'[g] = source[g]
  BY <1>2, <1>3 DEF EncoderTypes
<1>5. EncoderTypes' /\ Reported'
  BY <1>1, <1>2, <1>3, <1>4 DEF EncoderTypes, PlaybackInv, Reported, Format
<1>6. VorbisHeard'
  BY <1>1, <1>3 DEF VorbisHeard, PlaybackInv
<1>7. MP3Heard'
  <2>1. encoder["mp3"] = "select" \/ encoder'["mp3"] = encoder["mp3"]
    BY <1>2, <1>4, GoingTypes
  <2> QED BY <1>1, <1>3, <2>1 DEF MP3Heard, PlaybackInv
<1>8. \A g \in Format : \A a, b : Sent(g, a, b) =>
          (encoder'[g] = "select" => Flow(source'[g], a, b, NRead, Pushed, Preloaded))
  BY <1>4 DEF Sent
<1>9. PICK v \in 0 .. Pushed, m \in 0 .. Pushed, r \in 0 .. Pushed :
        /\ Sent("vorbis", Len(fed["vorbis"]), v) /\ Sent("mp3", Len(Given), m)
        /\ Position(v, m, r)
  BY <1>3 DEF PlaybackInv, Delivery
<1>10. Sent("vorbis", Len(fed["vorbis"]), v)' /\ Sent("mp3", Len(Given), m)'
  BY <1>1, <1>8, <1>9, GoingTypes DEF Sent
<1>11. Delivery'
  BY <1>1, <1>9, <1>10 DEF Delivery
<1> QED BY <1>5, <1>6, <1>7, <1>11 DEF PlaybackInv

LEMMA ReportKeepsPlayback ==
  ASSUME Going, Report("vorbis", "awaitVorbis", "awaitMP3") \/ Report("mp3", "awaitMP3", "returned")
  PROVE  PlaybackInv'
<1> USE DEF Play
<1>1. /\ UNCHANGED <<NRead, Pushed, Preloaded, cancelled, buffer, inHand>>
      /\ UNCHANGED <<source, fed, mp3Buffer, Given>>
  <2>1. UNCHANGED encoderRest /\ UNCHANGED <<source, fed, mp3Buffer, Given>>
    BY DEF Report, Given
  <2> QED BY <2>1, EncodersLeaveTrack
<1>2. SoundInv /\ PlaybackInv /\ EncoderTypes
  BY DEF Going, SoundInv, PlaybackInv
<1>3. PICK f \in Format :
        /\ encoder[f] = "report" /\ encoder' = [encoder EXCEPT ![f] = "done"]
        /\ \/ f = "vorbis" /\ player' = "awaitMP3"
           \/ f = "mp3" /\ player = "awaitMP3" /\ player' = "returned"
  BY DEF Report, Format
<1>4. /\ encoder'[f] = "done" /\ encoder' \in [Format -> {"select", "report", "done"}]
      /\ \A g \in Format : g # f => encoder'[g] = encoder[g]
      /\ \A g \in Format : encoder'[g] = "select" <=> encoder[g] = "select"
  BY <1>2, <1>3 DEF EncoderTypes
<1>5. EncoderTypes' /\ Reported'
  BY <1>1, <1>2, <1>3, <1>4 DEF EncoderTypes, PlaybackInv, Reported, Format
<1>6. VorbisHeard' /\ MP3Heard'
  BY <1>1, <1>2, <1>4, GoingTypes DEF VorbisHeard, MP3Heard, PlaybackInv
<1>7. PICK v \in 0 .. Pushed, m \in 0 .. Pushed, r \in 0 .. Pushed :
        Sent("vorbis", Len(fed["vorbis"]), v) /\ Sent("mp3", Len(Given), m)
  BY <1>2 DEF PlaybackInv, Delivery
<1>8. Sent("vorbis", Len(fed["vorbis"]), v)' /\ Sent("mp3", Len(Given), m)'
  BY <1>1, <1>4, <1>7, GoingTypes DEF Sent
<1>9. Position(v, m, r)'
  BY <1>3 DEF Position
<1>10. Delivery'
  BY <1>1, <1>8, <1>9 DEF Delivery
<1> QED BY <1>5, <1>6, <1>10 DEF PlaybackInv

LEMMA HeardConcat ==
  ASSUME NEW s \in Samples, NEW t \in Samples, NEW d \in Nat, Heard(s, 0, d), Heard(t, Len(s), d)
  PROVE  s \o t \in Samples /\ Len(s \o t) = Len(s) + Len(t) /\ Heard(s \o t, 0, d)
<1>1. PICK n \in Nat, k \in Nat : n = Len(s) /\ k = Len(t)
  BY LenProperties DEF Samples
<1>2. PICK w : w = s \o t
  OBVIOUS
<1>3. /\ w \in Samples /\ Len(w) = n + k
      /\ \A i \in 1 .. n + k : w[i] = IF i <= n THEN s[i] ELSE t[i - n]
  BY <1>1, <1>2, ConcatProperties DEF Samples
<1>4. ASSUME NEW i \in 1 .. n + k PROVE w[i] = At(i, d)
  <2>1. CASE i <= n
    <3>1. i \in 1 .. n /\ w[i] = s[i] /\ s[i] = At(0 + i, d) /\ 0 + i = i
      BY <1>1, <1>3, <2>1 DEF Heard
    <3> QED BY <3>1
  <2>2. CASE ~ i <= n
    <3>1. PICK j : j = i - n
      OBVIOUS
    <3>2. j \in 1 .. k /\ w[i] = t[j] /\ t[j] = At(n + j, d) /\ n + j = i
      BY <1>1, <1>3, <2>2, <3>1 DEF Heard
    <3> QED BY <3>2
  <2> QED BY <2>1, <2>2
<1>5. \A i \in 1 .. Len(w) : w[i] = At(0 + i, d)
  BY <1>3, <1>4
<1> QED BY <1>1, <1>2, <1>3, <1>5 DEF Heard

\* An encoder's goroutine takes a chunk.
LEMMA TakeFlow ==
  ASSUME Going, NEW f \in Format, Take(f), NEW a \in Nat, NEW b, Sent(f, a, b)
  PROVE  /\ source' \in [Format -> Seq(Chunk)] /\ encoder' \in [Format -> {"select", "report", "done"}]
         /\ encoder[f] = "select" /\ encoder'[f] = IF Head(source[f]).nil THEN "report" ELSE "select"
         /\ \A g \in Format : g # f => source'[g] = source[g] /\ encoder'[g] = encoder[g]
         /\ Head(source[f]) \in Chunk
         /\ \E q \in 0 .. Pushed : /\ Joins(Head(source[f]), a, q, NRead, Pushed, Preloaded)
                                   /\ Flow(source'[f], q, b, NRead, Pushed, Preloaded)
<1>1. /\ source \in [Format -> Seq(Chunk)] /\ encoder \in [Format -> {"select", "report", "done"}]
      /\ source[f] \in Seq(Chunk)
  BY DEF Going, SoundInv, PlaybackInv, EncoderTypes
<1>2. /\ encoder[f] = "select" /\ source[f] # <<>>
      /\ source' = [source EXCEPT ![f] = Tail(source[f])]
      /\ encoder' = [encoder EXCEPT ![f] = IF Head(source[f]).nil THEN "report" ELSE encoder[f]]
  BY DEF Take
<1>3. Tail(source[f]) \in Seq(Chunk) /\ Head(source[f]) \in Chunk
  BY <1>1, <1>2, HeadTailProperties
<1>4. PICK q \in 0 .. Pushed : /\ Joins(Head(source[f]), a, q, NRead, Pushed, Preloaded)
                               /\ Flow(Tail(source[f]), q, b, NRead, Pushed, Preloaded)
  <2>1. PICK s \in Seq(Chunk), p \in Nat, d \in Nat, e \in BOOLEAN :
          s = source[f] /\ p = Pushed /\ d = NRead /\ e = Preloaded
    BY <1>1, GoingTypes
  <2>2. Flow(s, a, b, d, p, e)
    BY <1>2, <2>1 DEF Sent
  <2>3. \E q \in 0 .. p : Joins(Head(s), a, q, d, p, e) /\ Flow(Tail(s), q, b, d, p, e)
    BY <1>2, <2>1, <2>2, FlowTail
  <2> QED BY <2>1, <2>3
<1> QED BY <1>1, <1>2, <1>3, <1>4

LEMMA EncodeVorbisKeepsPlayback ==
  ASSUME Going, EncodeVorbis
  PROVE  PlaybackInv'
<1>1. /\ UNCHANGED <<NRead, Pushed, Preloaded, cancelled, buffer, inHand, player, mp3Buffer>>
      /\ \A v, m, r : Position(v, m, r) => Position(v, m, r)'
  <2>1. UNCHANGED encoderRest /\ UNCHANGED <<player, mp3Buffer>>
    BY DEF EncodeVorbis
  <2> QED BY <2>1, EncodersLeaveTrack
<1>2. SoundInv /\ PlaybackInv /\ EncoderTypes
  BY DEF Going, SoundInv, PlaybackInv
<1>3. PICK v \in 0 .. Pushed, m \in 0 .. Pushed, r \in 0 .. Pushed :
        /\ Sent("vorbis", Len(fed["vorbis"]), v) /\ Sent("mp3", Len(Given), m)
        /\ Position(v, m, r)
  BY <1>2 DEF PlaybackInv, Delivery
<1>4. PICK a, c : a = Len(fed["vorbis"]) /\ c = Head(source["vorbis"]) /\ a \in Nat
  BY <1>2, GivenTypes
<1>5. /\ source' \in [Format -> Seq(Chunk)] /\ encoder' \in [Format -> {"select", "report", "done"}]
      /\ encoder["vorbis"] = "select" /\ encoder'["vorbis"] = IF c.nil THEN "report" ELSE "select"
      /\ source'["mp3"] = source["mp3"] /\ encoder'["mp3"] = encoder["mp3"]
      /\ c \in Chunk
      /\ \E q \in 0 .. Pushed : /\ Joins(c, a, q, NRead, Pushed, Preloaded)
                                /\ Flow(source'["vorbis"], q, v, NRead, Pushed, Preloaded)
  <2>1. "vorbis" \in Format /\ "mp3" \in Format /\ "mp3" # "vorbis" /\ Take("vorbis")
        /\ Sent("vorbis", a, v)
    BY <1>3, <1>4, GoingTypes DEF EncodeVorbis
  <2> QED BY <1>4, <2>1, TakeFlow
<1>6. PICK q \in 0 .. Pushed : /\ Joins(c, a, q, NRead, Pushed, Preloaded)
                               /\ Flow(source'["vorbis"], q, v, NRead, Pushed, Preloaded)
  BY <1>5
<1>7. PICK s \in Samples, t \in Samples, d \in Nat :
        s = fed["vorbis"] /\ t = c.samples /\ d = NRead
  BY <1>2, <1>5, GivenTypes, GoingTypes DEF Chunk
<1>8. Heard(s, 0, d) /\ Heard(t, Len(s), d) /\ q = Len(s) + Len(t)
  BY <1>2, <1>4, <1>6, <1>7 DEF PlaybackInv, VorbisHeard, Joins
<1>9. s \o t \in Samples /\ Len(s \o t) = q /\ Heard(s \o t, 0, d)
  BY <1>8, HeardConcat
<1>10. fed' = [fed EXCEPT !["vorbis"] = s \o t]
  BY <1>4, <1>7 DEF EncodeVorbis, Feed
<1>11. /\ fed' \in [Format -> Samples] /\ fed'["mp3"] = fed["mp3"]
       /\ fed'["vorbis"] \in Samples /\ Len(fed'["vorbis"]) = q /\ Heard(fed'["vorbis"], 0, NRead)
  BY <1>2, <1>7, <1>9, <1>10, GoingTypes DEF EncoderTypes
<1>12. Given' = Given
  BY <1>1, <1>11 DEF Given
<1>13. EncoderTypes' /\ Reported'
  BY <1>1, <1>2, <1>5, <1>11 DEF EncoderTypes, Reported, PlaybackInv
<1>14. VorbisHeard'
  <2>1. q <= Pushed /\ (c.nil => Preloaded /\ q = Pushed) /\ c.nil \in BOOLEAN
    BY <1>5, <1>6, GoingTypes DEF Joins, Chunk
  <2> QED BY <1>1, <1>5, <1>11, <2>1 DEF VorbisHeard
<1>15. MP3Heard'
  BY <1>1, <1>2, <1>5, <1>11, <1>12 DEF MP3Heard, PlaybackInv
<1>16. Sent("mp3", Len(Given), m)'
  BY <1>1, <1>3, <1>5, <1>12 DEF Sent
<1>17. Sent("vorbis", Len(fed["vorbis"]), v)'
  BY <1>1, <1>6, <1>11 DEF Sent
<1>18. Delivery'
  BY <1>1, <1>3, <1>16, <1>17 DEF Delivery
<1> QED BY <1>13, <1>14, <1>15, <1>18 DEF PlaybackInv

-----------------------------------------------------------------------------
(* MP3 frames. *)

LEMMA Divide ==
  ASSUME NEW n \in Nat, NEW q, q = n \div Frame, NEW r, r = n % Frame
  PROVE  n = Frame * q + r
  BY PipelineAssumption

LEMMA DivMod ==
  ASSUME NEW n \in Nat
  PROVE  \E q \in Nat, r \in 0 .. Frame - 1 :
           n \div Frame = q /\ n % Frame = r /\ n = Frame * q + r
<1>1. n \div Frame \in Nat /\ n % Frame \in 0 .. Frame - 1
  BY PipelineAssumption
<1>2. PICK q : q = n \div Frame
  OBVIOUS
<1>3. PICK r : r = n % Frame
  OBVIOUS
<1>4. n = Frame * q + r
  BY <1>2, <1>3, Divide, Zenon
<1>5. q \in Nat /\ r \in 0 .. Frame - 1
  BY <1>1, <1>2, <1>3, Zenon
<1> QED BY <1>2, <1>3, <1>4, <1>5, Zenon

LEMMA Multiple ==
  ASSUME NEW q \in Nat
  PROVE  (Frame * q) % Frame = 0
<1>1. Frame * q \in Nat
  BY PipelineAssumption
<1>2. PICK x \in Nat, r \in 0 .. Frame - 1 :
        (Frame * q) % Frame = r /\ Frame * q = Frame * x + r
  BY <1>1, DivMod, Zenon
<1>3. Frame * (q - x) = r
  BY <1>2, PipelineAssumption
<1>4. q - x \in Int /\ Frame \in Nat /\ Frame > 0
  BY <1>2, PipelineAssumption
<1>5. CASE q - x >= 1
  <2>1. Frame * (q - x) >= Frame
    BY <1>4, <1>5
  <2> QED BY <1>2, <1>3, <1>4, <2>1
<1>6. CASE q - x <= 0 - 1
  <2>1. Frame * (q - x) <= 0 - Frame
    BY <1>4, <1>6
  <2> QED BY <1>2, <1>3, <1>4, <2>1
<1>7. CASE q - x = 0
  <2>1. r = 0
    BY <1>3, <1>4, <1>7
  <2> QED BY <1>2, <2>1, Zenon
<1> QED BY <1>4, <1>5, <1>6, <1>7

LEMMA Frames ==
  ASSUME NEW n \in Nat
  PROVE  /\ WholeFrames(n) \in 0 .. n /\ n - WholeFrames(n) < Frame
         /\ \A k \in Nat : k % Frame = 0 => (k + WholeFrames(n)) % Frame = 0 /\ (k + Frame) % Frame = 0
<1>1. WholeFrames(n) \in 0 .. n /\ n - WholeFrames(n) < Frame
  <2>1. PICK q \in Nat, r \in 0 .. Frame - 1 : n \div Frame = q /\ n = Frame * q + r
    BY DivMod, Zenon
  <2>2. WholeFrames(n) = Frame * q
    BY <2>1, Zenon DEF WholeFrames
  <2>3. Frame * q \in Nat
    BY PipelineAssumption
  <2> QED BY <2>1, <2>2, <2>3, PipelineAssumption
<1>2. ASSUME NEW k \in Nat, k % Frame = 0, NEW q \in Nat PROVE (k + Frame * q) % Frame = 0
  <2>1. PICK x \in Nat, r \in 0 .. Frame - 1 : k % Frame = r /\ k = Frame * x + r
    BY DivMod, Zenon
  <2>2. k + Frame * q = Frame * (x + q) /\ x + q \in Nat
    BY <1>2, <2>1, PipelineAssumption
  <2> QED BY <2>2, Multiple
<1>3. n \div Frame \in Nat /\ 1 \in Nat /\ Frame * 1 = Frame
  BY PipelineAssumption
<1> QED BY <1>1, <1>2, <1>3 DEF WholeFrames

LEMMA LessThanAFrame ==
  ASSUME NEW k \in Nat, k < Frame
  PROVE  k % Frame = k
<1>1. PICK q \in Nat, r \in 0 .. Frame - 1 : k % Frame = r /\ k = Frame * q + r
  BY DivMod, Zenon
<1>2. k = Frame * q + r /\ r \in Nat /\ q \in Nat /\ Frame \in Nat
  BY <1>1, PipelineAssumption
<1>3. q = 0
  <2>1. CASE q >= 1
    <3>1. Frame * q >= Frame
      BY <1>2, <2>1
    <3> QED BY <1>2, <3>1
  <2> QED BY <1>2, <2>1
<1>4. k = r
  BY <1>2, <1>3
<1> QED BY <1>1, <1>4, Zenon

Zeros(n) == [i \in 1 .. n |-> 0]

\* The end of the track: a frame of LAME's is filled up with silence.
LEMMA Padding ==
  ASSUME NEW f \in Samples, NEW b \in Samples, NEW d \in Nat,
         Heard(f \o b, 0, d), Len(f) + Len(b) > d + 1, Len(b) < Frame
  PROVE  \E s \in Samples : /\ s = f \o (b \o Zeros(Frame - Len(b)))
                            /\ Heard(s, 0, d) /\ Len(s) = Len(f) + Frame
<1> DEFINE n == Frame - Len(b)
<1>0. n \in Nat
  BY LenProperties, PipelineAssumption DEF Samples
<1> HIDE DEF n
<1>1. PICK z : z = Zeros(n)
  OBVIOUS
<1>2. z \in Samples /\ Len(z) = n /\ \A i \in 1 .. n : z[i] = 0
  BY <1>0, <1>1 DEF Zeros, Samples
<1>3. Len(f) \in Nat /\ Len(b) \in Nat /\ f \o b \in Samples /\ Len(f \o b) = Len(f) + Len(b)
  BY LenProperties, ConcatProperties DEF Samples
<1>4. /\ f \o b \in Samples
      /\ Len(f) + Len(b) \in Nat
  BY <1>3
<1> DEFINE g == f \o b
           l == Len(f) + Len(b)
<1>5. g \in Samples /\ l \in Nat /\ Len(g) = l /\ l > d + 1 /\ Heard(g, 0, d)
  BY <1>3, <1>4
<1> HIDE DEF g, l
<1>6. Heard(z, Len(g), d)
  <2>1. \A i \in 1 .. n : ~ l + i <= d + 1
    BY <1>0, <1>5
  <2> QED BY <1>2, <1>5, <2>1 DEF Heard, At
<1>7. g \o z \in Samples /\ Len(g \o z) = Len(g) + Len(z) /\ Heard(g \o z, 0, d)
  BY <1>2, <1>5, <1>6, HeardConcat
<1>8. (f \o b) \o z = f \o (b \o z)
  BY <1>2, Assoc, Zenon
<1>9. Len(g) + Len(z) = Len(f) + Frame
  BY <1>2, <1>3, <1>5, PipelineAssumption DEF l, n
<1>10. f \o (b \o z) \in Samples /\ Heard(f \o (b \o z), 0, d) /\ Len(f \o (b \o z)) = Len(f) + Frame
  BY <1>7, <1>8, <1>9 DEF g
<1> QED BY <1>1, <1>10, Zenon DEF n

\* Before it, what fills frames is fed and the rest kept.
LEMMA Framing ==
  ASSUME NEW w \in Samples, NEW n, n = WholeFrames(Len(w))
  PROVE  /\ n \in Nat /\ FirstOf(w, n) \in Samples /\ RestOf(w, n) \in Samples
         /\ w = FirstOf(w, n) \o RestOf(w, n)
         /\ Len(FirstOf(w, n)) = n /\ Len(RestOf(w, n)) < Frame
<1>1. PICK l \in Nat : l = Len(w)
  BY LenProperties DEF Samples
<1>2. n \in 0 .. l /\ l - n < Frame /\ n \in Nat
  BY <1>1, Frames
<1>3. PICK x, y : x = FirstOf(w, n) /\ y = RestOf(w, n)
  OBVIOUS
<1>4. x \in Samples /\ y \in Samples /\ w = x \o y /\ Len(x) = n
  <2>1. /\ FirstOf(w, n) \in Samples /\ RestOf(w, n) \in Samples /\ w = FirstOf(w, n) \o RestOf(w, n)
        /\ Len(FirstOf(w, n)) = IF n < Len(w) THEN n ELSE Len(w)
    BY <1>2, Cut
  <2>2. (IF n < Len(w) THEN n ELSE Len(w)) = n
    BY <1>1, <1>2
  <2> QED BY <1>3, <2>1, <2>2
<1>5. l = n + Len(y) /\ Len(y) \in Nat
  <2>1. Len(x \o y) = Len(x) + Len(y) /\ Len(y) \in Nat
    BY <1>4, ConcatProperties, LenProperties DEF Samples
  <2> QED BY <1>1, <1>4, <2>1
<1>6. Len(y) < Frame
  BY <1>1, <1>2, <1>5, PipelineAssumption
<1> QED BY <1>2, <1>3, <1>4, <1>6

\* What EncodeMP3 does to the sound given to LAME: f were fed and b are in the
\* buffer when the samples t, at whose end q samples were given, are taken.
LEMMA MP3Given ==
  ASSUME Going, EncodeMP3, NEW f \in Samples, f = fed["mp3"], NEW b \in Samples, b = mp3Buffer,
         NEW c \in Chunk, c = Head(source["mp3"]), NEW q \in 0 .. Pushed,
         NEW d \in Nat, d = NRead,
         Joins(c, Len(f \o b), q, NRead, Pushed, Preloaded), Heard(f \o b, 0, d),
         Framed(f), Len(b) < Frame
  PROVE  /\ fed' \in [Format -> Samples] /\ fed'["vorbis"] = fed["vorbis"] /\ mp3Buffer' \in Samples
         /\ Heard(Given', 0, d) /\ Framed(fed'["mp3"]) /\ Len(mp3Buffer') < Frame
         /\ ~c.nil => Len(Given') = q
         /\ c.nil => /\ mp3Buffer' = <<>> /\ Preloaded /\ q = Pushed
                     /\ Len(fed'["mp3"]) - Pushed \in 1 .. Frame
<1>1. /\ Len(f) \in Nat /\ Len(b) \in Nat /\ f \o b \in Samples /\ Len(f \o b) = Len(f) + Len(b)
      /\ c.samples \in Samples /\ c.nil \in BOOLEAN /\ Len(c.samples) \in Nat
  BY LenProperties, ConcatProperties DEF Samples, Chunk
<1>2. /\ q = Len(f) + Len(b) + Len(c.samples) /\ Heard(c.samples, Len(f \o b), d)
      /\ c.nil => Preloaded /\ q = Pushed /\ c.samples = <<>>
  BY <1>1 DEF Joins
<1>3. fed \in [Format -> Samples] /\ "mp3" \in Format /\ "vorbis" \in Format /\ "mp3" # "vorbis"
  BY GoingTypes DEF Going, SoundInv, PlaybackInv, EncoderTypes
<1>6. PICK l \in Nat, k \in Nat, p \in Nat : l = Len(f) /\ k = Len(b) /\ p = Pushed
  BY <1>1, GoingTypes
<1>4. CASE c.nil
  <2>1. b \o c.samples = b /\ Len(c.samples) = 0
    BY <1>2, <1>4, ConcatEmptySeq DEF Samples
  <2>2. PICK n \in Nat : n = Frame - Len(b) /\ n \in 1 .. Frame
    BY <1>1, PipelineAssumption
  <2>3. n = Frame - (Len(b) % Frame)
    <3>1. Len(b) % Frame = Len(b)
      BY <1>1, LessThanAFrame
    <3> QED BY <2>2, <3>1
  <2>5. Pushed = NRead + 2 /\ Len(f) + Len(b) = Pushed
    <3>1. Preloaded /\ q = p /\ q = l + k + 0
      BY <1>2, <1>4, <1>6, <2>1
    <3>2. Pushed = NRead + 2
      BY <3>1 DEF Preloaded, Pushed
    <3>3. l + k = p
      BY <1>6, <3>1
    <3>4. Len(f) + Len(b) = Pushed
      BY <1>6, <3>3, Zenon
    <3> QED BY <3>2, <3>4
  <2>6. PICK s \in Samples : /\ s = f \o (b \o Zeros(Frame - Len(b)))
                             /\ Heard(s, 0, d) /\ Len(s) = Len(f) + Frame
    <3>1. Len(f) + Len(b) > d + 1
      BY <2>5
    <3> QED BY <3>1, Padding, Zenon
  <2>7. fed' = [fed EXCEPT !["mp3"] = s] /\ mp3Buffer' = <<>>
    <3>1. /\ fed' = [fed EXCEPT !["mp3"] = f \o ((b \o c.samples) \o
                       [i \in 1 .. Frame - (Len(b \o c.samples) % Frame) |-> 0])]
          /\ mp3Buffer' = <<>>
      BY <1>4 DEF EncodeMP3, Feed
    <3>2. Zeros(Frame - Len(b)) = [i \in 1 .. Frame - (Len(b) % Frame) |-> 0]
      BY <2>2, <2>3, Zenon DEF Zeros
    <3> QED BY <2>1, <2>6, <3>1, <3>2
  <2>8. /\ fed' \in [Format -> Samples] /\ fed'["vorbis"] = fed["vorbis"] /\ fed'["mp3"] = s
        /\ mp3Buffer' \in Samples /\ Len(mp3Buffer') = 0
    BY <1>3, <2>6, <2>7, EmptySeq DEF Samples
  <2>9. Given' = s
    BY <2>6, <2>7, <2>8, ConcatEmptySeq DEF Given, Samples
  <2>10. (Len(f) + Frame) % Frame = 0
    BY <1>1, Frames DEF Framed
  <2>11. Len(s) - Pushed \in 1 .. Frame
    <3>1. Len(s) = l + Frame /\ l + k = p /\ n = Frame - k
      BY <1>6, <2>2, <2>5, <2>6
    <3>2. (l + Frame) - p = n
      BY <1>6, <3>1, PipelineAssumption
    <3> QED BY <1>6, <2>2, <3>1, <3>2
  <2>12. Framed(s)
    BY <2>6, <2>10 DEF Framed
  <2>13. Len(mp3Buffer') < Frame
    BY <2>8, PipelineAssumption
  <2> QED BY <1>2, <1>4, <2>6, <2>7, <2>8, <2>9, <2>11, <2>12, <2>13, Zenon
<1>5. CASE ~c.nil
  <2>1. PICK t \in Samples : t = c.samples
    BY <1>1
  <2>2. PICK w, n, x, y :
          w = b \o t /\ w \in Samples /\ n = WholeFrames(Len(w)) /\ x = FirstOf(w, n) /\ y = RestOf(w, n)
    BY ConcatProperties DEF Samples
  <2>3. n \in Nat /\ x \in Samples /\ y \in Samples /\ w = x \o y /\ Len(x) = n /\ Len(y) < Frame
    BY <2>2, Framing
  <2>4. (f \o x) \o y = (f \o b) \o t /\ f \o x \in Samples /\ Len(f \o x) = Len(f) + n
    <3>1. x \in Samples /\ y \in Samples /\ b \o t = x \o y
      BY <2>2, <2>3
    <3>2. (f \o x) \o y = (f \o b) \o t
      <4>1. (f \o x) \o y = f \o (x \o y)
        BY <3>1, Assoc, Zenon
      <4>2. (f \o b) \o t = f \o (b \o t)
        BY Assoc, Zenon
      <4> QED BY <3>1, <4>1, <4>2
    <3>3. f \o x \in Samples /\ Len(f \o x) = Len(f) + Len(x)
      BY <3>1, ConcatProperties DEF Samples
    <3> QED BY <2>3, <3>2, <3>3
  <2>5. (Len(f) + n) % Frame = 0
    <3>1. Len(w) \in Nat
      BY <2>2, LenProperties DEF Samples
    <3> QED BY <1>1, <2>2, <3>1, Frames DEF Framed
  <2>6. fed' = [fed EXCEPT !["mp3"] = f \o x] /\ mp3Buffer' = y
    BY <1>5, <2>1, <2>2 DEF EncodeMP3, Feed
  <2>7. fed' \in [Format -> Samples] /\ fed'["vorbis"] = fed["vorbis"] /\ fed'["mp3"] = f \o x
    BY <1>3, <2>4, <2>6
  <2>8. Given' = (f \o b) \o t
    BY <2>4, <2>6, <2>7 DEF Given
  <2>9. Len((f \o b) \o t) = Len(f \o b) + Len(t) /\ Heard((f \o b) \o t, 0, d)
    BY <1>1, <1>2, <2>1, HeardConcat
  <2>10. Len(Given') = q
    BY <1>1, <1>2, <2>1, <2>8, <2>9
  <2>11. Framed(f \o x)
    BY <2>4, <2>5 DEF Framed
  <2> QED BY <1>5, <2>3, <2>6, <2>7, <2>8, <2>9, <2>10, <2>11, Zenon
<1> QED BY <1>4, <1>5

LEMMA EncodeMP3KeepsPlayback ==
  ASSUME Going, EncodeMP3
  PROVE  PlaybackInv'
<1>1. /\ UNCHANGED <<NRead, Pushed, Preloaded, cancelled, buffer, inHand, player>>
      /\ \A v, m, r : Position(v, m, r) => Position(v, m, r)'
  <2>1. UNCHANGED encoderRest /\ UNCHANGED player
    BY DEF EncodeMP3
  <2> QED BY <2>1, EncodersLeaveTrack
<1>2. SoundInv /\ PlaybackInv /\ EncoderTypes
  BY DEF Going, SoundInv, PlaybackInv
<1>3. PICK v \in 0 .. Pushed, m \in 0 .. Pushed, r \in 0 .. Pushed :
        /\ Sent("vorbis", Len(fed["vorbis"]), v) /\ Sent("mp3", Len(Given), m)
        /\ Position(v, m, r)
  BY <1>2 DEF PlaybackInv, Delivery
<1>4. PICK a, c : a = Len(Given) /\ c = Head(source["mp3"]) /\ a \in Nat
  BY <1>2, GivenTypes
<1>5. /\ source' \in [Format -> Seq(Chunk)] /\ encoder' \in [Format -> {"select", "report", "done"}]
      /\ encoder["mp3"] = "select" /\ encoder'["mp3"] = IF c.nil THEN "report" ELSE "select"
      /\ source'["vorbis"] = source["vorbis"] /\ encoder'["vorbis"] = encoder["vorbis"]
      /\ c \in Chunk
      /\ \E q \in 0 .. Pushed : /\ Joins(c, a, q, NRead, Pushed, Preloaded)
                                /\ Flow(source'["mp3"], q, m, NRead, Pushed, Preloaded)
  <2>1. "vorbis" \in Format /\ "mp3" \in Format /\ "mp3" # "vorbis" /\ Take("mp3")
        /\ Sent("mp3", a, m)
    BY <1>3, <1>4, GoingTypes DEF EncodeMP3
  <2> QED BY <1>4, <2>1, TakeFlow
<1>6. PICK q \in 0 .. Pushed : /\ Joins(c, a, q, NRead, Pushed, Preloaded)
                               /\ Flow(source'["mp3"], q, m, NRead, Pushed, Preloaded)
  BY <1>5
<1>7. PICK f \in Samples, b \in Samples, d \in Nat : f = fed["mp3"] /\ b = mp3Buffer /\ d = NRead
  BY <1>2, GivenTypes, GoingTypes DEF EncoderTypes
<1>8. /\ fed' \in [Format -> Samples] /\ fed'["vorbis"] = fed["vorbis"] /\ mp3Buffer' \in Samples
      /\ Heard(Given', 0, d) /\ Framed(fed'["mp3"]) /\ Len(mp3Buffer') < Frame
      /\ ~c.nil => Len(Given') = q
      /\ c.nil => /\ mp3Buffer' = <<>> /\ Preloaded /\ q = Pushed
                  /\ Len(fed'["mp3"]) - Pushed \in 1 .. Frame
  <2>1. f \o b = Given /\ Framed(f) /\ Len(b) < Frame /\ Heard(f \o b, 0, d) /\ a = Len(f \o b)
    BY <1>2, <1>4, <1>7 DEF PlaybackInv, MP3Heard, Given
  <2>2. Joins(c, Len(f \o b), q, NRead, Pushed, Preloaded)
    BY <1>6, <2>1
  <2> QED BY <1>4, <1>5, <1>7, <2>1, <2>2, MP3Given
<1>9. EncoderTypes' /\ Reported'
  BY <1>1, <1>2, <1>5, <1>8 DEF EncoderTypes, Reported, PlaybackInv
<1>10. VorbisHeard'
  BY <1>1, <1>2, <1>5, <1>8 DEF VorbisHeard, PlaybackInv
<1>11. MP3Heard'
  <2>1. q <= Pushed /\ c.nil \in BOOLEAN
    BY <1>5, <1>6, GoingTypes DEF Chunk
  <2>2. Heard(Given', 0, NRead)
    BY <1>7, <1>8
  <2>3. CASE c.nil
    BY <1>1, <1>5, <1>8, <2>2, <2>3 DEF MP3Heard
  <2>4. CASE ~c.nil
    BY <1>1, <1>5, <1>8, <2>1, <2>2, <2>4 DEF MP3Heard
  <2> QED BY <2>3, <2>4
<1>12. Sent("vorbis", Len(fed["vorbis"]), v)'
  BY <1>1, <1>3, <1>5, <1>8 DEF Sent
<1>13. Sent("mp3", Len(Given), m)'
  BY <1>1, <1>5, <1>6, <1>8 DEF Sent
<1>14. Delivery'
  BY <1>1, <1>3, <1>12, <1>13 DEF Delivery
<1> QED BY <1>9, <1>10, <1>11, <1>14 DEF PlaybackInv

-----------------------------------------------------------------------------
(* The two streams. *)

LEMMA SoundInvStep == SoundInv /\ [Next]_vars => SoundInv'
<1> SUFFICES ASSUME SoundInv, [Next]_vars PROVE SoundInv'
  OBVIOUS
<1>1. DecoderInv' /\ BufferInv'
  BY DecoderInvStep, BufferInvStep DEF SoundInv
<1>2. ReaderInv' /\ TrackGrows
  BY <1>1, ReaderStep DEF SoundInv, BufferInv
<1>3. Going
  BY <1>1, <1>2 DEF Going
<1>4. PlaybackInv'
  <2>1. CASE Cancel \/ CheckCancelled \/ Decode \/ ReadReturns \/ CloseStream
             \/ OpenStream \/ OpenStreamFails \/ CheckContext \/ UNCHANGED vars
    BY <1>3, <2>1, OthersKeepPlayback
  <2>2. CASE PushSilence \/ PushSamples \/ PushEnd
    BY <1>3, <2>2, PushesKeepPlayback
  <2>3. CASE Receive
    BY <1>3, <2>3, ReceiveKeepsPlayback
  <2>4. CASE SendVorbis \/ SendMP3
    BY <1>3, <2>4, SendsKeepPlayback
  <2>5. CASE Drain
    BY <1>3, <2>5, DrainKeepsPlayback
  <2>6. CASE Stop("vorbis") \/ Stop("mp3")
    BY <1>3, <2>6, StopKeepsPlayback DEF Format
  <2>7. CASE EncodeVorbis \/ EncodeMP3
    BY <1>3, <2>7, EncodeVorbisKeepsPlayback, EncodeMP3KeepsPlayback
  <2>8. CASE Report("vorbis", "awaitVorbis", "awaitMP3") \/ Report("mp3", "awaitMP3", "returned")
    BY <1>3, <2>8, ReportKeepsPlayback
  <2> QED
    BY <2>1, <2>2, <2>3, <2>4, <2>5, <2>6, <2>7, <2>8
    DEF Next, PreloadTrack, StreamToClients, StreamVorbis, StreamMP3
<1> QED BY <1>1, <1>2, <1>4 DEF SoundInv

\* Of two sequences that carry the sound from its beginning, one is a prefix of
\* the other.
LEMMA OneSound ==
  ASSUME NEW s \in Samples, NEW t \in Samples, NEW d, Heard(s, 0, d), Heard(t, 0, d),
         Len(s) <= Len(t)
  PROVE  IsPrefix(s, t)
<1>1. PICK n \in Nat : n = Len(s)
  BY LenProperties DEF Samples
<1>2. /\ SubSeq(s, 1, n) \in Seq(Int) /\ Len(SubSeq(s, 1, n)) = n
      /\ SubSeq(t, 1, n) \in Seq(Int) /\ Len(SubSeq(t, 1, n)) = n
      /\ \A i \in 1 .. n : SubSeq(s, 1, n)[i] = s[i] /\ SubSeq(t, 1, n)[i] = t[i]
  <2>1. Len(s) \in Nat /\ Len(t) \in Nat /\ \A i \in 1 .. Len(s) : s[i] \in Int
    BY LenProperties, ElementOfSeq DEF Samples
  <2>2. \A i \in 1 .. Len(t) : t[i] \in Int
    BY ElementOfSeq DEF Samples
  <2> QED BY <1>1, <2>1, <2>2, SubSeqProperties DEF Samples
<1>3. \A i \in 1 .. n : s[i] = t[i]
  <2>1. n <= Len(t) /\ Len(t) \in Nat
    BY <1>1, LenProperties DEF Samples
  <2> QED BY <1>1, <2>1 DEF Heard
<1>4. SubSeq(s, 1, n) = SubSeq(t, 1, n)
  BY <1>1, <1>2, <1>3, SeqEqual
<1> QED BY <1>1, <1>4 DEF IsPrefix

\* The sound of a track of m samples.
LEMMA TrackHeard ==
  ASSUME NEW m \in Nat
  PROVE  LET track == Silence \o Sound(m) \o Silence
         IN track \in Samples /\ Len(track) = m + 2 /\ Heard(track, 0, m)
<1>1. PICK z, s : z = Silence /\ s = Sound(m)
  OBVIOUS
<1>2. z \in Samples /\ Len(z) = 1 /\ z[1] = 0
  BY <1>1 DEF Silence, Samples
<1>3. s \in Samples /\ Len(s) = m /\ \A i \in 1 .. m : s[i] = i
  BY <1>1 DEF Sound, Samples
<1>4. Heard(z, 0, m) /\ Heard(s, 1, m) /\ Heard(z, m + 1, m)
  BY <1>2, <1>3 DEF Heard, At
<1>5. z \o s \in Samples /\ Len(z \o s) = 1 + m /\ Heard(z \o s, 0, m)
  BY <1>2, <1>3, <1>4, HeardConcat
<1>6. PICK u \in Samples : u = z \o s
  BY <1>5
<1>7. u \o z \in Samples /\ Len(u \o z) = m + 2 /\ Heard(u \o z, 0, m)
  <2>1. Len(u) = m + 1 /\ Heard(u, 0, m)
    BY <1>5, <1>6
  <2>2. u \o z \in Samples /\ Len(u \o z) = Len(u) + Len(z) /\ Heard(u \o z, 0, m)
    BY <1>2, <1>4, <2>1, HeardConcat
  <2> QED BY <1>2, <2>1, <2>2
<1> QED BY <1>1, <1>6, <1>7

LEMMA SoundInvSound == SoundInv => ClientsHearTheTrack
<1> SUFFICES ASSUME SoundInv PROVE ClientsHearTheTrack
  OBVIOUS
<1>1. PICK v \in Samples, g \in Samples, d \in Nat, p \in Nat :
        v = fed["vorbis"] /\ g = Given /\ d = NRead /\ p = Pushed
  BY GivenTypes, PushedType DEF SoundInv, PlaybackInv, DecoderInv
<1>2. Heard(v, 0, d) /\ Heard(g, 0, d) /\ Len(v) \in Nat /\ Len(g) \in Nat
  BY <1>1, LenProperties DEF SoundInv, PlaybackInv, VorbisHeard, MP3Heard, Samples
<1>3. SameSound
  <2>1. IsPrefix(v, g) \/ IsPrefix(g, v)
    BY <1>2, OneSound
  <2> QED BY <1>1, <2>1 DEF SameSound, Given
<1>4. ASSUME player = "returned", ~cancelled
      PROVE  LET track == Silence \o Sound(made) \o Silence
                 mp3   == fed["mp3"]
             IN /\ fed["vorbis"] = track
                /\ IsPrefix(track, mp3)
                /\ Len(mp3) % Frame = 0
                /\ Len(mp3) - Len(track) \in 1 .. Frame
  <2>1. /\ encoder["vorbis"] = "done" /\ encoder["mp3"] = "done"
        /\ Preloaded /\ errRead
    BY <1>4 DEF SoundInv, PlaybackInv, Reported, BufferInv, EndTaken, ReaderInv, Preloaded
  <2>2. delivered = Sound(made) /\ made \in Nat
    <3>1. leftover = <<>> /\ reading = "no" /\ delivered \in Samples
      BY <2>1 DEF SoundInv, DecoderInv, SoundType, LeftoverFirst, DecoderLosesNothing
    <3>2. delivered \o <<>> = delivered
      BY <3>1, ConcatEmptySeq DEF Samples
    <3>3. (delivered \o <<>>) \o <<>> = Sound(made)
      BY <3>1 DEF SoundInv, DecoderInv, DecoderLosesNothing
    <3> QED BY <3>2, <3>3 DEF SoundInv, DecoderInv, SoundType
  <2>3. d = made
    <3>1. Len(Sound(made)) = made
      BY <2>2 DEF Sound
    <3> QED BY <1>1, <2>2, <3>1 DEF NRead
  <2>4. p = d + 2
    BY <1>1, <2>1 DEF Pushed, Preloaded
  <2>5. Len(v) = p
    BY <1>1, <1>4, <2>1 DEF SoundInv, PlaybackInv, VorbisHeard
  <2>6. g = fed["mp3"] /\ Framed(g) /\ Len(g) - p \in 1 .. Frame
    <3>1. mp3Buffer = <<>> /\ Framed(fed["mp3"]) /\ Len(fed["mp3"]) - Pushed \in 1 .. Frame
      BY <1>4, <2>1 DEF SoundInv, PlaybackInv, MP3Heard
    <3>2. Given = fed["mp3"]
      BY <3>1, GivenTypes, ConcatEmptySeq DEF Given, Samples, SoundInv, PlaybackInv
    <3> QED BY <1>1, <3>1, <3>2
  <2>7. PICK t \in Samples :
          t = Silence \o Sound(made) \o Silence /\ Len(t) = d + 2 /\ Heard(t, 0, d)
    BY <1>1, <2>3, TrackHeard
  <2>8. v = t
    <3>1. \A i \in 1 .. Len(v) : v[i] = t[i]
      BY <1>2, <2>4, <2>5, <2>7 DEF Heard
    <3> QED BY <2>4, <2>5, <2>7, <3>1, SeqEqual DEF Samples
  <2>9. IsPrefix(t, g)
    <3>1. Len(t) <= Len(g)
      BY <1>1, <1>2, <2>4, <2>6, <2>7, PipelineAssumption
    <3> QED BY <1>2, <2>7, <3>1, OneSound
  <2>10. Len(g) - Len(t) \in 1 .. Frame
    BY <2>4, <2>6, <2>7
  <2>11. v = fed["vorbis"] /\ Len(g) % Frame = 0
    BY <1>1, <2>6 DEF Framed
  <2> QED BY <2>6, <2>7, <2>8, <2>9, <2>10, <2>11, Zenon
<1> QED BY <1>3, <1>4, Zenon DEF ClientsHearTheTrack, WholeTrack

\* What clients hear is the track: the same on both streams, and the whole of it if
\* nobody cancels it, however the four goroutines are scheduled and whatever the
\* sizes of reads, frames and channels are.
THEOREM ClientsHear == Spec => []ClientsHearTheTrack
<1>1. Init => SoundInv
  BY DecoderInvInit, BufferInvInit, SoundInvInit DEF SoundInv
<1> QED BY <1>1, SoundInvStep, SoundInvSound, PTL DEF Spec

-----------------------------------------------------------------------------
(* What a decoder obtains, and what is given back. *)

Things(F) == {f[2] : f \in F}
Once(F)   == \A f, g \in F : f[2] = g[2] => f = g

\* The label above passes one more; one more thing is given back.
Above(label, below, l)  == Passes(label) = Passes(below) \cup {l}
OneMore(G, F, l, r)     == G = F \cup {<<l, r>>} /\ r \notin Things(F)
NextStep(n, what)       == \E label : Steps[n + 1] = Step(what, label)

LEMMA StepTable ==
  /\ Len(Steps) = 12 /\ DOMAIN Steps = 1 .. 12
  /\ Steps[1] = Step({"dec"}, 1) /\ Steps[2] = Step({"ioBuffer"}, 2) /\ Steps[3] = Step({"ioctx"}, 3)
  /\ Steps[4] = Step({"container"}, 4) /\ Steps[5] = Step({}, 5) /\ Steps[6] = Step({"codec"}, 5)
  /\ Steps[7] = Step({}, 6) /\ Steps[8] = Step({"swr"}, 6) /\ Steps[9] = Step({}, 7)
  /\ Steps[10] = Step({"packet"}, 7) /\ Steps[11] = Step({"frame"}, 8)
  /\ Steps[12] = Step({"decodedBuffer"}, 9)
  BY DEF Steps

LEMMA LabelTable ==
  /\ GivesBack[1] = {} /\ GivesBack[2] = {"dec"} /\ GivesBack[3] = {"ioBuffer"}
  /\ GivesBack[4] = {"ioBuffer", "ioctx"} /\ GivesBack[5] = {"container"} /\ GivesBack[6] = {"codec"}
  /\ GivesBack[7] = {"swr"} /\ GivesBack[8] = {"packet"} /\ GivesBack[9] = {"frame"}
  BY DEF GivesBack

\* What one more step obtains.
LEMMA ObtainedNext ==
  ASSUME NEW n \in Nat, NEW m, m = n + 1, NEW what, NextStep(n, what)
  PROVE  Obtained(m) = Obtained(n) \cup what
<1>1. 1 .. n + 1 = (1 .. n) \cup {n + 1}
  OBVIOUS
<1>2. Steps[n + 1].gets = what
  BY DEF Step, NextStep
<1> QED BY <1>1, <1>2, Zenon DEF Obtained

LEMMA ObtainedNone == Obtained(0) = {}
<1>1. 1 .. 0 = {}
  OBVIOUS
<1> QED BY <1>1, Zenon DEF Obtained

LEMMA ObtainedTable ==
  /\ Obtained(0) = {} /\ Obtained(1) = {"dec"} /\ Obtained(2) = {"dec", "ioBuffer"}
  /\ Obtained(3) = {"dec", "ioBuffer", "ioctx"}
  /\ Obtained(4) = Obtained(3) \cup {"container"} /\ Obtained(5) = Obtained(4)
  /\ Obtained(6) = Obtained(4) \cup {"codec"} /\ Obtained(7) = Obtained(6)
  /\ Obtained(8) = Obtained(6) \cup {"swr"} /\ Obtained(9) = Obtained(8)
  /\ Obtained(10) = Obtained(8) \cup {"packet"}
  /\ Obtained(11) = Obtained(10) \cup {"frame"}
  /\ Obtained(12) = Obtained(11) \cup {"decodedBuffer"}
<1>0. Obtained(0) = {}
  BY ObtainedNone
<1>b. /\ NextStep(0, {"dec"})
      /\ NextStep(1, {"ioBuffer"})
      /\ NextStep(2, {"ioctx"})
      /\ NextStep(3, {"container"})
      /\ NextStep(4, {})
      /\ NextStep(5, {"codec"})
      /\ NextStep(6, {})
      /\ NextStep(7, {"swr"})
      /\ NextStep(8, {})
      /\ NextStep(9, {"packet"})
      /\ NextStep(10, {"frame"})
      /\ NextStep(11, {"decodedBuffer"})
  BY StepTable DEF NextStep
<1>1. Obtained(1) = {"dec"}
  BY <1>b, <1>0, ObtainedNext
<1>2. Obtained(2) = {"dec", "ioBuffer"}
  BY <1>b, <1>1, ObtainedNext
<1>3. Obtained(3) = {"dec", "ioBuffer", "ioctx"}
  BY <1>b, <1>2, ObtainedNext
<1>4. Obtained(4) = Obtained(3) \cup {"container"}
  BY <1>b, <1>3, ObtainedNext
<1>5. Obtained(5) = Obtained(4)
  <2>1. NextStep(4, {})
    BY <1>b
  <2>2. Obtained(5) = Obtained(4) \cup {}
    BY <2>1, ObtainedNext, 5 = 4 + 1
  <2> QED BY <2>2
<1>6. Obtained(6) = Obtained(4) \cup {"codec"}
  BY <1>b, <1>5, ObtainedNext
<1>7. Obtained(7) = Obtained(6)
  <2>1. NextStep(6, {})
    BY <1>b
  <2>2. Obtained(7) = Obtained(6) \cup {}
    BY <2>1, ObtainedNext, 7 = 6 + 1
  <2> QED BY <2>2
<1>8. Obtained(8) = Obtained(6) \cup {"swr"}
  BY <1>b, <1>7, ObtainedNext
<1>9. Obtained(9) = Obtained(8)
  <2>1. NextStep(8, {})
    BY <1>b
  <2>2. Obtained(9) = Obtained(8) \cup {}
    BY <2>1, ObtainedNext, 9 = 8 + 1
  <2> QED BY <2>2
<1>10. Obtained(10) = Obtained(8) \cup {"packet"}
  BY <1>b, <1>9, ObtainedNext
<1>11. Obtained(11) = Obtained(10) \cup {"frame"}
  BY <1>b, <1>10, ObtainedNext
<1>12. Obtained(12) = Obtained(11) \cup {"decodedBuffer"}
  BY <1>b, <1>11, ObtainedNext
<1> QED BY <1>0, <1>1, <1>2, <1>3, <1>4, <1>5, <1>6, <1>7, <1>8, <1>9, <1>10, <1>11, <1>12

\* One thing more given back, that was not before.
LEMMA GiveOneMore ==
  ASSUME NEW F, NEW G, NEW l, NEW r, OneMore(G, F, l, r), Once(F)
  PROVE  Things(G) = Things(F) \cup {r} /\ Once(G)
<1>1. <<l, r>>[2] = r
  OBVIOUS
<1>2. \A f \in F : f[2] # r
  BY Zenon DEF Things, OneMore
<1>3. Things(F \cup {<<l, r>>}) = Things(F) \cup {r}
  BY <1>1, Zenon DEF Things
<1>4. Once(F \cup {<<l, r>>})
  BY <1>1, <1>2, Zenon DEF Once
<1> QED BY <1>3, <1>4 DEF OneMore

LEMMA SingletonPairs ==
  ASSUME NEW l, NEW r
  PROVE  {l} \X {r} = {<<l, r>>}
  OBVIOUS

LEMMA NoneGivenBack == Things({}) = {} /\ Once({})
  BY Zenon DEF Things, Once

\* What one more label gives back.
LEMMA PassOneMore ==
  ASSUME NEW label, NEW below, NEW l,
         Above(label, below, l)
  PROVE  Cleanup(label) = Cleanup(below) \cup ({l} \X GivesBack[l])
<1>1. \A x, P : x \in UNION {{k} \X GivesBack[k] : k \in P} <=> \E k \in P : x \in {k} \X GivesBack[k]
  BY Zenon
<1>2. \A x : x \in Cleanup(label) <=> x \in Cleanup(below) \/ x \in {l} \X GivesBack[l]
  BY <1>1 DEF Cleanup, Above
<1> QED BY <1>2

\* From the label above cleanup_4 on, each one adds its own thing.
LEMMA PassUp ==
  ASSUME NEW label \in 4 .. 8, NEW next, next = label + 1, NEW r, GivesBack[next] = {r},
         Once(Cleanup(label)), r \notin Things(Cleanup(label))
  PROVE  /\ Things(Cleanup(next)) = Things(Cleanup(label)) \cup {r}
         /\ Once(Cleanup(next))
<1>1. Above(next, label, next)
  BY DEF Passes, Above
<1>2. Cleanup(next) = Cleanup(label) \cup ({next} \X GivesBack[next])
  BY <1>1, PassOneMore, Zenon
<1>3. {next} \X GivesBack[next] = {<<next, r>>}
  BY SingletonPairs, Zenon
<1>4. OneMore(Cleanup(next), Cleanup(label), next, r)
  BY <1>2, <1>3, Zenon DEF OneMore
<1> QED BY <1>4, GiveOneMore, Zenon

LEMMA CleanupTable ==
  /\ Things(Cleanup(1)) = {} /\ Things(Cleanup(2)) = {"dec"}
  /\ Things(Cleanup(3)) = {"dec", "ioBuffer"}
  /\ Things(Cleanup(4)) = {"dec", "ioBuffer", "ioctx"}
  /\ Things(Cleanup(5)) = Things(Cleanup(4)) \cup {"container"}
  /\ Things(Cleanup(6)) = Things(Cleanup(5)) \cup {"codec"}
  /\ Things(Cleanup(7)) = Things(Cleanup(6)) \cup {"swr"}
  /\ Things(Cleanup(8)) = Things(Cleanup(7)) \cup {"packet"}
  /\ Things(Cleanup(9)) = Things(Cleanup(8)) \cup {"frame"}
  /\ \A label \in 1 .. 9 : Once(Cleanup(label))
<1>1. Cleanup(1) = {}
  <2>1. Passes(1) = {1}
    BY DEF Passes
  <2> QED BY <2>1, LabelTable DEF Cleanup
<1>2. Things(Cleanup(2)) = {"dec"} /\ Once(Cleanup(2))
  <2>1. Above(2, 1, 2)
    BY DEF Passes, Above
  <2>2. Cleanup(2) = Cleanup(1) \cup ({2} \X GivesBack[2])
    BY <2>1, PassOneMore
  <2>3. OneMore(Cleanup(2), Cleanup(1), 2, "dec")
    BY <1>1, <2>2, LabelTable, SingletonPairs, NoneGivenBack DEF OneMore
  <2> QED BY <1>1, <2>3, NoneGivenBack, GiveOneMore
<1>3. Things(Cleanup(3)) = {"dec", "ioBuffer"} /\ Once(Cleanup(3))
  <2>1. Above(3, 2, 3)
    BY DEF Passes, Above
  <2>2. Cleanup(3) = Cleanup(2) \cup ({3} \X GivesBack[3])
    BY <2>1, PassOneMore
  <2>3. OneMore(Cleanup(3), Cleanup(2), 3, "ioBuffer")
    BY <1>2, <2>2, LabelTable, SingletonPairs DEF OneMore
  <2> QED BY <1>2, <2>3, GiveOneMore
<1>4. Things(Cleanup(4)) = {"dec", "ioBuffer", "ioctx"} /\ Once(Cleanup(4))
  <2>1. Above(4, 2, 4)
    BY DEF Passes, Above
  <2>2. Cleanup(4) = Cleanup(2) \cup ({4} \X GivesBack[4])
    BY <2>1, PassOneMore
  <2>3. {4} \X GivesBack[4] = {<<4, "ioBuffer">>, <<4, "ioctx">>}
    BY LabelTable
  <2>4. PICK F : F = Cleanup(2) \cup {<<4, "ioBuffer">>}
    OBVIOUS
  <2>5. OneMore(F, Cleanup(2), 4, "ioBuffer")
    BY <1>2, <2>4 DEF OneMore
  <2>6. Things(F) = {"dec", "ioBuffer"} /\ Once(F)
    BY <1>2, <2>5, GiveOneMore
  <2>7. OneMore(Cleanup(4), F, 4, "ioctx")
    BY <2>2, <2>3, <2>4, <2>6 DEF OneMore
  <2> QED BY <2>6, <2>7, GiveOneMore
<1>8. Things(Cleanup(5)) = Things(Cleanup(4)) \cup {"container"} /\ Once(Cleanup(5))
  BY <1>4, LabelTable, PassUp, 5 = 4 + 1
<1>9. Things(Cleanup(6)) = Things(Cleanup(5)) \cup {"codec"} /\ Once(Cleanup(6))
  BY <1>4, <1>8, LabelTable, PassUp, 6 = 5 + 1
<1>10. Things(Cleanup(7)) = Things(Cleanup(6)) \cup {"swr"} /\ Once(Cleanup(7))
  BY <1>4, <1>8, <1>9, LabelTable, PassUp, 7 = 6 + 1
<1>11. Things(Cleanup(8)) = Things(Cleanup(7)) \cup {"packet"} /\ Once(Cleanup(8))
  BY <1>4, <1>8, <1>9, <1>10, LabelTable, PassUp, 8 = 7 + 1
<1>12. Things(Cleanup(9)) = Things(Cleanup(8)) \cup {"frame"} /\ Once(Cleanup(9))
  BY <1>4, <1>8, <1>9, <1>10, <1>11, LabelTable, PassUp, 9 = 8 + 1
<1>13. Things(Cleanup(1)) = {} /\ Once(Cleanup(1))
  BY <1>1, NoneGivenBack
<1> QED BY <1>13, <1>2, <1>3, <1>4, <1>8, <1>9, <1>10, <1>11, <1>12

\* Wherever decoder_new fails, the labels give back what the steps before obtained.
LEMMA FailureGivesBack ==
  ASSUME NEW n \in DOMAIN Steps
  PROVE  /\ Things(Cleanup(Steps[n].onFailure)) = Obtained(n - 1)
         /\ Once(Cleanup(Steps[n].onFailure))
<1>1. /\ Steps[1].onFailure = 1 /\ Steps[2].onFailure = 2 /\ Steps[3].onFailure = 3
      /\ Steps[4].onFailure = 4 /\ Steps[5].onFailure = 5 /\ Steps[6].onFailure = 5
      /\ Steps[7].onFailure = 6 /\ Steps[8].onFailure = 6 /\ Steps[9].onFailure = 7
      /\ Steps[10].onFailure = 7 /\ Steps[11].onFailure = 8 /\ Steps[12].onFailure = 9
  BY StepTable DEF Step
<1>2. n \in 1 .. 12
  BY StepTable
<1>3. Steps[n].onFailure \in 1 .. 9
  BY <1>1, <1>2
<1>4. \A label \in 1 .. 9 : Once(Cleanup(label))
  BY CleanupTable, Zenon
<1>5. /\ Things(Cleanup(1)) = Obtained(0) /\ Things(Cleanup(2)) = Obtained(1)
      /\ Things(Cleanup(3)) = Obtained(2) /\ Things(Cleanup(4)) = Obtained(3)
  BY CleanupTable, ObtainedTable, Zenon
<1>6. Things(Cleanup(5)) = Obtained(4) /\ Things(Cleanup(5)) = Obtained(5)
  BY <1>5, CleanupTable, ObtainedTable, Zenon
<1>7. Things(Cleanup(6)) = Obtained(6) /\ Things(Cleanup(6)) = Obtained(7)
  BY <1>6, CleanupTable, ObtainedTable, Zenon
<1>8. Things(Cleanup(7)) = Obtained(8) /\ Things(Cleanup(7)) = Obtained(9)
  BY <1>7, CleanupTable, ObtainedTable, Zenon
<1>9. Things(Cleanup(8)) = Obtained(10)
  BY <1>8, CleanupTable, ObtainedTable, Zenon
<1>10. Things(Cleanup(9)) = Obtained(11)
  BY <1>9, CleanupTable, ObtainedTable, Zenon
<1>11. Things(Cleanup(Steps[n].onFailure)) = Obtained(n - 1)
  BY <1>1, <1>2, <1>5, <1>6, <1>7, <1>8, <1>9, <1>10
<1> QED BY <1>3, <1>4, <1>11

\* The body and the handle are not among what it obtains.
LEMMA ObtainedInside ==
  ASSUME NEW n \in DOMAIN Steps
  PROVE  "stream" \notin Obtained(n - 1) /\ "pointer" \notin Obtained(n - 1)
<1>1. \A i : \A r \in Steps[i].gets : i \in 1 .. 12 => r \notin {"stream", "pointer"}
  BY StepTable DEF Step
<1>2. \A r \in Obtained(n - 1) : \E i \in 1 .. 12 : r \in Steps[i].gets
  BY StepTable DEF Obtained
<1> QED BY <1>1, <1>2

\* A decoder that is open has all of it, and only an open one is read.
LifeInv ==
    /\ decoder = "opening" => got = {"stream", "pointer"} /\ freed = {}
    /\ decoder = "open" => got = {"stream", "pointer"} \cup Obtained(12) /\ freed = {}
    /\ preloader \notin {"off", "done"} => decoder = "open"
    /\ ResourcesReturned

LEMMA LifeInvInit == Init => LifeInv
<1> SUFFICES ASSUME Init PROVE LifeInv
  OBVIOUS
<1>1. decoder = "opening" /\ got = {"stream", "pointer"} /\ freed = {} /\ preloader = "off"
  BY DEF Init, DecoderInit
<1> QED BY <1>1 DEF LifeInv, ResourcesReturned

LEMMA OpenKeepsLife ==
  ASSUME LifeInv, Open
  PROVE  LifeInv'
<1>1. got' = {"stream", "pointer"} \cup Obtained(12)
  BY StepTable DEF LifeInv, Open
<1>2. decoder' = "open" /\ freed' = {}
  BY DEF LifeInv, Open
<1> QED BY <1>1, <1>2 DEF LifeInv, ResourcesReturned

LEMMA OpenFailsKeepsLife ==
  ASSUME LifeInv, OpenFails, UNCHANGED preloader
  PROVE  LifeInv'
<1>1. PICK n \in DOMAIN Steps : /\ got' = got \cup Obtained(n - 1)
                               /\ freed' = Cleanup(Steps[n].onFailure)
  BY Zenon DEF OpenFails
<1>2. decoder = "opening" /\ decoder' = "failed" /\ preloader' = preloader
  BY DEF OpenFails
<1>3. got' = {"stream", "pointer"} \cup Obtained(n - 1)
  BY <1>1, <1>2 DEF LifeInv
<1>4. Things(freed') = Obtained(n - 1) /\ Once(freed')
  BY <1>1, FailureGivesBack, Zenon
<1>5. "stream" \notin Obtained(n - 1) /\ "pointer" \notin Obtained(n - 1)
  BY ObtainedInside
<1>6. Things(freed') = got' \ {"stream", "pointer"}
  BY <1>3, <1>4, <1>5
<1>7. ResourcesReturned'
  BY <1>2, <1>4, <1>6, Zenon DEF ResourcesReturned, Things, Once
<1> QED BY <1>2, <1>7 DEF LifeInv

LEMMA CloseKeepsLife ==
  ASSUME LifeInv, preloader = "close", preloader' = "done", Close
  PROVE  LifeInv'
<1>1. PICK all : all = DecoderClose \cup {"pointer", "stream"}
  OBVIOUS
<1>2. decoder' = "closed" /\ freed' = {0} \X all /\ got' = got /\ preloader' = "done"
  BY <1>1 DEF Close
<1>3. got = all
  BY <1>1, ObtainedTable DEF LifeInv, DecoderClose
<1>4. \A f \in {0} \X all : f[2] \in all /\ f = <<0, f[2]>>
  OBVIOUS
<1>5. \A r \in all : <<0, r>> \in {0} \X all /\ <<0, r>>[2] = r
  OBVIOUS
<1>6. Things({0} \X all) = all /\ Once({0} \X all)
  <2>1. \A r : r \in Things({0} \X all) <=> r \in all
    BY <1>4, <1>5, Zenon DEF Things
  <2>2. Once({0} \X all)
    BY <1>4, Zenon DEF Once
  <2> QED BY <2>1, <2>2
<1>7. all = all \ {}
  OBVIOUS
<1>8. ResourcesReturned'
  BY <1>2, <1>3, <1>6, <1>7, Zenon DEF ResourcesReturned, Things, Once
<1> QED BY <1>2, <1>8 DEF LifeInv

LEMMA LifeInvStep == LifeInv /\ [Next]_vars => LifeInv'
<1> SUFFICES ASSUME LifeInv, [Next]_vars PROVE LifeInv'
  OBVIOUS
<1>1. ASSUME UNCHANGED lifeVars, preloader' = preloader \/ preloader \notin {"off", "done"}
      PROVE  LifeInv'
  <2>1. decoder' = decoder /\ got' = got /\ freed' = freed
    BY <1>1 DEF lifeVars
  <2>2. ResourcesReturned'
    BY <2>1 DEF LifeInv, ResourcesReturned
  <2>3. preloader' \notin {"off", "done"} => decoder' = "open"
    BY <1>1, <2>1 DEF LifeInv
  <2> QED BY <2>1, <2>2, <2>3 DEF LifeInv
<1>2. CASE PreloadTrack
  <2>1. CASE CloseStream
    BY <2>1, CloseKeepsLife DEF CloseStream, Preload
  <2>2. CASE PushSilence \/ CheckCancelled \/ ReadReturns \/ PushSamples \/ PushEnd
    BY <1>1, <2>2 DEF PushSilence, CheckCancelled, ReadReturns, PushSamples, PushEnd, Preload,
       decoderVars, StartRead, EndRead
  <2>3. CASE Decode
    BY <1>1, <2>3 DEF Decode, preloadVars, DecoderRead, SkipPacket, BadPacket, EndOfInput,
       ConversionFails, DecodeFrame, LeftoverTooLong, Packet
  <2> QED BY <1>2, <2>1, <2>2, <2>3 DEF PreloadTrack
<1>3. CASE StreamToClients
  <2>1. CASE OpenStream
    BY <2>1, OpenKeepsLife DEF OpenStream
  <2>2. CASE OpenStreamFails
    BY <2>2, OpenFailsKeepsLife DEF OpenStreamFails, preloadVars
  <2>3. CASE CheckContext \/ Receive \/ SendVorbis \/ SendMP3 \/ Drain
    BY <1>1, <2>3 DEF CheckContext, Receive, SendVorbis, SendMP3, Drain, playerRest, decoderVars
  <2> QED BY <1>3, <2>1, <2>2, <2>3 DEF StreamToClients
<1>4. CASE Cancel \/ UNCHANGED vars
  BY <1>1, <1>4 DEF Cancel, vars, decoderVars, preloadVars
<1>5. CASE StreamVorbis \/ StreamMP3
  BY <1>1, <1>5 DEF StreamVorbis, StreamMP3, Stop, Report, EncodeVorbis, EncodeMP3, encoderRest,
     decoderVars, preloadVars
<1> QED BY <1>2, <1>3, <1>4, <1>5 DEF Next

\* Wherever decoder_new fails it has given back what it had obtained and nothing
\* twice, and so has Close for a decoder that was opened: cleanup_1 to cleanup_9
\* match the steps.
THEOREM DecoderGivesBack == Spec => []ResourcesReturned
<1>1. LifeInv => ResourcesReturned
  BY DEF LifeInv
<1> QED BY <1>1, LifeInvInit, LifeInvStep, PTL DEF Spec

-----------------------------------------------------------------------------
(* How full everything gets. *)

\* A frame has at least one sample that fits, and a packet yields at most a frame.
DecodedInv ==
    /\ decoder \in {"opening", "failed", "open", "closed"}
    /\ packets \in 0 .. MaxPacket
    /\ Len(leftover) < MaxFrame /\ Len(leftover) <= BufferSize
    /\ made <= packets * MaxFrame

\* Nobody sends on a full channel.
ChannelInv ==
    /\ player \in {"open", "failed", "check", "receive", "toVorbis", "toMP3", "drain",
                   "awaitVorbis", "awaitMP3", "returned"}
    /\ Len(buffer) <= BufferCap
    /\ \A f \in Format : Len(source[f]) <= SourceCap

\* libvorbis makes pages of what it was given.
PagesInv == granulepos <= Len(fed["vorbis"])

LevelInv == SoundInv /\ VorbisInv /\ DecodedInv /\ ChannelInv /\ PagesInv

LEMMA Products ==
  ASSUME NEW a \in Nat, NEW b \in Nat, NEW m \in Nat, a <= b
  PROVE  /\ a * m <= b * m /\ a * m \in Nat /\ b * m \in Nat
         /\ (a + 1) * m = a * m + m
<1>1. PICK c \in Nat : b = a + c
  <2>1. b - a \in Nat /\ b = a + (b - a)
    OBVIOUS
  <2> QED BY <2>1
<1>2. b * m = a * m + c * m /\ c * m \in Nat /\ a * m \in Nat /\ b * m \in Nat
  BY <1>1
<1>3. (a + 1) * m = a * m + m
  OBVIOUS
<1> QED BY <1>2, <1>3

LEMMA LevelInvInit == Init => DecodedInv /\ ChannelInv /\ PagesInv
<1> SUFFICES ASSUME Init PROVE DecodedInv /\ ChannelInv /\ PagesInv
  OBVIOUS
<1>1. /\ decoder = "opening" /\ packets = 0 /\ made = 0 /\ leftover = <<>> /\ granulepos = 0
      /\ player = "open" /\ buffer = <<>> /\ source = [f \in Format |-> <<>>]
      /\ fed = [f \in Format |-> <<>>]
  BY DEF Init, DecoderInit, VorbisInit
<1>2. Len(<<>>) = 0 /\ fed["vorbis"] = <<>>
  BY <1>1, EmptySeq DEF Format
<1>3. DecodedInv
  BY <1>1, <1>2, DecoderAssumption DEF DecodedInv
<1>4. ChannelInv
  BY <1>1, <1>2, PipelineAssumption DEF ChannelInv
<1>5. PagesInv
  BY <1>1, <1>2 DEF PagesInv
<1> QED BY <1>3, <1>4, <1>5

LEMMA DecodedStep ==
  ASSUME DecoderInv, DecodedInv, [Next]_vars
  PROVE  DecodedInv'
<1>0. /\ MaxFrame \in Nat /\ MaxFrame > 0 /\ MaxPacket \in Nat /\ ReadLen \in Nat
      /\ BufferSize \in Nat
  BY DecoderAssumption
<1>1. /\ leftover \in Samples /\ out \in Samples /\ Len(leftover) \in Nat /\ Len(out) \in Nat
      /\ made \in Nat /\ packets \in Nat
  BY LenProperties DEF DecoderInv, SoundType, Samples, DecodedInv
<1>2. ASSUME UNCHANGED <<leftover, packets, made>>,
             decoder' \in {"opening", "failed", "open", "closed"}
      PROVE  DecodedInv'
  BY <1>2 DEF DecodedInv
<1>3. CASE CheckCancelled
  <2>1. CASE StartRead
    <3>1. /\ RestOf(leftover, ReadLen) \in Samples /\ FirstOf(leftover, ReadLen) \in Samples
          /\ leftover = FirstOf(leftover, ReadLen) \o RestOf(leftover, ReadLen)
      BY <1>0, <1>1, Cut DEF Samples
    <3>2. Len(RestOf(leftover, ReadLen)) <= Len(leftover)
      BY <3>1, ConcatProperties, LenProperties DEF Samples
    <3>3. /\ leftover' = RestOf(leftover, ReadLen) /\ packets' = packets /\ made' = made
          /\ decoder' = decoder
      BY <2>1 DEF StartRead, lifeVars
    <3>4. Len(RestOf(leftover, ReadLen)) \in Nat
      BY <3>1, LenProperties DEF Samples
    <3> QED BY <1>0, <1>1, <3>2, <3>3, <3>4 DEF DecodedInv
  <2>2. CASE UNCHANGED decoderVars
    BY <1>2, <2>2 DEF decoderVars, lifeVars, DecodedInv
  <2> QED BY <1>3, <2>1, <2>2 DEF CheckCancelled
<1>4. CASE Decode
  <2>1. CASE SkipPacket \/ BadPacket \/ ConversionFails \/ \E n \in 1 .. MaxFrame : LeftoverTooLong(n)
    <3>1. /\ packets' = packets + 1 /\ packets < MaxPacket
          /\ decoder' = decoder /\ leftover' = leftover /\ made' = made
      BY <2>1 DEF SkipPacket, BadPacket, ConversionFails, LeftoverTooLong, Packet, lifeVars
    <3>2. packets * MaxFrame <= packets' * MaxFrame
      BY <1>0, <1>1, <3>1, Products
    <3>3. packets * MaxFrame \in Nat /\ packets' * MaxFrame \in Nat
      BY <1>0, <1>1, <3>1, Products
    <3>4. made' <= packets' * MaxFrame
      BY <1>1, <3>1, <3>2, <3>3 DEF DecodedInv
    <3> QED BY <1>0, <1>1, <3>1, <3>4 DEF DecodedInv
  <2>2. CASE EndOfInput
    <3>1. /\ packets' = MaxPacket /\ packets <= MaxPacket
          /\ decoder' = decoder /\ leftover' = leftover /\ made' = made
      BY <2>2, <1>0 DEF EndOfInput, lifeVars, DecodedInv
    <3>2. packets * MaxFrame <= packets' * MaxFrame
      BY <1>0, <1>1, <3>1, Products
    <3>3. packets * MaxFrame \in Nat /\ packets' * MaxFrame \in Nat
      BY <1>0, <1>1, <3>1, Products
    <3>4. made' <= packets' * MaxFrame
      BY <1>1, <3>1, <3>2, <3>3 DEF DecodedInv
    <3> QED BY <1>0, <1>1, <3>1, <3>4 DEF DecodedInv
  <2>3. ASSUME NEW n \in 1 .. MaxFrame, DecodeFrame(n)
        PROVE  DecodedInv'
    <3>1. PICK frame : frame = [i \in 1 .. n |-> made + i]
      OBVIOUS
    <3>2. PICK room : room = ReadLen - Len(out)
      OBVIOUS
    <3>3. /\ packets' = packets + 1 /\ packets < MaxPacket /\ made' = made + n
          /\ decoder' = decoder /\ Len(out) < ReadLen /\ n - room <= BufferSize
          /\ leftover' = IF room < n THEN RestOf(frame, room) ELSE leftover
      BY <2>3, <3>1, <3>2 DEF DecodeFrame, Rest, Packet, lifeVars
    <3>4. packets' * MaxFrame = packets * MaxFrame + MaxFrame /\ packets * MaxFrame \in Nat
      BY <1>0, <1>1, <3>3, Products
    <3>5. made' <= packets' * MaxFrame
      BY <1>0, <1>1, <3>3, <3>4 DEF DecodedInv
    <3>6. room \in Nat /\ room >= 1 /\ frame \in Samples /\ Len(frame) = n
      BY <1>0, <1>1, <3>1, <3>2, <3>3 DEF Samples
    <3>7. Len(leftover') < MaxFrame /\ Len(leftover') <= BufferSize
      <4>1. CASE room < n
        <5>1. /\ RestOf(frame, room) \in Samples /\ FirstOf(frame, room) \in Samples
              /\ frame = FirstOf(frame, room) \o RestOf(frame, room)
              /\ Len(FirstOf(frame, room)) = room
          BY <3>6, <4>1, Cut DEF Samples
        <5>2. Len(RestOf(frame, room)) = n - room
          BY <3>6, <5>1, ConcatProperties, LenProperties DEF Samples
        <5> QED BY <1>0, <3>3, <3>6, <4>1, <5>2
      <4>2. CASE ~(room < n)
        BY <3>3, <4>2 DEF DecodedInv
      <4> QED BY <4>1, <4>2
    <3> QED BY <1>0, <1>1, <3>3, <3>5, <3>7 DEF DecodedInv
  <2> QED BY <1>4, <2>1, <2>2, <2>3 DEF Decode, DecoderRead
<1>5. CASE ReadReturns \/ PushSilence \/ PushSamples \/ PushEnd \/ CloseStream
  BY <1>2, <1>5 DEF ReadReturns, EndRead, PushSilence, PushSamples, PushEnd, CloseStream, Close,
     decoderVars, lifeVars, DecodedInv
<1>6. CASE StreamToClients
  BY <1>2, <1>6 DEF StreamToClients, OpenStream, Open, OpenStreamFails, OpenFails, CheckContext,
     Receive, SendVorbis, SendMP3, Drain, playerRest, decoderVars, lifeVars, DecodedInv
<1>7. CASE Cancel \/ StreamVorbis \/ StreamMP3 \/ UNCHANGED vars
  BY <1>2, <1>7 DEF Cancel, StreamVorbis, StreamMP3, Stop, EncodeVorbis, EncodeMP3, Report,
     encoderRest, vars, decoderVars, lifeVars, DecodedInv
<1> QED BY <1>3, <1>4, <1>5, <1>6, <1>7 DEF Next, PreloadTrack

LEMMA ChannelStep ==
  ASSUME BufferType, EncoderTypes, ChannelInv, [Next]_vars
  PROVE  ChannelInv'
<1>0. /\ buffer \in Seq(Chunk) /\ inHand \in Chunk /\ source \in [Format -> Seq(Chunk)]
      /\ BufferCap \in Nat /\ SourceCap \in Nat
  BY PipelineAssumption DEF BufferType, EncoderTypes
<1> DEFINE Player == {"open", "failed", "check", "receive", "toVorbis", "toMP3", "drain",
                        "awaitVorbis", "awaitMP3", "returned"}
<1>1. ASSUME UNCHANGED source, player' \in Player, Len(buffer') <= BufferCap
      PROVE  ChannelInv'
  BY <1>1 DEF ChannelInv
<1>2. ASSUME NEW c \in Chunk, PushChunk(c)
      PROVE  Len(buffer') <= BufferCap
  BY <1>0, <1>2, AppendProperties, LenProperties DEF PushChunk
<1>3. ASSUME buffer # <<>>, buffer' = Tail(buffer)
      PROVE  Len(buffer') <= BufferCap
  BY <1>0, <1>3, HeadTailProperties, LenProperties DEF ChannelInv
<1>4. ASSUME NEW g \in Format, UNCHANGED buffer, player' \in Player,
             \/ Give(g)
             \/ source' = [source EXCEPT ![g] = <<>>]
             \/ source[g] # <<>> /\ source' = [source EXCEPT ![g] = Tail(@)]
      PROVE  ChannelInv'
  <2>1. Len(source'[g]) <= SourceCap
    <3>1. source[g] \in Seq(Chunk) /\ Len(source[g]) <= SourceCap
      BY <1>0 DEF ChannelInv
    <3>2. CASE Give(g)
      <4>1. source'[g] = Append(source[g], inHand) /\ Len(source[g]) < SourceCap
        BY <1>0, <3>2 DEF Give
      <4> QED BY <1>0, <3>1, <4>1, AppendProperties, LenProperties
    <3>3. CASE source' = [source EXCEPT ![g] = <<>>]
      <4>1. source'[g] = <<>>
        BY <1>0, <3>3
      <4> QED BY <1>0, <4>1, EmptySeq
    <3>4. CASE source[g] # <<>> /\ source' = [source EXCEPT ![g] = Tail(@)]
      <4>1. source'[g] = Tail(source[g])
        BY <1>0, <3>4
      <4> QED BY <1>0, <3>1, <3>4, <4>1, HeadTailProperties, LenProperties
    <3> QED BY <1>4, <3>2, <3>3, <3>4
  <2>2. \A f \in Format : f # g => source'[f] = source[f]
    BY <1>0, <1>4 DEF Give
  <2> QED BY <1>4, <2>1, <2>2 DEF ChannelInv
<1>5. CASE PreloadTrack
  <2>1. player' = player /\ source' = source
    BY <1>5 DEF PreloadTrack, PushSilence, CheckCancelled, Decode, ReadReturns, PushSamples, PushEnd,
       CloseStream, preloadRest, playerVars
  <2>2. CASE UNCHANGED buffer
    BY <1>1, <2>1, <2>2 DEF ChannelInv
  <2>3. ASSUME NEW c, PushChunk(c), buffer' = Append(buffer, c)
        PROVE  Len(buffer') <= BufferCap
    <3>1. Len(buffer) < BufferCap /\ Len(Append(buffer, c)) = Len(buffer) + 1
      BY <1>0, <2>3 DEF PushChunk
    <3> QED BY <1>0, <2>3, <3>1, LenProperties
  <2>4. CASE PushSilence \/ PushSamples \/ PushEnd
    <3>1. Len(buffer') <= BufferCap
      BY <2>3, <2>4 DEF PushSilence, PushSamples, PushEnd, PushChunk
    <3> QED BY <1>1, <2>1, <3>1 DEF ChannelInv
  <2> QED BY <1>5, <2>2, <2>4 DEF PreloadTrack, CheckCancelled, Decode, ReadReturns, CloseStream,
          preloadVars
<1>6. CASE StreamToClients
  <2>1. CASE OpenStream \/ OpenStreamFails \/ CheckContext
    BY <1>1, <2>1 DEF OpenStream, OpenStreamFails, CheckContext, Play, preloadVars, ChannelInv
  <2>2. CASE Receive \/ Drain
    BY <1>1, <1>3, <2>2 DEF Receive, Drain, Play
  <2>3. CASE SendVorbis
    BY <1>4, <2>3 DEF SendVorbis, Play, Format
  <2>4. CASE SendMP3
    BY <1>4, <2>4 DEF SendMP3, Play, Format
  <2> QED BY <1>6, <2>1, <2>2, <2>3, <2>4 DEF StreamToClients
<1>7. CASE StreamVorbis
  <2>1. CASE Stop("vorbis")
    BY <1>4, <2>1 DEF Stop, encoderRest, preloadVars, Format, ChannelInv
  <2>2. CASE EncodeVorbis
    BY <1>4, <2>2 DEF EncodeVorbis, Take, encoderRest, preloadVars, Format, ChannelInv
  <2>3. CASE Report("vorbis", "awaitVorbis", "awaitMP3")
    BY <1>1, <2>3 DEF Report, Play, encoderRest, preloadVars, ChannelInv
  <2> QED BY <1>7, <2>1, <2>2, <2>3 DEF StreamVorbis
<1>8. CASE StreamMP3
  <2>1. CASE Stop("mp3")
    BY <1>4, <2>1 DEF Stop, encoderRest, preloadVars, Format, ChannelInv
  <2>2. CASE EncodeMP3
    BY <1>4, <2>2 DEF EncodeMP3, Take, encoderRest, preloadVars, Format, ChannelInv
  <2>3. CASE Report("mp3", "awaitMP3", "returned")
    BY <1>1, <2>3 DEF Report, Play, encoderRest, preloadVars, ChannelInv
  <2> QED BY <1>8, <2>1, <2>2, <2>3 DEF StreamMP3
<1>9. CASE Cancel \/ UNCHANGED vars
  BY <1>1, <1>9 DEF Cancel, vars, preloadVars, playerVars, ChannelInv
<1> QED BY <1>5, <1>6, <1>7, <1>8, <1>9 DEF Next

LEMMA PagesStep ==
  ASSUME EncoderTypes, VorbisInv, PagesInv, [Next]_vars
  PROVE  PagesInv'
<1>1. CASE EncodeVorbis
  <2>1. PICK head : head = Head(source["vorbis"])
    OBVIOUS
  <2>2. /\ source["vorbis"] \in Seq(Chunk) /\ source["vorbis"] # <<>> /\ fed["vorbis"] \in Samples
        /\ fed' = [fed EXCEPT !["vorbis"] = @ \o head.samples]
        /\ IF head.nil THEN UNCHANGED vorbisVars ELSE VorbisEncode(Len(fed'["vorbis"]))
    BY <1>1, <2>1 DEF EncodeVorbis, Take, Feed, EncoderTypes, Format
  <2>3. head \in Chunk
    BY <2>1, <2>2, HeadTailProperties
  <2>4. fed'["vorbis"] = fed["vorbis"] \o head.samples /\ head.samples \in Samples
    BY <2>2, <2>3 DEF EncoderTypes, Format, Chunk
  <2>5. /\ Len(fed'["vorbis"]) = Len(fed["vorbis"]) + Len(head.samples)
        /\ Len(fed["vorbis"]) \in Nat /\ Len(head.samples) \in Nat
    <3>1. fed["vorbis"] \in Seq(Int) /\ head.samples \in Seq(Int)
      BY <2>2, <2>4, Zenon DEF Samples
    <3>2. /\ Len(fed["vorbis"] \o head.samples) = Len(fed["vorbis"]) + Len(head.samples)
          /\ Len(fed["vorbis"]) \in Nat /\ Len(head.samples) \in Nat
      BY <3>1, ConcatProperties, LenProperties
    <3> QED BY <2>4, <3>2
  <2>6. granulepos' \in granulepos .. Len(fed'["vorbis"]) \/ granulepos' = granulepos
    BY <2>2 DEF VorbisEncode, MakePages, vorbisVars
  <2>7. granulepos \in Int /\ granulepos <= Len(fed["vorbis"])
    BY DEF PagesInv, VorbisInv
  <2>8. granulepos' <= Len(fed'["vorbis"])
    <3>1. PICK before, after, more :
            before = Len(fed["vorbis"]) /\ after = Len(fed'["vorbis"]) /\ more = Len(head.samples)
      OBVIOUS
    <3>2. after = before + more /\ before \in Nat /\ more \in Nat
      BY <2>5, <3>1, Zenon
    <3>3. granulepos' \in granulepos .. after \/ granulepos' = granulepos
      BY <2>6, <3>1, Zenon
    <3>4. granulepos \in Int /\ granulepos <= before
      BY <2>7, <3>1, Zenon
    <3>5. granulepos' <= after
      BY <3>2, <3>3, <3>4
    <3> QED BY <3>1, <3>5, Zenon
  <2> QED BY <2>8 DEF PagesInv
<1>2. CASE EncodeMP3
  <2>1. fed'["vorbis"] = fed["vorbis"] /\ granulepos' = granulepos
    BY <1>2 DEF EncodeMP3, Feed, vorbisVars, EncoderTypes, Format
  <2> QED BY <2>1 DEF PagesInv
<1>3. CASE PreloadTrack \/ StreamToClients \/ Cancel \/ UNCHANGED vars
  <2>1. fed' = fed /\ granulepos' = granulepos
    BY <1>3 DEF PreloadTrack, PushSilence, CheckCancelled, Decode, ReadReturns, PushSamples, PushEnd,
       CloseStream, preloadRest, StreamToClients, OpenStream, OpenStreamFails, CheckContext, Receive,
       SendVorbis, SendMP3, Drain, playerRest, Cancel, vars, encoderVars, vorbisVars
  <2> QED BY <2>1 DEF PagesInv
<1>4. ASSUME NEW f, NEW from, NEW to, Stop(f) \/ Report(f, from, to)
      PROVE  PagesInv'
  BY <1>4 DEF Stop, Report, vorbisVars, PagesInv
<1> QED BY <1>1, <1>2, <1>3, <1>4 DEF Next, StreamVorbis, StreamMP3

LEMMA LevelInvTypes == LevelInv => TypeOK
<1> SUFFICES ASSUME LevelInv PROVE TypeOK
  OBVIOUS
<1>1. DecoderTypeOK
  <2>1. /\ packets \in Nat /\ packets <= MaxPacket /\ MaxFrame \in Nat /\ MaxPacket \in Nat
        /\ made \in Nat /\ made <= packets * MaxFrame
    BY DecoderAssumption DEF LevelInv, SoundInv, DecoderInv, SoundType, DecodedInv
  <2>2. /\ packets * MaxFrame <= MaxPacket * MaxFrame
        /\ packets * MaxFrame \in Nat /\ MaxPacket * MaxFrame \in Nat
    BY <2>1, Products
  <2>3. made \in 0 .. MaxPacket * MaxFrame
    BY <2>1, <2>2
  <2> QED BY <2>3 DEF DecoderTypeOK, LevelInv, SoundInv, DecoderInv, SoundType, DecodedInv
<1>2. handed <= granulepos /\ granulepos <= Len(fed["vorbis"])
  BY DEF LevelInv, VorbisInv, PagesInv
<1> QED
  BY <1>1, <1>2 DEF TypeOK, LevelInv, SoundInv, ReaderInv, PlaybackInv, EncoderTypes, MP3Heard,
     ChannelInv

\* No channel holds more than its capacity, no buffer more than a read, a frame or
\* its own size (decoded_buffer: LeftoverTooLong ends the process before it is),
\* no encoder has made pages of more than it was given, and everybody is at one of
\* the places the module names.
THEOREM TypesAreKept == Spec => []TypeOK
<1>1. Init => LevelInv
  BY DecoderInvInit, BufferInvInit, SoundInvInit, VorbisInvInit, LevelInvInit DEF SoundInv, LevelInv
<1>2. LevelInv /\ [Next]_vars => LevelInv'
  BY SoundInvStep, VorbisInvStep, DecodedStep, ChannelStep, PagesStep
     DEF LevelInv, SoundInv, BufferInv, PlaybackInv
<1> QED BY <1>1, <1>2, LevelInvTypes, PTL DEF Spec
=============================================================================
