------------------------------ MODULE Pipeline ------------------------------
(***************************************************************************)
(* The sound of one track on its way to the encoders: preloadTrack reads   *)
(* the decoder and fills bufferingChannel (src/server/trackStream.go);     *)
(* streamToClients hands each chunk to the goroutines of streamVorbis and  *)
(* streamMP3, which feed libvorbis and LAME (src/server/distributor.go).   *)
(* The track may be cancelled at any moment; everybody notices on its own. *)
(* A read that ends the process (~Alive) ends all of its goroutines.       *)
(*                                                                         *)
(* What surrounds this in processTrack is in module Playback, and what     *)
(* becomes of the encoded chunks in module Distributor: here it is only    *)
(* time the encoders take.                                                 *)
(***************************************************************************)
EXTENDS Decoder, VorbisEncoder

CONSTANTS BufferCap,   \* capacity of bufferingChannel (5000)
          SourceCap,   \* capacity of an encoder's source channel (5000)
          Frame        \* samples in an MP3 frame (1152)

ASSUME PipelineAssumption ==
    /\ BufferCap \in Nat \ {0}
    /\ SourceCap \in Nat \ {0}
    /\ Frame \in Nat \ {0}

VARIABLES cancelled,   \* streamContext is done
          preloader,   \* where preloadTrack is
          buffer,      \* bufferingChannel
          player,      \* where streamToClients is
          inHand,      \* the chunk it has received
          source,      \* each encoder's source channel
          encoder,     \* where each encoder's goroutine is
          mp3Buffer,   \* buffer of streamMP3: less than a frame
          fed          \* what each encoder library was given (history)

preloadVars == <<preloader, buffer>>
playerVars  == <<player, inHand>>
encoderVars == <<encoder, mp3Buffer, fed, vorbisVars>>
vars == <<decoderVars, cancelled, preloadVars, playerVars, source, encoderVars>>

Format == {"vorbis", "mp3"}

\* A chunk of samples, or the nil chunk.
Pcm(samples) == [nil |-> FALSE, samples |-> samples]
NilChunk     == [nil |-> TRUE, samples |-> <<>>]

\* Samples of silence: the two pushSilentFrames make four chunks each, here one.
Silence == <<0>>

TypeOK ==
    /\ DecoderTypeOK
    /\ cancelled \in BOOLEAN
    /\ preloader \in {"off", "silence", "feed", "read", "push", "tail", "end", "close",
                      "done"}
    /\ player \in {"open", "failed", "check", "receive", "toVorbis", "toMP3", "drain", "awaitVorbis",
                   "awaitMP3", "returned"}
    /\ Len(buffer) <= BufferCap
    /\ \A f \in Format : Len(source[f]) <= SourceCap
    /\ encoder \in [Format -> {"select", "report", "done"}]
    /\ Len(mp3Buffer) < Frame
    /\ handed <= granulepos /\ granulepos <= Len(fed["vorbis"])

Init ==
    /\ DecoderInit /\ VorbisInit
    /\ cancelled = FALSE
    /\ preloader = "off" /\ buffer = <<>>
    /\ player = "open" /\ inHand = NilChunk
    /\ source = [f \in Format |-> <<>>]
    /\ encoder = [f \in Format |-> "select"]
    /\ mp3Buffer = <<>>
    /\ fed = [f \in Format |-> <<>>]

\* A skip, or the monitor.
Cancel ==
    /\ Alive
    /\ player # "open"
    /\ ~cancelled
    /\ cancelled' = TRUE
    /\ UNCHANGED <<decoderVars, preloadVars, playerVars, source, encoderVars>>

-----------------------------------------------------------------------------
(* preloadTrack. *)

preloadRest == <<cancelled, playerVars, source, encoderVars>>

Preload(from, to) == Alive /\ preloader = from /\ preloader' = to

\* Variant of PushChunk: the channel has no capacity.
PushUnbounded(c) == buffer' = Append(buffer, c)

PushChunk(c) ==
    /\ Len(buffer) < BufferCap
    /\ buffer' = Append(buffer, c)

PushSilence ==
    /\ Preload("silence", "feed") \/ Preload("tail", "end")
    /\ PushChunk(Pcm(Silence))
    /\ UNCHANGED <<decoderVars, preloadRest>>

\* Variant of CheckCancelled: a cancelled track gets no end mark.
CheckCancelledNoEnd ==
    \/ /\ cancelled
       /\ Preload("feed", "close")
       /\ UNCHANGED <<decoderVars, buffer, preloadRest>>
    \/ /\ ~cancelled
       /\ Preload("feed", "read")
       /\ StartRead
       /\ UNCHANGED <<buffer, preloadRest>>

\* The context is looked at before each read.
CheckCancelled ==
    \/ /\ cancelled
       /\ Preload("feed", "tail")
       /\ UNCHANGED <<decoderVars, buffer, preloadRest>>
    \/ /\ ~cancelled
       /\ Preload("feed", "read")
       /\ StartRead
       /\ UNCHANGED <<buffer, preloadRest>>

Decode ==
    /\ DecoderRead
    /\ UNCHANGED <<preloadVars, preloadRest>>

ReadReturns ==
    /\ Preload("read", "push")
    /\ EndRead
    /\ UNCHANGED <<buffer, preloadRest>>

\* Whatever was read is pushed, even nothing; then an error ends the track.
PushSamples ==
    /\ Preload("push", IF errRead THEN "tail" ELSE "feed")
    /\ PushChunk(Pcm(out))
    /\ UNCHANGED <<decoderVars, preloadRest>>

PushEnd ==
    /\ Preload("end", "close")
    /\ PushChunk(NilChunk)
    /\ UNCHANGED <<decoderVars, preloadRest>>

CloseStream ==
    /\ Preload("close", "done")
    /\ Close
    /\ UNCHANGED <<buffer, preloadRest>>

PreloadTrack ==
    \/ PushSilence \/ CheckCancelled \/ Decode \/ ReadReturns \/ PushSamples \/ PushEnd
    \/ CloseStream

-----------------------------------------------------------------------------
(* streamToClients. *)

playerRest == <<decoderVars, cancelled, preloader, encoderVars>>

Play(from, to) == Alive /\ player = from /\ player' = to

\* GetRawStream, for a body that has to be decoded; then go s.preloadTrack and
\* streamToClients.
OpenStream ==
    /\ Play("open", "check")
    /\ preloader' = "silence"
    /\ Open
    /\ UNCHANGED <<cancelled, buffer, inHand, source, encoderVars>>

\* It fails and processTrack panics: the track is not played.
OpenStreamFails ==
    /\ Play("open", "failed")
    /\ OpenFails
    /\ UNCHANGED <<cancelled, preloadVars, inHand, source, encoderVars>>

\* Variant of CheckContext: an interrupted track is left in the channel.
CheckContextNoDrain ==
    /\ Play("check", IF cancelled THEN "awaitVorbis" ELSE "receive")
    /\ UNCHANGED <<inHand, buffer, source, playerRest>>

CheckContext ==
    /\ Play("check", IF cancelled THEN "drain" ELSE "receive")
    /\ UNCHANGED <<inHand, buffer, source, playerRest>>

Receive ==
    /\ buffer # <<>>
    /\ Play("receive", "toVorbis")
    /\ inHand' = Head(buffer)
    /\ buffer' = Tail(buffer)
    /\ UNCHANGED <<source, playerRest>>

\* Sends on a source channel, which block while it is full.
Give(f) ==
    /\ Len(source[f]) < SourceCap
    /\ source' = [source EXCEPT ![f] = Append(@, inHand)]

SendVorbis ==
    /\ Play("toVorbis", "toMP3")
    /\ Give("vorbis")
    /\ UNCHANGED <<inHand, buffer, playerRest>>

SendMP3 ==
    /\ Play("toMP3", IF inHand.nil THEN "awaitVorbis" ELSE "check")
    /\ Give("mp3")
    /\ UNCHANGED <<inHand, buffer, playerRest>>

\* After an interruption: everything up to the end mark is dropped.
Drain ==
    /\ buffer # <<>>
    /\ Play("drain", IF Head(buffer).nil THEN "awaitVorbis" ELSE "drain")
    /\ buffer' = Tail(buffer)
    /\ UNCHANGED <<inHand, source, playerRest>>

StreamToClients ==
    \/ OpenStream \/ OpenStreamFails
    \/ CheckContext \/ Receive \/ SendVorbis \/ SendMP3 \/ Drain

-----------------------------------------------------------------------------
(* streamVorbis and streamMP3. *)

encoderRest == <<decoderVars, cancelled, preloadVars, inHand>>

\* case <-streamContext.Done(): the source is emptied.
Stop(f) ==
    /\ Alive /\ encoder[f] = "select"
    /\ cancelled
    /\ encoder' = [encoder EXCEPT ![f] = "report"]
    /\ source' = [source EXCEPT ![f] = <<>>]
    /\ UNCHANGED <<player, mp3Buffer, fed, vorbisVars, encoderRest>>

\* case Chunk = <-source.
Take(f) ==
    /\ Alive /\ encoder[f] = "select"
    /\ source[f] # <<>>
    /\ source' = [source EXCEPT ![f] = Tail(@)]
    /\ encoder' = [encoder EXCEPT ![f] = IF Head(source[f]).nil THEN "report" ELSE @]

Feed(f, samples) == fed' = [fed EXCEPT ![f] = @ \o samples]

\* The nil chunk ends the loop before anything is encoded.
EncodeVorbis ==
    /\ Take("vorbis")
    /\ Feed("vorbis", Head(source["vorbis"]).samples)
    /\ IF Head(source["vorbis"]).nil THEN UNCHANGED vorbisVars ELSE VorbisEncode(Len(fed'["vorbis"]))
    /\ UNCHANGED <<player, mp3Buffer, encoderRest>>

\* The largest multiple of Frame up to n.
WholeFrames(n) == Frame * (n \div Frame)

\* Variant of EncodeMP3: the last samples are dropped with the buffer.
EncodeMP3Unflushed ==
    LET pcm == mp3Buffer \o Head(source["mp3"]).samples
        n   == WholeFrames(Len(pcm))
    IN /\ Take("mp3")
       /\ Feed("mp3", FirstOf(pcm, n))
       /\ mp3Buffer' = RestOf(pcm, n)
       /\ UNCHANGED <<player, vorbisVars, encoderRest>>

\* Samples wait in the buffer until they fill a frame; the nil chunk has the last
\* ones filled up with silence, by a whole frame if they already are one.
EncodeMP3 ==
    LET pcm == mp3Buffer \o Head(source["mp3"]).samples
        n   == WholeFrames(Len(pcm))
    IN /\ Take("mp3")
       /\ IF Head(source["mp3"]).nil
            THEN /\ Feed("mp3", pcm \o [i \in 1 .. Frame - (Len(pcm) % Frame) |-> 0])
                 /\ mp3Buffer' = <<>>
            ELSE /\ Feed("mp3", FirstOf(pcm, n))
                 /\ mp3Buffer' = RestOf(pcm, n)
       /\ UNCHANGED <<player, vorbisVars, encoderRest>>

\* Deferred: encodedDuration <- bufferedTime, received by streamToClients for
\* Vorbis first.
Report(f, from, to) ==
    /\ encoder[f] = "report"
    /\ Play(from, to)
    /\ encoder' = [encoder EXCEPT ![f] = "done"]
    /\ UNCHANGED <<source, mp3Buffer, fed, vorbisVars, encoderRest>>

StreamVorbis == Stop("vorbis") \/ EncodeVorbis \/ Report("vorbis", "awaitVorbis", "awaitMP3")
StreamMP3    == Stop("mp3") \/ EncodeMP3 \/ Report("mp3", "awaitMP3", "returned")

-----------------------------------------------------------------------------
Next == Cancel \/ PreloadTrack \/ StreamToClients \/ StreamVorbis \/ StreamMP3

Spec == Init /\ [][Next]_vars

\* Four goroutines that run when they can; nobody has to cancel.  That an encoder
\* gets rid of its chunks is assumed here (module Distributor).
Fairness ==
    WF_vars(PreloadTrack) /\ WF_vars(StreamToClients) /\ WF_vars(StreamVorbis) /\ WF_vars(StreamMP3)

FairSpec == Spec /\ Fairness

-----------------------------------------------------------------------------
(* Properties. *)

\* Both encoders are given the same sound, one of them further than the other,
\* and LAME more silence at the end: clients of /audio and of /fallback hear the
\* same, also when a skip stops the two at different chunks.
SameSound ==
    LET vorbis == fed["vorbis"]
        mp3    == fed["mp3"] \o mp3Buffer
    IN IsPrefix(mp3, vorbis) \/ IsPrefix(vorbis, mp3)

\* A track that nobody cancels is given to the encoders whole: silence, all that
\* was decoded, silence; and to LAME in whole frames, at most one of them padding.
WholeTrack ==
    player = "returned" /\ ~cancelled =>
        LET track == Silence \o Sound(made) \o Silence
            mp3   == fed["mp3"]
        IN /\ fed["vorbis"] = track
           /\ IsPrefix(track, mp3)
           /\ Len(mp3) % Frame = 0
           /\ Len(mp3) - Len(track) \in 1 .. Frame

\* What clients hear is the track: the same on both streams, and the whole of it.
ClientsHearTheTrack == SameSound /\ WholeTrack

\* When streamToClients returns, the track's end mark has been taken and nothing of
\* the track is or will be in bufferingChannel: the next track begins clean.
NothingLeftBehind == player = "returned" => buffer = <<>> /\ preloader \in {"close", "done"}

\* streamToClients returns, cancelled or not, wherever the cancellation finds the
\* four goroutines: processTrack goes on to the next track, unless a read has ended
\* the process.
StreamReturns == <>(player \in {"returned", "failed"} \/ ~Alive)
=============================================================================
