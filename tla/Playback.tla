------------------------------ MODULE Playback ------------------------------
(***************************************************************************)
(* Playing one track after another: processTrack and streamToClients,      *)
(* which feed the encoders; the preloadTrack goroutine of each track,      *)
(* which fills bufferingChannel; inactivityMonitor, which sends the server *)
(* to sleep and wakes it up; listenerMonitor and the requests that report  *)
(* to it; and the skip requests.                                           *)
(*                                                                         *)
(* They share bufferingChannel, streamMux (held by the preloader at work   *)
(* or by the monitor in standby), activityWg, streamContext and skipFunc,  *)
(* and deltaChannel, which carries the two start positions updateStartPos  *)
(* reads from the encoders to whoever calls setTrack next.                 *)
(***************************************************************************)
EXTENDS Integers, Sequences, SequencesExt, FiniteSets

CONSTANTS Track,       \* tracks to be enqueued, each once
          Player,      \* the goroutine that runs processTrack
          Monitor,     \* the goroutine that runs inactivityMonitor
          Default,     \* DefaultTrack, shown when nothing plays
          NoTrack,     \* a pointer that was never set
          NoOne,       \* streamMux is free
          Pinger,      \* requests that announce activity on newListenerC
          Skipper,     \* skip requests
          BufferCap,   \* capacity of bufferingChannel and of the encoders' source
                       \* behind it, which hand on in order (5000 each)
          MaxSamples   \* bound: PCM reads of one track

ASSUME PlaybackAssumption ==
    /\ BufferCap \in Nat \ {0}
    /\ MaxSamples \in Nat
    /\ Player # Monitor
    /\ {Player, Monitor, NoOne} \cap Track = {}
    /\ NoOne \notin {Player, Monitor}
    /\ {Default, NoTrack} \cap Track = {}

VARIABLES playQueue,    \* tracks waiting to be played
          unqueued,     \* tracks that clients may still enqueue
          pc,           \* Player, Monitor and the preloader of each track
          current,      \* the track processTrack works on
          inHand,       \* a position a goroutine has between two steps
          context,      \* each track's streamContext
          streamContext, skipFunc,   \* the track whose context they belong to
          buffer,       \* bufferingChannel
          samples,      \* PCM reads each preloader has made
          deltaChannel, \* positions, oldest first; capacity 2
          startPos,     \* startPos[0] and startPos[1]
          encoded,      \* GranulePos of the encoders, in chunks
          sending,      \* an encoder hands out the chunk it has made, and sleeps
          trackMeta,    \* currentTrackMeta
          announced,    \* what the last setTrack told the web sockets
          startedAt,    \* position at which each track's sound began
          streamMux,    \* who holds it
          activityWg,   \* its counter
          standby,      \* inactivityMonitor's isStandby
          timer,        \* [armed, ticked]: running; a tick sits in timer.C.
                        \* fires: whether 15 minutes ever pass without activity
          newListenerC, \* elements in it; capacity 1
          relay,        \* listenerMonitor: "select" or "send"
          pings, skips  \* where each such request is

trackVars   == <<playQueue, unqueued, current>>
contextVars == <<context, streamContext, skipFunc>>
bufferVars  == <<buffer, samples>>
posVars     == <<inHand, deltaChannel, startPos>>
soundVars   == <<encoded, startedAt, sending>>
shownVars   == <<trackMeta, announced>>
idleVars    == <<activityWg, standby, timer>>
requestVars == <<newListenerC, relay, pings, skips>>
vars == <<trackVars, pc, contextVars, bufferVars, posVars, soundVars, shownVars,
          streamMux, idleVars, requestVars>>

Goroutine == Track \cup {Player, Monitor}
Format    == {"vorbis", "mp3"}
NoPos     == -1
Token     == [format : Format, pos : Nat]
NoToken   == [format |-> "none", pos |-> NoPos]

PosPC      == {"readVorbis", "sendVorbis", "readMP3", "sendMP3"}
SetPC      == {"setMeta", "takePos", "takeFallback"}
PlayerPC   == {"start", "wait", "pop", "waitAgain", "open", "setContext", "setSkip",
               "stream", "receive", "drain", "finish"} \cup PosPC \cup SetPC
PreloadPC  == {"off", "lock", "silence", "feed", "push", "tail", "end", "unlock", "done"} \cup PosPC
MonitorPC  == {"select", "skip", "lock"} \cup PosPC \cup SetPC

Chunk == [of : Track, end : BOOLEAN]

TypeOK ==
    /\ playQueue \in Seq(Track) /\ unqueued \subseteq Track
    /\ pc[Player] \in PlayerPC /\ pc[Monitor] \in MonitorPC
    /\ \A t \in Track : pc[t] \in PreloadPC
    /\ current \in Track \cup {Default}
    /\ inHand \in [Goroutine -> Token \cup {NoToken}]
    /\ context \in [Track -> {"none", "live", "cancelled"}]
    /\ streamContext \in Track \cup {NoTrack} /\ skipFunc \in Track \cup {NoTrack}
    /\ buffer \in Seq(Chunk) /\ Len(buffer) <= BufferCap
    /\ samples \in [Track -> 0 .. MaxSamples]
    /\ deltaChannel \in Seq(Token) /\ Len(deltaChannel) <= 2
    /\ startPos \in [Format -> Nat]
    /\ encoded \in Nat /\ startedAt \in [Track -> Nat \cup {NoPos}] /\ sending \in BOOLEAN
    /\ trackMeta \in Track \cup {Default, NoTrack}
    /\ streamMux \in Track \cup {Monitor, NoOne}
    /\ activityWg \in Nat /\ standby \in BOOLEAN
    /\ timer \in [armed : BOOLEAN, ticked : BOOLEAN, fires : BOOLEAN]
    /\ newListenerC \in {0, 1} /\ relay \in {"select", "send"}
    /\ pings \in [Pinger -> {"idle", "sending"}]
    /\ skips \in [Skipper -> {"idle", "loaded", "checked"}]

Init ==
    /\ playQueue = <<>> /\ unqueued \in SUBSET Track
    /\ pc = [g \in Goroutine |->
               IF g = Player THEN "start" ELSE IF g = Monitor THEN "select" ELSE "off"]
    /\ current = Default
    /\ inHand = [g \in Goroutine |-> NoToken]
    /\ context = [t \in Track |-> "none"]
    /\ streamContext = NoTrack /\ skipFunc = NoTrack
    /\ buffer = <<>> /\ samples = [t \in Track |-> 0]
    /\ deltaChannel = <<>> /\ startPos = [f \in Format |-> 0]
    /\ encoded = 0 /\ startedAt = [t \in Track |-> NoPos] /\ sending = FALSE
    /\ trackMeta = NoTrack /\ announced = <<>>
    /\ streamMux = NoOne
    /\ activityWg = 0 /\ standby = FALSE
    /\ timer \in [armed : {TRUE}, ticked : {FALSE}, fires : BOOLEAN]
    /\ newListenerC = 0 /\ relay = "select"
    /\ pings = [p \in Pinger |-> "idle"] /\ skips = [s \in Skipper |-> "idle"]

Move(g, from, to) == pc[g] = from /\ pc' = [pc EXCEPT ![g] = to]

-----------------------------------------------------------------------------
(* updateStartPos(true), called by the player, the preloaders and the       *)
(* monitor: for each format the encoder's position is read and stored, and  *)
(* then sent, which blocks while two values are waiting.                    *)

ReadPos(g, f, from, to) ==
    /\ Move(g, from, to)
    /\ startPos' = [startPos EXCEPT ![f] = encoded]
    /\ inHand' = [inHand EXCEPT ![g] = [format |-> f, pos |-> encoded]]
    /\ UNCHANGED deltaChannel

SendPos(g, from, to) ==
    /\ Len(deltaChannel) < 2
    /\ Move(g, from, to)
    /\ deltaChannel' = Append(deltaChannel, inHand[g])
    /\ inHand' = [inHand EXCEPT ![g] = NoToken]
    /\ UNCHANGED startPos

\* Variant of AfterPos: an idle player does not announce the default track, and
\* leaves its two positions behind.
AfterPosUnannounced(g) ==
    CASE g = Player  -> "wait"
      [] g = Monitor -> "setMeta"
      [] OTHER       -> "feed"

AfterPos(g) == IF g \in {Player, Monitor} THEN "setMeta" ELSE "feed"

UpdateStartPos(g) ==
    /\ \/ ReadPos(g, "vorbis", "readVorbis", "sendVorbis")
       \/ SendPos(g, "sendVorbis", "readMP3")
       \/ ReadPos(g, "mp3", "readMP3", "sendMP3")
       \/ SendPos(g, "sendMP3", AfterPos(g))
    /\ UNCHANGED <<trackVars, contextVars, bufferVars, soundVars, shownVars,
                   streamMux, idleVars, requestVars>>

-----------------------------------------------------------------------------
(* setTrack, called by the player and the monitor: the metadata is stored   *)
(* at once; the announcement needs two positions from deltaChannel.         *)

Shown(g) == IF g = Monitor THEN Default ELSE current

AfterSet(g) ==
    IF g = Monitor THEN "select" ELSE IF current = Default THEN "wait" ELSE "setContext"

SetMeta(g) ==
    /\ Move(g, "setMeta", "takePos")
    /\ trackMeta' = Shown(g)
    /\ UNCHANGED <<announced, posVars>>

TakePos(g) ==
    /\ deltaChannel # <<>>
    /\ Move(g, "takePos", "takeFallback")
    /\ inHand' = [inHand EXCEPT ![g] = Head(deltaChannel)]
    /\ deltaChannel' = Tail(deltaChannel)
    /\ UNCHANGED <<startPos, shownVars>>

TakeFallback(g) ==
    /\ deltaChannel # <<>>
    /\ Move(g, "takeFallback", AfterSet(g))
    /\ announced' = [track |-> Shown(g), pos |-> inHand[g], fallbackpos |-> Head(deltaChannel)]
    /\ inHand' = [inHand EXCEPT ![g] = NoToken]
    /\ deltaChannel' = Tail(deltaChannel)
    /\ UNCHANGED <<startPos, trackMeta>>

SetTrack(g) ==
    /\ SetMeta(g) \/ TakePos(g) \/ TakeFallback(g)
    /\ UNCHANGED <<trackVars, contextVars, bufferVars, soundVars,
                   streamMux, idleVars, requestVars>>

-----------------------------------------------------------------------------
(* processTrack and streamToClients. *)

playerRest == <<posVars, soundVars, shownVars, streamMux, idleVars, requestVars>>

\* if s.playQueue.Empty(): show the default track first.
Begin ==
    /\ Move(Player, "start", IF playQueue = <<>> THEN "readVorbis" ELSE "wait")
    /\ current' = Default
    /\ UNCHANGED <<playQueue, unqueued, contextVars, bufferVars, playerRest>>

\* s.activityWg.Wait(), before the pop and again after it.
AwaitActivity ==
    /\ activityWg = 0
    /\ Move(Player, "wait", "pop") \/ Move(Player, "waitAgain", "open")
    /\ UNCHANGED <<trackVars, contextVars, bufferVars, playerRest>>

\* s.playQueue.Pop() (modules Queue and TrackQueue).
PopTrack ==
    /\ playQueue # <<>>
    /\ Move(Player, "pop", "waitAgain")
    /\ current' = Head(playQueue)
    /\ playQueue' = Tail(playQueue)
    /\ UNCHANGED <<unqueued, contextVars, bufferVars, playerRest>>

\* track.Stream or GetRawStream fails: processTrack panics, recovers and is
\* called again.
OpenFails ==
    /\ Move(Player, "open", "start")
    /\ UNCHANGED <<trackVars, contextVars, bufferVars, playerRest>>

\* Variant of Open: the context is published as soon as it exists.
OpenPublished ==
    /\ pc[Player] = "open"
    /\ pc' = [pc EXCEPT ![Player] = "setMeta", ![current] = "lock"]
    /\ context' = [context EXCEPT ![current] = "live"]
    /\ streamContext' = current
    /\ skipFunc' = current
    /\ UNCHANGED <<trackVars, bufferVars, playerRest>>

\* A context of its own and go s.preloadTrack; then the player sleeps until the
\* previous track has been heard.
Open ==
    /\ pc[Player] = "open"
    /\ pc' = [pc EXCEPT ![Player] = "setMeta", ![current] = "lock"]
    /\ context' = [context EXCEPT ![current] = "live"]
    /\ UNCHANGED <<trackVars, streamContext, skipFunc, bufferVars, playerRest>>

SetContext ==
    /\ Move(Player, "setContext", "setSkip")
    /\ streamContext' = current
    /\ UNCHANGED <<trackVars, context, skipFunc, bufferVars, playerRest>>

SetSkip ==
    /\ Move(Player, "setSkip", "stream")
    /\ skipFunc' = current
    /\ UNCHANGED <<trackVars, context, streamContext, bufferVars, playerRest>>

\* Variant of CheckContext: an interrupted track is left in the buffer.
CheckContextNoDrain ==
    /\ Move(Player, "stream", IF context[current] = "cancelled" THEN "finish" ELSE "receive")
    /\ UNCHANGED <<trackVars, contextVars, bufferVars, playerRest>>

\* The loop of streamToClients looks at the context, then receives.
CheckContext ==
    /\ Move(Player, "stream", IF context[current] = "cancelled" THEN "drain" ELSE "receive")
    /\ UNCHANGED <<trackVars, contextVars, bufferVars, playerRest>>

\* A chunk goes to both encoders.  When the last one is out they encode it, unless
\* the track was cancelled meanwhile: then they may throw it away.
EncodeChunk ==
    /\ ~sending
    /\ buffer # <<>> /\ ~Head(buffer).end
    /\ Move(Player, "receive", "stream")
    /\ buffer' = Tail(buffer)
    /\ \/ /\ encoded' = encoded + 1
          /\ sending' = TRUE
          /\ startedAt' = [startedAt EXCEPT ![current] = IF @ = NoPos THEN encoded ELSE @]
       \/ /\ context[current] = "cancelled"
          /\ UNCHANGED soundVars
    /\ UNCHANGED <<trackVars, contextVars, samples, posVars, shownVars,
                   streamMux, idleVars, requestVars>>

\* Every listener has the chunk (module Distributor) and the encoders have slept.
ChunkSent ==
    /\ sending
    /\ sending' = FALSE
    /\ UNCHANGED <<pc, trackVars, contextVars, bufferVars, posVars, encoded, startedAt,
                   shownVars, streamMux, idleVars, requestVars>>

\* The nil chunk that ends the track.
EndOfTrack ==
    /\ buffer # <<>> /\ Head(buffer).end
    /\ Move(Player, "receive", "finish") \/ Move(Player, "drain", "finish")
    /\ buffer' = Tail(buffer)
    /\ UNCHANGED <<trackVars, contextVars, samples, playerRest>>

\* After an interruption the rest of the track is received and dropped.
DropChunk ==
    /\ pc[Player] = "drain"
    /\ buffer # <<>> /\ ~Head(buffer).end
    /\ buffer' = Tail(buffer)
    /\ UNCHANGED <<pc, trackVars, contextVars, samples, playerRest>>

Cancel(t) ==
    context' = IF t = NoTrack THEN context ELSE [context EXCEPT ![t] = "cancelled"]

\* Both encoders have stopped, which they do between two chunks, and reported their
\* times; then s.skipFunc() at the end of processTrack.
Finish ==
    /\ ~sending
    /\ Move(Player, "finish", "start")
    /\ Cancel(skipFunc)
    /\ UNCHANGED <<trackVars, streamContext, skipFunc, bufferVars, playerRest>>

ProcessTrack ==
    \/ Begin \/ AwaitActivity \/ PopTrack \/ OpenFails \/ Open
    \/ UpdateStartPos(Player) \/ SetTrack(Player) \/ SetContext \/ SetSkip
    \/ CheckContext \/ EncodeChunk \/ EndOfTrack \/ DropChunk \/ Finish

-----------------------------------------------------------------------------
(* preloadTrack. *)

preloadRest == <<trackVars, contextVars, posVars, soundVars, shownVars, idleVars, requestVars>>

Lock(t) ==
    /\ streamMux = NoOne
    /\ Move(t, "lock", "silence")
    /\ streamMux' = t
    /\ UNCHANGED <<bufferVars, preloadRest>>

PushChunk(t, isEnd) ==
    /\ Len(buffer) < BufferCap
    /\ buffer' = Append(buffer, [of |-> t, end |-> isEnd])

\* pushSilentFrames, before the track and after it (four chunks, here one), and
\* endCurrentStream.
PushSilence(t) ==
    /\ Move(t, "silence", "readVorbis") \/ Move(t, "tail", "end")
    /\ PushChunk(t, FALSE)
    /\ UNCHANGED <<samples, streamMux, preloadRest>>

PushEnd(t) ==
    /\ Move(t, "end", "unlock")
    /\ PushChunk(t, TRUE)
    /\ UNCHANGED <<samples, streamMux, preloadRest>>

\* Variant of CheckCancelled: a skipped track gets no end mark.
CheckCancelledNoEnd(t) ==
    /\ Move(t, "feed", IF context[t] = "cancelled" THEN "unlock" ELSE "push")
    /\ UNCHANGED <<bufferVars, streamMux, preloadRest>>

\* The loop looks at the context, then reads and pushes; the read may be the
\* last one.
CheckCancelled(t) ==
    /\ Move(t, "feed", IF context[t] = "cancelled" THEN "tail" ELSE "push")
    /\ UNCHANGED <<bufferVars, streamMux, preloadRest>>

PushSamples(t) ==
    /\ \/ Move(t, "push", "tail")
       \/ samples[t] < MaxSamples /\ Move(t, "push", "feed")
    /\ PushChunk(t, FALSE)
    /\ samples' = [samples EXCEPT ![t] = IF pc'[t] = "feed" THEN @ + 1 ELSE @]
    /\ UNCHANGED <<streamMux, preloadRest>>

Unlock(t) ==
    /\ Move(t, "unlock", "done")
    /\ streamMux' = NoOne
    /\ UNCHANGED <<bufferVars, preloadRest>>

PreloadTrack(t) ==
    \/ Lock(t) \/ PushSilence(t) \/ UpdateStartPos(t)
    \/ CheckCancelled(t) \/ PushSamples(t) \/ PushEnd(t) \/ Unlock(t)

-----------------------------------------------------------------------------
(* inactivityMonitor and listenerMonitor. *)

monitorRest == <<trackVars, bufferVars, posVars, soundVars, shownVars>>

\* Whatever takes no time is done: the player waits for a track, for a stream to
\* open, for the previous track to be heard, for sound or for the encoders, and no
\* report of activity is on its way.
Quiet ==
    /\ pc[Player] \in {"wait", "pop", "open", "setMeta", "takePos", "takeFallback",
                       "stream", "receive", "finish"}
    /\ relay = "select" /\ newListenerC = 0

\* Fifteen minutes have passed since the last Reset: the tick waits in timer.C.
TimerFires ==
    /\ timer.fires
    /\ timer.armed
    /\ Quiet
    /\ timer' = [timer EXCEPT !.armed = FALSE, !.ticked = TRUE]
    /\ UNCHANGED <<pc, contextVars, streamMux, activityWg, standby, requestVars, monitorRest>>

\* case <-timer.C, up to activityWg.Add(1).
GoStandby ==
    /\ timer.ticked
    /\ Move(Monitor, "select", "skip")
    /\ timer' = [timer EXCEPT !.ticked = FALSE]
    /\ standby' = TRUE
    /\ activityWg' = activityWg + 1
    /\ UNCHANGED <<contextVars, streamMux, requestVars, monitorRest>>

\* if s.skipFunc != nil: whatever track it belongs to.
MonitorSkip ==
    /\ Move(Monitor, "skip", "lock")
    /\ Cancel(skipFunc)
    /\ UNCHANGED <<streamContext, skipFunc, streamMux, idleVars, requestVars, monitorRest>>

\* s.streamMux.Lock(), kept until the server wakes up.
MonitorLock ==
    /\ streamMux = NoOne
    /\ Move(Monitor, "lock", "readVorbis")
    /\ streamMux' = Monitor
    /\ UNCHANGED <<contextVars, idleVars, requestVars, monitorRest>>

\* Variants of HearActivity: it does not ask whether the server is in standby; it
\* does not end the standby; it hears activity in standby only.
HearActivityUnasked ==
    /\ pc[Monitor] = "select"
    /\ relay = "send"
    /\ relay' = "select"
    /\ timer' = [timer EXCEPT !.armed = TRUE]
    /\ standby' = FALSE
    /\ streamMux' = NoOne
    /\ activityWg' = activityWg - 1
    /\ UNCHANGED <<pc, contextVars, newListenerC, pings, skips, monitorRest>>

HearActivityForgets ==
    /\ pc[Monitor] = "select"
    /\ relay = "send"
    /\ relay' = "select"
    /\ timer' = [timer EXCEPT !.armed = TRUE]
    /\ IF standby
         THEN streamMux' = NoOne /\ activityWg' = activityWg - 1
         ELSE UNCHANGED <<streamMux, activityWg>>
    /\ UNCHANGED <<pc, contextVars, standby, newListenerC, pings, skips, monitorRest>>

HearActivityInStandby ==
    /\ standby
    /\ pc[Monitor] = "select"
    /\ relay = "send"
    /\ relay' = "select"
    /\ timer' = [timer EXCEPT !.armed = TRUE]
    /\ standby' = FALSE
    /\ streamMux' = NoOne
    /\ activityWg' = activityWg - 1
    /\ UNCHANGED <<pc, contextVars, newListenerC, pings, skips, monitorRest>>

\* case <-lch, received from listenerMonitor.  timer.Reset starts the timer anew
\* and leaves a tick that already sits in timer.C where it is.
HearActivity ==
    /\ pc[Monitor] = "select"
    /\ relay = "send"
    /\ relay' = "select"
    /\ timer' = [timer EXCEPT !.armed = TRUE]
    /\ standby' = FALSE
    /\ IF standby
         THEN streamMux' = NoOne /\ activityWg' = activityWg - 1
         ELSE UNCHANGED <<streamMux, activityWg>>
    /\ UNCHANGED <<pc, contextVars, newListenerC, pings, skips, monitorRest>>

InactivityMonitor ==
    \/ GoStandby \/ MonitorSkip \/ MonitorLock \/ HearActivity
    \/ UpdateStartPos(Monitor) \/ SetTrack(Monitor)

requestRest == <<monitorRest, pc, contextVars, streamMux, idleVars>>

\* listenerMonitor: case <-s.newListenerC.
RelayListener ==
    /\ relay = "select"
    /\ newListenerC = 1
    /\ newListenerC' = 0
    /\ relay' = "send"
    /\ UNCHANGED <<pings, skips, requestRest>>

\* listenerMonitor: its ticker, while somebody listens.
RelayTick ==
    /\ relay = "select"
    /\ relay' = "send"
    /\ UNCHANGED <<newListenerC, pings, skips, requestRest>>

\* A keep-alive, a new web socket or a new audio stream arrives ...
PingArrives(p) ==
    /\ pings[p] = "idle"
    /\ pings' = [pings EXCEPT ![p] = "sending"]
    /\ UNCHANGED <<newListenerC, relay, skips, requestRest>>

\* ... and goes on once s.newListenerC <- 1 has gone through.
PingSent(p) ==
    /\ pings[p] = "sending"
    /\ newListenerC = 0
    /\ newListenerC' = 1
    /\ pings' = [pings EXCEPT ![p] = "idle"]
    /\ UNCHANGED <<relay, skips, requestRest>>

-----------------------------------------------------------------------------
(* skip: three looks at variables the player writes meanwhile. *)

SkipTo(s, from, to) ==
    /\ skips[s] = from
    /\ skips' = [skips EXCEPT ![s] = to]
    /\ UNCHANGED <<newListenerC, relay, pings, pc, trackVars, bufferVars, posVars, soundVars,
                   shownVars, streamMux, idleVars, streamContext, skipFunc>>

\* s.skipFunc == nil is answered with a failure and changes nothing.
SkipLoad(s) == skipFunc # NoTrack /\ SkipTo(s, "idle", "loaded") /\ UNCHANGED context

SkipRefused(s) ==
    /\ SkipTo(s, "loaded", "idle")
    /\ context[streamContext] = "cancelled"
    /\ UNCHANGED context

SkipAccepted(s) ==
    /\ SkipTo(s, "loaded", "checked")
    /\ context[streamContext] = "live"
    /\ UNCHANGED context

\* s.skipFunc(), the notification and the answer "success".
SkipCall(s) == SkipTo(s, "checked", "idle") /\ Cancel(skipFunc)

Skip(s) == SkipLoad(s) \/ SkipRefused(s) \/ SkipAccepted(s) \/ SkipCall(s)

\* enqueue: a track joins the playQueue (module TrackQueue).
Enqueue(t) ==
    /\ t \in unqueued
    /\ unqueued' = unqueued \ {t}
    /\ playQueue' = Append(playQueue, t)
    /\ UNCHANGED <<current, pc, contextVars, bufferVars, playerRest>>

-----------------------------------------------------------------------------
Next ==
    \/ ProcessTrack \/ ChunkSent
    \/ \E t \in Track : PreloadTrack(t) \/ Enqueue(t)
    \/ InactivityMonitor \/ TimerFires \/ RelayListener \/ RelayTick
    \/ \E p \in Pinger : PingArrives(p) \/ PingSent(p)
    \/ \E s \in Skipper : Skip(s)

Spec == Init /\ [][Next]_vars

\* Goroutines run when they can.  Which request of several blocked on
\* newListenerC goes first is the runtime's choice, first come first served, so
\* each of them gets its turn, and listenerMonitor's select is not taken by its
\* one-minute ticker every time: strong fairness.  Nobody has to make a request,
\* and nothing is assumed of ChunkSent.
Fairness ==
    /\ WF_vars(ProcessTrack)
    /\ \A t \in Track : WF_vars(PreloadTrack(t))
    /\ WF_vars(InactivityMonitor)
    /\ SF_vars(RelayListener)
    /\ \A p \in Pinger : SF_vars(PingSent(p))

FairSpec == Spec /\ Fairness

-----------------------------------------------------------------------------
(* Properties. *)

\* bufferingChannel never mixes tracks: all it holds belongs to the track that
\* processTrack is at, and nothing follows that track's end.  This is what lets
\* streamToClients stop, or drop the rest after a skip, at the nil chunk.
BufferHoldsCurrent ==
    \A i \in DOMAIN buffer :
        /\ buffer[i].of = current
        /\ buffer[i].end => i = Len(buffer)

\* There is always some activity within 15 minutes.
Busy == ~timer.fires

\* "pos: the audio frame number where the track starts for Vorbis stream.
\* fallbackpos: same as pos, but for MP3 stream": what setTrack announces is
\* where the sound of the track then begins, although the numbers come
\* through a channel that other goroutines write to and read from; and while
\* the track is streaming, getPlaying, which reads track and positions one by
\* one, finds the same.
AnnouncedWhereItStarts ==
    Busy /\ announced # <<>> /\ announced.track \in Track =>
        LET t == announced.track IN
        startedAt[t] # NoPos =>
            /\ announced.pos = [format |-> "vorbis", pos |-> startedAt[t]]
            /\ announced.fallbackpos = [format |-> "mp3", pos |-> startedAt[t]]
            /\ pc[Player] \in {"stream", "receive"} =>
                 trackMeta = current /\ \A f \in Format : startPos[f] = startedAt[current]

\* Only the track that is shown can be skipped: the context that a skip request,
\* or the monitor, cancels is never that of a track still being prepared.
SkipHitsTrackShown ==
    [][Busy => \A t \in Track :
         context[t] = "live" /\ context'[t] = "cancelled" => trackMeta = t]_vars

\* The encoders always get rid of their chunks: shown of those who listen and stay
\* in module Distributor, where a listener that leaves can stop them for ever.
ChunksGetOut == []<>~sending

\* Then a track that was taken from the queue is played to its end, or skipped, or
\* fails to open: processTrack always comes back for the next one.
TakenTrackEnds == ChunksGetOut => (Busy /\ pc[Player] = "open" ~> pc[Player] = "start")

\* "The server will respond the message with the same opcode": the report of
\* activity that a keep-alive makes before it is answered goes through, if nothing
\* holds up the encoders.
KeepAliveAnswered == ChunksGetOut => \A p \in Pinger : pings[p] = "sending" ~> pings[p] = "idle"

\* It does as long as the server never goes to sleep, whatever the encoders do.
KeepAliveAnsweredBusy ==
    \A p \in Pinger : Busy /\ pings[p] = "sending" ~> pings[p] = "idle"

\* When the monitor wakes the server up it unlocks a mutex it holds and takes
\* back a count it added (anything else is a fatal error in Go).
StandbyIsHeld ==
    standby /\ pc[Monitor] = "select" => streamMux = Monitor /\ activityWg = 1
=============================================================================
