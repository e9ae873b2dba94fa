-------------------------- MODULE PlaybackProofs --------------------------
(***************************************************************************)
(* Proofs about playback, for any numbers of tracks and clients, buffers   *)
(* and tracks of any length.                                               *)
(***************************************************************************)
EXTENDS Playback, TLAPS, SequenceTheorems

PlaceTypes ==
    /\ pc \in [Goroutine -> PlayerPC \cup PreloadPC \cup MonitorPC]
    /\ pc[Player] \in PlayerPC /\ pc[Monitor] \in MonitorPC
    /\ \A t \in Track : pc[t] \in PreloadPC

TrackTypes ==
    /\ playQueue \in Seq(Track) /\ unqueued \subseteq Track
    /\ current \in Track \cup {Default}
    /\ context \in [Track -> {"none", "live", "cancelled"}]
    /\ streamContext \in Track \cup {NoTrack} /\ skipFunc \in Track \cup {NoTrack}
    /\ trackMeta \in Track \cup {Default, NoTrack}

BufferTypes ==
    /\ buffer \in Seq(Chunk) /\ Len(buffer) <= BufferCap
    /\ samples \in [Track -> 0 .. MaxSamples]

PositionTypes ==
    /\ inHand \in [Goroutine -> Token \cup {NoToken}]
    /\ \A g \in Goroutine : pc[g] \in {"sendVorbis", "sendMP3"} => inHand[g] \in Token
    /\ deltaChannel \in Seq(Token) /\ Len(deltaChannel) <= 2
    /\ startPos \in [Format -> Nat]
    /\ encoded \in Nat /\ startedAt \in [Track -> Nat \cup {NoPos}] /\ sending \in BOOLEAN

IdleTypes ==
    /\ streamMux \in Track \cup {Monitor, NoOne}
    /\ activityWg \in Nat /\ standby \in BOOLEAN
    /\ timer \in [armed : BOOLEAN, ticked : BOOLEAN, fires : BOOLEAN]

RequestTypes ==
    /\ newListenerC \in {0, 1} /\ relay \in {"select", "send"}
    /\ pings \in [Pinger -> {"idle", "sending"}]
    /\ skips \in [Skipper -> {"idle", "loaded", "checked"}]

Types == PlaceTypes /\ TrackTypes /\ BufferTypes /\ PositionTypes /\ IdleTypes /\ RequestTypes

Feeding   == {"lock", "silence", "feed", "push", "tail", "end"} \cup PosPC
Locked    == (Feeding \ {"lock"}) \cup {"unlock"}
Streaming == {"stream", "receive", "drain"}
Setting   == {"setContext", "setSkip"} \cup Streaming
InTrack   == current \in Track /\ pc[Player] \in SetPC \cup Setting

CurrentByPlace ==
    /\ pc[Player] \in {"waitAgain", "open", "finish"} \cup Setting => current \in Track
    /\ pc[Player] \in {"wait", "pop"} \cup PosPC => current = Default

\* A track that nobody has begun to work on; each is begun once.
Fresh(t) == pc[t] = "off" /\ context[t] = "none" /\ startedAt[t] = NoPos

InQueue(t) == \E i \in DOMAIN playQueue : playQueue[i] = t

QueueIsFresh ==
    /\ \A t \in Track : t \in unqueued => Fresh(t) /\ ~InQueue(t)
    /\ \A i \in DOMAIN playQueue : Fresh(playQueue[i])
    /\ \A i, j \in DOMAIN playQueue : playQueue[i] = playQueue[j] => i = j
    /\ pc[Player] \in {"waitAgain", "open"} =>
         Fresh(current) /\ current \notin unqueued /\ ~InQueue(current)

\* The buffer: only the current track's preloader fills it, and when it has
\* stopped the end mark is still there.
OneFeeder == \A t \in Track : pc[t] \in Feeding => t = current /\ InTrack

EndMark ==
    /\ InTrack /\ pc[current] \in Feeding => \A i \in DOMAIN buffer : ~buffer[i].end
    /\ InTrack /\ pc[current] \notin Feeding => buffer # <<>> /\ buffer[Len(buffer)].end
    /\ ~InTrack => buffer = <<>>

\* The mutex and the wait group.  In "skip" and "lock" the monitor may hold the
\* mutex already (the timer ticked a second time): there it stops for ever.
MuxHolders ==
    /\ \A t \in Track : (pc[t] \in Locked) <=> (streamMux = t)
    /\ pc[Monitor] = "select" =>
         IF standby THEN streamMux = Monitor /\ activityWg = 1
                    ELSE streamMux # Monitor /\ activityWg = 0
    /\ pc[Monitor] \in {"skip", "lock"} => standby /\ (streamMux # Monitor => activityWg = 1)
    /\ pc[Monitor] \in PosPC \cup SetPC => standby /\ streamMux = Monitor /\ activityWg = 1

\* A server that is never idle never sleeps.
NeverSleeps == Busy => ~timer.ticked /\ ~standby /\ pc[Monitor] = "select"

\* The context a skip request finds: that of the track being streamed, or one
\* that is over.
SkipFuncShown ==
    /\ skipFunc \in Track => context[skipFunc] # "none"
    /\ InTrack \/ pc[Player] = "finish" => context[current] # "none"
    /\ Busy /\ pc[Player] \in {"takePos", "takeFallback", "finish"} \cup Setting =>
         trackMeta = current
    /\ skipFunc \in Track /\ context[skipFunc] = "live" =>
         skipFunc = current /\ pc[Player] \in {"finish"} \cup Streaming

\* The positions on their way.
Vorbis == [format |-> "vorbis", pos |-> encoded]
MP3    == [format |-> "mp3", pos |-> encoded]
None   == {"lock", "silence", "readVorbis", "sendVorbis"}
First  == {"readMP3", "sendMP3"}
Sender == IF current = Default THEN Player ELSE current
Round  == pc[Player] \in PosPC \cup SetPC

Positions ==
    /\ ~Round => deltaChannel = <<>>
    /\ Round /\ pc[Player] # "takeFallback" =>
         deltaChannel = IF pc[Sender] \in None THEN <<>>
                        ELSE IF pc[Sender] \in First THEN <<Vorbis>> ELSE <<Vorbis, MP3>>
    /\ pc[Player] = "takeFallback" =>
         /\ pc[Sender] \notin None
         /\ inHand[Player] = Vorbis
         /\ deltaChannel = IF pc[Sender] \in First THEN <<>> ELSE <<MP3>>
    /\ Round =>
         /\ pc[Sender] = "sendVorbis" => inHand[Sender] = Vorbis
         /\ pc[Sender] = "sendMP3" => inHand[Sender] = MP3
         /\ pc[Sender] \notin None \ {"sendVorbis"} => startPos["vorbis"] = encoded
         /\ pc[Sender] \notin None \cup {"readMP3"} => startPos["mp3"] = encoded
    /\ pc[Player] \in Setting => pc[current] \notin None \cup First

Announced(pos) ==
    /\ announced.pos = [format |-> "vorbis", pos |-> pos]
    /\ announced.fallbackpos = [format |-> "mp3", pos |-> pos]

Starts ==
    /\ InTrack /\ pc[Player] \in SetPC => startedAt[current] = NoPos
    /\ \A t \in Track : startedAt[t] # NoPos /\ announced.track = t => Announced(startedAt[t])
    /\ pc[Player] \in Setting \ {"drain"} =>
         /\ announced.track = current
         /\ LET pos == IF startedAt[current] = NoPos THEN encoded ELSE startedAt[current] IN
              Announced(pos) /\ \A f \in Format : startPos[f] = pos

IInv ==
    /\ Types /\ CurrentByPlace /\ QueueIsFresh /\ OneFeeder /\ EndMark /\ BufferHoldsCurrent
    /\ MuxHolders /\ NeverSleeps /\ SkipFuncShown
    /\ Busy => Positions /\ Starts

-----------------------------------------------------------------------------
(* Steps, by who makes them. *)

PlayerStep ==
    \/ Begin \/ AwaitActivity \/ PopTrack \/ OpenFails \/ Open \/ SetContext \/ SetSkip
    \/ CheckContext \/ EncodeChunk \/ EndOfTrack \/ DropChunk \/ Finish

PreloadStep(t) ==
    \/ Lock(t) \/ PushSilence(t) \/ CheckCancelled(t) \/ PushSamples(t) \/ PushEnd(t) \/ Unlock(t)

MonitorStep == GoStandby \/ MonitorSkip \/ MonitorLock \/ HearActivity \/ TimerFires

\* Only requests go on, or the encoders have got rid of a chunk.
Aside ==
    /\ UNCHANGED <<pc, trackVars, contextVars, bufferVars, posVars, encoded, startedAt, shownVars,
                   streamMux, idleVars>>
    /\ sending' \in {sending, FALSE}

Step ==
    \/ PlayerStep \/ MonitorStep
    \/ \E g \in Goroutine : UpdateStartPos(g)
    \/ \E g \in {Player, Monitor} : SetTrack(g)
    \/ \E t \in Track : PreloadStep(t) \/ Enqueue(t)
    \/ \E s \in Skipper : Skip(s)
    \/ Aside

LEMMA NextIsStep == ASSUME [Next]_vars PROVE Step
  BY DEF Next, Step, PlayerStep, PreloadStep, MonitorStep, ProcessTrack, PreloadTrack,
         InactivityMonitor, Goroutine, vars, RelayListener, RelayTick, PingArrives, PingSent,
         ChunkSent, Aside, requestRest, monitorRest, trackVars, contextVars, bufferVars, posVars, soundVars,
         shownVars, idleVars, requestVars

\* Sequences, as the channels use them.
LEMMA HeadTail ==
  ASSUME NEW S, NEW s \in Seq(S), s # <<>>
  PROVE  /\ Head(s) \in S /\ Tail(s) \in Seq(S)
         /\ Len(s) >= 1 /\ Len(Tail(s)) = Len(s) - 1
         /\ s[1] = Head(s)
         /\ \A j \in DOMAIN Tail(s) : j + 1 \in DOMAIN s /\ Tail(s)[j] = s[j + 1]
  OBVIOUS

LEMMA AppendToOne == ASSUME NEW a, NEW b PROVE Append(<<a>>, b) = <<a, b>>
<1>1. <<a>> \in Seq({a, b}) /\ <<a, b>> \in Seq({a, b}) /\ Len(<<a>>) = 1 /\ Len(<<a, b>>) = 2
  OBVIOUS
<1>2. Append(<<a>>, b) \in Seq({a, b}) /\ Len(Append(<<a>>, b)) = 2
  BY <1>1
<1>3. Append(<<a>>, b)[1] = a /\ Append(<<a>>, b)[2] = b
  BY <1>1
<1>4. \A i \in 1 .. 2 : Append(<<a>>, b)[i] = <<a, b>>[i]
  BY <1>3
<1> QED BY <1>1, <1>2, <1>4, SeqEqual

LEMMA Appended ==
  ASSUME NEW S, NEW s \in Seq(S), NEW e \in S
  PROVE  /\ Append(s, e) \in Seq(S) /\ Len(Append(s, e)) = Len(s) + 1
         /\ Append(s, e)[Len(s) + 1] = e
         /\ \A j \in DOMAIN Append(s, e) : j = Len(s) + 1 \/ (j \in DOMAIN s /\ Append(s, e)[j] = s[j])
         /\ \A j \in DOMAIN s : Append(s, e)[j] = s[j]
  OBVIOUS

-----------------------------------------------------------------------------
\* Used everywhere: what a step leaves alone, and the sets of places.
USE PlaybackAssumption
    DEF IInv, Types, Move, trackVars, contextVars, bufferVars, posVars, soundVars, shownVars,
        idleVars, requestVars, playerRest, preloadRest, monitorRest, requestRest,
        PosPC, SetPC, PlayerPC, PreloadPC, MonitorPC, Goroutine,
        Feeding, Locked, Streaming, Setting, InTrack

\* Every goroutine is at a place of its own.
LEMMA PlaceStep == ASSUME IInv, Step PROVE PlaceTypes'
<1> USE DEF PlaceTypes, TrackTypes, CurrentByPlace
<1>1. CASE PlayerStep
  BY <1>1 DEF PlayerStep, Begin, AwaitActivity, PopTrack, OpenFails, Open, SetContext,
      SetSkip, CheckContext, EncodeChunk, EndOfTrack, DropChunk, Finish, Cancel
<1>2. CASE MonitorStep
  BY <1>2 DEF MonitorStep, GoStandby, MonitorSkip, MonitorLock, HearActivity, TimerFires,
      Cancel
<1>3. ASSUME NEW g \in Goroutine, UpdateStartPos(g) PROVE PlaceTypes'
  <2>1. ASSUME NEW f \in Format, NEW from \in PosPC, NEW to \in PosPC, ReadPos(g, f, from, to)
        PROVE  PlaceTypes'
    BY <2>1 DEF ReadPos
  <2>2. ASSUME NEW from \in PosPC, NEW to \in PosPC \cup {AfterPos(g)}, SendPos(g, from, to)
        PROVE  PlaceTypes'
    BY <2>2 DEF SendPos, AfterPos
  <2> QED BY <1>3, <2>1, <2>2 DEF UpdateStartPos, Format
<1>4. ASSUME NEW g \in {Player, Monitor}, SetTrack(g) PROVE PlaceTypes'
  <2>1. CASE SetMeta(g)
    BY <1>4, <2>1 DEF SetMeta
  <2>2. CASE TakePos(g)
    BY <1>4, <2>2 DEF TakePos
  <2>3. CASE TakeFallback(g)
    <3>1. AfterSet(g) \in IF g = Monitor THEN {"select"} ELSE {"wait", "setContext"}
      BY DEF AfterSet
    <3> QED BY <1>4, <2>3, <3>1 DEF TakeFallback
  <2> QED BY <1>4, <2>1, <2>2, <2>3 DEF SetTrack
<1>5. ASSUME NEW t \in Track, PreloadStep(t) PROVE PlaceTypes'
  BY <1>5 DEF PreloadStep, Lock, PushSilence, CheckCancelled, PushSamples, PushEnd, Unlock,
      PushChunk
<1>6. ASSUME NEW t \in Track, Enqueue(t) PROVE PlaceTypes'
  BY <1>6 DEF Enqueue
<1>7. ASSUME NEW s \in Skipper, Skip(s) PROVE PlaceTypes'
  BY <1>7 DEF Skip, SkipLoad, SkipRefused, SkipAccepted, SkipCall, SkipTo, Cancel
<1>8. CASE Aside
  BY <1>8 DEF Aside
<1> QED BY <1>1, <1>2, <1>3, <1>4, <1>5, <1>6, <1>7, <1>8 DEF Step

\* What is kept of tracks.
LEMMA TrackStep == ASSUME IInv, Step PROVE TrackTypes'
<1> USE DEF PlaceTypes, TrackTypes, CurrentByPlace
<1>1. CASE PlayerStep
  <2>1. CASE Begin \/ AwaitActivity \/ OpenFails \/ Open
    BY <2>1 DEF Begin, AwaitActivity, OpenFails, Open
  <2>2. CASE PopTrack \/ SetContext \/ SetSkip \/ CheckContext
    BY <2>2 DEF PopTrack, SetContext, SetSkip, CheckContext
  <2>3. CASE EncodeChunk \/ EndOfTrack \/ DropChunk \/ Finish
    BY <2>3 DEF EncodeChunk, EndOfTrack, DropChunk, Finish, Cancel
  <2> QED BY <1>1, <2>1, <2>2, <2>3 DEF PlayerStep
<1>2. CASE MonitorStep
  BY <1>2 DEF MonitorStep, GoStandby, MonitorSkip, MonitorLock, HearActivity, TimerFires,
      Cancel
<1>3. ASSUME NEW g \in Goroutine, UpdateStartPos(g) PROVE TrackTypes'
  BY <1>3 DEF UpdateStartPos, ReadPos, SendPos, AfterPos
<1>4. ASSUME NEW g \in {Player, Monitor}, SetTrack(g) PROVE TrackTypes'
  BY <1>4 DEF SetTrack, SetMeta, TakePos, TakeFallback, AfterSet, Shown
<1>5. ASSUME NEW t \in Track, PreloadStep(t) PROVE TrackTypes'
  BY <1>5 DEF PreloadStep, Lock, PushSilence, CheckCancelled, PushSamples, PushEnd, Unlock,
      PushChunk
<1>6. ASSUME NEW t \in Track, Enqueue(t) PROVE TrackTypes'
  BY <1>6 DEF Enqueue
<1>7. ASSUME NEW s \in Skipper, Skip(s) PROVE TrackTypes'
  BY <1>7 DEF Skip, SkipLoad, SkipRefused, SkipAccepted, SkipCall, SkipTo, Cancel
<1>8. CASE Aside
  BY <1>8 DEF Aside
<1> QED BY <1>1, <1>2, <1>3, <1>4, <1>5, <1>6, <1>7, <1>8 DEF Step

\* The buffer has room for what it holds.
LEMMA BufferStep == ASSUME IInv, Step PROVE BufferTypes'
<1> USE DEF BufferTypes, Chunk
<1>1. CASE PlayerStep
  <2>1. CASE EncodeChunk
    BY <1>1, <2>1, HeadTail DEF EncodeChunk
  <2>2. CASE EndOfTrack
    BY <1>1, <2>2, HeadTail DEF EndOfTrack
  <2>3. CASE DropChunk
    BY <1>1, <2>3, HeadTail DEF DropChunk
  <2>4. CASE UNCHANGED bufferVars
    BY <1>1, <2>4
  <2> QED BY <1>1, <2>1, <2>2, <2>3, <2>4 DEF PlayerStep, Begin, AwaitActivity, PopTrack,
          OpenFails, Open, SetContext, SetSkip, CheckContext, EncodeChunk, EndOfTrack,
          DropChunk, Finish, Cancel
<1>2. CASE MonitorStep
  BY <1>2 DEF MonitorStep, GoStandby, MonitorSkip, MonitorLock, HearActivity, TimerFires,
      Cancel
<1>3. ASSUME NEW g \in Goroutine, UpdateStartPos(g) PROVE BufferTypes'
  BY <1>3 DEF UpdateStartPos, ReadPos, SendPos, AfterPos
<1>4. ASSUME NEW g \in {Player, Monitor}, SetTrack(g) PROVE BufferTypes'
  BY <1>4 DEF SetTrack, SetMeta, TakePos, TakeFallback, AfterSet, Shown
<1>5. ASSUME NEW t \in Track, PreloadStep(t) PROVE BufferTypes'
  <2>1. ASSUME NEW e \in BOOLEAN, PushChunk(t, e)
        PROVE  buffer' \in Seq(Chunk) /\ Len(buffer') <= BufferCap
    <3>1. [of |-> t, end |-> e] \in Chunk
      OBVIOUS
    <3> QED BY <2>1, <3>1, Appended DEF PushChunk
  <2>2. CASE PushSilence(t)
    BY <1>5, <2>2, <2>1 DEF PushSilence
  <2>3. CASE PushSamples(t)
    <3>1. samples' \in [Track -> 0 .. MaxSamples]
      BY <2>3 DEF PushSamples, PlaceTypes
    <3> QED BY <1>5, <2>3, <2>1, <3>1 DEF PushSamples
  <2>4. CASE PushEnd(t)
    BY <1>5, <2>4, <2>1 DEF PushEnd
  <2>5. CASE UNCHANGED bufferVars
    BY <1>5, <2>5
  <2> QED BY <1>5, <2>2, <2>3, <2>4, <2>5 DEF PreloadStep, Lock, CheckCancelled, Unlock
<1>6. ASSUME NEW t \in Track, Enqueue(t) PROVE BufferTypes'
  BY <1>6 DEF Enqueue
<1>7. ASSUME NEW s \in Skipper, Skip(s) PROVE BufferTypes'
  BY <1>7 DEF Skip, SkipLoad, SkipRefused, SkipAccepted, SkipCall, SkipTo, Cancel
<1>8. CASE Aside
  BY <1>8 DEF Aside
<1> QED BY <1>1, <1>2, <1>3, <1>4, <1>5, <1>6, <1>7, <1>8 DEF Step

\* So has deltaChannel.
LEMMA PositionTypesStep == ASSUME IInv, Step PROVE PositionTypes'
<1> USE DEF PlaceTypes, PositionTypes, Token, NoToken, Format
<1>1. CASE PlayerStep
  <2>1. CASE EncodeChunk
    <3>1. /\ UNCHANGED <<inHand, deltaChannel, startPos>>
          /\ \A g \in Goroutine : pc'[g] \in {"sendVorbis", "sendMP3"} => pc'[g] = pc[g]
      BY <2>1 DEF EncodeChunk
    <3>2. encoded' \in Nat /\ startedAt' \in [Track -> Nat \cup {NoPos}]
      BY <2>1 DEF EncodeChunk
    <3>3. sending' = TRUE \/ sending' = sending
      BY <2>1 DEF EncodeChunk
    <3> QED BY <3>1, <3>2, <3>3
  <2>2. CASE Begin \/ AwaitActivity \/ PopTrack \/ OpenFails \/ Open \/ SetContext
    BY <2>2 DEF Begin, AwaitActivity, PopTrack, OpenFails, Open, SetContext
  <2>3. CASE SetSkip \/ CheckContext \/ EndOfTrack \/ DropChunk \/ Finish
    BY <2>3 DEF SetSkip, CheckContext, EndOfTrack, DropChunk, Finish, Cancel
  <2> QED BY <1>1, <2>1, <2>2, <2>3 DEF PlayerStep
<1>2. CASE MonitorStep
  BY <1>2 DEF MonitorStep, GoStandby, MonitorSkip, MonitorLock, HearActivity, TimerFires,
      Cancel
<1>3. ASSUME NEW g \in Goroutine, UpdateStartPos(g) PROVE PositionTypes'
  <2>1. ASSUME NEW f \in Format, NEW to, ReadPos(g, f, pc[g], to)
        PROVE  PositionTypes'
    <3>1. [format |-> f, pos |-> encoded] \in Token
      OBVIOUS
    <3>2. inHand' = [inHand EXCEPT ![g] = [format |-> f, pos |-> encoded]]
      BY <2>1 DEF ReadPos
    <3>3. /\ inHand' \in [Goroutine -> Token \cup {NoToken}]
          /\ \A h \in Goroutine : pc'[h] \in {"sendVorbis", "sendMP3"} => inHand'[h] \in Token
      BY <2>1, <3>1, <3>2 DEF ReadPos
    <3> QED BY <1>3, <2>1, <3>3 DEF ReadPos, UpdateStartPos
  <2>2. ASSUME NEW to \in {"readMP3", AfterPos(g)}, SendPos(g, pc[g], to),
               pc[g] \in {"sendVorbis", "sendMP3"}
        PROVE  PositionTypes'
    <3>1. to \notin {"sendVorbis", "sendMP3"}
      BY DEF AfterPos
    <3>2. deltaChannel' \in Seq(Token) /\ Len(deltaChannel') <= 2
      BY <2>2, Appended DEF SendPos
    <3>3. /\ inHand' \in [Goroutine -> Token \cup {NoToken}]
          /\ \A h \in Goroutine : pc'[h] \in {"sendVorbis", "sendMP3"} => inHand'[h] \in Token
      BY <2>2, <3>1 DEF SendPos
    <3> QED BY <1>3, <2>2, <3>2, <3>3 DEF SendPos, UpdateStartPos
  <2> QED BY <1>3, <2>1, <2>2 DEF UpdateStartPos, ReadPos, SendPos
<1>4. ASSUME NEW g \in {Player, Monitor}, SetTrack(g) PROVE PositionTypes'
  <2>1. CASE SetMeta(g)
    BY <1>4, <2>1 DEF SetTrack, SetMeta
  <2>2. CASE TakePos(g)
    <3> HIDE DEF Token
    <3>1. /\ Head(deltaChannel) \in Token /\ Tail(deltaChannel) \in Seq(Token)
          /\ Len(Tail(deltaChannel)) <= 2
      BY <2>2, HeadTail DEF TakePos
    <3> QED BY <1>4, <2>2, <3>1 DEF SetTrack, TakePos
  <2>3. CASE TakeFallback(g)
    <3>1. AfterSet(g) \notin {"sendVorbis", "sendMP3"}
      BY DEF AfterSet
    <3> QED BY <1>4, <2>3, <3>1, HeadTail DEF SetTrack, TakeFallback
  <2> QED BY <1>4, <2>1, <2>2, <2>3 DEF SetTrack
<1>5. ASSUME NEW t \in Track, PreloadStep(t) PROVE PositionTypes'
  BY <1>5 DEF PreloadStep, Lock, PushSilence, CheckCancelled, PushSamples, PushEnd, Unlock,
      PushChunk
<1>6. ASSUME NEW t \in Track, Enqueue(t) PROVE PositionTypes'
  BY <1>6 DEF Enqueue
<1>7. ASSUME NEW s \in Skipper, Skip(s) PROVE PositionTypes'
  BY <1>7 DEF Skip, SkipLoad, SkipRefused, SkipAccepted, SkipCall, SkipTo, Cancel
<1>8. CASE Aside
  BY <1>8 DEF Aside
<1> QED BY <1>1, <1>2, <1>3, <1>4, <1>5, <1>6, <1>7, <1>8 DEF Step

\* The mutex, the wait group and the timer.
LEMMA IdleTypesStep == ASSUME IInv, Step PROVE IdleTypes'
<1> USE DEF IdleTypes, MuxHolders
<1>1. CASE PlayerStep
  BY <1>1 DEF PlayerStep, Begin, AwaitActivity, PopTrack, OpenFails, Open, SetContext,
      SetSkip, CheckContext, EncodeChunk, EndOfTrack, DropChunk, Finish, Cancel
<1>2. CASE MonitorStep
  <2>1. CASE GoStandby
    <3>1. timer' \in [armed : BOOLEAN, ticked : BOOLEAN, fires : BOOLEAN]
      BY <2>1 DEF GoStandby
    <3>2. activityWg' \in Nat
      BY <2>1 DEF GoStandby
    <3> QED BY <2>1, <3>1, <3>2 DEF GoStandby
  <2>2. CASE HearActivity
    <3>1. timer' \in [armed : BOOLEAN, ticked : BOOLEAN, fires : BOOLEAN]
      BY <2>2 DEF HearActivity
    <3>2. activityWg' \in Nat
      BY <2>2 DEF HearActivity
    <3> QED BY <2>2, <3>1, <3>2 DEF HearActivity
  <2>3. CASE TimerFires
    BY <2>3 DEF TimerFires
  <2> QED BY <1>2, <2>1, <2>2, <2>3 DEF MonitorStep, MonitorSkip, MonitorLock
<1>3. ASSUME NEW g \in Goroutine, UpdateStartPos(g) PROVE IdleTypes'
  BY <1>3 DEF UpdateStartPos, ReadPos, SendPos, AfterPos
<1>4. ASSUME NEW g \in {Player, Monitor}, SetTrack(g) PROVE IdleTypes'
  BY <1>4 DEF SetTrack, SetMeta, TakePos, TakeFallback, AfterSet, Shown
<1>5. ASSUME NEW t \in Track, PreloadStep(t) PROVE IdleTypes'
  BY <1>5 DEF PreloadStep, Lock, PushSilence, CheckCancelled, PushSamples, PushEnd, Unlock,
      PushChunk
<1>6. ASSUME NEW t \in Track, Enqueue(t) PROVE IdleTypes'
  BY <1>6 DEF Enqueue
<1>7. ASSUME NEW s \in Skipper, Skip(s) PROVE IdleTypes'
  BY <1>7 DEF Skip, SkipLoad, SkipRefused, SkipAccepted, SkipCall, SkipTo, Cancel
<1>8. CASE Aside
  BY <1>8 DEF Aside
<1> QED BY <1>1, <1>2, <1>3, <1>4, <1>5, <1>6, <1>7, <1>8 DEF Step

\* Requests, which touch little else.
LEMMA RequestTypesStep == ASSUME IInv, [Next]_vars PROVE RequestTypes'
<1> USE DEF RequestTypes
<1>1. CASE RelayListener \/ RelayTick \/ HearActivity
  BY <1>1 DEF RelayListener, RelayTick, HearActivity
<1>2. ASSUME NEW p \in Pinger, PingArrives(p) \/ PingSent(p) PROVE RequestTypes'
  BY <1>2 DEF PingArrives, PingSent
<1>3. ASSUME NEW s \in Skipper, Skip(s) PROVE RequestTypes'
  BY <1>3 DEF Skip, SkipLoad, SkipRefused, SkipAccepted, SkipCall, SkipTo
<1>4. CASE UNCHANGED requestVars
  BY <1>4
<1>5. ASSUME PlayerStep PROVE UNCHANGED requestVars
  BY <1>5 DEF PlayerStep, Begin, AwaitActivity, PopTrack, OpenFails, Open, SetContext, SetSkip,
              CheckContext, EncodeChunk, EndOfTrack, DropChunk, Finish, Cancel
<1>6. ASSUME NEW g \in Goroutine, UpdateStartPos(g) \/ SetTrack(g) PROVE UNCHANGED requestVars
  BY <1>6 DEF UpdateStartPos, SetTrack
<1>7. ASSUME NEW t \in Track, PreloadStep(t) \/ Enqueue(t) PROVE UNCHANGED requestVars
  BY <1>7 DEF PreloadStep, Lock, PushSilence, CheckCancelled, PushSamples, PushEnd, Unlock, PushChunk, Enqueue
<1>8. ASSUME GoStandby \/ MonitorSkip \/ MonitorLock \/ TimerFires \/ ChunkSent
      PROVE  UNCHANGED requestVars
  BY <1>8 DEF GoStandby, MonitorSkip, MonitorLock, TimerFires, ChunkSent
<1> QED
  BY <1>1, <1>2, <1>3, <1>4, <1>5, <1>6, <1>7, <1>8
  DEF Next, PlayerStep, PreloadStep, ProcessTrack, PreloadTrack, InactivityMonitor, vars

\* streamMux is held by the preloader at work, or by the monitor in standby.
LEMMA MuxStep == ASSUME IInv, Step PROVE (MuxHolders /\ NeverSleeps)'
<1> USE DEF PlaceTypes, IdleTypes, QueueIsFresh, Fresh, MuxHolders, NeverSleeps, Busy
<1>1. CASE PlayerStep
  BY <1>1 DEF PlayerStep, Begin, AwaitActivity, PopTrack, OpenFails, Open, SetContext,
      SetSkip, CheckContext, EncodeChunk, EndOfTrack, DropChunk, Finish, Cancel
<1>2. CASE MonitorStep
  <2>1. CASE GoStandby
    BY <2>1 DEF GoStandby
  <2>2. CASE MonitorSkip
    BY <2>2 DEF MonitorSkip
  <2>3. CASE MonitorLock
    BY <2>3 DEF MonitorLock
  <2>4. CASE HearActivity
    BY <2>4 DEF HearActivity
  <2>5. CASE TimerFires
    BY <2>5 DEF TimerFires
  <2> QED BY <1>2, <2>1, <2>2, <2>3, <2>4, <2>5 DEF MonitorStep
<1>3. ASSUME NEW g \in Goroutine, UpdateStartPos(g) PROVE (MuxHolders /\ NeverSleeps)'
  BY <1>3 DEF UpdateStartPos, ReadPos, SendPos, AfterPos
<1>4. ASSUME NEW g \in {Player, Monitor}, SetTrack(g) PROVE (MuxHolders /\ NeverSleeps)'
  BY <1>4 DEF SetTrack, SetMeta, TakePos, TakeFallback, AfterSet, Shown
<1>5. ASSUME NEW t \in Track, PreloadStep(t) PROVE (MuxHolders /\ NeverSleeps)'
  BY <1>5 DEF PreloadStep, Lock, PushSilence, CheckCancelled, PushSamples, PushEnd, Unlock,
      PushChunk
<1>6. ASSUME NEW t \in Track, Enqueue(t) PROVE (MuxHolders /\ NeverSleeps)'
  BY <1>6 DEF Enqueue
<1>7. ASSUME NEW s \in Skipper, Skip(s) PROVE (MuxHolders /\ NeverSleeps)'
  BY <1>7 DEF Skip, SkipLoad, SkipRefused, SkipAccepted, SkipCall, SkipTo, Cancel
<1>8. CASE Aside
  BY <1>8 DEF Aside
<1> QED BY <1>1, <1>2, <1>3, <1>4, <1>5, <1>6, <1>7, <1>8 DEF Step

\* Which track the player works on.
LEMMA PlayerStepKeeps == ASSUME IInv, Step PROVE CurrentByPlace'
<1> USE DEF PlaceTypes, TrackTypes, CurrentByPlace
<1>1. CASE PlayerStep
  BY <1>1 DEF PlayerStep, Begin, AwaitActivity, PopTrack, OpenFails, Open, SetContext,
      SetSkip, CheckContext, EncodeChunk, EndOfTrack, DropChunk, Finish, Cancel
<1>2. CASE MonitorStep
  BY <1>2 DEF MonitorStep, GoStandby, MonitorSkip, MonitorLock, HearActivity, TimerFires,
      Cancel
<1>3. ASSUME NEW g \in Goroutine, UpdateStartPos(g) PROVE CurrentByPlace'
  BY <1>3 DEF UpdateStartPos, ReadPos, SendPos, AfterPos
<1>4. ASSUME NEW g \in {Player, Monitor}, SetTrack(g) PROVE CurrentByPlace'
  BY <1>4 DEF SetTrack, SetMeta, TakePos, TakeFallback, AfterSet, Shown
<1>5. ASSUME NEW t \in Track, PreloadStep(t) PROVE CurrentByPlace'
  BY <1>5 DEF PreloadStep, Lock, PushSilence, CheckCancelled, PushSamples, PushEnd, Unlock,
      PushChunk
<1>6. ASSUME NEW t \in Track, Enqueue(t) PROVE CurrentByPlace'
  BY <1>6 DEF Enqueue
<1>7. ASSUME NEW s \in Skipper, Skip(s) PROVE CurrentByPlace'
  BY <1>7 DEF Skip, SkipLoad, SkipRefused, SkipAccepted, SkipCall, SkipTo, Cancel
<1>8. CASE Aside
  BY <1>8 DEF Aside
<1> QED BY <1>1, <1>2, <1>3, <1>4, <1>5, <1>6, <1>7, <1>8 DEF Step

\* Tracks that nobody has begun to work on.
LEMMA QueueStep == ASSUME IInv, Step PROVE QueueIsFresh'
<1> USE DEF PlaceTypes, TrackTypes, PositionTypes, SkipFuncShown, QueueIsFresh, Fresh,
        InQueue, CurrentByPlace
<1>1. CASE PlayerStep
  <2>1. CASE PopTrack
    <3>1. /\ current' = playQueue[1] /\ Len(playQueue) >= 1
          /\ \A j \in DOMAIN playQueue' : j + 1 \in DOMAIN playQueue /\ playQueue'[j] = playQueue[j + 1]
      BY <2>1, HeadTail DEF PopTrack
    <3>2. playQueue' \in Seq(Track)
      BY <2>1, HeadTail DEF PopTrack
    <3>3. ASSUME NEW j \in DOMAIN playQueue', playQueue'[j] = current' PROVE FALSE
      <4>1. j \in Nat \ {0} /\ 1 \in DOMAIN playQueue
        BY <3>1, <3>2
      <4>2. j + 1 \in DOMAIN playQueue /\ playQueue[j + 1] = playQueue[1]
        BY <3>1, <3>3
      <4> QED BY <4>1, <4>2
    <3> QED BY <2>1, <3>1, <3>3 DEF PopTrack
  <2>2. CASE EncodeChunk
    BY <2>2 DEF EncodeChunk
  <2>3. CASE Finish
    BY <2>3 DEF Finish, Cancel
  <2>4. CASE Open
    BY <2>4 DEF Open
  <2> QED BY <1>1, <2>1, <2>2, <2>3, <2>4
      DEF PlayerStep, Begin, AwaitActivity, OpenFails, SetContext, SetSkip, CheckContext,
          EndOfTrack, DropChunk
<1>2. CASE MonitorStep
  BY <1>2 DEF MonitorStep, GoStandby, MonitorSkip, MonitorLock, HearActivity, TimerFires,
      Cancel
<1>3. ASSUME NEW g \in Goroutine, UpdateStartPos(g) PROVE QueueIsFresh'
  BY <1>3 DEF UpdateStartPos, ReadPos, SendPos, AfterPos
<1>4. ASSUME NEW g \in {Player, Monitor}, SetTrack(g) PROVE QueueIsFresh'
  BY <1>4 DEF SetTrack, SetMeta, TakePos, TakeFallback, AfterSet, Shown
<1>5. ASSUME NEW t \in Track, PreloadStep(t) PROVE QueueIsFresh'
  BY <1>5 DEF PreloadStep, Lock, PushSilence, CheckCancelled, PushSamples, PushEnd, Unlock,
      PushChunk
<1>6. ASSUME NEW t \in Track, Enqueue(t) PROVE QueueIsFresh'
  BY <1>6 DEF Enqueue
<1>7. ASSUME NEW s \in Skipper, Skip(s) PROVE QueueIsFresh'
  BY <1>7 DEF Skip, SkipLoad, SkipRefused, SkipAccepted, SkipCall, SkipTo, Cancel
<1>8. CASE Aside
  BY <1>8 DEF Aside
<1> QED BY <1>1, <1>2, <1>3, <1>4, <1>5, <1>6, <1>7, <1>8 DEF Step

\* Only the current track is preloaded.
LEMMA FeederStep == ASSUME IInv, Step PROVE OneFeeder'
<1> USE DEF PlaceTypes, TrackTypes, OneFeeder, EndMark, BufferHoldsCurrent, QueueIsFresh,
        Fresh, CurrentByPlace
<1>1. CASE PlayerStep
  BY <1>1 DEF PlayerStep, Begin, AwaitActivity, PopTrack, OpenFails, Open, SetContext,
      SetSkip, CheckContext, EncodeChunk, EndOfTrack, DropChunk, Finish, Cancel
<1>2. CASE MonitorStep
  BY <1>2 DEF MonitorStep, GoStandby, MonitorSkip, MonitorLock, HearActivity, TimerFires,
      Cancel
<1>3. ASSUME NEW g \in Goroutine, UpdateStartPos(g) PROVE OneFeeder'
  BY <1>3 DEF UpdateStartPos, ReadPos, SendPos, AfterPos
<1>4. ASSUME NEW g \in {Player, Monitor}, SetTrack(g) PROVE OneFeeder'
  BY <1>4 DEF SetTrack, SetMeta, TakePos, TakeFallback, AfterSet, Shown
<1>5. ASSUME NEW t \in Track, PreloadStep(t) PROVE OneFeeder'
  BY <1>5 DEF PreloadStep, Lock, PushSilence, CheckCancelled, PushSamples, PushEnd, Unlock,
      PushChunk
<1>6. ASSUME NEW t \in Track, Enqueue(t) PROVE OneFeeder'
  BY <1>6 DEF Enqueue
<1>7. ASSUME NEW s \in Skipper, Skip(s) PROVE OneFeeder'
  BY <1>7 DEF Skip, SkipLoad, SkipRefused, SkipAccepted, SkipCall, SkipTo, Cancel
<1>8. CASE Aside
  BY <1>8 DEF Aside
<1> QED BY <1>1, <1>2, <1>3, <1>4, <1>5, <1>6, <1>7, <1>8 DEF Step

\* What is in the buffer.
LEMMA EndMarkStep == ASSUME IInv, Step PROVE (EndMark /\ BufferHoldsCurrent)'
<1> USE DEF PlaceTypes, TrackTypes, BufferTypes, OneFeeder, EndMark,
        BufferHoldsCurrent, QueueIsFresh, Fresh, CurrentByPlace
<1>1. CASE PlayerStep
  <2>1. ASSUME buffer # <<>>, buffer' = Tail(buffer), current' = current,
               pc[Player] \in {"receive", "drain"}
        PROVE  /\ BufferHoldsCurrent'
               /\ Head(buffer) = buffer[1]
               /\ Head(buffer).end => buffer' = <<>> /\ pc[current] \notin Feeding
               /\ ~Head(buffer).end /\ InTrack' /\ pc'[current] = pc[current] => EndMark'
    <3>1. /\ buffer[1] = Head(buffer) /\ Len(buffer') = Len(buffer) - 1 /\ Len(buffer) >= 1
          /\ buffer' \in Seq(Chunk)
          /\ \A j \in DOMAIN buffer' : j + 1 \in DOMAIN buffer /\ buffer'[j] = buffer[j + 1]
      BY <2>1, HeadTail
    <3>2. BufferHoldsCurrent'
      BY <2>1, <3>1
    <3>3. ASSUME Head(buffer).end PROVE buffer' = <<>> /\ pc[current] \notin Feeding
      <4>1. 1 \in DOMAIN buffer /\ buffer[1].end
        BY <3>1, <3>3
      <4>2. Len(buffer) = 1
        BY <4>1
      <4>3. InTrack
        BY <2>1
      <4>4. pc[current] \notin Feeding
        BY <4>1, <4>3
      <4> QED BY <3>1, <4>2, <4>4
    <3>4. ASSUME ~Head(buffer).end, InTrack', pc'[current] = pc[current] PROVE EndMark'
      <4>1. CASE pc[current] \in Feeding
        BY <2>1, <3>1, <3>4, <4>1
      <4>2. CASE pc[current] \notin Feeding
        <5>1. buffer[Len(buffer)].end
          BY <2>1, <3>4, <4>2
        <5>2. Len(buffer) # 1
          BY <3>1, <3>4, <5>1
        <5>3. buffer' # <<>> /\ buffer'[Len(buffer')] = buffer[Len(buffer)]
          BY <3>1, <5>2
        <5> QED BY <2>1, <3>4, <4>2, <5>1, <5>3
      <4> QED BY <4>1, <4>2
    <3> QED BY <3>1, <3>2, <3>3, <3>4
  <2>2. CASE EncodeChunk
    BY <2>1, <2>2 DEF EncodeChunk
  <2>3. CASE EndOfTrack
    BY <2>1, <2>3 DEF EndOfTrack
  <2>4. CASE DropChunk
    BY <2>1, <2>4 DEF DropChunk
  <2>5. CASE Open
    BY <2>5 DEF Open
  <2>6. CASE SetContext \/ SetSkip \/ CheckContext
    BY <2>6 DEF SetContext, SetSkip, CheckContext
  <2>7. CASE Begin \/ AwaitActivity \/ PopTrack \/ OpenFails \/ Finish
    <3>1. ~InTrack /\ ~InTrack' /\ buffer' = buffer
      BY <2>7 DEF Begin, AwaitActivity, PopTrack, OpenFails, Finish
    <3> QED BY <3>1
  <2> QED BY <1>1, <2>2, <2>3, <2>4, <2>5, <2>6, <2>7 DEF PlayerStep
<1>2. CASE MonitorStep
  BY <1>2 DEF MonitorStep, GoStandby, MonitorSkip, MonitorLock, HearActivity, TimerFires,
      Cancel
<1>3. ASSUME NEW g \in Goroutine, UpdateStartPos(g) PROVE (EndMark /\ BufferHoldsCurrent)'
  BY <1>3 DEF UpdateStartPos, ReadPos, SendPos, AfterPos
<1>4. ASSUME NEW g \in {Player, Monitor}, SetTrack(g) PROVE (EndMark /\ BufferHoldsCurrent)'
  BY <1>4 DEF SetTrack, SetMeta, TakePos, TakeFallback, AfterSet, Shown
<1>5. ASSUME NEW t \in Track, PreloadStep(t) PROVE (EndMark /\ BufferHoldsCurrent)'
  <2>1. ASSUME NEW e \in BOOLEAN, buffer' = Append(buffer, [of |-> t, end |-> e]),
               t = current, pc[t] \in Feeding, InTrack
        PROVE  /\ buffer' # <<>> /\ buffer'[Len(buffer')] = [of |-> t, end |-> e]
               /\ \A i \in DOMAIN buffer' : i = Len(buffer') \/ ~buffer'[i].end
               /\ BufferHoldsCurrent' \/ current' # current
    <3>1. [of |-> t, end |-> e] \in Chunk
      BY DEF Chunk
    <3>2. /\ buffer' # <<>> /\ Len(buffer') = Len(buffer) + 1
          /\ buffer'[Len(buffer')] = [of |-> t, end |-> e]
          /\ \A i \in DOMAIN buffer' : i = Len(buffer') \/ (i \in DOMAIN buffer /\ buffer'[i] = buffer[i])
      BY <2>1, <3>1, Appended
    <3>3. \A i \in DOMAIN buffer : ~buffer[i].end /\ buffer[i].of = t
      BY <2>1
    <3> QED BY <2>1, <3>2, <3>3
  <2>2. CASE PushSilence(t) \/ PushSamples(t)
    <3>1. /\ current' = current /\ pc'[Player] = pc[Player]
          /\ pc[t] \in Feeding /\ pc'[t] \in Feeding
          /\ buffer' = Append(buffer, [of |-> t, end |-> FALSE])
      BY <2>2 DEF PushSilence, PushSamples, PushChunk
    <3>2. t = current /\ InTrack /\ InTrack'
      BY <3>1
    <3>3. \A i \in DOMAIN buffer' : ~buffer'[i].end
      BY <2>1, <3>1, <3>2
    <3>4. BufferHoldsCurrent'
      BY <2>1, <3>1, <3>2
    <3> QED BY <3>1, <3>2, <3>3, <3>4
  <2>3. CASE PushEnd(t)
    <3>1. /\ current' = current /\ pc'[Player] = pc[Player]
          /\ pc[t] \in Feeding /\ pc'[t] \notin Feeding
          /\ buffer' = Append(buffer, [of |-> t, end |-> TRUE])
      BY <2>3 DEF PushEnd, PushChunk
    <3>2. t = current /\ InTrack /\ InTrack'
      BY <3>1
    <3>3. buffer' # <<>> /\ buffer'[Len(buffer')].end
      BY <2>1, <3>1, <3>2
    <3>4. BufferHoldsCurrent'
      BY <2>1, <3>1, <3>2
    <3> QED BY <3>1, <3>2, <3>3, <3>4
  <2>4. CASE Lock(t) \/ CheckCancelled(t) \/ Unlock(t)
    BY <2>4 DEF Lock, CheckCancelled, Unlock
  <2> QED BY <1>5, <2>2, <2>3, <2>4 DEF PreloadStep
<1>6. ASSUME NEW t \in Track, Enqueue(t) PROVE (EndMark /\ BufferHoldsCurrent)'
  BY <1>6 DEF Enqueue
<1>7. ASSUME NEW s \in Skipper, Skip(s) PROVE (EndMark /\ BufferHoldsCurrent)'
  BY <1>7 DEF Skip, SkipLoad, SkipRefused, SkipAccepted, SkipCall, SkipTo, Cancel
<1>8. CASE Aside
  BY <1>8 DEF Aside
<1> QED BY <1>1, <1>2, <1>3, <1>4, <1>5, <1>6, <1>7, <1>8 DEF Step

\* What a skip request may find.
LEMMA SkipStep == ASSUME IInv, Step PROVE SkipFuncShown'
<1> USE DEF PlaceTypes, TrackTypes, SkipFuncShown, NeverSleeps, Busy, QueueIsFresh, Fresh,
        CurrentByPlace, IdleTypes
<1>1. CASE PlayerStep
  BY <1>1 DEF PlayerStep, Begin, AwaitActivity, PopTrack, OpenFails, Open, SetContext,
      SetSkip, CheckContext, EncodeChunk, EndOfTrack, DropChunk, Finish, Cancel
<1>2. CASE MonitorStep
  <2>1. CASE MonitorSkip
    BY <2>1 DEF MonitorSkip, Cancel
  <2>2. CASE UNCHANGED contextVars
    <3>1. timer'.fires = timer.fires
      BY <1>2 DEF MonitorStep, GoStandby, MonitorSkip, MonitorLock, HearActivity, TimerFires
    <3>2. pc'[Player] = pc[Player]
      BY <1>2 DEF MonitorStep, GoStandby, MonitorSkip, MonitorLock, HearActivity, TimerFires
    <3>3. UNCHANGED <<current, trackMeta>>
      BY <1>2 DEF MonitorStep, GoStandby, MonitorSkip, MonitorLock, HearActivity, TimerFires
    <3> QED BY <2>2, <3>1, <3>2, <3>3
  <2> QED BY <1>2, <2>1, <2>2 DEF MonitorStep, GoStandby, MonitorLock, HearActivity, TimerFires
<1>3. ASSUME NEW g \in Goroutine, UpdateStartPos(g) PROVE SkipFuncShown'
  BY <1>3 DEF UpdateStartPos, ReadPos, SendPos, AfterPos
<1>4. ASSUME NEW g \in {Player, Monitor}, SetTrack(g) PROVE SkipFuncShown'
  BY <1>4 DEF SetTrack, SetMeta, TakePos, TakeFallback, AfterSet, Shown
<1>5. ASSUME NEW t \in Track, PreloadStep(t) PROVE SkipFuncShown'
  BY <1>5 DEF PreloadStep, Lock, PushSilence, CheckCancelled, PushSamples, PushEnd, Unlock,
      PushChunk
<1>6. ASSUME NEW t \in Track, Enqueue(t) PROVE SkipFuncShown'
  BY <1>6 DEF Enqueue
<1>7. ASSUME NEW s \in Skipper, Skip(s) PROVE SkipFuncShown'
  BY <1>7 DEF Skip, SkipLoad, SkipRefused, SkipAccepted, SkipCall, SkipTo, Cancel
<1>8. CASE Aside
  BY <1>8 DEF Aside
<1> QED BY <1>1, <1>2, <1>3, <1>4, <1>5, <1>6, <1>7, <1>8 DEF Step

\* Whether 15 minutes ever pass is decided at the start.
LEMMA BusyStays == ASSUME IInv, Step PROVE timer'.fires = timer.fires
<1> USE DEF IdleTypes
<1>1. CASE UNCHANGED timer
  BY <1>1
<1>2. CASE MonitorStep
  BY <1>2 DEF MonitorStep, GoStandby, MonitorSkip, MonitorLock, HearActivity, TimerFires
<1> QED
  BY <1>1, <1>2
  DEF Step, PlayerStep, Begin, AwaitActivity, PopTrack, OpenFails, Open, SetContext, SetSkip,
      CheckContext, EncodeChunk, EndOfTrack, DropChunk, Finish, UpdateStartPos, SetTrack,
      PreloadStep, Lock, PushSilence, CheckCancelled, PushSamples, PushEnd, Unlock, Enqueue,
      Skip, SkipLoad, SkipRefused, SkipAccepted, SkipCall, SkipTo, Aside

\* While the server never sleeps, deltaChannel holds what one round of updateStartPos
\* has sent and setTrack has not received.
LEMMA PositionsStep == ASSUME IInv, Step, Busy PROVE Positions'
<1> USE DEF PlaceTypes, TrackTypes, PositionTypes, Positions, Vorbis, MP3, None, First,
        Sender, Round, NeverSleeps, OneFeeder, CurrentByPlace, QueueIsFresh, Fresh, Format
<1>1. CASE PlayerStep
  BY <1>1 DEF PlayerStep, Begin, AwaitActivity, PopTrack, OpenFails, Open, SetContext,
      SetSkip, CheckContext, EncodeChunk, EndOfTrack, DropChunk, Finish, Cancel
<1>2. CASE MonitorStep
  BY <1>2 DEF MonitorStep, GoStandby, MonitorSkip, MonitorLock, HearActivity, TimerFires,
      Cancel
<1>3. ASSUME NEW g \in Goroutine, UpdateStartPos(g) PROVE Positions'
  <2>1. /\ g = Sender /\ Sender' = Sender /\ g # Monitor
        /\ Round /\ (g # Player => pc[Player] \in SetPC)
        /\ g = Player => current = Default
        /\ \A h \in Goroutine : h # g => pc'[h] = pc[h]
    BY <1>3 DEF UpdateStartPos, ReadPos, SendPos
  <2>2. CASE ReadPos(g, "vorbis", "readVorbis", "sendVorbis")
    BY <1>3, <2>1, <2>2 DEF UpdateStartPos, ReadPos
  <2>3. CASE SendPos(g, "sendVorbis", "readMP3")
    BY <1>3, <2>1, <2>3 DEF UpdateStartPos, SendPos
  <2>4. CASE ReadPos(g, "mp3", "readMP3", "sendMP3")
    BY <1>3, <2>1, <2>4 DEF UpdateStartPos, ReadPos
  <2>5. CASE SendPos(g, "sendMP3", AfterPos(g))
    <3>1. CASE pc[Player] = "takeFallback"
      <4>1. deltaChannel' = <<MP3>>
        BY <2>1, <2>5, <3>1 DEF SendPos
      <4> QED BY <1>3, <2>1, <2>5, <3>1, <4>1 DEF UpdateStartPos, SendPos, AfterPos
    <3>2. CASE pc[Player] # "takeFallback"
      <4>1. deltaChannel' = <<Vorbis, MP3>>
        <5>1. deltaChannel = <<Vorbis>> /\ inHand[g] = MP3
          BY <2>1, <2>5, <3>2 DEF SendPos
        <5>2. deltaChannel' = Append(<<Vorbis>>, MP3)
          BY <2>5, <5>1 DEF SendPos
        <5> QED BY <5>2, AppendToOne
      <4> QED BY <1>3, <2>1, <2>5, <3>2, <4>1 DEF UpdateStartPos, SendPos, AfterPos
    <3> QED BY <3>1, <3>2
  <2> QED BY <1>3, <2>2, <2>3, <2>4, <2>5 DEF UpdateStartPos
<1>4. ASSUME NEW g \in {Player, Monitor}, SetTrack(g) PROVE Positions'
  <2>1. g = Player /\ Round /\ Sender' = Sender
    BY <1>4 DEF SetTrack, SetMeta, TakePos, TakeFallback
  <2>2. CASE SetMeta(g)
    BY <1>4, <2>1, <2>2 DEF SetTrack, SetMeta
  <2>3. CASE TakePos(g)
    <3>1. CASE pc[Sender] \in First /\ deltaChannel = <<Vorbis>>
      <4>1. inHand'[Player] = Vorbis /\ deltaChannel' = <<>>
        BY <2>1, <2>3, <3>1 DEF TakePos
      <4> QED BY <1>4, <2>1, <2>3, <3>1, <4>1 DEF SetTrack, TakePos
    <3>2. CASE pc[Sender] \notin None \cup First /\ deltaChannel = <<Vorbis, MP3>>
      <4>1. inHand'[Player] = Vorbis /\ deltaChannel' = <<MP3>>
        BY <2>1, <2>3, <3>2 DEF TakePos
      <4> QED BY <1>4, <2>1, <2>3, <3>2, <4>1 DEF SetTrack, TakePos
    <3> QED BY <2>1, <2>3, <3>1, <3>2 DEF TakePos
  <2>4. CASE TakeFallback(g)
    <3>1. pc[Sender] \notin None \cup First /\ deltaChannel' = <<>>
      BY <2>1, <2>4 DEF TakeFallback
    <3> QED BY <1>4, <2>1, <2>4, <3>1 DEF SetTrack, TakeFallback, AfterSet
  <2> QED BY <1>4, <2>2, <2>3, <2>4 DEF SetTrack
<1>5. ASSUME NEW t \in Track, PreloadStep(t) PROVE Positions'
  BY <1>5 DEF PreloadStep, Lock, PushSilence, CheckCancelled, PushSamples, PushEnd, Unlock,
      PushChunk
<1>6. ASSUME NEW t \in Track, Enqueue(t) PROVE Positions'
  BY <1>6 DEF Enqueue
<1>7. ASSUME NEW s \in Skipper, Skip(s) PROVE Positions'
  BY <1>7 DEF Skip, SkipLoad, SkipRefused, SkipAccepted, SkipCall, SkipTo, Cancel
<1>8. CASE Aside
  BY <1>8 DEF Aside
<1> QED BY <1>1, <1>2, <1>3, <1>4, <1>5, <1>6, <1>7, <1>8 DEF Step

\* What is announced, and where the sound then starts.
LEMMA StartsStep == ASSUME IInv, Step, Busy PROVE Starts'
<1> USE DEF PlaceTypes, TrackTypes, PositionTypes, Positions, Vorbis, MP3, None, First,
        Sender, Round, NeverSleeps, OneFeeder, CurrentByPlace, QueueIsFresh, Fresh, Starts,
        Announced, Format, SkipFuncShown, Busy
<1>1. CASE PlayerStep
  <2>1. CASE EncodeChunk
    <3>1. CASE UNCHANGED soundVars
      BY <2>1, <3>1 DEF EncodeChunk
    <3>2. CASE startedAt[current] # NoPos /\ UNCHANGED startedAt
      BY <2>1, <3>2 DEF EncodeChunk
    <3>3. CASE startedAt[current] = NoPos /\ startedAt' = [startedAt EXCEPT ![current] = encoded]
      BY <2>1, <3>3 DEF EncodeChunk, NoPos
    <3> QED BY <2>1, <3>1, <3>2, <3>3 DEF EncodeChunk
  <2>2. CASE Open
    BY <2>2 DEF Open
  <2>3. CASE UNCHANGED soundVars /\ ~Open
    BY <1>1, <2>3
    DEF PlayerStep, Begin, AwaitActivity, PopTrack, OpenFails, SetContext, SetSkip,
        CheckContext, EndOfTrack, DropChunk, Finish, EncodeChunk
  <2> QED BY <1>1, <2>1, <2>2, <2>3
      DEF PlayerStep, Begin, AwaitActivity, PopTrack, OpenFails, SetContext, SetSkip,
          CheckContext, EndOfTrack, DropChunk, Finish
<1>2. CASE MonitorStep
  BY <1>2 DEF MonitorStep, GoStandby, MonitorSkip, MonitorLock, HearActivity, TimerFires,
      Cancel
<1>3. ASSUME NEW g \in Goroutine, UpdateStartPos(g) PROVE Starts'
  BY <1>3 DEF UpdateStartPos, ReadPos, SendPos, AfterPos
<1>4. ASSUME NEW g \in {Player, Monitor}, SetTrack(g) PROVE Starts'
  BY <1>4 DEF SetTrack, SetMeta, TakePos, TakeFallback, AfterSet, Shown
<1>5. ASSUME NEW t \in Track, PreloadStep(t) PROVE Starts'
  BY <1>5 DEF PreloadStep, Lock, PushSilence, CheckCancelled, PushSamples, PushEnd, Unlock,
      PushChunk
<1>6. ASSUME NEW t \in Track, Enqueue(t) PROVE Starts'
  BY <1>6 DEF Enqueue
<1>7. ASSUME NEW s \in Skipper, Skip(s) PROVE Starts'
  BY <1>7 DEF Skip, SkipLoad, SkipRefused, SkipAccepted, SkipCall, SkipTo, Cancel
<1>8. CASE Aside
  BY <1>8 DEF Aside
<1> QED BY <1>1, <1>2, <1>3, <1>4, <1>5, <1>6, <1>7, <1>8 DEF Step

-----------------------------------------------------------------------------
LEMMA InitIInv == Init => IInv
<1> SUFFICES ASSUME Init PROVE IInv
  OBVIOUS
<1> USE DEF Init
<1>1. PlaceTypes /\ TrackTypes
  BY DEF PlaceTypes, TrackTypes
<1>2. BufferTypes /\ PositionTypes
  <2>1. BufferTypes
    BY DEF BufferTypes, Chunk
  <2>2. PositionTypes
    <3>1. /\ inHand \in [Goroutine -> Token \cup {NoToken}]
          /\ \A g \in Goroutine : pc[g] \notin {"sendVorbis", "sendMP3"}
      OBVIOUS
    <3>2. deltaChannel \in Seq(Token) /\ Len(deltaChannel) <= 2
      OBVIOUS
    <3>3. /\ startPos \in [Format -> Nat] /\ encoded \in Nat
          /\ startedAt \in [Track -> Nat \cup {NoPos}] /\ sending \in BOOLEAN
      OBVIOUS
    <3> QED BY <3>1, <3>2, <3>3 DEF PositionTypes
  <2> QED BY <2>1, <2>2
<1>3. IdleTypes /\ RequestTypes
  BY DEF IdleTypes, RequestTypes
<1>4. CurrentByPlace /\ QueueIsFresh /\ OneFeeder /\ EndMark /\ BufferHoldsCurrent
  BY DEF CurrentByPlace, QueueIsFresh, Fresh, InQueue, OneFeeder, EndMark, BufferHoldsCurrent
<1>5. MuxHolders /\ NeverSleeps /\ SkipFuncShown
  BY DEF MuxHolders, NeverSleeps, SkipFuncShown
<1>6. Positions /\ Starts
  BY DEF Positions, Round, Starts
<1> QED BY <1>1, <1>2, <1>3, <1>4, <1>5, <1>6

LEMMA StepIInv == IInv /\ [Next]_vars => IInv'
<1> SUFFICES ASSUME IInv, [Next]_vars PROVE IInv'
  OBVIOUS
<1>1. Step
  BY NextIsStep
<1>2. Types'
  BY <1>1, PlaceStep, TrackStep, BufferStep, PositionTypesStep, IdleTypesStep, RequestTypesStep
<1>3. /\ CurrentByPlace' /\ QueueIsFresh' /\ OneFeeder' /\ EndMark' /\ BufferHoldsCurrent'
      /\ MuxHolders' /\ NeverSleeps' /\ SkipFuncShown'
  BY <1>1, PlayerStepKeeps, QueueStep, FeederStep, EndMarkStep, MuxStep, SkipStep
<1>4. Busy' => Busy
  BY <1>1, BusyStays DEF Busy
<1>5. Busy' => Positions' /\ Starts'
  BY <1>1, <1>4, PositionsStep, StartsStep
<1> QED BY <1>2, <1>3, <1>5

LEMMA Invariance == Spec => []IInv
  BY InitIInv, StepIInv, PTL DEF Spec

\* Player, monitor, preloaders, channels and the mutex are well typed in every
\* reachable state, with any number of tracks and clients.
THEOREM PlaybackTypeCorrect == Spec => []TypeOK
<1>1. IInv => TypeOK
  BY DEF TypeOK, PlaceTypes, TrackTypes, BufferTypes, PositionTypes, IdleTypes, RequestTypes
<1> QED BY <1>1, Invariance, PTL

\* bufferingChannel never mixes tracks, however preloaders, skips and standby
\* interleave and whatever its capacity.
THEOREM BufferNeverMixes == Spec => []BufferHoldsCurrent
<1>1. IInv => BufferHoldsCurrent
  OBVIOUS
<1> QED BY <1>1, Invariance, PTL

\* When the server wakes up the monitor holds the mutex it unlocks and the wait
\* group's count is the one it takes back, even if the timer ticked too early.
THEOREM WakingUpIsSafe == Spec => []StandbyIsHeld
<1>1. IInv => StandbyIsHeld
  BY DEF StandbyIsHeld, MuxHolders
<1> QED BY <1>1, Invariance, PTL

\* What setTrack announces is where the sound of the track starts, in both
\* formats, on a server that never sleeps; and getPlaying finds the same.
THEOREM AnnouncementsAreTrue == Spec => []AnnouncedWhereItStarts
<1>1. IInv => AnnouncedWhereItStarts
  BY DEF AnnouncedWhereItStarts, Starts, Announced, SkipFuncShown, CurrentByPlace, TrackTypes
<1> QED BY <1>1, Invariance, PTL

\* On such a server a skip cancels the track that is shown, and never one that is
\* still being prepared.
THEOREM SkipsAreAimed == Spec => SkipHitsTrackShown
<1>1. ASSUME IInv, [Next]_vars, Busy, NEW t \in Track, context[t] = "live",
             context'[t] = "cancelled"
      PROVE  trackMeta = t
  <2>1. Step
    BY <1>1, NextIsStep
  <2>2. context' # context
    BY <1>1
  <2>3. CASE skipFunc = t
    BY <1>1, <2>3 DEF SkipFuncShown
  <2>4. CASE skipFunc # t
    <3>1. PlayerStep \/ MonitorStep \/ \E s \in Skipper : Skip(s)
      BY <2>1, <2>2 DEF Step, UpdateStartPos, SetTrack, PreloadStep, Lock, PushSilence,
         CheckCancelled, PushSamples, PushEnd, Unlock, Enqueue, Aside
    <3>2. context'[t] # "cancelled"
      BY <1>1, <2>4, <3>1
      DEF PlayerStep, Begin, AwaitActivity, PopTrack, OpenFails, Open, SetContext, SetSkip,
          CheckContext, EncodeChunk, EndOfTrack, DropChunk, Finish, MonitorStep, GoStandby,
          MonitorSkip, MonitorLock, HearActivity, TimerFires, Skip, SkipLoad, SkipRefused,
          SkipAccepted, SkipCall, SkipTo, Cancel, TrackTypes
    <3> QED BY <1>1, <3>2
  <2> QED BY <2>3, <2>4
<1>2. IInv /\ [Next]_vars => [Busy => \A t \in Track :
         context[t] = "live" /\ context'[t] = "cancelled" => trackMeta = t]_vars
  BY <1>1
<1> QED BY <1>2, Invariance, PTL DEF Spec, SkipHitsTrackShown
=============================================================================
