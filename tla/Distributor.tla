---------------------------- MODULE Distributor ----------------------------
(***************************************************************************)
(* How one encoder hands each encoded chunk to every connected listener:   *)
(* the send loop of streamVorbis (and, line for line, of streamMP3) in     *)
(* src/server/distributor.go against any number of audioHandlers in        *)
(* src/server/httpHandler.go.                                              *)
(*                                                                         *)
(* There are two registration channels, used for alternate chunks.  A      *)
(* listener puts its own chunk channel into both when it connects.  To     *)
(* send a chunk the encoder takes chunk channels out of the current        *)
(* registration channel until it is empty and as many sends were made as   *)
(* there are subscribers; a listener that has got a chunk registers again, *)
(* in the other one, for the next chunk.  Nothing but these counts keeps   *)
(* the listeners in step.                                                  *)
(***************************************************************************)
EXTENDS Integers, Sequences, SequencesExt, FiniteSets

CONSTANTS Listener,   \* connections to /audio: each connects once
          Leaver,     \* those whose client may go away
          Capacity,   \* capacity of a registration channel (500)
          MaxChunk    \* bound: chunks the encoder produces

ASSUME DistributorAssumption ==
    /\ Leaver \subseteq Listener
    /\ Capacity \in Nat \ {0}
    /\ MaxChunk \in Nat

VARIABLES current,      \* currentVorbisChannel
          registered,   \* vorbisChannel: listeners queued in each
          subscribers,  \* *vorbisSubscribers
          chunkID,      \* *vorbisChunkID, the id of the last chunk made
          encoder,      \* where the encoder's goroutine is
          sent,         \* sends of the current chunk
          pc,           \* where each audioHandler is
          channel,      \* each listener's own channel of chunks
          next,         \* the registration channel named in the chunk in hand
          lastID        \* chunkID of each audioHandler; NoChunk before the first

encoderVars  == <<current, chunkID, encoder, sent>>
listenerVars == <<pc, next, lastID>>
vars == <<registered, subscribers, channel, encoderVars, listenerVars>>

NoChunk == -1

Chunk == [id : 1 .. MaxChunk, next : {0, 1}]

TypeOK ==
    /\ current \in {0, 1}
    /\ registered \in [{0, 1} -> Seq(Listener)]
    /\ subscribers \in Nat
    /\ chunkID \in 0 .. MaxChunk
    /\ encoder \in {"produce", "pending", "counted", "receive"}
    /\ sent \in Nat
    /\ pc \in [Listener -> {"new", "report", "register0", "register1", "select",
                            "register", "write", "leaving", "drained", "gone"}]
    /\ channel \in [Listener -> Seq(Chunk)]
    /\ next \in [Listener -> {0, 1}]
    /\ lastID \in [Listener -> 1 .. MaxChunk \cup {NoChunk}]

Init ==
    /\ current = 0
    /\ registered = [i \in {0, 1} |-> <<>>]
    /\ subscribers = 0
    /\ chunkID = 0
    /\ encoder = "produce"
    /\ sent = 0
    /\ pc = [l \in Listener |-> "new"]
    /\ channel = [l \in Listener |-> <<>>]
    /\ next = [l \in Listener |-> 0]
    /\ lastID = [l \in Listener |-> NoChunk]

-----------------------------------------------------------------------------
(* The encoder. *)

Other(i) == (i + 1) % 2

\* Encode returned n > 0 bytes: a chunk with the next id.
Produce ==
    /\ encoder = "produce"
    /\ chunkID < MaxChunk
    /\ chunkID' = chunkID + 1
    /\ sent' = 0
    /\ encoder' = "pending"
    /\ UNCHANGED <<current, registered, subscribers, channel, listenerVars>>

\* The loop's condition, first half: len(vorbisChannel[current]) > 0.
CheckPending ==
    /\ encoder = "pending"
    /\ encoder' = IF registered[current] # <<>> THEN "receive" ELSE "counted"
    /\ UNCHANGED <<current, chunkID, sent, registered, subscribers, channel, listenerVars>>

\* Second half, a moment later: sent < *vorbisSubscribers.
CheckCount ==
    /\ encoder = "counted"
    /\ sent < subscribers
    /\ encoder' = "receive"
    /\ UNCHANGED <<current, chunkID, sent, registered, subscribers, channel, listenerVars>>

\* Variants of Advance: the channel number is not taken modulo 2; the loop does not
\* count its sends.
AdvanceUnwrapped ==
    /\ encoder = "counted"
    /\ sent >= subscribers
    /\ current' = current + 1
    /\ encoder' = "produce"
    /\ UNCHANGED <<chunkID, sent, registered, subscribers, channel, listenerVars>>

AdvanceUncounted ==
    /\ encoder = "counted"
    /\ current' = Other(current)
    /\ encoder' = "produce"
    /\ UNCHANGED <<chunkID, sent, registered, subscribers, channel, listenerVars>>

\* The loop is over and the registration channels change places.
Advance ==
    /\ encoder = "counted"
    /\ sent >= subscribers
    /\ current' = Other(current)
    /\ encoder' = "produce"
    /\ UNCHANGED <<chunkID, sent, registered, subscribers, channel, listenerVars>>

\* Variant of Send: the chunk names the channel it was sent from.
SendSameChannel ==
    /\ encoder = "receive"
    /\ registered[current] # <<>>
    /\ LET l == Head(registered[current]) IN
         channel' = [channel EXCEPT ![l] = Append(@, [id |-> chunkID, next |-> current])]
    /\ registered' = [registered EXCEPT ![current] = Tail(@)]
    /\ sent' = sent + 1
    /\ encoder' = "pending"
    /\ UNCHANGED <<current, chunkID, subscribers, listenerVars>>

\* c := <-vorbisChannel[current], which blocks while it is empty; c <- Chunk,
\* which does not block (ChannelNeverFull); sent++.
Send ==
    /\ encoder = "receive"
    /\ registered[current] # <<>>
    /\ LET l == Head(registered[current]) IN
         channel' = [channel EXCEPT ![l] = Append(@, [id |-> chunkID, next |-> Other(current)])]
    /\ registered' = [registered EXCEPT ![current] = Tail(@)]
    /\ sent' = sent + 1
    /\ encoder' = "pending"
    /\ UNCHANGED <<current, chunkID, subscribers, listenerVars>>

Encode == Produce \/ CheckPending \/ CheckCount \/ Advance \/ Send

-----------------------------------------------------------------------------
(* A listener's audioHandler. *)

Move(l, from, to) ==
    /\ pc[l] = from
    /\ pc' = [pc EXCEPT ![l] = to]

\* bufferChannel[i] <- channel, which blocks while that channel is full.
Register(l, i) ==
    /\ Len(registered[i]) < Capacity
    /\ registered' = [registered EXCEPT ![i] = Append(@, l)]

\* atomic.AddInt64(s.vorbisSubscribers, 1): from here on the encoder waits for it ...
Subscribe(l) ==
    /\ Move(l, "new", "report")
    /\ subscribers' = subscribers + 1
    /\ UNCHANGED <<encoderVars, registered, channel, next, lastID>>

\* ... although it first reports itself: s.newListenerC <- 1 may block, for ever too
\* (module Playback).
Report(l) ==
    /\ Move(l, "report", "register0")
    /\ UNCHANGED <<encoderVars, registered, subscribers, channel, next, lastID>>

RegisterFirst(l) ==
    /\ Move(l, "register0", "register1")
    /\ Register(l, 0)
    /\ UNCHANGED <<encoderVars, subscribers, channel, next, lastID>>

RegisterSecond(l) ==
    /\ Move(l, "register1", "select")
    /\ Register(l, 1)
    /\ UNCHANGED <<encoderVars, subscribers, channel, next, lastID>>

\* case Chunk := <-channel.  The first chunk is not followed by a new
\* registration: the one in the other channel is still there.
Receive(l) ==
    /\ channel[l] # <<>>
    /\ Move(l, "select", IF lastID[l] = NoChunk THEN "write" ELSE "register")
    /\ next' = [next EXCEPT ![l] = Head(channel[l]).next]
    /\ lastID' = [lastID EXCEPT ![l] = Head(channel[l]).id]
    /\ channel' = [channel EXCEPT ![l] = Tail(@)]
    /\ UNCHANGED <<encoderVars, registered, subscribers>>

\* Variant of RegisterAgain: as on connection, it registers in both channels.
RegisterAgainInBoth(l) ==
    /\ Move(l, "register", "write")
    /\ \A i \in {0, 1} : Len(registered[i]) < Capacity
    /\ registered' = [i \in {0, 1} |-> Append(registered[i], l)]
    /\ UNCHANGED <<encoderVars, subscribers, channel, next, lastID>>

RegisterAgain(l) ==
    /\ Move(l, "register", "write")
    /\ Register(l, next[l])
    /\ UNCHANGED <<encoderVars, subscribers, channel, next, lastID>>

WriteChunk(l) ==
    /\ Move(l, "write", "select")
    /\ UNCHANGED <<encoderVars, registered, subscribers, channel, next, lastID>>

\* case <-notify or <-audioDisconnect, or w.Write fails.
Leave(l) ==
    /\ l \in Leaver
    /\ Move(l, "select", "leaving") \/ Move(l, "write", "leaving")
    /\ UNCHANGED <<encoderVars, registered, subscribers, channel, next, lastID>>

\* The deferred <-channel: one more chunk is taken, and waited for if need be.
DrainOne(l) ==
    /\ channel[l] # <<>>
    /\ Move(l, "leaving", "drained")
    /\ channel' = [channel EXCEPT ![l] = Tail(@)]
    /\ UNCHANGED <<encoderVars, registered, subscribers, next, lastID>>

Unsubscribe(l) ==
    /\ Move(l, "drained", "gone")
    /\ subscribers' = subscribers - 1
    /\ UNCHANGED <<encoderVars, registered, channel, next, lastID>>

\* What an audioHandler does once it runs; its client's wish to connect or to
\* go away is not part of it, nor is its report, which is up to others.
Handle(l) ==
    \/ RegisterFirst(l) \/ RegisterSecond(l)
    \/ Receive(l) \/ RegisterAgain(l) \/ WriteChunk(l)
    \/ DrainOne(l) \/ Unsubscribe(l)

Next ==
    \/ Encode
    \/ \E l \in Listener : Subscribe(l) \/ Report(l) \/ Handle(l) \/ Leave(l)

Spec == Init /\ [][Next]_vars

\* Goroutines that can run do; in particular a client that stays keeps reading,
\* so that w.Write returns (an audioHandler blocked in Write stops the encoder
\* and with it everybody).
Fairness ==
    /\ WF_vars(Encode)
    /\ \A l \in Listener : WF_vars(Handle(l))

FairSpec == Spec /\ Fairness

-----------------------------------------------------------------------------
(* Properties. *)

\* c <- Chunk in the send loop runs with nobody else to serve the listeners; it
\* never blocks, because a listener's channel (capacity 500) never holds more
\* than two chunks, whoever leaves and whatever registrations are left behind.
ChannelNeverFull == \A l \in Listener : Len(channel[l]) <= 2

\* A listener is queued at most once in each registration channel, so that with
\* no more listeners than a channel's capacity nobody blocks registering, and no
\* chunk is sent to a listener twice.
RegisteredOnce ==
    \A i \in {0, 1} : \A j, k \in DOMAIN registered[i] :
        registered[i][j] = registered[i][k] => j = k

\* Nobody waits for room in a channel, however listeners come and go.
ChannelsSuffice == ChannelNeverFull /\ RegisteredOnce

NobodyLeft == \A l \in Leaver : pc[l] \notin {"leaving", "drained", "gone"}

\* The warning of audioHandler, "chunks ... were unexpectedly dropped", is
\* not printed before the first listener leaves: a listener receives consecutive
\* chunks.  (A registration that a leaver leaves behind counts as a send, and the
\* encoder may then go on without a listener that is late to register.)
NoChunkDropped ==
    [][NobodyLeft' =>
         \A l \in Listener :
           lastID[l] # NoChunk => lastID'[l] \in {lastID[l], lastID[l] + 1}]_vars

\* Every listener's report of itself goes through newListenerC.
ReportsGoThrough == \A l \in Listener : []<>(pc[l] # "report")

\* While nobody leaves, no report of a listener blocks for ever, and the
\* registration channels have room for all, the encoder gets every chunk out to all
\* listeners and returns for the next one.
ChunkGetsOutToStayers ==
    Cardinality(Listener) <= Capacity /\ ReportsGoThrough =>
        (encoder # "produce" ~> encoder = "produce" \/ ~NobodyLeft)

\* "When multiple clients are connected ..., they will play the same track at
\* almost identical position": wherever reports go through, the encoder gets every
\* chunk out to all listeners and returns for the next one.
ChunkGetsOut == ReportsGoThrough => (encoder # "produce" ~> encoder = "produce")
=============================================================================
