------------------------------ MODULE Requests ------------------------------
(***************************************************************************)
(* Requests of clients: handleMessage with its filter of nonces, and the   *)
(* handlers enqueue and removeTrack; the others change nothing here.       *)
(* Messages come over web sockets, one after the other, or one by one over *)
(* HTTP, and those of different connections are handled at the same time.  *)
(*                                                                         *)
(* The filter is shared by all connections: a nonce that was seen once is  *)
(* never carried out again, nor answered.                                  *)
(*                                                                         *)
(* What becomes of a removal when a track is popped at the same time is    *)
(* the subject of module TrackQueue.                                       *)
(***************************************************************************)
EXTENDS Sources, FiniteSets

CONSTANTS Socket, Http,  \* connections: web sockets; HTTP requests
          Nonce,         \* nonces that clients choose, none of them 0
          NoMessage,     \* nothing has been read yet
          MaxSent        \* bound: messages of one web socket

NoNonce  == 0
Conn     == Socket \cup Http
Selector == {0, 1}

VARIABLES sources,         \* s.sources, fixed by NewServer
          processedNonce,  \* nonces that were stored
          playQueue,       \* tracks to be played
          made,            \* tracks made so far
          stage,           \* where each connection's goroutine is
          msg,             \* the message it has read
          track,           \* the track it has found
          received,        \* messages it has read
          late,            \* was the nonce carried out before msg was read?
          carried,         \* nonces of messages whose handler has begun
          again,           \* those among them that were late
          silent,          \* nonces of messages answered with nothing
          removed          \* removals: the track meant and the track taken

history == <<carried, again, silent, removed>>
requestsVars ==
    <<sources, processedNonce, playQueue, made, stage, msg, track, late, received, history>>

Nonces == Nonce \cup {NoNonce}
NoTrack == Made(0, NoPlayID)

EnqueueMessage == [op : {"enqueue"}, nonce : Nonces, query : Query, selector : Selector]
RemoveMessage  == [op : {"remove"}, nonce : Nonces, track : Track]
OtherMessage   == [op : {"show", "unknown"}, nonce : Nonces]
Message        == EnqueueMessage \cup RemoveMessage \cup OtherMessage

RequestsTypeOK ==
    /\ sources \in Seq(Source) /\ sources # <<>>
    /\ processedNonce \subseteq Nonce
    /\ playQueue \in Seq(Track)
    /\ made \in Nat
    /\ stage \in [Conn -> {"idle", "read", "new", "handle", "found", "push", "closed"}]
    /\ msg \in [Conn -> Message \cup {NoMessage}]
    /\ \A c \in Conn : stage[c] \in {"read", "new", "handle"} => msg[c] \in Message
    /\ \A c \in Conn : stage[c] \in {"found", "push"} => msg[c] \in EnqueueMessage /\ track[c] \in Track
    /\ track \in [Conn -> Track \cup {NoTrack}]
    /\ received \in [Conn -> Nat]
    /\ late \in [Conn -> BOOLEAN]
    /\ carried \subseteq Nonce /\ again \subseteq Nonce /\ silent \subseteq Nonce
    /\ removed \subseteq [meant : Track, taken : Track]

\* NewServer has loaded the plugins that can be loaded, sorted by their files'
\* names; without any it panics.
RequestsInit ==
    /\ \E plugins \in {<<CSN>>, <<YouTube>>, <<CSN, YouTube>>} :
         \E default \in Source : sources = LoadPlugins(plugins, default)
    /\ processedNonce = {}
    /\ playQueue = <<>> /\ made = 0
    /\ stage = [c \in Conn |-> "idle"]
    /\ msg = [c \in Conn |-> NoMessage]
    /\ track = [c \in Conn |-> NoTrack]
    /\ received = [c \in Conn |-> 0]
    /\ late = [c \in Conn |-> FALSE]
    /\ carried = {} /\ again = {} /\ silent = {} /\ removed = {}

Goto(c, from, to) == stage[c] = from /\ stage' = [stage EXCEPT ![c] = to]

inHand == <<msg, track, late>>

Return(c, from, to) ==
    /\ Goto(c, from, to)
    /\ msg' = [msg EXCEPT ![c] = NoMessage]
    /\ track' = [track EXCEPT ![c] = NoTrack]
    /\ late' = [late EXCEPT ![c] = FALSE]

\* The answer is written.  A web socket can read its next message.
Answer(c, from) == Return(c, from, IF c \in Socket THEN "idle" ELSE "closed")

\* A handler has panicked.  (Deferred functions close the connection.)
Panic(c, from) == Return(c, from, "closed")

-----------------------------------------------------------------------------
(* The connections. *)

MayRead(c) == received[c] < IF c \in Socket THEN MaxSent ELSE 1

\* What a client can ask: it removes tracks that it was shown.  The HTTP requests
\* without a body have no nonce; one with a body holds any message.
Asked ==
    EnqueueMessage \cup OtherMessage
      \cup [op : {"remove"}, nonce : Nonces, track : ToSet(playQueue)]

ReadMessage(c) ==
    /\ MayRead(c)
    /\ Goto(c, "idle", "read")
    /\ \E m \in Asked :
         /\ msg' = [msg EXCEPT ![c] = m]
         /\ late' = [late EXCEPT ![c] = m.nonce \in carried]
    /\ received' = [received EXCEPT ![c] = @ + 1]
    /\ UNCHANGED <<sources, processedNonce, playQueue, made, track, history>>

\* The client goes away, or sends what is no message (over HTTP: 400).
Close(c) ==
    /\ Goto(c, "idle", "closed")
    /\ UNCHANGED <<sources, processedNonce, playQueue, made, inHand, received, history>>

-----------------------------------------------------------------------------
(* handleMessage. *)

nonceRest == <<sources, playQueue, made, received, carried, again, removed>>

\* checkNonce ...
CheckNonce(c) ==
    /\ stage[c] = "read"
    /\ LET n == msg[c].nonce IN
         \/ /\ n \in processedNonce
            /\ Answer(c, "read")
            /\ silent' = silent \cup {n}
         \/ /\ n \notin processedNonce
            /\ Goto(c, "read", IF n = NoNonce THEN "handle" ELSE "new")
            /\ UNCHANGED <<silent, inHand>>
    /\ UNCHANGED <<processedNonce, nonceRest>>

\* Variant of ProcessNonce: the nonce is not stored.
ProcessNonceForgotten(c) ==
    /\ Goto(c, "new", "handle")
    /\ UNCHANGED <<processedNonce, inHand, silent, nonceRest>>

\* ... and processNonce are two accesses to the map.
ProcessNonce(c) ==
    /\ Goto(c, "new", "handle")
    /\ processedNonce' = processedNonce \cup {msg[c].nonce}
    /\ UNCHANGED <<inHand, silent, nonceRest>>

\* The handler of an operation begins.
Begin(c, op) ==
    /\ stage[c] = "handle"
    /\ msg[c].op \in op
    /\ LET n == {msg[c].nonce} \ {NoNonce} IN
         /\ carried' = carried \cup n
         /\ again' = IF late[c] THEN again \cup n ELSE again
    /\ UNCHANGED <<sources, processedNonce, silent, received>>

\* Listing sources, queue, listeners or the track played, a keep-alive, a skip,
\* or no such operation.  (getPlaying panics before the first setTrack.)
Show(c) ==
    /\ Begin(c, {"show", "unknown"})
    /\ Answer(c, "handle") \/ Panic(c, "handle")
    /\ UNCHANGED <<playQueue, made, removed>>

-----------------------------------------------------------------------------
(* enqueue. *)

Refused(m) == m.query = "" \/ m.selector >= Len(sources)

SourceOf(c) == sources[msg[c].selector + 1]

\* "Invalid Query!", "Invalid source!", "Search Failed!", "No Result!".
EnqueueFails(c) ==
    /\ Begin(c, {"enqueue"})
    /\ ~Refused(msg[c]) =>
         \E found \in Search(SourceOf(c), msg[c].query, made) : found.tracks = <<>>
    /\ Answer(c, "handle")
    /\ UNCHANGED <<playQueue, made, removed>>

\* The first track that was found.
SearchFinds(c) ==
    /\ Begin(c, {"enqueue"})
    /\ ~Refused(msg[c])
    /\ Goto(c, "handle", "found")
    /\ \E found \in Search(SourceOf(c), msg[c].query, made) :
         /\ found.tracks # <<>>
         /\ track' = [track EXCEPT ![c] = found.tracks[1]]
         /\ made' = made + Len(found.tracks)
    /\ UNCHANGED <<playQueue, msg, late, removed>>

enqueueRest == <<sources, processedNonce, made, received, history>>

\* The source is asked for what it takes to download the track, or fails.
Populate(c) ==
    /\ \/ Answer(c, "found")
       \/ Goto(c, "found", "push") /\ UNCHANGED inHand
    /\ UNCHANGED <<playQueue, enqueueRest>>

Push(c) ==
    /\ Answer(c, "push")
    /\ playQueue' = Append(playQueue, track[c])
    /\ UNCHANGED enqueueRest

-----------------------------------------------------------------------------
(* removeTrack: the first track with the PlayID that the client was shown. *)

Named(m) == {i \in DOMAIN playQueue : playQueue[i].playID = m.track.playID}

RemoveFails(c) ==
    /\ Begin(c, {"remove"})
    /\ Named(msg[c]) = {}
    /\ Answer(c, "handle")
    /\ UNCHANGED <<playQueue, made, removed>>

\* (For the panic see RemovePanic of module TrackQueue.)
RemoveTrack(c) ==
    /\ Begin(c, {"remove"})
    /\ \E i \in Named(msg[c]) :
         /\ \A j \in Named(msg[c]) : i <= j
         /\ playQueue' = RemoveAt(playQueue, i)
         /\ removed' = removed \cup {[meant |-> msg[c].track, taken |-> playQueue[i]]}
    /\ Answer(c, "handle") \/ Panic(c, "handle")
    /\ UNCHANGED made

\* processTrack takes the next track.
Play ==
    /\ playQueue # <<>>
    /\ playQueue' = Tail(playQueue)
    /\ UNCHANGED <<sources, processedNonce, made, stage, inHand, received, history>>

-----------------------------------------------------------------------------
HandleMessage(c) ==
    \/ CheckNonce(c) \/ ProcessNonce(c) \/ Show(c)
    \/ EnqueueFails(c) \/ SearchFinds(c) \/ Populate(c) \/ Push(c)
    \/ RemoveFails(c) \/ RemoveTrack(c)

RequestsNext ==
    \/ Play
    \/ \E c \in Conn : ReadMessage(c) \/ Close(c) \/ HandleMessage(c)

RequestsSpec == RequestsInit /\ [][RequestsNext]_requestsVars

-----------------------------------------------------------------------------
(* Properties. *)

\* "set the nonce ... to find the response and prevent duplication of action".
\* A message that comes when one with its nonce has begun to be carried out,
\* on any connection, is not carried out: a web socket that sends a message
\* twice has it done once.  And silence always means that: a message that is
\* answered with nothing has a nonce that is, or is about to be, carried out
\* for another one.  (Two copies that come at the same time may both be done.)
NoncesWork ==
    /\ again = {}
    /\ \A n \in silent : n \in carried \/ \E c \in Conn : stage[c] = "handle" /\ msg[c].nonce = n

\* "The playID field should be used to distinguish between tracks": whatever was
\* queued, removed or played since the client was shown the track, no other one
\* is taken for it; unless the track has no PlayID.
RemovesTheTrackMeant ==
    \A r \in removed : r.meant.playID # NoPlayID => r.taken.number = r.meant.number

\* "PlayID returns a random string which is unique to this instance of Track":
\* so it is with all tracks.
RemovesNoOtherTrack == \A r \in removed : r.taken.number = r.meant.number
=============================================================================
