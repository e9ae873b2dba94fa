--------------------------- MODULE RequestsProofs ---------------------------
(***************************************************************************)
(* Proofs about requests, for any sets of connections and nonces and any   *)
(* number of messages: the filter of nonces works, and a track that has a  *)
(* PlayID is never removed in the place of another.                        *)
(***************************************************************************)
EXTENDS Requests, TLAPS

\* Tracks whose PlayID, if they have one, is their own.
OwnTrack == {t \in Track : t.playID \in {NoPlayID, t.number}}

OwnMessage == EnqueueMessage \cup OtherMessage
                \cup [op : {"remove"}, nonce : Nonces, track : OwnTrack]

Stage == {"idle", "read", "new", "handle", "found", "push", "closed"}

\* What goes about between connections and the queue.
TracksAreOwn ==
    /\ made \in Nat
    /\ playQueue \in Seq(OwnTrack)
    /\ stage \in [Conn -> Stage]
    /\ msg \in [Conn -> OwnMessage \cup {NoMessage}]
    /\ \A c \in Conn : stage[c] \in {"read", "new", "handle"} => msg[c] \in OwnMessage
    /\ track \in [Conn -> OwnTrack \cup {NoTrack}]
    /\ \A c \in Conn : stage[c] \in {"found", "push"} => track[c] \in OwnTrack

\* A removal takes a track with the PlayID that was meant.
SamePlayID ==
    \A r \in removed :
        r.meant \in OwnTrack /\ r.taken \in OwnTrack /\ r.meant.playID = r.taken.playID

\* The filter: what a connection does with a nonce, when.
Filtered ==
    /\ again = {}
    /\ late \in [Conn -> BOOLEAN]
    /\ silent \subseteq processedNonce /\ carried \subseteq processedNonce
    /\ NoNonce \notin processedNonce
    /\ \A c \in Conn :
         /\ late[c] => stage[c] = "read" /\ msg[c].nonce \in carried
         /\ stage[c] = "new" => msg[c].nonce # NoNonce
         /\ stage[c] = "handle" => msg[c].nonce \in processedNonce \cup {NoNonce}
    /\ \A n \in processedNonce :
         n \in carried \/ \E c \in Conn : stage[c] = "handle" /\ msg[c].nonce = n

-----------------------------------------------------------------------------
\* Taking one element out of a sequence leaves a sequence.
LEMMA RemoveAtIsSeq ==
  ASSUME NEW S, NEW s \in Seq(S), NEW i \in DOMAIN s
  PROVE  RemoveAt(s, i) \in Seq(S)
  BY DEF RemoveAt

\* Whatever a search finds is its own.
LEMMA SearchFindsOwn ==
  ASSUME NEW source, NEW query, NEW n \in Nat,
         NEW found \in Search(source, query, n), found.tracks # <<>>
  PROVE  found.tracks[1] \in OwnTrack /\ Len(found.tracks) \in Nat
<1>1. \A max : \A ts \in Rows(n, max) : ts # <<>> => ts[1] \in OwnTrack /\ Len(ts) \in Nat
  BY DEF Rows, Made, OwnTrack, Track
<1>2. Made(n + 1, NoPlayID) \in OwnTrack /\ Made(n + 1, n + 1) \in OwnTrack
  BY DEF Made, OwnTrack, Track, NoPlayID
<1>3. \A t \in GetTrackFromURL(query, n) \cup GetTrackFromVideoID(query, n) : t \in OwnTrack
  BY <1>2 DEF GetTrackFromURL, GetTrackFromVideoID
<1> QED BY <1>1, <1>3 DEF Search, SearchCSN, SearchYouTube, Found, Failed

LEMMA TracksInit == RequestsInit => TracksAreOwn /\ SamePlayID
  BY DEF RequestsInit, TracksAreOwn, SamePlayID, Stage

\* A connection that is done with its message.
LEMMA ReturnKeeps ==
  ASSUME TracksAreOwn, NEW c \in Conn, NEW from, NEW to \in {"idle", "closed"}, Return(c, from, to)
  PROVE  /\ stage' \in [Conn -> Stage]
         /\ msg' \in [Conn -> OwnMessage \cup {NoMessage}]
         /\ \A d \in Conn : stage'[d] \in {"read", "new", "handle"} => msg'[d] \in OwnMessage
         /\ track' \in [Conn -> OwnTrack \cup {NoTrack}]
         /\ \A d \in Conn : stage'[d] \in {"found", "push"} => track'[d] \in OwnTrack
  BY DEF TracksAreOwn, Return, Goto, Stage

LEMMA AnswerKeeps ==
  ASSUME TracksAreOwn, NEW c \in Conn, NEW from, Answer(c, from) \/ Panic(c, from)
  PROVE  /\ stage' \in [Conn -> Stage]
         /\ msg' \in [Conn -> OwnMessage \cup {NoMessage}]
         /\ \A d \in Conn : stage'[d] \in {"read", "new", "handle"} => msg'[d] \in OwnMessage
         /\ track' \in [Conn -> OwnTrack \cup {NoTrack}]
         /\ \A d \in Conn : stage'[d] \in {"found", "push"} => track'[d] \in OwnTrack
  BY ReturnKeeps DEF Answer, Panic

LEMMA TracksNext ==
  ASSUME TracksAreOwn, SamePlayID, [RequestsNext]_requestsVars
  PROVE  TracksAreOwn' /\ SamePlayID'
<1> USE DEF TracksAreOwn
<1>1. CASE Play
  <2>1. playQueue' \in Seq(OwnTrack) /\ UNCHANGED <<made, stage, msg, track, removed>>
    BY <1>1 DEF Play, inHand, history
  <2> QED BY <2>1 DEF SamePlayID
<1>2. ASSUME NEW c \in Conn, ReadMessage(c) PROVE TracksAreOwn' /\ SamePlayID'
  <2>1. PICK m \in Asked : msg' = [msg EXCEPT ![c] = m]
    BY <1>2 DEF ReadMessage
  <2>2. ToSet(playQueue) \subseteq OwnTrack
    BY DEF ToSet
  <2>3. m \in OwnMessage
    BY <2>1, <2>2 DEF Asked, OwnMessage
  <2>4. stage[c] = "idle" /\ stage' = [stage EXCEPT ![c] = "read"]
        /\ UNCHANGED <<made, playQueue, track, removed>>
    BY <1>2 DEF ReadMessage, Goto, history
  <2> QED BY <2>1, <2>3, <2>4 DEF Stage, SamePlayID
<1>3. ASSUME NEW c \in Conn, Close(c) PROVE TracksAreOwn' /\ SamePlayID'
  <2>1. stage' = [stage EXCEPT ![c] = "closed"] /\ UNCHANGED <<made, playQueue, msg, track, removed>>
    BY <1>3 DEF Close, Goto, inHand, history
  <2> QED BY <2>1 DEF Stage, SamePlayID
<1>4. ASSUME NEW c \in Conn, CheckNonce(c) PROVE TracksAreOwn' /\ SamePlayID'
  <2>1. UNCHANGED <<made, playQueue, removed>>
    BY <1>4 DEF CheckNonce, nonceRest
  <2>2. CASE Answer(c, "read")
    BY <2>1, <2>2, AnswerKeeps DEF SamePlayID
  <2>3. CASE /\ stage[c] = "read" /\ UNCHANGED inHand
             /\ Goto(c, "read", IF msg[c].nonce = NoNonce THEN "handle" ELSE "new")
    BY <2>1, <2>3 DEF Goto, inHand, Stage, SamePlayID
  <2> QED BY <1>4, <2>2, <2>3 DEF CheckNonce
<1>5. ASSUME NEW c \in Conn, ProcessNonce(c) PROVE TracksAreOwn' /\ SamePlayID'
  <2>1. Goto(c, "new", "handle") /\ UNCHANGED <<made, playQueue, msg, track, removed>>
    BY <1>5 DEF ProcessNonce, inHand, nonceRest
  <2> QED BY <2>1 DEF Goto, Stage, SamePlayID
<1>6. ASSUME NEW c \in Conn, Show(c) \/ EnqueueFails(c) \/ RemoveFails(c)
      PROVE  TracksAreOwn' /\ SamePlayID'
  <2>1. Answer(c, "handle") \/ Panic(c, "handle")
    BY <1>6 DEF Show, EnqueueFails, RemoveFails
  <2>2. UNCHANGED <<made, playQueue, removed>>
    BY <1>6 DEF Show, EnqueueFails, RemoveFails
  <2> QED BY <2>1, <2>2, AnswerKeeps DEF SamePlayID
<1>7. ASSUME NEW c \in Conn, SearchFinds(c) PROVE TracksAreOwn' /\ SamePlayID'
  <2>1. PICK found \in Search(SourceOf(c), msg[c].query, made) :
           /\ found.tracks # <<>>
           /\ track' = [track EXCEPT ![c] = found.tracks[1]]
           /\ made' = made + Len(found.tracks)
    BY <1>7 DEF SearchFinds
  <2>2. found.tracks[1] \in OwnTrack /\ Len(found.tracks) \in Nat
    BY <2>1, SearchFindsOwn
  <2>3. Goto(c, "handle", "found") /\ UNCHANGED <<playQueue, msg, removed>>
    BY <1>7 DEF SearchFinds
  <2>4. made' \in Nat
    BY <2>1, <2>2
  <2> QED BY <2>1, <2>2, <2>3, <2>4 DEF Goto, Stage, SamePlayID
<1>8. ASSUME NEW c \in Conn, Populate(c) PROVE TracksAreOwn' /\ SamePlayID'
  <2>1. UNCHANGED <<made, playQueue, removed>>
    BY <1>8 DEF Populate, enqueueRest, history
  <2>2. CASE Answer(c, "found")
    BY <2>1, <2>2, AnswerKeeps DEF SamePlayID
  <2>3. CASE Goto(c, "found", "push") /\ UNCHANGED inHand
    BY <2>1, <2>3 DEF Goto, inHand, Stage, SamePlayID
  <2> QED BY <1>8, <2>2, <2>3 DEF Populate
<1>9. ASSUME NEW c \in Conn, Push(c) PROVE TracksAreOwn' /\ SamePlayID'
  <2>1. Answer(c, "push") /\ UNCHANGED <<made, removed>>
    BY <1>9 DEF Push, enqueueRest, history
  <2>2. track[c] \in OwnTrack
    BY <2>1 DEF Answer, Return, Goto
  <2>3. playQueue' \in Seq(OwnTrack)
    BY <1>9, <2>2 DEF Push
  <2> QED BY <2>1, <2>3, AnswerKeeps DEF SamePlayID
<1>10. ASSUME NEW c \in Conn, RemoveTrack(c) PROVE TracksAreOwn' /\ SamePlayID'
  <2>1. PICK i \in Named(msg[c]) :
           /\ playQueue' = RemoveAt(playQueue, i)
           /\ removed' = removed \cup {[meant |-> msg[c].track, taken |-> playQueue[i]]}
    BY <1>10 DEF RemoveTrack
  <2>2. Answer(c, "handle") \/ Panic(c, "handle")
    BY <1>10 DEF RemoveTrack
  <2>3. msg[c] \in OwnMessage /\ msg[c].op = "remove" /\ made' = made
    BY <1>10 DEF RemoveTrack, Begin
  <2>4. msg[c].track \in OwnTrack
    BY <2>3 DEF OwnMessage, EnqueueMessage, OtherMessage
  <2>5. i \in DOMAIN playQueue /\ playQueue[i].playID = msg[c].track.playID
    BY DEF Named
  <2>6. playQueue' \in Seq(OwnTrack) /\ playQueue[i] \in OwnTrack
    BY <2>1, <2>5, RemoveAtIsSeq
  <2>7. SamePlayID'
    BY <2>1, <2>4, <2>5, <2>6 DEF SamePlayID
  <2> QED BY <2>2, <2>3, <2>6, <2>7, AnswerKeeps
<1>11. CASE UNCHANGED requestsVars
  BY <1>11 DEF requestsVars, history, SamePlayID
<1> QED
  BY <1>1, <1>2, <1>3, <1>4, <1>5, <1>6, <1>7, <1>8, <1>9, <1>10, <1>11 DEF RequestsNext, HandleMessage

\* Whatever is queued, played or removed in between, a client's removal takes the
\* track that the client was shown, if that has a PlayID.
THEOREM TheTrackMeantIsRemoved == RequestsSpec => []RemovesTheTrackMeant
<1> DEFINE Inv == TracksAreOwn /\ SamePlayID
<1>1. RequestsInit => Inv
  BY TracksInit
<1>2. Inv /\ [RequestsNext]_requestsVars => Inv'
  BY TracksNext
<1>3. Inv => RemovesTheTrackMeant
  BY DEF SamePlayID, RemovesTheTrackMeant, OwnTrack
<1> QED BY <1>1, <1>2, <1>3, PTL DEF RequestsSpec

-----------------------------------------------------------------------------
LEMMA FilterInit == RequestsInit => Filtered
  BY DEF RequestsInit, Filtered

\* A connection that is done with its message holds no nonce any more.
LEMMA DoneIsNotLate ==
  ASSUME NEW c \in Conn, NEW from, Answer(c, from) \/ Panic(c, from), TracksAreOwn, Filtered
  PROVE  /\ late' \in [Conn -> BOOLEAN] /\ late'[c] = FALSE
         /\ stage[c] = from /\ stage'[c] \in {"idle", "closed"}
         /\ \A d \in Conn \ {c} : late'[d] = late[d] /\ stage'[d] = stage[d] /\ msg'[d] = msg[d]
<1>1. PICK to \in {"idle", "closed"} : Return(c, from, to)
  BY DEF Answer, Panic
<1>2. /\ stage \in [Conn -> Stage] /\ stage[c] = from /\ stage' = [stage EXCEPT ![c] = to]
      /\ msg \in [Conn -> OwnMessage \cup {NoMessage}] /\ msg' = [msg EXCEPT ![c] = NoMessage]
  BY <1>1 DEF Return, Goto, TracksAreOwn
<1>3. late \in [Conn -> BOOLEAN] /\ late' = [late EXCEPT ![c] = FALSE]
  BY <1>1 DEF Return, Filtered
<1>4. late' \in [Conn -> BOOLEAN] /\ late'[c] = FALSE /\ \A d \in Conn \ {c} : late'[d] = late[d]
  BY <1>3, Zenon
<1>5. stage[c] = from /\ stage'[c] \in {"idle", "closed"}
      /\ \A d \in Conn \ {c} : stage'[d] = stage[d] /\ msg'[d] = msg[d]
  BY <1>2
<1> QED BY <1>4, <1>5

\* A handler begins, and its nonce is carried out.  No late message gets so far.
LEMMA HandleKeeps ==
  ASSUME TracksAreOwn, Filtered, NEW c \in Conn, NEW op, Begin(c, op),
         late' \in [Conn -> BOOLEAN], late'[c] = FALSE, stage'[c] # "handle", stage'[c] # "new",
         \A d \in Conn \ {c} : late'[d] = late[d] /\ stage'[d] = stage[d] /\ msg'[d] = msg[d]
  PROVE  Filtered'
<1>1. stage[c] = "handle" /\ UNCHANGED <<processedNonce, silent>>
  BY DEF Begin
<1>2. again' = again
  BY <1>1 DEF Begin, Filtered
<1>3. carried' = carried \cup ({msg[c].nonce} \ {NoNonce})
  BY DEF Begin
<1>4. \A n \in processedNonce' :
         n \in carried' \/ \E d \in Conn : stage'[d] = "handle" /\ msg'[d].nonce = n
  <2> SUFFICES ASSUME NEW n \in processedNonce, n \notin carried'
               PROVE  \E d \in Conn : stage'[d] = "handle" /\ msg'[d].nonce = n
    BY <1>1
  <2>1. PICK d \in Conn : stage[d] = "handle" /\ msg[d].nonce = n
    BY <1>3 DEF Filtered
  <2>2. CASE d = c
    <3>1. n = NoNonce
      BY <1>3, <2>1, <2>2
    <3> QED BY <3>1 DEF Filtered
  <2> QED BY <2>1, <2>2
<1> QED BY <1>1, <1>2, <1>3, <1>4 DEF Filtered

\* The filter does not mind a connection that is done, unless its handler has
\* just begun.
LEMMA DoneKeeps ==
  ASSUME TracksAreOwn, Filtered, NEW c \in Conn, NEW from \in {"read", "found", "push"},
         Answer(c, from), UNCHANGED <<processedNonce, carried, again>>,
         silent' = silent \/ silent' \subseteq silent \cup (processedNonce \cap {msg[c].nonce})
  PROVE  Filtered'
<1>1. /\ late' \in [Conn -> BOOLEAN] /\ late'[c] = FALSE
      /\ stage[c] = from /\ stage'[c] \in {"idle", "closed"}
      /\ \A d \in Conn \ {c} : late'[d] = late[d] /\ stage'[d] = stage[d] /\ msg'[d] = msg[d]
  BY DoneIsNotLate
<1>2. silent' \subseteq processedNonce'
  BY DEF Filtered
<1>3. \A d \in Conn :
         /\ late'[d] => stage'[d] = "read" /\ msg'[d].nonce \in carried'
         /\ stage'[d] = "new" => msg'[d].nonce # NoNonce
         /\ stage'[d] = "handle" => msg'[d].nonce \in processedNonce' \cup {NoNonce}
  <2> SUFFICES ASSUME NEW d \in Conn
               PROVE  /\ late'[d] => stage'[d] = "read" /\ msg'[d].nonce \in carried'
                      /\ stage'[d] = "new" => msg'[d].nonce # NoNonce
                      /\ stage'[d] = "handle" => msg'[d].nonce \in processedNonce' \cup {NoNonce}
    OBVIOUS
  <2>1. CASE d = c
    BY <1>1, <2>1
  <2>2. CASE d # c
    BY <1>1, <2>2 DEF Filtered
  <2> QED BY <2>1, <2>2
<1>4. \A n \in processedNonce' :
         n \in carried' \/ \E d \in Conn : stage'[d] = "handle" /\ msg'[d].nonce = n
  BY <1>1 DEF Filtered
<1> QED BY <1>1, <1>2, <1>3, <1>4 DEF Filtered

LEMMA FilterNext ==
  ASSUME TracksAreOwn, Filtered, [RequestsNext]_requestsVars
  PROVE  Filtered'
<1>1. CASE Play \/ UNCHANGED requestsVars
  <2>1. UNCHANGED <<processedNonce, stage, msg, late, again, carried, silent>>
    BY <1>1 DEF Play, requestsVars, inHand, history
  <2> QED BY <2>1 DEF Filtered
<1>2. ASSUME NEW c \in Conn, ReadMessage(c) PROVE Filtered'
  <2>1. PICK m \in Asked : /\ msg' = [msg EXCEPT ![c] = m]
                          /\ late' = [late EXCEPT ![c] = m.nonce \in carried]
    BY <1>2 DEF ReadMessage
  <2>2. /\ stage[c] = "idle" /\ stage' = [stage EXCEPT ![c] = "read"]
        /\ UNCHANGED <<processedNonce, again, carried, silent>>
    BY <1>2 DEF ReadMessage, Goto, history
  <2>5. late \in [Conn -> BOOLEAN] /\ (m.nonce \in carried) \in BOOLEAN
    BY DEF Filtered
  <2>3. late' \in [Conn -> BOOLEAN] /\ late'[c] = (m.nonce \in carried)
        /\ \A d \in Conn \ {c} : late'[d] = late[d]
    BY <2>1, <2>5, Zenon
  <2>4. /\ stage'[c] = "read" /\ msg'[c] = m
        /\ \A d \in Conn \ {c} : stage'[d] = stage[d] /\ msg'[d] = msg[d]
    BY <2>1, <2>2 DEF TracksAreOwn
  <2> QED BY <2>2, <2>3, <2>4 DEF Filtered
<1>3. ASSUME NEW c \in Conn, Close(c) PROVE Filtered'
  <2>1. /\ stage[c] = "idle" /\ stage' = [stage EXCEPT ![c] = "closed"]
        /\ UNCHANGED <<processedNonce, msg, late, again, carried, silent>>
    BY <1>3 DEF Close, Goto, inHand, history
  <2>2. stage'[c] = "closed" /\ \A d \in Conn \ {c} : stage'[d] = stage[d]
    BY <2>1 DEF TracksAreOwn
  <2> QED BY <2>1, <2>2 DEF Filtered
<1>4. ASSUME NEW c \in Conn, CheckNonce(c) PROVE Filtered'
  <2>1. UNCHANGED <<processedNonce, carried, again>>
    BY <1>4 DEF CheckNonce, nonceRest
  <2>2. CASE /\ msg[c].nonce \in processedNonce /\ Answer(c, "read")
             /\ silent' = silent \cup {msg[c].nonce}
    BY <2>1, <2>2, DoneKeeps
  <2>3. CASE /\ msg[c].nonce \notin processedNonce /\ UNCHANGED <<silent, msg, track, late>>
             /\ Goto(c, "read", IF msg[c].nonce = NoNonce THEN "handle" ELSE "new")
    <3>1. /\ stage[c] = "read"
          /\ stage'[c] = IF msg[c].nonce = NoNonce THEN "handle" ELSE "new"
          /\ \A d \in Conn \ {c} : stage'[d] = stage[d]
      BY <2>3 DEF Goto, TracksAreOwn
    <3>2. ~late[c]
      BY <2>3 DEF Filtered
    <3> QED BY <2>1, <2>3, <3>1, <3>2 DEF Filtered
  <2> QED BY <1>4, <2>2, <2>3 DEF CheckNonce, inHand
<1>5. ASSUME NEW c \in Conn, ProcessNonce(c) PROVE Filtered'
  <2>1. /\ UNCHANGED <<msg, late, carried, again, silent>>
        /\ processedNonce' = processedNonce \cup {msg[c].nonce}
        /\ stage[c] = "new" /\ stage' = [stage EXCEPT ![c] = "handle"]
    BY <1>5 DEF ProcessNonce, Goto, inHand, nonceRest
  <2>2. stage'[c] = "handle" /\ \A d \in Conn \ {c} : stage'[d] = stage[d]
    BY <2>1 DEF TracksAreOwn
  <2> QED BY <2>1, <2>2 DEF Filtered
<1>6. ASSUME NEW c \in Conn,
             Show(c) \/ EnqueueFails(c) \/ RemoveFails(c) \/ RemoveTrack(c)
      PROVE  Filtered'
  <2>1. PICK op : Begin(c, op)
    BY <1>6 DEF Show, EnqueueFails, RemoveFails, RemoveTrack
  <2>2. Answer(c, "handle") \/ Panic(c, "handle")
    BY <1>6 DEF Show, EnqueueFails, RemoveFails, RemoveTrack
  <2> QED BY <2>1, <2>2, DoneIsNotLate, HandleKeeps
<1>7. ASSUME NEW c \in Conn, SearchFinds(c) PROVE Filtered'
  <2>1. Begin(c, {"enqueue"}) /\ Goto(c, "handle", "found") /\ UNCHANGED <<msg, late>>
    BY <1>7 DEF SearchFinds
  <2>2. stage[c] = "handle" /\ stage'[c] = "found" /\ \A d \in Conn \ {c} : stage'[d] = stage[d]
    BY <2>1 DEF Goto, TracksAreOwn
  <2>3. late' \in [Conn -> BOOLEAN] /\ late'[c] = FALSE
    BY <2>1, <2>2, Zenon DEF Filtered
  <2> QED BY <2>1, <2>2, <2>3, HandleKeeps
<1>8. ASSUME NEW c \in Conn, Populate(c) \/ Push(c) PROVE Filtered'
  <2>1. UNCHANGED <<processedNonce, again, carried, silent>>
    BY <1>8 DEF Populate, Push, enqueueRest, history
  <2>2. PICK from \in {"found", "push"} :
           Answer(c, from) \/ (from = "found" /\ Goto(c, "found", "push") /\ UNCHANGED inHand)
    BY <1>8 DEF Populate, Push
  <2>3. CASE Answer(c, from)
    BY <2>1, <2>2, <2>3, DoneKeeps
  <2>4. CASE Goto(c, "found", "push") /\ UNCHANGED <<msg, track, late>>
    <3>1. stage[c] = "found" /\ stage'[c] = "push" /\ \A d \in Conn \ {c} : stage'[d] = stage[d]
      BY <2>4 DEF Goto, TracksAreOwn
    <3> QED BY <2>1, <2>4, <3>1 DEF Filtered
  <2> QED BY <2>2, <2>3, <2>4 DEF inHand
<1> QED
  BY <1>1, <1>2, <1>3, <1>4, <1>5, <1>6, <1>7, <1>8 DEF RequestsNext, HandleMessage

\* However many connections send a nonce, a message that comes after one with its
\* nonce is not carried out, and one that is not answered was not needed.
THEOREM NoncesAlwaysWork == RequestsSpec => []NoncesWork
<1> DEFINE Inv == TracksAreOwn /\ SamePlayID /\ Filtered
<1>1. RequestsInit => Inv
  BY TracksInit, FilterInit
<1>2. Inv /\ [RequestsNext]_requestsVars => Inv'
  BY TracksNext, FilterNext
<1>3. Inv => NoncesWork
  BY DEF Filtered, NoncesWork
<1> QED BY <1>1, <1>2, <1>3, PTL DEF RequestsSpec

-----------------------------------------------------------------------------
(* Types.  What a handler looks for, it looks for in a source that is there.   *)

Typed ==
    /\ sources \in Seq(Source) /\ sources # <<>>
    /\ processedNonce \subseteq Nonce /\ carried \subseteq Nonce
    /\ received \in [Conn -> Nat]
    /\ \A c \in Conn : stage[c] \in {"found", "push"} => msg[c] \in EnqueueMessage
    /\ removed \subseteq [meant : Track, taken : Track]

\* However the plugins are loaded, there is a source.
LEMMA PluginsLoaded ==
  ASSUME NEW plugins \in {<<CSN>>, <<YouTube>>, <<CSN, YouTube>>}, NEW default
  PROVE  LoadPlugins(plugins, default) \in Seq(Source) /\ LoadPlugins(plugins, default) # <<>>
<1>1. ASSUME NEW loaded \in Seq(Source), NEW name \in Source
      PROVE  /\ LoadPlugin(loaded, name, default) \in Seq(Source)
             /\ LoadPlugin(loaded, name, default) # <<>>
  BY DEF LoadPlugin
<1>2. Len(plugins) \in {1, 2} /\ plugins[1] \in Source /\ (Len(plugins) # 1 => plugins[2] \in Source)
  BY DEF Source
<1>3. <<>> \in Seq(Source)
  OBVIOUS
<1> QED BY <1>1, <1>2, <1>3, Zenon DEF LoadPlugins

LEMMA TypedInit == RequestsInit => Typed
<1> SUFFICES ASSUME RequestsInit PROVE Typed
  OBVIOUS
<1>1. sources \in Seq(Source) /\ sources # <<>>
  BY PluginsLoaded, Zenon DEF RequestsInit
<1> QED BY <1>1 DEF RequestsInit, Typed

LEMMA OwnMessageIsMessage == OwnMessage \subseteq Message
<1>1. OwnTrack \subseteq Track
  BY DEF OwnTrack
<1> QED BY <1>1 DEF OwnMessage, Message, RemoveMessage

LEMMA NonceOfMessage == \A m \in OwnMessage : m.nonce \in Nonces
  BY DEF OwnMessage, EnqueueMessage, OtherMessage

\* A connection that is done is not looking for a track.
LEMMA DoneKeepsTyped ==
  ASSUME TracksAreOwn, Typed, NEW c \in Conn, NEW from, Answer(c, from) \/ Panic(c, from)
  PROVE  \A d \in Conn : stage'[d] \in {"found", "push"} => msg'[d] \in EnqueueMessage
<1>1. PICK to \in {"idle", "closed"} : Return(c, from, to)
  BY DEF Answer, Panic
<1> QED BY <1>1 DEF Return, Goto, TracksAreOwn, Typed

LEMMA BeginKeepsTyped ==
  ASSUME TracksAreOwn, Typed, NEW c \in Conn, NEW op, Begin(c, op)
  PROVE  /\ UNCHANGED <<sources, processedNonce, received>>
         /\ carried' \subseteq Nonce
<1>1. stage[c] = "handle" /\ carried' = carried \cup ({msg[c].nonce} \ {NoNonce})
      /\ UNCHANGED <<sources, processedNonce, received>>
  BY DEF Begin
<1>2. msg[c].nonce \in Nonces
  BY <1>1, NonceOfMessage DEF TracksAreOwn
<1> QED BY <1>1, <1>2 DEF Typed, Nonces

LEMMA TypedNext ==
  ASSUME TracksAreOwn, SamePlayID, Filtered, Typed, [RequestsNext]_requestsVars
  PROVE  Typed'
<1>1. CASE Play \/ UNCHANGED requestsVars
  <2>1. UNCHANGED <<sources, processedNonce, carried, received, stage, msg, removed>>
    BY <1>1 DEF Play, requestsVars, inHand, history
  <2> QED BY <2>1 DEF Typed
<1>2. ASSUME NEW c \in Conn, ReadMessage(c) PROVE Typed'
  <2>1. /\ stage' = [stage EXCEPT ![c] = "read"] /\ \E m : msg' = [msg EXCEPT ![c] = m]
        /\ received' = [received EXCEPT ![c] = @ + 1]
        /\ UNCHANGED <<sources, processedNonce, carried, removed>>
    BY <1>2 DEF ReadMessage, Goto, history
  <2>2. received' \in [Conn -> Nat]
    BY <2>1 DEF Typed
  <2>3. \A d \in Conn : stage'[d] \in {"found", "push"} => msg'[d] \in EnqueueMessage
    BY <2>1 DEF Typed, TracksAreOwn
  <2> QED BY <2>1, <2>2, <2>3 DEF Typed
<1>3. ASSUME NEW c \in Conn, Close(c) PROVE Typed'
  <2>1. /\ stage' = [stage EXCEPT ![c] = "closed"]
        /\ UNCHANGED <<msg, sources, processedNonce, carried, received, removed>>
    BY <1>3 DEF Close, Goto, inHand, history
  <2> QED BY <2>1 DEF Typed, TracksAreOwn
<1>4. ASSUME NEW c \in Conn, CheckNonce(c) PROVE Typed'
  <2>1. UNCHANGED <<sources, processedNonce, carried, received, removed>>
    BY <1>4 DEF CheckNonce, nonceRest
  <2>2. CASE Answer(c, "read")
    BY <2>1, <2>2, DoneKeepsTyped DEF Typed
  <2>3. CASE /\ UNCHANGED inHand
             /\ Goto(c, "read", IF msg[c].nonce = NoNonce THEN "handle" ELSE "new")
    BY <2>1, <2>3 DEF Goto, inHand, Typed, TracksAreOwn
  <2> QED BY <1>4, <2>2, <2>3 DEF CheckNonce
<1>5. ASSUME NEW c \in Conn, ProcessNonce(c) PROVE Typed'
  <2>1. /\ Goto(c, "new", "handle") /\ processedNonce' = processedNonce \cup {msg[c].nonce}
        /\ UNCHANGED <<sources, carried, received, removed, msg>>
    BY <1>5 DEF ProcessNonce, inHand, nonceRest
  <2>2. msg[c].nonce \in Nonces /\ msg[c].nonce # NoNonce
    BY <2>1, NonceOfMessage DEF Goto, TracksAreOwn, Filtered
  <2>3. \A d \in Conn : stage'[d] \in {"found", "push"} => msg'[d] \in EnqueueMessage
    BY <2>1 DEF Goto, Typed, TracksAreOwn
  <2> QED BY <2>1, <2>2, <2>3 DEF Typed, Nonces
<1>6. ASSUME NEW c \in Conn, Show(c) \/ EnqueueFails(c) \/ RemoveFails(c)
      PROVE  Typed'
  <2>1. PICK op : Begin(c, op)
    BY <1>6 DEF Show, EnqueueFails, RemoveFails
  <2>2. Answer(c, "handle") \/ Panic(c, "handle")
    BY <1>6 DEF Show, EnqueueFails, RemoveFails
  <2>3. removed' = removed
    BY <1>6 DEF Show, EnqueueFails, RemoveFails
  <2> QED BY <2>1, <2>2, <2>3, DoneKeepsTyped, BeginKeepsTyped DEF Typed
<1>7. ASSUME NEW c \in Conn, SearchFinds(c) PROVE Typed'
  <2>1. /\ Begin(c, {"enqueue"}) /\ Goto(c, "handle", "found")
        /\ UNCHANGED <<msg, removed>>
    BY <1>7 DEF SearchFinds
  <2>2. msg[c] \in EnqueueMessage
    <3>1. msg[c] \in OwnMessage /\ msg[c].op = "enqueue"
      BY <2>1 DEF Begin, TracksAreOwn
    <3> QED BY <3>1 DEF OwnMessage, OtherMessage
  <2>3. \A d \in Conn : stage'[d] \in {"found", "push"} => msg'[d] \in EnqueueMessage
    BY <2>1, <2>2 DEF Goto, Typed, TracksAreOwn
  <2> QED BY <2>1, <2>3, BeginKeepsTyped DEF Typed
<1>8. ASSUME NEW c \in Conn, Populate(c) \/ Push(c) PROVE Typed'
  <2>1. UNCHANGED <<sources, processedNonce, carried, received, removed>>
    BY <1>8 DEF Populate, Push, enqueueRest, history
  <2>2. PICK from : Answer(c, from) \/ (from = "found" /\ Goto(c, from, "push") /\ UNCHANGED inHand)
    BY <1>8 DEF Populate, Push
  <2>3. CASE Answer(c, from)
    BY <2>1, <2>3, DoneKeepsTyped DEF Typed
  <2>4. CASE from = "found" /\ Goto(c, from, "push") /\ UNCHANGED inHand
    <3>1. \A d \in Conn : stage'[d] \in {"found", "push"} => msg'[d] \in EnqueueMessage
      BY <2>4 DEF Goto, inHand, Typed, TracksAreOwn
    <3> QED BY <2>1, <3>1 DEF Typed
  <2> QED BY <2>2, <2>3, <2>4
<1>9. ASSUME NEW c \in Conn, RemoveTrack(c) PROVE Typed'
  <2>1. PICK i \in Named(msg[c]) :
           removed' = removed \cup {[meant |-> msg[c].track, taken |-> playQueue[i]]}
    BY <1>9 DEF RemoveTrack
  <2>2. Begin(c, {"remove"}) /\ (Answer(c, "handle") \/ Panic(c, "handle"))
    BY <1>9 DEF RemoveTrack
  <2>3. msg[c].track \in Track
    <3>1. msg[c] \in OwnMessage /\ msg[c].op = "remove"
      BY <2>2 DEF Begin, TracksAreOwn
    <3> QED BY <3>1 DEF OwnMessage, EnqueueMessage, OtherMessage, OwnTrack
  <2>4. playQueue[i] \in Track
    BY <2>1 DEF Named, TracksAreOwn, OwnTrack
  <2>5. removed' \subseteq [meant : Track, taken : Track]
    BY <2>1, <2>3, <2>4 DEF Typed
  <2> QED BY <2>2, <2>5, DoneKeepsTyped, BeginKeepsTyped DEF Typed
<1> QED
  BY <1>1, <1>2, <1>3, <1>4, <1>5, <1>6, <1>7, <1>8, <1>9 DEF RequestsNext, HandleMessage

\* A handler has the message, the track and the source it works with, whichever
\* plugins could be loaded.
THEOREM RequestsTypeCorrect == RequestsSpec => []RequestsTypeOK
<1> DEFINE Inv == TracksAreOwn /\ SamePlayID /\ Filtered /\ Typed
<1>1. RequestsInit => Inv
  BY TracksInit, FilterInit, TypedInit
<1>2. Inv /\ [RequestsNext]_requestsVars => Inv'
  BY TracksNext, FilterNext, TypedNext
<1>3. Inv => RequestsTypeOK
  <2> SUFFICES ASSUME Inv PROVE RequestsTypeOK
    OBVIOUS
  <2>1. OwnTrack \subseteq Track
    BY DEF OwnTrack
  <2>2. \A c \in Conn : stage[c] \in {"found", "push"} => msg[c] \in EnqueueMessage /\ track[c] \in Track
    BY <2>1 DEF Typed, TracksAreOwn
  <2>3. again \subseteq Nonce /\ silent \subseteq Nonce /\ late \in [Conn -> BOOLEAN]
    BY DEF Filtered, Typed
  <2>4. playQueue \in Seq(Track) /\ track \in [Conn -> Track \cup {NoTrack}]
    BY <2>1 DEF TracksAreOwn
  <2>5. /\ msg \in [Conn -> Message \cup {NoMessage}]
        /\ \A c \in Conn : stage[c] \in {"read", "new", "handle"} => msg[c] \in Message
    BY OwnMessageIsMessage DEF TracksAreOwn
  <2> QED BY <2>2, <2>3, <2>4, <2>5 DEF RequestsTypeOK, TracksAreOwn, Typed, Stage
<1> QED BY <1>1, <1>2, <1>3, PTL DEF RequestsSpec
=============================================================================
