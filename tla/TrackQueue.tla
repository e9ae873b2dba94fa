----------------------------- MODULE TrackQueue -----------------------------
(***************************************************************************)
(* The two queues of the server and everybody who touches them.            *)
(*                                                                         *)
(* playQueue holds the tracks processTrack will play.  cacheQueue is its   *)
(* mirror: it holds their metadata for getQueue, so that the list can be   *)
(* read without the tracks.  The mirror is kept by callbacks that run      *)
(* inside playQueue.mux (src/server/queueCallback.go) when a track is      *)
(* pushed or popped, and by removeTrack (src/server/request.go), which     *)
(* edits one queue after the other under no common lock.  Every change is  *)
(* announced to the web sockets one by one.  playQueue's condition         *)
(* variable is that of module Queue, with processTrack as the only one     *)
(* who waits; cacheQueue's waits only inside the pop callback.             *)
(***************************************************************************)
EXTENDS Naturals, Sequences, SequencesExt, FiniteSets

CONSTANTS Track,      \* tracks found by a search: each is enqueued at most once
          Remover,    \* removal requests, each made at most once
          Socket,     \* web sockets
          PlayIDs,    \* the identifiers tracks carry
          PlayID,     \* the PlayID of each track
          Player,     \* the goroutine that runs processTrack
          NoOne,      \* playQueue.mux is free
          NoTrack     \* nothing has been played

ASSUME TrackQueueAssumption ==
    /\ PlayID \in [Track -> PlayIDs]
    /\ Player \notin Track \cup Remover
    /\ NoOne \notin Track \cup Remover \cup {Player}
    /\ NoTrack \notin Track
    /\ Track \cap Remover = {}
    /\ IsFiniteSet(Remover)

VARIABLES playQueue,   \* the tracks, front first
          cacheQueue,  \* the metadata of tracks, front first
          playMux,     \* who holds playQueue.mux across steps
          playing,     \* what the last completed Pop took from playQueue
          pc,          \* where each goroutine is
          casts,       \* the webSocketNotify call each goroutine is in
          sockets,     \* where each socket's wsHandler is
          snapshot,    \* what its getQueue returned
          inbox        \* what was written to each socket, in order

queueVars  == <<playQueue, cacheQueue, playMux, playing>>
socketVars == <<sockets, snapshot, inbox>>
vars       == <<queueVars, pc, casts, socketVars>>

Goroutine == Track \cup Remover \cup {Player}

PlayerPC   == {"check", "wait", "parked", "take", "cacheCheck", "cacheTake", "notify", "play"}
EnqueuerPC == {"new", "notify", "signal", "done"}
RemoverPC  == {"idle", "cache", "notify", "panicked", "done"}

Notice  == [op : {"enqueued", "remove"}, track : Track]
Asked   == [op : {"asked"}, track : Track]
Listing == [op : {"queue"}, tracks : Seq(Track)]
Message == Notice \cup Listing

NoMsg  == [op |-> "none", track |-> NoTrack]
NoCast == [msg |-> NoMsg, due |-> {}, sent |-> {}]

Cast   == [msg : Notice \cup Asked \cup {NoMsg}, due : SUBSET Socket, sent : SUBSET Socket]

TypeOK ==
    /\ playQueue \in Seq(Track)
    /\ cacheQueue \in Seq(Track)
    /\ playMux \in Track \cup {Player, NoOne}
    /\ playing \in Track \cup {NoTrack}
    /\ pc \in [Goroutine -> PlayerPC \cup EnqueuerPC \cup RemoverPC]
    /\ pc[Player] \in PlayerPC
    /\ \A t \in Track : pc[t] \in EnqueuerPC
    /\ \A r \in Remover : pc[r] \in RemoverPC
    /\ casts \in [Goroutine -> Cast]
    /\ \A g \in Goroutine : pc[g] = "notify" => casts[g].msg \in Notice
    /\ \A r \in Remover : pc[r] = "cache" => casts[r].msg \in Asked
    /\ sockets \in [Socket -> {"off", "stored", "snapped", "open", "gone"}]
    /\ snapshot \in [Socket -> Seq(Track)]
    /\ inbox \in [Socket -> Seq(Message)]

Init ==
    /\ playQueue = <<>>
    /\ cacheQueue = <<>>
    /\ playMux = NoOne
    /\ playing = NoTrack
    /\ pc = [g \in Goroutine |->
               IF g = Player THEN "check" ELSE IF g \in Track THEN "new" ELSE "idle"]
    /\ casts = [g \in Goroutine |-> NoCast]
    /\ sockets = [w \in Socket |-> "off"]
    /\ snapshot = [w \in Socket |-> <<>>]
    /\ inbox = [w \in Socket |-> <<>>]

\* Variant of Connections: a socket is stored only after it was told the queue.
LateConnections == {w \in Socket : sockets[w] = "open"}

\* s.connections
Connections == {w \in Socket : sockets[w] \in {"stored", "snapped", "open"}}

Goto(g, label) == pc' = [pc EXCEPT ![g] = label]

Write(w, msg) == inbox' = [inbox EXCEPT ![w] = Append(@, msg)]

-----------------------------------------------------------------------------
(* webSocketNotify: one WriteMessage per socket.  sync.Map's Range visits   *)
(* every socket that stays in the map, in any order, and may or may not     *)
(* visit one that is stored meanwhile.                                      *)

BeginNotify(g, op, t) ==
    /\ casts' = [casts EXCEPT ![g] = [msg  |-> [op |-> op, track |-> t],
                                      due  |-> Connections,
                                      sent |-> {}]]
    /\ Goto(g, "notify")

NotifyOne(g, w) ==
    /\ pc[g] = "notify"
    /\ w \in Connections \ casts[g].sent
    /\ Write(w, casts[g].msg)
    /\ casts' = [casts EXCEPT ![g].sent = @ \cup {w}]
    /\ UNCHANGED <<queueVars, pc, sockets, snapshot>>

EndNotify(g, label) ==
    /\ pc[g] = "notify"
    /\ casts[g].due \cap Connections \subseteq casts[g].sent
    /\ casts' = [casts EXCEPT ![g] = NoCast]
    /\ Goto(g, label)

-----------------------------------------------------------------------------
(* enqueue: playQueue.Push(track) with enqueueCallback inside mux. *)

\* Variant of PushTrack: the callback does not fill cacheQueue.
PushUncached(t) ==
    /\ pc[t] = "new"
    /\ playMux = NoOne
    /\ playMux' = t
    /\ playQueue' = Append(playQueue, t)
    /\ BeginNotify(t, "enqueued", t)
    /\ UNCHANGED <<cacheQueue, playing, socketVars>>

\* PushBack, then cacheQueue.Push in the callback.  The list is covered by mux,
\* so nobody sees it between the two.
PushTrack(t) ==
    /\ pc[t] = "new"
    /\ playMux = NoOne
    /\ playMux' = t
    /\ playQueue' = Append(playQueue, t)
    /\ cacheQueue' = Append(cacheQueue, t)
    /\ BeginNotify(t, "enqueued", t)
    /\ UNCHANGED <<playing, socketVars>>

\* The callback returns and Push unlocks mux.
PushUnlock(t) ==
    /\ EndNotify(t, "signal")
    /\ playMux' = NoOne
    /\ UNCHANGED <<playQueue, cacheQueue, playing, socketVars>>

\* enqueued.Signal(): it wakes the player if the player is parked now.
PushSignal(t) ==
    /\ pc[t] = "signal"
    /\ pc' = [pc EXCEPT ![t] = "done",
                        ![Player] = IF @ = "parked" THEN "check" ELSE @]
    /\ UNCHANGED <<queueVars, casts, socketVars>>

Enqueue(t) == PushTrack(t) \/ PushUnlock(t) \/ PushSignal(t)

-----------------------------------------------------------------------------
(* processTrack: playQueue.Pop() with dequeueCallback inside mux. *)

\* for c.Size() <= 0
PopCheck ==
    /\ pc[Player] = "check"
    /\ playMux = NoOne
    /\ Goto(Player, IF playQueue = <<>> THEN "wait" ELSE "take")
    /\ UNCHANGED <<queueVars, casts, socketVars>>

PopWait ==
    /\ pc[Player] = "wait"
    /\ Goto(Player, "parked")
    /\ UNCHANGED <<queueVars, casts, socketVars>>

\* Variant of PopTake: the newest track is taken.
PopTakeBack ==
    /\ pc[Player] = "take"
    /\ playMux = NoOne
    /\ playQueue # <<>>
    /\ playMux' = Player
    /\ playing' = Last(playQueue)
    /\ playQueue' = Front(playQueue)
    /\ Goto(Player, "cacheCheck")
    /\ UNCHANGED <<cacheQueue, casts, socketVars>>

\* Lock mux and take the front track; dequeueCallback starts.
PopTake ==
    /\ pc[Player] = "take"
    /\ playMux = NoOne
    /\ playQueue # <<>>
    /\ playMux' = Player
    /\ playing' = Head(playQueue)
    /\ playQueue' = Tail(playQueue)
    /\ Goto(Player, "cacheCheck")
    /\ UNCHANGED <<cacheQueue, casts, socketVars>>

\* The list was emptied after the check: the nil element panics, processTrack
\* recovers and is called again.
PopEmptyPanic ==
    /\ pc[Player] = "take"
    /\ playMux = NoOne
    /\ playQueue = <<>>
    /\ Goto(Player, "check")
    /\ UNCHANGED <<queueVars, casts, socketVars>>

\* cacheQueue.Pop(), its size check: on an empty cacheQueue it waits for a
\* Push, which only enqueueCallback makes and only with playQueue.mux.
CacheCheck ==
    /\ pc[Player] = "cacheCheck"
    /\ cacheQueue # <<>>
    /\ Goto(Player, "cacheTake")
    /\ UNCHANGED <<queueVars, casts, socketVars>>

\* Variant of CacheTake: the newest metadata is taken.
CacheTakeBack ==
    /\ pc[Player] = "cacheTake"
    /\ cacheQueue # <<>>
    /\ cacheQueue' = Front(cacheQueue)
    /\ BeginNotify(Player, "remove", Last(cacheQueue))
    /\ UNCHANGED <<playQueue, playMux, playing, socketVars>>

\* cacheQueue.Pop(), the rest: take the front metadata and announce it.  (Were
\* the list empty by now, the nil element would panic: PopCallbackNeverStuck.)
CacheTake ==
    /\ pc[Player] = "cacheTake"
    /\ cacheQueue # <<>>
    /\ cacheQueue' = Tail(cacheQueue)
    /\ BeginNotify(Player, "remove", Head(cacheQueue))
    /\ UNCHANGED <<playQueue, playMux, playing, socketVars>>

PopUnlock ==
    /\ EndNotify(Player, "play")
    /\ playMux' = NoOne
    /\ UNCHANGED <<playQueue, cacheQueue, playing, socketVars>>

\* The track has been played (module Playback) and processTrack runs again.
PlayNext ==
    /\ pc[Player] = "play"
    /\ Goto(Player, "check")
    /\ UNCHANGED <<queueVars, casts, socketVars>>

Play ==
    \/ PopCheck \/ PopWait \/ PopTake \/ PopEmptyPanic
    \/ CacheCheck \/ CacheTake \/ PopUnlock \/ PlayNext

-----------------------------------------------------------------------------
(* removeTrack.  casts[r].msg carries the request between its two halves:   *)
(* the PlayID asked for is that of the track the first half removed.        *)

IsFirstMatch(q, i, id) ==
    /\ i \in DOMAIN q
    /\ PlayID[q[i]] = id
    /\ \A j \in 1 .. i - 1 : PlayID[q[j]] # id

\* Variant of RemovePlay: removeTrack forgets cacheQueue.
RemovePlayOnly(r) ==
    /\ pc[r] = "idle"
    /\ playMux = NoOne
    /\ \E i \in DOMAIN playQueue :
         /\ playQueue' = RemoveAt(playQueue, i)
         /\ BeginNotify(r, "remove", playQueue[i])
    /\ UNCHANGED <<cacheQueue, playMux, playing, socketVars>>

\* playQueue.Remove.  (A PlayID that is not there changes nothing and is
\* answered "Failed to remove track".)
RemovePlay(r) ==
    /\ pc[r] = "idle"
    /\ playMux = NoOne
    /\ \E id \in PlayIDs : \E i \in DOMAIN playQueue :
         /\ IsFirstMatch(playQueue, i, id)
         /\ playQueue' = RemoveAt(playQueue, i)
         /\ casts' = [casts EXCEPT ![r].msg = [op |-> "asked", track |-> playQueue[i]]]
    /\ Goto(r, "cache")
    /\ UNCHANGED <<cacheQueue, playMux, playing, socketVars>>

AskedID(r) == PlayID[casts[r].msg.track]

\* cacheQueue.Remove with the same PlayID, and the notification begins.
RemoveCache(r) ==
    /\ pc[r] = "cache"
    /\ \E i \in DOMAIN cacheQueue :
         /\ IsFirstMatch(cacheQueue, i, AskedID(r))
         /\ cacheQueue' = RemoveAt(cacheQueue, i)
         /\ BeginNotify(r, "remove", cacheQueue[i])
    /\ UNCHANGED <<playQueue, playMux, playing, socketVars>>

\* Variant of RemovePanic: the type assertion is not checked and an empty track is
\* announced.
RemoveUnchecked(r) ==
    /\ pc[r] = "cache"
    /\ \A i \in DOMAIN cacheQueue : PlayID[cacheQueue[i]] # AskedID(r)
    /\ BeginNotify(r, "remove", NoTrack)
    /\ UNCHANGED <<queueVars, socketVars>>

\* cacheQueue.Remove returned nil, which is no TrackMetadata: the type
\* assertion panics and the request ends without an answer.
RemovePanic(r) ==
    /\ pc[r] = "cache"
    /\ \A i \in DOMAIN cacheQueue : PlayID[cacheQueue[i]] # AskedID(r)
    /\ casts' = [casts EXCEPT ![r] = NoCast]
    /\ Goto(r, "panicked")
    /\ UNCHANGED <<queueVars, socketVars>>

RemoveReturn(r) ==
    /\ EndNotify(r, "done")
    /\ UNCHANGED <<queueVars, socketVars>>

RemoveTrack(r) == RemovePlay(r) \/ RemoveCache(r) \/ RemovePanic(r) \/ RemoveReturn(r)

-----------------------------------------------------------------------------
(* wsHandler: the socket joins s.connections first, then it is told the     *)
(* queue, which getQueue reads before the socket's own mutex is taken.      *)

Move(w, from, to) ==
    /\ sockets[w] = from
    /\ sockets' = [sockets EXCEPT ![w] = to]

Connect(w) ==
    /\ Move(w, "off", "stored")
    /\ UNCHANGED <<queueVars, pc, casts, snapshot, inbox>>

ReadQueue(w) ==
    /\ Move(w, "stored", "snapped")
    /\ snapshot' = [snapshot EXCEPT ![w] = cacheQueue]
    /\ UNCHANGED <<queueVars, pc, casts, inbox>>

WriteQueue(w) ==
    /\ Move(w, "snapped", "open")
    /\ Write(w, [op |-> "queue", tracks |-> snapshot[w]])
    /\ UNCHANGED <<queueVars, pc, casts, snapshot>>

Disconnect(w) ==
    /\ Move(w, "open", "gone")
    /\ UNCHANGED <<queueVars, pc, casts, snapshot, inbox>>

Serve(w) == Connect(w) \/ ReadQueue(w) \/ WriteQueue(w) \/ Disconnect(w)

-----------------------------------------------------------------------------
Next ==
    \/ \E t \in Track : Enqueue(t)
    \/ Play
    \/ \E r \in Remover : RemoveTrack(r)
    \/ \E w \in Socket : Serve(w)
    \/ \E g \in Goroutine, w \in Socket : NotifyOne(g, w)

Spec == Init /\ [][Next]_vars

\* Every goroutine that can take a step does; nobody has to send a request.
Fairness ==
    /\ \A t \in Track : WF_vars(PushUnlock(t) \/ PushSignal(t))
    /\ WF_vars(Play)
    /\ \A r \in Remover : WF_vars(RemoveCache(r) \/ RemovePanic(r) \/ RemoveReturn(r))
    /\ \A g \in Goroutine : WF_vars(\E w \in Socket : NotifyOne(g, w))

FairSpec == Spec /\ Fairness

-----------------------------------------------------------------------------
(* Properties. *)

\* How far the mirror is ahead of playQueue: one element for the pop that has
\* not called cacheQueue.Pop yet, one for every removeTrack between its two
\* Removes, and one, for good, for every removeTrack that found its metadata
\* gone.
InPopCallback == {g \in {Player} : pc[g] \in {"cacheCheck", "cacheTake"}}
OwingRemovers == {r \in Remover : pc[r] \in {"cache", "panicked"}}

MirrorLength ==
    Len(cacheQueue) = Len(playQueue) + Cardinality(InPopCallback) + Cardinality(OwingRemovers)

\* dequeueCallback pops cacheQueue while it holds playQueue.mux.  Were cacheQueue
\* empty, it would wait there for an enqueue that needs the same mux: nobody
\* could enqueue, remove or play again.  It never is, although removeTrack
\* shortens cacheQueue without the mux.
PopCallbackNeverStuck == InPopCallback # {} => cacheQueue # <<>>

\* A holder of playQueue.mux gives it back, so no client waits for the queue
\* for ever: the callbacks that run inside it always return.
MuxReleased == playMux # NoOne ~> playMux = NoOne

\* Until the first removal the mirror is exact whenever mux is free: same tracks,
\* same order, however enqueues and pops interleave.
MirrorExact ==
    (\A r \in Remover : pc[r] = "idle") /\ playMux = NoOne => cacheQueue = playQueue

\* PlayIDs tell tracks apart (docs/API.md: "an unique ID for every track").
UniquePlayIDs == \A t, u \in Track : PlayID[t] = PlayID[u] => t = u

Says(msg, op, t) == msg.op = op /\ msg.track = t
Mentions(msg, t) == \/ msg.op = "queue" /\ t \in Range(msg.tracks)
                    \/ msg.op = "enqueued" /\ msg.track = t

\* The announcements of a track come in order: never its removal first and its
\* arrival later.
RemovalNotBeforeArrival ==
    UniquePlayIDs =>
        \A w \in Socket : \A i, j \in DOMAIN inbox[w] :
            \A t \in Track :
                i < j /\ Says(inbox[w][i], "remove", t) => ~Says(inbox[w][j], "enqueued", t)

\* A socket that has been sent the queue misses no track: whatever is in the
\* queue and fully announced is in the list it was sent or was announced to it.
NoMissedTrack ==
    \A w \in Socket : sockets[w] = "open" =>
        \A t \in Range(cacheQueue) : pc[t] \in {"signal", "done"} =>
            \E i \in DOMAIN inbox[w] : Mentions(inbox[w][i], t)

\* What a socket was told is removed has left the queue for good: no list that is
\* read from then on shows it.  (One that was read before may be written later
\* and brings the track back for this socket, as in the code.)
RemovedIsGone ==
    \A w \in Socket : \A i \in DOMAIN inbox[w] :
        \A t \in Track : Says(inbox[w][i], "remove", t) => t \notin Range(cacheQueue)

\* What a socket is told follows the queue: nothing in the queue is missing from it,
\* what it says is removed is, and announcements of one track are in order.
SocketsFollow == NoMissedTrack /\ RemovedIsGone /\ RemovalNotBeforeArrival

\* The playQueue with its callbacks and removals is still the abstract queue:
\* what is played is the front track, once.
Fifo == INSTANCE FifoQueue WITH
            Consumer <- {Player}, Value <- Track, NoValue <- NoTrack,
            items <- playQueue, obtained <- [c \in {Player} |-> playing]
ImplementsFifo == Fifo!FifoSpec

\* "The server will answer the queue": with nobody inside a queue operation,
\* the list getQueue answers is the list of the tracks that will be played.
AtRest ==
    /\ playMux = NoOne
    /\ \A r \in Remover : pc[r] # "cache"
QueueListsWhatWillPlay == AtRest => cacheQueue = playQueue
=============================================================================
