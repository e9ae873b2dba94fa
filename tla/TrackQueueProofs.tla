-------------------------- MODULE TrackQueueProofs --------------------------
(***************************************************************************)
(* Theorems about module TrackQueue, for any tracks, sockets and PlayIDs   *)
(* (equal ones included) and any finite set of clients that remove tracks. *)
(***************************************************************************)
EXTENDS TrackQueue, FiniteSetTheorems, TLAPS

\* Removing one element of a sequence leaves a sequence that is one shorter.
LEMMA RemoveAtProperties ==
    ASSUME NEW S, NEW s \in Seq(S), NEW i \in DOMAIN s
    PROVE  /\ RemoveAt(s, i) \in Seq(S)
           /\ Len(RemoveAt(s, i)) = Len(s) - 1
BY DEF RemoveAt

\* A cast with one field replaced is a cast.
LEMMA CastUpdate ==
    ASSUME NEW c \in Cast, NEW m \in Notice \cup Asked \cup {NoMsg}, NEW s \in SUBSET Socket
    PROVE  /\ [c EXCEPT !.msg = m] \in Cast /\ [c EXCEPT !.msg = m].msg = m
           /\ [c EXCEPT !.sent = s] \in Cast /\ [c EXCEPT !.sent = s].msg = c.msg
<1>1. c = [msg |-> c.msg, due |-> c.due, sent |-> c.sent]
  BY DEF Cast
<1>2. /\ c.msg \in Notice \cup Asked \cup {NoMsg}
      /\ c.due \in SUBSET Socket
      /\ c.sent \in SUBSET Socket
  BY DEF Cast
<1>3. /\ [c EXCEPT !.msg = m] = [msg |-> m, due |-> c.due, sent |-> c.sent]
      /\ [c EXCEPT !.sent = s] = [msg |-> c.msg, due |-> c.due, sent |-> s]
  BY <1>1
<1> QED
  BY <1>2, <1>3 DEF Cast

\* Every variable keeps its type; in particular a goroutine that notifies has a
\* complete message, and a client between its two Removes remembers a track.
THEOREM TypeCorrect == Spec => []TypeOK
<1>1. Init => TypeOK
  BY TrackQueueAssumption
     DEF Init, TypeOK, Goroutine, PlayerPC, EnqueuerPC, RemoverPC, NoCast, NoMsg, Cast
<1>2. TypeOK /\ [Next]_vars => TypeOK'
  <2> SUFFICES ASSUME TypeOK, [Next]_vars PROVE TypeOK'
    OBVIOUS
  <2> USE TrackQueueAssumption
      DEF TypeOK, Goroutine, PlayerPC, EnqueuerPC, RemoverPC, Goto,
          queueVars, socketVars
  <2>1. ASSUME NEW t \in Track, PushTrack(t) PROVE TypeOK'
    BY <2>1 DEF PushTrack, BeginNotify, Connections, Notice, Cast
  <2>2. ASSUME NEW t \in Track, PushUnlock(t) PROVE TypeOK'
    BY <2>2 DEF PushUnlock, EndNotify, NoCast, Cast
  <2>3. ASSUME NEW t \in Track, PushSignal(t) PROVE TypeOK'
    BY <2>3 DEF PushSignal
  <2>4. ASSUME PopCheck \/ PopWait \/ PopTake \/ PopEmptyPanic PROVE TypeOK'
    <3>1. CASE PopCheck
      BY <3>1 DEF PopCheck
    <3>2. CASE PopWait
      BY <3>2 DEF PopWait
    <3>3. CASE PopTake
      BY <3>3 DEF PopTake
    <3>4. CASE PopEmptyPanic
      BY <3>4 DEF PopEmptyPanic
    <3> QED
      BY <2>4, <3>1, <3>2, <3>3, <3>4
  <2>5. ASSUME CacheCheck \/ PlayNext PROVE TypeOK'
    BY <2>5 DEF CacheCheck, PlayNext
  <2>6. ASSUME CacheTake PROVE TypeOK'
    BY <2>6 DEF CacheTake, BeginNotify, Connections, Notice, Cast
  <2>7. ASSUME PopUnlock PROVE TypeOK'
    BY <2>7 DEF PopUnlock, EndNotify, NoCast, Cast
  <2>8. ASSUME NEW r \in Remover, RemovePlay(r) PROVE TypeOK'
    <3>1. PICK id \in PlayIDs, i \in DOMAIN playQueue :
            /\ playQueue' = RemoveAt(playQueue, i)
            /\ casts' = [casts EXCEPT ![r].msg = [op |-> "asked", track |-> playQueue[i]]]
      BY <2>8 DEF RemovePlay
    <3>2. playQueue' \in Seq(Track) /\ playQueue[i] \in Track
      BY <3>1, RemoveAtProperties
    <3>3. casts' \in [Goroutine -> Cast] /\ casts'[r].msg \in Asked
      <4> DEFINE msg == [op |-> "asked", track |-> playQueue[i]]
      <4>1. msg \in Asked
        BY <3>2 DEF Asked
      <4>2. \A m \in Asked : /\ [casts[r] EXCEPT !.msg = m] \in Cast
                            /\ [casts[r] EXCEPT !.msg = m].msg = m
        <5>1. casts[r] \in Cast /\ casts[r].sent \in SUBSET Socket
          BY DEF Cast
        <5> QED
          BY <5>1, CastUpdate
      <4> HIDE DEF msg
      <4>3. casts' = [casts EXCEPT ![r] = [casts[r] EXCEPT !.msg = msg]]
        BY <3>1 DEF msg
      <4> QED
        BY <4>1, <4>2, <4>3
    <3>4. pc' \in [Goroutine -> PlayerPC \cup EnqueuerPC \cup RemoverPC]
      BY <2>8 DEF RemovePlay
    <3>5. \A g \in Goroutine \ {r} : casts'[g] = casts[g] /\ pc'[g] = pc[g]
      BY <2>8, <3>1 DEF RemovePlay
    <3>6. pc'[r] = "cache"
      BY <2>8 DEF RemovePlay
    <3> QED
      BY <2>8, <3>2, <3>3, <3>4, <3>5, <3>6 DEF RemovePlay
  <2>9. ASSUME NEW r \in Remover, RemoveCache(r) PROVE TypeOK'
    BY <2>9, RemoveAtProperties DEF RemoveCache, IsFirstMatch, BeginNotify, Connections,
                                     Notice, Cast
  <2>10. ASSUME NEW r \in Remover, RemovePanic(r) PROVE TypeOK'
    BY <2>10 DEF RemovePanic, NoCast, Cast
  <2>11. ASSUME NEW r \in Remover, RemoveReturn(r) PROVE TypeOK'
    BY <2>11 DEF RemoveReturn, EndNotify, NoCast, Cast
  <2>12. ASSUME NEW w \in Socket, Serve(w) PROVE TypeOK'
    <3>1. CASE Connect(w) \/ Disconnect(w)
      BY <3>1 DEF Connect, Disconnect, Move
    <3>2. CASE ReadQueue(w)
      BY <3>2 DEF ReadQueue, Move
    <3>3. CASE WriteQueue(w)
      <4>1. [op |-> "queue", tracks |-> snapshot[w]] \in Message
        BY DEF Message, Listing
      <4>2. inbox' \in [Socket -> Seq(Message)]
        BY <3>3, <4>1 DEF WriteQueue, Write
      <4> QED
        BY <3>3, <4>2 DEF WriteQueue, Move
    <3> QED
      BY <2>12, <3>1, <3>2, <3>3 DEF Serve
  <2>13. ASSUME NEW g \in Goroutine, NEW w \in Socket, NotifyOne(g, w) PROVE TypeOK'
    <3>1. casts[g].msg \in Message
      BY <2>13 DEF NotifyOne, Message
    <3>2. inbox' \in [Socket -> Seq(Message)]
      BY <2>13, <3>1 DEF NotifyOne, Write
    <3>3. /\ casts' \in [Goroutine -> Cast]
          /\ \A h \in Goroutine : casts'[h].msg = casts[h].msg
      <4> DEFINE cast == [casts[g] EXCEPT !.sent = @ \cup {w}]
      <4>1. cast \in Cast /\ cast.msg = casts[g].msg
        <5>1. casts[g].sent \cup {w} \in SUBSET Socket
          BY DEF Cast
        <5> QED
          BY <5>1, CastUpdate
      <4>2. casts' = [casts EXCEPT ![g] = cast]
        BY <2>13 DEF NotifyOne
      <4> QED
        BY <4>1, <4>2
    <3> QED
      BY <2>13, <3>2, <3>3 DEF NotifyOne
  <2>14. CASE UNCHANGED vars
    BY <2>14 DEF vars
  <2> QED
    BY <2>1, <2>2, <2>3, <2>4, <2>5, <2>6, <2>7, <2>8, <2>9, <2>10, <2>11, <2>12, <2>13,
       <2>14 DEF Next, Enqueue, Play, RemoveTrack
<1> QED
  BY <1>1, <1>2, PTL DEF Spec

-----------------------------------------------------------------------------
(* How far cacheQueue is ahead of playQueue. *)

PopOwes == Cardinality(InPopCallback)
RemoversOwe == Cardinality(OwingRemovers)

\* The counts MirrorLength adds up are numbers.
LEMMA CountsAreNumbers ==
    /\ IsFiniteSet(InPopCallback) /\ PopOwes \in Nat
    /\ IsFiniteSet(OwingRemovers) /\ RemoversOwe \in Nat
<1>1. IsFiniteSet({Player}) /\ InPopCallback \subseteq {Player}
  BY FS_Singleton DEF InPopCallback
<1>2. OwingRemovers \subseteq Remover
  BY DEF OwingRemovers
<1> QED
  BY <1>1, <1>2, TrackQueueAssumption, FS_Subset, FS_CardinalityType DEF PopOwes, RemoversOwe

\* A step in which the player neither enters nor leaves the callback's first part
\* leaves the pop's debt; one in which it enters adds one, one in which it leaves
\* takes one off.
LEMMA PopDebt ==
    /\ (pc'[Player] \in {"cacheCheck", "cacheTake"} <=> pc[Player] \in {"cacheCheck", "cacheTake"})
         => PopOwes' = PopOwes
    /\ pc[Player] \notin {"cacheCheck", "cacheTake"} /\ pc'[Player] \in {"cacheCheck", "cacheTake"}
         => PopOwes = 0 /\ PopOwes' = 1
    /\ pc[Player] \in {"cacheCheck", "cacheTake"} /\ pc'[Player] \notin {"cacheCheck", "cacheTake"}
         => PopOwes = 1 /\ PopOwes' = 0
<1>1. Cardinality({}) = 0 /\ Cardinality({Player}) = 1
  BY FS_EmptySet, FS_Singleton
<1>2. /\ pc[Player] \in {"cacheCheck", "cacheTake"} => InPopCallback = {Player}
      /\ pc[Player] \notin {"cacheCheck", "cacheTake"} => InPopCallback = {}
      /\ pc'[Player] \in {"cacheCheck", "cacheTake"} => InPopCallback' = {Player}
      /\ pc'[Player] \notin {"cacheCheck", "cacheTake"} => InPopCallback' = {}
  BY DEF InPopCallback
<1> QED
  BY <1>1, <1>2 DEF PopOwes

\* The same for removeTrack: a client that has done its first Remove adds one to
\* what is owed, one that has done its second takes one off.
LEMMA RemoversDebt ==
    /\ (\A r \in Remover : pc'[r] \in {"cache", "panicked"} <=> pc[r] \in {"cache", "panicked"})
         => RemoversOwe' = RemoversOwe
    /\ \A r \in Remover :
         (\A q \in Remover \ {r} : pc'[q] = pc[q]) =>
           /\ pc[r] \notin {"cache", "panicked"} /\ pc'[r] \in {"cache", "panicked"}
                => RemoversOwe' = RemoversOwe + 1
           /\ pc[r] \in {"cache", "panicked"} /\ pc'[r] \notin {"cache", "panicked"}
                => RemoversOwe' = RemoversOwe - 1
<1>1. ASSUME \A r \in Remover : pc'[r] \in {"cache", "panicked"} <=> pc[r] \in {"cache", "panicked"}
      PROVE  RemoversOwe' = RemoversOwe
  <2>1. OwingRemovers' = OwingRemovers
    BY <1>1 DEF OwingRemovers
  <2> QED
    BY <2>1 DEF RemoversOwe
<1>2. ASSUME NEW r \in Remover, \A q \in Remover \ {r} : pc'[q] = pc[q],
             pc[r] \notin {"cache", "panicked"}, pc'[r] \in {"cache", "panicked"}
      PROVE  RemoversOwe' = RemoversOwe + 1
  <2>1. OwingRemovers' = OwingRemovers \cup {r} /\ r \notin OwingRemovers
    BY <1>2 DEF OwingRemovers
  <2> QED
    BY <2>1, CountsAreNumbers, FS_AddElement DEF RemoversOwe
<1>3. ASSUME NEW r \in Remover, \A q \in Remover \ {r} : pc'[q] = pc[q],
             pc[r] \in {"cache", "panicked"}, pc'[r] \notin {"cache", "panicked"}
      PROVE  RemoversOwe' = RemoversOwe - 1
  <2>1. OwingRemovers' = OwingRemovers \ {r} /\ r \in OwingRemovers
    BY <1>3 DEF OwingRemovers
  <2> QED
    BY <2>1, CountsAreNumbers, FS_RemoveElement DEF RemoversOwe
<1> QED
  BY <1>1, <1>2, <1>3

\* cacheQueue is longer than playQueue by exactly one for a pop whose callback has
\* not popped cacheQueue, one for every removeTrack between its two Removes, and
\* one for every removeTrack that panicked: the gap never closes again.
THEOREM MirrorInvariant == Spec => []MirrorLength
<1> USE DEF PopOwes, RemoversOwe
<1>1. Init => MirrorLength
  <2> SUFFICES ASSUME Init PROVE MirrorLength
    OBVIOUS
  <2>1. InPopCallback = {} /\ OwingRemovers = {}
    BY TrackQueueAssumption DEF Init, InPopCallback, OwingRemovers, Goroutine
  <2> QED
    BY <2>1, FS_EmptySet DEF Init, MirrorLength
<1>2. TypeOK /\ MirrorLength /\ [Next]_vars => MirrorLength'
  <2> SUFFICES ASSUME TypeOK, MirrorLength, [Next]_vars PROVE MirrorLength'
    OBVIOUS
  <2> USE TrackQueueAssumption
      DEF Goto, Goroutine, PlayerPC, EnqueuerPC, RemoverPC, queueVars, socketVars
  <2> DEFINE PopSame == pc'[Player] \in {"cacheCheck", "cacheTake"}
                           <=> pc[Player] \in {"cacheCheck", "cacheTake"}
             RemoversSame == \A r \in Remover :
                pc'[r] \in {"cache", "panicked"} <=> pc[r] \in {"cache", "panicked"}
             GapSame == Len(cacheQueue') - Len(playQueue') = Len(cacheQueue) - Len(playQueue)
  <2>1. /\ Len(playQueue) \in Nat /\ Len(cacheQueue) \in Nat
        /\ playQueue # <<>> => Len(Tail(playQueue)) = Len(playQueue) - 1
        /\ cacheQueue # <<>> => Len(Tail(cacheQueue)) = Len(cacheQueue) - 1
    BY DEF TypeOK
  \* Steps that keep the gap and every debt.
  <2>2. ASSUME PopSame, RemoversSame, GapSame,
               Len(playQueue') \in Nat, Len(cacheQueue') \in Nat
        PROVE  MirrorLength'
    <3>1. PopOwes' = PopOwes /\ RemoversOwe' = RemoversOwe
      BY <2>2, PopDebt, RemoversDebt
    <3>2. Len(cacheQueue) = Len(playQueue) + PopOwes + RemoversOwe
      BY DEF MirrorLength
    <3>3. Len(cacheQueue') = Len(playQueue') + PopOwes + RemoversOwe
      <4> HIDE DEF PopOwes, RemoversOwe, PopSame, RemoversSame
      <4> QED
        BY <2>1, <2>2, <3>2, CountsAreNumbers
    <3> QED
      BY <3>1, <3>3 DEF MirrorLength
  <2>3. ASSUME UNCHANGED <<playQueue, cacheQueue>>, PopSame, RemoversSame PROVE MirrorLength'
    BY <2>1, <2>2, <2>3
  <2>4. ASSUME NEW t \in Track, PushTrack(t) PROVE MirrorLength'
    <3>1. /\ Len(playQueue') = Len(playQueue) + 1 /\ Len(playQueue') \in Nat
          /\ Len(cacheQueue') = Len(cacheQueue) + 1 /\ Len(cacheQueue') \in Nat
      BY <2>4 DEF PushTrack, TypeOK
    <3>2. PopSame /\ RemoversSame
      BY <2>4 DEF PushTrack, BeginNotify, TypeOK
    <3> QED
      BY <2>1, <2>2, <3>1, <3>2
  <2>5. ASSUME NEW t \in Track, PushUnlock(t) \/ PushSignal(t) PROVE MirrorLength'
    <3>1. PopSame /\ RemoversSame
      BY <2>5 DEF PushUnlock, EndNotify, PushSignal, TypeOK
    <3> QED
      BY <2>3, <2>5, <3>1 DEF PushUnlock, PushSignal
  <2>6. ASSUME PopCheck \/ PopWait \/ PopEmptyPanic \/ CacheCheck \/ PopUnlock \/ PlayNext
        PROVE  MirrorLength'
    <3>1. PopSame /\ RemoversSame
      BY <2>6 DEF PopCheck, PopWait, PopEmptyPanic, CacheCheck, PopUnlock, EndNotify, PlayNext, TypeOK
    <3> QED
      BY <2>3, <2>6, <3>1 DEF PopCheck, PopWait, PopEmptyPanic, CacheCheck, PopUnlock, PlayNext
  \* One off playQueue, one more owed by the pop.
  <2>7. CASE PopTake
    <3>1. PopOwes = 0 /\ PopOwes' = 1 /\ RemoversOwe' = RemoversOwe
      <4>1. /\ pc[Player] = "take" /\ pc'[Player] = "cacheCheck"
            /\ RemoversSame
        BY <2>7 DEF PopTake, TypeOK
      <4> QED
        BY <4>1, PopDebt, RemoversDebt
    <3> QED
      BY <2>1, <2>7, <3>1, CountsAreNumbers DEF MirrorLength, PopTake
  \* The pop pays: one off cacheQueue.
  <2>8. CASE CacheTake
    <3>1. PopOwes = 1 /\ PopOwes' = 0 /\ RemoversOwe' = RemoversOwe
      <4>1. /\ pc[Player] = "cacheTake" /\ pc'[Player] = "notify"
            /\ RemoversSame
        BY <2>8 DEF CacheTake, BeginNotify, TypeOK
      <4> QED
        BY <4>1, PopDebt, RemoversDebt
    <3> QED
      BY <2>1, <2>8, <3>1, CountsAreNumbers DEF MirrorLength, CacheTake
  \* One off playQueue, one more owed by this client.
  <2>9. ASSUME NEW r \in Remover, RemovePlay(r) PROVE MirrorLength'
    <3>1. Len(playQueue') = Len(playQueue) - 1 /\ cacheQueue' = cacheQueue
      BY <2>9, RemoveAtProperties DEF RemovePlay, IsFirstMatch, TypeOK
    <3>2. RemoversOwe' = RemoversOwe + 1 /\ PopOwes' = PopOwes
      <4>1. /\ pc[r] = "idle" /\ pc'[r] = "cache" /\ PopSame
            /\ \A q \in Remover \ {r} : pc'[q] = pc[q]
        BY <2>9 DEF RemovePlay, TypeOK
      <4> QED
        BY <4>1, PopDebt, RemoversDebt
    <3> QED
      BY <2>1, <3>1, <3>2, CountsAreNumbers DEF MirrorLength
  \* The client pays: one off cacheQueue.
  <2>10. ASSUME NEW r \in Remover, RemoveCache(r) PROVE MirrorLength'
    <3>1. Len(cacheQueue') = Len(cacheQueue) - 1 /\ playQueue' = playQueue
      BY <2>10, RemoveAtProperties DEF RemoveCache, IsFirstMatch, TypeOK
    <3>2. RemoversOwe' = RemoversOwe - 1 /\ PopOwes' = PopOwes
      <4>1. /\ pc[r] = "cache" /\ pc'[r] = "notify" /\ PopSame
            /\ \A q \in Remover \ {r} : pc'[q] = pc[q]
        BY <2>10 DEF RemoveCache, BeginNotify, TypeOK
      <4> QED
        BY <4>1, PopDebt, RemoversDebt
    <3> QED
      BY <2>1, <3>1, <3>2, CountsAreNumbers DEF MirrorLength
  \* A client that panics never pays: "cache" and "panicked" count alike.
  <2>11. ASSUME NEW r \in Remover, RemovePanic(r) \/ RemoveReturn(r) PROVE MirrorLength'
    <3>1. PopSame /\ RemoversSame
      BY <2>11 DEF RemovePanic, RemoveReturn, EndNotify, TypeOK
    <3> QED
      BY <2>3, <2>11, <3>1 DEF RemovePanic, RemoveReturn
  <2>12. ASSUME UNCHANGED <<playQueue, cacheQueue, pc>> PROVE MirrorLength'
    BY <2>3, <2>12
  <2>13. ASSUME NEW w \in Socket, Serve(w) PROVE MirrorLength'
    BY <2>12, <2>13 DEF Serve, Connect, ReadQueue, WriteQueue, Disconnect
  <2>14. ASSUME NEW g \in Goroutine, NEW w \in Socket, NotifyOne(g, w) PROVE MirrorLength'
    BY <2>12, <2>14 DEF NotifyOne
  <2>15. CASE UNCHANGED vars
    BY <2>12, <2>15 DEF vars
  <2> QED
    BY <2>4, <2>5, <2>6, <2>7, <2>8, <2>9, <2>10, <2>11, <2>13, <2>14, <2>15
       DEF Next, Enqueue, Play, RemoveTrack
<1> QED
  BY <1>1, <1>2, TypeCorrect, PTL DEF Spec

\* While dequeueCallback is about to pop cacheQueue, cacheQueue has an element, so
\* that it never waits for one with playQueue.mux in its hands.
THEOREM CallbackNeverStuck == Spec => []PopCallbackNeverStuck
<1>1. TypeOK /\ MirrorLength => PopCallbackNeverStuck
  <2> SUFFICES ASSUME TypeOK, MirrorLength, InPopCallback # {} PROVE cacheQueue # <<>>
    BY DEF PopCallbackNeverStuck
  <2>1. PopOwes = 1
    <3>1. InPopCallback = {Player}
      BY DEF InPopCallback
    <3> QED
      BY <3>1, FS_Singleton DEF PopOwes
  <2>2. Len(cacheQueue) >= 1
    BY <2>1, CountsAreNumbers DEF MirrorLength, TypeOK, PopOwes, RemoversOwe
  <2> QED
    BY <2>2
<1> QED
  BY <1>1, TypeCorrect, MirrorInvariant, PTL

\* The playQueue, with its callbacks, its removals and the player's panics, is
\* still the abstract queue: what the player gets is the front track.
THEOREM Refinement == Spec => ImplementsFifo
<1>1. Init => Fifo!FifoInit
  BY DEF Init, Fifo!FifoInit
<1>2. [Next]_vars => [Fifo!FifoNext]_(Fifo!fifoVars)
  <2> SUFFICES ASSUME [Next]_vars PROVE [Fifo!FifoNext]_(Fifo!fifoVars)
    OBVIOUS
  <2> USE DEF Fifo!FifoNext, Fifo!fifoVars
  <2>1. ASSUME UNCHANGED <<playQueue, playing>> PROVE UNCHANGED Fifo!fifoVars
    BY <2>1
  <2>2. ASSUME NEW t \in Track, Enqueue(t) PROVE [Fifo!FifoNext]_(Fifo!fifoVars)
    <3>1. CASE PushTrack(t)
      BY <3>1 DEF PushTrack, Fifo!Put
    <3>2. CASE PushUnlock(t) \/ PushSignal(t)
      BY <2>1, <3>2 DEF PushUnlock, PushSignal, queueVars
    <3> QED
      BY <2>2, <3>1, <3>2 DEF Enqueue
  <2>3. ASSUME Play PROVE [Fifo!FifoNext]_(Fifo!fifoVars)
    <3>1. CASE PopTake
      <4>1. Fifo!Take(Player)
        BY <3>1 DEF PopTake, Fifo!Take
      <4> QED
        BY <4>1
    <3>2. CASE PopCheck \/ PopWait \/ PopEmptyPanic
      BY <2>1, <3>2 DEF PopCheck, PopWait, PopEmptyPanic, queueVars
    <3>3. CASE CacheCheck \/ CacheTake \/ PopUnlock \/ PlayNext
      BY <2>1, <3>3 DEF CacheCheck, CacheTake, PopUnlock, PlayNext, queueVars
    <3> QED
      BY <2>3, <3>1, <3>2, <3>3 DEF Play
  <2>4. ASSUME NEW r \in Remover, RemoveTrack(r) PROVE [Fifo!FifoNext]_(Fifo!fifoVars)
    <3>1. CASE RemovePlay(r)
      <4>1. Fifo!Drop
        BY <3>1 DEF RemovePlay, IsFirstMatch, Fifo!Drop, RemoveAt, Fifo!RemoveAt
      <4> QED
        BY <4>1
    <3>2. CASE RemoveCache(r) \/ RemovePanic(r) \/ RemoveReturn(r)
      BY <2>1, <3>2 DEF RemoveCache, RemovePanic, RemoveReturn, queueVars
    <3> QED
      BY <2>4, <3>1, <3>2 DEF RemoveTrack
  <2>5. ASSUME NEW w \in Socket, Serve(w) PROVE UNCHANGED Fifo!fifoVars
    BY <2>1, <2>5 DEF Serve, Connect, ReadQueue, WriteQueue, Disconnect, queueVars
  <2>6. ASSUME NEW g \in Goroutine, NEW w \in Socket, NotifyOne(g, w)
        PROVE  UNCHANGED Fifo!fifoVars
    BY <2>1, <2>6 DEF NotifyOne, queueVars
  <2>7. CASE UNCHANGED vars
    BY <2>1, <2>7 DEF vars, queueVars
  <2> QED
    BY <2>2, <2>3, <2>4, <2>5, <2>6, <2>7 DEF Next
<1> QED
  BY <1>1, <1>2, PTL DEF Spec, ImplementsFifo, Fifo!FifoSpec

-----------------------------------------------------------------------------
(* The mirror is exact until somebody removes a track: no remover that has  *)
(* begun is idle again, and nobody but the player's own callback is inside  *)
(* playQueue.mux between its two pops.                                      *)

InCallback == pc[Player] \in {"cacheCheck", "cacheTake"}

MuxHolder ==
    /\ InCallback \/ pc[Player] = "notify" => playMux = Player
    /\ \A t \in Track : pc[t] = "notify" => playMux = t

Mirrors ==
    (\A r \in Remover : pc[r] = "idle") =>
        IF InCallback THEN cacheQueue # <<>> /\ Tail(cacheQueue) = playQueue
                      ELSE cacheQueue = playQueue

ExactInv == TypeOK /\ MuxHolder /\ Mirrors

LEMMA MuxHolderStep == ASSUME ExactInv, [Next]_vars PROVE MuxHolder'
<1> USE TrackQueueAssumption DEF ExactInv, TypeOK, MuxHolder, InCallback, Goroutine, Goto, queueVars
<1>1. ASSUME NEW t \in Track, Enqueue(t) PROVE MuxHolder'
  BY <1>1 DEF Enqueue, PushTrack, PushUnlock, PushSignal, BeginNotify, EndNotify
<1>2. CASE Play
  BY <1>2 DEF Play, PopCheck, PopWait, PopTake, PopEmptyPanic, CacheCheck, CacheTake, PopUnlock,
              PlayNext, BeginNotify, EndNotify
<1>3. ASSUME NEW r \in Remover, RemoveTrack(r) PROVE MuxHolder'
  BY <1>3 DEF RemoveTrack, RemovePlay, RemoveCache, RemovePanic, RemoveReturn, BeginNotify, EndNotify
<1>4. CASE UNCHANGED <<pc, playMux>>
  BY <1>4
<1> QED
  BY <1>1, <1>2, <1>3, <1>4
  DEF Next, vars, Serve, Connect, ReadQueue, WriteQueue, Disconnect, NotifyOne

LEMMA MirrorsStep == ASSUME ExactInv, [Next]_vars PROVE Mirrors'
<1> USE TrackQueueAssumption DEF ExactInv, TypeOK, MuxHolder, Mirrors, InCallback, Goroutine, Goto,
                                 queueVars
<1>1. ASSUME NEW t \in Track, Enqueue(t) PROVE Mirrors'
  BY <1>1 DEF Enqueue, PushTrack, PushUnlock, PushSignal, BeginNotify, EndNotify
<1>2. CASE Play
  <2>1. CASE PopTake
    BY <2>1 DEF PopTake
  <2>2. CASE CacheTake
    BY <2>2 DEF CacheTake, BeginNotify
  <2>3. CASE UNCHANGED <<playQueue, cacheQueue>> /\ InCallback' = InCallback
    BY <1>2, <2>3 DEF Play, PopCheck, PopWait, PopTake, PopEmptyPanic, CacheCheck, CacheTake,
                      PopUnlock, PlayNext, EndNotify
  <2> QED
    BY <1>2, <2>1, <2>2, <2>3
    DEF Play, PopCheck, PopWait, PopEmptyPanic, CacheCheck, PopUnlock, PlayNext, EndNotify
<1>3. ASSUME NEW r \in Remover, RemoveTrack(r) PROVE pc'[r] # "idle"
  BY <1>3 DEF RemoveTrack, RemovePlay, RemoveCache, RemovePanic, RemoveReturn, BeginNotify, EndNotify
<1>4. CASE UNCHANGED <<pc, playQueue, cacheQueue>>
  BY <1>4
<1> QED
  BY <1>1, <1>2, <1>3, <1>4
  DEF Next, vars, Serve, Connect, ReadQueue, WriteQueue, Disconnect, NotifyOne

\* Until the first removal the mirror is exact whenever mux is free, for any
\* number of tracks, sockets and removers to come.
THEOREM MirrorIsExact == Spec => []MirrorExact
<1>1. Init => MuxHolder /\ Mirrors
  BY TrackQueueAssumption DEF Init, MuxHolder, Mirrors, InCallback, Goroutine
<1>2. ExactInv /\ [Next]_vars => MuxHolder' /\ Mirrors'
  BY MuxHolderStep, MirrorsStep
<1>3. ExactInv => MirrorExact
  BY TrackQueueAssumption DEF ExactInv, MuxHolder, Mirrors, InCallback, MirrorExact
<1> QED
  BY <1>1, <1>2, <1>3, TypeCorrect, PTL DEF Spec, ExactInv

-----------------------------------------------------------------------------
(* What a socket is told, put together, is the queue.  A track is announced   *)
(* with the mutex held, to all sockets there are; a socket that joins later    *)
(* reads the list later.  A removal takes a track whose announcement is over,  *)
(* because it needs the mutex first.                                           *)

Told(w, t)   == \E i \in DOMAIN inbox[w] : Mentions(inbox[w][i], t)
Announced(t) == pc[t] \in {"signal", "done"}

\* Each goroutine announces what is its own to announce.
CastsOwn ==
    /\ \A t \in Track : pc[t] = "notify" => casts[t].msg = [op |-> "enqueued", track |-> t]
    /\ \A g \in Remover \cup {Player} : pc[g] = "notify" => casts[g].msg.op = "remove"

NewIsNowhere == \A t \in Track : pc[t] = "new" => t \notin Range(playQueue) \cup Range(cacheQueue)

\* A socket that has read the list knows each track of the queue, or will be told.
Arrives ==
    \A w \in Socket : sockets[w] \in {"snapped", "open"} =>
        \A t \in Range(cacheQueue) :
            \/ t \in Range(snapshot[w]) \/ Told(w, t)
            \/ pc[t] = "notify" /\ w \in casts[t].due \ casts[t].sent

ListIsTold ==
    \A w \in Socket : sockets[w] = "open" => \A t \in Range(snapshot[w]) : Told(w, t)

\* What is being removed, and what was said to be, has been announced before.
RemovedWereAnnounced ==
    UniquePlayIDs =>
        /\ \A g \in Remover \cup {Player} :
             pc[g] \in {"notify", "cache"} => Announced(casts[g].msg.track)
        /\ \A w \in Socket : \A i \in DOMAIN inbox[w] : \A t \in Track :
             Says(inbox[w][i], "remove", t) => Announced(t)

\* Each track is in cacheQueue once, and does not come back.
NoDuplicates == \A i, j \in DOMAIN cacheQueue : cacheQueue[i] = cacheQueue[j] => i = j
Gone(t)      == t \notin Range(cacheQueue) /\ pc[t] # "new"
RemovingGone == \A g \in Remover \cup {Player} : pc[g] = "notify" => Gone(casts[g].msg.track)
SaidGone     == \A w \in Socket : \A i \in DOMAIN inbox[w] : \A t \in Track :
                   Says(inbox[w][i], "remove", t) => Gone(t)

FollowInv ==
    /\ ExactInv /\ CastsOwn /\ NewIsNowhere /\ Arrives /\ ListIsTold
    /\ RemovedWereAnnounced /\ RemovalNotBeforeArrival
    /\ NoDuplicates /\ RemovingGone /\ SaidGone

\* Elements of sequences.
LEMMA RangeOfAppend ==
  ASSUME NEW S, NEW s \in Seq(S), NEW e \in S
  PROVE  Range(Append(s, e)) = Range(s) \cup {e}
<1>1. /\ DOMAIN Append(s, e) = DOMAIN s \cup {Len(s) + 1}
      /\ Append(s, e)[Len(s) + 1] = e
      /\ \A i \in DOMAIN s : Append(s, e)[i] = s[i]
  OBVIOUS
<1> QED BY <1>1 DEF Range

LEMMA RangeOfTail ==
  ASSUME NEW S, NEW s \in Seq(S), s # <<>>
  PROVE  Range(Tail(s)) \subseteq Range(s) /\ Head(s) \in Range(s)
<1>1. /\ 1 \in DOMAIN s /\ Head(s) = s[1]
      /\ \A i \in DOMAIN Tail(s) : i + 1 \in DOMAIN s /\ Tail(s)[i] = s[i + 1]
  OBVIOUS
<1> QED BY <1>1 DEF Range

LEMMA RangeOfRemoveAt ==
  ASSUME NEW S, NEW s \in Seq(S), NEW i \in DOMAIN s
  PROVE  Range(RemoveAt(s, i)) \subseteq Range(s) /\ s[i] \in Range(s)
<1>1. \A j \in DOMAIN RemoveAt(s, i) : \E k \in DOMAIN s : RemoveAt(s, i)[j] = s[k]
  <2> SUFFICES ASSUME NEW j \in DOMAIN RemoveAt(s, i)
               PROVE  \E k \in DOMAIN s : RemoveAt(s, i)[j] = s[k]
    OBVIOUS
  <2>1. j \in Nat /\ j >= 1 /\ j <= Len(s) - 1
    BY RemoveAtProperties
  <2>2. RemoveAt(s, i)[j] = IF j < i THEN s[j] ELSE s[j + 1]
    BY <2>1 DEF RemoveAt
  <2>3. j \in DOMAIN s /\ j + 1 \in DOMAIN s
    BY <2>1
  <2> QED BY <2>2, <2>3
<1> QED BY <1>1 DEF Range

\* A socket never forgets.
LEMMA TellSocket ==
  ASSUME TypeOK, NEW w \in Socket, NEW m \in Message, Write(w, m)
  PROVE  /\ \A v \in Socket, t \in Track : Told(v, t) => Told(v, t)'
         /\ \A t \in Track : Mentions(m, t) => Told(w, t)'
         /\ \A v \in Socket \ {w} : inbox'[v] = inbox[v]
         /\ \E n : /\ DOMAIN inbox'[w] = DOMAIN inbox[w] \cup {n} /\ inbox'[w][n] = m
                   /\ \A i \in DOMAIN inbox[w] : i < n /\ ~(n < i) /\ inbox'[w][i] = inbox[w][i]
                   /\ ~(n < n)
<1>1. PICK s \in Seq(Message) : s = inbox[w]
  BY DEF TypeOK
<1>2. PICK n \in Nat : n = Len(s) + 1
  OBVIOUS
<1>3. /\ DOMAIN Append(s, m) = DOMAIN s \cup {n} /\ Append(s, m)[n] = m
      /\ \A i \in DOMAIN s : Append(s, m)[i] = s[i] /\ i < n /\ ~(n < i)
  BY <1>2
<1>4. /\ inbox'[w] = Append(s, m) /\ \A v \in Socket \ {w} : inbox'[v] = inbox[v]
  BY <1>1 DEF Write, TypeOK
<1>5. ~(n < n)
  OBVIOUS
<1>6. \A v \in Socket, t \in Track : Told(v, t) => Told(v, t)'
  BY <1>1, <1>3, <1>4 DEF Told, Mentions
<1>7. \A t \in Track : Mentions(m, t) => Told(w, t)'
  BY <1>3, <1>4 DEF Told, Mentions
<1> QED BY <1>1, <1>3, <1>4, <1>5, <1>6, <1>7

\* What is written to a socket is the list, or what somebody has to announce.
LEMMA InboxStep ==
  ASSUME TypeOK, [Next]_vars
  PROVE  \/ UNCHANGED inbox
         \/ \E w \in Socket, m \in Message :
              /\ Write(w, m) /\ UNCHANGED pc
              /\ m.op = "queue" \/ \E g \in Goroutine : pc[g] = "notify" /\ m = casts[g].msg
<1>1. CASE \E w \in Socket : WriteQueue(w)
  <2>1. PICK w \in Socket : WriteQueue(w)
    BY <1>1
  <2> DEFINE m == [op |-> "queue", tracks |-> snapshot[w]]
  <2>2. m \in Message /\ m.op = "queue"
    BY DEF TypeOK, Message, Listing
  <2> QED BY <2>1, <2>2 DEF WriteQueue
<1>2. CASE \E g \in Goroutine, w \in Socket : NotifyOne(g, w)
  <2>1. PICK g \in Goroutine, w \in Socket : NotifyOne(g, w)
    BY <1>2
  <2>2. casts[g].msg \in Message /\ pc[g] = "notify"
    BY <2>1 DEF NotifyOne, TypeOK, Message
  <2> QED BY <2>1, <2>2 DEF NotifyOne
<1>3. CASE UNCHANGED inbox
  BY <1>3
<1> QED
  BY <1>1, <1>2, <1>3
  DEF Next, vars, socketVars, Enqueue, PushTrack, PushUnlock, PushSignal, Play, PopCheck, PopWait,
      PopTake, PopEmptyPanic, CacheCheck, CacheTake, PopUnlock, PlayNext, RemoveTrack, RemovePlay,
      RemoveCache, RemovePanic, RemoveReturn, Serve, Connect, ReadQueue, Disconnect

\* Neither what was announced nor what was told is taken back.
LEMMA NothingForgotten ==
  ASSUME TypeOK, [Next]_vars
  PROVE  /\ \A t \in Track : Announced(t) => Announced(t)'
         /\ \A w \in Socket, t \in Track : Told(w, t) => Told(w, t)'
<1>1. \A t \in Track : Announced(t) => Announced(t)'
  <2> USE TrackQueueAssumption DEF TypeOK, Announced, Goroutine, Goto
  <2>1. ASSUME NEW t \in Track, Enqueue(t) PROVE \A u \in Track : Announced(u) => Announced(u)'
    BY <2>1 DEF Enqueue, PushTrack, PushUnlock, PushSignal, BeginNotify, EndNotify
  <2>2. CASE Play
    BY <2>2 DEF Play, PopCheck, PopWait, PopTake, PopEmptyPanic, CacheCheck, CacheTake, PopUnlock,
                PlayNext, BeginNotify, EndNotify
  <2>3. ASSUME NEW r \in Remover, RemoveTrack(r)
        PROVE  \A u \in Track : Announced(u) => Announced(u)'
    BY <2>3 DEF RemoveTrack, RemovePlay, RemoveCache, RemovePanic, RemoveReturn, BeginNotify, EndNotify
  <2>4. CASE UNCHANGED pc
    BY <2>4
  <2> QED
    BY <2>1, <2>2, <2>3, <2>4
    DEF Next, vars, Serve, Connect, ReadQueue, WriteQueue, Disconnect, NotifyOne
<1>2. \A w \in Socket, t \in Track : Told(w, t) => Told(w, t)'
  BY InboxStep, TellSocket DEF Told, Mentions
<1> QED BY <1>1, <1>2

\* A notification that is under way keeps its message.
LEMMA CastsKept ==
  ASSUME TypeOK, NEW g \in Goroutine, NEW w \in Socket, NotifyOne(g, w)
  PROVE  /\ \A h \in Goroutine : casts'[h].msg = casts[h].msg /\ casts'[h].due = casts[h].due
         /\ casts'[g].sent = casts[g].sent \cup {w}
         /\ \A h \in Goroutine \ {g} : casts'[h] = casts[h]
<1>1. casts[g] = [msg |-> casts[g].msg, due |-> casts[g].due, sent |-> casts[g].sent]
  BY DEF TypeOK, Cast
<1>2. PICK c : c = casts[g]
  OBVIOUS
<1>3. casts' = [casts EXCEPT ![g] = [c EXCEPT !.sent = casts[g].sent \cup {w}]]
  BY <1>2 DEF NotifyOne
<1>4. \A x : LET d == [c EXCEPT !.sent = x] IN d.msg = c.msg /\ d.due = c.due /\ d.sent = x
  BY <1>1, <1>2
<1>5. PICK d : /\ d = [c EXCEPT !.sent = casts[g].sent \cup {w}]
               /\ d.msg = c.msg /\ d.due = c.due /\ d.sent = casts[g].sent \cup {w}
  BY <1>4
<1>6. casts' = [casts EXCEPT ![g] = d]
  BY <1>3, <1>5
<1> QED BY <1>2, <1>5, <1>6 DEF TypeOK

\* A client's first Remove says which track it took, and leaves the other calls alone.
LEMMA CastAsked ==
  ASSUME TypeOK, NEW r \in Remover, RemovePlay(r)
  PROVE  \E i \in DOMAIN playQueue :
            /\ playQueue' = RemoveAt(playQueue, i)
            /\ casts'[r].msg.track = playQueue[i]
            /\ \A h \in Goroutine \ {r} : casts'[h] = casts[h]
<1>1. PICK i \in DOMAIN playQueue :
        /\ playQueue' = RemoveAt(playQueue, i)
        /\ casts' = [casts EXCEPT ![r].msg = [op |-> "asked", track |-> playQueue[i]]]
  BY DEF RemovePlay
<1>2. PICK m : m = [op |-> "asked", track |-> playQueue[i]]
  OBVIOUS
<1>3. m \in Asked /\ m.track = playQueue[i]
  BY <1>2 DEF TypeOK, Asked
<1>4. casts[r] \in Cast /\ casts[r].sent \in SUBSET Socket
  BY DEF TypeOK, Goroutine, Cast
<1>5. \A n \in Asked : [casts[r] EXCEPT !.msg = n].msg = n
  BY <1>4, CastUpdate
<1>6. PICK d : d = [casts[r] EXCEPT !.msg = m] /\ d.msg = m
  BY <1>3, <1>5
<1>7. casts' = [casts EXCEPT ![r] = d]
  BY <1>1, <1>2, <1>6
<1> QED BY <1>1, <1>3, <1>6, <1>7 DEF TypeOK, Goroutine

LEMMA CastsOwnStep == ASSUME TypeOK, CastsOwn, [Next]_vars PROVE CastsOwn'
<1> USE TrackQueueAssumption DEF TypeOK, CastsOwn, Goroutine, Goto
<1>1. ASSUME NEW t \in Track, Enqueue(t) PROVE CastsOwn'
  <2>1. CASE PushTrack(t)
    <3>1. /\ casts'[t].msg = [op |-> "enqueued", track |-> t]
          /\ \A h \in Goroutine \ {t} : casts'[h] = casts[h] /\ pc'[h] = pc[h]
      BY <2>1 DEF PushTrack, BeginNotify
    <3> QED BY <3>1
  <2>2. CASE PushUnlock(t) \/ PushSignal(t)
    BY <2>2 DEF PushUnlock, PushSignal, EndNotify
  <2> QED BY <1>1, <2>1, <2>2 DEF Enqueue
<1>2. CASE Play
  BY <1>2 DEF Play, PopCheck, PopWait, PopTake, PopEmptyPanic, CacheCheck, CacheTake, PopUnlock,
              PlayNext, BeginNotify, EndNotify
<1>3. ASSUME NEW r \in Remover, RemoveTrack(r) PROVE CastsOwn'
  <2>1. CASE RemovePlay(r)
    <3>1. /\ \A h \in Goroutine \ {r} : casts'[h] = casts[h] /\ pc'[h] = pc[h]
          /\ pc'[r] = "cache"
      BY <2>1, CastAsked DEF RemovePlay
    <3> QED BY <3>1
  <2>2. CASE RemoveCache(r)
    <3>1. /\ casts'[r].msg.op = "remove"
          /\ \A h \in Goroutine \ {r} : casts'[h] = casts[h] /\ pc'[h] = pc[h]
      BY <2>2 DEF RemoveCache, BeginNotify
    <3> QED BY <3>1
  <2>3. CASE RemovePanic(r) \/ RemoveReturn(r)
    BY <2>3 DEF RemovePanic, RemoveReturn, EndNotify
  <2> QED BY <1>3, <2>1, <2>2, <2>3 DEF RemoveTrack
<1>4. CASE UNCHANGED <<pc, casts>>
  BY <1>4
<1>5. ASSUME NEW g \in Goroutine, NEW w \in Socket, NotifyOne(g, w) PROVE CastsOwn'
  <2>1. pc' = pc /\ \A h \in Goroutine : casts'[h].msg = casts[h].msg
    BY <1>5, CastsKept DEF NotifyOne
  <2> QED BY <2>1
<1> QED
  BY <1>1, <1>2, <1>3, <1>4, <1>5 DEF Next, vars, Serve, Connect, ReadQueue, WriteQueue, Disconnect

\* What each step does to the queues: only a push adds, and what it adds is new.
LEMMA QueuesStep ==
  ASSUME TypeOK, [Next]_vars
  PROVE  \/ /\ Range(playQueue') \subseteq Range(playQueue)
            /\ Range(cacheQueue') \subseteq Range(cacheQueue)
         \/ \E t \in Track :
              /\ PushTrack(t)
              /\ Range(playQueue') = Range(playQueue) \cup {t}
              /\ Range(cacheQueue') = Range(cacheQueue) \cup {t}
<1> USE DEF TypeOK
<1>1. CASE \E t \in Track : PushTrack(t)
  BY <1>1, RangeOfAppend DEF PushTrack
<1>2. CASE PopTake
  BY <1>2, RangeOfTail DEF PopTake
<1>3. CASE CacheTake
  BY <1>3, RangeOfTail DEF CacheTake
<1>4. ASSUME NEW r \in Remover, RemovePlay(r) \/ RemoveCache(r)
      PROVE  /\ Range(playQueue') \subseteq Range(playQueue)
             /\ Range(cacheQueue') \subseteq Range(cacheQueue)
  <2>1. CASE RemovePlay(r)
    BY <2>1, RangeOfRemoveAt DEF RemovePlay
  <2>2. CASE RemoveCache(r)
    BY <2>2, RangeOfRemoveAt DEF RemoveCache, IsFirstMatch
  <2> QED BY <1>4, <2>1, <2>2
<1>5. CASE UNCHANGED <<playQueue, cacheQueue>>
  BY <1>5
<1> QED
  BY <1>1, <1>2, <1>3, <1>4, <1>5
  DEF Next, vars, queueVars, Enqueue, PushUnlock, PushSignal, Play, PopCheck, PopWait,
      PopEmptyPanic, CacheCheck, PopUnlock, PlayNext, RemoveTrack, RemovePanic, RemoveReturn,
      Serve, Connect, ReadQueue, WriteQueue, Disconnect, NotifyOne

LEMMA NeverNewAgain ==
  ASSUME TypeOK, [Next]_vars
  PROVE  \A t \in Track : pc'[t] = "new" => pc[t] = "new"
<1> USE TrackQueueAssumption DEF TypeOK, Goroutine, Goto
<1>1. ASSUME NEW t \in Track, Enqueue(t) PROVE \A u \in Track : pc'[u] = "new" => pc[u] = "new"
  BY <1>1 DEF Enqueue, PushTrack, PushUnlock, PushSignal, BeginNotify, EndNotify
<1>2. CASE Play
  BY <1>2 DEF Play, PopCheck, PopWait, PopTake, PopEmptyPanic, CacheCheck, CacheTake, PopUnlock,
              PlayNext, BeginNotify, EndNotify
<1>3. ASSUME NEW r \in Remover, RemoveTrack(r)
      PROVE  \A u \in Track : pc'[u] = "new" => pc[u] = "new"
  BY <1>3 DEF RemoveTrack, RemovePlay, RemoveCache, RemovePanic, RemoveReturn, BeginNotify, EndNotify
<1>4. CASE UNCHANGED pc
  BY <1>4
<1> QED
  BY <1>1, <1>2, <1>3, <1>4
  DEF Next, vars, Serve, Connect, ReadQueue, WriteQueue, Disconnect, NotifyOne

LEMMA NewIsNowhereStep == ASSUME TypeOK, NewIsNowhere, [Next]_vars PROVE NewIsNowhere'
<1>1. \A t \in Track : pc'[t] = "new" => pc[t] = "new"
  BY NeverNewAgain
<1>2. \A t \in Track : PushTrack(t) => pc'[t] = "notify"
  BY DEF PushTrack, BeginNotify, Goto, TypeOK, Goroutine
<1> QED BY <1>1, <1>2, QueuesStep DEF NewIsNowhere

LEMMA ArrivesStep ==
  ASSUME TypeOK, CastsOwn, NewIsNowhere, Arrives, [Next]_vars PROVE Arrives'
<1> USE TrackQueueAssumption DEF TypeOK, Goroutine, Goto
<1> SUFFICES ASSUME NEW w \in Socket, sockets'[w] \in {"snapped", "open"},
                    NEW t \in Range(cacheQueue')
             PROVE  \/ t \in Range(snapshot'[w]) \/ Told(w, t)'
                    \/ pc'[t] = "notify" /\ w \in casts'[t].due \ casts'[t].sent
  BY DEF Arrives
<1> DEFINE Known == t \in Range(snapshot[w]) \/ Told(w, t)
           ToCome == pc[t] = "notify" /\ w \in casts[t].due \ casts[t].sent
<1>0. t \in Track /\ (t \in Range(cacheQueue) \/ PushTrack(t))
  <2>1. Range(cacheQueue) \subseteq Track
    BY DEF Range
  <2> QED BY <2>1, QueuesStep
<1>1. CASE PushTrack(t)
  <2>1. pc'[t] = "notify" /\ casts'[t].due = Connections /\ casts'[t].sent = {} /\ w \in Connections
    BY <1>0, <1>1 DEF PushTrack, BeginNotify, socketVars, Connections
  <2> QED BY <2>1
<1>2. CASE ReadQueue(w)
  BY <1>2 DEF ReadQueue, Move, queueVars
<1>3. CASE ~PushTrack(t) /\ ~ReadQueue(w)
  <2>1. t \in Range(cacheQueue) /\ t \in Track
    BY <1>0, <1>3
  <2>2. sockets[w] \in {"snapped", "open"} /\ snapshot'[w] = snapshot[w]
    BY <1>3 DEF Next, vars, socketVars, Enqueue, PushTrack, PushUnlock, PushSignal, Play, PopCheck,
       PopWait, PopTake, PopEmptyPanic, CacheCheck, CacheTake, PopUnlock, PlayNext, RemoveTrack,
       RemovePlay, RemoveCache, RemovePanic, RemoveReturn, Serve, Connect, ReadQueue, WriteQueue,
       Disconnect, NotifyOne, Move
  <2>3. Known \/ ToCome
    BY <2>1, <2>2 DEF Arrives
  <2>4. ASSUME ToCome PROVE Told(w, t)' \/ ToCome'
    <3> USE <2>4
    <3>1. ASSUME NEW g \in Goroutine, NEW v \in Socket, NotifyOne(g, v)
          PROVE  Told(w, t)' \/ ToCome'
      <4>1. CASE g = t /\ v = w
        <5>1. casts[t].msg = [op |-> "enqueued", track |-> t]
          BY <2>1 DEF CastsOwn
        <5>2. casts[t].msg \in Message /\ Mentions(casts[t].msg, t)
          BY <2>1, <5>1 DEF Message, Notice, Mentions
        <5> QED BY <2>1, <3>1, <4>1, <5>2, TellSocket DEF NotifyOne
      <4>2. CASE g = t /\ v # w
        BY <2>1, <3>1, <4>2, CastsKept DEF NotifyOne
      <4>3. CASE g # t
        BY <2>1, <3>1, <4>3, CastsKept DEF NotifyOne
      <4> QED BY <4>1, <4>2, <4>3
    <3>2. ASSUME NEW u \in Track, Enqueue(u) PROVE ToCome'
      <4>1. w \in Connections
        BY <2>2 DEF Connections
      <4> QED BY <2>1, <3>2, <4>1 DEF Enqueue, PushTrack, PushUnlock, PushSignal, BeginNotify, EndNotify
    <3>3. CASE Play
      BY <2>1, <3>3 DEF Play, PopCheck, PopWait, PopTake, PopEmptyPanic, CacheCheck, CacheTake,
                        PopUnlock, PlayNext, BeginNotify, EndNotify
    <3>4. ASSUME NEW r \in Remover, RemoveTrack(r) PROVE ToCome'
      <4>1. casts'[t] = casts[t] /\ pc'[t] = pc[t]
        BY <2>1, <3>4, CastAsked
        DEF RemoveTrack, RemovePlay, RemoveCache, RemovePanic, RemoveReturn, BeginNotify, EndNotify
      <4> QED BY <4>1
    <3>5. CASE UNCHANGED <<pc, casts>>
      BY <3>5
    <3> QED
      BY <3>1, <3>2, <3>3, <3>4, <3>5
      DEF Next, vars, Serve, Connect, ReadQueue, WriteQueue, Disconnect
  <2> QED BY <2>2, <2>3, <2>4, <2>1, NothingForgotten
<1> QED BY <1>1, <1>2, <1>3

LEMMA ListIsToldStep == ASSUME TypeOK, ListIsTold, [Next]_vars PROVE ListIsTold'
<1> USE DEF TypeOK
<1> SUFFICES ASSUME NEW w \in Socket, sockets'[w] = "open", NEW t \in Range(snapshot'[w])
             PROVE  Told(w, t)'
  BY DEF ListIsTold
<1>1. CASE WriteQueue(w)
  <2> DEFINE list == [op |-> "queue", tracks |-> snapshot[w]]
  <2>1. list \in Message /\ Mentions(list, t) /\ t \in Track
    BY <1>1 DEF WriteQueue, Message, Listing, Mentions, Range
  <2> HIDE DEF list
  <2>2. Write(w, list)
    BY <1>1 DEF WriteQueue, list
  <2> QED BY <2>1, <2>2, TellSocket
<1>2. CASE ~WriteQueue(w)
  <2>1. sockets[w] = "open" /\ snapshot'[w] = snapshot[w]
    BY <1>2 DEF Next, vars, socketVars, Enqueue, PushTrack, PushUnlock, PushSignal, Play, PopCheck,
       PopWait, PopTake, PopEmptyPanic, CacheCheck, CacheTake, PopUnlock, PlayNext, RemoveTrack,
       RemovePlay, RemoveCache, RemovePanic, RemoveReturn, Serve, Connect, ReadQueue, WriteQueue,
       Disconnect, NotifyOne, Move
  <2>2. t \in Track
    BY <2>1 DEF Range
  <2> QED BY <2>1, <2>2, NothingForgotten DEF ListIsTold
<1> QED BY <1>1, <1>2

\* With the mutex free, or in the player's hands, all that is queued was announced.
LEMMA QueuedWereAnnounced ==
  ASSUME TypeOK, MuxHolder, NewIsNowhere, playMux \in {NoOne, Player}
  PROVE  \A t \in Range(playQueue) \cup Range(cacheQueue) : t \in Track /\ Announced(t)
<1>1. \A t \in Track : pc[t] # "notify"
  BY TrackQueueAssumption DEF MuxHolder
<1>2. Range(playQueue) \cup Range(cacheQueue) \subseteq Track
  BY DEF TypeOK, Range
<1> QED BY <1>1, <1>2 DEF TypeOK, NewIsNowhere, EnqueuerPC, Announced

\* A socket is told of a removal by whoever makes it.
LEMMA SaidRemoved ==
  ASSUME TypeOK, CastsOwn, [Next]_vars,
         NEW v \in Socket, NEW i \in DOMAIN inbox'[v], NEW t \in Track,
         Says(inbox'[v][i], "remove", t)
  PROVE  \/ i \in DOMAIN inbox[v] /\ Says(inbox[v][i], "remove", t)
         \/ \E g \in Remover \cup {Player} : pc[g] = "notify" /\ casts[g].msg.track = t
<1>1. CASE UNCHANGED inbox
  BY <1>1
<1>2. ASSUME NEW w \in Socket, NEW m \in Message, Write(w, m),
             m.op = "queue" \/ \E g \in Goroutine : pc[g] = "notify" /\ m = casts[g].msg
      PROVE  \/ i \in DOMAIN inbox[v] /\ inbox'[v][i] = inbox[v][i]
             \/ \E g \in Remover \cup {Player} : pc[g] = "notify" /\ casts[g].msg.track = t
  <2>1. CASE inbox'[v][i] = m
    <3>1. m.op = "remove" /\ m.track = t
      BY <2>1 DEF Says
    <3>2. PICK g \in Goroutine : pc[g] = "notify" /\ m = casts[g].msg
      BY <1>2, <3>1
    <3>3. g \in Remover \cup {Player}
      <4>1. ASSUME g \in Track PROVE m.op = "enqueued"
        <5>1. m = [op |-> "enqueued", track |-> g]
          BY <3>2, <4>1 DEF CastsOwn
        <5> QED BY <5>1
      <4> QED BY <3>1, <4>1 DEF Goroutine
    <3> QED BY <3>1, <3>2, <3>3
  <2>2. CASE v # w
    BY <1>2, <2>2, TellSocket
  <2>3. CASE v = w
    <3>1. PICK n : /\ DOMAIN inbox'[w] = DOMAIN inbox[w] \cup {n} /\ inbox'[w][n] = m
                   /\ \A k \in DOMAIN inbox[w] : inbox'[w][k] = inbox[w][k]
      BY <1>2, TellSocket
    <3> QED BY <2>1, <2>3, <3>1
  <2> QED BY <2>2, <2>3
<1> QED BY <1>1, <1>2, InboxStep

LEMMA RemovedStep ==
  ASSUME TypeOK, MuxHolder, CastsOwn, NewIsNowhere, RemovedWereAnnounced, [Next]_vars
  PROVE  RemovedWereAnnounced'
<1> SUFFICES ASSUME UniquePlayIDs PROVE RemovedWereAnnounced'
  BY DEF RemovedWereAnnounced, UniquePlayIDs
<1> USE TrackQueueAssumption DEF TypeOK, Goroutine, Goto
<1> DEFINE Casts == \A g \in Remover \cup {Player} :
              pc[g] \in {"notify", "cache"} => casts[g].msg.track \in Track /\ Announced(casts[g].msg.track)
<1>1. Casts
  <2>1. ASSUME NEW g \in Remover \cup {Player}, pc[g] \in {"notify", "cache"}
        PROVE  casts[g].msg.track \in Track
    <3>1. casts[g].msg \in Notice \cup Asked
      BY <2>1 DEF PlayerPC
    <3> QED BY <3>1 DEF Notice, Asked
  <2> QED BY <2>1 DEF RemovedWereAnnounced
<1>2. Casts'
  <2> SUFFICES ASSUME NEW g \in Remover \cup {Player}, pc'[g] \in {"notify", "cache"}
               PROVE  casts'[g].msg.track \in Track /\ Announced(casts'[g].msg.track)
    BY NothingForgotten
  <2>1. CASE CacheTake /\ g = Player
    <3>1. casts'[g].msg.track = Head(cacheQueue) /\ cacheQueue # <<>>
      BY <2>1 DEF CacheTake, BeginNotify
    <3>2. playMux = Player
      BY <2>1 DEF CacheTake, MuxHolder, InCallback
    <3> QED BY <3>1, <3>2, RangeOfTail, QueuedWereAnnounced
  <2>2. CASE g \in Remover /\ RemovePlay(g)
    <3>1. PICK i \in DOMAIN playQueue : casts'[g].msg.track = playQueue[i]
      BY <2>2, CastAsked
    <3>2. playMux = NoOne
      BY <2>2 DEF RemovePlay
    <3> QED BY <3>1, <3>2, RangeOfRemoveAt, QueuedWereAnnounced
  <2>3. CASE g \in Remover /\ RemoveCache(g)
    <3>1. PICK i \in DOMAIN cacheQueue :
            PlayID[cacheQueue[i]] = AskedID(g) /\ casts'[g].msg.track = cacheQueue[i]
      BY <2>3 DEF RemoveCache, IsFirstMatch, BeginNotify
    <3>2. casts[g].msg.track \in Track /\ Announced(casts[g].msg.track)
      BY <1>1, <2>3 DEF RemoveCache
    <3>3. cacheQueue[i] = casts[g].msg.track
      BY <3>1, <3>2 DEF UniquePlayIDs, AskedID
    <3> QED BY <3>1, <3>2, <3>3
  <2>4. CASE ~(CacheTake /\ g = Player) /\ ~(g \in Remover /\ (RemovePlay(g) \/ RemoveCache(g)))
    <3>1. pc[g] = pc'[g] /\ casts'[g].msg = casts[g].msg
      <4>1. ASSUME NEW t \in Track, Enqueue(t) PROVE pc[g] = pc'[g] /\ casts'[g] = casts[g]
        BY <4>1 DEF Enqueue, PushTrack, PushUnlock, PushSignal, BeginNotify, EndNotify
      <4>2. CASE Play
        BY <2>4, <4>2 DEF Play, PopCheck, PopWait, PopTake, PopEmptyPanic, CacheCheck, CacheTake,
                          PopUnlock, PlayNext, BeginNotify, EndNotify
      <4>3. ASSUME NEW r \in Remover, RemoveTrack(r) PROVE pc[g] = pc'[g] /\ casts'[g] = casts[g]
        BY <2>4, <4>3, CastAsked
        DEF RemoveTrack, RemovePlay, RemoveCache, RemovePanic, RemoveReturn, BeginNotify, EndNotify
      <4>4. CASE UNCHANGED <<pc, casts>>
        BY <4>4
      <4>5. ASSUME NEW h \in Goroutine, NEW w \in Socket, NotifyOne(h, w)
            PROVE  pc[g] = pc'[g] /\ casts'[g].msg = casts[g].msg
        BY <4>5, CastsKept DEF NotifyOne
      <4> QED
        BY <4>1, <4>2, <4>3, <4>4, <4>5
        DEF Next, vars, Serve, Connect, ReadQueue, WriteQueue, Disconnect
    <3> QED BY <1>1, <3>1
  <2> QED BY <2>1, <2>2, <2>3, <2>4
<1>3. ASSUME NEW v \in Socket, NEW i \in DOMAIN inbox'[v], NEW t \in Track,
             Says(inbox'[v][i], "remove", t)
      PROVE  Announced(t)
  <2>1. CASE i \in DOMAIN inbox[v] /\ Says(inbox[v][i], "remove", t)
    BY <2>1 DEF RemovedWereAnnounced
  <2>2. CASE \E g \in Remover \cup {Player} : pc[g] = "notify" /\ casts[g].msg.track = t
    BY <1>1, <2>2
  <2> QED BY <1>3, <2>1, <2>2, SaidRemoved
<1> QED BY <1>2, <1>3, NothingForgotten DEF RemovedWereAnnounced

\* The removal of t cannot be in a socket's past while t is still being announced.
LEMMA OrderStep ==
  ASSUME TypeOK, CastsOwn, RemovedWereAnnounced, RemovalNotBeforeArrival, [Next]_vars
  PROVE  RemovalNotBeforeArrival'
<1> SUFFICES ASSUME UniquePlayIDs, NEW v \in Socket, NEW i \in DOMAIN inbox'[v],
                    NEW j \in DOMAIN inbox'[v], NEW t \in Track,
                    i < j, Says(inbox'[v][i], "remove", t), Says(inbox'[v][j], "enqueued", t)
             PROVE  FALSE
  BY DEF RemovalNotBeforeArrival, UniquePlayIDs
<1>1. CASE UNCHANGED inbox
  BY <1>1 DEF RemovalNotBeforeArrival
<1>2. ASSUME NEW w \in Socket, NEW m \in Message, Write(w, m),
             m.op = "queue" \/ \E g \in Goroutine : pc[g] = "notify" /\ m = casts[g].msg
      PROVE  FALSE
  <2>1. CASE v # w
    BY <1>2, <2>1, TellSocket DEF RemovalNotBeforeArrival
  <2>2. CASE v = w
    <3>1. PICK n : /\ DOMAIN inbox'[w] = DOMAIN inbox[w] \cup {n} /\ inbox'[w][n] = m
                   /\ \A k \in DOMAIN inbox[w] : k < n /\ ~(n < k) /\ inbox'[w][k] = inbox[w][k]
                   /\ ~(n < n)
      BY <1>2, TellSocket
    <3>2. i \in DOMAIN inbox[w] /\ inbox'[w][i] = inbox[w][i]
      BY <2>2, <3>1
    <3>3. j = n
      BY <2>2, <3>1, <3>2 DEF RemovalNotBeforeArrival
    <3>4. m.op = "enqueued" /\ m.track = t
      BY <2>2, <3>1, <3>3 DEF Says
    <3>5. PICK g \in Goroutine : pc[g] = "notify" /\ m = casts[g].msg
      BY <1>2, <3>4
    <3>6. g \in Track /\ g = t
      <4>1. g \in Track
        BY <3>4, <3>5 DEF CastsOwn, Goroutine
      <4>2. m = [op |-> "enqueued", track |-> g]
        BY <3>5, <4>1 DEF CastsOwn
      <4> QED BY <3>4, <4>1, <4>2
    <3>7. Announced(t)
      BY <2>2, <3>2 DEF RemovedWereAnnounced
    <3> QED BY <3>5, <3>6, <3>7 DEF Announced
  <2> QED BY <2>1, <2>2
<1> QED BY <1>1, <1>2, InboxStep

\* A track that is taken out was there once.
LEMMA TakenOnce ==
  ASSUME NEW S, NEW s \in Seq(S), \A i, j \in DOMAIN s : s[i] = s[j] => i = j
  PROVE  /\ s # <<>> => /\ Head(s) \notin Range(Tail(s))
                        /\ \A i, j \in DOMAIN Tail(s) : Tail(s)[i] = Tail(s)[j] => i = j
         /\ \A n \in DOMAIN s :
              /\ s[n] \notin Range(RemoveAt(s, n))
              /\ \A i, j \in DOMAIN RemoveAt(s, n) :
                    RemoveAt(s, n)[i] = RemoveAt(s, n)[j] => i = j
<1>1. ASSUME s # <<>>
      PROVE  /\ Head(s) \notin Range(Tail(s))
             /\ \A i, j \in DOMAIN Tail(s) : Tail(s)[i] = Tail(s)[j] => i = j
  <2>1. /\ 1 \in DOMAIN s /\ Head(s) = s[1]
        /\ \A i \in DOMAIN Tail(s) : /\ i \in Nat /\ i >= 1 /\ i + 1 \in DOMAIN s
                                     /\ Tail(s)[i] = s[i + 1]
    BY <1>1
  <2>2. \A i \in DOMAIN Tail(s) : Tail(s)[i] # s[1]
    BY <2>1
  <2>3. \A i, j \in DOMAIN Tail(s) : Tail(s)[i] = Tail(s)[j] => i = j
    BY <2>1
  <2> QED BY <2>1, <2>2, <2>3 DEF Range
<1>2. ASSUME NEW n \in DOMAIN s
      PROVE  /\ s[n] \notin Range(RemoveAt(s, n))
             /\ \A i, j \in DOMAIN RemoveAt(s, n) :
                   RemoveAt(s, n)[i] = RemoveAt(s, n)[j] => i = j
  <2> DEFINE Old(j) == IF j < n THEN j ELSE j + 1
  <2>1. ASSUME NEW j \in DOMAIN RemoveAt(s, n)
        PROVE  j \in Nat /\ Old(j) \in DOMAIN s /\ Old(j) # n /\ RemoveAt(s, n)[j] = s[Old(j)]
    <3>1. j \in Nat /\ j >= 1 /\ j <= Len(s) - 1 /\ n \in Nat
      BY RemoveAtProperties
    <3>2. RemoveAt(s, n)[j] = IF j < n THEN s[j] ELSE s[j + 1]
      BY <3>1 DEF RemoveAt
    <3> QED BY <3>1, <3>2
  <2>2. \A i, j \in Nat : Old(i) = Old(j) => i = j
    OBVIOUS
  <2> HIDE DEF Old
  <2>3. s[n] \notin Range(RemoveAt(s, n))
    BY <2>1 DEF Range
  <2> QED BY <2>1, <2>2, <2>3
<1> QED BY <1>1, <1>2

\* What has gone stays away.
LEMMA GoneStays ==
  ASSUME TypeOK, NewIsNowhere, [Next]_vars, NEW t \in Track, Gone(t)
  PROVE  Gone(t)'
<1>1. pc'[t] # "new"
  BY NeverNewAgain DEF Gone
<1>2. t \notin Range(cacheQueue')
  BY QueuesStep DEF Gone, PushTrack
<1> QED BY <1>1, <1>2 DEF Gone

LEMMA GoneStep ==
  ASSUME TypeOK, CastsOwn, NewIsNowhere, NoDuplicates, RemovingGone, SaidGone, [Next]_vars
  PROVE  NoDuplicates' /\ RemovingGone' /\ SaidGone'
<1> USE TrackQueueAssumption DEF TypeOK, Goroutine, Goto
<1> DEFINE StaysAway(t) == t \notin Range(cacheQueue') /\ pc'[t] # "new"
<1>0. \A t \in Track : Gone(t) => StaysAway(t)
  BY GoneStays DEF Gone
<1>1. ASSUME NEW g \in Remover \cup {Player}, pc[g] = "notify"
      PROVE  StaysAway(casts[g].msg.track)
  <2>1. casts[g].msg.track \in Track
    <3>1. casts[g].msg \in Notice
      BY <1>1
    <3> QED BY <3>1 DEF Notice
  <2> QED BY <1>0, <1>1, <2>1 DEF RemovingGone
<1>2. SaidGone'
  <2> SUFFICES ASSUME NEW v \in Socket, NEW i \in DOMAIN inbox'[v], NEW t \in Track,
                      Says(inbox'[v][i], "remove", t)
               PROVE  StaysAway(t)
    BY DEF SaidGone, Gone
  <2>1. CASE i \in DOMAIN inbox[v] /\ Says(inbox[v][i], "remove", t)
    BY <1>0, <2>1 DEF SaidGone
  <2>2. CASE \E g \in Remover \cup {Player} : pc[g] = "notify" /\ casts[g].msg.track = t
    BY <1>1, <2>2
  <2> HIDE DEF TypeOK
  <2>3. \/ i \in DOMAIN inbox[v] /\ Says(inbox[v][i], "remove", t)
        \/ \E g \in Remover \cup {Player} : pc[g] = "notify" /\ casts[g].msg.track = t
    BY SaidRemoved
  <2> QED BY <2>1, <2>2, <2>3
<1>3. ASSUME NEW i \in DOMAIN cacheQueue PROVE cacheQueue[i] \in Track /\ pc[cacheQueue[i]] # "new"
  BY DEF NewIsNowhere, Range
<1>4. CASE CacheTake
  <2>1. /\ cacheQueue # <<>> /\ cacheQueue' = Tail(cacheQueue)
        /\ casts'[Player].msg.track = Head(cacheQueue)
        /\ \A h \in Goroutine \ {Player} : casts'[h] = casts[h] /\ pc'[h] = pc[h]
    BY <1>4 DEF CacheTake, BeginNotify
  <2>2. Head(cacheQueue) \notin Range(cacheQueue') /\ NoDuplicates'
    BY <2>1, TakenOnce DEF NoDuplicates
  <2>3. StaysAway(casts'[Player].msg.track)
    <3>1. Head(cacheQueue) = cacheQueue[1] /\ 1 \in DOMAIN cacheQueue
      BY <2>1
    <3> QED BY <1>3, <2>1, <2>2, <3>1, NeverNewAgain
  <2> QED BY <1>1, <1>2, <2>1, <2>2, <2>3 DEF RemovingGone, Gone
<1>5. ASSUME NEW r \in Remover, RemoveCache(r) PROVE NoDuplicates' /\ RemovingGone'
  <2>1. PICK i \in DOMAIN cacheQueue :
          /\ cacheQueue' = RemoveAt(cacheQueue, i) /\ casts'[r].msg.track = cacheQueue[i]
          /\ \A h \in Goroutine \ {r} : casts'[h] = casts[h] /\ pc'[h] = pc[h]
    BY <1>5 DEF RemoveCache, IsFirstMatch, BeginNotify
  <2>2. cacheQueue[i] \notin Range(cacheQueue') /\ NoDuplicates'
    BY <2>1, TakenOnce DEF NoDuplicates
  <2>3. StaysAway(casts'[r].msg.track)
    BY <1>3, <2>1, <2>2, NeverNewAgain
  <2> QED BY <1>1, <2>1, <2>2, <2>3 DEF RemovingGone, Gone
<1>6. CASE ~CacheTake /\ \A r \in Remover : ~RemoveCache(r)
  <2>1. NoDuplicates'
    <3>1. CASE UNCHANGED cacheQueue
      BY <3>1 DEF NoDuplicates
    <3>2. ASSUME NEW t \in Track, PushTrack(t) PROVE NoDuplicates'
      <4>1. cacheQueue' = Append(cacheQueue, t) /\ \A i \in DOMAIN cacheQueue : cacheQueue[i] # t
        BY <1>3, <3>2 DEF PushTrack
      <4>2. \A i \in DOMAIN cacheQueue' :
              \/ i = Len(cacheQueue) + 1 /\ cacheQueue'[i] = t
              \/ i \in DOMAIN cacheQueue /\ cacheQueue'[i] = cacheQueue[i]
        BY <4>1
      <4> QED BY <4>1, <4>2 DEF NoDuplicates
    <3> QED
      BY <1>6, <3>1, <3>2
      DEF Next, vars, queueVars, Enqueue, PushUnlock, PushSignal, Play, PopCheck, PopWait,
          PopTake, PopEmptyPanic, CacheCheck, PopUnlock, PlayNext, RemoveTrack, RemovePlay,
          RemovePanic, RemoveReturn, Serve, Connect, ReadQueue, WriteQueue, Disconnect, NotifyOne
  <2>2. ASSUME NEW g \in Remover \cup {Player}, pc'[g] = "notify"
        PROVE  pc[g] = "notify" /\ casts'[g].msg = casts[g].msg
    <3>1. ASSUME NEW t \in Track, Enqueue(t) PROVE pc[g] = "notify" /\ casts'[g] = casts[g]
      BY <2>2, <3>1 DEF Enqueue, PushTrack, PushUnlock, PushSignal, BeginNotify, EndNotify
    <3>2. CASE Play
      BY <1>6, <2>2, <3>2 DEF Play, PopCheck, PopWait, PopTake, PopEmptyPanic, CacheCheck,
                              PopUnlock, PlayNext, EndNotify
    <3>3. ASSUME NEW r \in Remover, RemoveTrack(r) PROVE pc[g] = "notify" /\ casts'[g] = casts[g]
      BY <1>6, <2>2, <3>3, CastAsked
      DEF RemoveTrack, RemovePlay, RemovePanic, RemoveReturn, EndNotify
    <3>4. CASE UNCHANGED <<pc, casts>>
      BY <2>2, <3>4
    <3>5. ASSUME NEW h \in Goroutine, NEW w \in Socket, NotifyOne(h, w)
          PROVE  pc[g] = "notify" /\ casts'[g].msg = casts[g].msg
      BY <2>2, <3>5, CastsKept DEF NotifyOne
    <3> QED
      BY <3>1, <3>2, <3>3, <3>4, <3>5
      DEF Next, vars, Serve, Connect, ReadQueue, WriteQueue, Disconnect
  <2> QED BY <1>1, <1>2, <2>1, <2>2 DEF RemovingGone, Gone
<1> QED BY <1>2, <1>4, <1>5, <1>6

\* What every socket is told follows the queue, for any number of tracks, sockets and
\* clients: no track in the queue is missing from what a socket was told, no track it
\* was told is removed is in the queue ever again, and, PlayIDs being unique, none is
\* announced after its removal.
THEOREM SocketsFollowTheQueue == Spec => []SocketsFollow
<1>1. Init => FollowInv
  <2> SUFFICES ASSUME Init PROVE FollowInv
    OBVIOUS
  <2>1. TypeOK /\ MuxHolder /\ Mirrors
    BY TrackQueueAssumption
    DEF Init, TypeOK, Goroutine, PlayerPC, EnqueuerPC, RemoverPC, NoCast, NoMsg, Cast, MuxHolder,
        Mirrors, InCallback
  <2> QED
    BY <2>1, TrackQueueAssumption
    DEF Init, FollowInv, ExactInv, Goroutine, CastsOwn, NewIsNowhere, Range, Arrives, ListIsTold,
        RemovedWereAnnounced, RemovalNotBeforeArrival, NoDuplicates, RemovingGone, SaidGone
<1>2. TypeOK' /\ FollowInv /\ [Next]_vars => FollowInv'
  BY MuxHolderStep, MirrorsStep, CastsOwnStep, NewIsNowhereStep, ArrivesStep, ListIsToldStep,
     RemovedStep, OrderStep, GoneStep DEF FollowInv, ExactInv
<1>3. FollowInv => SocketsFollow
  <2> SUFFICES ASSUME FollowInv, NEW w \in Socket, sockets[w] = "open",
                      NEW t \in Range(cacheQueue), pc[t] \in {"signal", "done"}
               PROVE  Told(w, t)
    BY DEF SocketsFollow, NoMissedTrack, RemovedIsGone, FollowInv, SaidGone, Gone, Told
  <2> QED BY DEF FollowInv, Arrives, ListIsTold
<1> QED
  BY <1>1, <1>2, <1>3, TypeCorrect, PTL DEF Spec
=============================================================================
