---------------------------- MODULE ServerProofs ----------------------------
(***************************************************************************)
(* Proofs about what clients are shown, and about the four parts together. *)
(*                                                                         *)
(* News reaches everybody, for any numbers of listeners, web sockets and   *)
(* calls of setTrack.  The invariant follows a socket from the moment it   *)
(* reads a version: what it has read, and later what it was told, is the   *)
(* newest, or some announcement owes it the newest.  It needs that nobody  *)
(* knows a version that does not exist yet, since the newest one told is   *)
(* kept.                                                                   *)
(*                                                                         *)
(* Lyrics keep time, for any texts and any number of lines.  They are made *)
(* in one step, so that the proof is one of what the operators return.     *)
(*                                                                         *)
(* The parts share no variable: whatever holds of each by itself holds of  *)
(* all, however their steps alternate, and of the runs of module MCServer, *)
(* where only one takes steps.                                             *)
(***************************************************************************)
EXTENDS MCServer, DistributorProofs, RequestsProofs, SequenceTheorems, TLAPS

-----------------------------------------------------------------------------
(* The news. *)

AtMost(c) == c.count <= listenersCount /\ c.track <= currentTrackMeta

\* Nobody is ahead of the variables.
NobodyAhead ==
    /\ \A k \in Cast : AtMost(cast[k].says)
    /\ \A s \in WebSocket : AtMost(greeting[s].says) /\ AtMost(heard[s])

\* wsHandler registers before it reads and unregisters at the end.
RegisteredFirst ==
    \A s \in WebSocket : s \in connections <=> greeting[s].at \notin {"new", "gone"}

CountOwed(s) == \E k \in Cast : WillTellCount(k, s)
TrackOwed(s) == \E k \in Cast : WillTellTrack(k, s)

CountReaches ==
    \A s \in WebSocket :
        /\ greeting[s].at = "write" =>
             \/ greeting[s].says.count = listenersCount
             \/ heard[s].count = listenersCount \/ CountOwed(s)
        /\ greeting[s].at = "open" => heard[s].count = listenersCount \/ CountOwed(s)

TrackReaches ==
    \A s \in WebSocket :
        /\ greeting[s].at \in {"count", "write"} =>
             \/ greeting[s].says.track = currentTrackMeta
             \/ heard[s].track = currentTrackMeta \/ TrackOwed(s)
        /\ greeting[s].at = "open" => heard[s].track = currentTrackMeta \/ TrackOwed(s)

IInv == NewsTypeOK /\ NobodyAhead /\ RegisteredFirst /\ CountReaches /\ TrackReaches

-----------------------------------------------------------------------------
LEMMA InitIInv == NewsInit => IInv
  BY DEF NewsInit, IInv, NewsTypeOK, NobodyAhead, AtMost, RegisteredFirst, CountReaches, TrackReaches,
         Nothing, Content

\* A new count is announced by the goroutine that changed it: at once by one whose
\* listener goes, later by one whose listener comes.
LEMMA ChangeCount ==
  ASSUME IInv, NEW l \in Audio, Comes(l) \/ Goes(l)
  PROVE  IInv'
<1> USE DEF IInv
<1>1. /\ listenersCount' = listenersCount + 1
      /\ listener' \in [Audio -> {"new", "reporting", "listening", "gone"}]
      /\ UNCHANGED <<currentTrackMeta, connections, greeting, heard>>
  BY DEF Comes, Goes, NewsTypeOK
<1>2. /\ cast' \in [Cast -> [at : {"new", "load", "range", "done"}, says : Content,
                             due : SUBSET WebSocket]]
      /\ \A j \in Cast : cast'[j].says = cast[j].says /\ cast'[j].due = cast[j].due
      /\ \A j \in Cast : cast[j].at # "new" => cast'[j] = cast[j]
  <2>1. CASE Comes(l)
    BY <2>1 DEF Comes, NewsTypeOK
  <2>2. CASE Goes(l)
    BY <2>2 DEF Goes, CastGoes, NewsTypeOK
  <2> QED BY <2>1, <2>2
<1>3. ASSUME NEW s \in WebSocket PROVE CountOwed(s)'
  <2>1. CASE Comes(l)
    <3>1. <<l, "comes">> \in Cast /\ listener'[l] = "reporting"
      BY <2>1 DEF Comes, Cast, NewsTypeOK
    <3> QED BY <3>1 DEF CountOwed, WillTellCount
  <2>2. CASE Goes(l)
    <3>1. <<l, "goes">> \in Cast /\ cast'[<<l, "goes">>].at = "load"
      BY <2>2 DEF Goes, Cast, CastGoes, NewsTypeOK
    <3> QED BY <3>1 DEF CountOwed, WillTellCount
  <2> QED BY <2>1, <2>2
<1>4. NewsTypeOK'
  BY <1>1, <1>2 DEF NewsTypeOK
<1>5. NobodyAhead'
  BY <1>1, <1>2 DEF NobodyAhead, AtMost, NewsTypeOK, Content
<1>6. RegisteredFirst'
  BY <1>1 DEF RegisteredFirst
<1>7. CountReaches'
  BY <1>3 DEF CountReaches
<1>8. ASSUME NEW s \in WebSocket, TrackOwed(s) PROVE TrackOwed(s)'
  BY <1>1, <1>2, <1>8 DEF TrackOwed, WillTellTrack
<1>9. TrackReaches'
  BY <1>1, <1>8 DEF TrackReaches
<1> QED BY <1>4, <1>5, <1>6, <1>7, <1>9

\* Once its report has gone through, a listener that comes still owes the count to
\* everybody.
LEMMA ReportedKeeps ==
  ASSUME IInv, NEW l \in Audio, Reported(l)
  PROVE  IInv'
<1> USE DEF IInv
<1>1. /\ <<l, "comes">> \in Cast /\ cast'[<<l, "comes">>].at = "load"
      /\ listener' \in [Audio -> {"new", "reporting", "listening", "gone"}]
      /\ UNCHANGED <<listenersCount, currentTrackMeta, connections, greeting, heard>>
  BY DEF Reported, Cast, CastGoes, NewsTypeOK
<1>2. /\ cast' \in [Cast -> [at : {"new", "load", "range", "done"}, says : Content,
                             due : SUBSET WebSocket]]
      /\ \A j \in Cast : cast'[j].says = cast[j].says /\ cast'[j].due = cast[j].due
      /\ \A j \in Cast : cast[j].at # "new" => cast'[j] = cast[j]
  BY DEF Reported, CastGoes, NewsTypeOK
<1>3. ASSUME NEW s \in WebSocket PROVE CountOwed(s)'
  BY <1>1 DEF CountOwed, WillTellCount
<1>4. ASSUME NEW s \in WebSocket, TrackOwed(s) PROVE TrackOwed(s)'
  BY <1>1, <1>2, <1>4 DEF TrackOwed, WillTellTrack
<1>5. NewsTypeOK'
  BY <1>1, <1>2 DEF NewsTypeOK
<1>6. NobodyAhead' /\ RegisteredFirst'
  BY <1>1, <1>2 DEF NobodyAhead, AtMost, RegisteredFirst
<1>7. CountReaches' /\ TrackReaches'
  BY <1>1, <1>3, <1>4 DEF CountReaches, TrackReaches
<1> QED BY <1>5, <1>6, <1>7

LEMMA ChangeTrack ==
  ASSUME IInv, NEW k \in Setter, Store(k)
  PROVE  IInv'
<1> USE DEF IInv
<1>1. /\ currentTrackMeta' = currentTrackMeta + 1
      /\ UNCHANGED <<listenersCount, connections, listener, greeting, heard>>
      /\ k \in Cast /\ cast[k].at = "new"
      /\ cast' = [cast EXCEPT ![k].at = "load", ![k].says.track = currentTrackMeta + 1]
  BY DEF Store, Cast
<1>2. cast' \in [Cast -> [at : {"new", "load", "range", "done"}, says : Content,
                          due : SUBSET WebSocket]]
  <2>1. cast[k] \in [at : {"new", "load", "range", "done"}, says : Content, due : SUBSET WebSocket]
    BY <1>1 DEF NewsTypeOK
  <2>2. [cast[k].says EXCEPT !.track = currentTrackMeta + 1] \in Content
    BY <2>1 DEF NewsTypeOK, Content
  <2>3. cast' = [cast EXCEPT ![k] = [cast[k] EXCEPT
                   !.at = "load", !.says = [cast[k].says EXCEPT !.track = currentTrackMeta + 1]]]
    BY <1>1, <2>1 DEF NewsTypeOK
  <2> QED BY <1>1, <2>1, <2>2, <2>3 DEF NewsTypeOK
<1>3. /\ cast'[k].at = "load" /\ cast'[k].says.track = currentTrackMeta'
      /\ cast'[k].says.count = cast[k].says.count
      /\ \A j \in Cast \ {k} : cast'[j] = cast[j]
  BY <1>1 DEF NewsTypeOK, Content
<1>4. NewsTypeOK'
  BY <1>1, <1>2 DEF NewsTypeOK
<1>5. NobodyAhead'
  BY <1>1, <1>3 DEF NobodyAhead, AtMost, NewsTypeOK, Content
<1>6. RegisteredFirst'
  BY <1>1 DEF RegisteredFirst
<1>7. ASSUME NEW s \in WebSocket, CountOwed(s) PROVE CountOwed(s)'
  BY <1>1, <1>3, <1>7 DEF CountOwed, WillTellCount
<1>8. CountReaches'
  BY <1>1, <1>7 DEF CountReaches
<1>9. TrackReaches'
  BY <1>1, <1>3 DEF TrackReaches, TrackOwed, WillTellTrack
<1> QED BY <1>4, <1>5, <1>6, <1>8, <1>9

-----------------------------------------------------------------------------
\* An announcement that has read the count owes it to every socket there is.
LEMMA LoadCountKeeps ==
  ASSUME IInv, NEW k \in Cast, LoadCount(k)
  PROVE  IInv'
<1> USE DEF IInv
<1>1. /\ UNCHANGED <<listenersCount, currentTrackMeta, connections, listener, greeting, heard>>
      /\ cast[k].at = "load"
      /\ cast' = [cast EXCEPT ![k].at = "range", ![k].says.count = listenersCount,
                              ![k].due = connections]
  BY DEF LoadCount
<1>2. cast' \in [Cast -> [at : {"new", "load", "range", "done"}, says : Content,
                          due : SUBSET WebSocket]]
  <2>1. cast[k] \in [at : {"new", "load", "range", "done"}, says : Content, due : SUBSET WebSocket]
    BY DEF NewsTypeOK
  <2>2. [cast[k].says EXCEPT !.count = listenersCount] \in Content
    BY <2>1 DEF NewsTypeOK, Content
  <2>3. cast' = [cast EXCEPT ![k] = [cast[k] EXCEPT !.at = "range", !.due = connections,
                               !.says = [cast[k].says EXCEPT !.count = listenersCount]]]
    BY <1>1, <2>1 DEF NewsTypeOK
  <2> QED BY <2>1, <2>2, <2>3 DEF NewsTypeOK
<1>3. /\ cast'[k].at = "range" /\ cast'[k].due = connections
      /\ cast'[k].says.count = listenersCount /\ cast'[k].says.track = cast[k].says.track
      /\ \A j \in Cast \ {k} : cast'[j] = cast[j]
  BY <1>1 DEF NewsTypeOK, Content
<1>4. NewsTypeOK'
  BY <1>1, <1>2 DEF NewsTypeOK
<1>5. NobodyAhead'
  BY <1>1, <1>3 DEF NobodyAhead, AtMost, NewsTypeOK, Content
<1>6. RegisteredFirst'
  BY <1>1 DEF RegisteredFirst
<1>7. CountReaches'
  BY <1>1, <1>3 DEF CountReaches, CountOwed, WillTellCount, RegisteredFirst
<1>8. ASSUME NEW s \in connections, TrackOwed(s) PROVE TrackOwed(s)'
  BY <1>1, <1>3, <1>8 DEF TrackOwed, WillTellTrack
<1>9. TrackReaches'
  BY <1>1, <1>8 DEF TrackReaches, RegisteredFirst
<1> QED BY <1>4, <1>5, <1>6, <1>7, <1>9

\* Of two versions, one of which is the newest, the newest is kept.
LEMMA NewestKept ==
  ASSUME NEW a \in Nat, NEW b \in Nat, NEW newest \in Nat, a <= newest, b <= newest
  PROVE  /\ Newer(a, b) \in Nat /\ Newer(a, b) <= newest
         /\ a = newest \/ b = newest => Newer(a, b) = newest
  BY DEF Newer

\* What a socket has heard once it was told content.
LEMMA Told ==
  ASSUME NewsTypeOK, NEW t \in WebSocket, NEW content \in Content, Tell(t, content),
         AtMost(content), \A s \in WebSocket : AtMost(heard[s])
  PROVE  /\ heard' \in [WebSocket -> Content]
         /\ \A s \in WebSocket \ {t} : heard'[s] = heard[s]
         /\ heard'[t].count <= listenersCount /\ heard'[t].track <= currentTrackMeta
         /\ heard[t].count = listenersCount \/ content.count = listenersCount
              => heard'[t].count = listenersCount
         /\ heard[t].track = currentTrackMeta \/ content.track = currentTrackMeta
              => heard'[t].track = currentTrackMeta
<1>1. heard[t] \in Content /\ listenersCount \in Nat /\ currentTrackMeta \in Nat
  BY DEF NewsTypeOK
<1>2. heard' = [heard EXCEPT ![t] = [count |-> Newer(heard[t].count, content.count),
                                     track |-> Newer(heard[t].track, content.track)]]
  BY DEF Tell
<1>3. /\ Newer(heard[t].count, content.count) \in Nat
      /\ Newer(heard[t].count, content.count) <= listenersCount
      /\ heard[t].count = listenersCount \/ content.count = listenersCount
           => Newer(heard[t].count, content.count) = listenersCount
  BY <1>1, NewestKept DEF AtMost, Content
<1>4. /\ Newer(heard[t].track, content.track) \in Nat
      /\ Newer(heard[t].track, content.track) <= currentTrackMeta
      /\ heard[t].track = currentTrackMeta \/ content.track = currentTrackMeta
           => Newer(heard[t].track, content.track) = currentTrackMeta
  BY <1>1, NewestKept DEF AtMost, Content
<1> HIDE DEF Newer
<1> QED BY <1>2, <1>3, <1>4 DEF NewsTypeOK, Content

LEMMA WriteToKeeps ==
  ASSUME IInv, NEW k \in Cast, NEW t \in WebSocket, WriteTo(k, t)
  PROVE  IInv'
<1> USE DEF IInv
<1>1. /\ UNCHANGED <<listenersCount, currentTrackMeta, connections, listener, greeting>>
      /\ cast[k].at = "range"
      /\ cast' = [cast EXCEPT ![k].due = @ \ {t}]
      /\ Tell(t, cast[k].says)
  BY DEF WriteTo
<1>2. /\ cast[k].says \in Content /\ AtMost(cast[k].says)
      /\ \A s \in WebSocket : AtMost(heard[s])
  BY DEF NewsTypeOK, NobodyAhead
<1>3. /\ heard' \in [WebSocket -> Content]
      /\ \A s \in WebSocket \ {t} : heard'[s] = heard[s]
      /\ heard'[t].count <= listenersCount /\ heard'[t].track <= currentTrackMeta
      /\ heard[t].count = listenersCount \/ cast[k].says.count = listenersCount
           => heard'[t].count = listenersCount
      /\ heard[t].track = currentTrackMeta \/ cast[k].says.track = currentTrackMeta
           => heard'[t].track = currentTrackMeta
  BY <1>1, <1>2, Told
<1>4. /\ cast' \in [Cast -> [at : {"new", "load", "range", "done"}, says : Content,
                             due : SUBSET WebSocket]]
      /\ \A j \in Cast : cast'[j].at = cast[j].at /\ cast'[j].says = cast[j].says
      /\ \A j \in Cast \ {k} : cast'[j] = cast[j]
      /\ cast'[k].due = cast[k].due \ {t}
  BY <1>1 DEF NewsTypeOK
<1>5. NewsTypeOK'
  BY <1>1, <1>3, <1>4 DEF NewsTypeOK
<1>6. NobodyAhead'
  BY <1>1, <1>3, <1>4 DEF NobodyAhead, AtMost
<1>7. RegisteredFirst'
  BY <1>1 DEF RegisteredFirst
<1>8. \A s \in WebSocket \ {t} : CountOwed(s) => CountOwed(s)'
  BY <1>1, <1>4 DEF CountOwed, WillTellCount
<1>9. CountOwed(t) => CountOwed(t)' \/ cast[k].says.count = listenersCount
  BY <1>1, <1>4 DEF CountOwed, WillTellCount
<1>10. \A s \in WebSocket \ {t} : TrackOwed(s) => TrackOwed(s)'
  BY <1>1, <1>4 DEF TrackOwed, WillTellTrack
<1>11. TrackOwed(t) => TrackOwed(t)' \/ cast[k].says.track = currentTrackMeta
  BY <1>1, <1>4 DEF TrackOwed, WillTellTrack
<1>12. CountReaches'
  BY <1>1, <1>3, <1>8, <1>9 DEF CountReaches
<1>13. TrackReaches'
  BY <1>1, <1>3, <1>10, <1>11 DEF TrackReaches
<1> QED BY <1>5, <1>6, <1>7, <1>12, <1>13

\* An announcement ends when it owes nothing to a socket that is registered.
LEMMA EndRangeKeeps ==
  ASSUME IInv, NEW k \in Cast, EndRange(k)
  PROVE  IInv'
<1> USE DEF IInv
<1>1. /\ UNCHANGED <<listenersCount, currentTrackMeta, connections, listener, greeting, heard>>
      /\ cast[k].at = "range" /\ cast[k].due \cap connections = {}
      /\ cast' = [cast EXCEPT ![k] = [at |-> "done", says |-> Nothing, due |-> {}]]
  BY DEF EndRange, Over
<1>2. NewsTypeOK'
  BY <1>1 DEF NewsTypeOK, Nothing, Content
<1>3. NobodyAhead'
  BY <1>1 DEF NobodyAhead, AtMost, NewsTypeOK, Nothing
<1>4. RegisteredFirst'
  BY <1>1 DEF RegisteredFirst
<1>5. \A s \in connections : (CountOwed(s) => CountOwed(s)') /\ (TrackOwed(s) => TrackOwed(s)')
  BY <1>1 DEF CountOwed, TrackOwed, WillTellCount, WillTellTrack, NewsTypeOK
<1>6. CountReaches' /\ TrackReaches'
  BY <1>1, <1>5 DEF CountReaches, TrackReaches, RegisteredFirst
<1> QED BY <1>2, <1>3, <1>4, <1>6

LEMMA GreetKeeps ==
  ASSUME IInv, NEW t \in WebSocket, Greet(t)
  PROVE  IInv'
<1> USE DEF IInv, socketRest
<1>1. UNCHANGED <<listenersCount, currentTrackMeta, listener, cast>>
  BY DEF Greet, RegisterSocket, LoadTrack, LoadTrackPanics, LoadListeners, WriteGreeting,
         Delete, GreetingGoes
<1>2. \A s \in WebSocket : (CountOwed(s) <=> CountOwed(s)') /\ (TrackOwed(s) <=> TrackOwed(s)')
  BY <1>1 DEF CountOwed, TrackOwed, WillTellCount, WillTellTrack
<1>3. CASE RegisterSocket(t) \/ LoadTrackPanics(t) \/ Delete(t)
  <2>1. PICK to \in {"track", "panicked", "gone"} :
           /\ greeting' = [greeting EXCEPT ![t].at = to] /\ heard' = heard
           /\ connections' = CASE to = "track" -> connections \cup {t}
                              [] to = "panicked" -> connections
                              [] to = "gone" -> connections \ {t}
           /\ to = "panicked" => greeting[t].at = "track"
    BY <1>3 DEF RegisterSocket, LoadTrackPanics, Delete, GreetingGoes
  <2>2. /\ greeting'[t].at = to /\ greeting'[t].says = greeting[t].says
        /\ \A s \in WebSocket \ {t} : greeting'[s] = greeting[s]
    BY <2>1 DEF NewsTypeOK
  <2>3. NewsTypeOK'
    BY <1>1, <2>1 DEF NewsTypeOK
  <2>4. NobodyAhead'
    BY <1>1, <2>1, <2>2 DEF NobodyAhead, AtMost
  <2>5. RegisteredFirst'
    BY <2>1, <2>2 DEF RegisteredFirst
  <2>6. CountReaches' /\ TrackReaches'
    BY <1>1, <1>2, <2>1, <2>2 DEF CountReaches, TrackReaches
  <2> QED BY <2>3, <2>4, <2>5, <2>6
<1>4. CASE LoadTrack(t)
  <2>1. /\ greeting[t].at = "track" /\ connections' = connections /\ heard' = heard
        /\ greeting' = [greeting EXCEPT ![t].at = "count", ![t].says.track = currentTrackMeta]
    BY <1>4 DEF LoadTrack
  <2>2. /\ greeting[t] \in [at : {"new", "track", "count", "write", "open", "panicked", "gone"},
                              says : Content]
        /\ [greeting[t].says EXCEPT !.track = currentTrackMeta] \in Content
    BY DEF NewsTypeOK, Content
  <2>3. greeting' = [greeting EXCEPT ![t] = [greeting[t] EXCEPT !.at = "count",
                       !.says = [greeting[t].says EXCEPT !.track = currentTrackMeta]]]
    BY <2>1, <2>2 DEF NewsTypeOK
  <2>4. NewsTypeOK'
    BY <1>1, <2>1, <2>2, <2>3 DEF NewsTypeOK
  <2>5. /\ greeting'[t].at = "count" /\ greeting'[t].says.count = greeting[t].says.count
        /\ greeting'[t].says.track = currentTrackMeta
        /\ \A s \in WebSocket \ {t} : greeting'[s] = greeting[s]
    BY <2>2, <2>3 DEF NewsTypeOK, Content
  <2>6. NobodyAhead'
    BY <1>1, <2>1, <2>5 DEF NobodyAhead, AtMost, NewsTypeOK
  <2>7. RegisteredFirst'
    BY <2>1, <2>5 DEF RegisteredFirst
  <2>8. CountReaches' /\ TrackReaches'
    BY <1>1, <1>2, <2>1, <2>5 DEF CountReaches, TrackReaches
  <2> QED BY <2>4, <2>6, <2>7, <2>8
<1>5. CASE LoadListeners(t)
  <2>1. /\ greeting[t].at = "count" /\ connections' = connections /\ heard' = heard
        /\ greeting' = [greeting EXCEPT ![t].at = "write", ![t].says.count = listenersCount]
    BY <1>5 DEF LoadListeners
  <2>2. /\ greeting[t] \in [at : {"new", "track", "count", "write", "open", "panicked", "gone"},
                              says : Content]
        /\ [greeting[t].says EXCEPT !.count = listenersCount] \in Content
    BY DEF NewsTypeOK, Content
  <2>3. greeting' = [greeting EXCEPT ![t] = [greeting[t] EXCEPT !.at = "write",
                       !.says = [greeting[t].says EXCEPT !.count = listenersCount]]]
    BY <2>1, <2>2 DEF NewsTypeOK
  <2>4. NewsTypeOK'
    BY <1>1, <2>1, <2>2, <2>3 DEF NewsTypeOK
  <2>5. /\ greeting'[t].at = "write" /\ greeting'[t].says.count = listenersCount
        /\ greeting'[t].says.track = greeting[t].says.track
        /\ \A s \in WebSocket \ {t} : greeting'[s] = greeting[s]
    BY <2>2, <2>3 DEF NewsTypeOK, Content
  <2>6. NobodyAhead'
    BY <1>1, <2>1, <2>5 DEF NobodyAhead, AtMost, NewsTypeOK
  <2>7. RegisteredFirst'
    BY <2>1, <2>5 DEF RegisteredFirst
  <2>8. CountReaches' /\ TrackReaches'
    BY <1>1, <1>2, <2>1, <2>5 DEF CountReaches, TrackReaches
  <2> QED BY <2>4, <2>6, <2>7, <2>8
<1>6. CASE WriteGreeting(t)
  <2>1. /\ connections' = connections /\ greeting[t].at = "write"
        /\ greeting' = [greeting EXCEPT ![t] = [at |-> "open", says |-> Nothing]]
        /\ Tell(t, greeting[t].says)
    BY <1>6 DEF WriteGreeting
  <2>2. /\ heard' \in [WebSocket -> Content]
        /\ \A s \in WebSocket \ {t} : heard'[s] = heard[s]
        /\ heard'[t].count <= listenersCount /\ heard'[t].track <= currentTrackMeta
        /\ heard[t].count = listenersCount \/ greeting[t].says.count = listenersCount
             => heard'[t].count = listenersCount
        /\ heard[t].track = currentTrackMeta \/ greeting[t].says.track = currentTrackMeta
             => heard'[t].track = currentTrackMeta
    BY <2>1, Told DEF NewsTypeOK, NobodyAhead
  <2>3. NewsTypeOK'
    BY <1>1, <2>1, <2>2 DEF NewsTypeOK, Nothing, Content
  <2>4. NobodyAhead'
    BY <1>1, <2>1, <2>2 DEF NobodyAhead, AtMost, NewsTypeOK, Nothing
  <2>5. RegisteredFirst'
    BY <2>1 DEF RegisteredFirst, NewsTypeOK
  <2>6. CountReaches' /\ TrackReaches'
    BY <1>1, <1>2, <2>1, <2>2 DEF CountReaches, TrackReaches, NewsTypeOK
  <2> QED BY <2>3, <2>4, <2>5, <2>6
<1> QED BY <1>3, <1>4, <1>5, <1>6 DEF Greet

-----------------------------------------------------------------------------
LEMMA NextIInv == IInv /\ [NewsNext]_newsVars => IInv'
<1> SUFFICES ASSUME IInv, [NewsNext]_newsVars PROVE IInv'
  OBVIOUS
<1>1. CASE Change
  BY <1>1, ChangeCount, ReportedKeeps, ChangeTrack DEF Change
<1>2. ASSUME NEW k \in Cast, Announce(k) PROVE IInv'
  BY <1>2, LoadCountKeeps, WriteToKeeps, EndRangeKeeps DEF Announce
<1>3. ASSUME NEW s \in WebSocket, Greet(s) PROVE IInv'
  BY <1>3, GreetKeeps
<1>4. CASE UNCHANGED newsVars
  BY <1>4 DEF newsVars, IInv, NewsTypeOK, NobodyAhead, AtMost, RegisteredFirst, CountReaches,
     TrackReaches, CountOwed, TrackOwed, WillTellCount, WillTellTrack
<1> QED BY <1>1, <1>2, <1>3, <1>4 DEF NewsNext

THEOREM Invariance == NewsSpec => []IInv
<1>1. NewsInit => IInv
  BY InitIInv
<1>2. IInv /\ [NewsNext]_newsVars => IInv'
  BY NextIInv
<1> QED BY <1>1, <1>2, PTL DEF NewsSpec

\* The versions, announcements and sockets are well typed in every reachable state.
THEOREM NewsTypeCorrect == NewsSpec => []NewsTypeOK
<1>1. IInv => NewsTypeOK
  BY DEF IInv
<1> QED BY <1>1, Invariance, PTL

\* However many announcements overlap, and whenever a web socket connects, it has
\* heard the newest count and track or is going to.
THEOREM NewsReaches == NewsSpec => []NewsReachesEverybody
<1>1. IInv => NewsReachesEverybody
  BY DEF IInv, NewsReachesEverybody, CountReaches, TrackReaches, CountOwed, TrackOwed, NewsTypeOK
<1> QED BY <1>1, Invariance, PTL

-----------------------------------------------------------------------------
(* The lyrics. *)

\* A service's list of lines.
LEMMA ListsAreSequences ==
  ASSUME NEW set, NEW s \in Lines(set)
  PROVE  s \in Seq(set)
<1>1. PICK n \in 0 .. MaxLine : s \in [1 .. n -> set]
  BY Zenon DEF Lines
<1> QED BY <1>1

LEMMA EndLineIsLine == \A t \in Nat : EndLine(t) \in Line /\ EndLine(t).time = t
  BY DEF EndLine, Line, AnyText

\* The lines of captions are those of one of them.
LEMMA FirstLinesOf ==
  ASSUME NEW captions \in CaptionLists, NEW meant, meant \subseteq DOMAIN captions
  PROVE  /\ FirstLines(captions, meant) \in Seq(CaptionLine)
         /\ FirstLines(captions, meant) # <<>> =>
              \E c \in ToSet(captions) : FirstLines(captions, meant) = c.lines
<1>1. PICK n \in 0 .. 2 : captions \in [1 .. n -> Caption]
  BY Zenon DEF CaptionLists
<1>2. CASE meant = {}
  BY <1>2, EmptySeq DEF FirstLines
<1>3. CASE meant # {}
  <2>1. meant \subseteq {1, 2}
    BY <1>1
  <2>2. \E i \in meant : \A j \in meant : i <= j
    BY <1>3, <2>1
  <2>3. Min(meant) \in meant
    BY <2>2, Zenon DEF Min
  <2>4. captions[Min(meant)] \in Caption /\ captions[Min(meant)] \in ToSet(captions)
    BY <1>1, <2>3 DEF ToSet
  <2>5. captions[Min(meant)].lines \in Seq(CaptionLine)
    BY <2>4, ListsAreSequences DEF Caption
  <2>6. FirstLines(captions, meant) = captions[Min(meant)].lines
    BY <1>3, Zenon DEF FirstLines
  <2> QED BY <2>4, <2>5, <2>6, Zenon
<1> QED BY <1>2, <1>3

\* The text of a line of the captions is what they say then.
LEMMA CaptionTextSaid ==
  ASSUME NEW captions \in CaptionLists, NEW def \in Seq(CaptionLine), NEW trans \in Seq(CaptionLine),
         def # <<>> => \E c \in ToSet(captions) : def = c.lines,
         trans # <<>> => \E c \in ToSet(captions) : trans = c.lines,
         NEW i \in DOMAIN def
  PROVE  /\ CaptionText(def, trans, i) \in AnyText
         /\ \E c \in ToSet(captions) : \E l \in ToSet(c.lines) :
              l.start = def[i].start /\ l.text = CaptionText(def, trans, i)
<1>1. i \in 1 .. Len(def) /\ def[i] \in CaptionLine /\ def # <<>>
  BY LenProperties, EmptySeq
<1>2. CASE Len(trans) = Len(def) /\ trans[i].start = def[i].start
  <2>1. i \in DOMAIN trans /\ trans # <<>> /\ trans[i] \in CaptionLine
    BY <1>1, <1>2, LenProperties, EmptySeq
  <2>2. CaptionText(def, trans, i) = trans[i].text
    BY <1>2 DEF CaptionText
  <2>3. PICK c \in ToSet(captions) : trans = c.lines
    BY <2>1
  <2>4. trans[i] \in ToSet(c.lines)
    BY <2>1, <2>3 DEF ToSet
  <2> QED BY <1>2, <2>1, <2>2, <2>4 DEF CaptionLine
<1>3. CASE ~(Len(trans) = Len(def) /\ trans[i].start = def[i].start)
  <2>1. CaptionText(def, trans, i) = def[i].text
    BY <1>3 DEF CaptionText
  <2>2. PICK c \in ToSet(captions) : def = c.lines
    BY <1>1
  <2>3. def[i] \in ToSet(c.lines)
    BY <2>2 DEF ToSet
  <2> QED BY <1>1, <2>1, <2>3 DEF CaptionLine
<1> QED BY <1>2, <1>3

\* A list of lines with an end put to it.
LEMMA PutEnd ==
  ASSUME NEW lines \in Seq(Line), lines # <<>>, NEW t \in Nat
  PROVE  LET all == Append(lines, EndLine(t))
         IN  /\ all \in Seq(Line) /\ all # <<>> /\ Last(all) = EndLine(Last(all).time)
             /\ \A i \in DOMAIN all : (i \in DOMAIN lines /\ all[i] = lines[i])
                                        \/ (i = Len(all) /\ i > 1)
<1>1. EndLine(t) \in Line /\ EndLine(t).time = t
  BY EndLineIsLine
<1>2. PICK end \in Line : end = EndLine(t)
  BY <1>1
<1>3. /\ Append(lines, end) \in Seq(Line) /\ Len(Append(lines, end)) = Len(lines) + 1
      /\ \A i \in 1 .. Len(lines) : Append(lines, end)[i] = lines[i]
      /\ Append(lines, end)[Len(lines) + 1] = end
  BY AppendProperties
<1>4. Len(lines) \in Nat \ {0} /\ DOMAIN lines = 1 .. Len(lines)
  BY LenProperties, EmptySeq
<1>5. DOMAIN Append(lines, end) = 1 .. Len(lines) + 1 /\ Append(lines, end) # <<>>
  BY <1>3, <1>4, LenProperties, EmptySeq
<1>6. Last(Append(lines, end)) = end
  BY <1>3 DEF Last
<1> QED BY <1>1, <1>2, <1>3, <1>4, <1>5, <1>6

LEMMA CaptionsTimed ==
  ASSUME NEW captions \in CaptionLists
  PROVE  LET lines == CaptionLyrics(captions)
         IN  /\ lines \in Seq(Line)
             /\ \A i \in DOMAIN lines : CaptionsSay(captions, lines[i]) \/ (i = Len(lines) /\ i > 1)
             /\ lines # <<>> => Last(lines) = EndLine(Last(lines).time)
<1>1. PICK def : def = DefaultCaption(captions)
  OBVIOUS
<1>2. PICK trans : trans = TranslatedCaption(captions)
  OBVIOUS
<1>3. /\ def \in Seq(CaptionLine)
      /\ def # <<>> => \E c \in ToSet(captions) : def = c.lines
  <2>1. DefaultCaptions(captions) \subseteq DOMAIN captions
    BY DEF DefaultCaptions
  <2> QED BY <1>1, <2>1, FirstLinesOf, Zenon DEF DefaultCaption
<1>4. /\ trans \in Seq(CaptionLine)
      /\ trans # <<>> => \E c \in ToSet(captions) : trans = c.lines
  <2>1. EnglishCaptions(captions) \subseteq DOMAIN captions
    BY DEF EnglishCaptions
  <2>2. \/ trans = <<>>
        \/ trans = FirstLines(captions, EnglishCaptions(captions))
    BY <1>2, Zenon DEF TranslatedCaption
  <2>3. <<>> \in Seq(CaptionLine)
    BY EmptySeq
  <2> QED BY <2>1, <2>2, <2>3, FirstLinesOf, Zenon
<1>5. CASE def = <<>>
  <2>1. CaptionLyrics(captions) = <<>>
    BY <1>1, <1>5 DEF CaptionLyrics
  <2> QED BY <2>1, EmptySeq
<1>6. CASE def # <<>>
  <2>1. PICK said : said = [i \in DOMAIN def |-> [EndLine(def[i].start) EXCEPT
                                                   !.text = CaptionText(def, trans, i)]]
    OBVIOUS
  <2>2. PICK t : t = Last(def).start + Last(def).duration
    OBVIOUS
  <2>3. CaptionLyrics(captions) = Append(said, EndLine(t))
    BY <1>1, <1>2, <1>6, <2>1, <2>2, Zenon DEF CaptionLyrics
  <2>4. DOMAIN def = 1 .. Len(def) /\ Len(def) \in Nat \ {0}
    BY <1>3, <1>6, LenProperties, EmptySeq
  <2>5. \A i \in DOMAIN def : def[i] \in CaptionLine
    BY <1>3, <2>4, ElementOfSeq
  <2>6. t \in Nat
    <3>1. Last(def) \in CaptionLine
      BY <2>4, <2>5 DEF Last
    <3> QED BY <2>2, <3>1 DEF CaptionLine, Second
  <2>7. ASSUME NEW i \in DOMAIN def
        PROVE  said[i] \in Line /\ CaptionsSay(captions, said[i])
    <3>1. PICK text \in AnyText :
            /\ text = CaptionText(def, trans, i)
            /\ \E c \in ToSet(captions) : \E l \in ToSet(c.lines) :
                 l.start = def[i].start /\ l.text = text
      BY <1>3, <1>4, CaptionTextSaid
    <3>2. said[i] = [EndLine(def[i].start) EXCEPT !.text = text]
      BY <2>1, <3>1
    <3>3. def[i].start \in Nat
      BY <2>5 DEF CaptionLine, Second
    <3>4. said[i] = [time |-> def[i].start, text |-> text, translated |-> NoText, original |-> NoText]
      BY <3>2 DEF EndLine
    <3>5. said[i] \in Line
      BY <3>3, <3>4 DEF Line, AnyText
    <3>6. said[i].time = def[i].start /\ said[i].text = text
      BY <3>4
    <3> QED BY <3>1, <3>5, <3>6, Zenon DEF CaptionsSay
  <2>8. said \in Seq(Line) /\ said # <<>> /\ DOMAIN said = DOMAIN def
    <3>1. said \in [1 .. Len(def) -> Line]
      BY <2>1, <2>4, <2>7
    <3>2. said \in Seq(Line) /\ Len(said) = Len(def)
      BY <2>4, <3>1
    <3> QED BY <2>1, <2>4, <3>2, EmptySeq
  <2> QED BY <2>3, <2>6, <2>7, <2>8, PutEnd
<1> QED BY <1>5, <1>6

LEMMA EndedTimed ==
  ASSUME NEW lines \in Seq(Line)
  PROVE  LET all == Ended(lines)
         IN  /\ all \in Seq(Line) /\ (lines # <<>> => all # <<>>)
             /\ all # <<>> => Last(all) = EndLine(Last(all).time)
             /\ \A i \in DOMAIN all : (i \in DOMAIN lines /\ all[i] = lines[i])
                                        \/ (i = Len(all) /\ i > 1)
<1>1. CASE lines = <<>> \/ Last(lines) = EndLine(Last(lines).time)
  <2>1. Ended(lines) = lines
    BY <1>1, Zenon DEF Ended
  <2> QED BY <1>1, <2>1, Zenon
<1>2. CASE ~(lines = <<>> \/ Last(lines) = EndLine(Last(lines).time))
  <2>1. PICK t : t = Last(lines).time + 10
    OBVIOUS
  <2>2. Ended(lines) = Append(lines, EndLine(t)) /\ lines # <<>>
    BY <1>2, <2>1, Zenon DEF Ended
  <2>3. t \in Nat
    <3>1. Len(lines) \in DOMAIN lines
      BY <2>2, LenProperties, EmptySeq
    <3>2. Last(lines) \in Line
      BY <3>1, LenProperties, ElementOfSeq DEF Last
    <3> QED BY <2>1, <3>2 DEF Line
  <2> QED BY <2>2, <2>3, PutEnd, Zenon
<1> QED BY <1>1, <1>2

LEMMA OriginalSaid ==
  ASSUME NEW subtitle \in Subtitle
  PROVE  /\ OriginalLyrics(subtitle) \in Seq(Line)
         /\ subtitle.lines # <<>> => OriginalLyrics(subtitle) # <<>>
         /\ \A i \in DOMAIN OriginalLyrics(subtitle) : SubtitleSays(subtitle, OriginalLyrics(subtitle)[i])
<1>1. PICK said : said = subtitle.lines
  OBVIOUS
<1>2. said \in Seq(SubtitleLine)
  BY <1>1, ListsAreSequences DEF Subtitle
<1>3. DOMAIN said = 1 .. Len(said) /\ Len(said) \in Nat
  BY <1>2, LenProperties
<1>4. PICK lines : lines = [i \in DOMAIN said |-> [EndLine(said[i].time) EXCEPT !.text = said[i].text]]
  OBVIOUS
<1>5. OriginalLyrics(subtitle) = lines
  BY <1>1, <1>4, Zenon DEF OriginalLyrics
<1>6. ASSUME NEW i \in DOMAIN said
      PROVE  lines[i] \in Line /\ SubtitleSays(subtitle, lines[i])
  <2>1. said[i] \in SubtitleLine
    BY <1>2, <1>3, ElementOfSeq
  <2>2. lines[i] = [time |-> said[i].time, text |-> said[i].text, translated |-> NoText, original |-> NoText]
    BY <1>4 DEF EndLine
  <2>3. lines[i] \in Line
    BY <2>1, <2>2 DEF Line, SubtitleLine, Second, AnyText
  <2>4. /\ lines[i].time = said[i].time /\ lines[i].text = said[i].text
        /\ lines[i].translated = NoText
    BY <2>2
  <2>5. said[i] \in ToSet(subtitle.lines)
    BY <1>1 DEF ToSet
  <2> QED BY <2>3, <2>4, <2>5, Zenon DEF SubtitleSays
<1>7. lines \in [1 .. Len(said) -> Line] /\ DOMAIN lines = DOMAIN said
  BY <1>3, <1>4, <1>6
<1>8. lines \in Seq(Line) /\ Len(lines) = Len(said)
  BY <1>3, <1>7
<1>9. said # <<>> => lines # <<>>
  BY <1>2, <1>8, EmptySeq
<1> QED BY <1>1, <1>5, <1>6, <1>7, <1>8, <1>9

LEMMA TranslatedSaid ==
  ASSUME NEW subtitle \in Subtitle
  PROVE  /\ TranslatedLyrics(subtitle) \in Seq(Line)
         /\ subtitle.translation.lines # <<>> => TranslatedLyrics(subtitle) # <<>>
         /\ \A i \in DOMAIN TranslatedLyrics(subtitle) :
              SubtitleSays(subtitle, TranslatedLyrics(subtitle)[i])
<1>1. PICK trans : trans = subtitle.translation.lines
  OBVIOUS
<1>2. trans \in Seq(TranslatedLine)
  <2>1. subtitle.translation \in Translation
    BY DEF Subtitle
  <2>2. trans = <<>> \/ trans \in Lines(TranslatedLine)
    BY <1>1, <2>1 DEF Translation, Untranslated
  <2> QED BY <2>2, ListsAreSequences, EmptySeq
<1>3. DOMAIN trans = 1 .. Len(trans) /\ Len(trans) \in Nat
  BY <1>2, LenProperties
<1>4. PICK originals :
        originals = [i \in DOMAIN trans |-> IF Len(trans) = Len(subtitle.lines)
                                              THEN subtitle.lines[i].text ELSE NoText]
  OBVIOUS
<1>5. ASSUME NEW i \in DOMAIN trans
      PROVE  originals[i] \in AnyText
  <2>1. subtitle.lines \in Seq(SubtitleLine)
    BY ListsAreSequences DEF Subtitle
  <2>2. CASE Len(trans) = Len(subtitle.lines)
    <3>1. subtitle.lines[i] \in SubtitleLine
      BY <1>3, <2>1, <2>2, ElementOfSeq
    <3> QED BY <1>4, <2>2, <3>1 DEF SubtitleLine
  <2>3. CASE Len(trans) # Len(subtitle.lines)
    BY <1>4, <2>3 DEF AnyText
  <2> QED BY <2>2, <2>3
<1>6. PICK lines :
        lines = [i \in DOMAIN trans |->
                   [time |-> trans[i].time, text |-> trans[i].original,
                    translated |-> trans[i].text, original |-> originals[i]]]
  OBVIOUS
<1>7. TranslatedLyrics(subtitle) = lines
  BY <1>1, <1>4, <1>6 DEF TranslatedLyrics
<1>8. ASSUME NEW i \in DOMAIN trans
      PROVE  lines[i] \in Line /\ SubtitleSays(subtitle, lines[i])
  <2>1. trans[i] \in TranslatedLine
    BY <1>2, <1>3, ElementOfSeq
  <2>2. lines[i] \in Line
    BY <1>5, <1>6, <2>1 DEF Line, TranslatedLine, Second
  <2>3. /\ lines[i].time = trans[i].time /\ lines[i].text = trans[i].original
        /\ lines[i].translated = trans[i].text
    BY <1>6
  <2>4. trans[i] \in ToSet(subtitle.translation.lines)
    BY <1>1 DEF ToSet
  <2> QED BY <2>2, <2>3, <2>4, Zenon DEF SubtitleSays
<1>9. lines \in [1 .. Len(trans) -> Line] /\ DOMAIN lines = DOMAIN trans
  BY <1>3, <1>6, <1>8
<1>10. lines \in Seq(Line) /\ Len(lines) = Len(trans)
  BY <1>3, <1>9
<1>11. trans # <<>> => lines # <<>>
  BY <1>2, <1>10, EmptySeq
<1> QED BY <1>1, <1>7, <1>8, <1>9, <1>10, <1>11

LEMMA SubtitlesTimed ==
  ASSUME NEW subtitles \in SubtitleLists
  PROVE  LET lines == SubtitleLyrics(subtitles)
         IN  /\ lines \in Seq(Line)
             /\ \A i \in DOMAIN lines :
                   \/ \E subtitle \in ToSet(subtitles) : SubtitleSays(subtitle, lines[i])
                   \/ i = Len(lines) /\ i > 1
             /\ lines # <<>> => Last(lines) = EndLine(Last(lines).time)
             /\ \A subtitle \in ToSet(subtitles) :
                   subtitle.lines # <<>> /\ subtitle.translation.kind # "unreadable" => lines # <<>>
<1>1. PICK n \in 0 .. 1 : subtitles \in [1 .. n -> Subtitle]
  BY Zenon DEF SubtitleLists
<1>2. CASE n = 0
  <2>1. subtitles = <<>> /\ ToSet(subtitles) = {}
    BY <1>1, <1>2 DEF ToSet
  <2>2. SubtitleLyrics(subtitles) = <<>>
    BY <2>1 DEF SubtitleLyrics
  <2>3. <<>> \in Seq(Line) /\ DOMAIN <<>> = {}
    BY EmptySeq
  <2> QED BY <2>1, <2>2, <2>3, Zenon
<1>3. CASE n = 1
  <2>1. PICK subtitle \in Subtitle : subtitle = subtitles[1]
    BY <1>1, <1>3
  <2>2. ToSet(subtitles) = {subtitle} /\ subtitles # <<>>
    BY <1>1, <1>3, <2>1 DEF ToSet
  <2>3. \/ /\ subtitle.translation.kind = "unreadable"
           /\ SubtitleLyrics(subtitles) = <<>>
        \/ /\ subtitle.translation.lines # <<>>
           /\ SubtitleLyrics(subtitles) = Ended(TranslatedLyrics(subtitle))
        \/ SubtitleLyrics(subtitles) = Ended(OriginalLyrics(subtitle))
    <3>1. PICK wanted \in BOOLEAN :
            wanted = (subtitle.language # "en" /\ subtitle.translation # Untranslated)
      OBVIOUS
    <3>2. SubtitleLyrics(subtitles) =
            CASE wanted /\ subtitle.translation.kind = "unreadable" -> <<>>
              [] wanted /\ subtitle.translation.lines # <<>> -> Ended(TranslatedLyrics(subtitle))
              [] OTHER -> Ended(OriginalLyrics(subtitle))
      BY <2>1, <2>2, <3>1 DEF SubtitleLyrics
    <3>3. ~(subtitle.translation.kind = "unreadable" /\ subtitle.translation.lines # <<>>)
      BY DEF Subtitle, Translation, Untranslated
    <3> QED BY <3>2, <3>3
  <2>4. ASSUME NEW lines \in Seq(Line), \A i \in DOMAIN lines : SubtitleSays(subtitle, lines[i]),
               NEW all, all = Ended(lines)
        PROVE  /\ all \in Seq(Line) /\ (lines # <<>> => all # <<>>)
               /\ \A i \in DOMAIN all : SubtitleSays(subtitle, all[i]) \/ (i = Len(all) /\ i > 1)
               /\ all # <<>> => Last(all) = EndLine(Last(all).time)
    BY <2>4, EndedTimed, Zenon
  <2>5. PICK all : all = SubtitleLyrics(subtitles)
    OBVIOUS
  <2>6. /\ all \in Seq(Line)
        /\ \A i \in DOMAIN all : SubtitleSays(subtitle, all[i]) \/ (i = Len(all) /\ i > 1)
        /\ all # <<>> => Last(all) = EndLine(Last(all).time)
        /\ subtitle.lines # <<>> /\ subtitle.translation.kind # "unreadable" => all # <<>>
    <3>1. CASE subtitle.translation.kind = "unreadable" /\ all = <<>>
      BY <3>1, EmptySeq
    <3>2. CASE subtitle.translation.lines # <<>> /\ all = Ended(TranslatedLyrics(subtitle))
      BY <2>4, <3>2, TranslatedSaid, Zenon
    <3>3. CASE all = Ended(OriginalLyrics(subtitle))
      BY <2>4, <3>3, OriginalSaid, Zenon
    <3> QED BY <2>3, <2>5, <3>1, <3>2, <3>3
  <2> QED BY <2>2, <2>5, <2>6, Zenon
<1> QED BY <1>1, <1>2, <1>3

\* Nothing is shown before it is given.
LyricsInv == LyricsTypeOK /\ LyricsKeepTime

LEMMA LyricsInvInit == LyricsInit => LyricsInv
<1> SUFFICES ASSUME LyricsInit PROVE LyricsInv
  OBVIOUS
<1>1. lyrics = <<>> /\ given.by = "nobody" /\ given.subtitles = <<>>
  BY DEF LyricsInit, NothingGiven
<1>2. DOMAIN <<>> = {} /\ ToSet(<<>>) = {} /\ <<>> \in Seq(Line)
  BY EmptySeq DEF ToSet
<1> QED BY <1>1, <1>2 DEF LyricsInv, LyricsTypeOK, LyricsKeepTime

LEMMA LyricsInvStep == LyricsInv /\ [LyricsNext]_lyricsVars => LyricsInv'
<1> SUFFICES ASSUME LyricsInv, [LyricsNext]_lyricsVars PROVE LyricsInv'
  OBVIOUS
<1>0. ToSet(<<>>) = {} /\ DOMAIN <<>> = {}
  BY DEF ToSet
<1>1. CASE GetCaptions
  <2>1. PICK captions \in CaptionLists :
          /\ given' = [by |-> "youtube", captions |-> captions, subtitles |-> <<>>]
          /\ lyrics' = CaptionLyrics(captions)
    BY <1>1, Zenon DEF GetCaptions
  <2>2. given'.by = "youtube" /\ given'.captions = captions /\ given'.subtitles = <<>>
    BY <2>1
  <2>3. LyricsTypeOK'
    BY <2>1, <2>2, CaptionsTimed DEF LyricsTypeOK
  <2>4. LyricsKeepTime'
    BY <1>0, <2>1, <2>2, CaptionsTimed, Zenon DEF LyricsKeepTime, Said
  <2> QED BY <2>3, <2>4 DEF LyricsInv
<1>2. CASE GetSubtitles
  <2>1. PICK subtitles \in SubtitleLists :
          /\ given' = [by |-> "musixmatch", captions |-> <<>>, subtitles |-> subtitles]
          /\ lyrics' = SubtitleLyrics(subtitles)
    BY <1>2, Zenon DEF GetSubtitles
  <2>2. given'.by = "musixmatch" /\ given'.subtitles = subtitles
    BY <2>1
  <2>3. LyricsTypeOK'
    BY <2>1, <2>2, SubtitlesTimed DEF LyricsTypeOK
  <2>4. LyricsKeepTime'
    BY <2>1, <2>2, SubtitlesTimed, Zenon DEF LyricsKeepTime, Said
  <2> QED BY <2>3, <2>4 DEF LyricsInv
<1>3. CASE GetNothing
  <2>1. given = NothingGiven /\ given'.by = "noservice" /\ given'.captions = <<>>
        /\ given'.subtitles = <<>> /\ lyrics' = lyrics /\ given.captions = <<>> /\ given.subtitles = <<>>
    BY <1>3 DEF GetNothing, NothingGiven
  <2>2. LyricsTypeOK'
    BY <2>1 DEF LyricsInv, LyricsTypeOK
  <2>3. LyricsKeepTime'
    BY <2>1, Zenon DEF LyricsInv, LyricsKeepTime, Said
  <2> QED BY <2>2, <2>3 DEF LyricsInv
<1>4. CASE UNCHANGED lyricsVars
  BY <1>4, Zenon DEF lyricsVars, LyricsInv, LyricsTypeOK, LyricsKeepTime, Said
<1> QED BY <1>1, <1>2, <1>3, <1>4 DEF LyricsNext

THEOREM LyricsTypeCorrect == LyricsSpec => []LyricsTypeOK
<1>1. LyricsInv => LyricsTypeOK
  BY DEF LyricsInv
<1> QED BY <1>1, LyricsInvInit, LyricsInvStep, PTL DEF LyricsSpec

\* Whatever the services answer, and however badly a translation fits: no line is
\* shown at a time that nobody gave for it, and the last one ends.
THEOREM LyricsAreTimed == LyricsSpec => []LyricsKeepTime
<1>1. LyricsInv => LyricsKeepTime
  BY DEF LyricsInv
<1> QED BY <1>1, LyricsInvInit, LyricsInvStep, PTL DEF LyricsSpec

-----------------------------------------------------------------------------
(* The four parts. *)

Parts == Spec /\ RequestsSpec /\ NewsSpec /\ LyricsSpec

ServerSafe ==
    /\ ServerTypeOK
    /\ ChannelsSuffice /\ NoncesWork /\ RemovesTheTrackMeant /\ NewsReachesEverybody
    /\ LyricsKeepTime

\* In every way in which the steps of encoder and listeners, of connections with
\* requests, of announcements and of processTrack alternate, all that is shown of
\* each part by itself holds.
THEOREM PartsKeepTheirPromises == Parts => []ServerSafe /\ NoChunkDropped
<1>1. Spec => []TypeOK /\ []ChannelsSuffice /\ NoChunkDropped
  BY TypeCorrect, NobodyWaitsForRoom, NothingIsDropped
<1>2. RequestsSpec => []RequestsTypeOK /\ []NoncesWork /\ []RemovesTheTrackMeant
  BY RequestsTypeCorrect, NoncesAlwaysWork, TheTrackMeantIsRemoved
<1>3. NewsSpec => []NewsTypeOK /\ []NewsReachesEverybody
  BY NewsTypeCorrect, NewsReaches
<1>4. LyricsSpec => []LyricsTypeOK /\ []LyricsKeepTime
  BY LyricsTypeCorrect, LyricsAreTimed
<1>5. /\ TypeOK /\ RequestsTypeOK /\ NewsTypeOK /\ LyricsTypeOK
      /\ ChannelsSuffice /\ NoncesWork /\ RemovesTheTrackMeant /\ NewsReachesEverybody
      /\ LyricsKeepTime
      => ServerSafe
  BY Zenon DEF ServerSafe, ServerTypeOK
<1> QED BY <1>1, <1>2, <1>3, <1>4, <1>5, PTL DEF Parts

\* What TLC runs is such a way: to one part, the steps of the others are no steps.
LEMMA MCIsParts == MCSpec => Parts
<1>1. MCInit => Init /\ RequestsInit /\ NewsInit /\ LyricsInit
  BY DEF MCInit
<1>2. [MCNext]_<<part, vars, requestsVars, newsVars, lyricsVars>>
        => [Next]_vars /\ [RequestsNext]_requestsVars /\ [NewsNext]_newsVars /\ [LyricsNext]_lyricsVars
  BY DEF MCNext, DistributorStep, RequestsStep, NewsStep, LyricsStep
<1> QED BY <1>1, <1>2, PTL DEF MCSpec, Parts, Spec, RequestsSpec, NewsSpec, LyricsSpec

\* Every variable of the four parts is of its type, in TLC's runs as anywhere.
THEOREM ServerTypesAreKept == MCSpec => []ServerTypeOK
<1>1. ServerSafe => ServerTypeOK
  BY DEF ServerSafe
<1> QED BY <1>1, MCIsParts, PartsKeepTheirPromises, PTL
=============================================================================
