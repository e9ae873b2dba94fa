-------------------------------- MODULE News --------------------------------
(***************************************************************************)
(* How web sockets learn the number of listeners and the track played.     *)
(* audioHandler changes listenersCount and has setListenerCount announce   *)
(* it, in a goroutine of its own when the listener comes; setTrack stores  *)
(* currentTrackMeta and announces it; wsHandler registers a socket and     *)
(* then tells it both, by getPlaying.  Every one of them reads first and   *)
(* writes later, socket by socket, so that what is older may be written    *)
(* last.                                                                   *)
(*                                                                         *)
(* A value is known by its version: how often the variable was changed.    *)
(***************************************************************************)
EXTENDS Naturals

CONSTANTS Audio,      \* connections to /audio
          Setter,     \* calls of setTrack, by the player and the monitor
          WebSocket   \* web sockets

VARIABLES listenersCount, currentTrackMeta,   \* their versions
          connections,  \* the sockets registered
          listener,     \* where each audioHandler is
          cast,         \* each announcement: where it is, what it says, to whom it did
          greeting,     \* each wsHandler: where it is, what it has read
          heard         \* the newest versions each socket was told

newsVars == <<listenersCount, currentTrackMeta, connections, listener, cast, greeting, heard>>

\* Each is made by one goroutine, once.
Cast == Setter \cup (Audio \X {"comes", "goes"})

Content == [count : Nat, track : Nat]
Nothing == [count |-> 0, track |-> 0]

NewsTypeOK ==
    /\ listenersCount \in Nat /\ currentTrackMeta \in Nat
    /\ connections \subseteq WebSocket
    /\ listener \in [Audio -> {"new", "reporting", "listening", "gone"}]
    /\ cast \in [Cast -> [at : {"new", "load", "range", "done"}, says : Content,
                          due : SUBSET WebSocket]]
    /\ greeting \in [WebSocket -> [at : {"new", "track", "count", "write", "open",
                                         "panicked", "gone"}, says : Content]]
    /\ heard \in [WebSocket -> Content]

NewsInit ==
    /\ listenersCount = 0 /\ currentTrackMeta = 0
    /\ connections = {}
    /\ listener = [l \in Audio |-> "new"]
    /\ cast = [k \in Cast |-> [at |-> "new", says |-> Nothing, due |-> {}]]
    /\ greeting = [s \in WebSocket |-> [at |-> "new", says |-> Nothing]]
    /\ heard = [s \in WebSocket |-> Nothing]

CastGoes(k, from, to) == cast[k].at = from /\ cast' = [cast EXCEPT ![k].at = to]

Over(k) ==
    /\ cast[k].at = "range"
    /\ cast' = [cast EXCEPT ![k] = [at |-> "done", says |-> Nothing, due |-> {}]]

Newer(a, b) == IF a >= b THEN a ELSE b

\* webSocket.WriteMessage: the socket is told.
Tell(s, content) ==
    heard' = [heard EXCEPT ![s] = [count |-> Newer(@.count, content.count),
                                   track |-> Newer(@.track, content.track)]]

-----------------------------------------------------------------------------
(* Changes. *)

\* audioHandler: atomic.AddInt32(&s.listenersCount, 1) ...
Comes(l) ==
    /\ listener[l] = "new"
    /\ listener' = [listener EXCEPT ![l] = "reporting"]
    /\ listenersCount' = listenersCount + 1
    /\ UNCHANGED <<currentTrackMeta, connections, cast, greeting, heard>>

\* ... then s.newListenerC <- 1, which may take any time (module Playback), and
\* go setListenerCount.
Reported(l) ==
    /\ listener[l] = "reporting"
    /\ listener' = [listener EXCEPT ![l] = "listening"]
    /\ CastGoes(<<l, "comes">>, "new", "load")
    /\ UNCHANGED <<listenersCount, currentTrackMeta, connections, greeting, heard>>

\* Its deferred calls: the count is taken back, then announced.
Goes(l) ==
    /\ listener[l] = "listening"
    /\ listener' = [listener EXCEPT ![l] = "gone"]
    /\ listenersCount' = listenersCount + 1
    /\ CastGoes(<<l, "goes">>, "new", "load")
    /\ UNCHANGED <<currentTrackMeta, connections, greeting, heard>>

\* setTrack: s.currentTrackMeta.Store.
Store(k) ==
    /\ k \in Setter
    /\ cast[k].at = "new"
    /\ currentTrackMeta' = currentTrackMeta + 1
    /\ cast' = [cast EXCEPT ![k].at = "load", ![k].says.track = currentTrackMeta + 1]
    /\ UNCHANGED <<listenersCount, connections, listener, greeting, heard>>

-----------------------------------------------------------------------------
(* Announcements. *)

\* setTrack and setListenerCount: atomic.LoadInt32(&s.listenersCount), and then
\* webSocketNotify begins to go through the sockets there are.
LoadCount(k) ==
    /\ cast[k].at = "load"
    /\ cast' = [cast EXCEPT ![k].at = "range", ![k].says.count = listenersCount,
                            ![k].due = connections]
    /\ UNCHANGED <<listenersCount, currentTrackMeta, connections, listener, greeting, heard>>

\* Range visits each of them; one that has registered meanwhile it may miss.  (To
\* be told the same twice changes nothing, so that only the sockets due are kept.)
WriteTo(k, s) ==
    /\ cast[k].at = "range"
    /\ s \in connections
    /\ cast' = [cast EXCEPT ![k].due = @ \ {s}]
    /\ Tell(s, cast[k].says)
    /\ UNCHANGED <<listenersCount, currentTrackMeta, connections, listener, greeting>>

\* Variant of EndRange: the function given to Range returns false when a write
\* fails, and leaves out the sockets that come after.
EndRangeAtFailure(k) ==
    /\ Over(k)
    /\ UNCHANGED <<listenersCount, currentTrackMeta, connections, listener, greeting, heard>>

\* A write that fails is ignored, and the next socket is visited.
EndRange(k) ==
    /\ cast[k].due \cap connections = {}
    /\ Over(k)
    /\ UNCHANGED <<listenersCount, currentTrackMeta, connections, listener, greeting, heard>>

-----------------------------------------------------------------------------
(* wsHandler. *)

GreetingGoes(s, from, to) ==
    greeting[s].at = from /\ greeting' = [greeting EXCEPT ![s].at = to]

socketRest == <<listenersCount, currentTrackMeta, listener, cast>>

\* s.connections.Store(ws, ws).  A report of activity and the sources follow, which
\* may take any time.
RegisterSocket(s) ==
    /\ GreetingGoes(s, "new", "track")
    /\ connections' = connections \cup {s}
    /\ UNCHANGED <<heard, socketRest>>

\* getPlaying: the track ...
LoadTrack(s) ==
    /\ greeting[s].at = "track"
    /\ currentTrackMeta # 0
    /\ greeting' = [greeting EXCEPT ![s].at = "count", ![s].says.track = currentTrackMeta]
    /\ UNCHANGED <<connections, heard, socketRest>>

\* ... which must have been stored by now: currentTrackMeta.Load() is nil before
\* the first setTrack, its type assertion panics, and wsHandler is left.
LoadTrackPanics(s) ==
    /\ GreetingGoes(s, "track", "panicked")
    /\ currentTrackMeta = 0
    /\ UNCHANGED <<connections, heard, socketRest>>

\* ... and, after the positions, the listeners.
LoadListeners(s) ==
    /\ greeting[s].at = "count"
    /\ greeting' = [greeting EXCEPT ![s].at = "write", ![s].says.count = listenersCount]
    /\ UNCHANGED <<connections, heard, socketRest>>

WriteGreeting(s) ==
    /\ greeting[s].at = "write"
    /\ greeting' = [greeting EXCEPT ![s] = [at |-> "open", says |-> Nothing]]
    /\ Tell(s, greeting[s].says)
    /\ UNCHANGED <<connections, socketRest>>

\* The deferred s.connections.Delete(ws), after a panic too.
Delete(s) ==
    /\ GreetingGoes(s, "open", "gone") \/ GreetingGoes(s, "panicked", "gone")
    /\ connections' = connections \ {s}
    /\ UNCHANGED <<heard, socketRest>>

-----------------------------------------------------------------------------
Change == (\E l \in Audio : Comes(l) \/ Reported(l) \/ Goes(l)) \/ \E k \in Setter : Store(k)

Announce(k) == LoadCount(k) \/ EndRange(k) \/ \E s \in WebSocket : WriteTo(k, s)

Greet(s) ==
    \/ RegisterSocket(s) \/ LoadTrack(s) \/ LoadTrackPanics(s)
    \/ LoadListeners(s) \/ WriteGreeting(s) \/ Delete(s)

NewsNext ==
    \/ Change
    \/ \E k \in Cast : Announce(k)
    \/ \E s \in WebSocket : Greet(s)

NewsSpec == NewsInit /\ [][NewsNext]_newsVars

-----------------------------------------------------------------------------
(* Properties. *)

\* Announcement k will tell socket s the newest count, the newest track; that of a
\* listener that comes is made once its report of activity has gone through.
WillTellCount(k, s) ==
    \/ \E l \in Audio : k = <<l, "comes">> /\ listener[l] = "reporting"
    \/ cast[k].at = "load"
    \/ cast[k].at = "range" /\ cast[k].says.count = listenersCount
         /\ s \in cast[k].due

WillTellTrack(k, s) ==
    \/ cast[k].at = "load" /\ cast[k].says.track = currentTrackMeta
    \/ cast[k].at = "range" /\ cast[k].says.track = currentTrackMeta
         /\ s \in cast[k].due

\* News reaches everybody: a socket that has been greeted was told the number of
\* listeners and the track as they are now, or an announcement that is under way,
\* or is the next thing a listener does, will tell it; no socket falls between the
\* two, however it connects in the middle of one and whoever is told first.  (What
\* is told last may still be older.)
NewsReachesEverybody ==
    \A s \in connections : greeting[s].at = "open" =>
        /\ heard[s].count = listenersCount \/ \E k \in Cast : WillTellCount(k, s)
        /\ heard[s].track = currentTrackMeta \/ \E k \in Cast : WillTellTrack(k, s)
=============================================================================
