------------------------------ MODULE Sources ------------------------------
(***************************************************************************)
(* The music sources: plugins/csn, plugins/youtube, and the loop of        *)
(* NewServer that loads them.  A request to an external service fails or   *)
(* is answered, in any of the ways the code tells apart.                   *)
(*                                                                         *)
(* Of a query it matters whether the source finds a track's own address in *)
(* it; of a track, which one it is, and its PlayID.                        *)
(***************************************************************************)
EXTENDS Naturals, Sequences, SequencesExt

CONSTANTS CSN, YouTube,   \* the names of the plugins
          MaxRows         \* tracks in an answer to a search (3)

Source == {CSN, YouTube}

Query == {"", "words", "address"}

NoPlayID == 0

\* GenerateID gives PlayIDs nobody else has: the n-th track made may have the n-th.
Track == [number : Nat \ {0}, playID : Nat]

Made(n, id) == [number |-> n, playID |-> id]

\* What a search comes back with: an error, or tracks.
Failed    == [err |-> TRUE, tracks |-> <<>>]
Found(ts) == [err |-> FALSE, tracks |-> ts]

\* Rows of a search's answer, each with a PlayID of its own.
Rows(n, max) == {[i \in 1 .. k |-> Made(n + i, n + i)] : k \in 0 .. max}

\* csn: GetTrackFromURL leaves playID out.
GetTrackFromURL(query, n) ==
    IF query = "address" THEN {Made(n + 1, NoPlayID)} ELSE {}

\* Variant of GetTrackFromVideoID: it makes up no ID either.
GetTrackFromVideoIDShared(query, n) ==
    IF query = "address" THEN {Made(n + 1, 1)} ELSE {}

\* youtube: the address holds the ID of a video.
GetTrackFromVideoID(query, n) ==
    IF query = "address" THEN {Made(n + 1, n + 1)} ELSE {}

\* What Search may return, when n tracks were made before.  Both sources try the
\* address first and, whatever goes wrong with that, search for the words.
SearchCSN(query, n) ==
    {Failed} \cup {Found(<<t>>) : t \in GetTrackFromURL(query, n)}
             \cup {Found(ts) : ts \in Rows(n, MaxRows)}

SearchYouTube(query, n) ==
    {Failed} \cup {Found(<<t>>) : t \in GetTrackFromVideoID(query, n)}
             \cup {Found(ts) : ts \in Rows(n, 1)}

Search(source, query, n) ==
    IF source = CSN THEN SearchCSN(query, n) ELSE SearchYouTube(query, n)

\* NewServer: a plugin that cannot be loaded is skipped; the default source takes
\* the first place and sends the one that had it to the end.
LoadPlugin(sources, name, default) ==
    IF name = default /\ sources # <<>>
      THEN Append([sources EXCEPT ![1] = name], sources[1])
      ELSE Append(sources, name)

\* There are two plugins, so that one or both are loaded.
LoadPlugins(plugins, default) ==
    LET first == LoadPlugin(<<>>, plugins[1], default)
    IN  IF Len(plugins) = 1 THEN first ELSE LoadPlugin(first, plugins[2], default)
=============================================================================
