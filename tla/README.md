# MusicStream in TLA+

MusicStream is a Go server that plays one queue of tracks to many listeners at
once. Tracks are found by plugins, decoded by libav, encoded to Vorbis and MP3
and streamed over HTTP; web sockets carry requests and announcements. This
directory models the server, checks the models with TLC on small instances and
proves what matters most, for every instance, with TLAPS.

Line numbers refer to the sources under `src/`.

## 1. The system

| Part | State | Operations | Talks to |
|---|---|---|---|
| Blocking queue (`queue/queue.go`) | list, `mux`, condition variable `enqueued` with its own lock | `Push`, `Front`, `Pop`, `Size`, `Remove`, callbacks | used by the two queues below |
| Play queue and mirror (`server/queueCallback.go`, `server/request.go`) | `playQueue`, `cacheQueue`, the web sockets | the `Push` of `enqueue`, `processTrack`'s `Pop`, `removeTrack`, `getQueue`, `webSocketNotify` | callbacks inside `playQueue.mux`; sockets |
| Playback (`server/trackStream.go`, `distributor.go`, `utility.go`) | `bufferingChannel`, `streamMux`, `activityWg`, `deltaChannel`, `startPos`, `streamContext`, `skipFunc`, timer | `processTrack`, `preloadTrack`, `streamToClients`, `inactivityMonitor`, `listenerMonitor`, `skip`, keep-alive | play queue, encoders, sockets |
| Encoder pipeline (`server/distributor.go`, `trackStream.go`) | `bufferingChannel`, the two source channels, MP3 frame buffer | `preloadTrack`, `streamToClients`, `streamVorbis`, `streamMP3` | decoder, encoders, distribution |
| Stream decoder (`streamdecoder/`) | libav objects, `decoded_buffer`, `errRead` | `NewAVDecoder`, `Read`, `Close` | the body of a track |
| Encoders (`vorbisencoder/`, `mp3encoder/`) | `encoded_buffer`, `granulepos` | `Encode`, `GranulePos` | libvorbis, LAME |
| Audio distribution (`server/distributor.go`, `httpHandler.go`) | two registration channels per format, subscriber count, chunk ids, a channel per listener | the send loop, `audioHandler` | listeners |
| Sessions (`server/authContext.go`, `httpHandler.go`) | `authCtxs`, and per context `WS`, `AudioDisconnect`, `StartPos` | `audioHandler`, `wsHandler` | encoders' positions |
| News for web sockets (`server/distributor.go`, `utility.go`, `httpHandler.go`, `request.go`) | `listenersCount`, `currentTrackMeta`, `connections` | `audioHandler`, `setTrack`, `setListenerCount`, `webSocketNotify`, `wsHandler`, `getPlaying` | sockets |
| Request dispatch (`server/httpHandler.go`, `request.go`) | `processedNonce` | `handleMessage`, `checkNonce`, `processNonce`, `enqueue`, `removeTrack`, the rest | sources, play queue |
| Music sources (`plugins/`) | none that changes | `Search`, look-up by address, `Populate`, `Download`, PlayIDs | external services |
| Lyrics (`mxmlyrics/`, `plugins/youtube/`) | none | `GetLyrics` | external services |
| Set-up (`server/server.go`, `cmd/`) | `sources`, fixed at the start | `NewServer` with the order of plugins, signals | - |

What is hard here:

* The queue has two locks, and `Push` signals without the one that sleepers hold.
* Two queues are kept equal by callbacks under one mutex and by a request under none.
* The encoders know when a chunk is delivered only by counting registrations
  and subscribers, at different moments, while listeners come and go.
* Four goroutines notice a cancelled track each at its own moment, with the track's
  sound in three channels.
* Positions travel in an anonymous channel of capacity 2 with several writers and readers.
* Standby takes a mutex in one iteration of a loop and gives it back in a later one.
* The handlers of one session look a context up first and lock it later, and
  contexts are deleted while in use.
* A nonce is looked up and stored in two steps, for all connections alike.
* What a socket is told is read first and written later, by several goroutines.
* Decoder and encoder buffer between calls of different sizes.
* Two answers of a lyrics service, the lines and their translation, need not fit.

What makes each part correct is stated as properties (section 4). `PROJECT.json`
lists every hazard at its line with the properties aimed at it.

## 2. The modules

| Module | Models | Refinement, composition |
|---|---|---|
| `FifoQueue` | what the queue promises: elements enter at the back, a consumer takes or looks at the front, a removal takes one from anywhere | abstract |
| `Queue` | `queue.go` at the grain of its locks and of `sync.Cond` | implements `FifoQueue` |
| `TrackQueue`, `MCTrackQueue` | `playQueue`, `cacheQueue`, callbacks, removals, notifications, joining sockets | implements `FifoQueue` |
| `Playback`, `MCPlayback` | player, preloaders, monitor, relay, skips, keep-alives | - |
| `Decoder`, `VorbisEncoder` | the state and operations of the two C wrappers | extended by `Pipeline` |
| `Pipeline` | the sound of one track from decoder to encoders | composes the two above |
| `Session`, `MCSession` | the handlers and contexts of one cookie | - |
| `Distributor` | one encoder's send loop against the `audioHandler`s | - |
| `Sources` | what a search, a look-up and the loading of plugins may give | extended by `Requests` |
| `Requests` | `handleMessage` and its handlers, from a message to its answer | extends `Sources` |
| `News` | who changes, announces and reads the listener count and the track | - |
| `Lyrics` | the lines made of what a service answers | - |
| `MCServer` | `Distributor`, `Requests`, `News`, `Lyrics` for TLC | extends them |
| `QueueProofs`, `TrackQueueProofs`, `PlaybackProofs`, `SessionProofs`, `PipelineProofs`, `DistributorProofs`, `RequestsProofs`, `ServerProofs` | the proofs; `ServerProofs` has those of news, of lyrics and of the four parts together | extend the modules |

Correspondence of state and steps, in general: a Go channel is a sequence with a
capacity in the guard of its sends; a mutex held across steps is a variable with
its holder, and a critical section that nothing else can see into is one step;
`pc`, or a variable named for the goroutine, is where a goroutine stands between
two shared accesses; `select` is a disjunction. The definitions with `Variant` in
their comment are near misses of the code: replacing a definition by its variant
breaks a property, which shows that the property depends on that detail.

* **Queue.** `Pop` is `Enter` (takes `L`), a size check, `Wait` in its three parts
  (on the list and unlock, parked, relock), and the take. Callbacks are left to
  `TrackQueue`. `Push` is two steps: the insertion under `mux`, then the signal.
* **TrackQueue.** The callbacks run inside `playQueue.mux`, so the mutex is held
  through the mirror's update and through one write per socket. `removeTrack`
  is its two `Remove`s and its announcements, with a panic when the second finds
  nothing. `wsHandler` joins, reads the list, then writes it. The signal of
  `queue.go` is here with the player as the only sleeper.
* **Playback.** Sound is counted in chunks, positions are tokens with a format.
  `timer.fires` says of a whole behaviour whether the 15-minute timer may tick, at
  any moment then, or never does because clients keep reporting. The two encoders and
  their source channels are one: it takes a chunk, which the player hears of, and is
  then `sending` until `ChunkSent`, at any time or never; what lies in that step is
  module `Distributor`.
* **Decoder.** Samples are numbered as decoded; a frame has any size up to
  `MaxFrame`, and what a read leaves of it goes to a `decoded_buffer` of `BufferSize`
  samples. A rest that does not fit (the assertion) and a frame that cannot be
  converted end the process: no `Alive`, no further step. `decoder_new` is the table `Steps`: what each step obtains and the
  label it goes to; `Passes` is the chain of labels with its one `goto`. What is
  given back is a pair of a thing and the place that frees it, so that freeing a
  thing in two places is not the same as freeing it once.
* **VorbisEncoder.** `libvorbis` may make pages of any part of what it was
  given; a byte is counted as the sample it encodes.
* **Pipeline.** Each chunk goes through `bufferingChannel`, both source channels,
  and the MP3 frame buffer. Cancellation may come at every step.
* **Session.** A handler's critical sections on a context are its actions; between
  them anybody may act. Looking a context up and locking it are separate.
* **Distributor.** `encoder` walks through the send loop: the length of the
  registration channel and the subscriber count are read in separate steps. A
  chunk carries its id and the next channel. A listener that is already counted reports
  its activity, `Report`, before it registers. A leaver drains one chunk.
* **Sources.** A request to a service fails or is answered in any way the code
  tells apart. Of a query it matters whether a track's address is in it; a track
  is its number and its PlayID, which a CSN track found by address does not have.
* **Requests.** Each connection's goroutine walks from `ReadMessage` through
  `CheckNonce` and `ProcessNonce`, two accesses to the shared map, to a handler and
  the answer; `enqueue` is its search, `Populate` and `Push`. `removed` remembers
  which track was meant and which was taken.
* **News.** A value is known by its version, the number of times the variable was
  changed. An announcement is a load, the start of `Range` over the sockets that
  there are, and one write per socket; one that registers meanwhile may be missed. A
  listener's announcement comes after its report of activity, which may take any time.
  `getPlaying` reads the track and the count in two steps, and panics when no track
  was stored yet.
* **Lyrics.** A fetch touches nothing shared and is one action over any answers of
  the service; the operators make the lines of it as the code does.
* **MCServer.** Its four parts share no variable as modelled, so that interleaving
  their steps would only multiply states: `part` chooses, at the start, whose
  steps a behaviour consists of.

## 3. Bounds, fairness, stopping

Why small instances show something: each bound is just large enough for the case
that matters to happen, and the properties are stated so that they do not get
easier with it.

| Run | Instance | Why it is enough |
|---|---|---|
| `Queue` | 2 pushers, 2 consumers, a remover, 2 values, length 3 | a stolen wake-up needs two consumers, a reordering two values |
| `QueueLostWakeup` | 2 pushers, 1 consumer | the lost signal needs only one sleeper |
| `TrackQueue` | 2 tracks, 2 removers, a socket | a pop and a second removal inside a removal |
| `TrackQueueDesync` | 2 tracks, 1 remover | one pop inside one removal |
| `Playback` | never idle: 2 tracks of one read, a skipper, a pinger, a buffer of 2; with standby: 1 track without further reads (`AsleepTrack`) | a track is prepared while another is cancelled; standby meets each phase of a track |
| `PlaybackHang` | 1 track, 1 pinger, standby | the smallest hang |
| `Server`, distribution | 3 listeners, 2 may leave, 4 chunks, capacity 3 | a late joiner, a stayer and a leaver at once; both channels are used twice |
| `Server`, requests | 1 web socket with 2 messages, 1 HTTP request, 1 nonce, answers of 2 rows | copies on one connection and on two; a removal races an enqueue; several sources in either order |
| `Server`, news | 1 listener, 2 calls of `setTrack`, 1 socket | three announcements overlap a greeting: the listener's two and a track's, or two tracks |
| `Server`, lyrics | 2 lines of 2 texts, seconds 0 and 1, lists of 2 captions or 1 subtitle | a translation with as many lines at other times, more lines, or fewer |
| `SharedPlayID` | 1 web socket, 3 messages | two enqueues and a removal |
| `DistributorStall` | 2 listeners, 1 leaves | one stays to be stalled |
| `Session` | 3 streams, 1 socket, positions to 2, symmetric in the handlers | a third stream replaces the one that replaced the first |
| `SessionTwoStreams` | 2 streams, 1 socket | - |
| `Pipeline` | reads of 2, frames up to 5, a `decoded_buffer` of 3, 2 packets, MP3 frames of 2, channels of 1, output of 2 | a frame fills more than one read, spans reads, fits `decoded_buffer` after one sample and not after two; every channel is full and empty; a call's output overflows |

Model-only bounds are `MaxFrame`, `MaxLen` (pushes), `MaxChunk`, `MaxSamples`, `MaxPacket`,
`MaxPos`, `MaxSent`, `MaxTime` and `MaxLine`: they stop a counter or an answer from
growing. Other constants are sizes the code has (5000, 500, 3840 bytes, 16384 bytes,
1152 samples, 20000 bytes, 3 rows), made small. Deadlock checking is off in every
run because these systems may stop: clients need not ask for anything, or the bounded
input is used up. Where stopping would be an error a liveness property says so.

Fairness, and why the code justifies it:

* `Queue`, `TrackQueue`, `Pipeline`, and the distribution in `MCServer`: weak fairness
  per goroutine, for steps of calls that have begun. The Go scheduler runs what
  can run. No client is obliged to start anything. `Distributor` adds that a client
  that stays reads (`w.Write` returns); `TrackQueue` that a write to a socket returns.
* Some sends may block for ever, as other runs here show, and no fairness is assumed
  of them. Their going through is a hypothesis of the properties that need it, in
  their formula: `ReportsGoThrough` (`newListenerC <- 1` in `audioHandler`; it can hang in
  standby, `PlaybackHang`) in the liveness of `Distributor`, and `ChunksGetOut` (an
  encoder gets rid of each chunk; it may not, `DistributorStall`) in that of
  `Playback`. In `Pipeline` the encoders' fairness is this assumption, and a track
  whose reads have ended the process (`Alive`) need not end.
* `Playback`: also strong fairness for `RelayListener` and for the sends of
  keep-alives, because several goroutines wait on one channel: Go serves blocked
  senders in order of arrival and picks among ready `select` cases at random.
* `Session`, `Requests`, `News`, `Lyrics`: none; their properties are safety properties.

## 4. What is checked

* `Queue`: locks are released on each path, also when an empty list panics
  (`LockDiscipline`); until the first `Remove`, `Pop` and `Front` never reach an
  empty list (`NoEmptyTake`); callers see a FIFO queue (`ImplementsFifo`); a signal
  still to come serves somebody (`SignalServesSomebody`).
* `TrackQueue`: the mirror's length is explained at every step (`MirrorLength`) and
  it is exact before any removal (`MirrorExact`); the blocking pop of the mirror
  inside the mutex never blocks (`PopCallbackNeverStuck`), and the mutex is always
  given back (`MuxReleased`); playing is first in, first out (`ImplementsFifo`).
  `SocketsFollow` is what a socket can rely on: it misses no track (`NoMissedTrack`);
  what it was told is removed is in no list read from then on (`RemovedIsGone`); the
  arrival of a track is not announced after its removal (`RemovalNotBeforeArrival`). A
  list that was read before a removal can still be written after it, and shows the
  track again (`httpHandler.go:209`): that is not excluded.
* `Playback`: positions announced, and read piece by piece while a track streams, are
  where its sound starts (`AnnouncedWhereItStarts`); the buffer never mixes tracks
  (`BufferHoldsCurrent`); only the shown track is skipped (`SkipHitsTrackShown`);
  waking up gives back what standby took (`StandbyIsHeld`); every track taken ends,
  as long as encoders get rid of their chunks (`TakenTrackEnds`); keep-alives are
  answered (`KeepAliveAnsweredBusy`). These last two, like `AnnouncedWhereItStarts` and
  `SkipHitsTrackShown`, are about a server that is never idle; finding 5 below is what
  happens to one that is.
* `Server`, distribution: the send in the loop never blocks and nobody is registered
  twice (`ChannelsSuffice`); until somebody leaves, listeners miss nothing
  (`NoChunkDropped`) and the encoder gets each chunk out (`ChunkGetsOutToStayers`), if
  the listeners' reports of activity go through. Both are for as many places in a
  channel as there are listeners (with 501 the code stops: the newcomer waits at a full
  channel, the encoder at the other one), and say nothing once somebody has left:
  a registration that a leaver leaves behind counts as a send, and whether somebody
  else can miss a chunk by that is open.
* `Server`, requests: a nonce that was carried out is not carried out again, and only
  copies go unanswered (`NoncesWork`). Two copies that arrive at the same time, on
  two connections, can both pass `checkNonce`: that is allowed here, as the code
  allows it. A removal takes the track that was meant (`RemovesTheTrackMeant`), with
  the exception of finding 3.
* `Server`, news: a socket that was greeted was told the newest count and track, or an
  announcement under way, or the one a new listener makes next, will tell it
  (`NewsReachesEverybody`). One that connects before the first track is stored is not
  greeted at all: `getPlaying` panics (`request.go:47`, `LoadTrackPanics`). It is not
  claimed that the newest is what it is told last: two announcements may overtake each
  other.
* `Server`, lyrics: every line stands at the time the service gave for its text, the last
  line ends, and no subtitle is lost but by an unreadable translation
  (`LyricsKeepTime`).
* `Session`: of two streams in one context one is told to end, by a send that
  never blocks; sockets and start positions belong together; contexts name only
  the living.
* `Pipeline`: a decoder gives back what it obtained, once, wherever opening it
  fails (`ResourcesReturned`); reads return the sound without gap or repetition, until
  a frame ends the process (`DecoderLosesNothing`): the assertion at `decoder.c:93` does
  for a rest of more than 16384 bytes, which FLAC frames and Opus packets of 120 ms
  leave, and MP3 frames and packets of 20 ms do not; a Vorbis chunk carries its first
  sample's number until a call's output overflows (`ChunkStartsAtPos`); both encoders get the same sound, and
  an uncancelled track in full (`ClientsHearTheTrack`); `streamToClients` always
  returns (`StreamReturns`) and leaves a clean channel (`NothingLeftBehind`).

### Where the code does something else

Six runs are expected to find a counterexample; each quotes what the repository
says.

1. `QueueLostWakeup`: a push and its signal both fit between the size check in `Pop`
   and its `Wait`; the consumer sleeps on a non-empty queue (`queue.go:43`, against
   the comment at `queue.go:59`).
2. `TrackQueueDesync`: a pop between the halves of `removeTrack` leaves `cacheQueue`
   different from `playQueue` for good (`request.go:143`).
3. `SharedPlayID`: a CSN track that is enqueued by its address has no PlayID, and neither
   has another one; removing the second removes the first (`csn.go:199`, against the
   comment at `csn.go:152`).
4. `DistributorStall`: a leaver is counted when the encoder reads the number of
   subscribers, gets its last chunk and goes; the encoder waits alone for the
   registration that this number promised, and nobody hears more (`distributor.go:81`).
5. `PlaybackHang`: in standby the monitor can block on `deltaChannel` or `streamMux`;
   keep-alives then hang (`utility.go:87`).
6. `SessionTwoStreams`: a socket that closes deletes a context in which a stream still
   waits for its first chunk; the session's next stream does not end it
   (`httpHandler.go:228`).

## 5. What is proved

All proofs are for any value of the constants allowed by the named assumptions
(`QueueAssumption`, `TrackQueueAssumption`, `PlaybackAssumption`, `SessionAssumption`,
`DecoderAssumption`, `VorbisAssumption`, `PipelineAssumption`, `DistributorAssumption`),
which say that sets of goroutines are disjoint, that nil values are no values, and
that sizes are numbers. `Requests`, `News` and `Lyrics` need none.

* **Queue.** `LockDiscipline` is inductive with the type invariant: a consumer between
  check and take is the one that holds `L`. From it `NoEmptyTake`: while one consumer
  has seen an element, no other can shorten the list. `Refinement` maps the list to
  the abstract queue; every step is a push, take, look, removal or stutter.
* **TrackQueue.** `MirrorLength` is proved by counting: the pop in its callback owes
  the mirror one element, and each removal between its halves, or one that panicked,
  owes one. Lemmas `PopDebt` and `RemoversDebt` say how a step changes these
  counts. It gives `PopCallbackNeverStuck` at once: in the callback the mirror is longer
  than another list, hence not empty. `MirrorExact` needs to know who holds the mutex
  and by which element the mirror then lags behind. `SocketsFollow` has three parts. A
  socket that has read the list knows each track in it, was told, or is still due to be
  told by the track's own announcement (`Arrives`, `ListIsTold`). What is removed has been
  announced before (`RemovedWereAnnounced`): the track was taken from a list with the
  mutex free or in the player's hands, and an announcement holds it until it ends. A
  track whose removal a socket was told of is past its announcement and in the mirror
  no more (`RemovedIsGone`), and since a track enters once, it does not come back
  (`GoneStep`).
* **Playback.** One invariant carries all five theorems. A preloader works only on the
  track `processTrack` is at, because a track is prepared by one goroutine, once
  (`QueueIsFresh`, `OneFeeder`); when it has stopped, its end mark is still in the
  buffer (`EndMark`), so whoever leaves `streamToClients` has emptied it. `MuxHolders`
  says who holds `streamMux` and includes the monitor that is stuck before its own
  mutex after a second tick. Without standby, `Positions` says what is in the
  anonymous `deltaChannel` at every place of its one sender and one receiver, and
  `SkipFuncShown` that a live context is always that of the track shown.
* **Session.** The inductive invariant is `SessionInv`: handlers past their lookup have
  a context; contexts name the living (`NobodyDangles`); an established stream is named
  by its context or was told to end (`NamedOrTold`); only established streams were told;
  a named stream has an empty channel (`SignalNeverBlocks`). `OneStreamPerContext`
  follows because a context names one stream. `SocketKnowsStart` and `StartPosHasStream`
  are inductive on top of it.
* **Pipeline.** `ReadsLoseNothing` needs `LeftoverFirst`: nothing is left over while a
  read still has room, so the next frame continues where the copied samples end. It
  holds for every size of reads, frames and `decoded_buffer`, and says nothing of what
  comes after a frame that ends the process, because nothing does. The
  lemmas `Cut` and `NextSamples` are about the sequences. `BufferIsClean` needs
  that the end mark is the last that is pushed (`EndIsLast`) and that whoever
  has taken it finds the channel empty (`EndTaken`). `PositionsAreTrue` needs that
  without overflow `encoded_buffer` is empty between calls (`VorbisInv`).
* **Pipeline, end to end** (`ClientsHear`, invariant `SoundInv`). Whatever is in a
  channel or in a goroutine's hand is a contiguous stretch of the track (`Flow`), from
  one counted position to another. `Delivery` gives three positions: sent to Vorbis,
  sent to LAME, received by `streamToClients`; where the player stands says how they
  are ordered. What an encoder was given ends where its stretch begins (`VorbisHeard`,
  `MP3Heard`); for MP3 that is what was cut into frames, what is still in the frame
  buffer, and at the end at most a frame of padding (`Framing`, `Padding`). Encoders
  that notice a cancelled track at different chunks were given prefixes of one sound.
  The type invariant (`TypesAreKept`, invariant `LevelInv`) adds how much may be
  decoded, left over, queued and paged at each place: a frame is never left over whole,
  because a read that still has room takes one sample of it at least, and no more
  than `BufferSize` samples are.
* **Decoder** (`DecoderGivesBack`, invariant `LifeInv`). The proof is two tables:
  what the steps before step n obtained (`ObtainedTable`) and what the labels from
  step n's label down give back (`CleanupTable`), each thing in one place. They agree
  in every row (`FailureGivesBack`); `Close` is the row after the last.
* **Distributor.** A listener's registrations and undelivered chunks are tokens, two
  until its first chunk and one from then on, wherever they are (`None`, `One`, `Two`);
  a send turns one into another, so its channel never holds more than two.
  `NoChunkDropped` adds where the tokens are (`InPlace`, `Consecutive`): a listener was last
  sent the newest chunk or, while the encoder is sending, the one before it, and its
  registration waits where its next chunk will be sent from. While nobody leaves, `sent` is the number of those
  who got the chunk, all of them subscribers (`Counts`), so that when the loop's two
  counts agree everybody has got it (`AllGot`). For the types, `subscribers` is the
  number of handlers running (`Counted`), hence never negative.
* **Requests.** Every track about has its own PlayID or none (`TracksAreOwn`), so that
  equal PlayIDs mean equal tracks (`SamePlayID`). For the filter: what was carried out
  was stored before, and what is stored is carried out or about to be (`Filtered`). Every
  handler has the message and the track it works with (`Typed`), and whichever plugins
  are loaded, there is a source (`PluginsLoaded`).
* **News.** The invariant follows a socket from its first read: what it has read, then
  what it was told, is the newest, or an announcement owes it the newest
  (`CountReaches`, `TrackReaches`); it needs that nobody is ahead (`NobodyAhead`) and
  that a socket registers before it reads (`RegisteredFirst`).
* **Lyrics.** A fetch is one step, so `LyricsKeepTime` rests on lemmas about its
  operators: a language is looked for among the captions and gives the lines of one of
  them (`FirstLinesOf`); a translation, whether or not it fits, takes each text from a
  line at the time it was given for (`CaptionTextSaid`, `TranslatedSaid`,
  `SubtitlesTimed`); and one line is added, without text, which ends the last (`PutEnd`).
* **The four parts of the server.** `PartsKeepTheirPromises` is about `Parts`, in which
  distribution, requests, news and lyrics alternate in any order: what is proved of each
  part holds of all together. `MCIsParts` shows that each behaviour of `MCServer` is one
  of these, so that its letting one part run at a time hides nothing from the runs.

Only model-checked: liveness (`SignalServesSomebody`, `MuxReleased`,
`ChunkGetsOutToStayers`, `TakenTrackEnds`, `KeepAliveAnsweredBusy`, `StreamReturns`),
which needs fairness and ENABLED and is out of the prover's reach. Every invariant and
every action property that a passing run checks is proved.

## 6. What is not modelled

* Times: what the encoders report as played time, `time.Sleep` between tracks, and
  LAME's delay. `Pipeline` has the reports as a rendezvous only.
* A socket whose write never returns; `webSocketNotify` would then block its caller
  (`distributor.go:251`).
* The announcements of a track that cannot be played (`processTrack`), in `News`; in
  `Playback` such a track ends.
* How requests to services are put together, the metadata of a track other than its
  PlayID, and the body of `Download`; its failures are those of opening a stream in
  `Playback` and `Pipeline`. How the session cookie gets its value.
* Routes, headers, static files, `selfPinger` with its one request a minute, `main`,
  and `Shutdown`, which hands over to the HTTP library: wiring without behaviour of
  its own.
* `BufferedReadSeeker`, which nothing in the repository uses, and `EndStream`, which
  nothing calls. What libav, libvorbis and LAME do inside.
* One cookie per `Session`, one track per `Pipeline`, one encoder per `Distributor`:
  different cookies share nothing, the pipeline is empty between tracks
  (`NothingLeftBehind`), and the two encoders run the same protocol on separate variables.

## 7. Plan

Done, in this order: the queue and its abstraction, the play queue on top of it, the
distribution, playback, sessions, the pipeline with decoder and encoder; requests with
the sources, news, lyrics; proofs for all of these: each safety
property that a run checks is a theorem.

Next, most important first:

1. An abstract listener's stream (each listener hears a contiguous stretch of chunks),
   implemented by `Distributor` while nobody leaves.
2. Socket buffers, so that a slow socket can be seen blocking `webSocketNotify`.
3. `BufferedReadSeeker` against a plain byte sequence, should it come into use.
