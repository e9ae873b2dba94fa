------------------------------ MODULE Session ------------------------------
(***************************************************************************)
(* The session of one sessionId cookie: the audioHandlers and wsHandlers   *)
(* of requests that carry it (src/server/httpHandler.go) meet in the       *)
(* authenticatedContext that authCtxs holds under its value.  The context  *)
(* tells an audio stream to end when another one is established, and tells *)
(* the web socket the position at which the audio stream began.            *)
(*                                                                         *)
(* A handler looks the context up first and locks it later, and a context  *)
(* that looks unused is deleted from authCtxs while others still work with *)
(* it, so that the handlers of one session may hold different contexts.    *)
(*                                                                         *)
(* What a handler does with a context between ctx.L.Lock and ctx.L.Unlock  *)
(* is one action: it touches the map once, and nothing it writes but the   *)
(* channel audioDisconnect is read without the lock.                       *)
(***************************************************************************)
EXTENDS Integers

CONSTANTS Audio,        \* requests for an audio stream
          Socket,       \* requests for a web socket
          Nobody,       \* a nil WS, AudioDisconnect
          MaxPos        \* bound: positions the encoder passes through

ASSUME SessionAssumption ==
    /\ Audio \cap Socket = {}
    /\ Nobody \notin Audio \cup Socket
    /\ MaxPos \in Nat

\* A context is known by its number, in the order they are made.
NoContext == 0

defaultStartPos == 0

VARIABLES authCtxs,      \* the context stored for the cookie, or NoContext
          made,          \* contexts made so far
          ws,            \* WS of each context that was made
          startPos,      \* StartPos of each
          disconnect,    \* AudioDisconnect of each: whose channel it is
          position,      \* GranulePos of the encoder
          pc,            \* where each handler is
          ctx,           \* the context a handler looked up when it connected
          playCtx,       \* the one an audioHandler looked up for its first chunk
          playPos,       \* the encoderPos of that chunk
          signals,       \* elements in each audioDisconnect channel; capacity 1
          told           \* the start position each web socket was told last

contextVars == <<ws, startPos, disconnect>>
handlerVars == <<ctx, playCtx, playPos, told>>
vars == <<authCtxs, made, contextVars, position, pc, handlerVars, signals>>

Handler == Audio \cup Socket

NotTold == -1

AudioPC  == {"new", "found", "select", "first", "refound", "leaving", "stopped", "gone"}
SocketPC == {"new", "found", "open", "gone"}

TypeOK ==
    /\ made \in Nat
    /\ authCtxs \in 0 .. made
    /\ ws \in [1 .. made -> Socket \cup {Nobody}]
    /\ startPos \in [1 .. made -> Nat]
    /\ disconnect \in [1 .. made -> Audio \cup {Nobody}]
    /\ position \in 0 .. MaxPos
    /\ pc \in [Handler -> AudioPC \cup SocketPC]
    /\ \A s \in Socket : pc[s] \in SocketPC
    /\ \A a \in Audio : pc[a] \in AudioPC
    /\ ctx \in [Handler -> 0 .. made]
    /\ playCtx \in [Audio -> 0 .. made]
    /\ playPos \in [Audio -> Nat]
    /\ signals \in [Audio -> {0, 1}]
    /\ told \in [Socket -> Nat \cup {NotTold}]

Empty == [c \in 1 .. 0 |-> c]

Init ==
    /\ authCtxs = NoContext /\ made = 0
    /\ ws = Empty /\ startPos = Empty /\ disconnect = Empty
    /\ position = 0
    /\ pc = [h \in Handler |-> "new"]
    /\ ctx = [h \in Handler |-> NoContext]
    /\ playCtx = [a \in Audio |-> NoContext]
    /\ playPos = [a \in Audio |-> defaultStartPos]
    /\ signals = [a \in Audio |-> 0]
    /\ told = [s \in Socket |-> NotTold]

Move(h, from, to) == pc[h] = from /\ pc' = [pc EXCEPT ![h] = to]

-----------------------------------------------------------------------------
(* authCtxs. *)

\* The next context, as newAuthenticatedContext makes it.
Extended(f, value) == [c \in 1 .. made + 1 |-> IF c \in 1 .. made THEN f[c] ELSE value]

\* LoadOrStore(cookie.Value, newAuthenticatedContext(cookie.Value)): what is
\* stored, or the new context, which is then stored.
LoadOrStore(found) ==
    \/ /\ authCtxs # NoContext
       /\ found = authCtxs
       /\ UNCHANGED <<authCtxs, made, contextVars>>
    \/ /\ authCtxs = NoContext
       /\ found = made + 1
       /\ made' = made + 1
       /\ authCtxs' = found
       /\ ws' = Extended(ws, Nobody)
       /\ startPos' = Extended(startPos, defaultStartPos)
       /\ disconnect' = Extended(disconnect, Nobody)

-----------------------------------------------------------------------------
(* audioHandler. *)

\* It has connected (module Distributor) and looks its context up ...
FindContext(a) ==
    /\ Move(a, "new", "found")
    /\ ctx[a] = NoContext
    /\ \E c \in 1 .. made + 1 : LoadOrStore(c) /\ ctx' = [ctx EXCEPT ![a] = c]
    /\ UNCHANGED <<position, playCtx, playPos, signals, told>>

\* Variants of Establish: the old stream is not told; the context keeps the old
\* stream's channel.
EstablishUntold(a) ==
    /\ Move(a, "found", "select")
    /\ disconnect' = [disconnect EXCEPT ![ctx[a]] = a]
    /\ authCtxs' = ctx[a]
    /\ UNCHANGED <<made, ws, startPos, position, signals, handlerVars>>

EstablishUnowned(a) ==
    LET old == disconnect[ctx[a]] IN
    /\ Move(a, "found", "select")
    /\ IF old = Nobody
         THEN disconnect' = [disconnect EXCEPT ![ctx[a]] = a] /\ UNCHANGED signals
         ELSE signals[old] = 0 /\ signals' = [signals EXCEPT ![old] = 1] /\ UNCHANGED disconnect
    /\ authCtxs' = ctx[a]
    /\ UNCHANGED <<made, ws, startPos, position, handlerVars>>

\* ... and takes the place of the stream that is in it.  The send on the old
\* stream's channel would block, with the context locked, were it full.
Establish(a) ==
    LET old == disconnect[ctx[a]] IN
    /\ Move(a, "found", "select")
    /\ IF old = Nobody
         THEN UNCHANGED signals
         ELSE signals[old] = 0 /\ signals' = [signals EXCEPT ![old] = 1]
    /\ disconnect' = [disconnect EXCEPT ![ctx[a]] = a]
    /\ authCtxs' = ctx[a]
    /\ UNCHANGED <<made, ws, startPos, position, handlerVars>>

\* case Chunk := <-channel, for the first time; the chunk may have waited in the
\* channel, so any position up to the encoder's is possible.
FirstChunk(a) ==
    /\ Move(a, "select", "first")
    /\ playCtx[a] = NoContext
    /\ \E p \in 0 .. position : playPos' = [playPos EXCEPT ![a] = p]
    /\ UNCHANGED <<authCtxs, made, contextVars, position, ctx, playCtx, signals, told>>

\* The context is looked up once more.
FindAgain(a) ==
    /\ Move(a, "first", "refound")
    /\ \E c \in 1 .. made + 1 : LoadOrStore(c) /\ playCtx' = [playCtx EXCEPT ![a] = c]
    /\ UNCHANGED <<position, ctx, playPos, signals, told>>

\* Variant of SetStart: the web socket is not told.
SetStartUntold(a) ==
    /\ Move(a, "refound", "select")
    /\ startPos' = [startPos EXCEPT ![playCtx[a]] = playPos[a]]
    /\ authCtxs' = playCtx[a]
    /\ UNCHANGED <<made, ws, disconnect, position, handlerVars, signals>>

\* The position of its first chunk is told to the web socket and stored.
SetStart(a) ==
    LET c == playCtx[a] IN
    /\ Move(a, "refound", "select")
    /\ told' = [s \in Socket |-> IF ws[c] = s THEN playPos[a] ELSE told[s]]
    /\ startPos' = [startPos EXCEPT ![c] = playPos[a]]
    /\ authCtxs' = c
    /\ UNCHANGED <<made, ws, disconnect, position, ctx, playCtx, playPos, signals>>

\* The handler returns from its select: its client has gone (or a write fails) ...
AudioLeaves(a) ==
    /\ Move(a, "select", "leaving")
    /\ UNCHANGED <<authCtxs, made, contextVars, position, handlerVars, signals>>

\* ... or case <-audioDisconnect.
Disconnected(a) ==
    /\ signals[a] = 1
    /\ Move(a, "select", "leaving")
    /\ signals' = [signals EXCEPT ![a] = 0]
    /\ UNCHANGED <<authCtxs, made, contextVars, position, handlerVars>>

\* Variants of ResetStart: a stored position is cleared to -1, although unset is
\* defaultStartPos everywhere else; it forgets to reset it.
ResetStartBelow(a) ==
    LET c == playCtx[a] IN
    /\ Move(a, "leaving", "stopped")
    /\ IF c # NoContext /\ startPos[c] = playPos[a]
         THEN /\ startPos' = [startPos EXCEPT ![c] = -1]
              /\ authCtxs' = IF ws[c] = Nobody THEN NoContext ELSE authCtxs
         ELSE UNCHANGED <<startPos, authCtxs>>
    /\ UNCHANGED <<made, ws, disconnect, position, handlerVars, signals>>

ResetStartNever(a) ==
    /\ Move(a, "leaving", "stopped")
    /\ UNCHANGED <<authCtxs, made, contextVars, position, handlerVars, signals>>

\* First deferred call, if there was a first chunk: a start position that equals
\* its own is reset, and then a context without web socket is deleted, or
\* whatever context is stored under the cookie by now.
ResetStart(a) ==
    LET c == playCtx[a] IN
    /\ Move(a, "leaving", "stopped")
    /\ IF c # NoContext /\ startPos[c] = playPos[a]
         THEN /\ startPos' = [startPos EXCEPT ![c] = defaultStartPos]
              /\ authCtxs' = IF ws[c] = Nobody THEN NoContext ELSE authCtxs
         ELSE UNCHANGED <<startPos, authCtxs>>
    /\ UNCHANGED <<made, ws, disconnect, position, handlerVars, signals>>

\* Second deferred call.
ClearDisconnect(a) ==
    /\ Move(a, "stopped", "gone")
    /\ disconnect' = IF disconnect[ctx[a]] = a THEN [disconnect EXCEPT ![ctx[a]] = Nobody]
                     ELSE disconnect
    /\ UNCHANGED <<authCtxs, made, ws, startPos, position, handlerVars, signals>>

HandleAudio(a) ==
    \/ FindContext(a) \/ Establish(a) \/ FirstChunk(a) \/ FindAgain(a) \/ SetStart(a)
    \/ Disconnected(a) \/ ResetStart(a) \/ ClearDisconnect(a)

-----------------------------------------------------------------------------
(* wsHandler. *)

FindSocketContext(s) ==
    /\ Move(s, "new", "found")
    /\ \E c \in 1 .. made + 1 : LoadOrStore(c) /\ ctx' = [ctx EXCEPT ![s] = c]
    /\ UNCHANGED <<position, playCtx, playPos, signals, told>>

\* The start position is told, default or not, and the socket joins the context.
OpenSocket(s) ==
    /\ Move(s, "found", "open")
    /\ told' = [told EXCEPT ![s] = startPos[ctx[s]]]
    /\ ws' = [ws EXCEPT ![ctx[s]] = s]
    /\ UNCHANGED <<authCtxs, made, startPos, disconnect, position, ctx, playCtx, playPos, signals>>

\* Variant of CloseSocket: the context keeps the closed socket.
CloseSocketStays(s) ==
    /\ Move(s, "open", "gone")
    /\ UNCHANGED <<authCtxs, made, contextVars, position, handlerVars, signals>>

\* Deferred, before the connection is closed: the socket leaves the context, and
\* a context without start position is deleted.
CloseSocket(s) ==
    LET c == ctx[s] IN
    /\ Move(s, "open", "gone")
    /\ IF ws[c] = s
         THEN /\ ws' = [ws EXCEPT ![c] = Nobody]
              /\ authCtxs' = IF startPos[c] = defaultStartPos THEN NoContext ELSE authCtxs
         ELSE UNCHANGED <<ws, authCtxs>>
    /\ UNCHANGED <<made, startPos, disconnect, position, handlerVars, signals>>

\* The encoder goes on.
Encode ==
    /\ position < MaxPos
    /\ position' = position + 1
    /\ UNCHANGED <<authCtxs, made, contextVars, pc, handlerVars, signals>>

-----------------------------------------------------------------------------
Next ==
    \/ \E a \in Audio : HandleAudio(a) \/ AudioLeaves(a)
    \/ \E s \in Socket : FindSocketContext(s) \/ OpenSocket(s) \/ CloseSocket(s)
    \/ Encode

Spec == Init /\ [][Next]_vars

-----------------------------------------------------------------------------
(* Properties. *)

\* An established stream: past Establish and not on its way out.
Streaming(a) == pc[a] \in {"select", "first", "refound"}

\* "Each session can only have 1 audio stream. Whenever a new stream is
\* established with the same `sessionId` cookie, the old stream will be
\* disconnected": of two established streams one at least has been told to end.
OneStreamPerSession ==
    \A a, b \in Audio :
        Streaming(a) /\ Streaming(b) /\ a # b => signals[a] = 1 \/ signals[b] = 1

\* What the handlers do ensure: so it is for two streams that found the same
\* context, whoever left or was replaced in between.
OneStreamPerContext ==
    \A a, b \in Audio :
        /\ Streaming(a) /\ Streaming(b) /\ a # b
        /\ ctx[a] = ctx[b]
        => signals[a] = 1 \/ signals[b] = 1

\* The send on audioDisconnect, made with the context locked, never blocks: the
\* stream a context names has not been told to end.
SignalNeverBlocks == \A c \in 1 .. made : disconnect[c] # Nobody => signals[disconnect[c]] = 0

\* "startPos should contains the number of the first audio frame sent to the
\* audio stream": the web socket in a context has been told the start position the
\* context holds, whichever of the two was there first.
SocketKnowsStart ==
    \A c \in 1 .. made : ws[c] # Nobody /\ startPos[c] # defaultStartPos =>
        told[ws[c]] = startPos[c]

\* A start position in a context is that of a stream that is still there, so
\* that a web socket is never told one of a stream that has ended.
StartPosHasStream ==
    \A c \in 1 .. made : startPos[c] # defaultStartPos =>
        \E a \in Audio : /\ playCtx[a] = c /\ playPos[a] = startPos[c]
                         /\ pc[a] \in {"select", "leaving"}

\* A context names no web socket that is closed and no stream that has ended.
NobodyDangles ==
    \A c \in 1 .. made :
        /\ ws[c] # Nobody => pc[ws[c]] = "open" /\ ctx[ws[c]] = c
        /\ disconnect[c] # Nobody =>
             /\ ctx[disconnect[c]] = c
             /\ Streaming(disconnect[c]) \/ pc[disconnect[c]] \in {"leaving", "stopped"}
=============================================================================
