--------------------------- MODULE SessionProofs ---------------------------
(***************************************************************************)
(* Proofs about module Session, for any number of audio streams and web    *)
(* sockets of one session.                                                 *)
(***************************************************************************)
EXTENDS Session, TLAPS

\* A handler that has connected has a context, and one that has looked it up again
\* has two.
HasContext ==
    /\ \A h \in Handler : pc[h] # "new" => ctx[h] \in 1 .. made
    /\ \A a \in Audio : pc[a] = "refound" => playCtx[a] \in 1 .. made

\* A stream that is established is the one its context names, or was told to
\* end when another took its place.
NamedOrTold ==
    \A a \in Audio : Streaming(a) => disconnect[ctx[a]] = a \/ signals[a] = 1

\* Only the handler of an established stream has an element in its channel.
ToldWasEstablished == \A a \in Audio : signals[a] = 1 => pc[a] \notin {"new", "found"}

SessionInv ==
    /\ TypeOK
    /\ HasContext
    /\ NobodyDangles
    /\ NamedOrTold
    /\ ToldWasEstablished
    /\ SignalNeverBlocks

LEMMA SessionInit == Init => SessionInv /\ SocketKnowsStart /\ StartPosHasStream
  BY SessionAssumption DEF Init, SessionInv, TypeOK, HasContext, NobodyDangles, NamedOrTold,
     ToldWasEstablished, SignalNeverBlocks, SocketKnowsStart, StartPosHasStream, Streaming,
     Empty, Handler, AudioPC, SocketPC, NoContext, NotTold, defaultStartPos

\* What a lookup leaves as it was: every context made before.
LEMMA LookUp ==
  ASSUME TypeOK, NEW c \in 1 .. made + 1, LoadOrStore(c)
  PROVE  /\ made' \in Nat /\ made <= made' /\ authCtxs' \in 0 .. made' /\ c \in 1 .. made'
         /\ ws' \in [1 .. made' -> Socket \cup {Nobody}]
         /\ startPos' \in [1 .. made' -> Nat]
         /\ disconnect' \in [1 .. made' -> Audio \cup {Nobody}]
         /\ \A d \in 1 .. made : /\ ws'[d] = ws[d] /\ startPos'[d] = startPos[d]
                                 /\ disconnect'[d] = disconnect[d]
         /\ \A d \in 1 .. made' : d \notin 1 .. made =>
                /\ ws'[d] = Nobody /\ startPos'[d] = defaultStartPos
                /\ disconnect'[d] = Nobody
  <1>1. CASE authCtxs # NoContext
    BY <1>1 DEF LoadOrStore, TypeOK, contextVars, NoContext
  <1>2. CASE authCtxs = NoContext
    <2>1. /\ made' = made + 1 /\ c = made + 1 /\ authCtxs' = made + 1
          /\ ws' = Extended(ws, Nobody) /\ startPos' = Extended(startPos, defaultStartPos)
          /\ disconnect' = Extended(disconnect, Nobody)
      BY <1>2 DEF LoadOrStore
    <2> QED
      BY <2>1 DEF TypeOK, Extended, defaultStartPos
  <1> QED
    BY <1>1, <1>2

\* What every action preserves: the contexts, the handlers and the disconnect
\* channels fit together.
LEMMA SessionStep == SessionInv /\ [Next]_vars => SessionInv'
  <1> SUFFICES ASSUME SessionInv, [Next]_vars PROVE SessionInv'
    OBVIOUS
  <1>1. ASSUME NEW a \in Audio, FindContext(a) PROVE SessionInv'
    <2>1. PICK c \in 1 .. made + 1 : LoadOrStore(c) /\ ctx' = [ctx EXCEPT ![a] = c]
      BY <1>1 DEF FindContext
    <2>2. TypeOK
      BY DEF SessionInv
    <2>3. /\ made' \in Nat /\ made <= made' /\ authCtxs' \in 0 .. made' /\ c \in 1 .. made'
          /\ ws' \in [1 .. made' -> Socket \cup {Nobody}]
          /\ startPos' \in [1 .. made' -> Nat]
          /\ disconnect' \in [1 .. made' -> Audio \cup {Nobody}]
      BY <2>1, <2>2, LookUp
    <2>4. \A d \in 1 .. made : ws'[d] = ws[d] /\ disconnect'[d] = disconnect[d]
      BY <2>1, <2>2, LookUp
    <2>5. \A d \in 1 .. made' : d \notin 1 .. made => ws'[d] = Nobody /\ disconnect'[d] = Nobody
      BY <2>1, <2>2, LookUp
    <2>6. TypeOK'
      BY SessionAssumption, <1>1, <2>1, <2>3, <2>4, <2>5
         DEF FindContext, SessionInv, TypeOK, Handler, AudioPC, SocketPC, Move, NoContext,
             HasContext, contextVars, handlerVars
    <2>7. HasContext'
      BY SessionAssumption, <1>1, <2>1, <2>3, <2>4, <2>5, <2>6
         DEF FindContext, SessionInv, TypeOK, Handler, AudioPC, SocketPC, Move, NoContext,
             HasContext, contextVars, handlerVars
    <2>8. NobodyDangles'
      BY SessionAssumption, <1>1, <2>1, <2>3, <2>4, <2>5, <2>6
         DEF FindContext, SessionInv, TypeOK, Handler, AudioPC, SocketPC, Move, NoContext,
             HasContext, NobodyDangles, Streaming, contextVars, handlerVars
    <2>9. NamedOrTold'
      BY SessionAssumption, <1>1, <2>1, <2>3, <2>4, <2>5, <2>6
         DEF FindContext, SessionInv, TypeOK, Handler, AudioPC, SocketPC, Move, NoContext,
             HasContext, NamedOrTold, NobodyDangles, SignalNeverBlocks, Streaming,
             contextVars, handlerVars
    <2>10. ToldWasEstablished'
      BY SessionAssumption, <1>1, <2>1, <2>3, <2>4, <2>5, <2>6
         DEF FindContext, SessionInv, TypeOK, Handler, AudioPC, SocketPC, Move, NoContext,
             HasContext, ToldWasEstablished, NobodyDangles, Streaming, contextVars,
             handlerVars
    <2>11. SignalNeverBlocks'
      BY SessionAssumption, <1>1, <2>1, <2>3, <2>4, <2>5, <2>6
         DEF FindContext, SessionInv, TypeOK, Handler, AudioPC, SocketPC, Move, NoContext,
             SignalNeverBlocks, NobodyDangles, ToldWasEstablished, HasContext, Streaming,
             contextVars, handlerVars
    <2> QED
      BY <2>6, <2>7, <2>8, <2>9, <2>10, <2>11 DEF SessionInv
  <1>2. ASSUME NEW a \in Audio, Establish(a) PROVE SessionInv'
    <2>1. TypeOK'
      BY SessionAssumption, <1>2
         DEF Establish, defaultStartPos, SessionInv, TypeOK, Handler, AudioPC, SocketPC,
             Move, NoContext, HasContext, contextVars, handlerVars
    <2>2. HasContext'
      BY SessionAssumption, <1>2, <2>1
         DEF Establish, defaultStartPos, SessionInv, TypeOK, Handler, AudioPC, SocketPC,
             Move, NoContext, HasContext, contextVars, handlerVars
    <2>3. NobodyDangles'
      BY SessionAssumption, <1>2, <2>1
         DEF Establish, defaultStartPos, SessionInv, TypeOK, Handler, AudioPC, SocketPC,
             Move, NoContext, HasContext, NobodyDangles, Streaming, contextVars, handlerVars
    <2>4. NamedOrTold'
      BY SessionAssumption, <1>2, <2>1
         DEF Establish, defaultStartPos, SessionInv, TypeOK, Handler, AudioPC, SocketPC,
             Move, NoContext, HasContext, NamedOrTold, NobodyDangles, SignalNeverBlocks,
             Streaming, contextVars, handlerVars
    <2>5. /\ ctx[a] \in 1 .. made /\ pc[a] = "found" /\ pc' = [pc EXCEPT ![a] = "select"]
          /\ disconnect' = [disconnect EXCEPT ![ctx[a]] = a] /\ UNCHANGED <<made, ctx>>
          /\ signals[a] = 0
      BY SessionAssumption, <1>2
         DEF Establish, SessionInv, TypeOK, HasContext, ToldWasEstablished, Move, Handler,
             handlerVars
    <2>6. ASSUME disconnect[ctx[a]] = Nobody PROVE ToldWasEstablished' /\ SignalNeverBlocks'
      <3>1. signals' = signals
        BY <1>2, <2>6 DEF Establish
      <3> QED
        BY SessionAssumption, <2>5, <2>6, <3>1
           DEF SessionInv, TypeOK, Handler, NobodyDangles, ToldWasEstablished, SignalNeverBlocks
    <2>7. ASSUME disconnect[ctx[a]] # Nobody PROVE ToldWasEstablished' /\ SignalNeverBlocks'
      <3> DEFINE old == disconnect[ctx[a]]
      <3>1. /\ old \in Audio /\ ctx[old] = ctx[a] /\ pc[old] \notin {"new", "found"}
            /\ signals' = [signals EXCEPT ![old] = 1]
        <4>1. old \in Audio /\ ctx[old] = ctx[a]
          BY <2>5, <2>7 DEF SessionInv, TypeOK, NobodyDangles
        <4>2. pc[old] \notin {"new", "found"}
          BY <2>5, <2>7 DEF SessionInv, NobodyDangles, Streaming
        <4> QED
          BY <1>2, <2>7, <4>1, <4>2 DEF Establish
      <3>2. old # a
        BY <2>5, <3>1
      <3>3. ToldWasEstablished'
        BY <2>5, <3>1 DEF SessionInv, TypeOK, Handler, ToldWasEstablished
      <3>4. SignalNeverBlocks'
        <4> SUFFICES ASSUME NEW d \in 1 .. made, disconnect'[d] # Nobody
                     PROVE  signals'[disconnect'[d]] = 0
          BY <2>5 DEF SignalNeverBlocks
        <4>1. CASE d = ctx[a]
          BY <2>5, <3>1, <3>2, <4>1 DEF SessionInv, TypeOK
        <4>2. CASE d # ctx[a]
          <5>1. disconnect'[d] = disconnect[d] /\ ctx[disconnect[d]] = d
            BY <2>5, <4>2 DEF SessionInv, TypeOK, NobodyDangles
          <5>2. disconnect[d] # old
            BY <3>1, <4>2, <5>1
          <5> QED
            BY <3>1, <5>1, <5>2 DEF SessionInv, TypeOK, SignalNeverBlocks
        <4> QED
          BY <4>1, <4>2
      <3> QED
        BY <3>3, <3>4
    <2> QED
      BY <2>1, <2>2, <2>3, <2>4, <2>6, <2>7 DEF SessionInv
  <1>3. ASSUME NEW a \in Audio, FirstChunk(a) PROVE SessionInv'
    BY SessionAssumption, <1>3
       DEF FirstChunk, SessionInv, TypeOK, Handler, AudioPC, SocketPC, Move, NoContext,
           HasContext, NobodyDangles, NamedOrTold, ToldWasEstablished, SignalNeverBlocks,
           Streaming, contextVars, handlerVars
  <1>4. ASSUME NEW a \in Audio, FindAgain(a) PROVE SessionInv'
    <2>1. PICK c \in 1 .. made + 1 : LoadOrStore(c) /\ playCtx' = [playCtx EXCEPT ![a] = c]
      BY <1>4 DEF FindAgain
    <2>2. TypeOK
      BY DEF SessionInv
    <2>3. /\ made' \in Nat /\ made <= made' /\ authCtxs' \in 0 .. made' /\ c \in 1 .. made'
          /\ ws' \in [1 .. made' -> Socket \cup {Nobody}]
          /\ startPos' \in [1 .. made' -> Nat]
          /\ disconnect' \in [1 .. made' -> Audio \cup {Nobody}]
      BY <2>1, <2>2, LookUp
    <2>4. \A d \in 1 .. made : ws'[d] = ws[d] /\ disconnect'[d] = disconnect[d]
      BY <2>1, <2>2, LookUp
    <2>5. \A d \in 1 .. made' : d \notin 1 .. made => ws'[d] = Nobody /\ disconnect'[d] = Nobody
      BY <2>1, <2>2, LookUp
    <2>6. TypeOK'
      BY SessionAssumption, <1>4, <2>1, <2>3, <2>4, <2>5
         DEF FindAgain, SessionInv, TypeOK, Handler, AudioPC, SocketPC, Move, NoContext,
             HasContext, contextVars, handlerVars
    <2>7. HasContext'
      BY SessionAssumption, <1>4, <2>1, <2>3, <2>4, <2>5, <2>6
         DEF FindAgain, SessionInv, TypeOK, Handler, AudioPC, SocketPC, Move, NoContext,
             HasContext, contextVars, handlerVars
    <2>8. NobodyDangles'
      BY SessionAssumption, <1>4, <2>1, <2>3, <2>4, <2>5, <2>6
         DEF FindAgain, SessionInv, TypeOK, Handler, AudioPC, SocketPC, Move, NoContext,
             HasContext, NobodyDangles, Streaming, contextVars, handlerVars
    <2>9. NamedOrTold'
      BY SessionAssumption, <1>4, <2>1, <2>3, <2>4, <2>5, <2>6
         DEF FindAgain, SessionInv, TypeOK, Handler, AudioPC, SocketPC, Move, NoContext,
             HasContext, NamedOrTold, NobodyDangles, SignalNeverBlocks, Streaming,
             contextVars, handlerVars
    <2>10. ToldWasEstablished'
      BY SessionAssumption, <1>4, <2>1, <2>3, <2>4, <2>5, <2>6
         DEF FindAgain, SessionInv, TypeOK, Handler, AudioPC, SocketPC, Move, NoContext,
             HasContext, ToldWasEstablished, NobodyDangles, Streaming, contextVars,
             handlerVars
    <2>11. SignalNeverBlocks'
      BY SessionAssumption, <1>4, <2>1, <2>3, <2>4, <2>5, <2>6
         DEF FindAgain, SessionInv, TypeOK, Handler, AudioPC, SocketPC, Move, NoContext,
             SignalNeverBlocks, NobodyDangles, ToldWasEstablished, HasContext, Streaming,
             contextVars, handlerVars
    <2> QED
      BY <2>6, <2>7, <2>8, <2>9, <2>10, <2>11 DEF SessionInv
  <1>5. ASSUME NEW a \in Audio, SetStart(a) PROVE SessionInv'
    BY SessionAssumption, <1>5
       DEF SetStart, SessionInv, TypeOK, Handler, AudioPC, SocketPC, Move, NoContext,
           HasContext, NobodyDangles, NamedOrTold, ToldWasEstablished, SignalNeverBlocks,
           Streaming, contextVars, handlerVars
  <1>6. ASSUME NEW a \in Audio, AudioLeaves(a) PROVE SessionInv'
    <2>1. TypeOK'
      BY SessionAssumption, <1>6
         DEF AudioLeaves, SessionInv, TypeOK, Handler, AudioPC, SocketPC, Move, NoContext,
             HasContext, contextVars, handlerVars
    <2>2. HasContext'
      BY SessionAssumption, <1>6, <2>1
         DEF AudioLeaves, SessionInv, TypeOK, Handler, AudioPC, SocketPC, Move, NoContext,
             HasContext, contextVars, handlerVars
    <2>3. NobodyDangles'
      BY SessionAssumption, <1>6, <2>1
         DEF AudioLeaves, SessionInv, TypeOK, Handler, AudioPC, SocketPC, Move, NoContext,
             HasContext, NobodyDangles, Streaming, contextVars, handlerVars
    <2>4. NamedOrTold'
      BY SessionAssumption, <1>6, <2>1
         DEF AudioLeaves, SessionInv, TypeOK, Handler, AudioPC, SocketPC, Move, NoContext,
             HasContext, NamedOrTold, NobodyDangles, SignalNeverBlocks, Streaming,
             contextVars, handlerVars
    <2>5. ToldWasEstablished'
      BY SessionAssumption, <1>6, <2>1
         DEF AudioLeaves, SessionInv, TypeOK, Handler, AudioPC, SocketPC, Move, NoContext,
             HasContext, ToldWasEstablished, NobodyDangles, Streaming, contextVars,
             handlerVars
    <2>6. SignalNeverBlocks'
      BY SessionAssumption, <1>6, <2>1
         DEF AudioLeaves, SessionInv, TypeOK, Handler, AudioPC, SocketPC, Move, NoContext,
             SignalNeverBlocks, NobodyDangles, ToldWasEstablished, HasContext, Streaming,
             contextVars, handlerVars
    <2> QED
      BY <2>1, <2>2, <2>3, <2>4, <2>5, <2>6 DEF SessionInv
  <1>7. ASSUME NEW a \in Audio, Disconnected(a) PROVE SessionInv'
    <2>1. TypeOK'
      BY SessionAssumption, <1>7
         DEF Disconnected, SessionInv, TypeOK, Handler, AudioPC, SocketPC, Move, NoContext,
             HasContext, contextVars, handlerVars
    <2>2. HasContext'
      BY SessionAssumption, <1>7, <2>1
         DEF Disconnected, SessionInv, TypeOK, Handler, AudioPC, SocketPC, Move, NoContext,
             HasContext, contextVars, handlerVars
    <2>3. NobodyDangles'
      BY SessionAssumption, <1>7, <2>1
         DEF Disconnected, SessionInv, TypeOK, Handler, AudioPC, SocketPC, Move, NoContext,
             HasContext, NobodyDangles, Streaming, contextVars, handlerVars
    <2>4. NamedOrTold'
      BY SessionAssumption, <1>7, <2>1
         DEF Disconnected, SessionInv, TypeOK, Handler, AudioPC, SocketPC, Move, NoContext,
             HasContext, NamedOrTold, NobodyDangles, SignalNeverBlocks, Streaming,
             contextVars, handlerVars
    <2>5. ToldWasEstablished'
      BY SessionAssumption, <1>7, <2>1
         DEF Disconnected, SessionInv, TypeOK, Handler, AudioPC, SocketPC, Move, NoContext,
             HasContext, ToldWasEstablished, NobodyDangles, Streaming, contextVars,
             handlerVars
    <2>6. SignalNeverBlocks'
      BY SessionAssumption, <1>7, <2>1
         DEF Disconnected, SessionInv, TypeOK, Handler, AudioPC, SocketPC, Move, NoContext,
             SignalNeverBlocks, NobodyDangles, ToldWasEstablished, HasContext, Streaming,
             contextVars, handlerVars
    <2> QED
      BY <2>1, <2>2, <2>3, <2>4, <2>5, <2>6 DEF SessionInv
  <1>8. ASSUME NEW a \in Audio, ResetStart(a) PROVE SessionInv'
    <2>1. /\ pc[a] = "leaving" /\ pc' = [pc EXCEPT ![a] = "stopped"]
          /\ UNCHANGED <<made, ws, disconnect, position, ctx, playCtx, playPos, told, signals>>
      BY <1>8 DEF ResetStart, Move, handlerVars
    <2>2. startPos' \in [1 .. made -> Nat] /\ authCtxs' \in 0 .. made
      <3>1. CASE playCtx[a] # NoContext /\ startPos[playCtx[a]] = playPos[a]
        <4>1. startPos' = [startPos EXCEPT ![playCtx[a]] = defaultStartPos]
          BY <1>8, <3>1 DEF ResetStart
        <4>2. authCtxs' \in {NoContext, authCtxs}
          BY <1>8, <3>1 DEF ResetStart
        <4>3. startPos' \in [1 .. made -> Nat]
          BY <4>1 DEF SessionInv, TypeOK, defaultStartPos
        <4> QED
          BY <4>2, <4>3 DEF SessionInv, TypeOK, NoContext
      <3>2. CASE ~(playCtx[a] # NoContext /\ startPos[playCtx[a]] = playPos[a])
        BY <1>8, <3>2 DEF ResetStart, SessionInv, TypeOK
      <3> QED
        BY <3>1, <3>2
    <2>3. TypeOK'
      BY SessionAssumption, <2>1, <2>2 DEF SessionInv, TypeOK, Handler, AudioPC, SocketPC
    <2> QED
      BY SessionAssumption, <2>1, <2>3
         DEF SessionInv, TypeOK, Handler, HasContext, NobodyDangles, NamedOrTold,
             ToldWasEstablished, SignalNeverBlocks, Streaming
  <1>9. ASSUME NEW a \in Audio, ClearDisconnect(a) PROVE SessionInv'
    <2>1. TypeOK'
      BY SessionAssumption, <1>9
         DEF ClearDisconnect, SessionInv, TypeOK, Handler, AudioPC, SocketPC, Move,
             NoContext, HasContext, contextVars, handlerVars
    <2>2. HasContext'
      BY SessionAssumption, <1>9, <2>1
         DEF ClearDisconnect, SessionInv, TypeOK, Handler, AudioPC, SocketPC, Move,
             NoContext, HasContext, contextVars, handlerVars
    <2>3. NobodyDangles'
      BY SessionAssumption, <1>9, <2>1
         DEF ClearDisconnect, SessionInv, TypeOK, Handler, AudioPC, SocketPC, Move,
             NoContext, HasContext, NobodyDangles, Streaming, contextVars, handlerVars
    <2>4. NamedOrTold'
      BY SessionAssumption, <1>9, <2>1
         DEF ClearDisconnect, SessionInv, TypeOK, Handler, AudioPC, SocketPC, Move,
             NoContext, HasContext, NamedOrTold, NobodyDangles, SignalNeverBlocks,
             Streaming, contextVars, handlerVars
    <2>5. ToldWasEstablished'
      BY SessionAssumption, <1>9, <2>1
         DEF ClearDisconnect, SessionInv, TypeOK, Handler, AudioPC, SocketPC, Move,
             NoContext, HasContext, ToldWasEstablished, NobodyDangles, Streaming,
             contextVars, handlerVars
    <2>6. SignalNeverBlocks'
      BY SessionAssumption, <1>9, <2>1
         DEF ClearDisconnect, SessionInv, TypeOK, Handler, AudioPC, SocketPC, Move,
             NoContext, SignalNeverBlocks, NobodyDangles, ToldWasEstablished, HasContext,
             Streaming, contextVars, handlerVars
    <2> QED
      BY <2>1, <2>2, <2>3, <2>4, <2>5, <2>6 DEF SessionInv
  <1>10. ASSUME NEW s \in Socket, FindSocketContext(s) PROVE SessionInv'
    <2>1. PICK c \in 1 .. made + 1 : LoadOrStore(c) /\ ctx' = [ctx EXCEPT ![s] = c]
      BY <1>10 DEF FindSocketContext
    <2>2. TypeOK
      BY DEF SessionInv
    <2>3. /\ made' \in Nat /\ made <= made' /\ authCtxs' \in 0 .. made' /\ c \in 1 .. made'
          /\ ws' \in [1 .. made' -> Socket \cup {Nobody}]
          /\ startPos' \in [1 .. made' -> Nat]
          /\ disconnect' \in [1 .. made' -> Audio \cup {Nobody}]
      BY <2>1, <2>2, LookUp
    <2>4. \A d \in 1 .. made : ws'[d] = ws[d] /\ disconnect'[d] = disconnect[d]
      BY <2>1, <2>2, LookUp
    <2>5. \A d \in 1 .. made' : d \notin 1 .. made => ws'[d] = Nobody /\ disconnect'[d] = Nobody
      BY <2>1, <2>2, LookUp
    <2>6. TypeOK'
      BY SessionAssumption, <1>10, <2>1, <2>3, <2>4, <2>5
         DEF FindSocketContext, SessionInv, TypeOK, Handler, AudioPC, SocketPC, Move,
             NoContext, HasContext, contextVars, handlerVars
    <2>7. HasContext'
      BY SessionAssumption, <1>10, <2>1, <2>3, <2>4, <2>5, <2>6
         DEF FindSocketContext, SessionInv, TypeOK, Handler, AudioPC, SocketPC, Move,
             NoContext, HasContext, contextVars, handlerVars
    <2>8. NobodyDangles'
      BY SessionAssumption, <1>10, <2>1, <2>3, <2>4, <2>5, <2>6
         DEF FindSocketContext, SessionInv, TypeOK, Handler, AudioPC, SocketPC, Move,
             NoContext, HasContext, NobodyDangles, Streaming, contextVars, handlerVars
    <2>9. NamedOrTold'
      BY SessionAssumption, <1>10, <2>1, <2>3, <2>4, <2>5, <2>6
         DEF FindSocketContext, SessionInv, TypeOK, Handler, AudioPC, SocketPC, Move,
             NoContext, HasContext, NamedOrTold, NobodyDangles, SignalNeverBlocks,
             Streaming, contextVars, handlerVars
    <2>10. ToldWasEstablished'
      BY SessionAssumption, <1>10, <2>1, <2>3, <2>4, <2>5, <2>6
         DEF FindSocketContext, SessionInv, TypeOK, Handler, AudioPC, SocketPC, Move,
             NoContext, HasContext, ToldWasEstablished, NobodyDangles, Streaming,
             contextVars, handlerVars
    <2>11. SignalNeverBlocks'
      BY SessionAssumption, <1>10, <2>1, <2>3, <2>4, <2>5, <2>6
         DEF FindSocketContext, SessionInv, TypeOK, Handler, AudioPC, SocketPC, Move,
             NoContext, SignalNeverBlocks, NobodyDangles, ToldWasEstablished, HasContext,
             Streaming, contextVars, handlerVars
    <2> QED
      BY <2>6, <2>7, <2>8, <2>9, <2>10, <2>11 DEF SessionInv
  <1>11. ASSUME NEW s \in Socket, OpenSocket(s) PROVE SessionInv'
    BY SessionAssumption, <1>11
       DEF OpenSocket, SessionInv, TypeOK, Handler, AudioPC, SocketPC, Move, NoContext,
           HasContext, NobodyDangles, NamedOrTold, ToldWasEstablished, SignalNeverBlocks,
           Streaming, contextVars, handlerVars
  <1>12. ASSUME NEW s \in Socket, CloseSocket(s) PROVE SessionInv'
    <2>1. TypeOK'
      <3>1. ws' \in [1 .. made' -> Socket \cup {Nobody}] /\ authCtxs' \in 0 .. made'
        <4>1. made' = made /\ ws \in [1 .. made -> Socket \cup {Nobody}] /\ authCtxs \in 0 .. made
              /\ made \in Nat
          BY <1>12 DEF CloseSocket, SessionInv, TypeOK
        <4>2. CASE ws[ctx[s]] = s
          <5>1. ws' = [ws EXCEPT ![ctx[s]] = Nobody]
            BY <1>12, <4>2 DEF CloseSocket
          <5>2. authCtxs' = NoContext \/ authCtxs' = authCtxs
            BY <1>12, <4>2 DEF CloseSocket
          <5>3. ws' \in [1 .. made' -> Socket \cup {Nobody}]
            BY <4>1, <5>1
          <5>4. authCtxs' \in 0 .. made'
            BY <4>1, <5>2 DEF NoContext
          <5> QED
            BY <5>3, <5>4
        <4>3. CASE ws[ctx[s]] # s
          BY <1>12, <4>1, <4>3 DEF CloseSocket
        <4> QED
          BY <4>2, <4>3
      <3>2. pc' \in [Handler -> AudioPC \cup SocketPC] /\ (\A t \in Socket : pc'[t] \in SocketPC)
        BY SessionAssumption, <1>12
           DEF CloseSocket, SessionInv, TypeOK, Move, Handler, SocketPC, AudioPC
      <3>3. \A b \in Audio : pc'[b] \in AudioPC
        BY SessionAssumption, <1>12
           DEF CloseSocket, SessionInv, TypeOK, Move, Handler
      <3> QED
        BY <1>12, <3>1, <3>2, <3>3 DEF CloseSocket, SessionInv, TypeOK, handlerVars
    <2>2. HasContext'
      BY SessionAssumption, <1>12, <2>1
         DEF CloseSocket, SessionInv, TypeOK, Handler, AudioPC, SocketPC, Move, NoContext,
             HasContext, contextVars, handlerVars
    <2>3. NobodyDangles'
      BY SessionAssumption, <1>12, <2>1
         DEF CloseSocket, SessionInv, TypeOK, Handler, AudioPC, SocketPC, Move, NoContext,
             HasContext, NobodyDangles, Streaming, contextVars, handlerVars
    <2>4. NamedOrTold'
      BY SessionAssumption, <1>12, <2>1
         DEF CloseSocket, SessionInv, TypeOK, Handler, AudioPC, SocketPC, Move, NoContext,
             HasContext, NamedOrTold, NobodyDangles, SignalNeverBlocks, Streaming,
             contextVars, handlerVars
    <2>5. ToldWasEstablished'
      BY SessionAssumption, <1>12, <2>1
         DEF CloseSocket, SessionInv, TypeOK, Handler, AudioPC, SocketPC, Move, NoContext,
             HasContext, ToldWasEstablished, NobodyDangles, Streaming, contextVars,
             handlerVars
    <2>6. SignalNeverBlocks'
      BY SessionAssumption, <1>12, <2>1
         DEF CloseSocket, SessionInv, TypeOK, Handler, AudioPC, SocketPC, Move, NoContext,
             SignalNeverBlocks, NobodyDangles, ToldWasEstablished, HasContext, Streaming,
             contextVars, handlerVars
    <2> QED
      BY <2>1, <2>2, <2>3, <2>4, <2>5, <2>6 DEF SessionInv
  <1>13. CASE Encode
    BY SessionAssumption, <1>13
       DEF Encode, SessionInv, TypeOK, Handler, AudioPC, SocketPC, Move, NoContext,
           HasContext, NobodyDangles, NamedOrTold, ToldWasEstablished, SignalNeverBlocks,
           Streaming, contextVars, handlerVars
  <1>14. CASE UNCHANGED vars
    BY SessionAssumption, <1>14
       DEF vars, SessionInv, TypeOK, Handler, AudioPC, SocketPC, Move, NoContext,
           HasContext, NobodyDangles, NamedOrTold, ToldWasEstablished, SignalNeverBlocks,
           Streaming, contextVars, handlerVars
  <1> QED
    BY <1>1, <1>2, <1>3, <1>4, <1>5, <1>6, <1>7, <1>8, <1>9, <1>10, <1>11, <1>12, <1>13,
       <1>14 DEF Next, HandleAudio

\* Start positions are written, and told, by whoever has the context locked.
LEMMA SocketStep == SessionInv /\ SocketKnowsStart /\ [Next]_vars => SocketKnowsStart'
  <1> SUFFICES ASSUME SessionInv, SocketKnowsStart, [Next]_vars PROVE SocketKnowsStart'
    OBVIOUS
  <1>1. ASSUME NEW a \in Audio, FindContext(a) PROVE SocketKnowsStart'
    <2>1. PICK c \in 1 .. made + 1 : LoadOrStore(c) /\ ctx' = [ctx EXCEPT ![a] = c]
      BY <1>1 DEF FindContext
    <2>2. TypeOK
      BY DEF SessionInv
    <2>3. made' \in Nat /\ made <= made'
      BY <2>1, <2>2, LookUp
    <2>4. \A d \in 1 .. made : ws'[d] = ws[d] /\ startPos'[d] = startPos[d]
      BY <2>1, <2>2, LookUp
    <2>5. \A d \in 1 .. made' : d \notin 1 .. made =>
              ws'[d] = Nobody /\ startPos'[d] = defaultStartPos
      BY <2>1, <2>2, LookUp
    <2> QED
      BY SessionAssumption, <1>1, <2>1, <2>3, <2>4, <2>5
         DEF FindContext, SessionInv, TypeOK, Handler, HasContext, NobodyDangles,
             SocketKnowsStart, Move, NoContext, contextVars, handlerVars
  <1>2. ASSUME NEW a \in Audio, Establish(a) PROVE SocketKnowsStart'
    BY SessionAssumption, <1>2
       DEF Establish, SessionInv, TypeOK, Handler, HasContext, NobodyDangles,
           SocketKnowsStart, Move, NoContext, contextVars, handlerVars
  <1>3. ASSUME NEW a \in Audio, FirstChunk(a) PROVE SocketKnowsStart'
    BY SessionAssumption, <1>3
       DEF FirstChunk, SessionInv, TypeOK, Handler, HasContext, NobodyDangles,
           SocketKnowsStart, Move, NoContext, contextVars, handlerVars
  <1>4. ASSUME NEW a \in Audio, FindAgain(a) PROVE SocketKnowsStart'
    <2>1. PICK c \in 1 .. made + 1 : LoadOrStore(c) /\ playCtx' = [playCtx EXCEPT ![a] = c]
      BY <1>4 DEF FindAgain
    <2>2. TypeOK
      BY DEF SessionInv
    <2>3. made' \in Nat /\ made <= made'
      BY <2>1, <2>2, LookUp
    <2>4. \A d \in 1 .. made : ws'[d] = ws[d] /\ startPos'[d] = startPos[d]
      BY <2>1, <2>2, LookUp
    <2>5. \A d \in 1 .. made' : d \notin 1 .. made =>
              ws'[d] = Nobody /\ startPos'[d] = defaultStartPos
      BY <2>1, <2>2, LookUp
    <2> QED
      BY SessionAssumption, <1>4, <2>1, <2>3, <2>4, <2>5
         DEF FindAgain, SessionInv, TypeOK, Handler, HasContext, NobodyDangles,
             SocketKnowsStart, Move, NoContext, contextVars, handlerVars
  <1>5. ASSUME NEW a \in Audio, SetStart(a) PROVE SocketKnowsStart'
    BY SessionAssumption, <1>5
       DEF SetStart, defaultStartPos, SessionInv, TypeOK, Handler, HasContext,
           NobodyDangles, SocketKnowsStart, Move, NoContext, contextVars, handlerVars
  <1>6. ASSUME NEW a \in Audio, AudioLeaves(a) PROVE SocketKnowsStart'
    BY SessionAssumption, <1>6
       DEF AudioLeaves, SessionInv, TypeOK, Handler, HasContext, NobodyDangles,
           SocketKnowsStart, Move, NoContext, contextVars, handlerVars
  <1>7. ASSUME NEW a \in Audio, Disconnected(a) PROVE SocketKnowsStart'
    BY SessionAssumption, <1>7
       DEF Disconnected, SessionInv, TypeOK, Handler, HasContext, NobodyDangles,
           SocketKnowsStart, Move, NoContext, contextVars, handlerVars
  <1>8. ASSUME NEW a \in Audio, ResetStart(a) PROVE SocketKnowsStart'
    <2>1. \A d \in 1 .. made : startPos'[d] \in {startPos[d], defaultStartPos}
      BY <1>8 DEF ResetStart, SessionInv, TypeOK
    <2> QED
      BY <1>8, <2>1 DEF ResetStart, handlerVars, SocketKnowsStart
  <1>9. ASSUME NEW a \in Audio, ClearDisconnect(a) PROVE SocketKnowsStart'
    BY SessionAssumption, <1>9
       DEF ClearDisconnect, SessionInv, TypeOK, Handler, HasContext, NobodyDangles,
           SocketKnowsStart, Move, NoContext, contextVars, handlerVars
  <1>10. ASSUME NEW s \in Socket, FindSocketContext(s) PROVE SocketKnowsStart'
    <2>1. PICK c \in 1 .. made + 1 : LoadOrStore(c) /\ ctx' = [ctx EXCEPT ![s] = c]
      BY <1>10 DEF FindSocketContext
    <2>2. TypeOK
      BY DEF SessionInv
    <2>3. made' \in Nat /\ made <= made'
      BY <2>1, <2>2, LookUp
    <2>4. \A d \in 1 .. made : ws'[d] = ws[d] /\ startPos'[d] = startPos[d]
      BY <2>1, <2>2, LookUp
    <2>5. \A d \in 1 .. made' : d \notin 1 .. made =>
              ws'[d] = Nobody /\ startPos'[d] = defaultStartPos
      BY <2>1, <2>2, LookUp
    <2> QED
      BY SessionAssumption, <1>10, <2>1, <2>3, <2>4, <2>5
         DEF FindSocketContext, SessionInv, TypeOK, Handler, HasContext, NobodyDangles,
             SocketKnowsStart, Move, NoContext, contextVars, handlerVars
  <1>11. ASSUME NEW s \in Socket, OpenSocket(s) PROVE SocketKnowsStart'
    BY SessionAssumption, <1>11
       DEF OpenSocket, SessionInv, TypeOK, Handler, HasContext, NobodyDangles,
           SocketKnowsStart, Move, NoContext, contextVars, handlerVars
  <1>12. ASSUME NEW s \in Socket, CloseSocket(s) PROVE SocketKnowsStart'
    <2>1. \A d \in 1 .. made : ws'[d] \in {ws[d], Nobody}
      BY <1>12 DEF CloseSocket, SessionInv, TypeOK
    <2> QED
      BY <1>12, <2>1 DEF CloseSocket, handlerVars, SocketKnowsStart
  <1>13. CASE Encode \/ UNCHANGED vars
    BY SessionAssumption, <1>13
       DEF Encode, vars, SessionInv, TypeOK, Handler, HasContext, NobodyDangles,
           SocketKnowsStart, Move, NoContext, contextVars, handlerVars
  <1> QED
    BY <1>1, <1>2, <1>3, <1>4, <1>5, <1>6, <1>7, <1>8, <1>9, <1>10, <1>11, <1>12, <1>13
       DEF Next, HandleAudio

\* A stream resets the start position it set, if it is still there, before it ends.
LEMMA StartPosStep == SessionInv /\ StartPosHasStream /\ [Next]_vars => StartPosHasStream'
  <1> SUFFICES ASSUME SessionInv, StartPosHasStream, [Next]_vars PROVE StartPosHasStream'
    OBVIOUS
  <1>1. ASSUME NEW a \in Audio, FindContext(a) PROVE StartPosHasStream'
    <2>1. PICK c \in 1 .. made + 1 : LoadOrStore(c) /\ ctx' = [ctx EXCEPT ![a] = c]
      BY <1>1 DEF FindContext
    <2>2. TypeOK
      BY DEF SessionInv
    <2>3. \A d \in 1 .. made : startPos'[d] = startPos[d]
      BY <2>1, <2>2, LookUp
    <2>4. \A d \in 1 .. made' : d \notin 1 .. made => startPos'[d] = defaultStartPos
      BY <2>1, <2>2, LookUp
    <2>5. \A d \in 1 .. made' : startPos'[d] # defaultStartPos =>
              d \in 1 .. made /\ startPos'[d] = startPos[d]
      BY <2>3, <2>4
    <2>6. \A b \in Audio : pc[b] \in {"select", "leaving"} /\ playCtx[b] \in 1 .. made =>
              /\ playCtx'[b] = playCtx[b] /\ playPos'[b] = playPos[b]
              /\ pc'[b] \in {"select", "leaving"}
      BY SessionAssumption, <1>1, <2>1
         DEF FindContext, Move, SessionInv, TypeOK, Handler, NoContext, handlerVars
    <2> QED
      BY <2>5, <2>6 DEF StartPosHasStream
  <1>2. ASSUME NEW a \in Audio, Establish(a) PROVE StartPosHasStream'
    BY SessionAssumption, <1>2
       DEF Establish, SessionInv, TypeOK, Handler, HasContext, StartPosHasStream, Move,
           NoContext, contextVars, handlerVars
  <1>3. ASSUME NEW a \in Audio, FirstChunk(a) PROVE StartPosHasStream'
    <2>1. \A d \in 1 .. made' : startPos'[d] # defaultStartPos =>
              d \in 1 .. made /\ startPos'[d] = startPos[d]
      BY <1>3 DEF FirstChunk, contextVars
    <2>2. \A b \in Audio : pc[b] \in {"select", "leaving"} /\ playCtx[b] \in 1 .. made =>
              /\ playCtx'[b] = playCtx[b] /\ playPos'[b] = playPos[b]
              /\ pc'[b] \in {"select", "leaving"}
      BY SessionAssumption, <1>3
         DEF FirstChunk, Move, SessionInv, TypeOK, Handler, NoContext, handlerVars
    <2> QED
      BY <2>1, <2>2 DEF StartPosHasStream
  <1>4. ASSUME NEW a \in Audio, FindAgain(a) PROVE StartPosHasStream'
    <2>1. PICK c \in 1 .. made + 1 : LoadOrStore(c) /\ playCtx' = [playCtx EXCEPT ![a] = c]
      BY <1>4 DEF FindAgain
    <2>2. TypeOK
      BY DEF SessionInv
    <2>3. \A d \in 1 .. made : startPos'[d] = startPos[d]
      BY <2>1, <2>2, LookUp
    <2>4. \A d \in 1 .. made' : d \notin 1 .. made => startPos'[d] = defaultStartPos
      BY <2>1, <2>2, LookUp
    <2>5. \A d \in 1 .. made' : startPos'[d] # defaultStartPos =>
              d \in 1 .. made /\ startPos'[d] = startPos[d]
      BY <2>3, <2>4
    <2>6. \A b \in Audio : pc[b] \in {"select", "leaving"} /\ playCtx[b] \in 1 .. made =>
              /\ playCtx'[b] = playCtx[b] /\ playPos'[b] = playPos[b]
              /\ pc'[b] \in {"select", "leaving"}
      BY SessionAssumption, <1>4, <2>1
         DEF FindAgain, Move, SessionInv, TypeOK, Handler, NoContext, handlerVars
    <2> QED
      BY <2>5, <2>6 DEF StartPosHasStream
  <1>5. ASSUME NEW a \in Audio, SetStart(a) PROVE StartPosHasStream'
    <2> DEFINE c == playCtx[a]
    <2>1. /\ c \in 1 .. made /\ pc[a] = "refound" /\ pc' = [pc EXCEPT ![a] = "select"]
          /\ startPos' = [startPos EXCEPT ![c] = playPos[a]]
          /\ UNCHANGED <<made, playCtx, playPos>>
      BY <1>5 DEF SetStart, Move, SessionInv, HasContext
    <2> SUFFICES ASSUME NEW d \in 1 .. made, startPos'[d] # defaultStartPos
                 PROVE  \E b \in Audio : /\ playCtx[b] = d /\ playPos[b] = startPos'[d]
                                         /\ pc'[b] \in {"select", "leaving"}
      BY <2>1 DEF StartPosHasStream
    <2>2. CASE d = c
      BY <2>1, <2>2 DEF SessionInv, TypeOK, Handler
    <2>3. CASE d # c
      <3>1. startPos'[d] = startPos[d]
        BY <2>1, <2>3 DEF SessionInv, TypeOK
      <3>2. PICK b \in Audio : /\ playCtx[b] = d /\ playPos[b] = startPos[d]
                               /\ pc[b] \in {"select", "leaving"}
        BY <3>1 DEF StartPosHasStream
      <3> QED
        BY <2>1, <3>1, <3>2 DEF SessionInv, TypeOK, Handler
    <2> QED
      BY <2>2, <2>3
  <1>6. ASSUME NEW a \in Audio, AudioLeaves(a) PROVE StartPosHasStream'
    BY SessionAssumption, <1>6
       DEF AudioLeaves, SessionInv, TypeOK, Handler, HasContext, StartPosHasStream, Move,
           NoContext, contextVars, handlerVars
  <1>7. ASSUME NEW a \in Audio, Disconnected(a) PROVE StartPosHasStream'
    BY SessionAssumption, <1>7
       DEF Disconnected, SessionInv, TypeOK, Handler, HasContext, StartPosHasStream, Move,
           NoContext, contextVars, handlerVars
  <1>8. ASSUME NEW a \in Audio, ResetStart(a) PROVE StartPosHasStream'
    <2>1. /\ pc' = [pc EXCEPT ![a] = "stopped"]
          /\ UNCHANGED <<made, playCtx, playPos>>
      BY <1>8 DEF ResetStart, Move, handlerVars
    <2> SUFFICES ASSUME NEW d \in 1 .. made, startPos'[d] # defaultStartPos
                 PROVE  \E b \in Audio : /\ playCtx[b] = d /\ playPos[b] = startPos'[d]
                                         /\ pc'[b] \in {"select", "leaving"}
      BY <2>1 DEF StartPosHasStream
    <2>2. startPos'[d] = startPos[d]
      BY <1>8 DEF ResetStart, SessionInv, TypeOK
    <2>3. ~(playCtx[a] = d /\ playPos[a] = startPos[d])
      BY <1>8 DEF ResetStart, SessionInv, TypeOK, NoContext
    <2>4. PICK b \in Audio : /\ playCtx[b] = d /\ playPos[b] = startPos[d]
                             /\ pc[b] \in {"select", "leaving"}
      BY <2>2 DEF StartPosHasStream
    <2> QED
      BY <2>1, <2>2, <2>3, <2>4 DEF SessionInv, TypeOK, Handler
  <1>9. ASSUME NEW a \in Audio, ClearDisconnect(a) PROVE StartPosHasStream'
    BY SessionAssumption, <1>9
       DEF ClearDisconnect, SessionInv, TypeOK, Handler, HasContext, StartPosHasStream,
           Move, NoContext, contextVars, handlerVars
  <1>10. ASSUME NEW s \in Socket, FindSocketContext(s) PROVE StartPosHasStream'
    <2>1. PICK c \in 1 .. made + 1 : LoadOrStore(c) /\ ctx' = [ctx EXCEPT ![s] = c]
      BY <1>10 DEF FindSocketContext
    <2>2. TypeOK
      BY DEF SessionInv
    <2>3. \A d \in 1 .. made : startPos'[d] = startPos[d]
      BY <2>1, <2>2, LookUp
    <2>4. \A d \in 1 .. made' : d \notin 1 .. made => startPos'[d] = defaultStartPos
      BY <2>1, <2>2, LookUp
    <2>5. \A d \in 1 .. made' : startPos'[d] # defaultStartPos =>
              d \in 1 .. made /\ startPos'[d] = startPos[d]
      BY <2>3, <2>4
    <2>6. \A b \in Audio : pc[b] \in {"select", "leaving"} /\ playCtx[b] \in 1 .. made =>
              /\ playCtx'[b] = playCtx[b] /\ playPos'[b] = playPos[b]
              /\ pc'[b] \in {"select", "leaving"}
      BY SessionAssumption, <1>10, <2>1
         DEF FindSocketContext, Move, SessionInv, TypeOK, Handler, NoContext, handlerVars
    <2> QED
      BY <2>5, <2>6 DEF StartPosHasStream
  <1>11. ASSUME NEW s \in Socket, OpenSocket(s) PROVE StartPosHasStream'
    BY SessionAssumption, <1>11
       DEF OpenSocket, SessionInv, TypeOK, Handler, HasContext, StartPosHasStream, Move,
           NoContext, contextVars, handlerVars
  <1>12. ASSUME NEW s \in Socket, CloseSocket(s) PROVE StartPosHasStream'
    BY SessionAssumption, <1>12
       DEF CloseSocket, defaultStartPos, SessionInv, TypeOK, Handler, HasContext,
           StartPosHasStream, Move, NoContext, contextVars, handlerVars
  <1>13. CASE Encode \/ UNCHANGED vars
    BY SessionAssumption, <1>13
       DEF Encode, vars, SessionInv, TypeOK, Handler, HasContext, StartPosHasStream, Move,
           NoContext, contextVars, handlerVars
  <1> QED
    BY <1>1, <1>2, <1>3, <1>4, <1>5, <1>6, <1>7, <1>8, <1>9, <1>10, <1>11, <1>12, <1>13
       DEF Next, HandleAudio

\* Every context, handler and channel of a session keeps the type the declarations
\* in src/server/structures.go give it, and authCtxs never holds a context that was
\* not made.
THEOREM SessionTypeCorrect == Spec => []TypeOK
  <1>1. SessionInv => TypeOK
    BY DEF SessionInv
  <1> QED
    BY SessionInit, SessionStep, <1>1, PTL DEF Spec

\* Of two established streams that share a context one has been told to end,
\* whoever connected, left or was replaced before (httpHandler.go, 104-109).
THEOREM ContextHasOneStream == Spec => []OneStreamPerContext
  <1>1. SessionInv => OneStreamPerContext
    BY DEF SessionInv, NamedOrTold, OneStreamPerContext
  <1> QED
    BY SessionInit, SessionStep, <1>1, PTL DEF Spec

\* ctx.AudioDisconnect <- 1, with the context locked, never blocks.
THEOREM DisconnectNeverBlocks == Spec => []SignalNeverBlocks
  <1>1. SessionInv => SignalNeverBlocks
    BY DEF SessionInv
  <1> QED
    BY SessionInit, SessionStep, <1>1, PTL DEF Spec

\* No context names a web socket that is closed or a stream that has ended.
THEOREM ContextsNameTheLiving == Spec => []NobodyDangles
  <1>1. SessionInv => NobodyDangles
    BY DEF SessionInv
  <1> QED
    BY SessionInit, SessionStep, <1>1, PTL DEF Spec

\* The web socket in a context was told the start position in it, in whichever
\* order stream and socket got there (httpHandler.go, 131-147 and 212-220).
THEOREM SocketsAreTold == Spec => []SocketKnowsStart
  BY SessionInit, SessionStep, SocketStep, PTL DEF Spec

\* A start position in a context is that of a stream that has not ended.
THEOREM StartPositionsHaveStreams == Spec => []StartPosHasStream
  BY SessionInit, SessionStep, StartPosStep, PTL DEF Spec
=============================================================================
