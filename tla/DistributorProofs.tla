-------------------------- MODULE DistributorProofs --------------------------
(***************************************************************************)
(* Proof that nobody waits for room in a channel, for any number of        *)
(* listeners and chunks.  What makes it true is how many tokens a listener *)
(* has: registrations that wait in the two channels and chunks that wait   *)
(* in its own.  It has two until it has received its first chunk, one from *)
(* then on, and none while it is about to register again.                  *)
(***************************************************************************)
EXTENDS Distributor, TLAPS, FiniteSetTheorems

Place == {"new", "report", "register0", "register1", "select", "register",
          "write", "leaving", "drained", "gone"}

Types ==
    /\ current \in {0, 1}
    /\ registered \in [{0, 1} -> Seq(Listener)]
    /\ chunkID \in 0 .. MaxChunk
    /\ encoder \in {"produce", "pending", "counted", "receive"}
    /\ encoder # "produce" => chunkID >= 1
    /\ pc \in [Listener -> Place]
    /\ channel \in [Listener -> Seq(Chunk)]
    /\ next \in [Listener -> {0, 1}]
    /\ lastID \in [Listener -> 1 .. MaxChunk \cup {NoChunk}]

Waits(l, i) == \E j \in DOMAIN registered[i] : registered[i][j] = l

\* The number of tokens, by the chunks among them.
None(l) == Len(channel[l]) = 0 /\ ~Waits(l, 0) /\ ~Waits(l, 1)

One(l) ==
    \/ Len(channel[l]) = 0 /\ (Waits(l, 0) <=> ~Waits(l, 1))
    \/ Len(channel[l]) = 1 /\ ~Waits(l, 0) /\ ~Waits(l, 1)

Two(l) ==
    \/ Len(channel[l]) = 0 /\ Waits(l, 0) /\ Waits(l, 1)
    \/ Len(channel[l]) = 1 /\ (Waits(l, 0) <=> ~Waits(l, 1))
    \/ Len(channel[l]) = 2 /\ ~Waits(l, 0) /\ ~Waits(l, 1)

\* How many a listener has, by where it is.
Tokens(l) ==
    /\ pc[l] \in {"new", "report", "register0", "register1"} => lastID[l] = NoChunk
    /\ pc[l] \in {"register", "write"} => lastID[l] # NoChunk
    /\ pc[l] \in {"new", "report", "register0", "register"} => None(l)
    /\ pc[l] = "register1" => One(l) /\ ~Waits(l, 1)
    /\ pc[l] \in {"select", "leaving"} /\ lastID[l] = NoChunk => Two(l)
    /\ pc[l] \in {"select", "write", "leaving"} /\ lastID[l] # NoChunk => One(l)
    /\ pc[l] \in {"drained", "gone"} => None(l) \/ One(l)

TokensKept == \A l \in Listener : Tokens(l)

Inv == Types /\ RegisteredOnce /\ TokensKept

-----------------------------------------------------------------------------
\* Sequences, as the channels use them.
LEMMA HeadAndTail ==
  ASSUME NEW S, NEW s \in Seq(S), s # <<>>
  PROVE  /\ Head(s) \in S /\ Tail(s) \in Seq(S)
         /\ Len(s) >= 1 /\ Len(Tail(s)) = Len(s) - 1
         /\ s[1] = Head(s)
         /\ \A j \in DOMAIN Tail(s) : j + 1 \in DOMAIN s /\ Tail(s)[j] = s[j + 1]
         /\ \A j \in DOMAIN s : j # 1 => j - 1 \in DOMAIN Tail(s) /\ s[j] = Tail(s)[j - 1]
  OBVIOUS

LEMMA LengthOne ==
  ASSUME NEW S, NEW s \in Seq(S), Len(s) = 1
  PROVE  s # <<>> /\ 1 \in DOMAIN s
<1>1. 1 \in 1 .. Len(s)
  OBVIOUS
<1>2. DOMAIN s = 1 .. Len(s)
  OBVIOUS
<1> QED BY <1>1, <1>2

LEMMA AppendedTo ==
  ASSUME NEW S, NEW s \in Seq(S), NEW e \in S
  PROVE  /\ Append(s, e) \in Seq(S)
         /\ Len(Append(s, e)) = Len(s) + 1
         /\ DOMAIN Append(s, e) = DOMAIN s \cup {Len(s) + 1}
         /\ Len(s) + 1 \notin DOMAIN s
         /\ Append(s, e)[Len(s) + 1] = e
         /\ \A j \in DOMAIN s : Append(s, e)[j] = s[j]
  OBVIOUS

\* A listener that is taken from the head of a channel waits there no more.
LEMMA TakenFrom ==
  ASSUME Types, RegisteredOnce, NEW i \in {0, 1}, registered[i] # <<>>,
         NEW h, h = Head(registered[i]), registered' = [registered EXCEPT ![i] = Tail(@)]
  PROVE  /\ registered' \in [{0, 1} -> Seq(Listener)]
         /\ h \in Listener
         /\ RegisteredOnce'
         /\ Waits(h, i) /\ ~Waits(h, i)'
         /\ \A l \in Listener, k \in {0, 1} : l # h \/ k # i => (Waits(l, k)' <=> Waits(l, k))
<1>1. PICK s \in Seq(Listener) : s = registered[i] /\ s # <<>>
  BY DEF Types
<1>2. /\ h \in Listener /\ Tail(s) \in Seq(Listener)
      /\ 1 \in DOMAIN s /\ s[1] = h
      /\ \A j \in DOMAIN Tail(s) : j + 1 \in DOMAIN s /\ j \in Nat \ {0} /\ Tail(s)[j] = s[j + 1]
      /\ \A j \in DOMAIN s : j # 1 => j - 1 \in DOMAIN Tail(s) /\ s[j] = Tail(s)[j - 1]
  BY <1>1, HeadAndTail
<1>3. /\ registered'[i] = Tail(s) /\ registered' \in [{0, 1} -> Seq(Listener)]
      /\ \A k \in {0, 1} : k # i => registered'[k] = registered[k]
  BY <1>1, <1>2 DEF Types
<1>4. \A j, k \in DOMAIN s : s[j] = s[k] => j = k
  BY <1>1 DEF RegisteredOnce
<1>5. RegisteredOnce'
  <2>1. ASSUME NEW j \in DOMAIN Tail(s), NEW k \in DOMAIN Tail(s), Tail(s)[j] = Tail(s)[k]
        PROVE  j = k
    <3>1. j + 1 = k + 1
      BY <1>2, <1>4, <2>1
    <3>2. j \in Nat /\ k \in Nat
      BY <1>2
    <3> QED BY <3>1, <3>2
  <2>2. ASSUME NEW m \in {0, 1},
               NEW j \in DOMAIN registered'[m], NEW k \in DOMAIN registered'[m],
               registered'[m][j] = registered'[m][k]
        PROVE  j = k
    <3>1. CASE m = i
      BY <1>3, <2>1, <2>2, <3>1
    <3>2. CASE m # i
      BY <1>3, <2>2, <3>2 DEF RegisteredOnce
    <3> QED BY <3>1, <3>2
  <2> QED BY <2>2 DEF RegisteredOnce
<1>6. Waits(h, i) /\ ~Waits(h, i)'
  <2>1. ASSUME NEW j \in DOMAIN Tail(s), Tail(s)[j] = h PROVE FALSE
    <3>1. j + 1 = 1 /\ j \in Nat \ {0}
      BY <1>2, <1>4, <2>1
    <3> QED BY <3>1
  <2> QED BY <1>1, <1>2, <1>3, <2>1 DEF Waits
<1>7. ASSUME NEW l \in Listener, NEW k \in {0, 1}, l # h \/ k # i
      PROVE  Waits(l, k)' <=> Waits(l, k)
  <2>1. CASE k = i
    <3>1. (\E j \in DOMAIN Tail(s) : Tail(s)[j] = l) => \E j \in DOMAIN s : s[j] = l
      BY <1>2
    <3>2. (\E j \in DOMAIN s : s[j] = l) => \E j \in DOMAIN Tail(s) : Tail(s)[j] = l
      BY <1>2, <1>7, <2>1
    <3> QED BY <1>1, <1>3, <2>1, <3>1, <3>2 DEF Waits
  <2>2. CASE k # i
    BY <1>3, <2>2 DEF Waits
  <2> QED BY <2>1, <2>2
<1> QED BY <1>2, <1>3, <1>5, <1>6, <1>7

\* A listener that registers where it does not wait.
LEMMA AddedTo ==
  ASSUME Types, RegisteredOnce, NEW l \in Listener, NEW i \in {0, 1}, ~Waits(l, i), Register(l, i)
  PROVE  /\ registered' \in [{0, 1} -> Seq(Listener)]
         /\ RegisteredOnce'
         /\ Waits(l, i)'
         /\ \A m \in Listener, k \in {0, 1} : m # l \/ k # i => (Waits(m, k)' <=> Waits(m, k))
<1>1. PICK s \in Seq(Listener) : s = registered[i]
  BY DEF Types
<1>2. PICK a \in Seq(Listener) : a = Append(s, l)
  BY <1>1, AppendedTo
<1>3. PICK n : n = Len(s) + 1
  OBVIOUS
<1>4. /\ DOMAIN a = DOMAIN s \cup {n} /\ n \notin DOMAIN s /\ a[n] = l
      /\ \A j \in DOMAIN s : a[j] = s[j]
  BY <1>1, <1>2, <1>3, AppendedTo
<1>5. /\ registered'[i] = a /\ registered' \in [{0, 1} -> Seq(Listener)]
      /\ \A k \in {0, 1} : k # i => registered'[k] = registered[k]
  BY <1>1, <1>2 DEF Types, Register
<1>6. /\ \A j \in DOMAIN s : s[j] # l
      /\ \A j, k \in DOMAIN s : s[j] = s[k] => j = k
  BY <1>1 DEF Waits, RegisteredOnce
<1>7. RegisteredOnce'
  <2>1. \A j, k \in DOMAIN a : a[j] = a[k] => j = k
    BY <1>4, <1>6
  <2>2. ASSUME NEW m \in {0, 1},
               NEW j \in DOMAIN registered'[m], NEW k \in DOMAIN registered'[m],
               registered'[m][j] = registered'[m][k]
        PROVE  j = k
    <3>1. CASE m = i
      BY <1>5, <2>1, <2>2, <3>1
    <3>2. CASE m # i
      BY <1>5, <2>2, <3>2 DEF RegisteredOnce
    <3> QED BY <3>1, <3>2
  <2> QED BY <2>2 DEF RegisteredOnce
<1>8. ASSUME NEW m \in Listener, NEW k \in {0, 1}, m # l \/ k # i
      PROVE  Waits(m, k)' <=> Waits(m, k)
  <2>1. CASE k = i
    <3>1. (\E j \in DOMAIN a : a[j] = m) <=> \E j \in DOMAIN s : s[j] = m
      BY <1>4, <1>8, <2>1
    <3> QED BY <1>1, <1>5, <2>1, <3>1 DEF Waits
  <2>2. CASE k # i
    BY <1>5, <2>2 DEF Waits
  <2> QED BY <2>1, <2>2
<1>9. Waits(l, i)'
  BY <1>4, <1>5 DEF Waits
<1> QED BY <1>5, <1>7, <1>8, <1>9

-----------------------------------------------------------------------------
\* A listener that a step has nothing to do with.
LEMMA Undisturbed ==
  ASSUME NEW l \in Listener, Tokens(l),
         pc'[l] = pc[l], lastID'[l] = lastID[l], channel'[l] = channel[l],
         Waits(l, 0)' <=> Waits(l, 0), Waits(l, 1)' <=> Waits(l, 1)
  PROVE  Tokens(l)'
  BY DEF Tokens, None, One, Two

\* A step that leaves the registrations alone.
LEMMA NoRegistration ==
  ASSUME UNCHANGED registered
  PROVE  \A l \in Listener, k \in {0, 1} : Waits(l, k)' <=> Waits(l, k)
  BY DEF Waits

\* A step of one listener that leaves the registrations alone.
LEMMA OneListener ==
  ASSUME Inv, NEW l \in Listener, UNCHANGED registered, Tokens(l)',
         \A m \in Listener \ {l} :
           pc'[m] = pc[m] /\ lastID'[m] = lastID[m] /\ channel'[m] = channel[m]
  PROVE  RegisteredOnce' /\ TokensKept'
<1>1. RegisteredOnce'
  BY DEF Inv, RegisteredOnce
<1>2. \A m \in Listener \ {l} : Tokens(m)'
  BY Undisturbed, NoRegistration DEF Inv, TokensKept
<1> QED BY <1>1, <1>2 DEF TokensKept

LEMMA InvInit == Init => Inv
<1> SUFFICES ASSUME Init PROVE Inv
  OBVIOUS
<1>1. Types
  BY DistributorAssumption DEF Init, Types, Place, NoChunk
<1>2. RegisteredOnce
  BY DEF Init, RegisteredOnce
<1>3. TokensKept
  BY DEF Init, TokensKept, Tokens, None, Waits
<1> QED BY <1>1, <1>2, <1>3 DEF Inv

\* The encoder, but for Send.
LEMMA EncoderNext ==
  ASSUME Inv, Produce \/ CheckPending \/ CheckCount \/ Advance
  PROVE  Inv'
<1>1. UNCHANGED <<registered, channel, listenerVars>>
  BY DEF Produce, CheckPending, CheckCount, Advance
<1>2. Types'
  <2>1. CASE Produce
    BY <1>1, <2>1, DistributorAssumption DEF Inv, Types, Produce, listenerVars
  <2>2. CASE CheckPending \/ CheckCount
    BY <1>1, <2>2 DEF Inv, Types, CheckPending, CheckCount, listenerVars
  <2>3. CASE Advance
    BY <1>1, <2>3 DEF Inv, Types, Advance, Other, listenerVars
  <2> QED BY <2>1, <2>2, <2>3
<1>3. RegisteredOnce'
  BY <1>1 DEF Inv, RegisteredOnce
<1>4. TokensKept'
  BY <1>1, NoRegistration, Undisturbed DEF Inv, TokensKept, listenerVars
<1> QED BY <1>2, <1>3, <1>4 DEF Inv

\* A registration becomes a chunk.
LEMMA SendNext ==
  ASSUME Inv, Send
  PROVE  Inv'
<1> DEFINE chunk == [id |-> chunkID, next |-> Other(current)]
<1>1. PICK h : h = Head(registered[current])
  OBVIOUS
<1>2. PICK i \in {0, 1} : i = current
  BY DEF Inv, Types
<1>3. /\ registered[i] # <<>> /\ registered' = [registered EXCEPT ![i] = Tail(@)]
      /\ channel' = [channel EXCEPT ![h] = Append(@, chunk)]
      /\ encoder = "receive" /\ encoder' = "pending"
      /\ UNCHANGED <<current, chunkID, pc, next, lastID>>
  BY <1>1, <1>2 DEF Send, listenerVars
<1>4. /\ registered' \in [{0, 1} -> Seq(Listener)] /\ h \in Listener /\ RegisteredOnce'
      /\ Waits(h, i) /\ ~Waits(h, i)'
      /\ \A l \in Listener, k \in {0, 1} : l # h \/ k # i => (Waits(l, k)' <=> Waits(l, k))
  <2>1. Types /\ RegisteredOnce /\ h = Head(registered[i])
    BY <1>1, <1>2 DEF Inv
  <2>2. registered[i] # <<>> /\ registered' = [registered EXCEPT ![i] = Tail(@)]
    BY <1>3
  <2> QED BY <2>1, <2>2, TakenFrom
<1>5. chunk \in Chunk
  BY <1>3, DistributorAssumption DEF Inv, Types, Chunk, Other
<1> HIDE DEF chunk
<1>6. channel[h] \in Seq(Chunk) /\ channel'[h] = Append(channel[h], chunk)
      /\ \A l \in Listener \ {h} : channel'[l] = channel[l]
  BY <1>3, <1>4 DEF Inv, Types
<1>7. Append(channel[h], chunk) \in Seq(Chunk)
      /\ Len(channel'[h]) = Len(channel[h]) + 1 /\ Len(channel[h]) \in Nat
  BY <1>5, <1>6, AppendedTo
<1>8. Types'
  BY <1>3, <1>4, <1>7 DEF Inv, Types
<1>9. Tokens(h)'
  <2>1. Tokens(h) /\ (i = 0 \/ i = 1)
    BY <1>4 DEF Inv, TokensKept
  <2>5. ~None(h)
    BY <1>4, <2>1 DEF None
  <2>6. One(h) => One(h)'
    BY <1>4, <1>7, <2>1 DEF One
  <2>7. Two(h) => Two(h)'
    <3>1. /\ Len(channel[h]) = 0 => Len(channel'[h]) = 1
          /\ Len(channel[h]) = 1 => Len(channel'[h]) = 2
      <4>1. PICK n \in Nat : n = Len(channel[h])
        BY <1>7
      <4>2. PICK m : m = Len(channel'[h])
        OBVIOUS
      <4>3. m = n + 1
        BY <1>7, <4>1, <4>2
      <4>4. (n = 0 => m = 1) /\ (n = 1 => m = 2)
        BY <4>3
      <4> QED BY <4>1, <4>2, <4>4, Zenon
    <3>2. CASE i = 0
      BY <1>4, <3>1, <3>2, Zenon DEF Two
    <3>3. CASE i = 1
      BY <1>4, <3>1, <3>3, Zenon DEF Two
    <3> QED BY <2>1, <3>2, <3>3
  <2>2. (One(h) => One(h)') /\ (Two(h) => Two(h)') /\ ~None(h)
    BY <2>5, <2>6, <2>7
  <2>3. pc'[h] = pc[h] /\ lastID'[h] = lastID[h]
    BY <1>3
  <2>4. ~(pc[h] = "register1" /\ Waits(h, 1)')
    BY <1>4, <2>1 DEF Tokens
  <2> QED BY <2>1, <2>2, <2>3, <2>4 DEF Tokens
<1>10. \A l \in Listener \ {h} : Tokens(l)'
  BY <1>3, <1>4, <1>6, Undisturbed DEF Inv, TokensKept
<1> QED BY <1>4, <1>8, <1>9, <1>10 DEF Inv, TokensKept

\* A chunk is taken out of a listener's channel.
LEMMA ChunkTaken ==
  ASSUME Types, NEW l \in Listener, channel[l] # <<>>,
         channel' = [channel EXCEPT ![l] = Tail(@)]
  PROVE  /\ channel' \in [Listener -> Seq(Chunk)]
         /\ Head(channel[l]) \in Chunk
         /\ Len(channel'[l]) = Len(channel[l]) - 1 /\ Len(channel[l]) \in Nat \ {0}
         /\ \A m \in Listener \ {l} : channel'[m] = channel[m]
<1>1. channel[l] \in Seq(Chunk)
  BY DEF Types
<1>2. Head(channel[l]) \in Chunk /\ Tail(channel[l]) \in Seq(Chunk)
      /\ Len(channel[l]) >= 1 /\ Len(Tail(channel[l])) = Len(channel[l]) - 1
  BY <1>1, HeadAndTail
<1> QED BY <1>1, <1>2 DEF Types

\* A new registration.
LEMMA RegisterNext ==
  ASSUME Inv, NEW l \in Listener, NEW i \in {0, 1}, NEW to \in Place, Register(l, i),
         \/ pc[l] = "register0" /\ i = 0 /\ to = "register1"
         \/ pc[l] = "register1" /\ i = 1 /\ to = "select"
         \/ pc[l] = "register" /\ to = "write",
         pc' = [pc EXCEPT ![l] = to],
         UNCHANGED <<encoderVars, subscribers, channel, next, lastID>>
  PROVE  Inv'
<1>1. Tokens(l)
  BY DEF Inv, TokensKept
<1>2. ~Waits(l, i)
  BY <1>1 DEF Tokens, None
<1>3. /\ registered' \in [{0, 1} -> Seq(Listener)] /\ RegisteredOnce' /\ Waits(l, i)'
      /\ \A m \in Listener, k \in {0, 1} : m # l \/ k # i => (Waits(m, k)' <=> Waits(m, k))
  BY <1>2, AddedTo DEF Inv
<1>4. Types' /\ pc'[l] = to /\ \A m \in Listener \ {l} : pc'[m] = pc[m]
  BY <1>3 DEF Inv, Types, encoderVars
<1>5. \A m \in Listener \ {l} : Tokens(m)'
  BY <1>3, <1>4, Undisturbed DEF Inv, TokensKept
<1>6. Tokens(l)'
  <2>1. CASE i = 0
    BY <1>1, <1>3, <1>4, <2>1 DEF Tokens, None, One, Two
  <2>2. CASE i = 1
    BY <1>1, <1>3, <1>4, <2>2 DEF Tokens, None, One, Two
  <2> QED BY <2>1, <2>2
<1> QED BY <1>3, <1>4, <1>5, <1>6 DEF Inv, TokensKept

\* The first chunk leaves a listener with one token, any other one with none.
LEMMA ReceiveNext ==
  ASSUME Inv, NEW l \in Listener, Receive(l)
  PROVE  Inv'
<1>1. /\ channel[l] # <<>> /\ channel' = [channel EXCEPT ![l] = Tail(@)]
      /\ pc[l] = "select"
      /\ pc' = [pc EXCEPT ![l] = IF lastID[l] = NoChunk THEN "write" ELSE "register"]
      /\ next' = [next EXCEPT ![l] = Head(channel[l]).next]
      /\ lastID' = [lastID EXCEPT ![l] = Head(channel[l]).id]
      /\ UNCHANGED <<encoderVars, registered>>
  BY DEF Receive, Move
<1>2. /\ channel' \in [Listener -> Seq(Chunk)] /\ Head(channel[l]) \in Chunk
      /\ Len(channel'[l]) = Len(channel[l]) - 1 /\ Len(channel[l]) \in Nat \ {0}
      /\ \A m \in Listener \ {l} : channel'[m] = channel[m]
  BY <1>1, ChunkTaken DEF Inv
<1>3. Head(channel[l]).id \in 1 .. MaxChunk /\ Head(channel[l]).next \in {0, 1}
  BY <1>2 DEF Chunk
<1>4. /\ pc' \in [Listener -> Place] /\ next' \in [Listener -> {0, 1}]
      /\ lastID' \in [Listener -> 1 .. MaxChunk \cup {NoChunk}]
  BY <1>1, <1>3 DEF Inv, Types, Place
<1>5. Types'
  BY <1>1, <1>2, <1>4 DEF Inv, Types, encoderVars
<1>6. /\ pc'[l] = IF lastID[l] = NoChunk THEN "write" ELSE "register"
      /\ lastID'[l] \in 1 .. MaxChunk
      /\ \A m \in Listener \ {l} : pc'[m] = pc[m] /\ lastID'[m] = lastID[m]
  BY <1>1, <1>3 DEF Inv, Types
<1>7. Tokens(l) /\ lastID'[l] # NoChunk
  BY <1>6, DistributorAssumption DEF Inv, TokensKept, NoChunk
<1>8. (Waits(l, 0)' <=> Waits(l, 0)) /\ (Waits(l, 1)' <=> Waits(l, 1))
  BY <1>1, NoRegistration
<1>9. Tokens(l)'
  BY <1>1, <1>2, <1>6, <1>7, <1>8 DEF Tokens, None, One, Two
<1> QED BY <1>1, <1>2, <1>5, <1>6, <1>9, OneListener DEF Inv

\* Leaving takes a token, if there is one.
LEMMA DrainNext ==
  ASSUME Inv, NEW l \in Listener, DrainOne(l)
  PROVE  Inv'
<1>1. /\ channel[l] # <<>> /\ channel' = [channel EXCEPT ![l] = Tail(@)]
      /\ pc[l] = "leaving" /\ pc' = [pc EXCEPT ![l] = "drained"]
      /\ UNCHANGED <<encoderVars, registered, next, lastID>>
  BY DEF DrainOne, Move
<1>2. /\ channel' \in [Listener -> Seq(Chunk)]
      /\ Len(channel'[l]) = Len(channel[l]) - 1 /\ Len(channel[l]) \in Nat \ {0}
      /\ \A m \in Listener \ {l} : channel'[m] = channel[m]
  BY <1>1, ChunkTaken DEF Inv
<1>3. Types' /\ pc'[l] = "drained" /\ \A m \in Listener \ {l} : pc'[m] = pc[m]
  BY <1>1, <1>2 DEF Inv, Types, Place, encoderVars
<1>4. Tokens(l) /\ (Waits(l, 0)' <=> Waits(l, 0)) /\ (Waits(l, 1)' <=> Waits(l, 1))
  BY <1>1, NoRegistration DEF Inv, TokensKept
<1>5. Tokens(l)'
  BY <1>1, <1>2, <1>3, <1>4 DEF Tokens, None, One, Two
<1> QED BY <1>1, <1>2, <1>3, <1>5, OneListener DEF Inv

\* The other steps of a listener only move it on.
LEMMA MoveNext ==
  ASSUME Inv, NEW l \in Listener,
         Subscribe(l) \/ Report(l) \/ WriteChunk(l) \/ Leave(l) \/ Unsubscribe(l)
  PROVE  Inv'
<1>1. UNCHANGED <<encoderVars, registered, channel, next, lastID>>
  BY DEF Subscribe, Report, WriteChunk, Leave, Unsubscribe
<1>2. PICK to \in Place :
        /\ pc' = [pc EXCEPT ![l] = to]
        /\ <<pc[l], to>> \in {<<"new", "report">>, <<"report", "register0">>, <<"write", "select">>,
                               <<"select", "leaving">>, <<"write", "leaving">>, <<"drained", "gone">>}
  BY DEF Subscribe, Report, WriteChunk, Leave, Unsubscribe, Move, Place
<1>3. Types' /\ pc'[l] = to /\ \A m \in Listener \ {l} : pc'[m] = pc[m]
  BY <1>1, <1>2 DEF Inv, Types, encoderVars
<1>4. Tokens(l) /\ (Waits(l, 0)' <=> Waits(l, 0)) /\ (Waits(l, 1)' <=> Waits(l, 1))
  BY <1>1, NoRegistration DEF Inv, TokensKept
<1>5. Tokens(l)'
  BY <1>1, <1>2, <1>3, <1>4 DEF Tokens, None, One, Two
<1> QED BY <1>1, <1>3, <1>5, OneListener DEF Inv

LEMMA InvNext == Inv /\ [Next]_vars => Inv'
<1> SUFFICES ASSUME Inv, [Next]_vars PROVE Inv'
  OBVIOUS
<1>1. CASE Encode
  BY <1>1, EncoderNext, SendNext DEF Encode
<1>2. ASSUME NEW l \in Listener, RegisterFirst(l) \/ RegisterSecond(l) \/ RegisterAgain(l)
      PROVE  Inv'
  <2>1. CASE RegisterFirst(l)
    <3>1. /\ Register(l, 0) /\ pc[l] = "register0" /\ pc' = [pc EXCEPT ![l] = "register1"]
          /\ UNCHANGED <<encoderVars, subscribers, channel, next, lastID>>
      BY <2>1 DEF RegisterFirst, Move
    <3>2. 0 \in {0, 1} /\ "register1" \in Place
      BY DEF Place
    <3> QED BY <3>1, <3>2, RegisterNext
  <2>2. CASE RegisterSecond(l)
    <3>1. /\ Register(l, 1) /\ pc[l] = "register1" /\ pc' = [pc EXCEPT ![l] = "select"]
          /\ UNCHANGED <<encoderVars, subscribers, channel, next, lastID>>
      BY <2>2 DEF RegisterSecond, Move
    <3>2. 1 \in {0, 1} /\ "select" \in Place
      BY DEF Place
    <3> QED BY <3>1, <3>2, RegisterNext
  <2>3. CASE RegisterAgain(l)
    <3>1. next[l] \in {0, 1}
      BY DEF Inv, Types
    <3> QED BY <2>3, <3>1, RegisterNext DEF RegisterAgain, Move, Place
  <2> QED BY <1>2, <2>1, <2>2, <2>3
<1>3. ASSUME NEW l \in Listener,
             \/ Subscribe(l) \/ Report(l) \/ WriteChunk(l) \/ Leave(l) \/ Unsubscribe(l)
             \/ Receive(l) \/ DrainOne(l)
      PROVE  Inv'
  BY <1>3, MoveNext, ReceiveNext, DrainNext
<1>4. CASE UNCHANGED vars
  BY <1>4, NoRegistration, Undisturbed
    DEF vars, encoderVars, listenerVars, Inv, Types, RegisteredOnce, TokensKept
<1> QED BY <1>1, <1>2, <1>3, <1>4 DEF Next, Handle

\* However many listeners come and go, none of their channels ever holds more than
\* two chunks and none of them waits twice in a registration channel: the
\* encoder's c <- Chunk and, with no more listeners than a registration channel
\* has room for, the listeners' registrations do not block.
THEOREM NobodyWaitsForRoom == Spec => []ChannelsSuffice
<1>1. Inv => ChannelsSuffice
  <2> SUFFICES ASSUME Inv PROVE ChannelNeverFull
    BY DEF Inv, ChannelsSuffice
  <2> SUFFICES ASSUME NEW l \in Listener PROVE Len(channel[l]) <= 2
    BY DEF ChannelNeverFull
  <2>1. Tokens(l) /\ pc[l] \in Place
    BY DEF Inv, TokensKept, Types
  <2>2. None(l) \/ One(l) \/ Two(l)
    BY <2>1 DEF Tokens, Place
  <2>3. PICK n \in Nat : n = Len(channel[l])
    BY DEF Inv, Types
  <2>4. n \in {0, 1, 2}
    BY <2>2, <2>3 DEF None, One, Two
  <2>5. n <= 2
    BY <2>4
  <2> QED BY <2>3, <2>5, Zenon
<1> QED BY <1>1, InvInit, InvNext, PTL DEF Spec

-----------------------------------------------------------------------------
(* No chunk is dropped while nobody has left.  Every listener that was ever sent  *)
(* a chunk was sent the newest one or, while the encoder is sending, the one before *)
(* it; and its token is where the next one will be sent from.  The encoder moves   *)
(* on when it has sent as often as there are subscribers, and it sends a chunk to  *)
(* nobody twice: so it has sent to all of them.                                    *)

\* What a listener was sent last.
Began(l)  == channel[l] # <<>> \/ lastID[l] # NoChunk
Newest(l) == IF channel[l] = <<>> THEN [id |-> lastID[l], next |-> next[l]]
                                  ELSE channel[l][Len(channel[l])]

\* The channel that the next chunk will be sent from.
Ahead == IF encoder = "produce" THEN current ELSE Other(current)

Subscribed == {l \in Listener : pc[l] # "new"}
Got == {l \in Listener : Began(l) /\ Newest(l).id = chunkID}

UpToDate(l) == Newest(l) = [id |-> chunkID, next |-> Ahead]
OneBehind(l) ==
    encoder # "produce" /\ Newest(l) = [id |-> chunkID - 1, next |-> current]

InPlace(l) ==
    Began(l) =>
      /\ UpToDate(l) \/ OneBehind(l)
      /\ \A i \in {0, 1} : Waits(l, i) => i = Newest(l).next
      /\ pc[l] = "register1" => Newest(l).next = 1

Consecutive(l) ==
    /\ Len(channel[l]) = 2 => channel[l][2].id = channel[l][1].id + 1
    /\ lastID[l] # NoChunk /\ channel[l] # <<>> => channel[l][1].id = lastID[l] + 1

InStep == \A l \in Listener : InPlace(l) /\ Consecutive(l)

Counts ==
    /\ IsFiniteSet(Subscribed) /\ subscribers = Cardinality(Subscribed)
    /\ encoder # "produce" => sent = Cardinality(Got)

LeaversOnly == \A l \in Listener : pc[l] \in {"leaving", "drained", "gone"} => l \in Leaver

StepInv == Inv /\ LeaversOnly /\ (NobodyLeft => InStep /\ Counts)

\* Who was sent a chunk is subscribed.
LEMMA GotIsSubscribed == Inv => Got \subseteq Subscribed
<1> SUFFICES ASSUME Inv, NEW l \in Listener, Began(l), pc[l] = "new" PROVE FALSE
  BY DEF Got, Subscribed
<1>1. Tokens(l) /\ channel[l] \in Seq(Chunk)
  BY DEF Inv, TokensKept, Types
<1> QED BY <1>1 DEF Tokens, None, Began

\* A listener that has been sent nothing new.
LEMMA SameNewest ==
  ASSUME NEW l \in Listener,
         channel'[l] = channel[l], lastID'[l] = lastID[l], next'[l] = next[l]
  PROVE  /\ Began(l)' <=> Began(l)
         /\ Newest(l)' = Newest(l)
         /\ Consecutive(l)' <=> Consecutive(l)
  BY DEF Began, Newest, Consecutive

LEMMA NewestIsChunk ==
  ASSUME Types, NEW l \in Listener, Began(l)
  PROVE  Newest(l) \in Chunk
<1>1. CASE channel[l] = <<>>
  BY <1>1, DistributorAssumption DEF Began, Newest, Types, Chunk
<1>2. CASE channel[l] # <<>>
  <2>1. channel[l] \in Seq(Chunk) /\ Len(channel[l]) \in DOMAIN channel[l]
    BY <1>2 DEF Types
  <2> QED BY <1>2, <2>1 DEF Newest
<1> QED BY <1>1, <1>2

\* When the encoder has sent as often as there are subscribers, all were sent to.
LEMMA AllGot ==
  ASSUME Inv, Counts, encoder # "produce", sent >= subscribers
  PROVE  Got = Subscribed
<1>1. Got \subseteq Subscribed /\ IsFiniteSet(Subscribed)
  BY GotIsSubscribed DEF Counts
<1>2. IsFiniteSet(Got) /\ Cardinality(Got) <= Cardinality(Subscribed)
      /\ Cardinality(Got) \in Nat /\ Cardinality(Subscribed) \in Nat
      /\ (Cardinality(Got) = Cardinality(Subscribed) => Got = Subscribed)
  BY <1>1, FS_Subset, FS_CardinalityType
<1>3. Cardinality(Got) >= Cardinality(Subscribed)
  BY DEF Counts
<1> QED BY <1>2, <1>3

LEMMA StepInit == Init => InStep /\ Counts /\ LeaversOnly
<1> SUFFICES ASSUME Init PROVE InStep /\ Counts /\ LeaversOnly
  OBVIOUS
<1>1. InStep
  BY DEF Init, InStep, InPlace, Consecutive, Began, NoChunk
<1>2. Subscribed = {}
  BY DEF Init, Subscribed
<1>3. Counts
  BY <1>2, FS_EmptySet DEF Init, Counts
<1> QED BY <1>1, <1>3 DEF Init, LeaversOnly

\* The steps of the encoder but for Send.
LEMMA EncoderInStep ==
  ASSUME Inv, InStep, Counts, Produce \/ CheckPending \/ CheckCount \/ Advance
  PROVE  InStep' /\ Counts'
<1>1. UNCHANGED <<registered, subscribers, channel, pc, next, lastID>>
  BY DEF Produce, CheckPending, CheckCount, Advance, listenerVars
<1>2. \A l \in Listener :
        /\ (Began(l)' <=> Began(l)) /\ Newest(l)' = Newest(l) /\ Consecutive(l)'
        /\ \A i \in {0, 1} : Waits(l, i)' <=> Waits(l, i)
  BY <1>1, SameNewest, NoRegistration DEF InStep
<1>3. Subscribed' = Subscribed
  BY <1>1 DEF Subscribed
<1>4. \A l \in Listener : Began(l) => UpToDate(l) \/ OneBehind(l)
  BY DEF InStep, InPlace
<1>5. SUFFICES /\ \A l \in Listener : Began(l) => UpToDate(l)' \/ OneBehind(l)'
               /\ encoder' # "produce" => sent' = Cardinality(Got')
  BY <1>1, <1>2, <1>3 DEF InStep, InPlace, Counts
<1>6. CASE Produce
  <2>1. encoder = "produce" /\ encoder' = "pending" /\ chunkID' = chunkID + 1 /\ sent' = 0
        /\ current' = current /\ chunkID \in Nat
    BY <1>6, DistributorAssumption DEF Produce, Inv, Types
  <2>2. \A l \in Listener : Began(l) => Newest(l) = [id |-> chunkID, next |-> current]
    BY <1>4, <2>1 DEF UpToDate, OneBehind, Ahead
  <2>3. chunkID' - 1 = chunkID /\ chunkID # chunkID'
    BY <2>1
  <2>4. \A l \in Listener : Began(l) => OneBehind(l)'
    BY <1>2, <2>1, <2>2, <2>3 DEF OneBehind
  <2>5. Got' = {}
    BY <1>2, <2>2, <2>3 DEF Got
  <2> QED BY <2>1, <2>4, <2>5, FS_EmptySet
<1>7. CASE CheckPending \/ CheckCount
  <2>1. encoder # "produce" /\ encoder' # "produce" /\ UNCHANGED <<current, chunkID, sent>>
    BY <1>7 DEF CheckPending, CheckCount
  <2>2. Got' = Got
    BY <1>2, <2>1 DEF Got
  <2>3. \A l \in Listener : (UpToDate(l)' <=> UpToDate(l)) /\ (OneBehind(l)' <=> OneBehind(l))
    BY <1>2, <2>1 DEF UpToDate, OneBehind, Ahead, Other
  <2> QED BY <1>4, <2>1, <2>2, <2>3 DEF Counts
<1>8. CASE Advance
  <2>1. encoder = "counted" /\ encoder' = "produce" /\ sent >= subscribers
        /\ current' = Other(current) /\ chunkID' = chunkID /\ chunkID \in Nat
    BY <1>8, DistributorAssumption DEF Advance, Inv, Types
  <2>2. Got = Subscribed
    BY <2>1, AllGot
  <2>3. ASSUME NEW l \in Listener, Began(l) PROVE UpToDate(l)'
    <3>1. pc[l] # "new"
      <4>1. Tokens(l) /\ channel[l] \in Seq(Chunk)
        BY DEF Inv, TokensKept, Types
      <4> QED BY <2>3, <4>1 DEF Tokens, None, Began
    <3>2. Newest(l).id = chunkID
      BY <2>2, <3>1 DEF Got, Subscribed
    <3>3. Newest(l) = [id |-> chunkID, next |-> Other(current)]
      <4>1. chunkID # chunkID - 1
        BY <2>1
      <4> QED BY <1>4, <2>1, <2>3, <3>2, <4>1 DEF UpToDate, OneBehind, Ahead
    <3> QED BY <1>2, <2>1, <3>3 DEF UpToDate, Ahead
  <2> QED BY <2>1, <2>3
<1> QED BY <1>6, <1>7, <1>8

\* The head of the channel gets the chunk being sent; it has not got it yet.
LEMMA SendInStep ==
  ASSUME Inv, Inv', InStep, Counts, Send
  PROVE  InStep' /\ Counts'
<1> DEFINE chunk == [id |-> chunkID, next |-> Other(current)]
<1>1. PICK h : h = Head(registered[current])
  OBVIOUS
<1>2. PICK i \in {0, 1} : i = current
  BY DEF Inv, Types
<1>3. /\ registered[i] # <<>> /\ registered' = [registered EXCEPT ![i] = Tail(@)]
      /\ channel' = [channel EXCEPT ![h] = Append(@, chunk)]
      /\ encoder = "receive" /\ encoder' = "pending" /\ sent' = sent + 1
      /\ UNCHANGED <<current, chunkID, subscribers, pc, next, lastID>>
  BY <1>1, <1>2 DEF Send, listenerVars
<1>4. /\ h \in Listener /\ Waits(h, i) /\ ~Waits(h, i)'
      /\ \A l \in Listener, k \in {0, 1} : l # h \/ k # i => (Waits(l, k)' <=> Waits(l, k))
  <2>1. Types /\ RegisteredOnce /\ h = Head(registered[i])
    BY <1>1, <1>2 DEF Inv
  <2>2. registered[i] # <<>> /\ registered' = [registered EXCEPT ![i] = Tail(@)]
    BY <1>3
  <2> QED BY <2>1, <2>2, TakenFrom
<1>5. chunk \in Chunk /\ chunkID \in Nat \ {0} /\ chunk.id = chunkID /\ chunk.next = Other(i)
  BY <1>2, <1>3, DistributorAssumption DEF Inv, Types, Chunk, Other
<1> HIDE DEF chunk
<1>6. /\ channel[h] \in Seq(Chunk) /\ channel'[h] = Append(channel[h], chunk)
      /\ \A l \in Listener \ {h} : channel'[l] = channel[l]
  BY <1>3, <1>4 DEF Inv, Types
<1>7. /\ Len(channel'[h]) = Len(channel[h]) + 1 /\ Len(channel[h]) \in Nat
      /\ channel'[h] # <<>> /\ channel'[h][Len(channel'[h])] = chunk
      /\ \A j \in DOMAIN channel[h] : channel'[h][j] = channel[h][j]
  BY <1>5, <1>6, AppendedTo
<1>8. Began(h)' /\ Newest(h)' = chunk
  BY <1>7 DEF Began, Newest
<1>9. \A l \in Listener \ {h} :
        /\ (Began(l)' <=> Began(l)) /\ Newest(l)' = Newest(l) /\ (Consecutive(l)' <=> Consecutive(l))
        /\ \A k \in {0, 1} : Waits(l, k)' <=> Waits(l, k)
  BY <1>3, <1>4, <1>6, SameNewest
<1>10. Ahead = Other(current) /\ Ahead' = Other(current)' /\ Other(current)' = Other(current)
       /\ Other(i) \in {0, 1} /\ Other(i) # i
  BY <1>2, <1>3 DEF Ahead, Other
<1>11. ASSUME Began(h) PROVE Newest(h).id = chunkID - 1
  <2>1. i = Newest(h).next
    BY <1>4, <1>11 DEF InStep, InPlace
  <2>2. UpToDate(h) \/ OneBehind(h)
    BY <1>4, <1>11 DEF InStep, InPlace
  <2>3. ~UpToDate(h)
    BY <1>2, <1>10, <2>1 DEF UpToDate
  <2> QED BY <2>2, <2>3 DEF OneBehind
<1>12. ASSUME NEW l \in Listener \ {h} PROVE InPlace(l)' /\ Consecutive(l)'
  <2>1. InPlace(l) /\ Consecutive(l)
    BY DEF InStep
  <2>2. (UpToDate(l)' <=> UpToDate(l)) /\ (OneBehind(l)' <=> OneBehind(l))
    BY <1>3, <1>9, <1>10 DEF UpToDate, OneBehind
  <2> QED BY <1>3, <1>9, <2>1, <2>2 DEF InPlace
<1>13. InPlace(h)'
  <2>1. UpToDate(h)'
    BY <1>2, <1>3, <1>8, <1>10 DEF UpToDate, chunk
  <2>2. \A k \in {0, 1} : Waits(h, k)' => k = chunk.next
    BY <1>4, <1>5 DEF Other
  <2>3. pc'[h] = "register1" => chunk.next = 1
    <3>1. ~(pc[h] = "register1" /\ Waits(h, 1))
      BY <1>4 DEF Inv, TokensKept, Tokens
    <3> QED BY <1>3, <1>4, <1>5, <3>1 DEF Other
  <2> QED BY <1>8, <2>1, <2>2, <2>3 DEF InPlace
<1>14. Consecutive(h)'
  <2>1. ASSUME Len(channel'[h]) = 2 PROVE channel'[h][2].id = channel'[h][1].id + 1
    <3>1. Len(channel[h]) = 1 /\ channel[h] # <<>> /\ 1 \in DOMAIN channel[h]
      <4>1. PICK c \in Seq(Chunk) : c = channel[h]
        BY <1>6
      <4>2. PICK n : n = Len(channel'[h])
        OBVIOUS
      <4>3. Len(c) = 1
        <5>1. PICK m \in Nat : m = Len(c)
          BY <4>1
        <5>2. n = m + 1 /\ n = 2
          BY <1>7, <2>1, <4>1, <4>2, <5>1, Zenon
        <5>3. m = 1
          BY <5>1, <5>2
        <5> QED BY <5>1, <5>3, Zenon
      <4>4. c # <<>> /\ 1 \in DOMAIN c
        BY <4>3, LengthOne
      <4> QED BY <4>1, <4>3, <4>4, Zenon
    <3>2. Newest(h) = channel[h][1] /\ Began(h)
      BY <3>1 DEF Newest, Began
    <3>3. channel'[h][2] = chunk /\ channel'[h][1] = channel[h][1]
      BY <1>7, <2>1, <3>1
    <3> QED BY <1>5, <1>11, <3>2, <3>3
  <2>2. ASSUME lastID[h] # NoChunk PROVE channel'[h][1].id = lastID[h] + 1
    <3>1. channel[h] = <<>>
      <4>1. Tokens(h) /\ Tokens(h)' /\ pc[h] \in Place /\ pc'[h] = pc[h] /\ lastID'[h] = lastID[h]
        BY <1>3, <1>4 DEF Inv, TokensKept, Types
      <4>2. pc[h] \notin {"new", "report", "register0", "register1"} /\ (One(h) \/ None(h))
        BY <2>2, <4>1 DEF Tokens, Place
      <4>3. Len(channel[h]) = 0
        <5>1. ~None(h)
          BY <1>4 DEF None
        <5>2. ~(~Waits(h, 0) /\ ~Waits(h, 1))
          BY <1>4
        <5> QED BY <4>2, <5>1, <5>2 DEF One
      <4> QED BY <1>6, <4>3
    <3>2. Newest(h).id = lastID[h] /\ Began(h)
      BY <2>2, <3>1 DEF Newest, Began
    <3>3. channel'[h][1] = chunk
      BY <1>7, <3>1
    <3> QED BY <1>5, <1>11, <3>2, <3>3
  <2> QED BY <1>3, <2>1, <2>2 DEF Consecutive
<1>15. InStep'
  BY <1>12, <1>13, <1>14 DEF InStep
<1>16. Counts'
  <2>1. Subscribed' = Subscribed
    BY <1>3 DEF Subscribed
  <2>2. Got' = Got \cup {h}
    BY <1>3, <1>4, <1>5, <1>8, <1>9 DEF Got
  <2>3. h \notin Got
    BY <1>5, <1>11 DEF Got
  <2>4. IsFiniteSet(Got)
    BY GotIsSubscribed, FS_Subset DEF Counts
  <2>5. Cardinality(Got') = Cardinality(Got) + 1
    BY <2>2, <2>3, <2>4, FS_AddElement
  <2> QED BY <1>3, <2>1, <2>5 DEF Counts
<1> QED BY <1>15, <1>16

\* A step of one listener that has been sent nothing by it.
LEMMA ListenerInStep ==
  ASSUME Inv, InStep, Counts, NEW l \in Listener,
         InPlace(l)', Consecutive(l)', Began(l)' <=> Began(l), Newest(l)' = Newest(l),
         UNCHANGED encoderVars,
         \A m \in Listener \ {l} :
           /\ pc'[m] = pc[m] /\ lastID'[m] = lastID[m] /\ channel'[m] = channel[m]
           /\ next'[m] = next[m] /\ \A i \in {0, 1} : Waits(m, i)' <=> Waits(m, i)
  PROVE  InStep' /\ Got' = Got
<1>1. UNCHANGED <<current, chunkID, encoder, sent>>
  BY DEF encoderVars
<1>2. \A m \in Listener \ {l} :
        (Began(m)' <=> Began(m)) /\ Newest(m)' = Newest(m) /\ (Consecutive(m)' <=> Consecutive(m))
  BY SameNewest
<1>3. \A m \in Listener \ {l} : InPlace(m)' /\ Consecutive(m)'
  BY <1>1, <1>2 DEF InStep, InPlace, UpToDate, OneBehind, Ahead, Other
<1>4. Got' = Got
  BY <1>1, <1>2 DEF Got
<1> QED BY <1>3, <1>4 DEF InStep

\* The steps of a listener, while nobody leaves.
LEMMA ListenerNext ==
  ASSUME Inv, Inv', InStep, Counts, NEW l \in Listener,
         \/ Subscribe(l) \/ Report(l) \/ RegisterFirst(l) \/ RegisterSecond(l) \/ RegisterAgain(l)
         \/ Receive(l) \/ WriteChunk(l)
  PROVE  InStep' /\ Counts'
<1>1. /\ UNCHANGED encoderVars /\ UNCHANGED <<current, chunkID, encoder, sent>>
      /\ \A m \in Listener \ {l} :
           /\ pc'[m] = pc[m] /\ lastID'[m] = lastID[m] /\ channel'[m] = channel[m]
           /\ next'[m] = next[m]
  BY DEF Subscribe, Report, RegisterFirst, RegisterSecond, RegisterAgain, Receive, WriteChunk, Move,
         encoderVars, Inv, Types
<1>2. Tokens(l) /\ Tokens(l)' /\ InPlace(l) /\ Consecutive(l) /\ pc[l] \in Place
      /\ channel[l] \in Seq(Chunk) /\ pc \in [Listener -> Place] /\ next[l] \in {0, 1}
  BY DEF Inv, TokensKept, Types, InStep
<1>3. \/ (UpToDate(l)' <=> UpToDate(l)) /\ (OneBehind(l)' <=> OneBehind(l))
      \/ Newest(l)' # Newest(l)
  BY <1>1 DEF UpToDate, OneBehind, Ahead, Other
<1>4. ASSUME \A m \in Listener \ {l}, i \in {0, 1} : Waits(m, i)' <=> Waits(m, i),
             InPlace(l)', Consecutive(l)', Began(l)' <=> Began(l), Newest(l)' = Newest(l)
      PROVE  InStep' /\ Got' = Got
  BY <1>1, <1>4, ListenerInStep
<1>5. CASE Subscribe(l) \/ Report(l) \/ WriteChunk(l)
  <2>1. UNCHANGED <<registered, channel, next, lastID>>
    BY <1>5 DEF Subscribe, Report, WriteChunk
  <2>2. \A m \in Listener, i \in {0, 1} : Waits(m, i)' <=> Waits(m, i)
    BY <2>1, NoRegistration
  <2>3. Consecutive(l)' /\ (Began(l)' <=> Began(l)) /\ Newest(l)' = Newest(l)
    BY <1>2, <2>1, SameNewest
  <2>4. pc'[l] # "register1"
    BY <1>2, <1>5 DEF Subscribe, Report, WriteChunk, Move
  <2>5. InStep' /\ Got' = Got
    BY <1>2, <1>3, <1>4, <2>2, <2>3, <2>4 DEF InPlace
  <2>6. CASE Subscribe(l)
    <3>1. Subscribed' = Subscribed \cup {l} /\ l \notin Subscribed
      BY <1>2, <2>6 DEF Subscribe, Move, Subscribed
    <3>2. IsFiniteSet(Subscribed') /\ Cardinality(Subscribed') = Cardinality(Subscribed) + 1
      BY <3>1, FS_AddElement DEF Counts
    <3>3. subscribers' = subscribers + 1
      BY <2>6 DEF Subscribe
    <3> QED BY <1>1, <2>5, <3>2, <3>3 DEF Counts
  <2>7. CASE Report(l) \/ WriteChunk(l)
    <3>1. Subscribed' = Subscribed /\ subscribers' = subscribers
      BY <1>2, <2>7 DEF Report, WriteChunk, Move, Subscribed
    <3> QED BY <1>1, <2>5, <3>1 DEF Counts
  <2> QED BY <1>5, <2>6, <2>7
<1>6. CASE RegisterFirst(l) \/ RegisterSecond(l) \/ RegisterAgain(l)
  <2>1. PICK i \in {0, 1} :
          /\ Register(l, i)
          /\ \/ pc[l] = "register0" /\ i = 0
             \/ pc[l] = "register1" /\ i = 1
             \/ pc[l] = "register" /\ i = next[l]
    BY <1>2, <1>6 DEF RegisterFirst, RegisterSecond, RegisterAgain, Move
  <2>2. UNCHANGED <<subscribers, channel, next, lastID>>
    BY <1>6 DEF RegisterFirst, RegisterSecond, RegisterAgain
  <2>3. ~Waits(l, i)
    BY <1>2, <2>1 DEF Tokens, None
  <2>4. \A m \in Listener, k \in {0, 1} : m # l \/ k # i => (Waits(m, k)' <=> Waits(m, k))
    BY <2>1, <2>3, AddedTo DEF Inv
  <2>5. Consecutive(l)' /\ (Began(l)' <=> Began(l)) /\ Newest(l)' = Newest(l)
    BY <1>2, <2>2, SameNewest
  <2>6. Began(l) => i = Newest(l).next /\ pc[l] # "register0"
    <3>1. pc[l] = "register0" => ~Began(l)
      BY <1>2 DEF Tokens, None, Began
    <3>2. pc[l] = "register1" /\ Began(l) => Newest(l).next = 1
      BY <1>2 DEF InPlace
    <3>3. pc[l] = "register" => Newest(l).next = next[l]
      BY <1>2 DEF Tokens, None, Newest
    <3> QED BY <2>1, <3>1, <3>2, <3>3
  <2>7. pc'[l] = "register1" => pc[l] = "register0"
    BY <1>2, <1>6 DEF RegisterFirst, RegisterSecond, RegisterAgain, Move
  <2>8. InPlace(l)'
    BY <1>2, <1>3, <2>4, <2>5, <2>6, <2>7 DEF InPlace
  <2>9. InStep' /\ Got' = Got
    BY <1>4, <2>4, <2>5, <2>8
  <2>10. Subscribed' = Subscribed
    BY <1>2, <1>6 DEF RegisterFirst, RegisterSecond, RegisterAgain, Move, Subscribed
  <2> QED BY <1>1, <2>2, <2>9, <2>10 DEF Counts
<1>7. CASE Receive(l)
  <2>1. /\ channel[l] # <<>> /\ channel' = [channel EXCEPT ![l] = Tail(@)]
        /\ pc[l] = "select" /\ pc'[l] \in {"write", "register"}
        /\ next'[l] = Head(channel[l]).next /\ lastID'[l] = Head(channel[l]).id
        /\ UNCHANGED <<registered, subscribers>>
    BY <1>2, <1>7 DEF Receive, Move, Inv, Types
  <2>2. \A m \in Listener, i \in {0, 1} : Waits(m, i)' <=> Waits(m, i)
    BY <2>1, NoRegistration
  <2>3. PICK s \in Seq(Chunk) : s = channel[l] /\ s # <<>> /\ channel'[l] = Tail(s)
    BY <1>2, <2>1 DEF Inv, Types
  <2>4. /\ s[1] = Head(s) /\ Tail(s) \in Seq(Chunk) /\ Len(Tail(s)) = Len(s) - 1
        /\ \A j \in DOMAIN Tail(s) : Tail(s)[j] = s[j + 1]
        /\ Head(s) = [id |-> Head(s).id, next |-> Head(s).next] /\ Head(s).id # NoChunk
    <3>1. /\ Head(s) \in Chunk /\ Tail(s) \in Seq(Chunk) /\ Len(Tail(s)) = Len(s) - 1
          /\ s[1] = Head(s) /\ \A j \in DOMAIN Tail(s) : Tail(s)[j] = s[j + 1]
      BY <2>3, HeadAndTail
    <3>2. \A c \in Chunk : c = [id |-> c.id, next |-> c.next] /\ c.id # NoChunk
      BY DistributorAssumption DEF Chunk, NoChunk
    <3> QED BY <3>1, <3>2
  <2>5. Len(s) \in {1, 2}
    <3>1. One(l) \/ Two(l)
      BY <1>2, <2>1 DEF Tokens
    <3> QED BY <2>3, <2>4, <3>1 DEF One, Two
  <2>6. Began(l) /\ Began(l)'
    BY <2>1, <2>3, <2>4 DEF Began
  <2>7. Newest(l)' = Newest(l) /\ Consecutive(l)'
    <3>1. CASE Len(s) = 1
      <4>1. Tail(s) = <<>>
        <5>1. PICK t \in Seq(Chunk) : t = Tail(s)
          BY <2>4
        <5>2. Len(t) = 0
          BY <2>4, <3>1, <5>1
        <5>3. t = <<>>
          BY <5>1, <5>2
        <5> QED BY <5>1, <5>3
      <4>2. Newest(l) = Head(s) /\ Newest(l)' = Head(s)
        BY <2>1, <2>3, <2>4, <3>1, <4>1 DEF Newest
      <4>3. channel'[l] = <<>> /\ Len(<<>>) = 0
        BY <2>3, <4>1
      <4>4. Consecutive(l)'
        BY <4>3 DEF Consecutive
      <4> QED BY <4>2, <4>4
    <3>2. CASE Len(s) = 2
      <4>1. Tail(s) # <<>> /\ Len(Tail(s)) = 1 /\ Tail(s)[1] = s[2]
        <5>1. PICK t \in Seq(Chunk) : t = Tail(s)
          BY <2>4
        <5>2. Len(t) = 1
          BY <2>4, <3>2, <5>1
        <5>3. t # <<>> /\ 1 \in DOMAIN t
          BY <5>2, LengthOne
        <5>4. 1 \in DOMAIN t /\ 1 + 1 = 2
          BY <5>3, SMT
        <5>5. t[1] = s[1 + 1]
          BY <2>4, <5>1, <5>4, Zenon
        <5> QED BY <5>1, <5>2, <5>3, <5>4, <5>5
      <4>2. Newest(l) = s[2] /\ Newest(l)' = s[2]
        BY <2>3, <3>2, <4>1 DEF Newest
      <4>3. s[2].id = s[1].id + 1
        BY <1>2, <2>3, <3>2 DEF Consecutive
      <4>4. channel'[l][1] = s[2] /\ Len(channel'[l]) = 1
        BY <2>3, <4>1
      <4>5. lastID'[l] = s[1].id
        BY <2>1, <2>3, <2>4
      <4>6. Consecutive(l)'
        BY <4>3, <4>4, <4>5 DEF Consecutive
      <4> QED BY <4>2, <4>6
    <3> QED BY <2>5, <3>1, <3>2
  <2>8. InPlace(l)'
    BY <1>2, <1>3, <2>1, <2>2, <2>6, <2>7 DEF InPlace
  <2>9. InStep' /\ Got' = Got
    BY <1>4, <2>2, <2>6, <2>7, <2>8
  <2>10. Subscribed' = Subscribed
    BY <1>1, <2>1 DEF Subscribed
  <2> QED BY <1>1, <2>1, <2>9, <2>10 DEF Counts
<1> QED BY <1>5, <1>6, <1>7

LEMMA StepNext == StepInv /\ [Next]_vars => StepInv'
<1> SUFFICES ASSUME StepInv, [Next]_vars PROVE StepInv'
  OBVIOUS
<1>1. Inv' /\ Inv /\ LeaversOnly
  BY InvNext DEF StepInv
<1>2. LeaversOnly' /\ (NobodyLeft' => NobodyLeft)
  <2>1. ASSUME NEW l \in Listener, Subscribe(l) \/ Report(l) \/ Handle(l) \/ Leave(l)
        PROVE  /\ \A m \in Listener \ {l} : pc'[m] = pc[m]
               /\ pc'[l] \in {"leaving", "drained", "gone"} =>
                    l \in Leaver \/ pc[l] \in {"leaving", "drained", "gone"}
               /\ pc[l] \in {"leaving", "drained", "gone"} =>
                    pc'[l] \in {"leaving", "drained", "gone"}
    BY <1>1, <2>1 DEF Inv, Types, Subscribe, Report, Handle, Leave, RegisterFirst, RegisterSecond,
         Receive, RegisterAgain, WriteChunk, DrainOne, Unsubscribe, Move
  <2>2. CASE Encode \/ UNCHANGED vars
    <3>1. pc' = pc
      BY <2>2 DEF Encode, Produce, CheckPending, CheckCount, Advance, Send, vars, listenerVars
    <3> QED BY <1>1, <3>1 DEF LeaversOnly, NobodyLeft
  <2> QED BY <1>1, <2>1, <2>2, DistributorAssumption DEF Next, LeaversOnly, NobodyLeft
<1>3. SUFFICES ASSUME NobodyLeft, NobodyLeft' PROVE InStep' /\ Counts'
  BY <1>1, <1>2 DEF StepInv
<1>4. InStep /\ Counts
  BY <1>3 DEF StepInv
<1>5. CASE Encode
  BY <1>1, <1>4, <1>5, EncoderInStep, SendInStep DEF Encode
<1>6. ASSUME NEW l \in Listener, Subscribe(l) \/ Report(l) \/ Handle(l) \/ Leave(l)
      PROVE  InStep' /\ Counts'
  <2>1. ~Leave(l) /\ ~DrainOne(l) /\ ~Unsubscribe(l)
    <3>1. pc[l] \notin {"leaving", "drained", "gone"}
      BY <1>1, <1>3 DEF LeaversOnly, NobodyLeft
    <3>2. Leave(l) => l \in Leaver /\ pc'[l] = "leaving"
      BY <1>1 DEF Leave, Move, Inv, Types
    <3> QED BY <1>3, <3>1, <3>2 DEF DrainOne, Unsubscribe, Move, NobodyLeft
  <2> QED BY <1>1, <1>4, <1>6, <2>1, ListenerNext DEF Handle
<1>7. CASE UNCHANGED vars
  <2>1. \A l \in Listener :
          /\ (Began(l)' <=> Began(l)) /\ Newest(l)' = Newest(l) /\ (Consecutive(l)' <=> Consecutive(l))
          /\ \A i \in {0, 1} : Waits(l, i)' <=> Waits(l, i)
    BY <1>7, SameNewest, NoRegistration DEF vars, listenerVars
  <2>2. InStep'
    BY <1>4, <1>7, <2>1 DEF vars, encoderVars, listenerVars, InStep, InPlace, UpToDate, OneBehind,
         Ahead, Other
  <2>3. Got' = Got /\ Subscribed' = Subscribed
    BY <1>7, <2>1 DEF vars, encoderVars, listenerVars, Got, Subscribed
  <2> QED BY <1>4, <1>7, <2>2, <2>3 DEF vars, encoderVars, Counts
<1> QED BY <1>5, <1>6, <1>7 DEF Next

\* A listener that receives a chunk receives the one after its last.
LEMMA NextIsConsecutive ==
  StepInv /\ [Next]_vars =>
    (NobodyLeft' => \A l \in Listener :
        lastID[l] # NoChunk => lastID'[l] \in {lastID[l], lastID[l] + 1})
<1> SUFFICES ASSUME StepInv, [Next]_vars, NobodyLeft', NEW l \in Listener, lastID[l] # NoChunk
             PROVE  lastID'[l] \in {lastID[l], lastID[l] + 1}
  OBVIOUS
<1>1. Inv /\ LeaversOnly /\ channel[l] \in Seq(Chunk)
  BY DEF StepInv, Inv, Types
<1>2. ASSUME Receive(l) PROVE lastID'[l] = lastID[l] + 1
  <2>1. NobodyLeft
    BY <1>1, <1>2 DEF NobodyLeft, Receive, Move, Inv, Types
  <2>2. Consecutive(l) /\ channel[l] # <<>>
    BY <1>2, <2>1 DEF StepInv, InStep, Receive
  <2>3. lastID'[l] = Head(channel[l]).id
    BY <1>1, <1>2 DEF Receive, Inv, Types
  <2>4. Head(channel[l]) = channel[l][1]
    BY <1>1, <2>2
  <2> QED BY <2>2, <2>3, <2>4 DEF Consecutive
<1>3. ASSUME NEW m \in Listener \ {l}, Receive(m) PROVE lastID'[l] = lastID[l]
  BY <1>1, <1>3 DEF Receive, Inv, Types
<1>4. CASE \A m \in Listener : ~Receive(m)
  <2>1. UNCHANGED lastID
    BY <1>4 DEF Next, Encode, Produce, CheckPending, CheckCount, Advance, Send, Handle, Subscribe,
         Report,
         RegisterFirst, RegisterSecond, RegisterAgain, WriteChunk, DrainOne, Unsubscribe, Leave,
         vars, listenerVars
  <2> QED BY <2>1
<1> QED BY <1>2, <1>3, <1>4

\* Until the first listener leaves, no listener misses a chunk: however many
\* connect, and however the encoder's counts interleave with that.
THEOREM NothingIsDropped == Spec => NoChunkDropped
<1>1. Init => StepInv
  BY InvInit, StepInit DEF StepInv
<1> QED BY <1>1, StepNext, NextIsConsecutive, PTL DEF Spec, NoChunkDropped

-----------------------------------------------------------------------------
(* Types: the count of subscribers is that of the audioHandlers that run.      *)

Running == {l \in Listener : pc[l] \notin {"new", "gone"}}

Counted ==
    /\ IsFiniteSet(Running) /\ subscribers = Cardinality(Running)
    /\ sent \in Nat

LEMMA CountedInit == Init => Counted
<1> SUFFICES ASSUME Init PROVE Counted
  OBVIOUS
<1>1. Running = {}
  BY DEF Init, Running
<1> QED BY <1>1, FS_EmptySet DEF Init, Counted

LEMMA CountedNext ==
  ASSUME Types, Counted, [Next]_vars
  PROVE  Counted'
<1>1. ASSUME Running' = Running, subscribers' = subscribers, sent' \in Nat
      PROVE  Counted'
  BY <1>1, Zenon DEF Counted
<1>2. CASE Encode
  <2>1. UNCHANGED <<pc, subscribers>>
    BY <1>2 DEF Encode, Produce, CheckPending, CheckCount, Advance, Send, listenerVars
  <2>2. sent' \in Nat
    BY <1>2 DEF Encode, Produce, CheckPending, CheckCount, Advance, Send, Counted
  <2> QED BY <1>1, <2>1, <2>2 DEF Running
<1>3. ASSUME NEW l \in Listener, Subscribe(l)
      PROVE  Counted'
  <2>1. /\ pc[l] = "new" /\ pc' = [pc EXCEPT ![l] = "report"]
        /\ subscribers' = subscribers + 1 /\ sent' = sent
    BY <1>3 DEF Subscribe, Move, encoderVars
  <2>2. Running' = Running \cup {l} /\ l \notin Running
    BY <2>1 DEF Running, Types
  <2>3. IsFiniteSet(Running') /\ Cardinality(Running') = Cardinality(Running) + 1
    BY <2>2, FS_AddElement, Zenon DEF Counted
  <2> QED BY <2>1, <2>3 DEF Counted
<1>4. ASSUME NEW l \in Listener, Unsubscribe(l)
      PROVE  Counted'
  <2>1. /\ pc[l] = "drained" /\ pc' = [pc EXCEPT ![l] = "gone"]
        /\ subscribers' = subscribers - 1 /\ sent' = sent
    BY <1>4 DEF Unsubscribe, Move, encoderVars
  <2>2. Running' = Running \ {l} /\ l \in Running
    BY <2>1 DEF Running, Types
  <2>3. IsFiniteSet(Running') /\ Cardinality(Running') = Cardinality(Running) - 1
    BY <2>2, FS_RemoveElement, Zenon DEF Counted
  <2> QED BY <2>1, <2>3 DEF Counted
<1>5. ASSUME NEW l \in Listener,
             \/ Report(l) \/ RegisterFirst(l) \/ RegisterSecond(l) \/ RegisterAgain(l) \/ Receive(l)
             \/ WriteChunk(l) \/ Leave(l) \/ DrainOne(l)
      PROVE  Counted'
  <2>1. UNCHANGED <<subscribers, sent>>
    BY <1>5 DEF Report, RegisterFirst, RegisterSecond, RegisterAgain, Receive, WriteChunk, Leave, DrainOne,
       encoderVars
  <2>2. PICK from, to : Move(l, from, to) /\ {from, to} \cap {"new", "gone"} = {}
    BY <1>5 DEF Report, RegisterFirst, RegisterSecond, RegisterAgain, Receive, WriteChunk, Leave, DrainOne
  <2>3. Running' = Running
    BY <2>2 DEF Move, Running, Types
  <2> QED BY <1>1, <2>1, <2>3 DEF Counted
<1>6. CASE UNCHANGED vars
  BY <1>6 DEF vars, encoderVars, listenerVars, Counted, Running
<1> QED BY <1>2, <1>3, <1>4, <1>5, <1>6 DEF Next, Handle

\* The number of subscribers never falls below zero, chunks are numbered and name
\* a registration channel, and the channels hold listeners and chunks.
THEOREM TypeCorrect == Spec => []TypeOK
<1>1. Inv /\ Counted => TypeOK
  <2> SUFFICES ASSUME Inv, Counted PROVE TypeOK
    OBVIOUS
  <2>1. subscribers \in Nat /\ sent \in Nat
    BY FS_CardinalityType, Zenon DEF Counted
  <2> QED BY <2>1 DEF Inv, Types, Place, TypeOK
<1>2. Init => Inv /\ Counted
  BY InvInit, CountedInit
<1>3. Inv /\ Counted /\ [Next]_vars => (Inv /\ Counted)'
  BY InvNext, CountedNext DEF Inv
<1> QED BY <1>1, <1>2, <1>3, PTL DEF Spec
=============================================================================
