---------------------------- MODULE QueueProofs ----------------------------
(***************************************************************************)
(* Theorems about module Queue, for any sets of goroutines and values and  *)
(* any bound on the length.                                                *)
(***************************************************************************)
EXTENDS Queue, TLAPS

\* Removing one element of a sequence leaves a sequence over the same set.
LEMMA RemoveAtType ==
    ASSUME NEW S, NEW s \in Seq(S), NEW i \in DOMAIN s
    PROVE  RemoveAt(s, i) \in Seq(S)
BY DEF RemoveAt

\* Every variable keeps its type: the fields of Queue and the places a call can
\* be in.
THEOREM TypeCorrect == Spec => []TypeOK
<1>1. Init => TypeOK
  <2>1. Init => removed \in BOOLEAN
    BY DEF Init
  <2>2. Init => TypeOK!1 /\ TypeOK!2 /\ TypeOK!3 /\ TypeOK!4 /\ TypeOK!5 /\ TypeOK!6
    BY QueueAssumption DEF Init, TypeOK, Thread, PusherPC
  <2> QED
    BY <2>1, <2>2 DEF TypeOK
<1>2. TypeOK /\ [Next]_vars => TypeOK'
  <2> SUFFICES ASSUME TypeOK, [Next]_vars PROVE TypeOK'
    OBVIOUS
  <2> USE QueueAssumption DEF TypeOK, Thread, PusherPC, ConsumerPC, Goto
  <2>1. ASSUME NEW p \in Pusher, Push(p) PROVE TypeOK'
    BY <2>1 DEF Push
  <2>2. ASSUME NEW p \in Pusher, Signal(p) PROVE TypeOK'
    BY <2>2 DEF Signal
  <2>3. ASSUME NEW c \in Consumer, CheckSize(c) PROVE TypeOK'
    BY <2>3 DEF CheckSize
  <2>4. ASSUME NEW c \in Consumer, Wait(c) PROVE TypeOK'
    BY <2>4 DEF Wait
  <2>5. ASSUME NEW c \in Consumer, Relock(c) PROVE TypeOK'
    BY <2>5 DEF Relock
  <2>6. ASSUME NEW c \in Consumer, TakeFirst(c) PROVE TypeOK'
    BY <2>6 DEF TakeFirst
  <2>7. ASSUME NEW c \in Consumer, ReadFirst(c) PROVE TypeOK'
    BY <2>7 DEF ReadFirst
  <2>8. ASSUME NEW c \in Consumer, EmptyPanic(c) PROVE TypeOK'
    BY <2>8 DEF EmptyPanic
  <2>9. ASSUME NEW c \in Consumer, NEW op \in {"Pop", "Front"}, Enter(c, op) PROVE TypeOK'
    BY <2>9 DEF Enter
  <2>10. CASE RemoveMatch
    BY <2>10, RemoveAtType DEF RemoveMatch
  <2>11. CASE UNCHANGED vars
    BY <2>11 DEF vars
  <2> QED
    BY <2>1, <2>2, <2>3, <2>4, <2>5, <2>6, <2>7, <2>8, <2>9, <2>10, <2>11
       DEF Next, Consume, Finish
<1> QED
  BY <1>1, <1>2, PTL DEF Spec

\* enqueued.L is held by exactly the consumer between its size check and the end
\* of its call, and the notify list holds exactly the consumers that are parked.
THEOREM LocksHeld == Spec => []LockDiscipline
<1>1. Init => LockDiscipline
  BY QueueAssumption DEF Init, LockDiscipline, InsideL, Thread
<1>2. TypeOK /\ LockDiscipline /\ [Next]_vars => LockDiscipline'
  <2> SUFFICES ASSUME TypeOK, LockDiscipline, [Next]_vars PROVE LockDiscipline'
    OBVIOUS
  <2> USE QueueAssumption
      DEF TypeOK, LockDiscipline, InsideL, Thread, PusherPC, ConsumerPC, Goto
  <2>1. ASSUME NEW p \in Pusher, Push(p) PROVE LockDiscipline'
    BY <2>1 DEF Push
  <2>2. ASSUME NEW p \in Pusher, Signal(p) PROVE LockDiscipline'
    <3>1. CASE waiting = {} /\ pc' = [pc EXCEPT ![p] = "idle"] /\ UNCHANGED waiting
      BY <2>2, <3>1 DEF Signal
    <3>2. CASE \E c \in waiting : /\ waiting' = waiting \ {c}
                                 /\ pc' = [pc EXCEPT ![p] = "idle", ![c] = "relock"]
      BY <2>2, <3>2 DEF Signal
    <3> QED
      BY <2>2, <3>1, <3>2 DEF Signal
  <2>3. ASSUME NEW c \in Consumer, CheckSize(c) PROVE LockDiscipline'
    BY <2>3 DEF CheckSize
  <2>4. ASSUME NEW c \in Consumer, Wait(c) PROVE LockDiscipline'
    BY <2>4 DEF Wait
  <2>5. ASSUME NEW c \in Consumer, Relock(c) PROVE LockDiscipline'
    BY <2>5 DEF Relock
  <2>6. ASSUME NEW c \in Consumer, Finish(c) PROVE LockDiscipline'
    BY <2>6 DEF Finish, TakeFirst, ReadFirst, EmptyPanic
  <2>7. ASSUME NEW c \in Consumer, NEW op \in {"Pop", "Front"}, Enter(c, op)
        PROVE  LockDiscipline'
    BY <2>7 DEF Enter
  <2>8. CASE RemoveMatch
    BY <2>8 DEF RemoveMatch
  <2>9. CASE UNCHANGED vars
    BY <2>9 DEF vars
  <2> QED
    BY <2>1, <2>2, <2>3, <2>4, <2>5, <2>6, <2>7, <2>8, <2>9 DEF Next, Consume
<1> QED
  BY <1>1, <1>2, TypeCorrect, PTL DEF Spec

\* With any number of consumers and until somebody calls Remove, a consumer that
\* has seen the queue non-empty finds an element in it: it holds L until it takes
\* one, so that no other consumer is past its size check.
THEOREM NeverEmpty == Spec => []NoEmptyTake
<1>1. Init => NoEmptyTake
  BY QueueAssumption DEF Init, NoEmptyTake, Thread
<1>2. TypeOK /\ LockDiscipline /\ NoEmptyTake /\ [Next]_vars => NoEmptyTake'
  <2> SUFFICES ASSUME TypeOK, LockDiscipline, NoEmptyTake, [Next]_vars PROVE NoEmptyTake'
    OBVIOUS
  <2> USE QueueAssumption DEF TypeOK, NoEmptyTake, Thread, PusherPC, ConsumerPC, Goto
  <2>1. ASSUME NEW p \in Pusher, Push(p) PROVE NoEmptyTake'
    <3>1. queue' # <<>>
      BY <2>1 DEF Push
    <3> QED
      BY <2>1, <3>1 DEF Push
  <2>2. ASSUME NEW p \in Pusher, Signal(p) PROVE NoEmptyTake'
    BY <2>2 DEF Signal
  <2>3. ASSUME NEW c \in Consumer, CheckSize(c) PROVE NoEmptyTake'
    BY <2>3 DEF CheckSize
  <2>4. ASSUME NEW c \in Consumer, Wait(c) PROVE NoEmptyTake'
    BY <2>4 DEF Wait
  <2>5. ASSUME NEW c \in Consumer, Relock(c) PROVE NoEmptyTake'
    BY <2>5 DEF Relock
  <2>6. ASSUME NEW c \in Consumer, TakeFirst(c) PROVE NoEmptyTake'
    <3>1. \A d \in Consumer \ {c} : pc[d] # "take"
      BY <2>6 DEF TakeFirst, LockDiscipline, InsideL
    <3> QED
      BY <2>6, <3>1 DEF TakeFirst
  <2>7. ASSUME NEW c \in Consumer, ReadFirst(c) PROVE NoEmptyTake'
    BY <2>7 DEF ReadFirst
  <2>8. ASSUME NEW c \in Consumer, EmptyPanic(c) PROVE NoEmptyTake'
    BY <2>8 DEF EmptyPanic
  <2>9. ASSUME NEW c \in Consumer, NEW op \in {"Pop", "Front"}, Enter(c, op)
        PROVE  NoEmptyTake'
    BY <2>9 DEF Enter
  <2>10. CASE RemoveMatch
    BY <2>10 DEF RemoveMatch
  <2>11. CASE UNCHANGED vars
    BY <2>11 DEF vars
  <2> QED
    BY <2>1, <2>2, <2>3, <2>4, <2>5, <2>6, <2>7, <2>8, <2>9, <2>10, <2>11
       DEF Next, Consume, Finish
<1> QED
  BY <1>1, <1>2, TypeCorrect, LocksHeld, PTL DEF Spec

\* The queue with its locks implements the abstract one: every step is one of the
\* abstract queue's operations or leaves its two variables alone.
THEOREM Refinement == Spec => ImplementsFifo
<1>1. Init => Fifo!FifoInit
  BY DEF Init, Fifo!FifoInit
<1>2. [Next]_vars => [Fifo!FifoNext]_(Fifo!fifoVars)
  <2> SUFFICES ASSUME [Next]_vars PROVE [Fifo!FifoNext]_(Fifo!fifoVars)
    OBVIOUS
  <2> USE DEF Fifo!FifoNext, Fifo!fifoVars
  <2>1. ASSUME NEW p \in Pusher, Push(p) PROVE Fifo!Put
    BY <2>1 DEF Push, Fifo!Put
  <2>2. ASSUME NEW p \in Pusher, Signal(p) PROVE UNCHANGED Fifo!fifoVars
    BY <2>2 DEF Signal
  <2>3. ASSUME NEW c \in Consumer, CheckSize(c) \/ Wait(c) \/ Relock(c) \/ EmptyPanic(c)
        PROVE  UNCHANGED Fifo!fifoVars
    BY <2>3 DEF CheckSize, Wait, Relock, EmptyPanic
  <2>4. ASSUME NEW c \in Consumer, TakeFirst(c) PROVE Fifo!Take(c)
    BY <2>4 DEF TakeFirst, Fifo!Take
  <2>5. ASSUME NEW c \in Consumer, ReadFirst(c) PROVE Fifo!Peek(c)
    BY <2>5 DEF ReadFirst, Fifo!Peek
  <2>6. ASSUME NEW c \in Consumer, NEW op \in {"Pop", "Front"}, Enter(c, op)
        PROVE  UNCHANGED Fifo!fifoVars
    BY <2>6 DEF Enter
  <2>7. ASSUME RemoveMatch PROVE Fifo!Drop
    BY <2>7 DEF RemoveMatch, Fifo!Drop, RemoveAt, Fifo!RemoveAt
  <2>8. CASE UNCHANGED vars
    BY <2>8 DEF vars
  <2> QED
    BY <2>1, <2>2, <2>3, <2>4, <2>5, <2>6, <2>7, <2>8 DEF Next, Consume, Finish
<1> QED
  BY <1>1, <1>2, PTL DEF Spec, ImplementsFifo, Fifo!FifoSpec
=============================================================================
