------------------------------- MODULE Queue -------------------------------
(***************************************************************************)
(* The blocking queue of src/queue/queue.go, at the grain of its locks.    *)
(*                                                                         *)
(* The queue has a mutex mux that covers every access to the list and a    *)
(* condition variable enqueued with a mutex L of its own.  Pop and Front   *)
(* hold L from their size check to their return, except inside Wait; Push  *)
(* and Remove never take L.  A critical section of mux is one step (here   *)
(* no callback is set, as on the server's cacheQueue; module TrackQueue    *)
(* has the playQueue with its callbacks).                                  *)
(***************************************************************************)
EXTENDS Naturals, Sequences, SequencesExt, FiniteSets

CONSTANTS Pusher,     \* goroutines that call Push
          Consumer,   \* goroutines that call Pop or Front
          Remover,    \* goroutines that call Remove
          Value,      \* what is pushed
          NoValue,    \* a call that has returned nothing yet
          NoOne,      \* L is free
          MaxLen      \* bound: nothing is pushed on a queue of this length

ASSUME QueueAssumption ==
    /\ MaxLen \in Nat
    /\ NoValue \notin Value
    /\ NoOne \notin Consumer
    /\ Pusher \cap Consumer = {}

VARIABLES queue,      \* the list, front first
          condL,      \* which consumer holds enqueued.L
          waiting,    \* consumers on the notify list of enqueued
          pc,         \* where each pusher and consumer is in its call
          call,       \* the operation a consumer is in
          obtained,   \* what each consumer's last call returned
          removed     \* history: some Remove has taken an element

vars == <<queue, condL, waiting, pc, call, obtained, removed>>

Thread == Pusher \cup Consumer

PusherPC   == {"idle", "signal"}
ConsumerPC == {"idle", "check", "wait", "parked", "relock", "take", "panicked"}

TypeOK ==
    /\ queue \in Seq(Value)
    /\ condL \in Consumer \cup {NoOne}
    /\ waiting \subseteq Consumer
    /\ pc \in [Thread -> PusherPC \cup ConsumerPC]
    /\ call \in [Consumer -> {"Pop", "Front"}]
    /\ obtained \in [Consumer -> Value \cup {NoValue}]
    /\ removed \in BOOLEAN

\* New: an empty list, nobody inside.
Init ==
    /\ queue = <<>>
    /\ condL = NoOne
    /\ waiting = {}
    /\ pc = [t \in Thread |-> "idle"]
    /\ call = [c \in Consumer |-> "Pop"]
    /\ obtained = [c \in Consumer |-> NoValue]
    /\ removed = FALSE

Goto(t, label) == pc' = [pc EXCEPT ![t] = label]

-----------------------------------------------------------------------------
\* Variant of Push: PushFront in place of PushBack.
PushFront(p) ==
    /\ pc[p] = "idle"
    /\ Len(queue) < MaxLen
    /\ \E v \in Value : queue' = <<v>> \o queue
    /\ Goto(p, "signal")
    /\ UNCHANGED <<condL, waiting, call, obtained, removed>>

\* Push, up to c.mux.Unlock(): the element is in the list and visible.
Push(p) ==
    /\ pc[p] = "idle"
    /\ Len(queue) < MaxLen
    /\ \E v \in Value : queue' = Append(queue, v)
    /\ Goto(p, "signal")
    /\ UNCHANGED <<condL, waiting, call, obtained, removed>>

\* Variant of Signal: Push does not signal.
SignalNobody(p) ==
    /\ pc[p] = "signal"
    /\ Goto(p, "idle")
    /\ UNCHANGED <<queue, condL, waiting, call, obtained, removed>>

\* Push's c.enqueued.Signal(), taken without L: it wakes one goroutine that
\* is on the notify list at this moment, if there is one.
Signal(p) ==
    /\ pc[p] = "signal"
    /\ \/ /\ waiting = {}
          /\ Goto(p, "idle")
          /\ UNCHANGED waiting
       \/ \E c \in waiting :
            /\ waiting' = waiting \ {c}
            /\ pc' = [pc EXCEPT ![p] = "idle", ![c] = "relock"]
    /\ UNCHANGED <<queue, condL, call, obtained, removed>>

\* Remove, whole: the first element that satisfies the predicate goes.  (When
\* none does it returns nil and changes nothing.)
RemoveMatch ==
    /\ \E i \in DOMAIN queue :
         /\ \A j \in 1 .. i - 1 : queue[j] # queue[i]
         /\ queue' = RemoveAt(queue, i)
    /\ removed' = TRUE
    /\ UNCHANGED <<condL, waiting, pc, call, obtained>>

\* Pop and Front begin by taking L.
Enter(c, op) ==
    /\ pc[c] = "idle"
    /\ condL = NoOne
    /\ condL' = c
    /\ call' = [call EXCEPT ![c] = op]
    /\ Goto(c, "check")
    /\ UNCHANGED <<queue, waiting, obtained, removed>>

\* for c.Size() <= 0: Size takes and releases mux on its own, so the answer
\* is old as soon as it is there.
CheckSize(c) ==
    /\ pc[c] = "check"
    /\ Goto(c, IF queue = <<>> THEN "wait" ELSE "take")
    /\ UNCHANGED <<queue, condL, waiting, call, obtained, removed>>

\* c.enqueued.Wait(): join the notify list, release L, park.
Wait(c) ==
    /\ pc[c] = "wait"
    /\ waiting' = waiting \cup {c}
    /\ condL' = NoOne
    /\ Goto(c, "parked")
    /\ UNCHANGED <<queue, call, obtained, removed>>

\* Variant of Relock: an if around Wait in place of the for.
RelockOnce(c) ==
    /\ pc[c] = "relock"
    /\ condL = NoOne
    /\ condL' = c
    /\ Goto(c, "take")
    /\ UNCHANGED <<queue, waiting, call, obtained, removed>>

\* Wait takes L again before it returns to the for loop.
Relock(c) ==
    /\ pc[c] = "relock"
    /\ condL = NoOne
    /\ condL' = c
    /\ Goto(c, "check")
    /\ UNCHANGED <<queue, waiting, call, obtained, removed>>

\* The critical section of mux in Pop: take the front element and return it.
TakeFirst(c) ==
    /\ pc[c] = "take"
    /\ call[c] = "Pop"
    /\ queue # <<>>
    /\ queue' = Tail(queue)
    /\ obtained' = [obtained EXCEPT ![c] = Head(queue)]
    /\ condL' = NoOne
    /\ Goto(c, "idle")
    /\ UNCHANGED <<waiting, call, removed>>

\* The critical section of mux in Front: the element stays.
ReadFirst(c) ==
    /\ pc[c] = "take"
    /\ call[c] = "Front"
    /\ queue # <<>>
    /\ obtained' = [obtained EXCEPT ![c] = Head(queue)]
    /\ condL' = NoOne
    /\ Goto(c, "idle")
    /\ UNCHANGED <<queue, waiting, call, removed>>

\* Variants of EmptyPanic: nil is returned as if it were an element; the unlock of
\* L is not deferred and is skipped by the panic.
EmptyNil(c) ==
    /\ pc[c] = "take"
    /\ queue = <<>>
    /\ obtained' = [obtained EXCEPT ![c] = "nil"]
    /\ condL' = NoOne
    /\ Goto(c, "idle")
    /\ UNCHANGED <<queue, waiting, call, removed>>

EmptyPanicHoldingL(c) ==
    /\ pc[c] = "take"
    /\ queue = <<>>
    /\ Goto(c, "panicked")
    /\ UNCHANGED <<queue, condL, waiting, call, obtained, removed>>

\* queue.Front() is nil: Pop's list.Remove and Front's ele.Value dereference
\* it.  The deferred unlocks run and the panic leaves the call.
EmptyPanic(c) ==
    /\ pc[c] = "take"
    /\ queue = <<>>
    /\ condL' = NoOne
    /\ Goto(c, "panicked")
    /\ UNCHANGED <<queue, waiting, call, obtained, removed>>

Finish(c) == TakeFirst(c) \/ ReadFirst(c) \/ EmptyPanic(c)

Consume(c) == CheckSize(c) \/ Wait(c) \/ Relock(c) \/ Finish(c)

Next ==
    \/ \E p \in Pusher : Push(p) \/ Signal(p)
    \/ \E c \in Consumer : Consume(c) \/ \E op \in {"Pop", "Front"} : Enter(c, op)
    \/ \E r \in Remover : RemoveMatch

Spec == Init /\ [][Next]_vars

\* A call that has begun goes on whenever it can: the Go scheduler runs every
\* runnable goroutine.  Nobody is obliged to push, to pop or to remove.
Fairness ==
    /\ \A p \in Pusher : WF_vars(Signal(p))
    /\ \A c \in Consumer : WF_vars(Consume(c))

FairSpec == Spec /\ Fairness

-----------------------------------------------------------------------------
(* Properties. *)

\* A consumer that has seen the queue non-empty still finds an element when it
\* gets to mux, however many consumers there are: L is held in between and only
\* consumers shorten the list (Pop and Front dereference the front element
\* without a test).  The first Remove ends it: Remove does not take L.
NoEmptyTake ==
    ~removed =>
        \A c \in Consumer :
            /\ pc[c] # "panicked"
            /\ pc[c] = "take" => queue # <<>>

\* The for loop around Wait and the signalling protocol, seen from outside, are
\* the abstract queue: consumers obtain front elements only, once per Pop.
Fifo == INSTANCE FifoQueue WITH items <- queue
ImplementsFifo == Fifo!FifoSpec

\* enqueued.L is a lock and the notify list is exact: between its size check
\* and the end of its call, outside Wait, a consumer is the one that holds L.
InsideL(c) == pc[c] \in {"check", "wait", "take"}
LockDiscipline ==
    \A c \in Consumer :
        /\ InsideL(c) <=> condL = c
        /\ c \in waiting <=> pc[c] = "parked"

\* While a Push has its signal still to send, the consumers cannot all sleep on
\* a non-empty queue: one of them returns, unless the list is emptied first.
SignalServesSomebody ==
    /\ \E c \in Consumer : pc[c] = "parked"
    /\ \E p \in Pusher : pc[p] = "signal"
    /\ queue # <<>>
    ~> (\E c \in Consumer : pc[c] = "idle") \/ queue = <<>>

\* "If the queue is empty, Pop waits for a new element to be enqueued, removes
\* it and returns the value": a Pop does not sleep on a queue that stays
\* non-empty.
NonEmptyIsServed ==
    \A c \in Consumer :
        (pc[c] # "idle" /\ queue # <<>>) ~> (pc[c] = "idle" \/ queue = <<>>)
=============================================================================
