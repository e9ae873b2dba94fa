----------------------------- MODULE FifoQueue -----------------------------
(***************************************************************************)
(* What a caller is promised by the "thread-safe FIFO queue" of            *)
(* src/queue/queue.go: every operation happens at one instant, consumers   *)
(* only ever obtain the element that is at the front at that instant, and  *)
(* no call on the queue fails.  No lock, condition variable or program     *)
(* counter appears here; module Queue has them and implements this one.    *)
(***************************************************************************)
EXTENDS Sequences, SequencesExt

CONSTANTS Consumer,   \* goroutines that call Pop or Front
          Value,      \* what the queue holds
          NoValue     \* nothing obtained yet

VARIABLES items,      \* the elements, oldest first
          obtained    \* the last value each consumer's call returned

fifoVars == <<items, obtained>>

FifoInit ==
    /\ items = <<>>
    /\ obtained = [c \in Consumer |-> NoValue]

\* An element joins the back.
Put ==
    /\ \E v \in Value : items' = Append(items, v)
    /\ UNCHANGED obtained

\* A consumer obtains the front element and it leaves the queue.
Take(c) ==
    /\ items # <<>>
    /\ items' = Tail(items)
    /\ obtained' = [obtained EXCEPT ![c] = Head(items)]

\* A consumer obtains the front element and it stays.
Peek(c) ==
    /\ items # <<>>
    /\ obtained' = [obtained EXCEPT ![c] = Head(items)]
    /\ UNCHANGED items

\* One element leaves from any place; the order of the rest is kept.
Drop ==
    /\ \E i \in DOMAIN items : items' = RemoveAt(items, i)
    /\ UNCHANGED obtained

FifoNext == Put \/ Drop \/ \E c \in Consumer : Take(c) \/ Peek(c)

FifoSpec == FifoInit /\ [][FifoNext]_fifoVars
=============================================================================
