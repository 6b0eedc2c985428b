----------------------------- MODULE RingQueue -----------------------------
(***************************************************************************)
(* The byte queue of the slave AVR (R1/firmware/slave/Queue.c): a ring of  *)
(* Size slots with a head and a tail index, one slot of which is always    *)
(* left empty.  Each C function is one action: enqueue runs inside an      *)
(* interrupt handler, and dequeue runs with interrupts disabled, so        *)
(* neither is ever interrupted by the other.                               *)
(*                                                                         *)
(* "& QUEUE_MASK" is written "% Size", which is the same thing for the     *)
(* sizes Queue.h allows (a power of two); no fact below needs more of Size *)
(* than that it is positive.                                               *)
(***************************************************************************)
EXTENDS Naturals, Sequences

CONSTANTS
  Size,       \* QUEUE_BUFFER_SIZE
  Data,       \* the bytes that are queued
  NoData      \* 0xff, returned by dequeue() on an empty queue

ASSUME SizeAssumption == Size \in Nat \ {0}

VARIABLES head, tail, data, overflowed, max_length,
          got         \* the value the last dequeue() returned

queueVars == <<head, tail, data, overflowed, max_length, got>>

Index == 0 .. Size - 1

next_Queue_index(i) == (i + 1) % Size

queue_capacity == Size - 1

\* queue_length() as a function of the two indices.
length(h, t) == (Size + h - t) % Size

queue_length == length(head, tail)

init_queue ==
  /\ head = 0
  /\ tail = 0
  /\ max_length = 0
  /\ overflowed = FALSE
  /\ data \in [Index -> Data]      \* init_queue() leaves the slots as they were
  /\ got = NoData

\* Mutant of IsFull: no check, so that a full ring passes for an empty one.
NeverFull == FALSE

IsFull == next_Queue_index(head) = tail

enqueue(d) ==
  \/ /\ IsFull
     /\ overflowed' = TRUE
     /\ UNCHANGED <<head, tail, data, max_length, got>>
  \/ /\ ~IsFull
     /\ data' = [data EXCEPT ![head] = d]
     /\ head' = next_Queue_index(head)
     /\ LET len == length(head', tail)
        IN  max_length' = IF max_length < len THEN len ELSE max_length
     /\ UNCHANGED <<tail, overflowed, got>>

dequeue ==
  /\ overflowed' = FALSE
  /\ \/ tail = head /\ got' = NoData /\ UNCHANGED tail
     \/ tail # head /\ got' = data[tail] /\ tail' = next_Queue_index(tail)
  /\ UNCHANGED <<head, data, max_length>>

QueueNext == dequeue \/ \E d \in Data : enqueue(d)

QueueSpec == init_queue /\ [][QueueNext]_queueVars

-----------------------------------------------------------------------------

\* The two indices stay inside the buffer and the statistics within range.
QueueTypeOK ==
  /\ head \in Index
  /\ tail \in Index
  /\ data \in [Index -> Data]
  /\ overflowed \in BOOLEAN
  /\ max_length \in 0 .. queue_capacity
  /\ got \in Data \union {NoData}

\* The bytes between tail index t and head index h of buffer a, oldest first.
cells(h, t, a) == [k \in 1 .. length(h, t) |-> a[(t + k - 1) % Size]]

Contents == cells(head, tail, data)

Abstract == INSTANCE BoundedFifo
              WITH contents <- Contents, Capacity <- queue_capacity

\* The ring implements the abstract queue: the index arithmetic of Queue.c
\* (wrap-around, the slot left empty, length by subtraction) never loses,
\* repeats or reorders a byte, a full ring never passes for an empty one, and
\* the overflow flag and high-water mark are what the abstract queue says.
ImplementsFifo == Abstract!Spec

=============================================================================
