---------------------------- MODULE BoundedFifo ----------------------------
(***************************************************************************)
(* What a byte queue of the firmware promises its users, independently of  *)
(* how the bytes are stored: bytes come out in the order in which they     *)
(* went in, a byte that arrives while the queue is full is dropped and     *)
(* flagged, the flag is lowered by the next removal, and the largest       *)
(* length that ever occurred is remembered.                                *)
(***************************************************************************)
EXTENDS Naturals, Sequences

CONSTANTS
  Data,       \* the bytes that may be queued
  NoData,     \* the value a removal from the empty queue returns (0xff)
  Capacity    \* how many bytes the queue can hold, a natural number

VARIABLES
  contents,   \* the queued bytes, oldest first
  overflowed, \* has a byte been dropped since the last removal?
  max_length, \* the largest length so far
  got         \* what the last removal returned

vars == <<contents, overflowed, max_length, got>>

Init ==
  /\ contents = << >>
  /\ overflowed = FALSE
  /\ max_length = 0
  /\ got = NoData

Put(d) ==
  \/ /\ Len(contents) < Capacity
     /\ contents' = Append(contents, d)
     /\ max_length' = IF max_length < Len(contents) + 1
                        THEN Len(contents) + 1 ELSE max_length
     /\ UNCHANGED <<overflowed, got>>
  \/ /\ Len(contents) = Capacity
     /\ overflowed' = TRUE
     /\ UNCHANGED <<contents, max_length, got>>

Get ==
  /\ overflowed' = FALSE
  /\ UNCHANGED max_length
  /\ \/ contents = << >> /\ got' = NoData /\ UNCHANGED contents
     \/ contents # << >> /\ got' = Head(contents) /\ contents' = Tail(contents)

Next == Get \/ \E d \in Data : Put(d)

Spec == Init /\ [][Next]_vars

=============================================================================
