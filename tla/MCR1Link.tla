------------------------------ MODULE MCR1Link ------------------------------
(***************************************************************************)
(* The link of the two AVRs of R1 for TLC.                                 *)
(***************************************************************************)
EXTENDS R1Link

\* Nothing on the slave looks at the value of a byte from the host, so one
\* sequence of distinct bytes stands for all of them.
FromHost == <<65, 66, 67>>

\* Bounds of the exploration: the host sends FromHost, and once an exchange has
\* met a slave not done with a slow request, nothing further is explored: no
\* property says anything of what follows.
Explored ==
  /\ ~late
  /\ accepted' = SubSeq(FromHost, 1, Len(accepted'))
=============================================================================
