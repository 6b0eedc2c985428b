----------------------------- MODULE MCFpgaUart -----------------------------
(***************************************************************************)
(* FpgaUart with frames of two data bits.                                  *)
(***************************************************************************)
EXTENDS FpgaUart

\* The two bytes whose bits differ.
MCPayload == {b \in [0 .. 1 -> BOOLEAN] : b[0] # b[1]}

=============================================================================
