------------------------------- MODULE MCFpgaSpi -------------------------------
(* Bytes of three bits for FpgaSpi; neither is the other's nor its own mirror.  *)
EXTENDS FpgaSpi

MCPayload == {<<0, 1, 1>>, <<1, 0, 0>>}
================================================================================
