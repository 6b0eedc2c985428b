-------------------------------- MODULE ByteSwap -------------------------------
(* What an SPI exchange promises the program that asks for it: its byte and the *)
(* device's change places, whole and once, before the program takes the answer. *)
(* A reset may give an exchange up.                                             *)

CONSTANTS Bytes,
          Empty,        \* what a reset leaves
          Nothing       \* received and taken before the first exchange

VARIABLES state,        \* "idle", "loaded" or "swapped"
          ours,         \* the byte on the program's side
          answer,       \* the byte the device will answer with
          received,     \* what the device got last
          taken         \* what the program took last

vars == <<state, ours, answer, received, taken>>

Init ==
    /\ state = "idle" /\ ours \in Bytes /\ answer \in Bytes
    /\ received = Nothing /\ taken = Nothing

\* The device has another answer, for it was selected anew.
Prepare ==
    /\ state = "idle"
    /\ answer' \in Bytes
    /\ UNCHANGED <<state, ours, received, taken>>

Load ==
    /\ state = "idle"
    /\ state' = "loaded" /\ ours' \in Bytes
    /\ UNCHANGED <<answer, received, taken>>

Exchange ==
    /\ state = "loaded"
    /\ state' = "swapped" /\ ours' = answer /\ received' = ours /\ answer' \in Bytes
    /\ UNCHANGED taken

Take ==
    /\ state = "swapped"
    /\ state' = "idle" /\ taken' = ours
    /\ UNCHANGED <<ours, answer, received>>

GiveUp ==
    /\ state' = "idle" /\ ours' = Empty
    /\ UNCHANGED <<answer, received, taken>>

Next == Prepare \/ Load \/ Exchange \/ Take \/ GiveUp

Spec == Init /\ [][Next]_vars
================================================================================
