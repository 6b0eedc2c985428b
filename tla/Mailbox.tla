------------------------------ MODULE Mailbox ------------------------------
(***************************************************************************)
(* What either direction of a UART promises the two who use it: room for   *)
(* one byte, which is put in when the mailbox is empty and taken out once. *)
(***************************************************************************)
CONSTANTS
  Byte,    \* what may be put in
  Nothing  \* out before anything was taken

VARIABLES
  box,     \* << >>, or the one byte that is waiting
  out      \* what was last taken out

vars == <<box, out>>

Init == box = << >> /\ out = Nothing

Put(b) ==
  /\ box = << >>
  /\ box' = <<b>>
  /\ UNCHANGED out

Take ==
  /\ box # << >>
  /\ out' = box[1]
  /\ box' = << >>

Next == Take \/ \E b \in Byte : Put(b)

Spec == Init /\ [][Next]_vars

=============================================================================
