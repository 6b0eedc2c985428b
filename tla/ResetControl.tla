---------------------------- MODULE ResetControl ----------------------------
(***************************************************************************)
(* The RESB line of the R2 board and its control in the FPGA               *)
(* (R2/FPGA/reset_control.v), with the PHI2 that it counts (top.v:150-165).*)
(*                                                                         *)
(* RESB is open collector (top.v:319-324): it is low while the switch, or  *)
(* another device, pulls it low or the FPGA does.  Its falling edge        *)
(* toggles strobed, whoever caused it; a falling edge of PHI2 compares     *)
(* strobed with what it last was, and starts or continues a countdown      *)
(* during which the FPGA pulls the line.                                   *)
(*                                                                         *)
(* PHI2 is the clock scaler's output or, while the Monitor AVR keeps STOP  *)
(* low, the line GO that the Monitor drives by hand.  STOP goes through    *)
(* two flip-flops.  PHI2 may therefore fall at a tick of the FPGA's clock, *)
(* because of GO, or because the source changes, and it may stop at any    *)
(* level while RESB is strobed any number of times: a switch bounces.      *)
(***************************************************************************)
EXTENDS Naturals

VARIABLES
  stop, dstop,          \* is STOP high (so that PHI2 runs)?  The two flip-flops
  go, iphi2,            \* the levels of GO and of the clock scaler's output
  switch,               \* does something outside the FPGA pull RESB low?
  strobed, strobed_last,
  countdown,
  \* history
  edges,                \* how many edges from outside since PHI2 last fell: none, odd, even
  due,                  \* how many, of those that two whole cycles of reset have not followed
  held                  \* falling edges of PHI2 since RESB went low, counted up to 2

clock == <<stop, dstop, go, iphi2>>
wire == <<switch, strobed>>
control == <<strobed_last, countdown>>

reset_history == <<edges, due, held>>

vars == <<clock, wire, control, reset_history>>

PHI2 == IF dstop[2] THEN iphi2 ELSE go

\* The level of RESB, which resb_sense follows.
RESB == ~switch /\ countdown = 0

Init ==
  /\ stop \in BOOLEAN /\ dstop = <<FALSE, FALSE>> /\ go \in BOOLEAN /\ iphi2 = FALSE
  /\ switch = FALSE
  /\ strobed = FALSE /\ strobed_last = FALSE /\ countdown = 0
  /\ edges = "none" /\ due = "none" /\ held = 0

\* RESB is strobed: an edge, unless the line was low already.
Strobe ==
  /\ ~switch
  /\ switch' = TRUE
  /\ \/ /\ RESB
        /\ strobed' = ~strobed
        /\ edges' = IF edges = "odd" THEN "even" ELSE "odd"
     \/ /\ ~RESB
        /\ UNCHANGED <<strobed, edges>>
  /\ UNCHANGED <<clock, control, due, held>>

LetGo ==
  /\ switch
  /\ switch' = FALSE
  /\ UNCHANGED <<clock, strobed, control, edges, due>>
  /\ held' = IF RESB' THEN 0 ELSE held

\* Mutants of Count: one cycle is thought to be enough; the countdown comes
\* before the look at strobed.
CountFromOne ==
  IF strobed # strobed_last
    THEN countdown' = 1 /\ strobed_last' = strobed
    ELSE /\ countdown' = IF countdown # 0 THEN countdown - 1 ELSE 0
         /\ UNCHANGED strobed_last
CountDownFirst ==
  IF countdown # 0
    THEN countdown' = countdown - 1 /\ UNCHANGED strobed_last
    ELSE /\ countdown' = IF strobed # strobed_last THEN 3 ELSE 0
         /\ strobed_last' = strobed

\* always @ (negedge phi2)
Count ==
  IF strobed # strobed_last
    THEN countdown' = 3 /\ strobed_last' = strobed
    ELSE /\ countdown' = IF countdown # 0 THEN countdown - 1 ELSE 0
         /\ UNCHANGED strobed_last

\* The FPGA goes on pulling the line, or lets go of it, or begins to pull.  If
\* the line was high then, that is an edge too (reset_control.v:32).
Fall ==
  /\ Count
  /\ strobed' = IF RESB /\ countdown' # 0 THEN ~strobed ELSE strobed
  /\ edges' = "none"
  /\ held' = IF RESB' THEN 0 ELSE IF held < 2 THEN held + 1 ELSE 2
  /\ due' = IF edges # "none" THEN edges ELSE IF held < 2 THEN due ELSE "none"

\* What a change of the clock's sources means for the rest.
OnFall ==
  /\ UNCHANGED switch
  /\ \/ PHI2 /\ ~PHI2' /\ Fall
     \/ ~(PHI2 /\ ~PHI2') /\ UNCHANGED <<strobed, control, reset_history>>

\* A rising edge of the FPGA's clock, at which the clock scaler may or may not
\* toggle its output.
Tick ==
  /\ dstop' = <<stop, dstop[1]>>
  /\ iphi2' \in BOOLEAN
  /\ UNCHANGED <<stop, go>>
  /\ OnFall

\* The Monitor changes STOP or GO, when it likes.
ChangeStop ==
  /\ stop' = ~stop
  /\ UNCHANGED <<dstop, go, iphi2>>
  /\ OnFall

ChangeGo ==
  /\ go' = ~go
  /\ UNCHANGED <<stop, dstop, iphi2>>
  /\ OnFall

Next == Strobe \/ LetGo \/ Tick \/ ChangeStop \/ ChangeGo

Spec == Init /\ [][Next]_vars

-----------------------------------------------------------------------------

\* The types.
TypeOK ==
  /\ stop \in BOOLEAN /\ dstop \in BOOLEAN \X BOOLEAN /\ go \in BOOLEAN
  /\ iphi2 \in BOOLEAN /\ switch \in BOOLEAN
  /\ strobed \in BOOLEAN /\ strobed_last \in BOOLEAN /\ countdown \in 0 .. 3
  /\ {edges, due} \subseteq {"none", "odd", "even"} /\ held \in 0 .. 2

\* "When RESB is strobed low [...] this module pulls RESB low until two cycles
\* of phi2 have passed" (reset_control.v:6-8): when the falls of RESB between two
\* falls of PHI2 were odd in number, as with a clean strobe, then from the second
\* of the two until two whole cycles later the line is low.
StrobeHolds == due = "odd" => ~RESB

\* The FPGA's own pull, which looks like a strobe to it, does not keep the 6502
\* in reset: once nothing else pulls the line and while PHI2 runs, it goes high and
\* stays high.
EventuallyReleased ==
  <>[]~switch /\ []<>PHI2 /\ []<>~PHI2 => <>[]RESB

\* The edge that the FPGA's own pull causes is used up before the line is let go
\* of: a reset is never followed by another one that nobody asked for.
NoEdgeLeftOver ==
  strobed # strobed_last => edges = "odd" \/ ~RESB

=============================================================================
