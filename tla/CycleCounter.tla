---------------------------- MODULE CycleCounter ----------------------------
(***************************************************************************)
(* The cycle counter of the FPGA (R2/FPGA/cycle_counter.v) and the 6502    *)
(* program that uses it (ROM/cycle_counter.S).                             *)
(*                                                                         *)
(* The counter is clocked by PHI2 itself (top.v:257-259), so a PHI2 cycle  *)
(* is two steps: the rising edge, when a read is answered and may request  *)
(* a hold, and the falling edge, when the state machine moves, a write     *)
(* takes effect and the 6502 goes on to its next bus cycle.  A request is  *)
(* a register that the one edge toggles and that the other compares with   *)
(* the value it last saw.                                                  *)
(***************************************************************************)
EXTENDS Naturals

CONSTANTS
  LoSize, HiSize,   \* how many values the bytes LO and HI can take (256 each)
  MinGap            \* fewest cycles from one access of the counter to the next

ASSUME CounterAssumption ==
  /\ LoSize \in Nat \ {0} /\ HiSize \in Nat \ {0}
  /\ MinGap \in Nat \ {0, 1, 2}   \* an absolute load or store takes four cycles

NoValue == LoSize * HiSize

VARIABLES
  phi2,                                \* the level of PHI2
  access,                              \* what the 6502 does in this bus cycle
  idle,                                \* cycles since the last access, up to MinGap
  state, count,
  hold_request, hold_request_prior,
  reset_request, reset_request_prior,
  data_bus_w,                          \* the byte last put on the data bus
  lo,                                  \* the LO byte the program has read, or NoValue
  shown,                               \* the count made of HI and LO, or NoValue
  \* history
  read_at,                             \* the whole count when LO was last read
  undone,                              \* was a reset still pending at that read?
  since                                \* cycles since the counter was last made to start
                                       \* again, modulo the width

requests == <<hold_request, hold_request_prior, reset_request, reset_request_prior>>
bus == <<access, idle>>
program == <<lo, shown>>
history == <<read_at, undone, since>>

counterVars == <<phi2, bus, state, count, requests, data_bus_w, program, history>>

Counts == 0 .. LoSize * HiSize - 1

Next_count(c) == (c + 1) % (LoSize * HiSize)

Low(c) == c % LoSize
High(c) == c \div LoSize

\* A request that the state machine has not seen.
PendingHold == hold_request # hold_request_prior
PendingReset == reset_request # reset_request_prior

-----------------------------------------------------------------------------
(* Rising edge: always @ (posedge phi2), the reads *)

\* Mutant of Hold: reading LO lets the count go on.
NoHold == hold_request

\* Reading LO while counting asks the state machine to stop.
Hold == IF state = "COUNTING" THEN ~hold_request ELSE hold_request

ReadLO ==
  /\ access = "read_lo"
  /\ hold_request' = Hold
  /\ data_bus_w' = Low(count)
  /\ lo' = Low(count)
  /\ read_at' = count
  /\ undone' = PendingReset
  /\ shown' = NoValue

\* show_cycle_count reads HI after LO.
ReadHI ==
  /\ access = "read_hi"
  /\ data_bus_w' = High(count)
  /\ shown' = IF lo = NoValue THEN NoValue ELSE High(count) * LoSize + lo
  /\ UNCHANGED <<hold_request, lo, read_at, undone>>

NoRead ==
  /\ access \notin {"read_lo", "read_hi"}
  /\ UNCHANGED <<hold_request, data_bus_w, program, read_at, undone>>

RisingEdge ==
  /\ phi2 = "low"
  /\ phi2' = "high"
  /\ ReadLO \/ ReadHI \/ NoRead
  /\ UNCHANGED <<bus, state, count, hold_request_prior, reset_request,
                 reset_request_prior, since>>

-----------------------------------------------------------------------------
(* Falling edge: always @ (negedge clk) and the writes *)

\* Mutant of Restart: counts on from where it was held.
RestartUncleared ==
  /\ state = "RESET"
  /\ state' = "COUNTING"
  /\ UNCHANGED <<count, hold_request_prior, reset_request_prior>>

Restart ==
  /\ state = "RESET"
  /\ count' = 0
  /\ state' = "COUNTING"
  /\ UNCHANGED <<hold_request_prior, reset_request_prior>>

\* The cycle in which the hold was requested is still counted.
CountCycle ==
  /\ state = "COUNTING"
  /\ count' = Next_count(count)
  /\ state' = IF PendingHold THEN "HELD" ELSE "COUNTING"
  /\ hold_request_prior' = hold_request
  /\ UNCHANGED reset_request_prior

\* Only here is a request to reset looked at.
HoldCount ==
  /\ state = "HELD"
  /\ state' = IF PendingReset THEN "RESET" ELSE "HELD"
  /\ reset_request_prior' = reset_request
  /\ UNCHANGED <<count, hold_request_prior>>

\* The write sees what was on the bus in the cycle that ends, and the state
\* machine sees the request only at the next edge. A second write before the
\* first one is seen takes it back.
Write ==
  reset_request' = IF access = "write_0" THEN ~reset_request ELSE reset_request

\* The cycles that really make the counter start again: a write that finds the
\* count held, and a read of LO that finds a write pending. (A history.)
StartsAgain ==
  \/ access = "write_0" /\ state = "HELD"
  \/ access = "read_lo" /\ PendingReset

CountSince ==
  since' = IF StartsAgain THEN 0 ELSE IF since = NoValue THEN NoValue ELSE Next_count(since)

\* The bus cycle that follows: an instruction that accesses the counter takes
\* some cycles to fetch, and interrupts are not used.
NextAccess ==
  \/ /\ access' = "other"
     /\ idle' = IF access # "other" THEN 1 ELSE IF idle < MinGap THEN idle + 1 ELSE idle
  \/ /\ idle + 1 >= MinGap /\ access = "other"
     /\ access' \in {"read_lo", "read_hi", "write_0"}
     /\ idle' = 0

FallingEdge ==
  /\ phi2 = "high"
  /\ phi2' = "low"
  /\ Restart \/ CountCycle \/ HoldCount
  /\ Write
  /\ CountSince
  /\ NextAccess
  /\ lo' = IF access = "write_0" THEN NoValue ELSE lo
  /\ UNCHANGED <<hold_request, data_bus_w, shown, read_at, undone>>

CounterInit ==
  /\ phi2 = "low" /\ access = "other" /\ idle = 0
  /\ state = "RESET" /\ count \in {0, LoSize * HiSize - 1}   \* not initialized
  /\ hold_request = FALSE /\ hold_request_prior = FALSE
  /\ reset_request = FALSE /\ reset_request_prior = FALSE
  /\ data_bus_w = 0
  /\ lo = NoValue /\ shown = NoValue
  /\ read_at = 0 /\ undone = FALSE /\ since = NoValue

CounterNext == RisingEdge \/ FallingEdge

CounterSpec == CounterInit /\ [][CounterNext]_counterVars

-----------------------------------------------------------------------------

\* What becomes of "A write to register 0 resets the counter and begins counting
\* cycles of PHI2" (R2/README.md:39): whatever the order in which the program reads
\* and writes, two cycles after a write that found the count held, or after a read
\* of LO that found a write pending, the counter counts from zero. A write that
\* finds it counting does not make it start again; the next read of LO does, and
\* two such writes do nothing. (Around the moment that since wraps nothing is
\* claimed.)
CountsFromReset ==
  state = "COUNTING" /\ since # NoValue /\ since >= 2 => count = since - 2

\* The two reads of show_cycle_count give the count at the time of the first one,
\* except when LO was about to carry: then HI is one too high. Only a reset that was
\* pending when LO was read undoes the hold before HI is read.
ShownUpToCarry ==
  shown # NoValue /\ ~undone =>
    \/ shown = read_at
    \/ Low(read_at) = LoSize - 1 /\ shown = (read_at + LoSize) % (LoSize * HiSize)

=============================================================================
