-------------------------------- MODULE FpgaSpi --------------------------------
(* The SPI of the FPGA (R2/FPGA/SPI.v), the ROM's driver for it (ROM/SPI.S) and *)
(* a device of SPI mode 0 on its lines.                                         *)
(*                                                                              *)
(* The shifter runs from PHI2 or from the FPGA's clk, as the program chooses;   *)
(* the registers are read when PHI2 rises and written when it falls, and pairs  *)
(* of bits tell one side what the other has asked for.  As in FpgaUart, a tick  *)
(* of clk lies between any two edges of PHI2, and an edge sees what an earlier  *)
(* tick did.                                                                    *)
EXTENDS Integers

CONSTANTS Bits,         \* in a byte
          Payload,      \* bytes that the program and the device send
          CounterSize,  \* clock_countdown counts modulo this: 256
          Divisors,     \* values the program writes to clock_divisor
          Polarities,   \* and to CPOL: the source assumes mode 0, CPOL = 0
          Nothing

LOW == 0
HIGH == 1

Bit  == {LOW, HIGH}
Byte == [1 .. Bits -> Bit]
Zero == [i \in 1 .. Bits |-> LOW]       \* the first bit is the most significant one

ASSUME SpiAssumption ==
    /\ Bits \in Nat \ {0}
    /\ Payload \subseteq Byte /\ Payload # {}
    /\ CounterSize \in Nat \ {0, 1} /\ Divisors \subseteq 0 .. CounterSize - 1
    /\ Polarities \subseteq Bit
    /\ Nothing \notin Byte

VARIABLES
    phi2, ticked,       \* PHI2; did clk tick since its last edge?
    pc, arg,            \* where the program is in the driver, SPI_exchange's byte
    access,             \* what it does to the SPI in this bus cycle
    read,               \* data_bus_w
    got,                \* what the last SPI_exchange returned
    data, data_latch, tc, bsy, ece, cpol, cpol_latch, sck_line,
    clock_divisor, clock_countdown,
    begin_exchange, data_consumed,      \* [0]: seen by the shifter, [1]: asked for
    miso_latch, shift_count,
    selected,           \* is the device's select line low?
    d_shift, d_latch, d_count,          \* its shift register, MOSI at the last rise, bits so far
    answer, received    \* history: the byte it sends, the byte it got last

program  == <<pc, arg, access, read, got>>
settings == <<ece, cpol_latch, clock_divisor, selected, data_latch>>
shifter  == <<data, tc, bsy, cpol, sck_line, clock_countdown, begin_exchange, data_consumed,
              miso_latch, shift_count>>
device   == <<d_shift, d_latch, d_count, answer, received>>
vars     == <<phi2, ticked, program, settings, shifter, device>>

\* Shifting a byte one place up, with b coming in
Shifted(byte, b) == [i \in 1 .. Bits |-> IF i = Bits THEN b ELSE byte[i + 1]]

mosi_line == data[1]
\* Nobody drives MISO while the device is not selected.
miso_line == IF selected THEN {d_shift[1]} ELSE Bit

--------------------------------------------------------------------------------
(* The clock divider and shifter, at a rise of its input clock.  Of two          *)
(* non-blocking assignments the later one in the source wins.                    *)

Requested == begin_exchange[0] # begin_exchange[1]
Consumed  == data_consumed[0] # data_consumed[1]

\* The level of SCK once a new polarity was adopted
sck_adopted == IF cpol_latch # cpol THEN cpol_latch ELSE sck_line
countdown   == (clock_countdown - 1) % CounterSize
Toggles     == bsy /\ countdown = 0
sck_next    == IF Toggles THEN 1 - sck_adopted ELSE sck_adopted

Samples == Toggles /\ sck_next = HIGH
Shifts  == Toggles /\ sck_next = LOW
LastBit == Shifts /\ shift_count = Bits - 1

NextTC == tc' = (LastBit \/ (tc /\ ~Consumed))

Count ==
    shift_count' = IF Requested THEN 0 ELSE IF Shifts THEN (shift_count + 1) % Bits ELSE shift_count

Divide ==
    clock_countdown' = IF Toggles THEN clock_divisor
                       ELSE IF Requested THEN 1
                       ELSE IF bsy THEN countdown ELSE clock_countdown

Shift ==
    /\ cpol' = cpol_latch
    /\ sck_line' = sck_next
    /\ begin_exchange' = [begin_exchange EXCEPT ![0] = begin_exchange[1]]
    /\ bsy' = (~LastBit /\ (Requested \/ bsy))
    /\ data' = IF Shifts THEN Shifted(data, miso_latch) ELSE IF Requested THEN data_latch ELSE data
    /\ \E m \in miso_line : miso_latch' = IF Samples THEN m ELSE miso_latch
    /\ NextTC /\ Count /\ Divide

\* mutant of Consume: what was consumed is never seen
ConsumeUnseen(toggled) ==
    data_consumed' = IF toggled THEN [data_consumed EXCEPT ![1] = 1 - @] ELSE data_consumed

Consume(toggled) ==
    data_consumed' = [data_consumed EXCEPT ![0] = data_consumed[1],
                                           ![1] = IF toggled THEN 1 - data_consumed[1] ELSE data_consumed[1]]

\* The device takes MOSI when SCK rises and shows its next bit when SCK falls.
DeviceIdle == UNCHANGED device

DeviceSamples ==
    /\ d_latch' = mosi_line
    /\ UNCHANGED <<d_shift, d_count, answer, received>>

DeviceShifts ==
    /\ d_shift' = Shifted(d_shift, d_latch)
    /\ d_count' = d_count + 1
    /\ UNCHANGED <<d_latch, answer, received>>

DeviceReady ==
    /\ received' = Shifted(d_shift, d_latch)
    /\ answer' \in Payload
    /\ d_shift' = answer'
    /\ d_count' = 0
    /\ UNCHANGED d_latch

Device ==
    IF ~selected \/ sck_next = sck_line THEN DeviceIdle
    ELSE IF sck_next = HIGH THEN DeviceSamples
    ELSE IF d_count < Bits - 1 THEN DeviceShifts ELSE DeviceReady

--------------------------------------------------------------------------------
(* The registers *)

\* Of the status, the bits that the driver tests
status_register == [tc |-> tc, bsy |-> bsy]

\* With PHI2 as input clock both the shifter and the registers see this edge, and
\* each the other as it was before.
Rise ==
    /\ phi2 = LOW /\ (ece => ticked)
    /\ phi2' = HIGH /\ ticked' = FALSE
    /\ read' = IF access = "status" THEN status_register
               ELSE IF access = "data" THEN data ELSE read
    /\ IF ece
          THEN /\ data_consumed' = IF access = "data" THEN [data_consumed EXCEPT ![1] = 1 - @]
                                   ELSE data_consumed
               /\ UNCHANGED <<data, tc, bsy, cpol, sck_line, clock_countdown, begin_exchange,
                              miso_latch, shift_count, device>>
          ELSE Shift /\ Device /\ Consume(access = "data")
    /\ UNCHANGED <<pc, arg, access, got, settings>>

Tick ==
    /\ ece
    /\ ticked' = TRUE
    /\ Shift /\ Device /\ Consume(FALSE)
    /\ UNCHANGED <<phi2, program, settings>>

--------------------------------------------------------------------------------
(* The program: SPI_select, SPI_exchange and SPI_release, and writes to the     *)
(* settings between exchanges.                                                  *)

\* The access that the program has to do next
Access == [write |-> "write", take |-> "data", busy |-> "status", complete |-> "status",
           select |-> "select", release |-> "release", control |-> "control", divisor |-> "divisor"]

NextAccess ==
    \/ access' = "other"
    \/ access = "other" /\ pc' # "main" /\ access' = Access[pc']

SameSettings == UNCHANGED <<ece, cpol_latch, clock_divisor>>
SameLines    == UNCHANGED <<selected, data_latch, begin_exchange, device>>

\* "Wait until BSY is 0"
PollBusy ==
    /\ pc = "busy" /\ access = "status"
    /\ pc' = IF read.bsy THEN "busy" ELSE "write"
    /\ UNCHANGED <<arg, got>> /\ SameSettings /\ SameLines

WriteData ==
    /\ pc = "write" /\ access = "write"
    /\ data_latch' = arg
    /\ begin_exchange' = [begin_exchange EXCEPT ![1] = 1 - @]
    /\ pc' = "complete"
    /\ UNCHANGED <<arg, got, selected, device>> /\ SameSettings

\* "Wait for the exchange to complete (TC is 1)"
PollComplete ==
    /\ pc = "complete" /\ access = "status"
    /\ pc' = IF read.tc THEN "take" ELSE "complete"
    /\ UNCHANGED <<arg, got>> /\ SameSettings /\ SameLines

TakeData ==
    /\ pc = "take" /\ access = "data"
    /\ got' = read
    /\ arg' = Nothing
    /\ pc' = "main"
    /\ SameSettings /\ SameLines

Select ==
    /\ pc = "select" /\ access = "select"
    /\ selected' = TRUE
    /\ answer' \in Payload
    /\ d_shift' = answer' /\ d_count' = 0 /\ d_latch' = LOW
    /\ pc' = "main"
    /\ UNCHANGED <<arg, got, data_latch, begin_exchange, received>> /\ SameSettings

Release ==
    /\ pc = "release" /\ access = "release"
    /\ selected' = FALSE
    /\ pc' = "main"
    /\ UNCHANGED <<arg, got, data_latch, begin_exchange, device>> /\ SameSettings

WriteControl ==
    /\ pc = "control" /\ access = "control"
    /\ ece' \in BOOLEAN /\ cpol_latch' \in Polarities
    /\ pc' = "main"
    /\ UNCHANGED <<arg, got, clock_divisor>> /\ SameLines

WriteDivisor ==
    /\ pc = "divisor" /\ access = "divisor"
    /\ clock_divisor' \in Divisors
    /\ pc' = "main"
    /\ UNCHANGED <<arg, got, ece, cpol_latch>> /\ SameLines

\* A cycle without an access, in which the program may call the driver.
Call ==
    /\ pc = "main"
    /\ \/ pc' = "busy" /\ selected /\ arg' \in Payload
       \/ pc' \in {IF selected THEN "release" ELSE "select", "control", "divisor"} /\ UNCHANGED arg
    /\ UNCHANGED got /\ SameSettings /\ SameLines

OtherCycle ==
    /\ access = "other"
    /\ UNCHANGED <<pc, arg, got>> /\ SameSettings /\ SameLines

Fall ==
    /\ phi2 = HIGH /\ (ece => ticked)
    /\ phi2' = LOW /\ ticked' = FALSE
    /\ \/ PollBusy \/ WriteData \/ PollComplete \/ TakeData
       \/ Select \/ Release \/ WriteControl \/ WriteDivisor
       \/ Call \/ OtherCycle
    /\ NextAccess
    /\ read' = Nothing
    /\ UNCHANGED <<data, tc, bsy, cpol, sck_line, clock_countdown, data_consumed, miso_latch, shift_count>>

--------------------------------------------------------------------------------

\* mutant of Cleared: only what was asked for is forgotten
ClearedHalf == begin_exchange' = [begin_exchange EXCEPT ![1] = 0]
Cleared == begin_exchange' = [i \in {0, 1} |-> 0]

\* cpol_latch, data_latch and the counters are not reset.
ShifterCleared ==
    /\ sck_line' = LOW /\ data' = Zero /\ tc' = FALSE /\ bsy' = FALSE /\ cpol' = LOW
    /\ UNCHANGED <<clock_countdown, miso_latch, shift_count>>

RegistersCleared ==
    /\ Cleared /\ data_consumed' = [i \in {0, 1} |-> 0]
    /\ ece' = FALSE /\ clock_divisor' = 0 /\ selected' = FALSE
    /\ UNCHANGED <<cpol_latch, data_latch>>

\* RESB falls, in the middle of anything, and is released again: the program starts
\* over and the device is deselected.
Reset ==
    /\ pc # "main" \/ selected \/ ece
    /\ ShifterCleared /\ RegistersCleared
    /\ pc' = "main" /\ arg' = Nothing /\ access' = "other" /\ read' = Nothing
    /\ phi2' = LOW /\ ticked' = FALSE
    /\ UNCHANGED <<got, device>>

\* After the reset at power-up; registers that it leaves alone are low.
Init ==
    /\ phi2 = LOW /\ ticked = FALSE
    /\ pc = "main" /\ arg = Nothing /\ access = "other" /\ read = Nothing /\ got = Nothing
    /\ data = Zero /\ data_latch = Zero /\ tc = FALSE /\ bsy = FALSE
    /\ ece = FALSE /\ cpol = LOW /\ cpol_latch = LOW /\ sck_line = LOW
    /\ clock_divisor = 0 /\ clock_countdown = 0
    /\ begin_exchange = [i \in {0, 1} |-> 0] /\ data_consumed = [i \in {0, 1} |-> 0]
    /\ miso_latch = LOW /\ shift_count = 0
    /\ selected = FALSE
    /\ d_shift = Zero /\ d_latch = LOW /\ d_count = 0
    /\ answer = Zero /\ received = Nothing

Next == Rise \/ Fall \/ Tick \/ Reset

Spec == Init /\ [][Next]_vars

\* clk ticks, nobody stops PHI2, and a driver that was called gets to its next access.
FairSpec ==
    /\ Spec
    /\ WF_vars(Tick) /\ WF_vars(Rise) /\ WF_vars(Fall)
    /\ SF_vars(Fall /\ pc # "main" /\ access' # "other")

--------------------------------------------------------------------------------
\* An exchange was asked for and is not over.
UnderWay == Requested \/ bsy

Stage   == IF UnderWay THEN "loaded" ELSE IF pc \in {"complete", "take"} THEN "swapped" ELSE "idle"
OurByte == IF UnderWay THEN data_latch ELSE data

Swap == INSTANCE ByteSwap WITH
    Bytes <- Byte, Empty <- Zero, state <- Stage, ours <- OurByte, taken <- got

\* Every SPI_exchange swaps the program's byte for the device's, whole and once, and
\* returns the device's, with either input clock and any divisor, and also after a reset
\* in the middle of an earlier one (SPI.v:76-117, SPI.S:35-78).
SwapsBytes == Swap!Spec

\* While the clocks run SPI_exchange returns: neither wait, for BSY or for TC, is for
\* an event that is over (SPI.S:51-62).
ExchangeReturns == pc = "busy" ~> pc = "main"
================================================================================
