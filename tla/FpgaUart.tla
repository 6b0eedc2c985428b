------------------------------ MODULE FpgaUart ------------------------------
(***************************************************************************)
(* The UART of the FPGA (R2/FPGA/UART.v), the ROM's driver for it          *)
(* (ROM/UART.S) and a host at the other end of the serial line.            *)
(*                                                                         *)
(* The transmitter and the receiver are state machines that move at a tick *)
(* of the FPGA's clock (Tick).  The registers are read when PHI2 rises     *)
(* (Rise) and written when it falls (Fall).  PHI2 has at most one edge     *)
(* between two ticks (the clock scaler toggles it at a tick, the Monitor   *)
(* more slowly) and may be as slow as it likes.                            *)
(*                                                                         *)
(* A byte is a function from bit positions to levels.  The line is sampled *)
(* and driven tick by tick, with the counters of the source; DataBits (8   *)
(* in the source) and CLK_DIVISOR (1250) are constants.                    *)
(***************************************************************************)
EXTENDS Integers, Sequences

CONSTANTS
  CLK_DIVISOR,   \* ticks in a bit
  DataBits,      \* data bits in a frame
  Payload,       \* the bytes that the program and the host send
  HostBit,       \* how many ticks a bit of the host may last
  Nothing,       \* before the first byte
  HalfDuplex     \* does the host keep silent while the program is in UART_putc?

\* rx_countdown and tx_countdown are 12 bits wide.
CounterSize == 4096

ASSUME UartAssumption ==
  /\ CLK_DIVISOR \in Nat \ {0} /\ CLK_DIVISOR + CLK_DIVISOR \div 2 < CounterSize
  /\ DataBits \in Nat \ {0}
  /\ Payload \subseteq [0 .. DataBits - 1 -> BOOLEAN]
  /\ HostBit \subseteq Nat \ {0}
  /\ HalfDuplex \in BOOLEAN

LOW == FALSE
HIGH == TRUE

Bit == 0 .. DataBits - 1
Byte == [Bit -> BOOLEAN]
Zero == [i \in Bit |-> LOW]

\* The position of the second STOP bit.
LastBit == DataBits + 2
Frame == [0 .. LastBit -> BOOLEAN]

VARIABLES
  phi2, edge,                              \* PHI2, and may it have an edge before the next tick?
  pc, arg, access,                         \* the program: where it is, UART_putc's byte, this bus cycle
  read,                                    \* what this bus cycle reads: the UART's data_bus_w
  tx_data, tx_data_ready, tx_state,        \* the transmitter
  frame, frame_bit_id, tx_countdown,
  rx_state, rx_countdown, bit_cursor,      \* the receiver
  rx_data, rx_data_valid, frame_error, data_overrun,
  acknowledge, last_acknowledge,
  h_frame, h_bit, h_timer,                 \* the host: levels still to drive, ticks in a bit, ticks left
  \* history
  heard, sent,                             \* the levels of the frame on the line; the last byte sent
  typed,                                   \* the byte the host is typing or has typed, until it is fetched
  waiting, got                             \* is one received and not fetched?  The last byte fetched

bus == <<phi2, pc, arg, access, read>>
transmitter == <<frame, frame_bit_id, tx_countdown, tx_state>>
holding == <<tx_data, tx_data_ready>>
receiver == <<rx_state, rx_countdown, bit_cursor, rx_data, rx_data_valid,
              frame_error, data_overrun, last_acknowledge>>
host == <<h_frame, h_bit, h_timer>>
fetched == <<typed, waiting, got>>
history == <<heard, sent, fetched>>

vars == <<bus, edge, transmitter, holding, receiver, acknowledge, host, history>>

\* framed(): one START bit, the data, two STOP bits.
framed(data) ==
  [i \in 0 .. LastBit |-> IF i \in 1 .. DataBits THEN data[i - 1] ELSE i > DataBits]

txd_line == frame[frame_bit_id]

\* The level the host drives.
rxd_line == IF h_frame = << >> THEN HIGH ELSE h_frame[1]

\* Registers without an initial value power up low in this FPGA.  What tx_data
\* holds at first ('A') is never sent.
Init ==
  /\ phi2 = LOW /\ edge = FALSE
  /\ pc = "main" /\ arg = Nothing /\ access = "other" /\ read = Nothing
  /\ tx_data = Zero /\ tx_data_ready = TRUE /\ tx_state = "IDLE"
  /\ frame = framed(Zero) /\ frame_bit_id = LastBit /\ tx_countdown = CLK_DIVISOR
  /\ rx_state = "START" /\ rx_countdown = CLK_DIVISOR /\ bit_cursor = 0
  /\ rx_data = Zero /\ rx_data_valid = LOW /\ frame_error = LOW /\ data_overrun = LOW
  /\ acknowledge = LOW /\ last_acknowledge = LOW
  /\ h_frame = << >> /\ h_bit = 0 /\ h_timer = 0
  /\ heard = << >> /\ sent = Nothing
  /\ typed = Nothing /\ waiting = FALSE /\ got = Nothing

-----------------------------------------------------------------------------
(* The transmitter, at a tick *)

StartFrame ==
  /\ tx_state = "IDLE" /\ ~tx_data_ready
  /\ frame' = framed(tx_data)
  /\ frame_bit_id' = 0
  /\ tx_countdown' = CLK_DIVISOR
  /\ tx_state' = "TRANSMITTING"
  /\ heard' = << >>
  /\ UNCHANGED sent

WithinBit ==
  /\ tx_state = "TRANSMITTING" /\ tx_countdown # 0
  /\ tx_countdown' = tx_countdown - 1
  /\ UNCHANGED <<frame, frame_bit_id, tx_state, heard, sent>>

NextBit ==
  /\ tx_state = "TRANSMITTING" /\ tx_countdown = 0 /\ frame_bit_id # LastBit
  /\ frame_bit_id' = frame_bit_id + 1
  /\ tx_countdown' = CLK_DIVISOR
  /\ heard' = Append(heard, txd_line)
  /\ UNCHANGED <<frame, tx_state, sent>>

\* Mutant of EndFrame: no state COMPLETE, which "is only here so that always @
\* phi2 can reset tx_data_ready" (UART.v:115).
EndFrameAtOnce ==
  /\ tx_state = "TRANSMITTING" /\ tx_countdown = 0 /\ frame_bit_id = LastBit
  /\ tx_state' = "IDLE"
  /\ tx_countdown' = CounterSize - 1
  /\ sent' = [i \in Bit |-> heard[i + 2]]
  /\ heard' = << >>
  /\ UNCHANGED <<frame, frame_bit_id>>

\* The countdown goes on, below zero.
EndFrame ==
  /\ tx_state = "TRANSMITTING" /\ tx_countdown = 0 /\ frame_bit_id = LastBit
  /\ tx_state' = "COMPLETE"
  /\ tx_countdown' = CounterSize - 1
  /\ sent' = [i \in Bit |-> heard[i + 2]]
  /\ heard' = << >>
  /\ UNCHANGED <<frame, frame_bit_id>>

BecomeIdle ==
  /\ tx_state = "COMPLETE" /\ tx_data_ready
  /\ tx_state' = "IDLE"
  /\ UNCHANGED <<frame, frame_bit_id, tx_countdown, heard, sent>>

Rest ==
  /\ tx_state = IF tx_data_ready THEN "IDLE" ELSE "COMPLETE"
  /\ UNCHANGED <<transmitter, heard, sent>>

Transmit == StartFrame \/ WithinBit \/ NextBit \/ EndFrame \/ BecomeIdle \/ Rest

-----------------------------------------------------------------------------
(* The receiver, at a tick *)

Acknowledged == acknowledge # last_acknowledge

\* Mutant of Flag: nothing is cleared.
FlagKept(set, old) == set \/ old

\* A flag after the tick: an acknowledgement clears it, unless the same tick
\* sets it, which comes later in the source.
Flag(set, old) == set \/ (old /\ ~Acknowledged)

\* Mutant of FirstSample: samples where the START bit ends.
FirstSampleEarly == CLK_DIVISOR

\* Half-way through the first data bit.
FirstSample == CLK_DIVISOR \div 2 + CLK_DIVISOR

Flags(valid, error, overrun) ==
  /\ rx_data_valid' = Flag(valid, rx_data_valid)
  /\ frame_error' = Flag(error, frame_error)
  /\ data_overrun' = Flag(overrun, data_overrun)

\* What the countdown holds while a START bit is expected is ignored.
ExpectStart ==
  /\ rx_state = "START"
  /\ \/ /\ rxd_line = LOW
        /\ bit_cursor' = 0
        /\ rx_state' = "DATA"
        /\ rx_countdown' = FirstSample
     \/ /\ rxd_line = HIGH
        /\ UNCHANGED <<bit_cursor, rx_state, rx_countdown>>
  /\ Flags(FALSE, FALSE, FALSE)
  /\ UNCHANGED <<rx_data, waiting>>

\* The countdown is decremented before it is compared with zero.
BetweenSamples ==
  /\ rx_state # "START" /\ rx_countdown # 1
  /\ rx_countdown' = rx_countdown - 1
  /\ Flags(FALSE, FALSE, FALSE)
  /\ UNCHANGED <<rx_state, bit_cursor, rx_data, waiting>>

SampleData ==
  /\ rx_state = "DATA" /\ rx_countdown = 1
  /\ rx_data' = [rx_data EXCEPT ![bit_cursor] = rxd_line]
  /\ bit_cursor' = (bit_cursor + 1) % DataBits
  /\ rx_state' = IF bit_cursor' = 0 THEN "STOP" ELSE "DATA"
  /\ rx_countdown' = CLK_DIVISOR
  /\ Flags(FALSE, FALSE, rx_data_valid)
  /\ UNCHANGED waiting

SampleStop ==
  /\ rx_state = "STOP" /\ rx_countdown = 1
  /\ rx_state' = "START"
  /\ rx_countdown' = 0
  /\ Flags(rxd_line, ~rxd_line, FALSE)
  /\ waiting' = (waiting \/ rxd_line)
  /\ UNCHANGED <<bit_cursor, rx_data>>

Receive ==
  /\ ExpectStart \/ BetweenSamples \/ SampleData \/ SampleStop
  /\ last_acknowledge' = acknowledge

-----------------------------------------------------------------------------
(* The host *)

InPutc == pc \in {"putc", "send"}

\* A typist: types when what was typed has been fetched.
MayType ==
  /\ h_frame = << >> /\ ~waiting
  /\ HalfDuplex => ~InPutc

Type(b, bit) ==
  /\ MayType
  /\ h_frame' = <<LOW>> \o [i \in 1 .. DataBits |-> b[i - 1]] \o <<HIGH>>
  /\ h_bit' = bit
  /\ h_timer' = bit
  /\ typed' = b

Drive ==
  /\ h_frame # << >>
  /\ \/ /\ h_timer > 1
        /\ h_timer' = h_timer - 1
        /\ UNCHANGED h_frame
     \/ /\ h_timer = 1
        /\ h_frame' = Tail(h_frame)
        /\ h_timer' = h_bit
  /\ UNCHANGED <<h_bit, typed>>

Silent ==
  /\ h_frame = << >>
  /\ UNCHANGED <<host, typed>>

Tick ==
  /\ edge' = TRUE
  /\ Transmit
  /\ Receive
  /\ Drive \/ Silent \/ \E b \in Payload, bit \in HostBit : Type(b, bit)
  /\ UNCHANGED <<bus, holding, acknowledge, got>>

-----------------------------------------------------------------------------
(* The registers and the program *)

\* Of the status bits, those that the driver looks at.
status_register == [tx_data_ready |-> tx_data_ready, rx_data_valid |-> rx_data_valid]

\* always @ (posedge phi2): reading the status acknowledges it.
Rise ==
  /\ edge /\ phi2 = LOW
  /\ edge' = FALSE
  /\ phi2' = HIGH
  /\ \/ /\ access = "status"
        /\ read' = status_register
        /\ acknowledge' = ~acknowledge
     \/ /\ access = "recv"
        /\ read' = rx_data
        /\ UNCHANGED acknowledge
     \/ /\ access \in {"send", "other"}
        /\ UNCHANGED <<read, acknowledge>>
  /\ UNCHANGED <<pc, arg, access, transmitter, holding, receiver, host, history>>

\* What the program makes of the bus cycle that ends.
GetcStatus ==
  /\ pc = "getc" /\ access = "status"
  /\ pc' = IF read.rx_data_valid THEN "fetch" ELSE "main"
  /\ UNCHANGED <<arg, fetched>>

Fetch ==
  /\ pc = "fetch" /\ access = "recv"
  /\ pc' = "main"
  /\ got' = read
  /\ waiting' = FALSE
  /\ typed' = Nothing
  /\ UNCHANGED arg

\* Mutant of PutcStatus: looks at the bit that says that a byte was received.
PutcWrongBit ==
  /\ pc = "putc" /\ access = "status"
  /\ pc' = IF read.rx_data_valid THEN "send" ELSE "putc"
  /\ UNCHANGED <<arg, fetched>>

PutcStatus ==
  /\ pc = "putc" /\ access = "status"
  /\ pc' = IF read.tx_data_ready THEN "send" ELSE "putc"
  /\ UNCHANGED <<arg, fetched>>

PutcSent ==
  /\ pc = "send" /\ access = "send"
  /\ pc' = "main"
  /\ arg' = Nothing
  /\ UNCHANGED fetched

CallGetc ==
  /\ pc = "main"
  /\ pc' = "getc"
  /\ UNCHANGED <<arg, fetched>>

\* The program sends nothing while a byte is on its way in, if host and program
\* take turns.
CallPutc ==
  /\ pc = "main"
  /\ HalfDuplex => h_frame = << >> /\ ~waiting
  /\ pc' = "putc"
  /\ arg' \in Payload
  /\ UNCHANGED fetched

\* A bus cycle without a meaning for the UART: fetching instructions.
OtherCycle ==
  /\ access = "other"
  /\ UNCHANGED <<pc, arg, fetched>>

\* An instruction that accesses the UART begins with a fetch, so that two
\* accesses never follow each other directly.
NextAccess ==
  \/ access' = "other"
  \/ /\ access = "other"
     /\ \/ pc' \in {"getc", "putc"} /\ access' = "status"
        \/ pc' = "fetch" /\ access' = "recv"
        \/ pc' = "send" /\ access' = "send"

\* always @ (negedge phi2): the end of a transmission overrides a write.
Written ==
  /\ tx_data' = IF access = "send" THEN arg ELSE tx_data
  /\ tx_data_ready' = \/ tx_state = "COMPLETE"
                      \/ tx_data_ready /\ access # "send"

Fall ==
  /\ edge /\ phi2 = HIGH
  /\ edge' = FALSE
  /\ phi2' = LOW
  /\ Written
  /\ GetcStatus \/ Fetch \/ PutcStatus \/ PutcSent \/ CallGetc \/ CallPutc \/ OtherCycle
  /\ NextAccess
  /\ read' = Nothing
  /\ UNCHANGED <<transmitter, receiver, acknowledge, host, heard, sent>>

Next == Tick \/ Rise \/ Fall

Spec == Init /\ [][Next]_vars

\* The FPGA's oscillator runs, the Monitor lets PHI2 run, and a driver that has
\* been called goes on to its next access after a few cycles.
FairSpec ==
  /\ Spec
  /\ WF_vars(Tick) /\ WF_vars(Rise) /\ WF_vars(Fall)
  /\ SF_vars(Fall /\ pc # "main" /\ access' # "other")

-----------------------------------------------------------------------------

\* The types, and the widths of the counters.
TypeOK ==
  /\ phi2 \in BOOLEAN /\ edge \in BOOLEAN
  /\ pc \in {"main", "getc", "fetch", "putc", "send"} 
  /\ arg \in Byte \union {Nothing}
  /\ access \in {"other", "status", "recv", "send"}
  /\ tx_data \in Byte /\ tx_data_ready \in BOOLEAN
  /\ tx_state \in {"IDLE", "TRANSMITTING", "COMPLETE"}
  /\ frame \in Frame /\ frame_bit_id \in 0 .. LastBit
  /\ tx_countdown \in 0 .. CounterSize - 1
  /\ rx_state \in {"START", "DATA", "STOP"} /\ rx_countdown \in 0 .. CounterSize - 1
  /\ bit_cursor \in Bit /\ rx_data \in Byte
  /\ rx_data_valid \in BOOLEAN /\ frame_error \in BOOLEAN /\ data_overrun \in BOOLEAN
  /\ acknowledge \in BOOLEAN /\ last_acknowledge \in BOOLEAN
  /\ sent \in Byte \union {Nothing} /\ typed \in Byte \union {Nothing}
  /\ waiting \in BOOLEAN /\ got \in Byte \union {Nothing}

\* The status, as it is or as it was just read for UART_getc, says that a byte waits.
Reported ==
  \/ rx_data_valid /\ ~Acknowledged
  \/ pc = "getc" /\ access = "status" /\ phi2 = HIGH /\ read.rx_data_valid
  \/ pc = "fetch"

\* "indicator: data received (and is waiting)" (UART.v:6): a byte that was
\* received and not fetched is reported.
NothingMissed == waiting => Reported

\* The receiver samples every bit of the host where it belongs: what waits is
\* what the host typed, and neither error flag is set.
Decoded ==
  /\ waiting => rx_data = typed
  /\ ~frame_error /\ ~data_overrun

\* Each byte received is reported until UART_getc fetches it, and is fetched
\* once: no status read loses it or repeats it, whatever edge it falls on.
Inbox == INSTANCE Mailbox WITH
  box <- IF Reported THEN <<rx_data>> ELSE << >>, out <- got

ReceiverIsMailbox == Inbox!Spec

\* Each byte that UART_putc writes leaves on the line once and unchanged, and
\* none is written over another: tx_data_ready, which PHI2 sets and clk reads,
\* is never early and never late.
OutBox ==
  CASE tx_state = "IDLE" /\ ~tx_data_ready -> <<tx_data>>
    [] tx_state = "TRANSMITTING" -> <<[i \in Bit |-> frame[i + 1]]>>
    [] OTHER -> << >>

Outbox == INSTANCE Mailbox WITH box <- OutBox, out <- sent

TransmitterIsMailbox == Outbox!Spec

\* A byte that UART_putc writes is in the mailbox afterwards: it is written
\* neither during a transmission nor in the cycle that ends one, whose setting
\* of tx_data_ready would hide it.
PutcAccepted == [][Fall /\ access = "send" => OutBox' = <<arg>>]_vars

\* While PHI2 runs, UART_putc returns: the wait for tx_data_ready ends.
PutcReturns == pc = "putc" ~> pc = "main"

=============================================================================
