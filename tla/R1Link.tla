------------------------------- MODULE R1Link -------------------------------
(***************************************************************************)
(* The two AVRs of the R1 board and the SPI link between them.             *)
(*                                                                         *)
(* The master AVR (R1/firmware/master/main.c) simulates the devices of the *)
(* 6502 and turns an access to the UART or to the slave-select register    *)
(* into one or two single-byte exchanges with the slave AVR                *)
(* (R1/firmware/slave), which owns the UART, the RESB line and the         *)
(* select lines of the off-board SPI devices.  On the slave, interrupt     *)
(* handlers queue what arrives; the main program sleeps, is woken by any   *)
(* interrupt, and handles at most one queued request per wake-up.  An      *)
(* answer is left in the USI data register for the next exchange to fetch. *)
(*                                                                         *)
(* Nothing on the link says that the slave is ready: the master relies on  *)
(* the slave being quick.  SlowRequests names the requests for which it is *)
(* not: as shipped (DEBUG_SPI, slave main.c:102) it prints for about       *)
(* 1.65 ms while it selects a device (243-254) and as long after any       *)
(* request in that range (355-361), and the master may then begin an       *)
(* exchange at any point of it.  The history variable late says that it    *)
(* has.  Any other request is finished, and the slave asleep, before the   *)
(* master clocks the next exchange (the pause of spi_exchange and, between *)
(* operations, the time the 6502 takes).                                   *)
(***************************************************************************)
EXTENDS Naturals, Sequences, FiniteSets

CONSTANTS
  DeviceId,          \* off-board devices on select lines 0..6
  RxData,            \* bytes the host sends to the UART
  TxData,            \* bytes the 6502 program sends
  SpiCapacity,       \* how many bytes the queue from_SPI holds
  UartCapacity,      \* how many bytes the queue from_UART holds
  SlowRequests,      \* requests the slave may not finish in time
  RxDuringExchange,  \* may a UART frame arrive in the middle of an operation?
  Garbage,           \* bytes that a disturbed exchange may produce (a bound)
  MaxRx, MaxTx       \* bounds on the bytes received and written

\* Request.h, and BOOT for what the slave is doing before its first request.
POLL == 0
ASSERT_RESB == 1
RELEASE_RESB == 2
SELECT_SLAVE_0 == 16
RELEASE_SLAVE == 23
QUERY_UART_STATUS == 64
DEQUEUE_UART_DATA == 66
SEND_VIA_UART == 67
BOOT == 256

NO_SLAVE_SELECTED == 7

SelectRequest == SELECT_SLAVE_0 .. RELEASE_SLAVE - 1

Byte == 0 .. 255

ASSUME LinkAssumption ==
  /\ DeviceId \subseteq 0 .. 6
  /\ RxData \subseteq Byte /\ TxData \subseteq Byte /\ Garbage \subseteq Byte
  /\ SpiCapacity \in Nat /\ UartCapacity \in Nat
  /\ SlowRequests \subseteq Byte
  /\ RxDuringExchange \in BOOLEAN
  /\ MaxRx \in Nat /\ MaxTx \in Nat

VARIABLES
  \* the master and the 6502 program it serves
  m_pc,        \* where the master is in an exchange
  op,          \* the operation the exchanges belong to
  script,      \* the bytes the operation has yet to exchange
  SPDR,        \* the byte received in the last exchange
  status,      \* the UART status the 6502 last read and has not yet acted on
  cpu_dev,     \* the device the 6502 program believes it has selected
  \* the slave: registers and lines
  USIDR,       \* the byte that the next exchange will send to the master
  USIDR_hot,   \* has send_byte_via_SPI() loaded it?
  garbled,     \* the directions of the current exchange that were disturbed
  ss,          \* the select lines that are driven low
  miso,        \* does the slave drive MISO?
  resb,        \* is RESB high, so that the 6502 runs?
  udr,         \* the program's byte in the UART's transmit register, if any
  tx_busy,     \* is the transmit register (UDRE) occupied?
  \* the slave: program
  from_SPI, from_UART,
  selected_slave_id,
  state,       \* what the next byte from the master means
  s_pc,        \* where the main program is
  s_byte,      \* the byte it is handling
  s_reply,     \* the answer it is about to load
  s_port,      \* its copy of a port while it changes one select line
  \* history
  accepted,    \* bytes the UART received and queued
  taken,       \* the byte dequeued for the 6502 and not yet with it, if any
  delivered,   \* bytes the 6502 has read
  written,     \* bytes the 6502 has written
  sent,        \* bytes of the 6502's that left on the serial line
  answer,      \* what the slave computed for the operation in progress, if anything
  cut,         \* did the 6502 use the UART during its transaction with cpu_dev?
  late         \* has an exchange begun with the slave not done with a slow request?

master == <<m_pc, op, script, SPDR, status, cpu_dev>>
usi == <<USIDR, USIDR_hot, garbled>>
lines == <<ss, miso, resb>>
uart == <<udr, tx_busy, from_UART, accepted>>
locals == <<s_byte, s_reply, s_port>>
program == <<selected_slave_id, state, s_pc, locals>>
history == <<taken, delivered, written, sent, answer, cut, late>>

vars == <<master, usi, lines, uart, program, from_SPI, history>>

-----------------------------------------------------------------------------
(* Interrupts and queues of the slave *)

\* Mutant of Enqueued: overwrites the oldest byte.
EnqueuedOverwriting(q, capacity, b) ==
  IF Len(q) < capacity THEN Append(q, b) ELSE Append(Tail(q), b)
\* enqueue(): a byte that finds the queue full is dropped (see RingQueue).
Enqueued(q, capacity, b) == IF Len(q) < capacity THEN Append(q, b) ELSE q

\* Mutant of Woken: a sleep mode that the USI does not end.
NeverWoken == s_pc

\* Any interrupt ends sleep_mode(); the program goes on to look at the queue.
Woken == IF s_pc = "asleep" THEN "check" ELSE s_pc

\* The slave is busy with a request for which it may be late: on its way
\* through the switch, select_slave() or the report.
Late == s_byte \in SlowRequests /\ s_pc \notin {"check", "tosleep", "asleep"}

\* Mutant of Settled: the master does not pause.
NoPause == TRUE

\* The timing the master relies on before it clocks an exchange.
Settled == s_pc = "asleep" \/ Late

-----------------------------------------------------------------------------
(* The master's operations: what an access by the 6502, or the administrator's *)
(* reset command, exchanges with the slave.                                    *)

Begin(name, bytes) ==
  /\ m_pc = "idle" /\ op = "none"
  /\ op' = name
  /\ script' = bytes
  /\ answer' = << >>
  /\ UNCHANGED <<m_pc, SPDR, cpu_dev, usi, lines, uart, program, from_SPI,
                 taken, delivered, sent, cut, late>>

ReadStatus ==
  /\ resb
  /\ Begin("status", <<QUERY_UART_STATUS, POLL>>)
  /\ UNCHANGED <<status, written>>

\* UART_getc reads the data register only after bit 0 of the status was 1.
ReadData ==
  /\ resb /\ status \in {1, 3}
  /\ status' = 0
  /\ Begin("read", <<DEQUEUE_UART_DATA, POLL>>)
  /\ UNCHANGED written

\* UART_putc writes only after the status said that the transmitter is ready.
WriteData ==
  /\ resb /\ status \in {2, 3}
  /\ Len(written) < MaxTx
  /\ \E d \in TxData :
       /\ status' = 0
       /\ written' = Append(written, d)
       /\ Begin("write", <<SEND_VIA_UART, d>>)

\* Slave-select register: device id, or 7 to release.
SelectDevice ==
  /\ resb
  /\ \E id \in DeviceId \union {NO_SLAVE_SELECTED} :
       Begin("select", <<SELECT_SLAVE_0 + id>>)
  /\ UNCHANGED <<status, written>>

ResetCPU ==
  /\ Begin("reset", <<ASSERT_RESB, RELEASE_RESB>>)
  /\ status' = 0
  /\ UNCHANGED written

-----------------------------------------------------------------------------
(* spi_exchange() *)

\* An exchange that does not follow another one immediately: the first of an
\* operation comes some cycles of the 6502 later, and reset() lets two cycles
\* pass between its two.
Unhurried == op \in {"select", "reset"} \/ Len(script) = 2

\* Mutants: only the devices on PORTB are released; MISO is not taken over.
ReleasedOnPortB == IF selected_slave_id <= 3 THEN ss \ {selected_slave_id} ELSE ss
LeaveMISO == UNCHANGED miso

\* SPI_slave_select_asserted(): the select line driven last goes high (7 is no
\* line at all), and the slave drives MISO.
Released == ss \ {selected_slave_id}
DriveMISO == miso' = TRUE

\* SSA goes low, which interrupts the slave.
AssertSSA ==
  /\ m_pc = "idle" /\ script # << >>
  /\ Unhurried => Settled \/ late
  /\ m_pc' = "armed"
  /\ ss' = Released
  /\ DriveMISO
  /\ s_pc' = Woken
  /\ cut' = (cut \/ (op \in {"status", "read", "write"} /\ cpu_dev # NO_SLAVE_SELECTED))
  /\ late' = (late \/ (Unhurried /\ Late))
  /\ UNCHANGED <<op, script, SPDR, status, cpu_dev, usi, resb, uart, selected_slave_id,
                 state, locals, from_SPI, taken, delivered, written, sent, answer>>

StartShift ==
  /\ m_pc = "armed"
  /\ Settled \/ late
  /\ m_pc' = "shifting"
  /\ late' = (late \/ Late)
  /\ UNCHANGED <<op, script, SPDR, status, cpu_dev, usi, lines, uart, program,
                 from_SPI, taken, delivered, written, sent, answer, cut>>

\* What the master may read: with MISO floating, the pull-up; with a device
\* driving it too, anything.
Received ==
  IF "out" \in garbled \/ ss # {} THEN Garbage
  ELSE IF miso THEN {USIDR} ELSE {255}

\* The eighth bit: the two registers have changed places, and the slave's
\* overflow interrupt queues what it received and clears the register.
EndShift ==
  /\ m_pc = "shifting"
  /\ m_pc' = "shifted"
  /\ SPDR' \in Received
  /\ \E b \in IF "in" \in garbled THEN Garbage ELSE {Head(script)} :
       from_SPI' = Enqueued(from_SPI, SpiCapacity, b)
  /\ USIDR' = 0
  /\ USIDR_hot' = FALSE
  /\ garbled' = {}
  /\ s_pc' = Woken
  /\ UNCHANGED <<op, script, status, cpu_dev, lines, uart, selected_slave_id,
                 state, locals, history>>

\* The device that the exchange just made will have selected.
Chosen == CASE op = "select" -> Head(script) - SELECT_SLAVE_0
            [] op = "reset"  -> NO_SLAVE_SELECTED
            [] OTHER         -> cpu_dev

\* SSA goes high, which interrupts the slave too.  After the last exchange the
\* result of the operation is returned to the 6502.
ReleaseSSA ==
  /\ m_pc = "shifted"
  /\ m_pc' = "idle"
  /\ script' = Tail(script)
  /\ op' = IF Tail(script) = << >> THEN "none" ELSE op
  /\ cpu_dev' = Chosen
  /\ cut' = (cut /\ op \notin {"select", "reset"})
  /\ IF Tail(script) = << >> /\ op = "status"
       THEN status' = SPDR ELSE UNCHANGED status
  /\ IF Tail(script) = << >> /\ op = "read"
       THEN delivered' = Append(delivered, SPDR) /\ taken' = << >>
       ELSE UNCHANGED <<delivered, taken>>
  /\ s_pc' = Woken
  /\ UNCHANGED <<SPDR, usi, lines, uart, selected_slave_id, state, locals, from_SPI, written, sent, answer, late>>

\* The 6502 exchanges a byte with the device it selected, whatever the slave is
\* doing by then; SSA stays high.
StartDeviceExchange ==
  /\ m_pc = "idle" /\ op = "none" /\ resb
  /\ cpu_dev # NO_SLAVE_SELECTED
  /\ m_pc' = "device"
  /\ UNCHANGED <<op, script, SPDR, status, cpu_dev, usi, lines, uart, program,
                 from_SPI, history>>

EndDeviceExchange ==
  /\ m_pc = "device"
  /\ m_pc' = "idle"
  /\ UNCHANGED <<op, script, SPDR, status, cpu_dev, usi, lines, uart, program,
                 from_SPI, history>>

-----------------------------------------------------------------------------
(* The slave's UART *)

\* The receive interrupt queues a byte from the host.
UartReceive ==
  /\ RxDuringExchange \/ op = "none"
  /\ Len(accepted) < MaxRx
  /\ \E b \in RxData :
       /\ from_UART' = Enqueued(from_UART, UartCapacity, b)
       /\ accepted' = IF Len(from_UART) < UartCapacity
                        THEN Append(accepted, b) ELSE accepted
  /\ s_pc' = Woken
  /\ UNCHANGED <<master, usi, lines, udr, tx_busy, selected_slave_id, state,
                 locals, from_SPI, history>>

\* The transmit register empties onto the serial line.
UartTransmit ==
  /\ tx_busy
  /\ tx_busy' = FALSE
  /\ sent' = sent \o udr
  /\ udr' = << >>
  /\ UNCHANGED <<master, usi, lines, from_UART, accepted, program, from_SPI,
                 taken, delivered, written, answer, cut, late>>

-----------------------------------------------------------------------------
(* The slave's main program: loop() *)

\* sleep_mode()
Sleep ==
  /\ s_pc = "tosleep"
  /\ s_pc' = "asleep"
  /\ UNCHANGED <<master, usi, lines, uart, selected_slave_id, state, locals, from_SPI, history>>

\* One dequeued_safely() per wake-up, then the debug report of a byte in the
\* range of the select requests.
CheckQueue ==
  /\ s_pc = "check"
  /\ \/ /\ from_SPI = << >>
        /\ s_pc' = "tosleep"
        /\ UNCHANGED <<from_SPI, s_byte>>
     \/ /\ from_SPI # << >>
        /\ s_byte' = Head(from_SPI)
        /\ from_SPI' = Tail(from_SPI)
        /\ s_pc' = IF s_byte' \in SelectRequest \union {RELEASE_SLAVE}
                     THEN "report" ELSE "switch"
  /\ UNCHANGED <<master, usi, lines, uart, selected_slave_id, state, s_reply, s_port,
                 history>>

\* Printing waits for the transmit register, and leaves it occupied.
Emit(from, to) ==
  /\ s_pc = from /\ ~tx_busy
  /\ tx_busy' = TRUE
  /\ s_pc' = to

\* The greeting that setup() prints, after which loop() goes to sleep.
Greet ==
  /\ Emit("greet", "tosleep")
  /\ UNCHANGED <<master, usi, lines, udr, from_UART, accepted, selected_slave_id,
                 state, locals, from_SPI, history>>

Report ==
  /\ Emit("report", "switch")
  /\ UNCHANGED <<master, usi, lines, udr, from_UART, accepted, selected_slave_id,
                 state, locals, from_SPI, history>>

\* A step of the switch in loop(), on byte b, when a request is expected.
Request(b) == s_pc = "switch" /\ state = "EXPECTING_REQUEST" /\ s_byte = b

Ignore ==
  /\ s_pc = "switch" /\ state = "EXPECTING_REQUEST"
  /\ s_byte \notin SelectRequest
       \union {ASSERT_RESB, RELEASE_RESB, QUERY_UART_STATUS,
               DEQUEUE_UART_DATA, SEND_VIA_UART}
  /\ s_pc' = "tosleep"
  /\ UNCHANGED <<master, usi, lines, uart, selected_slave_id, state, locals, from_SPI, history>>

SetRESB ==
  /\ Request(ASSERT_RESB) \/ Request(RELEASE_RESB)
  /\ resb' = (s_byte = RELEASE_RESB)
  /\ s_pc' = "tosleep"
  /\ UNCHANGED <<master, usi, ss, miso, uart, selected_slave_id, state, locals, from_SPI, history>>

\* The master's half of the current exchange is disturbed.
DisturbOut == garbled' = IF m_pc = "shifting" THEN garbled \union {"out"} ELSE garbled

FloatMISO == miso' = FALSE

\* MISO is left to the devices before one of them is selected.
BeginSelect ==
  /\ s_pc = "switch" /\ state = "EXPECTING_REQUEST"
  /\ s_byte \in SelectRequest
  /\ FloatMISO
  /\ DisturbOut
  /\ s_pc' = "select"
  /\ UNCHANGED <<master, USIDR, USIDR_hot, ss, resb, uart, selected_slave_id,
                 state, locals, from_SPI, history>>

\* Mutant of Wanted: counts the lines from one.
WantedOffByOne == s_byte - SELECT_SLAVE_0 + 1

\* select_slave( data - SELECT_SLAVE_0)
Wanted == s_byte - SELECT_SLAVE_0

\* SS0..3 are on PORTB and SS4..6 on PORTD.
Port(id) == IF id <= 3 THEN 0 .. 3 ELSE 4 .. 6

\* drive_low(port, slave_id) is a read and a write of the whole port.
ReadPort ==
  /\ Emit("select", "portread")
  /\ s_port' = ss \intersect Port(Wanted)
  /\ UNCHANGED <<master, usi, lines, udr, from_UART, accepted, selected_slave_id,
                 state, s_byte, s_reply, from_SPI, history>>

WritePort ==
  /\ s_pc = "portread"
  /\ ss' = (ss \ Port(Wanted)) \union s_port \union {Wanted}
  /\ s_port' = {}
  /\ DisturbOut
  /\ s_pc' = "remember"
  /\ UNCHANGED <<master, USIDR, USIDR_hot, miso, resb, uart, selected_slave_id,
                 state, s_byte, s_reply, from_SPI, history>>

RememberSlave ==
  /\ Emit("remember", "tosleep")
  /\ selected_slave_id' = Wanted
  /\ UNCHANGED <<master, usi, lines, udr, from_UART, accepted, state, locals, from_SPI, history>>

\* Bit 1: the transmit register is free.  Bit 0: received data is queued.
UartStatus == (IF tx_busy THEN 0 ELSE 2) + (IF from_UART = << >> THEN 0 ELSE 1)

QueryStatus ==
  /\ Request(QUERY_UART_STATUS)
  /\ s_reply' = UartStatus
  /\ answer' = <<UartStatus>>
  /\ s_pc' = "wait"
  /\ UNCHANGED <<master, usi, lines, uart, selected_slave_id, state, s_byte,
                 s_port, from_SPI, taken, delivered, written, sent, cut, late>>

DequeueData ==
  /\ Request(DEQUEUE_UART_DATA)
  /\ \/ /\ from_UART = << >>
        /\ s_reply' = 255
        /\ taken' = << >>
        /\ UNCHANGED from_UART
     \/ /\ from_UART # << >>
        /\ s_reply' = Head(from_UART)
        /\ taken' = <<Head(from_UART)>>
        /\ from_UART' = Tail(from_UART)
  /\ answer' = <<s_reply'>>
  /\ s_pc' = "wait"
  /\ UNCHANGED <<master, usi, lines, udr, tx_busy, accepted, selected_slave_id,
                 state, s_byte, s_port, from_SPI, delivered, written, sent, cut, late>>

\* Mutant of ExpectData: the data byte will be taken for a request.
ForgetData ==
  /\ Request(SEND_VIA_UART)
  /\ s_pc' = "tosleep"
  /\ UNCHANGED <<master, usi, lines, uart, selected_slave_id, state, locals,
                 from_SPI, history>>

ExpectData ==
  /\ Request(SEND_VIA_UART)
  /\ state' = "EXPECTING_DATA_FOR_UART"
  /\ s_pc' = "tosleep"
  /\ UNCHANGED <<master, usi, lines, uart, selected_slave_id, locals,
                 from_SPI, history>>

\* send_byte_via_UART(): waits for the transmit register.
SendData ==
  /\ s_pc = "switch" /\ state = "EXPECTING_DATA_FOR_UART"
  /\ ~tx_busy
  /\ tx_busy' = TRUE
  /\ udr' = <<s_byte>>
  /\ state' = "EXPECTING_REQUEST"
  /\ s_pc' = "tosleep"
  /\ UNCHANGED <<master, usi, lines, from_UART, accepted, selected_slave_id,
                 locals, from_SPI, history>>

\* send_byte_via_SPI(): waits until the register is free, loads it, and only
\* then marks it as loaded.
LoadUSIDR ==
  /\ s_pc = "wait" /\ ~USIDR_hot
  /\ USIDR' = s_reply
  /\ garbled' = IF m_pc = "shifting" THEN {"in", "out"} ELSE garbled
  /\ s_reply' = 0
  /\ s_pc' = "mark"
  /\ UNCHANGED <<master, USIDR_hot, lines, uart, selected_slave_id, state,
                 s_byte, s_port, from_SPI, history>>

MarkHot ==
  /\ s_pc = "mark"
  /\ USIDR_hot' = TRUE
  /\ s_pc' = "tosleep"
  /\ UNCHANGED <<master, USIDR, garbled, lines, uart, selected_slave_id, state,
                 locals, from_SPI, history>>

-----------------------------------------------------------------------------

\* Power-up: the master resets the 6502 while the slave prints its greeting.
Init ==
  /\ m_pc = "idle" /\ op = "reset" /\ script = <<ASSERT_RESB, RELEASE_RESB>>
  /\ SPDR = 0 /\ status = 0 /\ cpu_dev = NO_SLAVE_SELECTED
  /\ USIDR = 0 /\ USIDR_hot = FALSE /\ garbled = {}
  /\ ss = {} /\ miso = FALSE /\ resb = FALSE
  /\ udr = << >> /\ tx_busy = FALSE
  /\ from_SPI = << >> /\ from_UART = << >>
  /\ selected_slave_id = NO_SLAVE_SELECTED
  /\ state = "EXPECTING_REQUEST"
  /\ s_pc = "greet" /\ s_byte = BOOT /\ s_reply = 0 /\ s_port = {}
  /\ accepted = << >> /\ taken = << >> /\ delivered = << >>
  /\ written = << >> /\ sent = << >> /\ answer = << >> /\ cut = FALSE
  /\ late = FALSE

Operation == ReadStatus \/ ReadData \/ WriteData \/ SelectDevice \/ ResetCPU

Exchange == AssertSSA \/ StartShift \/ EndShift \/ ReleaseSSA \/ EndDeviceExchange

SlaveProgram ==
  \/ Sleep \/ CheckQueue \/ Greet \/ Report \/ Ignore \/ SetRESB
  \/ BeginSelect \/ ReadPort \/ WritePort \/ RememberSlave
  \/ QueryStatus \/ DequeueData \/ ExpectData \/ SendData
  \/ LoadUSIDR \/ MarkHot

Next ==
  \/ Operation \/ Exchange \/ StartDeviceExchange
  \/ UartReceive \/ UartTransmit
  \/ SlaveProgram

Spec == Init /\ [][Next]_vars

\* The master's exchanges and the slave's program go on by themselves, and the
\* UART shifts out what it holds.  Nothing obliges the 6502 to start an
\* operation or the host to send.
FairSpec ==
  /\ Spec
  /\ WF_vars(Exchange)
  /\ WF_vars(SlaveProgram)
  /\ WF_vars(UartTransmit)

-----------------------------------------------------------------------------

\* The type of every register, queue and history variable.
TypeOK ==
  /\ m_pc \in {"idle", "armed", "shifting", "shifted", "device"}
  /\ op \in {"none", "status", "read", "write", "select", "reset"}
  /\ script \in Seq(Byte) /\ Len(script) <= 2
  /\ SPDR \in Byte /\ status \in Byte
  /\ cpu_dev \in DeviceId \union {NO_SLAVE_SELECTED}
  /\ USIDR \in Byte /\ USIDR_hot \in BOOLEAN /\ garbled \subseteq {"in", "out"}
  /\ ss \subseteq 0 .. 6 /\ miso \in BOOLEAN /\ resb \in BOOLEAN
  /\ udr \in Seq(Byte) /\ Len(udr) <= 1 /\ tx_busy \in BOOLEAN
  /\ from_SPI \in Seq(Byte) /\ Len(from_SPI) <= SpiCapacity
  /\ from_UART \in Seq(Byte) /\ Len(from_UART) <= UartCapacity
  /\ selected_slave_id \in 0 .. 7
  /\ state \in {"EXPECTING_REQUEST", "EXPECTING_DATA_FOR_UART"}
  /\ s_pc \in {"greet", "tosleep", "asleep", "check", "report", "switch",
               "select", "portread", "remember", "wait", "mark"}
  /\ s_byte \in Byte \union {BOOT}
  /\ s_reply \in Byte /\ s_port \subseteq 0 .. 6
  /\ {accepted, taken, delivered, written, sent, answer} \subseteq Seq(Byte)
  /\ cut \in BOOLEAN /\ late \in BOOLEAN

\* Nothing is going on: the slave sleeps with no request left to handle.
Quiet == op = "none" /\ m_pc = "idle" /\ s_pc = "asleep" /\ from_SPI = << >>

\* The properties of the link are those of a slave that has been quick enough
\* so far (~late).  Of one that has not, none of them holds: an SSA edge that
\* meets select_slave() takes MISO back and releases the device selected before,
\* and select_slave() goes on to drive the new line low all the same.

\* At most one off-board device has its select line low: a selection releases
\* the one before it, although select_slave() itself releases nothing and leaves
\* that to the interrupt that SSA caused (slave main.c:215-257).
AtMostOneSelected == ~late => \A a, b \in ss : a = b

\* The slave and an off-board device never drive MISO at the same time: MISO is
\* floated before a line goes low and taken back after it went high, by an
\* interrupt handler on one side and the main program on the other.
NoContention == ~late => ~(miso /\ ss # {})

\* While the slave is still to handle or handling a request, a device it is to
\* select may not be selected yet.
Handling == from_SPI # << >> \/ s_pc \notin {"check", "tosleep", "asleep"}

\* When the 6502 exchanges a byte with the device it selected, no other device
\* listens in, and none drives MISO together with the slave: the command to
\* select it has gone through the master, the link, the queue and the slave's
\* main program.  It is that device that answers once the slave is done; nothing
\* makes the 6502 wait for that, and a byte exchanged earlier reaches nobody or
\* is cut short.  A program that used the UART meanwhile finds the device
\* released, not another one selected (the FIXME of slave main.c:207).
DeviceReached ==
  m_pc = "device" /\ ~late =>
    \/ cut /\ ss = {} /\ miso
    \/ ~cut /\ ss = {cpu_dev} /\ ~miso
    \/ ~cut /\ ss = {} /\ Handling

\* The byte that the second exchange fetches is the answer to the request of
\* the first, never the empty register's 0x00 nor an older answer
\* (master main.c:676-693).
AnswerFetched ==
  m_pc = "shifted" /\ Len(script) = 1 /\ op \in {"status", "read"} /\ ~late
    => answer = <<SPDR>>

\* Every byte the slave accepted from the host is with the 6502, on its way or
\* still queued: none is lost, repeated or reordered between the receive
\* interrupt, the queue, USIDR and the two exchanges of UART_read().
RxConservation == ~late => accepted = delivered \o taken \o from_UART

\* What leaves on the serial line is what the 6502 wrote, in order, and all of
\* it once the slave is at rest: no byte following SEND_VIA_UART is taken for a
\* request or the other way round.
TxConservation ==
  ~late =>
    /\ Len(sent) <= Len(written) /\ sent = SubSeq(written, 1, Len(sent))
    /\ Quiet => written = sent \o udr

\* loop() sleeps before it looks at the queue, and handles one byte per wake-up
\* (slave main.c:346-353); still it is never asleep with a request waiting.
AsleepMeansDrained == ~late /\ s_pc = "asleep" => from_SPI = << >>

\* A request that has been queued is eventually dequeued, even when the master
\* sends nothing more.
EveryRequestHandled == from_SPI # << >> ~> from_SPI = << >> \/ late

=============================================================================
