# A formal model of the 6502 computer

This directory holds a TLA+ verification project for the 6502 computer: the
firmware, the FPGA logic and the ROM drivers of the two boards R1 and R2. The
modules are model-checked with TLC on small instances; what matters most is
proved with TLAPS for every value of the constants. `PROJECT.json` maps each
definition to the source lines it models and lists the runs, the mutants that
show that every property can fail, the hazards and the theorems.

    tlc -workers 2 -config R1Prompt.cfg MCR1Link   # a run
    tlapm R1LinkProofs.tla                         # the proofs of a module

## 1. The system

Two computers share a ROM. On **R1** a 6502 is clocked by a *master AVR*, which
drives PHI2 and simulates RAM, ROM and devices; a *slave AVR* at the other end
of an SPI link owns the UART, RESB and the select lines of the off-board SPI
devices. On **R2** the 6502 runs from an SRAM; an *FPGA* provides clock, reset,
cycle counter, UART and SPI as memory-mapped devices, and a *Monitor AVR* can
stop the 6502, take its buses and read or write the SRAM. A host uploads the ROM
image with *dude*; a *simulator* replaces R1's master on an iMX23 board.

| component | state | operations | interacts with |
|---|---|---|---|
| R1 slave: queue (`Queue.c`) | buffer, `head`, `tail`, overflow flag, high-water mark | `enqueue`, `dequeue`, `queue_length` | interrupt handlers put, main program takes |
| R1 slave: firmware | select lines, MISO direction, USIDR and its "hot" flag, `selected_slave_id`, protocol `state`, the queues `from_SPI` and `from_UART` | interrupts: SSA edge, USI overflow, UART receive; main program: sleep, one request per wake-up | the master by SPI exchanges without any handshake but SSA; the host by the serial line |
| R1 master: exchanges | SPI data register, the operation in progress | `spi_exchange`, `UART_read/write`, select register, `reset` | the 6502 by bus accesses; the slave |
| R1 master: bus cycle, devices, commands | PHI2, `clock`, sampled address and RWB, the data lines, RAM, ROM, SPI hardware | `half_cycle`, device reads and writes, `reset`, single-letter commands, upload | the 6502, the administrator's serial line, the slave |
| R2 FPGA: cycle counter | 16-bit count, three-state machine, two toggle/acknowledge pairs | count on the fall of PHI2; read LO, read HI, reset | `ROM/cycle_counter.S` |
| R2 FPGA: reset control, PHI2 source | `strobed` (toggled by RESB), countdown; STOP synchronizer | fall of RESB, fall of PHI2 | open-collector RESB shared with Monitor and switches; STOP and GO of the Monitor; clock scaler |
| R2 FPGA: UART | transmitter and receiver state machines, toggle `acknowledge` | clk tick, PHI2 edges, RXD | `ROM/UART.S` polls the status |
| R2 FPGA: SPI | shifter, toggles `begin_exchange` and `data_consumed`, status | input clock, PHI2 edges | `ROM/SPI.S` |
| R2 FPGA: clock scaler | divisor, latched low half, countdown | clk tick; writes | the 6502 sets its own clock |
| R2 Monitor AVR | directions and levels of the bus pins, latched address | commands from the host | FPGA (STOP, GO), SRAM, RESB |
| ROM: drivers and monitor | zero-page stack, streams, line buffer | polling drivers, command loop | devices of either board |
| `dude` | time and size of the file, bytes left to copy | upload and reset when the file changes; downloads | the command loop of either AVR; the file, which others write |
| simulator | bus lines, memory, two serial queues | half cycles, devices, reset and reload when the file changes | a 6502 on iMX23 GPIO, a terminal, the same file |

What is hard here is not the data but the timing: nearly every pair of parts
talks over wires or shared flags with no acknowledgement. One side is trusted to
be quick (R1's link), two clock domains pass one-bit toggles (cycle counter,
UART, SPI), an edge counts whoever made it (RESB), and an interrupt handler and a
main program share ports and queues. The hazards in `PROJECT.json` are such
places, each at its line.

What makes each component correct:

* queue: what was accepted comes out once, in order; full and empty are told
  apart when the indices wrap.
* R1 link: at most one device selected; MISO never driven twice; the answer that
  is fetched belongs to the request; UART data is neither lost, repeated nor
  reordered; both AVRs agree on what the next byte means; no request is forgotten.
* cycle counter: it is known which accesses start a count, and LO and HI are
  two halves of one count.
* reset control: a strobe holds the 6502 in reset for two whole cycles, once, and
  lets it go.
* UART: every byte written is sent once and unchanged, every byte received is
  reported until it is fetched, and fetched once; the wait for the transmitter ends.
* SPI: the program's byte and the device's change places, whole and once, and
  neither wait of the driver is for something that is over.
* bus of R1 and of the simulator: every read is answered by the device it
  addresses, memory changes by finished writes only, the data bus has one driver,
  from the reset vector on and in whichever half cycle a command arrives.
* bus of R2: the 6502 and the Monitor never drive a line together, no bus cycle
  of one is taken for a cycle of the other, and memory holds what was meant.
* upload: both sides agree on what each byte is, the last save of the file is
  taken up, the image that runs is the file.

## 2. Modules

| module | models |
|---|---|
| `BoundedFifo` | abstract: a bounded first-in first-out queue with its statistics |
| `RingQueue` | `R1/firmware/slave/Queue.c`, `Queue.h` |
| `R1Link` | both AVRs of R1 and the SPI link between them |
| `R1Master` | `R1/firmware/master/main.c`: the bus cycle, memory, devices, `reset()`, the SPI hardware, the commands |
| `CycleCounter` | `cycle_counter.v` with the driver `cycle_counter.S` |
| `ResetControl` | `reset_control.v`, the RESB pin and the source of PHI2 in `top.v` |
| `Mailbox` | abstract: room for one byte, put in when empty, taken out once |
| `FpgaUart` | `UART.v` with the driver `UART.S` and a host on the serial line |
| `ByteSwap` | abstract: what `SPI_exchange` promises |
| `FpgaSpi` | `SPI.v` with the driver `SPI.S` and a device of mode 0 |
| `Monitor` | `R2/monitor/firmware/main.c`, `wiring.h` on the bus with 6502, SRAM and FPGA |
| `RomFile` | the file `/tmp/ROM.prg` and the checks of `load_prg_file()` |
| `Upload` | `ROM/dude/main.c` with the command loop of either AVR |
| `Simulator` | `simulator/main.c`, `RAM.c`, `serial_port.c` |
| `MCR1Link`, `MCFpgaUart`, `MCFpgaSpi`, `MCUpload`, `MCSimulator` | bytes, files, uses and bounds of the instances that TLC checks |
| `R1MasterProofs`, `FpgaUartProofs`, `FpgaSpiProofs`, `MonitorProofs`, `SimulatorProofs`, `UploadProofs` | theorems about the module each is named after |
| `R1LinkProofs` | theorems about `R1Link` and about the slave's queue, `RingQueue` |
| `FpgaClockProofs` | theorems about `ResetControl` and `CycleCounter` |

`Upload` and `Simulator` extend `RomFile`, because `dude` and the simulator
watch the same file with copies of the same checks; `RingQueue`, `FpgaUart` and
`FpgaSpi` instantiate their abstract specifications. Where two components meet,
each module has the other as an environment that is no better behaved than its
own module shows: `R1Link` takes queues as bounded sequences (`RingQueue`),
`R1Master` takes an exchange with the slave as one that is obeyed when it is whole
(`R1Link`), `Monitor` takes RESB as released some time after it was strobed
(`ResetControl`), `Upload` takes a byte stored as stored (`R1Master`, `Monitor`).

### RingQueue

`data`, `head`, `tail`, `overflowed` and `max_length` are the fields of `Queue`;
one action per function. `Size` is the source's `QUEUE_BUFFER_SIZE`, any
positive number in the model: the code's mask of the index is `% Size`, which is
the same thing for the powers of two that `Queue.h` asks for. `ImplementsFifo` is a refinement:
the cells from `tail` to `head` are the contents of a `BoundedFifo` of capacity
`Size - 1`. The comment in `Queue.c:35` that new data overwrites
old is not what the code does; it drops the new byte and sets the flag, and so
does `BoundedFifo`.

### R1Link

The master is a program counter `m_pc` within one exchange (SSA asserted, byte
shifting, byte shifted, SSA released) and a `script`: the bytes that the current
operation of the 6502 has yet to exchange. The slave is its program counter
`s_pc` (a step per point where an interrupt matters: sleeping, looking at the
queue, waiting to print, reading a port, writing it back, remembering the
device, loading USIDR, marking it hot) and its registers. The interrupt handlers
are parts of the master's and the host's actions, because a change of SSA, the
eighth bit or a received frame is what makes them run: `AssertSSA` releases the
selected line, takes MISO over and wakes the program, `EndShift` queues the byte
and clears USIDR, `UartReceive` queues a byte. The queues are sequences of
bounded length, which is what `RingQueue` was shown to be.

What `select_slave()` does to a port is two actions, `ReadPort` and `WritePort`,
because a variable bit number makes `drive_low` a read and a write of the whole
port with interrupts enabled. Printing is kept only as what it does to timing:
it waits for the UART's transmit register and occupies it.

What the firmware trusts to timing is that the slave is done with one byte when
the next comes: `spi_exchange()` pauses for 180 of its clock cycles, and a 6502
instruction or two cycles of PHI2 lie between two operations. `SlowRequests` names the requests with
which the slave may take longer; with the debug output that the source ships with
(`slave/main.c:102`), each select and release prints for more than a millisecond,
so that `R1Prompt.cfg` has these. The master waits for nothing: it begins an
exchange, and shifts, when the slave sleeps or is `Late`, still at such a request;
the first time that an exchange meets it there sets the history `late`. The
properties hold until then, and section 4 says what goes wrong after it. An
exchange with a device, in which the slave has no part, begins whatever the slave
is doing. At power-up the master runs its reset in slow mode, so the slave's
greeting counts as work that is finished before the first shift.

History variables record what was accepted, delivered, written and sent, what
the slave computed (`answer`), and whether the program used the UART in the
middle of its transaction with a device (`cut`).

### CycleCounter

One action per edge of PHI2: `RisingEdge` (the read side) and `FallingEdge` (the counter and
the write side, which run at the same edge and read each other's old values). The
16-bit count is `HiSize * LoSize` wide. The program reads LO and HI and writes the
reset register in any order, in accesses `MinGap` cycles apart, which is the length
of the shortest instruction with an absolute address. A write is not a reset: it is
looked at only in the state that a read of LO leads to. `StartsAgain` names the
cycles that do make the counter start, `since` counts from the last of them, and
`undone` says whether a reset was still pending when LO was read, which is what
undoes the hold before HI is.

### ResetControl

RESB is low when the switch (or the Monitor) or the FPGA pulls it. Each fall of
the line, the FPGA's own included, toggles `strobed`. PHI2 falls when its source
falls or when the multiplexer of `top.v` changes to a source that is low: `Tick`
is an edge of the 12 MHz `clk` with the STOP synchronizer and an arbitrary output
of the clock scaler, `ChangeStop` and `ChangeGo` are the Monitor's pins. An edge
or a short half cycle that a change of source makes counts as a cycle. RESB may
fall any number of times between two falls of PHI2; `edges` keeps whether those
were odd or even in number.

### FpgaUart

`Tick` is an edge of the FPGA's `clk`, at which transmitter, receiver and the
host's line all move; `Rise` and `Fall` are the edges of PHI2, at which a status
read toggles `acknowledge` and a write stores a byte and clears `tx_data_ready`.
PHI2 has at most one edge between two ticks, because the clock scaler toggles it at
a tick and the Monitor is slower, and may be arbitrarily slow. An edge of PHI2
sees all that an earlier tick did: metastability is not modelled.

Bits are counted as in the source: `tx_countdown` runs from `CLK_DIVISOR` to 0 and
then below it, so that a bit sent lasts `CLK_DIVISOR + 1` ticks, while
`rx_countdown` is decremented before it is looked at, so that the receiver samples
every `CLK_DIVISOR` ticks. A byte is a function from bit positions to levels.
What `rx_countdown` does while a START bit is awaited is left out, since the START
bit overwrites it. Of the status only the bits that the driver looks at are kept.
Registers without an initial value are low at power-up.

The program calls `UART_getc` or `UART_putc` when it likes, with any byte, and
takes any number of bus cycles between two accesses, at least one. The host types
its next byte when the last has been fetched, as somebody does who waits for the
echo. With `HalfDuplex` it does not type while the program is inside `UART_putc`.

The histories are the levels seen on the line in the middle of this frame
(`heard`), the byte they make (`sent`), what the host typed, whether a byte that
was received is `waiting`, and the last byte fetched. `TransmitterIsMailbox` and
`ReceiverIsMailbox` are refinements of `Mailbox`: a byte is in the outgoing one from
the write until the second STOP bit is over, and in the incoming one while the
status, or the program that has just read the status, reports it.

### FpgaSpi

`Shift` is a rise of the shifter's input clock, which is PHI2 (then it is part of
`Rise`) or the FPGA's `clk` (`Tick`), as the control register's `ece` says. Of two
non-blocking assignments in the source the later wins, and a blocking one is seen
at once: that is why `countdown` and `sck_adopted` are the new values. `Rise` reads
registers and toggles `data_consumed`, `Fall` writes them and toggles
`begin_exchange`; the phases of `clk` and PHI2 are as in `FpgaUart`. The program is
the driver: `SPI_select`, `SPI_exchange` with its two waits, `SPI_release`, and
writes to the control register and the divisor between exchanges. A cycle without
an access lies between two accesses. The device takes MOSI when SCK rises and
shows its next bit when SCK falls, forgets an unfinished byte when it is selected
anew, and answers with any byte. MISO has any level while no device is selected.
`Reset` happens in the middle of anything.

`SwapsBytes` is a refinement of `ByteSwap`: a byte is loaded from the write until
the shifter is done, then swapped until the program has taken it. It ties the
device's history (`received`) and the program's (`got`) to one exchange: a bit too
many or too few, an exchange begun unbidden or twice, or a byte taken early is not
a step of `ByteSwap`.

### R1Master

`half_cycle()` and `half_cycle_during_reset()` are an action per call when PHI2
falls (`Fall` latches a write and lowers PHI2) and two when it rises: `Sample`
reads address and RWB and lets the bus go for a write, `Rise` raises PHI2 and
serves the access. An access that needs the slave stops in the middle, at
`spi_exchange()`: `SelectSlave` lowers SSA and writes SPDR, `ShiftDone` is the
hardware, and `ReleaseSlave` is enabled by SPIF, which may be left over from a
device exchange. `SPIF` and its clearing by a read of SPSR followed by an access of
SPDR (`armed`) are the data sheet's. `reset()` raises PHI2 in whichever half of a
cycle it is called; its two waits of half cycles are counted in `left`. The
commands are enabled in the loop, where the serial line is polled: a reset too,
whatever the program waits for. `overtaken` records that one came while the program
waited for a device exchange, `unsampled` that PHI2 is high without a look at RWB.

The 6502 shows its next address when PHI2 falls. In reset and for the cycles of
its sequence it only reads; `sequence` counts them down to the two fetches of the
vector. The program uses devices as the drivers do: it reads SPDR only after the
status told it that the exchange was over (`Patient`), and polls.
Addresses are real 16-bit numbers, a handful of them, so that pages and mirrors
are those of the memory map.

### Monitor

Every command is a `script` of pin writes, each a step (`PinWrite`), with reads of
the data bus as `take`; `mode` and `head` are the loop around the scripts, and
`Loop` begins its next round. Between any two steps the clock scaler toggles and
the 6502 finishes cycles (`ClockTick`). A line has a set of possible levels: the
driver's, the pull-up's, or any. The SRAM is transparent: whenever PHI2 is high,
it is selected and RWB says write, it holds what is on the data bus, for every step
in which that is so (`Capture`). `meant` is the memory that the 6502 and the
commands meant to leave.

PHI2 obeys STOP at once here: a pin write takes the AVR at least 271 ns, the two
flip-flops of the FPGA at most 167 ns; `ResetControl` has the flip-flops. A cycle
in which the 6502 was stopped is repeated when it gets the bus back.

### RomFile and Upload

The file changes at any time; its modification time is that of the second, and
`young` says that the second is not over, so that another save would not show.
`dude` is a process with `d_pc`, the AVR a state machine over the bytes it gets
(`a_pc`: a command, its parameters, data). The line is a sequence of letters, each
with what its sender meant it to be (`kind`), which the AVR does not see: `InStep`
says that both agree. `board` chooses R1's master or R2's Monitor, whose commands
differ; `dude` is started for any use on either. It can be stopped at any moment,
and the file be saved, with any size, at any moment too: after `stat()`, in the
`sleep(1)`, in the middle of the copying. `astray` records that `dude` gave up an
image half way or asked the board for what it does not know (`Known`), `told` the
size that the last upload went by. A byte has `Base` values and an address two
bytes, so the truncation to 16 bits of `bytes_in_file - 2` and the wrap-around of
addresses are there.

### Simulator

The loop of `main.c` is `Run`, `CheckFile` and `poll_serial_port` in any order, the
latter two between any two half cycles. A half cycle has three steps: what comes
before CLK changes (`Sample`, `Latch`), the change (`DriveCLK`), and what comes
after (`Serve`, `Store`); so the bus is let go before CLK rises and driven after. A
change of the file leads through `Second`, `Load`, `RaiseCLK`, `PullRESB`, `Wait`,
`ReleaseRESB` and `EndReset`. RESB cuts the cycle of the 6502 short: a byte taken
from the queue for it (`held`) is lost, which the history `delivered` records, and
a write is done with old samples. `unsampled` and `interrupted` record which cycle
that was. `driving` and `DOUT` are the direction and the level of the
data lines. The 6502 is the environment, as in `R1Master`.

## 3. Runs

| run | expects | what it shows |
|---|---|---|
| `ring_queue` | pass | refinement of `BoundedFifo` with buffers of 4 cells and 2 values: all wrap-arounds and overflows |
| `r1_prompt` | pass | select lines, MISO, data and requests of the R1 link with a slave slow at selecting, until an exchange meets it there, and that every request is handled |
| `r1_rx_race` | violation of `RxConservation` | UART frames may arrive during an operation |
| `r1_master` | pass | writes are kept, the bus has one driver, resets end, with every command at any time; reads are served and SSA frames a byte until a reset overtakes a device exchange |
| `cycle_counter` | pass | where counts start, and that pairs are right up to a carry, in any order of accesses |
| `reset_control` | pass | an odd number of falls is held for two cycles, once, and released |
| `fpga_uart` | pass | both directions are mailboxes, bits are sampled where they belong, `UART_putc` loses nothing and returns |
| `fpga_uart_poll` | violation of `NothingMissed` | the host types while the program is in `UART_putc` |
| `fpga_spi` | pass | every exchange swaps one byte, with either clock, across resets, and returns |
| `monitor` | pass | every command takes the bus, does what it means to and nothing else, gives the bus back and ends |
| `upload` | pass | until `dude` leaves the AVR astray: both agree on every byte, the last save is taken up, with the size of the `stat()` before, downloads end with what was asked for |
| `simulator` | pass | what resets in any half cycle do to reads, writes, the bus and the serial port, and that nothing else does |

Bounds and why they suffice:

* `ring_queue`: buffer of 4. Every relation of head and tail occurs; the theorem
  covers all sizes.
* `r1_prompt`: devices 1 and 4 sit on different ports (PORTB and PORTD), so that
  both branches of `SPI_slave_select_asserted()` and re-selection on the same and
  on the other port occur. Data bytes include 1 and 17, which are also codes of
  requests (`ASSERT_RESB`, `SELECT_SLAVE_0 + 1`): data taken for a request would
  change the lines. `SlowRequests` are the two selects and the release. `MaxRx` and
  `MaxTx` bound only how many bytes the histories hold: two written, so that one
  taken for the other, lost or repeated shows, and three received by a queue of two,
  all different (nothing looks at their values). The number of operations is not
  bounded. `MCR1Link!Explored` stops at an exchange that meets the slave late, of
  which no property speaks.
* `cycle_counter`: LO has 8 values instead of 256 and HI 4, so that carries and
  wrap-around are frequent while LO still counts further than `MinGap`, the fewest
  cycles between two accesses.
* `reset_control`: no constants, and nothing is bounded.
* `fpga_uart`: a bit takes 6 ticks instead of 1250 and a byte has 2 bits instead of
  8: the smallest frame with a bit that is neither the first nor the last before
  STOP, and enough ticks that the sampling point moves within a bit without leaving
  it. Every phase of PHI2 against every counter occurs, since PHI2 may stop between
  any two ticks. Both bytes have differing bits, so that order matters. The host's
  bits last 7 ticks, as those of another UART like this one would. The theorems
  about the transmitter need none of these bounds.
* `fpga_spi`: bytes of 3 bits (one that is neither first nor last), a countdown
  modulo 3 instead of 256, the divisor 0 that wraps and the divisor 1; both
  bytes differ from each other's and their own mirror, so that order and direction
  of the bits matter. `Polarities = {0}` is the source's "Assuming mode 0". The
  number of exchanges, resets and changes of clock is not bounded.
* `r1_master`: a cell of RAM, the SPI's data, status and select registers, the UART's
  data register, both cells of the vector and a mirror of the first; two values of a byte. Commands come at
  any time.
* `monitor`: 3 pages of 2 addresses with one internal device, 2 values: enough
  for carries between the address ports, the wrap of a 16-bit address past the
  last page, and a cell next to every cell. `Starts` and `MaxTransfer` bound uploads
  and downloads, one of which wraps. `FreeToggles = {}`: `B` and `C`, which toggle
  BE and GO by hand, are used only while the 6502 is stopped and the AVR is off the bus.
* `upload`: bytes of 4 values, 16 addresses, a ROM of the last 4. The files are
  too short, too long for their address, and three that differ in content or size;
  their bytes are also command letters. `MaxVersions` bounds the seconds in which
  the file is saved; saves within a second are free. `MaxLine` is the host's buffer.
  `MCUpload!Explored`: once the AVR is astray nothing more is saved or started, since
  the properties promise nothing then.
* `simulator`: 9 addresses, of which the program uses the two of the serial port and
  two cells, 3 values, one image for a cell and one file that is too short, queues of 2
  bytes, so that both overflow. The reset comes in every half of every cycle.

### Fairness

`FairSpec` of `R1Link` has weak fairness of the master's exchanges (its loop
has no other exit), of the slave's main program (it is the only program, and an
interrupt handler ends) and of the UART's shifter (hardware). Nothing obliges the
6502 to start an operation or the host to send. `EventuallyReleased` of
`ResetControl` needs PHI2 to run, which nothing guarantees (the Monitor may stop
it), so that assumption is the left side of the property instead of fairness.
`FairSpec` of `FpgaUart` has weak fairness of `Tick` (the oscillator), of `Rise` and
`Fall` (nobody stops PHI2), and strong fairness of the next access of a driver that
was called: its instructions take a few cycles and it has no other way to go. It
is strong because that step is possible only while PHI2 is high. `FpgaSpi` is the same.
`FairSpec` of `R1Master` has weak fairness of the firmware, the AVR's only program,
and of the SPI hardware; that of `Monitor` of the firmware, a host that began an
upload sends its bytes. `FairSpec` of `Upload` has weak fairness of the two processes
and of the clock; nobody must save the file, start `dude` or stop it.

## 4. What the violations show

Two runs end in a violation:

1. **A frame during an operation** (`r1_rx_race`). Each interrupt between the look
   at the queue and `sleep_mode()` is a wake-up spent. A UART interrupt in the
   right place makes the slave sleep on a queued `DEQUEUE_UART_DATA`; the master
   fetches the empty register and the byte is lost to the 6502.
2. **A poll that swallows a byte** (`fpga_uart_poll`). Every read of the status
   acknowledges it, and `UART_putc` reads it only for `tx_data_ready`: a byte that
   arrived meanwhile is in the receiver, but no status says so any more, although
   the bit is documented as "data received (and is waiting)" (`UART.v:6`).

Some of what the code does wrong is in the passing runs too, as a proviso in the
formula of a property, with a history that says when it applies. The models have
these behaviours: take the proviso away (and `Explored` out of the configuration,
where there is one), and TLC finds the property violated.

| property | proviso | what the code does there |
|---|---|---|
| `AtMostOneSelected`, `NoContention` (`R1Link`) and the others of that run | `~late` | An SSA edge meets `select_slave()`: it takes MISO back and releases the device selected before, and `select_slave()` goes on to drive the new line low. Two lines are low, or slave and device drive MISO, against the comment of `slave/main.c:237`-`239`. |
| `DeviceReached` | `Handling` | Nothing makes the 6502 wait for the slave to have selected a device; a byte exchanged earlier reaches nobody. |
| `CountsFromReset` | `since`: which writes start the count | "A write to register 0 resets the counter" (`R2/README.md:39`) holds of a write that finds the count held. One that finds it counting, as the first of `test.S` does, waits for the next read of LO, and a second one takes it back. |
| `ShownUpToCarry` | `~undone` | A reset pending at the read of LO undoes the hold before HI is read. |
| `ShownUpToCarry` | LO about to carry | The hold is acknowledged by the edge that still counts: LO and HI differ by a carry. |
| `StrobeHolds` | `due = "odd"` | An even number of falls of RESB between two falls of PHI2, as a bouncing switch makes, is no strobe to the circuit. |
| `NoContention` (`R1Master`, `Simulator`) | `unsampled` | A reset raises PHI2, or CLK, by itself: a 6502 about to write meets a driven data bus. |
| `ReadsServed`, `ExchangeWhole` (`R1Master`) | `~overtaken` | `spi_exchange()` does not clear SPIF: after a device exchange whose byte nobody fetched, it releases SSA at once, and the slave never gets the command to assert or release RESB. |
| `StoresAreWrites` (`Simulator`) | `interrupted` | A write that a reset cuts short is done in the first half cycle after the reset, with anything. |
| `SerialInOrder` | `ANY` | A byte taken from the queue for a cycle that a reset cuts is lost; a write to the port that it cuts can send anything. |
| `InStep`, `Installed`, `UpToDate` | `~astray` | A file that is shorter than `stat()` said, or Ctrl-C during an image, leaves the AVR waiting for the rest, and the commands that follow are taken for data. |
| `InStep`, `DownloadEnds` | `~astray` | `range` sends a `d` and four parameters, which R2 takes for commands; with `ram` for R2, `D` wants parameters and `dude` waits for ever. |
| `Installed`, `UpToDate` | as many bytes as stat() `told` of | A file that grows in the second of the `stat()` is uploaded up to its old size and remembered as installed. A whole image of the address space (65536 bytes, load address 0) wraps `bytes_to_load` (`dude/main.c:106`) to 0: nothing is uploaded. |

In three places a constant or an environment excludes something; to reproduce, change
the run's configuration:

| change | violated | what happens |
|---|---|---|
| `FpgaSpi.cfg`: `Polarities = {0, 1}` | `SwapsBytes` | With SCK idle high the shifter still samples on the rise ("FIXME: Assuming mode 0", `SPI.v:104`), and the first shift comes before the first sample. |
| `Monitor.cfg`: `FreeToggles = {"GO"}` | `MemoryAsMeant` | `w`, `C`, `u`: `write_to_RAM()` releases the data bus (line 462) before it lowers PHI2 (463), so that the SRAM takes whatever is there. `T`, `F` and `E` disconnect the 6502 without lowering PHI2 first, and a released RWB whose port bit is 0 has no pull-up, against the comments of `main.c:274` and `282`. |
| `R1Prompt.cfg`: `RxDuringExchange = TRUE` | `RxConservation` | As in `r1_rx_race`. |

Seen while modelling and not given a run: R1's master reports the SPI as busy in
every status (`main.c:470`-`478`), on which `SPI_exchange` of the ROM would wait
for ever; `UART.S` tests the transmit bit where R2 has it (4) and not where R1
has it (1).

## 5. What is proved

Assumptions on constants are the named `ASSUME`s of the modules
(sizes that are positive, capacities that are natural numbers, ranges of bytes); TLC evaluates them in every run.

* `R1LinkProofs`:
  * `TypeCorrect`, whatever the timing. `TypeOK` is not inductive: that the
    device a selection leads to exists depends on the shape of the operation's
    script (`Shape`), and that a byte fits a register on what the program can be
    working on (`SelectByte`).
  * for a host that is quiet during an operation, and room for one byte
    (`QuietHost`), whichever requests the slave is slow with: `OneSelected`,
    `NoTwoDrivers`, `SleepsOnlyDrained`. What is invariant is `late \/ IInv`: every
    step sets `late` or preserves `IInv`. `IInv` says which byte the slave may have
    in hand given how far the master is: the byte just exchanged, the opening of an
    operation that is half done, or one that needs no more exchanges (`Hand`); that
    the slave expects data exactly between the two bytes of a write (`StateAgrees`);
    and who drives MISO and the select lines (`Lines`). Without `Hand` one cannot
    exclude that SSA is asserted in the middle of a selection that is not slow;
    without `StateAgrees` not that a data byte is taken for a selection. The steps
    fall into three kinds (`Steps`): those that leave the byte in hand alone, those
    that finish with it, and the arrival of one.
  * for the same host, where the data are: `DeviceIsReached`, `AnswerIsFetched`,
    `ReceivedInOrder`, `WrittenInOrder`. `DataInv` adds to `IInv` what the slave has
    ready for the next exchange of an operation (`Answered`), and that what the 6502
    has read, the byte in the slave's answer and the contents of `from_UART` are together
    what was accepted (`Receiving`); `Sending` says the same of a byte written, which
    is in the master, in hand, queued, or in the transmitter; `Reached` which device
    the selection in hand is going to select, so that cutting it off leaves none.
    Without `Answered` the invariant could not say that a byte which the slave has
    taken out of its queue is the one the master is about to be handed.
  * for the queues themselves: `QueueTypeCorrect`; `QueueRefines`, every step of the
    ring of `RingQueue` is a step of `BoundedFifo` or leaves the contents alone, for every
    buffer size. The argument is about the cells from `tail` to `head` modulo the size.
* `R1MasterProofs`, for all addresses and bytes: `TypeCorrect`, `BusShared`,
  `OnlyWritesStore`, `SelectFramesByte` and `ReadsAnswered`, with resets at any point
  and no hypothesis. `PhaseInv` adds to the types that the
  script of an exchange is never empty and fits the reason for it (`Scripted`), that
  outside the beginning of a reset PHI2 follows `clock`, that while PHI2 is high what
  was sampled is the 6502's cycle and the data lines are let go for a write, unless
  `reset()` raised PHI2 (`InPhase`), that the same is so before PHI2 rises
  (`Poised`), and in which half of a cycle an exchange was begun (`MidCycle`).
  `ShareInv` is about the SPI hardware: SPIF is never set while a byte is shifting
  (`Flagged`), the byte on its way is the slave's while SSA is low (`OwnByte`),
  and, until a reset overtakes a device exchange, no byte and no flag is left over of
  one when `spi_exchange()` is entered (`Yielded`, from `Patient`), and the cycles left to wait match those of the
  6502's reset sequence (`ResbLevel`, `Counted`), without which one cannot tell that the
  vector is fetched from memory that answers.
* `FpgaClockProofs`:
  * `ResetControl`: `TypeCorrect`, `StrobeIsHeld` and `NoSecondReset`, with any number
    of strobes. The invariant says how far a reset that is due has come
    (`Progress`) and where an edge that PHI2 has not seen came from (`Accounted`, `Unseen`).
  * `CycleCounter`: `CountedFromReset` and `ShownUpToTheCarry`, for bytes of any size and
    any order of accesses at least 3 cycles apart (an absolute load or store takes 4;
    with 2 a read of LO in the cycle after the reset would find the state RESET and
    ask for no hold). Neither is inductive: it takes the places where a request can
    be pending (`HoldPending`, `ResetPending`, `Restarting`, `ReadPending`), that a
    count whose LO was read without a reset pending is held (`HeldOnceRead`); the rest
    is arithmetic, the count two behind the cycles modulo the width (`TwoBehind`), and
    the count that LO was read from or the one after it (`LoRead`). `PutTogether` is
    the lemma on the digits: HI of the next count put before LO of this one.

* `FpgaUartProofs`: `TypeCorrect`, `TransmitterRefines` and `WritesAreKept`, for
  every divisor and frame length and whatever the host does. `TypeOK` is not
  inductive alone: that `heard` holds exactly the levels of `frame` sent so far
  (`HeardFits`), that what was read and the argument of `UART_putc` are bytes when
  they are used as such (`ReadFits`, `ArgFits`, `AccessFits`), and that a bit
  that is counted down to has at least one tick left (`CountsDown`) are the other
  parts of `TInv`. `Handshake` is what makes the two clock domains agree:
  `tx_data_ready` is low during a transmission; the program writes only after it
  has seen the bit set, and nothing but its own write can clear it in between; and
  COMPLETE outlives the setting of the bit only until the next tick, which comes
  before another edge of PHI2. So the transmitter is IDLE in the cycle of a write.

  The receiver: `BytesAreDecoded` for every host that `HostKeepsTime`, whatever the
  program does; `ReceiverRefines` and `IndicatorIsTrue` when program and host take
  turns (`HalfDuplex`) besides. `HostKeepsTime` is the receiver's tolerance: at each of
  its sampling points, `FirstSample + j * CLK_DIVISOR` ticks into a frame, the host is
  in the bit that is meant. `FpgaUart.cfg` satisfies it with a host whose bits
  have 7 ticks where the receiver expects 6, and so do the source's numbers (1250,
  8 bits) with every host bit of 1188 to 1319 ticks. `InPhase` is what sampling
  needs: in the middle of a frame, the ticks since its beginning (`Elapsed`) and the
  ticks to the next sampling point add up to that point, what is still on the line
  is the rest of the frame of `typed`, and the bits sampled so far are `typed`'s;
  after the STOP bit is sampled, only that bit can be left. `Handed` follows the flag
  from `rx_data_valid` through the driver's status read to the fetch, and `Turns` says
  that a byte that waits is reported in one place, so that it is fetched once. Without
  turns the last two are false: the run `FpgaUartPoll` shows it.

* `FpgaSpiProofs`: `SwapsWholeBytes`, the refinement of `ByteSwap`, for every length of
  a byte, every divisor, either input clock and resets anywhere, provided that
  the polarity stays 0 (`Polarities \subseteq {LOW}`). The invariant `SpiInv` says what
  the two shift registers hold in the middle of an exchange, each the rest of its own
  byte and the beginning of the other's (`Halfway`, with `Mix`), that SCK rests low
  and the device has its whole answer in between (`AtRest`), that an exchange under
  way is the one the driver waits for and TC is not left over from another
  (`Awaited`), that the shifter has seen the consumption of the data before the next
  access (`Acknowledged`), and that what was read when PHI2 rose is still true when it
  falls (`ReadTrue`). A rise of the input clock is one of six things (`ShiftCases`).

* `MonitorProofs`: `BusIsShared`, `MemoryIsAsMeant`, `CyclesAreSeen` and
  `TakesFromMemory`, for all addresses, bytes, programs and commands, with the
  hypothesis `FreeToggles = {}` of `Monitor.cfg`: `B` and `C` only while the 6502 is
  stopped and the AVR off the bus. (With `C` at any time `MemoryAsMeant` is false,
  section 4.) A command is a script of pin writes, and what can go wrong is between two
  of them, so that the invariant `Inv` speaks about the rest of the script: some
  sequence of states leads through it (`Run`), in each of which the next write is `Fine`,
  to pins from which the loop can go on (`Ready`). `Fine` says that the AVR drives only
  lines that the 6502 has released, puts a byte on the data bus only for a write
  or with PHI2 low, and raises PHI2 for a write only with address and data in place.
  `RunThen` joins two scripts, so that there is a lemma for each function of
  `main.c` and a command is joined from its calls in their order; the way back, from a
  write that is done to the rest of the script, is `RunHead`. `Memory` allows one
  byte to be missing, from the write that puts it on the data bus to the rise
  of PHI2 that stores it. Neither property is inductive without `Run`: the
  pins alone do not tell which write comes next.

* `SimulatorProofs`: `BusIsShared`, `ReadsAreServed`, `SerialIsInOrder` and
  `StoresAreMeant`, for every file, program, typed text and size of the queues, and a
  reset in any half of any cycle. `Inv` says which half cycle comes next from the level
  of CLK (`Clocked`), that the 6502 only reads while the simulator resets it (`Phases`,
  `Silent`), that what was sampled before CLK rose is what the 6502 still does, or that
  the samples are those of the write that a reset cut (`Sampled`, `Stale`, `Cut`), and
  where a byte is that was taken from the queue (`Holding`, `Received`). Without
  `Sampled` the fall of CLK could store a byte for a cycle that the reset has replaced
  anywhere, and not only in the cell of the cut write.

* `UploadProofs`: `BytesInStep`, `FileInstalled` and `DownloadIsWhole`, for all files,
  sizes of a byte, of the ROM and of the RAM, and any interleaving of saves, `dude` and the
  AVR, with saves of any size. There are no hypotheses: `Inv` is `astray \/ UInv`, and
  every step from `UInv` leads to it again or leaves the AVR astray.
  `UploadAssumption` has the letters of the commands differ, as they do. The
  bytes on the line are the difficulty: what the AVR is depends on all of them. `Walk` leads
  from the AVR's state (`Avr`) through the bytes that it has yet to take, each of the kind it
  then waits for (`Fine`), to a state `v`. A byte that `dude` sends lengthens the walk at its
  end (`WalkOn`), one that the AVR takes shortens it at its beginning; so
  everything about `dude` can be said of `v` alone (`Leads`): what the AVR will wait for
  (`Awaited`), which cells will hold what of the file (`Installing`, in terms of what is
  `Loaded`), and what a download will bring back (`Expecting`). `Watching` relates the time
  that `dude` remembers to the file's.

Only model-checked are the liveness properties `EveryRequestHandled`, `PutcReturns`,
`ExchangeReturns`, `EventuallyReleased`, `ResetEnds`, `CommandEnds`, `UpToDate` and
`DownloadEnds`: the prover has no rules for fairness here. Every invariant and every
other property of a passing run has a theorem.

## 6. What is not modelled, and the plan

Left out of modelled components:

* R1's master: the clock rate and mode bits of its SPI (which set `SPI2X` by its bit
  number and so change nothing), the reports of the slow mode, the trace flag.
* The Monitor: `A` latches three hexadecimal digits (`Latchable`); `F` writes `$ea` to
  the addresses of internal devices too, and its pulses of GO count as cycles
  of PHI2 for the FPGA, which the FPGA's models see as cycles like others; the dump of
  the pages `$7e` and `$7f` overflows an `int` of 16 bits, which wraps here.
* Uploads: the serial line loses nothing. A lost byte leaves the AVR waiting with
  PHI2 stopped, as an image that ends early does (`astray`): no timeout exists to be
  modelled.
* Metastability between the clocks of the FPGA.

Not modelled yet, in the order of the plan:

1. The SPI flash driver of the ROM on `ByteSwap`, with an external model of the
   flash; the clock scaler composed with `ResetControl`.
2. The ROM's programs: the zero-page stack and the line editor are candidates for
   pure operators, if worth it.

Not going to be modelled: the free-run simulator (it toggles the clock of a 6502
whose data lines are wired to NOP and displays the pins), printed circuit boards
and 3D parts, Makefiles, pin constraints, test benches, the generated instruction
tables, terminal escape sequences and memory-mapped GPIO access: no behaviour of
their own.
