------------------------------- MODULE Simulator -------------------------------
(* The host simulator (simulator/main.c, RAM.c, serial_port.c): an iMX23 board  *)
(* that clocks a real 6502, stands in for its RAM and for a serial port, and    *)
(* resets it when the ROM file has changed.  The 6502 is the environment: in    *)
(* each cycle it reads or writes an address, and it finishes the cycle when CLK *)
(* falls.  A half cycle has three steps: what is done before CLK changes, the   *)
(* change of CLK, and what is done after it.                                    *)
EXTENDS RomFile, FiniteSetsExt

CONSTANTS CpuAddresses, \* what the program of the 6502 accesses
          CpuBytes,     \* what it writes into memory
          SERIAL,       \* address of register 0 of the serial port, register 1 follows
          Capacity,     \* queue_capacity() of both queues
          Input, Output \* bytes that are typed and that the 6502 sends, in order

ASSUME SimulatorAssumption ==
    /\ CpuAddresses \subseteq Address /\ CpuAddresses # {} /\ CpuBytes \subseteq Byte
    /\ SERIAL \in Address /\ SERIAL % 2 = 0 /\ SERIAL + 1 \in Address
    /\ Capacity \in 1 .. Base - 1 /\ Input \in Seq(Byte) /\ Output \in Seq(Byte)

VARIABLES pc,           \* where loop() or perform_reset() is
          left,         \* half cycles that wait() has to go
          step,         \* where half_cycle() is: before CLK changes, at it, after it
          parity,       \* half_cycles & 1: this half cycle drives CLK HIGH
          currently_resetting,
          current_address, microprocessor_is,   \* as sampled before CLK last rose
          latched_data, \* as sampled before CLK last fell
          memory, loaded_file_version, st,
          receive_queue, send_queue,
          CLK, RESB, driving, DOUT,     \* pins: levels, DOE of the data bus, its latch
          cpu,          \* the 6502's cycle: address, whether it reads, what it writes
          sequence,     \* cycles its reset sequence still takes
          \* histories
          typed, sent,  \* bytes that came and that went, in order
          written,      \* those that were to go
          delivered,    \* what the 6502 got for each byte that was taken for it
          held,         \* the byte that was taken for it in this cycle
          finished,     \* the cycle that this half cycle has ended, if it has
          unsampled,    \* did perform_reset() raise CLK for this cycle?
          interrupted   \* the address that the 6502 was writing when it was reset

loopVars    == <<pc, left, step, parity, currently_resetting>>
busVars     == <<current_address, microprocessor_is, latched_data>>
ramVars     == <<memory, loaded_file_version, st>>
pins        == <<CLK, RESB, driving, DOUT>>
queues      == <<receive_queue, send_queue>>
cpuVars     == <<cpu, sequence, delivered, unsampled>>
serialVars  == <<typed, sent, written>>
vars == <<fileVars, loopVars, busVars, ramVars, pins, queues, cpuVars, held, finished, interrupted, serialVars>>

SerialPort == {SERIAL, SERIAL + 1}
\* addressed_device; this_device_is_addressed is always true
addressed_device(a) == IF a \in SerialPort THEN "serial_port" ELSE "RAM"

ANY == Base     \* in a history of bytes: one that a reset lost, or made up
NOWHERE == Word
NoCycle == [address |-> 0, reads |-> TRUE, data |-> 0]

--------------------------------------------------------------------------------
(* The bus *)

CpuDrives == CLK = 1 /\ ~cpu.reads

\* data(): what the simulator sees on D0..7.  If nobody drives it the level is
\* anything.
OnBusLate == IF driving THEN {DOUT} ELSE Byte
OnBus == IF CpuDrives THEN {cpu.data} ELSE IF driving THEN {DOUT} ELSE Byte

\* The next cycle.  In reset and in its sequence the 6502 only reads, the stack
\* and the vector; RESB must be high for the sequence to advance.
Cycle == {c \in [address : CpuAddresses, reads : BOOLEAN, data : Byte] : c.reads => c.data = 0}
NextCycle ==
    /\ sequence' = IF RESB = 0 THEN 7 ELSE IF sequence = 0 THEN 0 ELSE sequence - 1
    /\ cpu' \in {c \in Cycle : /\ sequence' > 0 => c.reads /\ c.address \notin SerialPort
                               /\ ~c.reads => IF c.address \in SerialPort
                                              THEN /\ Len(written) < Len(Output)
                                                   /\ c.data = Output[Len(written) + 1]
                                              ELSE c.data \in CpuBytes}

\* CLK falls: the 6502 takes what it reads and goes on.
CpuFalls ==
    /\ delivered' = IF held = <<>> THEN delivered ELSE Append(delivered, DOUT)
    /\ held' = <<>>
    /\ unsampled' = FALSE
    /\ NextCycle

--------------------------------------------------------------------------------
(* Devices *)

\* read_from_serial_port(): the length, or the next byte and one byte less
SerialRead(a) ==
    IF a % 2 = 0 THEN /\ DOUT' = Len(receive_queue) /\ UNCHANGED <<receive_queue, held>>
    ELSE IF receive_queue # <<>>
         THEN /\ DOUT' = Head(receive_queue)
              /\ receive_queue' = Tail(receive_queue)
              /\ held' = <<Head(receive_queue)>>
         ELSE /\ DOUT' = Base - 1 /\ UNCHANGED <<receive_queue, held>>

DeviceRead ==
    IF addressed_device(current_address) = "RAM"
       THEN DOUT' = memory[current_address] /\ UNCHANGED <<receive_queue, held>>
       ELSE SerialRead(current_address)

AcceptInFront(queue, byte) == IF Len(queue) < Capacity THEN <<byte>> \o queue ELSE queue
\* enqueue(), unless the queue is full
Accept(queue, byte) == IF Len(queue) < Capacity THEN Append(queue, byte) ELSE queue

DeviceWrite ==
    IF addressed_device(current_address) = "RAM"
       THEN /\ memory' = [memory EXCEPT ![current_address] = latched_data]
            /\ UNCHANGED send_queue
       ELSE /\ send_queue' = Accept(send_queue, latched_data)
            /\ UNCHANGED memory

\* What the 6502 meant to send, and what goes though it did not mean to.
NoteWritten ==
    written' = IF ~finished.reads /\ finished.address \in SerialPort
                  THEN IF Len(send_queue) < Capacity THEN Append(written, finished.data) ELSE written
                  ELSE IF Len(send_queue) < Len(send_queue') THEN Append(written, ANY) ELSE written

--------------------------------------------------------------------------------
(* half_cycle() *)

\* mutant: the bus is let go only if the device is not addressed, and it always is
LetGoOfOthers == driving
\* The data bus is let go, unless the simulator goes on to serve a read.
LetGo == driving /\ cpu.reads

\* mutant: the address is that of the cycle before
StaleAddress == current_address
SampledAddress == cpu.address

\* Before CLK rises: address and direction are sampled.
Sample ==
    /\ step = "begin" /\ parity = 1 /\ ~currently_resetting
    /\ current_address' = SampledAddress
    /\ microprocessor_is' = IF cpu.reads THEN "READING" ELSE "WRITING"
    /\ driving' = LetGo
    /\ UNCHANGED <<latched_data, memory, CLK, DOUT, queues, cpuVars, held, written>>

\* Before CLK falls: the data of a write is.
Latch ==
    /\ step = "begin" /\ parity = 0 /\ ~currently_resetting
    /\ latched_data' \in IF microprocessor_is = "WRITING" THEN OnBus ELSE {latched_data}
    /\ UNCHANGED <<current_address, microprocessor_is, memory, CLK, driving, DOUT, queues, cpuVars, held, written>>

\* drive_pin(CLK): perform_reset() may have raised it before.
DriveCLK ==
    /\ step = "clock"
    /\ CLK' = parity
    /\ IF CLK = 1 /\ parity = 0 THEN CpuFalls ELSE UNCHANGED <<cpuVars, held>>
    /\ UNCHANGED <<busVars, memory, driving, DOUT, queues, written>>

\* After CLK has risen a read is answered.
Serve ==
    /\ step = "end" /\ parity = 1 /\ ~currently_resetting
    /\ IF microprocessor_is = "READING"
          THEN DeviceRead /\ driving' = TRUE
          ELSE UNCHANGED <<DOUT, receive_queue, held, driving>>
    /\ UNCHANGED <<busVars, memory, CLK, send_queue, cpuVars, written>>

\* After CLK has fallen a write is done.
Store ==
    /\ step = "end" /\ parity = 0 /\ ~currently_resetting
    /\ IF microprocessor_is = "WRITING" THEN DeviceWrite ELSE UNCHANGED <<memory, send_queue>>
    /\ NoteWritten
    /\ UNCHANGED <<busVars, CLK, driving, DOUT, receive_queue, cpuVars, held>>

\* In reset only the clock moves.
NothingInReset ==
    /\ step # "clock" /\ currently_resetting
    /\ UNCHANGED <<busVars, memory, CLK, driving, DOUT, queues, cpuVars, held, written>>

half_cycle ==
    /\ Sample \/ Latch \/ DriveCLK \/ Serve \/ Store \/ NothingInReset
    /\ step' = CASE step = "begin" -> "clock" [] step = "clock" -> "end" [] step = "end" -> "begin"
    /\ parity' = IF step = "end" THEN 1 - parity ELSE parity
    /\ finished' = IF CLK = 1 /\ CLK' = 0 THEN cpu ELSE NoCycle
    /\ UNCHANGED <<fileVars, currently_resetting, loaded_file_version, st, RESB, typed, sent, interrupted>>

--------------------------------------------------------------------------------
(* perform_reset() *)

\* CLK goes HIGH by itself, in whichever half of whichever cycle the 6502 is.
RaiseCLK ==
    /\ pc = "reset"
    /\ currently_resetting' = TRUE
    /\ CLK' = 1
    /\ unsampled' = (CLK = 0)
    /\ interrupted' = IF CLK = 1 /\ ~cpu.reads THEN cpu.address ELSE NOWHERE
    /\ pc' = "pull"
    /\ UNCHANGED <<fileVars, left, step, parity, busVars, ramVars, RESB, driving, DOUT, queues,
                   cpu, sequence, delivered, held, finished, serialVars>>

\* RESB goes LOW: the cycle of the 6502 is cut short, and what was taken for it
\* is lost.
PullRESB ==
    /\ pc = "pull"
    /\ RESB' = 0
    /\ cpu' \in {cpu, [cpu EXCEPT !.reads = TRUE, !.data = 0]}
    /\ sequence' = 7
    /\ delivered' = IF held = <<>> THEN delivered ELSE Append(delivered, ANY)
    /\ held' = <<>>
    /\ pc' = "held" /\ left' = 4
    /\ UNCHANGED <<fileVars, step, parity, currently_resetting, busVars, ramVars, CLK, driving, DOUT,
                   queues, finished, unsampled, interrupted, serialVars>>

\* wait(2) with RESB low, wait(7) for the sequence
Wait ==
    /\ pc \in {"held", "sequence"} /\ left > 0
    /\ half_cycle
    /\ left' = IF step = "end" THEN left - 1 ELSE left
    /\ UNCHANGED pc

ReleaseRESB ==
    /\ pc = "held" /\ left = 0
    /\ RESB' = 1
    /\ currently_resetting' = FALSE
    /\ pc' = "sequence" /\ left' = 14
    /\ UNCHANGED <<fileVars, step, parity, busVars, ramVars, CLK, driving, DOUT, queues, cpuVars, held,
                   finished, interrupted, serialVars>>

EndReset ==
    /\ pc = "sequence" /\ left = 0
    /\ pc' = "loop"
    /\ interrupted' = NOWHERE
    /\ UNCHANGED <<fileVars, left, step, parity, currently_resetting, busVars, ramVars, pins, queues,
                   cpuVars, held, finished, serialVars>>

--------------------------------------------------------------------------------
(* loop(): a half cycle, a look at the file each second, a look at the port     *)
(* every 1000 half cycles.                                                      *)

Run ==
    /\ pc = "loop"
    /\ half_cycle
    /\ UNCHANGED <<pc, left>>

Between == pc = "loop" /\ step = "begin"

\* update_RAM(): stat(), and sleep(1) if the file has changed
CheckFile ==
    /\ Between
    /\ mtime # loaded_file_version
    /\ st' = [mtime |-> mtime, size |-> Len(content)]
    /\ pc' = "sleep"
    /\ UNCHANGED <<fileVars, left, step, parity, currently_resetting, busVars, memory, loaded_file_version,
                   pins, queues, cpuVars, held, finished, interrupted, serialVars>>

Second ==
    /\ pc = "sleep"
    /\ young' = FALSE
    /\ pc' = "load"
    /\ UNCHANGED <<content, mtime, left, step, parity, currently_resetting, busVars, ramVars, pins, queues,
                   cpuVars, held, finished, interrupted, serialVars>>

\* load_prg_file(): a file with fewer bytes than expected is loaded as far as it goes
load_prg_file(f, wanted) ==
    IF TooShort(f) \/ Overflows(f, wanted) THEN memory
    ELSE Image(SubSeq(f, 1, Min({2 + wanted, Len(f)})), memory)

Load ==
    /\ pc = "load"
    /\ memory' = load_prg_file(content, bytes_to_load(st.size))
    /\ loaded_file_version' = st.mtime
    /\ pc' = "reset"
    /\ UNCHANGED <<fileVars, left, step, parity, currently_resetting, busVars, st, pins, queues, cpuVars, held,
                   finished, interrupted, serialVars>>

\* poll_serial_port(): at most one byte in, all that waits out
poll_serial_port ==
    /\ Between
    /\ sent' = sent \o send_queue
    /\ send_queue' = <<>>
    /\ \/ /\ UNCHANGED <<typed, receive_queue>>
       \/ /\ Len(typed) < Len(Input)
          /\ receive_queue' = Accept(receive_queue, Input[Len(typed) + 1])
          /\ typed' = IF Len(receive_queue) < Capacity THEN Append(typed, Input[Len(typed) + 1]) ELSE typed
    /\ UNCHANGED <<fileVars, loopVars, busVars, ramVars, pins, cpuVars, held, finished, interrupted, written>>

Edit ==
    /\ \E f \in Files : Save(f)
    /\ UNCHANGED <<loopVars, busVars, ramVars, pins, queues, cpuVars, held, finished, interrupted, serialVars>>

Clock == SecondOver /\ UNCHANGED <<loopVars, busVars, ramVars, pins, queues, cpuVars, held, finished, interrupted, serialVars>>

--------------------------------------------------------------------------------

\* init() up to its perform_reset(): the data bus is an output, the file is loaded
\* (or is about to be, if there was none).  0 stands for the NOPs that fill memory.
\* What the 6502 is about to do after power-on nobody knows.
Init ==
    /\ FileInit
    /\ pc = "reset" /\ left = 0 /\ step = "begin" /\ parity = 0 /\ currently_resetting = TRUE
    /\ current_address = 0 /\ microprocessor_is = "READING" /\ latched_data = 0
    /\ memory = [a \in Address |-> 0] /\ loaded_file_version = 0 /\ st = [mtime |-> 0, size |-> 0]
    /\ receive_queue = <<>> /\ send_queue = <<>>
    /\ CLK = 0 /\ RESB = 0 /\ driving = TRUE /\ DOUT = 0
    /\ cpu \in Cycle /\ sequence = 7
    /\ typed = <<>> /\ sent = <<>> /\ written = <<>> /\ delivered = <<>> /\ held = <<>>
    /\ finished = NoCycle /\ unsampled = FALSE /\ interrupted = NOWHERE

Next == \/ RaiseCLK \/ PullRESB \/ Wait \/ ReleaseRESB \/ EndReset
        \/ Run \/ CheckFile \/ Second \/ Load \/ poll_serial_port
        \/ Edit \/ Clock

Spec == Init /\ [][Next]_vars

--------------------------------------------------------------------------------
\* The 6502 and the simulator drive the data bus together in one case only: a reset
\* found the 6502 about to write with CLK low, and perform_reset() raises CLK without
\* having let the bus go; until CLK falls.  In the cycles that half_cycle() clocks
\* the bus is let go before CLK rises (simulator main.c:278-296, 366).
NoContention == driving /\ CpuDrives => unsampled

\* Once a reset has been released, whichever half of whichever cycle it came in, every
\* read but that of the cycle in which RESB rose is answered by the device addressed
\* when the 6502 takes it, from the first cycle of the sequence on (simulator
\* main.c:305-325, 366-373): with the memory's cell as it is then, with no more bytes
\* than wait, with the one byte that was taken from the queue for it.
ReadsServed ==
    pc \in {"sequence", "loop"} /\ CLK = 1 /\ parity = 0 /\ cpu.reads /\ sequence < 7 =>
        /\ driving
        /\ cpu.address \notin SerialPort => DOUT = memory[cpu.address]
        /\ cpu.address = SERIAL => DOUT <= Len(receive_queue)
        /\ cpu.address = SERIAL + 1 => DOUT = IF held = <<>> THEN Base - 1 ELSE held[1]
        /\ held # <<>> => cpu.address = SERIAL + 1

\* Memory changes by the loading of the file and by the writes that the 6502 has
\* finished, and by these as the 6502 meant them (simulator main.c:314-332).  Only
\* the first half cycle after a reset that cut a write short takes the old samples for
\* a write, and puts anything where the 6502 was writing then, and nowhere else.
StoresAreWrites ==
    [][\/ pc = "load"
       \/ IF /\ step = "end" /\ step' = "begin" /\ parity = 0 /\ ~currently_resetting
             /\ ~finished.reads /\ finished.address \notin SerialPort
          THEN memory' = [memory EXCEPT ![finished.address] = finished.data]
          ELSE \/ memory' = memory
               \/ /\ pc = "sequence" /\ left = 14 /\ interrupted \in Address
                  /\ \E d \in Byte : memory' = [memory EXCEPT ![interrupted] = d]]_vars

\* The one is the other, except for what a reset lost or made up.
Agrees(marked, bytes) ==
    /\ Len(marked) = Len(bytes)
    /\ \A i \in 1 .. Len(marked) : marked[i] \in {bytes[i], ANY}

\* What was typed and had room reaches the 6502 once and in order, except for a byte
\* that was taken from the queue for a cycle which a reset cut; and what the 6502 wrote
\* and had room is sent once and in order, except that a reset in the middle of a write
\* to the port can send one byte of anything (serial_port.c:30-83, 118-152).  What has
\* no room is dropped.
SerialInOrder ==
    /\ Agrees(delivered \o held \o receive_queue, typed)
    /\ Agrees(written, sent \o send_queue)
================================================================================
