-------------------------------- MODULE R1Master -------------------------------
(* The master AVR of R1 (R1/firmware/master/main.c): it clocks the 6502, stands *)
(* in for its memory and devices, shares its SPI hardware between the 6502's    *)
(* devices and the exchanges with the slave AVR, and obeys the administrator.   *)
(*                                                                              *)
(* The 6502 finishes a bus cycle when PHI2 falls and then shows the address and *)
(* direction of its next one.  What the slave does with an exchange is R1Link's *)
(* subject: here it obeys one that is whole, at once.  Reports of the slow mode *)
(* and other output are left out.                                               *)
EXTENDS Integers, Sequences

CONSTANTS CpuAddresses, \* addresses that the program accesses
          Byte, NOP

Address == 0 .. 65535
RESET_VECTOR == 65532

ASSUME MasterAssumption ==
    /\ CpuAddresses \subseteq Address /\ {0, RESET_VECTOR, RESET_VECTOR + 1} \subseteq CpuAddresses
    /\ {0, 1, NOP} \subseteq Byte

VARIABLES pc,           \* "loop", or where reset() or spi_exchange() is
          script,       \* bytes that spi_exchange() has yet to be called with
          then,         \* what is done after the last of them
          left,         \* half cycles that wait() has to go
          should_run,
          clock,        \* the level that the next half cycle drives PHI2 to
          ready,        \* has the half cycle sampled, and is about to raise PHI2?
          address, operation_requested,     \* as sampled before PHI2 rose
          data_to_drive, driving,           \* PORTC and DDRC
          ram, rom,
          PHI2, SSA, RESB,
          shift,        \* whose byte the SPI hardware shifts: "none", "device", "slave",
                        \* or "cut": the slave's, but the slave was released
          SPDR,         \* whose exchange the byte received last belongs to
          SPIF, armed,  \* the flag; was SPSR read since it was set?
          cpu, sequence,        \* the 6502's cycle; cycles until it leaves reset
          waits,        \* its program wrote SPI data and has not seen TC since
          unsampled,    \* reset() raised PHI2 itself and no half cycle sampled since
          overtaken     \* was there a reset() while the program waited for TC?

control  == <<pc, script, then, left, should_run, ready>>
sampled  == <<address, operation_requested>>
dataBus  == <<data_to_drive, driving>>
memories == <<ram, rom>>
spi      == <<shift, SPDR, SPIF, armed>>
cpuVars  == <<cpu, sequence, waits>>
history  == <<unsampled, overtaken>>
vars == <<control, clock, sampled, dataBus, memories, PHI2, SSA, RESB, spi, cpuVars, history>>

--------------------------------------------------------------------------------
(* The memory map: a device for each page of 256 bytes.                         *)

DEVICE_IN_PAGE(page) ==
    CASE page < 32 -> "RAM"
      [] page = 33 -> "UART"
      [] page \in (32 .. 63) \ {33} -> "SPI"
      [] page \in 64 .. 79 -> "EEPROM"
      [] page >= 80 -> "ROM"

device(a) == DEVICE_IN_PAGE(a \div 256)
IsMemory(a) == device(a) \in {"RAM", "ROM"}

\* rom[] has 4K cells and appears in every 4K from $5000
RomCell(a) == a % 4096

RamCells == {a \in CpuAddresses : device(a) = "RAM"}
RomCells == {RomCell(a) : a \in {b \in CpuAddresses : device(b) = "ROM"}}

\* Register select: SPI decodes two address lines, the UART one
IsSPI(a, register)  == device(a) = "SPI" /\ a % 4 = register
DATA == 0
STATUS == 1
SELECT == 3
IsUART(a) == device(a) = "UART"
TakesExchange(a) == (IsUART(a) /\ a % 2 = 1) \/ IsSPI(a, SELECT)

--------------------------------------------------------------------------------
(* The SPI hardware *)

\* Writing SPDR starts a shift, unless one is under way (write collision); it
\* clears SPIF if SPSR was read since that was set.
WriteSPDR(whose) ==
    /\ shift' = IF shift = "none" THEN whose ELSE shift
    /\ SPIF' = (SPIF /\ ~armed)
    /\ armed' = FALSE
    /\ UNCHANGED SPDR

ReadSPDR == SPIF' = (SPIF /\ ~armed) /\ armed' = FALSE /\ UNCHANGED <<shift, SPDR>>
ReadSPSR == armed' = SPIF /\ UNCHANGED <<shift, SPDR, SPIF>>

ShiftDone ==
    /\ shift # "none"
    /\ SPDR' = shift
    /\ shift' = "none"
    /\ SPIF' = TRUE
    /\ armed' = FALSE
    /\ UNCHANGED <<control, clock, sampled, dataBus, memories, PHI2, SSA, RESB, cpuVars, history>>

--------------------------------------------------------------------------------
(* The 6502 *)

Cycle == [address : CpuAddresses, reads : BOOLEAN, data : Byte]

\* In reset the 6502 reads.  The vector is fetched in the eighth and ninth cycle
\* after the one in which it saw RESB high: the firmware's comment on wait(6) says
\* which cycle was found to read it.
Coming == IF RESB = 0 THEN 9 ELSE IF sequence = 0 THEN 0 ELSE sequence - 1
Fetch(left_to_go) ==
    IF left_to_go = 2 THEN RESET_VECTOR ELSE IF left_to_go = 1 THEN RESET_VECTOR + 1 ELSE 0

\* A program that has written SPI data looks at nothing but the status until TC is set
\* (R1's SPI has no other way), unless a reset() got in between and it ran on NOPs.
Patient(c, w) ==
    w /\ ~overtaken => ~(IsSPI(c.address, DATA) \/ IsSPI(c.address, SELECT) \/ IsUART(c.address))

PollsDone == IsSPI(cpu.address, STATUS) /\ cpu.reads /\ driving /\ data_to_drive = 1
StartsTransfer == IsSPI(cpu.address, DATA) /\ ~cpu.reads

\* Bytes for a device are not told apart.
CpuFalls ==
    IF PHI2 = 0 THEN UNCHANGED cpuVars
    ELSE /\ sequence' = Coming
         /\ waits' = (RESB = 1 /\ (StartsTransfer \/ (waits /\ ~PollsDone)))
         /\ cpu' \in {c \in Cycle : /\ c.reads \/ ~IsMemory(c.address) => c.data = 0
                                    /\ Coming > 0 => c.reads /\ c.address = Fetch(Coming)
                                    /\ Patient(c, waits')}

CpuDrives == PHI2 = 1 /\ ~cpu.reads

--------------------------------------------------------------------------------
(* Devices *)

EndHalfCycle == clock' = 1 - clock /\ UNCHANGED <<pc, script, then>>

\* spi_exchange() with each byte of s, then whatever w names
Exchange(s, w) == pc' = "select" /\ script' = s /\ then' = w /\ UNCHANGED clock

Drive(data) == data_to_drive' = data /\ driving' = TRUE

\* addressed_device->read() at the rise of PHI2, and the bus driven with the value
DeviceRead(a) ==
    \/ IsUART(a) /\ Exchange(<<"UART", "POLL">>, "drive") /\ UNCHANGED <<dataBus, spi>>
    \/ /\ ~IsUART(a)
       /\ EndHalfCycle
       /\ CASE device(a) = "RAM" -> Drive(ram[a]) /\ UNCHANGED spi
            [] device(a) = "ROM" -> Drive(rom[RomCell(a)]) /\ UNCHANGED spi
            [] IsSPI(a, DATA) -> (\E data \in Byte : Drive(data)) /\ ReadSPDR
            [] IsSPI(a, STATUS) -> Drive(IF SPIF THEN 1 ELSE 0) /\ ReadSPSR
            [] OTHER -> Drive(NOP) /\ UNCHANGED spi

\* addressed_device->write() after the fall; ROM is written like RAM
DeviceWrite(a, data) ==
    \/ /\ TakesExchange(a)
       /\ Exchange(IF IsUART(a) THEN <<"UART", "data">> ELSE <<"SELECT">>, "next")
       /\ UNCHANGED <<memories, spi>>
    \/ /\ ~TakesExchange(a)
       /\ EndHalfCycle
       /\ IF device(a) = "RAM" THEN ram' = [ram EXCEPT ![a] = data] ELSE UNCHANGED ram
       /\ IF device(a) = "ROM" THEN rom' = [rom EXCEPT ![RomCell(a)] = data] ELSE UNCHANGED rom
       /\ IF IsSPI(a, DATA) THEN WriteSPDR("device") ELSE UNCHANGED spi

--------------------------------------------------------------------------------
(* half_cycle() *)

\* mutant: the bus is not let go
KeepDriving == driving' = TRUE /\ UNCHANGED data_to_drive

LetGo == driving' = FALSE /\ UNCHANGED data_to_drive

\* Before PHI2 rises: on a write the data bus is let go.
Sample ==
    /\ clock = 1 /\ ready' = TRUE
    /\ address' = cpu.address
    /\ operation_requested' = IF cpu.reads THEN "READ" ELSE "WRITE"
    /\ IF cpu.reads THEN UNCHANGED dataBus ELSE LetGo
    /\ unsampled' = FALSE
    /\ UNCHANGED <<pc, script, then, left, clock, memories, PHI2, SSA, RESB, spi, cpuVars, overtaken>>

Rise ==
    /\ ready /\ ready' = FALSE
    /\ PHI2' = 1
    /\ IF operation_requested = "READ" THEN DeviceRead(address) ELSE EndHalfCycle /\ UNCHANGED <<dataBus, spi>>
    /\ UNCHANGED <<left, sampled, memories, SSA, RESB, cpuVars, history>>

\* mutant: PINC is read after PHI2 fell
LatchedLate == IF driving THEN {data_to_drive} ELSE Byte

\* PINC before PHI2 falls.  With nobody driving it the pull-ups do, or not yet.
latched_data == IF CpuDrives THEN {cpu.data} ELSE IF driving THEN {data_to_drive} ELSE Byte

Fall ==
    /\ clock = 0
    /\ PHI2' = 0
    /\ CpuFalls
    /\ IF operation_requested = "WRITE"
          THEN \E data \in latched_data : DeviceWrite(address, data)
          ELSE EndHalfCycle /\ UNCHANGED <<memories, spi>>
    /\ UNCHANGED <<left, ready, sampled, dataBus, SSA, RESB, history>>

half_cycle == pc = "loop" /\ ~ready /\ (Sample \/ Fall)

FinishHalfCycle == pc = "loop" /\ Rise /\ UNCHANGED should_run

\* Without devices: a read gets a NOP.
RiseInReset ==
    /\ ready /\ ready' = FALSE
    /\ PHI2' = 1
    /\ IF operation_requested = "READ" THEN Drive(NOP) ELSE UNCHANGED dataBus
    /\ UNCHANGED cpuVars

FallInReset ==
    /\ clock = 0
    /\ PHI2' = 0
    /\ CpuFalls
    /\ UNCHANGED <<ready, dataBus>>

half_cycle_during_reset ==
    \/ ~ready /\ Sample /\ UNCHANGED should_run
    \/ /\ RiseInReset \/ FallInReset
       /\ clock' = 1 - clock /\ left' = left - 1
       /\ UNCHANGED <<pc, script, then, should_run, sampled, memories, SSA, RESB, spi, history>>

--------------------------------------------------------------------------------
(* spi_exchange() *)

\* The millisecond that reset() waits first outlasts every byte that is being shifted.
SelectSlave ==
    /\ pc = "select" /\ (then = "held" => shift = "none")
    /\ SSA' = 0
    /\ WriteSPDR("slave")
    /\ pc' = "shift"
    /\ UNCHANGED <<script, then, left, should_run, ready, clock, sampled, dataBus, memories, PHI2, RESB,
                   cpuVars, history>>

\* mutant: the byte is not waited for
FinishedAtOnce == TRUE

\* Waiting for SPIF reads SPSR, taking the byte clears it.
Finished == SPIF

\* The slave obeys what it got whole.
Whole == shift = "none" /\ SPDR = "slave"
Obeyed ==
    RESB' = CASE Head(script) = "ASSERT_RESB" /\ Whole -> 0
              [] Head(script) = "RELEASE_RESB" /\ Whole -> 1
              [] OTHER -> RESB

\* where wait() begins, and how long it is
WAIT_IN_RESET == 2
\* mutant: one cycle too many before the 6502 is served
WaitTooLong == 7
WAIT_AFTER_RESET == 6

ReleaseSlave ==
    /\ pc = "shift" /\ Finished
    /\ SSA' = 1
    /\ SPIF' = FALSE /\ armed' = FALSE
    /\ shift' = IF shift = "slave" THEN "cut" ELSE shift
    /\ Obeyed
    /\ script' = Tail(script)
    /\ IF Tail(script) # <<>>
          THEN pc' = "select" /\ UNCHANGED <<then, left, clock, dataBus>>
          ELSE /\ pc' = IF then \in {"held", "sequence"} THEN then ELSE "loop"
               /\ left' = CASE then = "held" -> 2 * WAIT_IN_RESET
                            [] then = "sequence" -> 2 * WAIT_AFTER_RESET
                            [] OTHER -> left
               /\ clock' = IF then \in {"drive", "next"} THEN 1 - clock ELSE clock
               /\ IF then = "drive" THEN \E data \in Byte : Drive(data) ELSE UNCHANGED dataBus
               /\ then' = "next"
    /\ UNCHANGED <<should_run, ready, sampled, memories, PHI2, SPDR, cpuVars, history>>

--------------------------------------------------------------------------------
(* reset(), and the commands of the administrator *)

\* PHI2 goes high by itself, whatever `clock` says.
reset ==
    /\ PHI2' = 1
    /\ pc' = "select" /\ script' = <<"ASSERT_RESB">> /\ then' = "held"
    /\ unsampled' = (unsampled \/ PHI2 = 0)
    /\ overtaken' = (overtaken \/ waits)
    /\ UNCHANGED <<left, should_run, ready, clock, sampled, dataBus, memories, SSA, RESB, spi, cpuVars>>

wait == pc \in {"held", "sequence"} /\ left > 0 /\ half_cycle_during_reset

\* mutant: RESB is asserted again
EndHeldAsserting ==
    /\ pc = "held" /\ left = 0
    /\ pc' = "select" /\ script' = <<"ASSERT_RESB">> /\ then' = "sequence"
    /\ UNCHANGED <<left, should_run, ready, clock, sampled, dataBus, memories, PHI2, SSA, RESB, spi, cpuVars, history>>

EndHeld ==
    /\ pc = "held" /\ left = 0
    /\ pc' = "select" /\ script' = <<"RELEASE_RESB">> /\ then' = "sequence"
    /\ UNCHANGED <<left, should_run, ready, clock, sampled, dataBus, memories, PHI2, SSA, RESB, spi, cpuVars, history>>

EndReset ==
    /\ pc = "sequence" /\ left = 0
    /\ pc' = "loop"
    /\ UNCHANGED <<script, then, left, should_run, ready, clock, sampled, dataBus, memories, PHI2, SSA, RESB, spi,
                   cpuVars, history>>

Run == should_run /\ half_cycle /\ UNCHANGED should_run

\* main_sink() is called between half cycles.
Listens == pc = "loop" /\ ~ready

Reset == Listens /\ reset

SingleStep == half_cycle /\ should_run' = FALSE

\* f, c and p
Continue(run) ==
    /\ Listens /\ run # should_run
    /\ should_run' = run
    /\ UNCHANGED <<pc, script, then, left, ready, clock, sampled, dataBus, memories, PHI2, SSA, RESB, spi,
                   cpuVars, history>>

\* upload_ROM() stores a byte (Upload has the protocol)
StoreInROM(a, data) ==
    /\ Listens
    /\ rom' = [rom EXCEPT ![RomCell(a)] = data]
    /\ UNCHANGED <<control, clock, sampled, dataBus, ram, PHI2, SSA, RESB, spi, cpuVars, history>>

\* init_ROM() fills the ROM with NOPs, but for the three vectors and the jump that
\* they lead to.
NotNOP == (4090 .. 4095) \union (3840 .. 3842)

\* init(), up to the first exchange of its reset()
Init ==
    /\ pc = "select" /\ script = <<"ASSERT_RESB">> /\ then = "held" /\ left = 0
    /\ should_run = FALSE /\ clock = 0 /\ ready = FALSE
    /\ address = 0 /\ operation_requested = "WRITE"
    /\ data_to_drive = NOP /\ driving = TRUE
    /\ ram = [a \in RamCells |-> NOP]
    /\ rom = [a \in RomCells |-> IF a \in NotNOP THEN 0 ELSE NOP]
    /\ PHI2 = 1 /\ SSA = 1 /\ RESB = 0
    /\ shift = "none" /\ SPDR = "device" /\ SPIF = FALSE /\ armed = FALSE
    /\ cpu = [address |-> 0, reads |-> TRUE, data |-> 0] /\ sequence = 9 /\ waits = FALSE
    /\ unsampled = TRUE /\ overtaken = FALSE

Firmware == SelectSlave \/ ReleaseSlave \/ wait \/ EndHeld \/ EndReset \/ Run \/ FinishHalfCycle
Commands == \/ Reset \/ SingleStep
            \/ \E run \in BOOLEAN : Continue(run)
            \/ \E a \in {b \in CpuAddresses : device(b) = "ROM"}, data \in Byte : StoreInROM(a, data)

Next == Firmware \/ ShiftDone \/ Commands

Spec == Init /\ [][Next]_vars
\* The firmware is the AVR's only program, and its SPI hardware shifts.
FairSpec == Spec /\ WF_vars(Firmware) /\ WF_vars(ShiftDone)

--------------------------------------------------------------------------------
TypeOK ==
    /\ pc \in {"loop", "select", "shift", "held", "sequence"}
    /\ script \in Seq({"ASSERT_RESB", "RELEASE_RESB", "SELECT", "UART", "POLL", "data"})
    /\ then \in {"held", "sequence", "drive", "next"} /\ left \in 0 .. 2 * WAIT_AFTER_RESET
    /\ should_run \in BOOLEAN /\ clock \in {0, 1} /\ ready \in BOOLEAN
    /\ address \in CpuAddresses /\ operation_requested \in {"READ", "WRITE"}
    /\ data_to_drive \in Byte /\ driving \in BOOLEAN
    /\ ram \in [RamCells -> Byte] /\ rom \in [RomCells -> Byte]
    /\ PHI2 \in {0, 1} /\ SSA \in {0, 1} /\ RESB \in {0, 1}
    /\ shift \in {"none", "device", "slave", "cut"} /\ SPDR \in {"device", "slave", "cut"}
    /\ SPIF \in BOOLEAN /\ armed \in BOOLEAN
    /\ cpu \in Cycle /\ sequence \in 0 .. 9 /\ waits \in BOOLEAN
    /\ unsampled \in BOOLEAN /\ overtaken \in BOOLEAN

Resetting == pc \in {"held", "sequence"} \/ (pc \in {"select", "shift"} /\ then \in {"held", "sequence"})

\* The AVR and the 6502 never drive the data bus together, half cycles of a reset
\* included, but from a reset() that raises PHI2 itself, without a look at RWB, up to the
\* next half cycle that samples (master main.c:819-829, 937-944, 985).
NoContention == CpuDrives /\ driving => unsampled

Reading == pc = "loop" /\ PHI2 = 1 /\ cpu.reads /\ sequence <= 2

Served ==
    /\ driving
    /\ device(cpu.address) = "RAM" => data_to_drive = ram[cpu.address]
    /\ device(cpu.address) = "ROM" => data_to_drive = rom[RomCell(cpu.address)]

\* From the reset vector on, whatever the phase of PHI2 at the reset, a read of
\* memory gets what its cell holds when the AVR answers, and nothing disturbs the
\* bus until the read ends (master main.c:890-898, 990-992).  Not promised once a reset
\* overtook a device exchange: the stale SPIF then cuts the command to the slave.
ReadsServed == [][Reading' /\ ~overtaken' => IF Reading THEN UNCHANGED dataBus ELSE Served']_vars

StoreRule ==
    IF PHI2 = 1 /\ PHI2' = 0 /\ ~cpu.reads /\ ~Resetting
       THEN /\ ram' = [a \in RamCells |-> IF a = cpu.address THEN cpu.data ELSE ram[a]]
            /\ rom' = [a \in RomCells |->
                         IF device(cpu.address) = "ROM" /\ cpu.address % 4096 = a THEN cpu.data ELSE rom[a]]
       ELSE ram' = ram /\ (rom' = rom \/ PHI2' = PHI2)

\* A cell of RAM or ROM changes by the write that the 6502 finishes on that cell
\* or one of its mirrors, by every such write that no reset cuts short, and ROM by an
\* upload while PHI2 rests (master main.c:863-910).
StoresAreWrites == [][StoreRule]_vars

\* SSA goes low only when no other byte is being shifted, and stays low until the
\* slave's byte is exchanged (master main.c:434-446), as long as no reset() came while
\* the 6502's program waited for the end of a device exchange: that one's SPIF is taken
\* for the end of the next.
ExchangeWhole ==
    [][~overtaken => /\ SSA = 1 /\ SSA' = 0 => shift = "none"
                     /\ SSA = 0 /\ SSA' = 1 => Whole]_vars

\* A reset that was begun ends, with RESB high and the firmware back in its loop.
ResetEnds == Resetting ~> (pc = "loop" /\ RESB = 1)
================================================================================
