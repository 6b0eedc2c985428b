-------------------------------- MODULE Monitor --------------------------------
(* The Monitor AVR of R2 (R2/monitor/firmware/main.c, wiring.h) on the bus that *)
(* it shares with the 6502, the SRAM and the FPGA: it stops the 6502, takes the *)
(* bus from it, reads and writes, and gives it back.                            *)
(*                                                                              *)
(* A command is a script of pin writes, one a step, between which the FPGA's    *)
(* clock scaler and the 6502 go on.  The AVR runs at 7.3728 MHz and needs 271 ns*)
(* for a pin write, the FPGA 167 ns at most to obey STOP: PHI2 follows STOP at  *)
(* once here (ResetControl has the two flip-flops).  What the serial line       *)
(* carries is Upload's subject.                                                 *)
EXTENDS Integers, Sequences

CONSTANTS
    Pages, Page,        \* pages of memory, addresses in one: 256 and 256
    Values,             \* values of a byte: 256
    Internal,           \* addresses of devices in the FPGA
    NOP,
    Latchable,          \* what 'A' can make of three characters: 12 bits
    CpuAddresses,       \* that the program accesses
    Starts, MaxTransfer,        \* bounds: where an upload or a download begins, its bytes
    FreeToggles         \* which of 'B' and 'C' are used at any time, not only for tests

Word    == Pages * Page
Address == 0 .. Word - 1
Byte    == 0 .. Values - 1
SRAM    == Address \ Internal
VECTOR  == Word - 4
READ    == 1
WRITE   == 0

ASSUME MonitorAssumption ==
    /\ Pages \in Nat /\ Page \in Nat /\ Values \in Nat \ {0} /\ 2 * Page < Word /\ 4 <= Word
    /\ Internal \subseteq Address /\ NOP \in Byte
    /\ Latchable \subseteq SRAM /\ 0 \in Latchable
    /\ {0, Word - 1, VECTOR} \subseteq SRAM
    /\ CpuAddresses \subseteq Address /\ CpuAddresses # {}
    /\ Starts \subseteq Address /\ MaxTransfer \in 0 .. Word - 1
    /\ FreeToggles \subseteq {"BE", "GO"}

VARIABLES
    pin,        \* the AVR's outputs: levels, and directions (DDR)
    script,     \* pin writes to come
    mode,       \* what the loop does that they belong to
    head,       \* the address it handles
    stopAt,     \* and the one it stops at
    got,        \* the byte it took from the bus
    latched_address,
    iphi2,      \* the clock scaler's output, 0 while it does not matter
    cpu,        \* the 6502's bus cycle
    resetting,  \* is RESB low?
    sram,
    meant       \* history: what the 6502 and the commands wrote

avrVars == <<pin, script, mode, head, stopAt, got, latched_address>>
cpuVars == <<cpu, resetting>>
vars    == <<avrVars, iphi2, cpuVars, sram, meant>>

Pins == [STOP : {0, 1}, BE : {0, 1}, GO : {0, 1}, RESB : {0, 1},
         RWB : {0, 1}, driveRWB : BOOLEAN,
         PORTA : 0 .. Pages - 1, PORTB : 0 .. Page - 1, driveAddress : BOOLEAN,
         PORTC : Byte, driveData : BOOLEAN]

Cycle == {c \in [address : CpuAddresses, rwb : {READ, WRITE}, data : Byte] : c.rwb = READ => c.data = 0}

--------------------------------------------------------------------------------
(* The bus.  A line that nobody drives may have any level, one with a pull-up   *)
(* is high.  p: the pins, c: the 6502's cycle.                                  *)

Phi2(p, osc) == IF p.STOP = 0 THEN p.GO ELSE osc
PHI2 == Phi2(pin, iphi2)

AddressLines(p, c) ==
    IF p.driveAddress THEN {p.PORTA * Page + p.PORTB}
    ELSE IF p.BE = 1 THEN {c.address} ELSE Address

RWBLine(p, c) ==
    IF p.driveRWB THEN {p.RWB}
    ELSE IF p.BE = 1 THEN {c.rwb}
    ELSE IF p.RWB = 1 THEN {READ} ELSE {READ, WRITE}

CpuDrivesData(p, c) == p.BE = 1 /\ c.rwb = WRITE

\* On the data bus when no memory or device drives it
Written(p, c) ==
    IF p.driveData THEN {p.PORTC} ELSE IF CpuDrivesData(p, c) THEN {c.data} ELSE Byte

\* The SRAM is selected while PHI2 is high, and then writes what it sees.
\* commanded: the byte that the AVR has just put there for `head`, if any.
Capture(p, c, osc, commanded) ==
    /\ \E a \in AddressLines(p, c), w \in RWBLine(p, c), d \in Written(p, c) :
          sram' = IF Phi2(p, osc) = 1 /\ w = WRITE /\ a \in SRAM
                     THEN [sram EXCEPT ![a] = d] ELSE sram
    /\ meant' = IF Phi2(p, osc) = 1 /\ CpuDrivesData(p, c) /\ c.address \in SRAM
                   THEN [meant EXCEPT ![c.address] = c.data]
                   ELSE [a \in SRAM |-> IF a = head /\ commanded THEN p.PORTC ELSE meant[a]]

--------------------------------------------------------------------------------
(* What the commands do to the pins                                             *)

low(a)  == a % Page
high(a) == a \div Page

drive_address_bus(a) == << <<"PORTA", high(a)>>, <<"PORTB", low(a)>>, <<"driveAddress", TRUE>> >>
release_address_bus ==
    << <<"driveAddress", FALSE>>, <<"PORTA", Pages - 1>>, <<"PORTB", Page - 1>> >>
drive_data_bus(d) == << <<"PORTC", d>>, <<"driveData", TRUE>> >>
release_data_bus == << <<"driveData", FALSE>>, <<"PORTC", Values - 1>> >>
PHI2_low  == << <<"GO", 0>> >>
PHI2_high == << <<"GO", 1>> >>
RWB_read  == << <<"RWB", READ>> >>
RWB_write == << <<"RWB", WRITE>> >>
drive_RWB == << <<"driveRWB", TRUE>> >>
release_RWB == << <<"driveRWB", FALSE>> >>
disconnect_6502_from_bus == << <<"STOP", 0>>, <<"BE", 0>> >>

\* mutant: the 6502 goes on before it has the bus
reconnect_early == << <<"STOP", 1>>, <<"BE", 1>> >>
reconnect_6502_to_bus == << <<"BE", 1>>, <<"STOP", 1>> >>

\* value_on_data_bus()
Take == << <<"take", 0>> >>

\* mutant: the address is released last
release_buses_late ==
    PHI2_low \o release_data_bus \o release_RWB \o reconnect_6502_to_bus \o release_address_bus
release_buses ==
    PHI2_low \o release_data_bus \o release_RWB \o release_address_bus \o reconnect_6502_to_bus

\* mutant: the byte is taken before PHI2 rises
read_early(a) ==
    PHI2_low \o disconnect_6502_from_bus \o release_data_bus \o RWB_read
        \o drive_address_bus(a) \o drive_RWB \o Take \o PHI2_high \o PHI2_low
read_from_address(a) ==
    PHI2_low \o disconnect_6502_from_bus \o release_data_bus \o RWB_read
        \o drive_address_bus(a) \o drive_RWB \o PHI2_high \o Take \o PHI2_low

write_to_address(a, d) ==
    PHI2_low \o disconnect_6502_from_bus \o drive_address_bus(a) \o RWB_write
        \o drive_data_bus(d) \o drive_RWB \o PHI2_high \o PHI2_low

begin_read_from_RAM ==
    PHI2_low \o disconnect_6502_from_bus \o release_data_bus \o RWB_read \o drive_RWB
        \o drive_address_bus(VECTOR) \o PHI2_high

begin_write_to_RAM ==
    release_data_bus \o PHI2_low \o disconnect_6502_from_bus \o RWB_read \o drive_RWB
        \o drive_address_bus(VECTOR) \o PHI2_high

\* What test_RAM() writes at a
expected(a) == (IF a % 2 = 0 THEN low(a) ELSE high(a)) % Values

\* mutant: PHI2 stays high while the address changes
upload_byte_high(a, d) == drive_address_bus(a) \o RWB_write \o drive_data_bus(d) \o PHI2_high
upload_byte(a, d) == PHI2_low \o drive_address_bus(a) \o RWB_write \o drive_data_bus(d) \o PHI2_high

download_byte(a) == drive_address_bus(a) \o Take

\* One round of each loop; an upload waits for a byte first.
Round(m, a) ==
    CASE m = "fill"     -> {write_to_address(a, NOP)}
      [] m = "test"     -> {write_to_address(a, expected(a))}
      [] m = "verify"   -> {read_from_address(a)}
      [] m = "dump"     -> {read_from_address(a)}
      [] m = "download" -> {download_byte(a)}
      [] m = "upload"   -> {upload_byte(a, d) : d \in Byte}

\* uint16_t
Plus(a, n) == (a + n) % Word

--------------------------------------------------------------------------------
(* The firmware *)

PinWrite ==
    /\ script # <<>>
    /\ Head(script)[1] # "take"
    /\ pin' = [pin EXCEPT ![Head(script)[1]] = Head(script)[2]]
    /\ resetting' = (resetting \/ pin'.RESB = 0)
    /\ script' = Tail(script)
    /\ iphi2' \in (IF pin'.STOP = 0 THEN {0} ELSE IF pin.STOP = 0 THEN {0, 1} ELSE {iphi2})
    /\ Capture(pin', cpu, iphi2', Head(script)[1] = "driveData" /\ pin'.driveData)
    /\ UNCHANGED <<mode, head, stopAt, got, latched_address, cpu>>

\* What may be on the data bus with the address lines at a and RWB at w.  The SRAM
\* drives it only if selected, which takes PHI2 high, and read; a device drives
\* anything.
OnDataBus(a, w) ==
    IF a \in SRAM /\ PHI2 = 1 /\ w = READ THEN {sram[a]}
    ELSE IF a \in SRAM THEN Written(pin, cpu)
    ELSE Byte

TakeByte ==
    /\ script # <<>>
    /\ Head(script)[1] = "take"
    /\ \E a \in AddressLines(pin, cpu), w \in RWBLine(pin, cpu) : got' \in OnDataBus(a, w)
    /\ script' = Tail(script)
    /\ UNCHANGED <<pin, mode, head, stopAt, latched_address, iphi2, cpuVars, sram, meant>>

\* A loop goes on to the next address, ends, or begins to verify.
Loop ==
    /\ script = <<>> /\ mode # "idle"
    /\ LET wrong == mode = "verify" /\ got # expected(head)
           next == Plus(head, 1)
       IN \/ /\ wrong \/ (next = stopAt /\ mode # "test")
             /\ mode' = "idle"
             /\ script' = release_buses
             /\ head' = 0 /\ stopAt' = 0
          \/ /\ ~wrong /\ next # stopAt
             /\ script' \in Round(mode, next)
             /\ head' = next
             /\ UNCHANGED <<mode, stopAt>>
          \/ /\ next = stopAt /\ mode = "test"
             /\ mode' = "verify"
             /\ head' = 0
             /\ script' \in Round("verify", 0)
             /\ UNCHANGED stopAt
    /\ got' = 0
    /\ UNCHANGED <<pin, latched_address, iphi2, cpuVars, sram, meant>>

--------------------------------------------------------------------------------
(* poll_UART() *)

Begin(m, h, stop, s) ==
    /\ mode = "idle" /\ script = <<>>
    /\ mode' = m /\ head' = h /\ stopAt' = stop /\ script' = s
    /\ UNCHANGED <<pin, got, iphi2, cpuVars, sram, meant>>

LatchAddress(a) == Begin("idle", 0, 0, <<>>) /\ latched_address' = a

WriteLatched(d) ==
    Begin("idle", latched_address, 0, write_to_address(latched_address, d)) /\ UNCHANGED latched_address

Fill ==
    /\ Begin("fill", 0, 0, disconnect_6502_from_bus \o write_to_address(0, NOP))
    /\ UNCHANGED latched_address

TestRAM ==
    /\ Begin("test", 0, 0, disconnect_6502_from_bus \o write_to_address(0, expected(0)))
    /\ UNCHANGED latched_address

\* In 16 bits; mutant: in 32 bits, which the address never reaches
DumpEndWide(start) == start + 2 * Page
DumpEnd(start) == Plus(start, 2 * Page)

DumpRAM(addr_hi) ==
    LET start == addr_hi * Page
    IN /\ Begin("dump", Plus(start, Word - 1), DumpEnd(start), disconnect_6502_from_bus)
       /\ UNCHANGED latched_address

Download(a, n) ==
    Begin("download", Plus(a, Word - 1), Plus(a, n), begin_read_from_RAM) /\ UNCHANGED latched_address

Upload(a, n) ==
    Begin("upload", Plus(a, Word - 1), Plus(a, n), begin_write_to_RAM) /\ UNCHANGED latched_address

ResetRequest == Begin("idle", 0, 0, << <<"RESB", 0>>, <<"RESB", 1>> >>) /\ UNCHANGED latched_address

ReleaseBuses == Begin("idle", 0, 0, release_buses) /\ UNCHANGED latched_address

\* 'B' and 'C', for tests while the 6502 is stopped and the AVR is not on the bus
Toggle(p) ==
    /\ p \in FreeToggles \/ (pin.STOP = 0 /\ ~pin.driveAddress)
    /\ Begin("idle", 0, 0, << <<p, 1 - pin[p]>> >>)
    /\ UNCHANGED latched_address

Command ==
    \/ \E a \in Latchable : LatchAddress(a)
    \/ \E d \in Byte : WriteLatched(d)
    \/ Fill
    \/ TestRAM
    \/ \E p \in 0 .. Pages - 1 : DumpRAM(p)
    \/ \E a \in Starts, n \in 0 .. MaxTransfer : Download(a, n) \/ Upload(a, n)
    \/ ResetRequest
    \/ ReleaseBuses
    \/ \E p \in {"BE", "GO"} : Toggle(p)

--------------------------------------------------------------------------------
(* The clock scaler and the 6502 *)

\* RDY is STOP: the 6502 finishes its cycle when PHI2 falls and STOP is high.  In
\* reset it reads; the FPGA lets go of RESB in time (ResetControl).
ClockTick ==
    /\ pin.STOP = 1
    /\ iphi2' = 1 - iphi2
    /\ IF iphi2 = 1
          THEN /\ resetting' \in (IF pin.RESB = 1 THEN {FALSE, resetting} ELSE {TRUE})
               /\ cpu' \in {c \in Cycle : resetting => c.rwb = READ}
          ELSE UNCHANGED cpuVars
    /\ Capture(pin, cpu', iphi2', FALSE)
    /\ UNCHANGED avrVars

Init ==
    /\ pin = [STOP |-> 0, BE |-> 0, GO |-> 1, RESB |-> 0, RWB |-> READ, driveRWB |-> FALSE,
              PORTA |-> Pages - 1, PORTB |-> Page - 1, driveAddress |-> FALSE,
              PORTC |-> Values - 1, driveData |-> FALSE]
    /\ script = <<>> /\ mode = "idle" /\ head = 0 /\ stopAt = 0 /\ got = 0
    /\ latched_address = 0
    /\ iphi2 = 0
    /\ cpu \in {c \in Cycle : c.rwb = READ} /\ resetting = TRUE
    /\ sram = [a \in SRAM |-> 0] /\ meant = sram

Firmware == PinWrite \/ TakeByte \/ Loop

Next == Firmware \/ Command \/ ClockTick

Spec == Init /\ [][Next]_vars
\* The firmware is the AVR's only program; a host that uploads sends its bytes.
FairSpec == Spec /\ WF_vars(Firmware)

--------------------------------------------------------------------------------
\* The AVR and the 6502 never drive a line of the bus together, nor do the AVR and
\* the SRAM or a device of the FPGA: those drive the data bus when RWB says READ,
\* the SRAM only while PHI2 is high (main.c:268-277, 287-292, top.v:294).
NoContention ==
    /\ pin.driveAddress \/ pin.driveRWB \/ pin.driveData => pin.BE = 0
    /\ pin.driveData =>
          \A a \in AddressLines(pin, cpu) :
              READ \in RWBLine(pin, cpu) => a \in SRAM /\ PHI2 = 0

\* Whenever the AVR is between two of its scripts the SRAM holds what the 6502 and
\* the commands wrote, each at its address, and nothing else (main.c:472).
MemoryAsMeant == script = <<>> => sram = meant

\* The 6502 finishes a cycle only when it is connected and has the bus to itself:
\* neither one of the Monitor's nor one that nobody saw (main.c:270-276).
FinishesConnected ==
    [][PHI2 = 1 /\ PHI2' = 0 /\ pin.STOP = 1 /\ pin'.STOP = 1
          => pin.BE = 1 /\ ~pin.driveAddress /\ ~pin.driveRWB]_vars

\* What the AVR takes for an address of the SRAM is what that cell holds, although
\* it answers only with its address out, RWB at READ and PHI2 high (main.c:287-301,
\* 434-449, address_decoder.v:39).
TakesTheCell ==
    [][script # <<>> /\ script' = Tail(script) /\ Head(script)[1] = "take" /\ head \in SRAM
          => got' = sram[head]]_vars

\* Every command ends: the loops over all addresses, and those that wrap (main.c:393).
CommandEnds == mode # "idle" ~> (mode = "idle" /\ script = <<>>)

================================================================================
