---------------------------- MODULE R1MasterProofs -----------------------------
(* Proofs about the master AVR of R1, for all addresses the 6502 may access and *)
(* all values of a byte: the firmware is always in step with PHI2 but for the   *)
(* beginning of a reset, from which it follows who drives the data bus and what *)
(* the memories hold; and it shares its SPI hardware until a reset overtakes a  *)
(* device exchange.                                                             *)
EXTENDS R1Master, SequenceTheorems, TLAPS

Requests == {"ASSERT_RESB", "RELEASE_RESB", "SELECT", "UART", "POLL", "data"}

FlowType ==
    /\ pc \in {"loop", "select", "shift", "held", "sequence"}
    /\ script \in Seq(Requests)
    /\ then \in {"held", "sequence", "drive", "next"} /\ left \in 0 .. 12
    /\ should_run \in BOOLEAN /\ clock \in {0, 1} /\ ready \in BOOLEAN
BusType ==
    /\ address \in CpuAddresses /\ operation_requested \in {"READ", "WRITE"}
    /\ data_to_drive \in Byte /\ driving \in BOOLEAN
    /\ PHI2 \in {0, 1} /\ SSA \in {0, 1} /\ RESB \in {0, 1}
MemoryType == ram \in [RamCells -> Byte] /\ rom \in [RomCells -> Byte]
SpiType ==
    /\ shift \in {"none", "device", "slave", "cut"} /\ SPDR \in {"device", "slave", "cut"}
    /\ SPIF \in BOOLEAN /\ armed \in BOOLEAN
CpuType == cpu \in Cycle /\ sequence \in 0 .. 9 /\ waits \in BOOLEAN
HistoryType == unsampled \in BOOLEAN /\ overtaken \in BOOLEAN

LEMMA TypeParts == TypeOK <=> FlowType /\ BusType /\ MemoryType /\ SpiType /\ CpuType /\ HistoryType
BY DEF TypeOK, FlowType, BusType, MemoryType, SpiType, CpuType, HistoryType, Requests, WAIT_AFTER_RESET

\* What is sampled is the 6502's cycle.
Sampled == address = cpu.address /\ (operation_requested = "READ" <=> cpu.reads)

--------------------------------------------------------------------------------
(* What half_cycle() does, case by case                                         *)

\* The devices' reads and writes, as far as the SPI hardware is concerned.
SpiRead ==
    \/ IsSPI(cpu.address, DATA) /\ ReadSPDR
    \/ IsSPI(cpu.address, STATUS) /\ data_to_drive' = (IF SPIF THEN 1 ELSE 0) /\ ReadSPSR
    \/ ~IsSPI(cpu.address, STATUS) /\ UNCHANGED spi
SpiWrite ==
    \/ IsSPI(address, DATA) /\ WriteSPDR("device")
    \/ ~IsSPI(address, DATA) /\ UNCHANGED spi

RiseToExchange ==
    /\ cpu.reads /\ IsUART(cpu.address)
    /\ pc' = "select" /\ script' = <<"UART", "POLL">> /\ then' = "drive" /\ clock' = clock
    /\ UNCHANGED <<data_to_drive, driving, spi>>
RiseAndServe ==
    /\ cpu.reads
    /\ clock' = 1 - clock /\ UNCHANGED <<pc, script, then>>
    /\ driving' = TRUE /\ data_to_drive' \in Byte
    /\ device(cpu.address) = "RAM" => data_to_drive' = ram[cpu.address]
    /\ device(cpu.address) = "ROM" => data_to_drive' = rom[RomCell(cpu.address)]
    /\ SpiRead
RiseForWrite ==
    /\ ~cpu.reads
    /\ clock' = 1 - clock /\ UNCHANGED <<pc, script, then>>
    /\ driving' = driving /\ data_to_drive' = data_to_drive
    /\ UNCHANGED spi

LEMMA Constants ==
    /\ 0 \in CpuAddresses /\ RESET_VECTOR \in CpuAddresses /\ RESET_VECTOR + 1 \in CpuAddresses
    /\ 0 \in Byte /\ 1 \in Byte /\ NOP \in Byte
<1>1. {0, RESET_VECTOR, RESET_VECTOR + 1} \subseteq CpuAddresses
  BY MasterAssumption
<1>2. {0, 1, NOP} \subseteq Byte
  BY MasterAssumption
<1> QED
  BY <1>1, <1>2

LEMMA Cells ==
    /\ \A a \in CpuAddresses : device(a) = "RAM" => a \in RamCells
    /\ \A a \in CpuAddresses : device(a) = "ROM" => RomCell(a) \in RomCells
BY DEF RamCells, RomCells

LEMMA RiseCases ==
    ASSUME BusType, MemoryType, CpuType, Sampled, Rise
    PROVE  RiseToExchange \/ RiseAndServe \/ RiseForWrite
<1> address = cpu.address
  BY DEF Sampled
<1> cpu.reads => operation_requested = "READ"
  BY DEF Sampled
<1>1. CASE ~cpu.reads
  <2>1. operation_requested # "READ"
    BY <1>1 DEF Sampled
  <2> QED
    BY <1>1, <2>1 DEF Rise, EndHalfCycle, dataBus, RiseForWrite
<1>2. CASE cpu.reads /\ IsUART(cpu.address)
  BY <1>2 DEF Rise, DeviceRead, Exchange, dataBus, RiseToExchange
<1>3. CASE cpu.reads /\ ~IsUART(cpu.address)
  <2>1. clock' = 1 - clock /\ UNCHANGED <<pc, script, then>>
    BY <1>3 DEF Rise, DeviceRead, EndHalfCycle
  <2>2. cpu.address \in CpuAddresses
    BY DEF CpuType, Cycle
  <2>3. CASE device(cpu.address) = "RAM"
    <3>1. Drive(ram[cpu.address]) /\ UNCHANGED spi
      BY <1>3, <2>3 DEF Rise, DeviceRead, IsSPI
    <3>2. ram[cpu.address] \in Byte
      BY <2>2, <2>3, Cells DEF MemoryType
    <3> QED
      BY <1>3, <2>1, <2>3, <3>1, <3>2 DEF RiseAndServe, Drive, SpiRead, IsSPI
  <2>4. CASE device(cpu.address) = "ROM"
    <3>1. Drive(rom[RomCell(cpu.address)]) /\ UNCHANGED spi
      BY <1>3, <2>4 DEF Rise, DeviceRead, IsSPI
    <3>2. rom[RomCell(cpu.address)] \in Byte
      BY <2>2, <2>4, Cells DEF MemoryType
    <3> QED
      BY <1>3, <2>1, <2>4, <3>1, <3>2 DEF RiseAndServe, Drive, SpiRead, IsSPI
  <2>5. CASE IsSPI(cpu.address, DATA)
    <3>1. (\E data \in Byte : Drive(data)) /\ ReadSPDR
      BY <1>3, <2>5 DEF Rise, DeviceRead, IsSPI, DATA, STATUS
    <3> QED
      BY <1>3, <2>1, <2>5, <3>1 DEF RiseAndServe, Drive, SpiRead, IsSPI
  <2>6. CASE IsSPI(cpu.address, STATUS)
    <3>1. Drive(IF SPIF THEN 1 ELSE 0) /\ ReadSPSR
      BY <1>3, <2>6 DEF Rise, DeviceRead, IsSPI, DATA, STATUS
    <3>2. (IF SPIF THEN 1 ELSE 0) \in Byte
      BY MasterAssumption
    <3> QED
      BY <1>3, <2>1, <2>6, <3>1, <3>2 DEF RiseAndServe, Drive, SpiRead, IsSPI
  <2>7. CASE /\ device(cpu.address) \notin {"RAM", "ROM"}
             /\ ~IsSPI(cpu.address, DATA) /\ ~IsSPI(cpu.address, STATUS)
    <3>1. Drive(NOP) /\ UNCHANGED spi
      BY <1>3, <2>7 DEF Rise, DeviceRead
    <3>2. data_to_drive' \in Byte /\ driving' = TRUE
      BY <3>1, Constants DEF Drive
    <3>3. SpiRead
      BY <2>7, <3>1 DEF SpiRead
    <3>4. device(cpu.address) # "RAM" /\ device(cpu.address) # "ROM"
      BY <2>7
    <3> QED
      BY <1>3, <2>1, <3>2, <3>3, <3>4 DEF RiseAndServe
  <2> QED
    BY <2>3, <2>4, <2>5, <2>6, <2>7
<1> QED
  BY <1>1, <1>2, <1>3

FallToExchange ==
    /\ operation_requested = "WRITE" /\ TakesExchange(address)
    /\ pc' = "select" /\ script' \in {<<"UART", "data">>, <<"SELECT">>} /\ then' = "next" /\ clock' = clock
    /\ UNCHANGED <<memories, spi>>
FallAndStore ==
    /\ operation_requested = "WRITE"
    /\ clock' = 1 - clock /\ UNCHANGED <<pc, script, then>>
    /\ \E data \in latched_data :
          /\ ram' = IF device(address) = "RAM" THEN [ram EXCEPT ![address] = data] ELSE ram
          /\ rom' = IF device(address) = "ROM" THEN [rom EXCEPT ![RomCell(address)] = data] ELSE rom
    /\ SpiWrite
FallAfterRead ==
    /\ operation_requested # "WRITE"
    /\ clock' = 1 - clock /\ UNCHANGED <<pc, script, then>>
    /\ UNCHANGED <<memories, spi>>

LEMMA FallCases == ASSUME Fall PROVE FallToExchange \/ FallAndStore \/ FallAfterRead
<1>1. CASE operation_requested # "WRITE"
  BY <1>1 DEF Fall, EndHalfCycle, FallAfterRead
<1>2. CASE operation_requested = "WRITE"
  <2>1. PICK data \in latched_data : DeviceWrite(address, data)
    BY <1>2 DEF Fall
  <2>2. CASE TakesExchange(address)
    BY <1>2, <2>1, <2>2 DEF DeviceWrite, Exchange, FallToExchange
  <2>3. CASE ~TakesExchange(address)
    <3>1. clock' = 1 - clock /\ UNCHANGED <<pc, script, then>>
      BY <2>1, <2>3 DEF DeviceWrite, EndHalfCycle
    <3>2. /\ ram' = IF device(address) = "RAM" THEN [ram EXCEPT ![address] = data] ELSE ram
          /\ rom' = IF device(address) = "ROM" THEN [rom EXCEPT ![RomCell(address)] = data] ELSE rom
      BY <2>1, <2>3 DEF DeviceWrite
    <3>3. SpiWrite
      BY <2>1, <2>3 DEF DeviceWrite, SpiWrite
    <3> QED
      BY <1>2, <3>1, <3>2, <3>3 DEF FallAndStore
  <2> QED
    BY <2>2, <2>3
<1> QED
  BY <1>1, <1>2

--------------------------------------------------------------------------------
(* The invariant that needs nothing of the administrator: where PHI2 is, and what *)
(* is sampled of the 6502's cycle.                                                *)

Exchanging == pc \in {"select", "shift"}

\* spi_exchange() has a byte left, and those of reset() come one by one.
Scripted ==
    Exchanging =>
        /\ script # <<>>
        /\ then = "held" => script = <<"ASSERT_RESB">>
        /\ then = "sequence" => script = <<"RELEASE_RESB">>
        /\ then \in {"drive", "next"} => script \in Seq({"SELECT", "UART", "POLL", "data"})

\* All but the beginning of a reset, up to its first half cycle, and exchanges
\* within a half cycle
Settled ==
    \/ pc \in {"loop", "sequence"}
    \/ pc = "held" /\ left < 2 * WAIT_IN_RESET
    \/ Exchanging /\ then = "sequence"

\* What the half cycle's first look at the bus is good for
Yields == Sampled /\ (~cpu.reads => ~driving)

InPhase ==
    /\ Settled => PHI2 = 1 - clock
    /\ Settled /\ PHI2 = 1 => ~unsampled
    /\ PHI2 = 1 /\ ~unsampled => Yields

Poised ==
    ready => /\ clock = 1 /\ ~unsampled /\ Yields
             /\ pc \in {"loop", "held", "sequence"}
             /\ pc # "loop" => left > 0

MidCycle ==
    Exchanging =>
        /\ then = "drive" => /\ PHI2 = 1 /\ clock = 1 /\ ~unsampled
                             /\ cpu.reads /\ IsUART(cpu.address) /\ Sampled
        /\ then = "next" => PHI2 = 0 /\ clock = 0

PhaseInv ==
    /\ FlowType /\ BusType /\ MemoryType /\ SpiType /\ CpuType /\ HistoryType
    /\ Scripted /\ InPhase /\ Poised /\ MidCycle

LEMMA PhaseInit == Init => PhaseInv
<1> SUFFICES ASSUME Init PROVE PhaseInv
  OBVIOUS
<1>1. FlowType
  <2>1. pc = "select" /\ script = <<"ASSERT_RESB">> /\ then = "held" /\ left = 0
    BY DEF Init
  <2>2. should_run = FALSE /\ clock = 0 /\ ready = FALSE
    BY DEF Init
  <2>3. <<"ASSERT_RESB">> \in Seq(Requests)
    <3>1. "ASSERT_RESB" \in Requests
      BY DEF Requests
    <3> QED
      BY <3>1
  <2>4. should_run \in BOOLEAN /\ ready \in BOOLEAN
    BY <2>2
  <2>5. left \in 0 .. 12 /\ clock \in {0, 1}
    BY <2>1, <2>2
  <2>6. script \in Seq(Requests)
    BY <2>1, <2>3
  <2> QED
    BY <2>1, <2>4, <2>5, <2>6 DEF FlowType
<1>2. BusType
  <2>1. address = 0 /\ operation_requested = "WRITE" /\ data_to_drive = NOP /\ driving = TRUE
    BY DEF Init
  <2>2. PHI2 = 1 /\ SSA = 1 /\ RESB = 0
    BY DEF Init
  <2> QED
    BY <2>1, <2>2, Constants DEF BusType
<1>3. MemoryType
  <2>1. /\ ram = [a \in RamCells |-> NOP]
        /\ rom = [a \in RomCells |-> IF a \in NotNOP THEN 0 ELSE NOP]
    BY DEF Init
  <2> QED
    BY <2>1, Constants DEF MemoryType
<1>4. CpuType /\ SpiType /\ HistoryType
  <2>1. cpu = [address |-> 0, reads |-> TRUE, data |-> 0] /\ sequence = 9 /\ waits = FALSE
    BY DEF Init
  <2>2. shift = "none" /\ SPDR = "device" /\ SPIF = FALSE /\ armed = FALSE
    BY DEF Init
  <2>3. [address |-> 0, reads |-> TRUE, data |-> 0] \in Cycle
    BY Constants DEF Cycle
  <2>4. CpuType
    <3>1. waits \in BOOLEAN
      BY <2>1
    <3>2. cpu \in Cycle /\ sequence \in 0 .. 9
      BY <2>1, <2>3
    <3> QED
      BY <3>1, <3>2 DEF CpuType
  <2>5. SpiType
    BY <2>2 DEF SpiType
  <2>6. HistoryType
    <3>1. unsampled = TRUE /\ overtaken = FALSE
      BY DEF Init
    <3> QED
      BY <3>1 DEF HistoryType
  <2> QED
    BY <2>4, <2>5, <2>6
<1>5. Scripted /\ InPhase /\ Poised /\ MidCycle
  BY DEF Init, Scripted, Exchanging, InPhase, Settled, Poised, MidCycle
<1> QED
  BY <1>1, <1>2, <1>3, <1>4, <1>5 DEF PhaseInv

--------------------------------------------------------------------------------
(* The parts of a step that several actions share                               *)

LEMMA CpuStep == ASSUME BusType, CpuType, CpuFalls PROVE CpuType'
<1>1. CASE PHI2 = 0
  BY <1>1 DEF CpuFalls, cpuVars, CpuType
<1>2. CASE PHI2 # 0
  <2>1. /\ sequence' = Coming
        /\ waits' = (RESB = 1 /\ (StartsTransfer \/ (waits /\ ~PollsDone)))
        /\ cpu' \in Cycle
    BY <1>2 DEF CpuFalls
  <2>2. Coming \in 0 .. 9
    BY DEF Coming, CpuType
  <2>3. waits' \in BOOLEAN
    BY <2>1
  <2> QED
    BY <2>1, <2>2, <2>3 DEF CpuType
<1> QED
  BY <1>1, <1>2

LEMMA HistoryStep == ASSUME HistoryType, UNCHANGED history PROVE HistoryType'
BY DEF HistoryType, history

LEMMA WriteStep == ASSUME SpiType, NEW w \in {"device", "slave"}, WriteSPDR(w) PROVE SpiType'
<1>1. shift' \in {"none", "device", "slave", "cut"} /\ SPDR' \in {"device", "slave", "cut"}
  BY DEF WriteSPDR, SpiType
<1>2. SPIF' \in BOOLEAN /\ armed' \in BOOLEAN
  BY DEF WriteSPDR, SpiType
<1> QED
  BY <1>1, <1>2 DEF SpiType

LEMMA DeviceSpiStep == ASSUME SpiType, SpiRead \/ SpiWrite PROVE SpiType'
<1>1. CASE ReadSPDR
  <2>1. SPIF' \in BOOLEAN /\ armed' \in BOOLEAN
    BY <1>1 DEF ReadSPDR, SpiType
  <2>2. shift' = shift /\ SPDR' = SPDR
    BY <1>1 DEF ReadSPDR
  <2> QED
    BY <2>1, <2>2 DEF SpiType
<1>2. CASE ReadSPSR
  <2>1. armed' = SPIF /\ shift' = shift /\ SPDR' = SPDR /\ SPIF' = SPIF
    BY <1>2 DEF ReadSPSR
  <2> QED
    BY <2>1 DEF SpiType
<1>3. CASE UNCHANGED spi
  BY <1>3 DEF spi, SpiType
<1>4. CASE WriteSPDR("device")
  BY <1>4, WriteStep
<1> QED
  BY <1>1, <1>2, <1>3, <1>4 DEF SpiRead, SpiWrite

LEMMA LatchedByte == ASSUME BusType, CpuType PROVE latched_data \subseteq Byte
BY DEF latched_data, BusType, CpuType, Cycle

LEMMA StoreStep == ASSUME BusType, CpuType, MemoryType, FallAndStore PROVE MemoryType'
<1>1. PICK data \in latched_data :
          /\ ram' = IF device(address) = "RAM" THEN [ram EXCEPT ![address] = data] ELSE ram
          /\ rom' = IF device(address) = "ROM" THEN [rom EXCEPT ![RomCell(address)] = data] ELSE rom
  BY DEF FallAndStore
<1>2. data \in Byte
  BY <1>1, LatchedByte
<1>3. ram' \in [RamCells -> Byte]
  BY <1>1, <1>2 DEF MemoryType
<1>4. rom' \in [RomCells -> Byte]
  BY <1>1, <1>2 DEF MemoryType
<1> QED
  BY <1>3, <1>4 DEF MemoryType

LEMMA SampleStep ==
    ASSUME BusType, CpuType, Sample
    PROVE  BusType' /\ Yields'
<1>1. address' = cpu.address /\ cpu' = cpu /\ cpu.address \in CpuAddresses
  BY DEF Sample, CpuType, Cycle, cpuVars
<1>2. operation_requested' = (IF cpu.reads THEN "READ" ELSE "WRITE") /\ UNCHANGED <<PHI2, SSA, RESB>>
  BY DEF Sample
<1>3. data_to_drive' = data_to_drive /\ driving' \in BOOLEAN /\ (~cpu.reads => ~driving')
  BY DEF Sample, LetGo, dataBus, BusType
<1>4. BusType'
  BY <1>1, <1>2, <1>3 DEF BusType
<1>5. Sampled'
  BY <1>1, <1>2 DEF Sampled
<1> QED
  BY <1>1, <1>3, <1>4, <1>5 DEF Yields

--------------------------------------------------------------------------------
(* Each action preserves the invariant                                          *)

LEMMA LookStep ==
    ASSUME PhaseInv, Sample, should_run' \in BOOLEAN,
           pc = "loop" \/ (pc \in {"held", "sequence"} /\ left > 0)
    PROVE  PhaseInv'
<1>1. FlowType /\ BusType /\ MemoryType /\ SpiType /\ CpuType /\ HistoryType
  BY DEF PhaseInv
<1>2. /\ clock = 1 /\ ready' = TRUE /\ unsampled' = FALSE
      /\ UNCHANGED <<pc, script, then, left, clock, memories, PHI2, SSA, RESB, spi, cpuVars, overtaken>>
  BY DEF Sample
<1>3. BusType' /\ Yields'
  BY <1>1, SampleStep
<1>4. FlowType'
  <2>1. ready' \in BOOLEAN
    BY <1>2
  <2> QED
    BY <1>1, <1>2, <2>1 DEF FlowType
<1>5. MemoryType' /\ SpiType' /\ CpuType'
  BY <1>1, <1>2 DEF memories, MemoryType, spi, SpiType, cpuVars, CpuType
<1>6. HistoryType'
  <2>1. unsampled' \in BOOLEAN
    BY <1>2
  <2> QED
    BY <1>1, <1>2, <2>1 DEF HistoryType
<1>7. Scripted' /\ MidCycle'
  BY <1>2 DEF Scripted, MidCycle, Exchanging
<1>8. InPhase'
  BY <1>2, <1>3 DEF PhaseInv, InPhase, Settled, Exchanging
<1>9. Poised'
  BY <1>2, <1>3 DEF Poised
<1> QED
  BY <1>3, <1>4, <1>5, <1>6, <1>7, <1>8, <1>9 DEF PhaseInv

LEMMA RiseStep ==
    ASSUME PhaseInv, pc = "loop", Rise, should_run' \in BOOLEAN
    PROVE  PhaseInv'
<1>1. FlowType /\ BusType /\ MemoryType /\ SpiType /\ CpuType /\ HistoryType
  BY DEF PhaseInv
<1>2. /\ PHI2' = 1 /\ ready /\ ready' = FALSE
      /\ UNCHANGED <<left, sampled, memories, SSA, RESB, cpuVars, history>>
  BY DEF Rise
<1>3. MemoryType' /\ CpuType' /\ HistoryType'
  BY <1>1, <1>2, HistoryStep DEF memories, cpuVars, MemoryType, CpuType
<1>4. clock = 1 /\ ~unsampled /\ Sampled /\ (~cpu.reads => ~driving)
  BY <1>2 DEF PhaseInv, Poised, Yields
<1>5. /\ left' \in 0 .. 12 /\ should_run' \in BOOLEAN /\ ready' \in BOOLEAN
      /\ SSA' \in {0, 1} /\ RESB' \in {0, 1}
      /\ address' \in CpuAddresses /\ operation_requested' \in {"READ", "WRITE"}
  BY <1>1, <1>2 DEF FlowType, BusType, sampled
<1>6. Sampled' /\ ~unsampled' /\ cpu' = cpu
  BY <1>2, <1>4 DEF Sampled, sampled, cpuVars, history
<1>7. Poised'
  BY <1>2 DEF Poised
<1>8. CASE RiseToExchange
  <2>1. /\ pc' = "select" /\ script' = <<"UART", "POLL">> /\ then' = "drive" /\ clock' = clock
        /\ UNCHANGED <<data_to_drive, driving, spi>> /\ cpu.reads /\ IsUART(cpu.address)
    BY <1>8 DEF RiseToExchange
  <2>2. script' \in Seq({"SELECT", "UART", "POLL", "data"}) /\ script' \in Seq(Requests) /\ script' # <<>>
    BY <2>1 DEF Requests
  <2>3. FlowType'
    BY <1>4, <1>5, <2>1, <2>2 DEF FlowType
  <2>4. BusType'
    BY <1>1, <1>2, <1>5, <2>1 DEF BusType
  <2>5. SpiType'
    BY <1>1, <2>1 DEF spi, SpiType
  <2>6. Scripted'
    BY <2>1, <2>2 DEF Scripted
  <2>7. InPhase'
    <3>1. ~Settled'
      BY <2>1 DEF Settled
    <3>2. Yields'
      BY <1>6, <2>1 DEF Yields
    <3> QED
      BY <3>1, <3>2 DEF InPhase
  <2>8. MidCycle'
    BY <1>2, <1>4, <1>6, <2>1 DEF MidCycle
  <2> QED
    BY <1>3, <1>7, <2>3, <2>4, <2>5, <2>6, <2>7, <2>8 DEF PhaseInv
<1>9. CASE RiseAndServe \/ RiseForWrite
  <2>1. /\ clock' = 0 /\ UNCHANGED <<pc, script, then>>
        /\ driving' \in BOOLEAN /\ data_to_drive' \in Byte
        /\ ~cpu.reads => ~driving'
    <3>1. CASE RiseAndServe
      BY <1>4, <3>1 DEF RiseAndServe
    <3>2. CASE RiseForWrite
      <4>1. driving' = driving
        BY <3>2 DEF RiseForWrite
      <4>2. clock' = 0 /\ UNCHANGED <<pc, script, then>> /\ data_to_drive' \in Byte
        BY <1>1, <1>4, <3>2 DEF RiseForWrite, BusType
      <4>3. driving' \in BOOLEAN
        BY <1>1, <4>1 DEF BusType
      <4>4. ~cpu.reads => ~driving'
        BY <1>4, <4>1
      <4> QED
        BY <4>2, <4>3, <4>4
    <3> QED
      BY <1>9, <3>1, <3>2
  <2>2. SpiType'
    BY <1>1, <1>9, DeviceSpiStep DEF RiseAndServe, RiseForWrite, spi, SpiType
  <2>3. FlowType'
    BY <1>1, <1>5, <2>1 DEF FlowType
  <2>4. BusType'
    BY <1>2, <1>5, <2>1 DEF BusType
  <2>5. Scripted' /\ MidCycle'
    BY <2>1 DEF Scripted, MidCycle, Exchanging
  <2>6. InPhase'
    <3>1. Yields'
      BY <1>6, <2>1 DEF Yields
    <3> QED
      BY <1>2, <1>6, <2>1, <3>1 DEF InPhase
  <2> QED
    BY <1>3, <1>7, <2>2, <2>3, <2>4, <2>5, <2>6 DEF PhaseInv
<1> QED
  BY <1>1, <1>4, <1>8, <1>9, RiseCases

LEMMA FallStep ==
    ASSUME PhaseInv, pc = "loop", ~ready, Fall, should_run' \in BOOLEAN
    PROVE  PhaseInv'
<1>1. FlowType /\ BusType /\ MemoryType /\ SpiType /\ CpuType /\ HistoryType
  BY DEF PhaseInv
<1>2. clock = 0 /\ PHI2' = 0 /\ CpuFalls /\ UNCHANGED <<left, ready, sampled, dataBus, SSA, RESB, history>>
  BY DEF Fall
<1>3. CpuType' /\ HistoryType'
  BY <1>1, <1>2, CpuStep, HistoryStep
<1>4. BusType'
  BY <1>1, <1>2 DEF BusType, sampled, dataBus
<1>5. left' \in 0 .. 12 /\ ready' \in BOOLEAN
  BY <1>1, <1>2 DEF FlowType
<1>6. Poised'
  BY <1>2 DEF Poised
<1>7. CASE FallToExchange
  <2>1. /\ pc' = "select" /\ script' \in {<<"UART", "data">>, <<"SELECT">>} /\ then' = "next"
        /\ clock' = clock /\ UNCHANGED <<memories, spi>>
    BY <1>7 DEF FallToExchange
  <2>2. script' \in Seq({"SELECT", "UART", "POLL", "data"}) /\ script' \in Seq(Requests) /\ script' # <<>>
    <3>1. CASE script' = <<"UART", "data">>
      BY <3>1 DEF Requests
    <3>2. CASE script' = <<"SELECT">>
      BY <3>2 DEF Requests
    <3> QED
      BY <2>1, <3>1, <3>2
  <2>3. FlowType'
    BY <1>2, <1>5, <2>1, <2>2 DEF FlowType
  <2>4. MemoryType' /\ SpiType'
    BY <1>1, <2>1 DEF memories, MemoryType, spi, SpiType
  <2>5. Scripted'
    BY <2>1, <2>2 DEF Scripted
  <2>6. InPhase' /\ MidCycle'
    BY <1>2, <2>1 DEF InPhase, Settled, MidCycle
  <2> QED
    BY <1>3, <1>4, <1>6, <2>3, <2>4, <2>5, <2>6 DEF PhaseInv
<1>8. CASE FallAndStore \/ FallAfterRead
  <2>1. clock' = 1 /\ UNCHANGED <<pc, script, then>>
    BY <1>2, <1>8 DEF FallAndStore, FallAfterRead
  <2>2. MemoryType'
    BY <1>1, <1>8, StoreStep DEF FallAfterRead, memories, MemoryType
  <2>3. SpiType'
    BY <1>1, <1>8, DeviceSpiStep DEF FallAndStore, FallAfterRead, spi, SpiType
  <2>4. FlowType'
    BY <1>1, <1>5, <2>1 DEF FlowType
  <2>5. Scripted' /\ MidCycle'
    BY <2>1 DEF Scripted, MidCycle, Exchanging
  <2>6. InPhase'
    BY <1>2, <2>1 DEF InPhase
  <2> QED
    BY <1>3, <1>4, <1>6, <2>2, <2>3, <2>4, <2>5, <2>6 DEF PhaseInv
<1> QED
  BY <1>7, <1>8, FallCases

LEMMA WaitStep == ASSUME PhaseInv, wait PROVE PhaseInv'
<1>1. FlowType /\ BusType /\ MemoryType /\ SpiType /\ CpuType /\ HistoryType
  BY DEF PhaseInv
<1>2. pc \in {"held", "sequence"} /\ left > 0
  BY DEF wait
<1>3. CASE Sample /\ UNCHANGED should_run
  <2>1. should_run' \in BOOLEAN
    BY <1>1, <1>3 DEF FlowType
  <2> QED
    BY <1>2, <1>3, <2>1, LookStep
<1>4. CASE /\ RiseInReset \/ FallInReset
           /\ clock' = 1 - clock /\ left' = left - 1
           /\ UNCHANGED <<pc, script, then, should_run, sampled, memories, SSA, RESB, spi, history>>
  <2>1. MemoryType' /\ SpiType' /\ HistoryType'
    BY <1>1, <1>4, HistoryStep DEF memories, MemoryType, spi, SpiType
  <2>2. Scripted' /\ MidCycle'
    BY <1>2, <1>4 DEF Scripted, MidCycle, Exchanging
  <2>3. CASE RiseInReset
    <3>1. /\ ready /\ ready' = FALSE /\ PHI2' = 1 /\ UNCHANGED cpuVars
          /\ IF operation_requested = "READ" THEN Drive(NOP) ELSE UNCHANGED dataBus
      BY <2>3 DEF RiseInReset
    <3>2. clock = 1 /\ ~unsampled /\ Sampled /\ (~cpu.reads => ~driving)
      BY <3>1 DEF PhaseInv, Poised, Yields
    <3>3. Sampled' /\ ~unsampled' /\ cpu' = cpu
      BY <1>4, <3>1, <3>2 DEF Sampled, sampled, cpuVars, history
    <3>4. data_to_drive' \in Byte /\ driving' \in BOOLEAN
      BY <1>1, <3>1, Constants DEF Drive, dataBus, BusType
    <3>5. ~cpu.reads => ~driving'
      BY <3>1, <3>2 DEF Sampled, dataBus
    <3>6. BusType'
      BY <1>1, <1>4, <3>1, <3>4 DEF BusType, sampled
    <3>7. CpuType'
      BY <1>1, <3>1 DEF cpuVars, CpuType
    <3>8. FlowType'
      <4>1. ready' \in BOOLEAN
        BY <3>1
      <4>2. clock' \in {0, 1} /\ left' \in 0 .. 12
        BY <1>1, <1>2, <1>4, <3>2 DEF FlowType
      <4> QED
        BY <1>1, <1>4, <4>1, <4>2 DEF FlowType
    <3>9. InPhase' /\ Poised'
      BY <1>4, <3>1, <3>2, <3>3, <3>5 DEF InPhase, Poised, Yields
    <3> QED
      BY <2>1, <2>2, <3>6, <3>7, <3>8, <3>9 DEF PhaseInv
  <2>4. CASE FallInReset
    <3>1. clock = 0 /\ PHI2' = 0 /\ CpuFalls /\ UNCHANGED <<ready, dataBus>>
      BY <2>4 DEF FallInReset
    <3>2. BusType'
      BY <1>1, <1>4, <3>1 DEF BusType, sampled, dataBus
    <3>3. CpuType'
      BY <1>1, <3>1, CpuStep
    <3>4. FlowType'
      BY <1>1, <1>2, <1>4, <3>1 DEF FlowType
    <3>5. InPhase' /\ Poised'
      BY <1>4, <3>1 DEF PhaseInv, InPhase, Poised
    <3> QED
      BY <2>1, <2>2, <3>2, <3>3, <3>4, <3>5 DEF PhaseInv
  <2> QED
    BY <1>4, <2>3, <2>4
<1> QED
  BY <1>3, <1>4 DEF wait, half_cycle_during_reset

LEMMA SelectStep == ASSUME PhaseInv, SelectSlave PROVE PhaseInv'
<1>1. FlowType /\ BusType /\ MemoryType /\ SpiType /\ CpuType /\ HistoryType
  BY DEF PhaseInv
<1>2. /\ pc = "select" /\ pc' = "shift" /\ SSA' = 0 /\ WriteSPDR("slave")
      /\ UNCHANGED <<script, then, left, should_run, ready, clock, sampled, dataBus, memories, PHI2, RESB,
                     cpuVars, history>>
  BY DEF SelectSlave
<1>3. FlowType'
  BY <1>1, <1>2 DEF FlowType
<1>4. BusType'
  BY <1>1, <1>2 DEF BusType, sampled, dataBus
<1>5. MemoryType' /\ CpuType' /\ HistoryType'
  BY <1>1, <1>2, HistoryStep DEF memories, MemoryType, cpuVars, CpuType
<1>6. SpiType'
  BY <1>1, <1>2, WriteStep
<1>7. Scripted'
  BY <1>2 DEF PhaseInv, Scripted, Exchanging
<1>8. InPhase' /\ MidCycle'
  BY <1>2 DEF PhaseInv, InPhase, MidCycle, Settled, Exchanging, Yields, Sampled, sampled, dataBus, cpuVars, history
<1>9. Poised'
  BY <1>2 DEF PhaseInv, Poised
<1> QED
  BY <1>3, <1>4, <1>5, <1>6, <1>7, <1>8, <1>9 DEF PhaseInv

LEMMA Tails ==
    ASSUME NEW S, NEW s \in Seq(S), s # <<>>
    PROVE  Tail(s) \in Seq(S) /\ (Len(s) = 1 => Tail(s) = <<>>)
<1>1. Tail(s) \in Seq(S) /\ Len(Tail(s)) = Len(s) - 1
  BY HeadTailProperties
<1> QED
  BY <1>1, EmptySeq

LEMMA ReleaseStep == ASSUME PhaseInv, ReleaseSlave PROVE PhaseInv'
<1>1. FlowType /\ BusType /\ MemoryType /\ SpiType /\ CpuType /\ HistoryType
  BY DEF PhaseInv
<1>2. /\ pc = "shift" /\ SSA' = 1 /\ SPIF' = FALSE /\ armed' = FALSE /\ Obeyed /\ script' = Tail(script)
      /\ shift' = IF shift = "slave" THEN "cut" ELSE shift
      /\ UNCHANGED <<should_run, ready, sampled, memories, PHI2, SPDR, cpuVars, history>>
  BY DEF ReleaseSlave
<1>3. MemoryType' /\ CpuType' /\ SpiType' /\ HistoryType'
  BY <1>1, <1>2, HistoryStep DEF memories, MemoryType, cpuVars, CpuType, SpiType
<1>10. Poised' /\ ready' = FALSE
  <2>1. ~ready
    BY <1>2 DEF PhaseInv, Poised
  <2>2. ready' = FALSE
    BY <1>1, <1>2, <2>1 DEF FlowType
  <2> QED
    BY <2>2 DEF Poised
<1>4. RESB' \in {0, 1} /\ SSA' \in {0, 1}
  BY <1>1, <1>2 DEF Obeyed, BusType
<1>5. script # <<>> /\ script' \in Seq(Requests)
  BY <1>1, <1>2, Tails DEF PhaseInv, Scripted, Exchanging, FlowType
<1>6. CASE Tail(script) # <<>>
  <2>1. pc' = "select" /\ UNCHANGED <<then, left, clock, dataBus>>
    BY <1>6 DEF ReleaseSlave
  <2>2. then \in {"drive", "next"}
    <3>1. CASE then \in {"held", "sequence"}
      <4>1. Len(script) = 1
        BY <1>2, <3>1 DEF PhaseInv, Scripted, Exchanging
      <4> QED
        BY <1>1, <1>5, <1>6, <4>1, Tails DEF FlowType
    <3> QED
      BY <1>1, <3>1 DEF FlowType
  <2>3. FlowType'
    BY <1>1, <1>2, <1>5, <2>1 DEF FlowType
  <2>4. BusType'
    BY <1>1, <1>2, <1>4, <2>1 DEF BusType, sampled, dataBus
  <2>5. Scripted'
    <3>1. script \in Seq({"SELECT", "UART", "POLL", "data"})
      BY <1>2, <2>2 DEF PhaseInv, Scripted, Exchanging
    <3>2. script' \in Seq({"SELECT", "UART", "POLL", "data"})
      BY <1>2, <1>5, <3>1, Tails
    <3> QED
      BY <1>2, <1>6, <2>1, <2>2, <3>2 DEF Scripted
  <2>6. InPhase' /\ MidCycle'
    BY <1>2, <2>1, <2>2
    DEF PhaseInv, InPhase, MidCycle, Settled, Exchanging, Yields, Sampled, sampled, dataBus, cpuVars, history
  <2> QED
    BY <1>3, <1>10, <2>3, <2>4, <2>5, <2>6 DEF PhaseInv
<1>7. CASE Tail(script) = <<>>
  <2>1. /\ pc' = IF then \in {"held", "sequence"} THEN then ELSE "loop"
        /\ left' = CASE then = "held" -> 2 * WAIT_IN_RESET
                     [] then = "sequence" -> 2 * WAIT_AFTER_RESET
                     [] OTHER -> left
        /\ clock' = IF then \in {"drive", "next"} THEN 1 - clock ELSE clock
        /\ IF then = "drive" THEN \E data \in Byte : Drive(data) ELSE UNCHANGED dataBus
        /\ then' = "next"
    BY <1>7 DEF ReleaseSlave
  <2>2. data_to_drive' \in Byte /\ driving' \in BOOLEAN
    BY <1>1, <2>1 DEF Drive, dataBus, BusType
  <2>3. BusType'
    BY <1>1, <1>2, <1>4, <2>2 DEF BusType, sampled
  <2>4. Scripted' /\ MidCycle'
    BY <2>1 DEF Scripted, MidCycle, Exchanging
  <2>5. CASE then = "held"
    <3>1. pc' = "held" /\ left' = 4 /\ clock' = clock
      BY <2>1, <2>5 DEF WAIT_IN_RESET
    <3>2. FlowType'
      BY <1>1, <1>2, <1>5, <2>1, <3>1 DEF FlowType
    <3>3. InPhase'
      <4>1. ~Settled'
        BY <3>1 DEF Settled, Exchanging, WAIT_IN_RESET
      <4>2. UNCHANGED dataBus
        BY <2>1, <2>5
      <4>3. PHI2 = 1 /\ ~unsampled => Yields
        BY DEF PhaseInv, InPhase
      <4>4. PHI2' = 1 /\ ~unsampled' => Yields'
        BY <1>2, <4>2, <4>3 DEF Yields, Sampled, sampled, dataBus, cpuVars, history
      <4> QED
        BY <4>1, <4>4 DEF InPhase
    <3> QED
      BY <1>3, <1>10, <2>3, <2>4, <3>2, <3>3 DEF PhaseInv
  <2>6. CASE then = "sequence"
    <3>1. pc' = "sequence" /\ left' = 12 /\ clock' = clock /\ UNCHANGED dataBus
      BY <2>1, <2>6 DEF WAIT_AFTER_RESET
    <3>2. FlowType'
      BY <1>1, <1>2, <1>5, <2>1, <3>1 DEF FlowType
    <3>3. InPhase'
      BY <1>2, <2>6, <3>1
      DEF PhaseInv, InPhase, Settled, Exchanging, Yields, Sampled, sampled, dataBus, cpuVars, history
    <3> QED
      BY <1>3, <1>10, <2>3, <2>4, <3>2, <3>3 DEF PhaseInv
  <2>7. CASE then \in {"drive", "next"}
    <3>1. pc' = "loop" /\ left' = left /\ clock' = 1 - clock
      BY <2>1, <2>7
    <3>2. FlowType'
      BY <1>1, <1>2, <1>5, <2>1, <3>1 DEF FlowType
    <3>3. InPhase'
      BY <1>2, <2>7, <3>1 DEF PhaseInv, InPhase, MidCycle, Exchanging, Yields, Sampled, sampled, cpuVars, history
    <3> QED
      BY <1>3, <1>10, <2>3, <2>4, <3>2, <3>3 DEF PhaseInv
  <2> QED
    BY <1>1, <2>5, <2>6, <2>7 DEF FlowType
<1> QED
  BY <1>6, <1>7

LEMMA ResetStep == ASSUME PhaseInv, ~ready, reset PROVE PhaseInv'
<1>1. FlowType /\ BusType /\ MemoryType /\ SpiType /\ CpuType /\ HistoryType
  BY DEF PhaseInv
<1>2. /\ PHI2' = 1 /\ pc' = "select" /\ script' = <<"ASSERT_RESB">> /\ then' = "held"
      /\ unsampled' = (unsampled \/ PHI2 = 0) /\ overtaken' = (overtaken \/ waits)
      /\ UNCHANGED <<left, should_run, ready, clock, sampled, dataBus, memories, SSA, RESB, spi, cpuVars>>
  BY DEF reset
<1>3. script' \in Seq(Requests)
  BY <1>2 DEF Requests
<1>4. FlowType'
  BY <1>1, <1>2, <1>3 DEF FlowType
<1>5. BusType'
  BY <1>1, <1>2 DEF BusType, sampled, dataBus
<1>6. MemoryType' /\ SpiType'
  BY <1>1, <1>2 DEF memories, MemoryType, spi, SpiType
<1>7. CpuType' /\ HistoryType'
  <2>1. unsampled' \in BOOLEAN /\ overtaken' \in BOOLEAN
    BY <1>1, <1>2 DEF HistoryType, CpuType
  <2> QED
    BY <1>1, <1>2, <2>1 DEF CpuType, cpuVars, HistoryType
<1>8. Scripted' /\ MidCycle' /\ Poised'
  BY <1>2 DEF Scripted, MidCycle, Poised
<1>9. InPhase'
  <2>1. ~Settled'
    BY <1>2 DEF Settled
  <2>2. ~unsampled' => PHI2 = 1 /\ ~unsampled
    BY <1>1, <1>2 DEF BusType
  <2>3. ~unsampled' => Yields'
    BY <1>2, <2>2 DEF PhaseInv, InPhase, Yields, Sampled, sampled, dataBus, cpuVars
  <2> QED
    BY <2>1, <2>3 DEF InPhase
<1> QED
  BY <1>4, <1>5, <1>6, <1>7, <1>8, <1>9 DEF PhaseInv

LEMMA EndHeldStep == ASSUME PhaseInv, EndHeld PROVE PhaseInv'
<1>1. FlowType /\ BusType /\ MemoryType /\ SpiType /\ CpuType /\ HistoryType
  BY DEF PhaseInv
<1>2. /\ pc = "held" /\ left = 0 /\ pc' = "select" /\ script' = <<"RELEASE_RESB">> /\ then' = "sequence"
      /\ UNCHANGED <<left, should_run, ready, clock, sampled, dataBus, memories, PHI2, SSA, RESB, spi, cpuVars, history>>
  BY DEF EndHeld
<1>3. script' \in Seq(Requests)
  BY <1>2 DEF Requests
<1>4. FlowType'
  BY <1>1, <1>2, <1>3 DEF FlowType
<1>5. BusType'
  BY <1>1, <1>2 DEF BusType, sampled, dataBus
<1>6. MemoryType' /\ SpiType' /\ CpuType' /\ HistoryType'
  BY <1>1, <1>2, HistoryStep DEF memories, MemoryType, spi, SpiType, cpuVars, CpuType
<1>7. Scripted' /\ MidCycle' /\ Poised'
  BY <1>2 DEF PhaseInv, Scripted, MidCycle, Poised
<1>8. InPhase'
  <2>1. Settled
    BY <1>2 DEF Settled, WAIT_IN_RESET
  <2> QED
    BY <1>2, <2>1 DEF PhaseInv, InPhase, Yields, Sampled, sampled, dataBus, cpuVars, history
<1> QED
  BY <1>4, <1>5, <1>6, <1>7, <1>8 DEF PhaseInv

LEMMA EndResetStep == ASSUME PhaseInv, EndReset PROVE PhaseInv'
<1>1. FlowType /\ BusType /\ MemoryType /\ SpiType /\ CpuType /\ HistoryType
  BY DEF PhaseInv
<1>2. /\ pc = "sequence" /\ pc' = "loop"
      /\ left = 0
      /\ UNCHANGED <<script, then, left, should_run, ready, clock, sampled, dataBus, memories, PHI2, SSA, RESB, spi,
                     cpuVars, history>>
  BY DEF EndReset
<1>3. FlowType'
  BY <1>1, <1>2 DEF FlowType
<1>4. BusType'
  BY <1>1, <1>2 DEF BusType, sampled, dataBus
<1>5. MemoryType' /\ SpiType' /\ CpuType' /\ HistoryType'
  BY <1>1, <1>2, HistoryStep DEF memories, MemoryType, spi, SpiType, cpuVars, CpuType
<1>6. Scripted' /\ MidCycle' /\ Poised'
  BY <1>2 DEF PhaseInv, Scripted, MidCycle, Exchanging, Poised
<1>7. InPhase'
  BY <1>2 DEF PhaseInv, InPhase, Settled, Yields, Sampled, sampled, dataBus, cpuVars, history
<1> QED
  BY <1>3, <1>4, <1>5, <1>6, <1>7 DEF PhaseInv

LEMMA ContinueStep == ASSUME PhaseInv, NEW run \in BOOLEAN, Continue(run) PROVE PhaseInv'
<1>1. FlowType /\ BusType /\ MemoryType /\ SpiType /\ CpuType /\ HistoryType
  BY DEF PhaseInv
<1>2. /\ should_run' = run
      /\ UNCHANGED <<pc, script, then, left, ready, clock, sampled, dataBus, memories, PHI2, SSA, RESB, spi,
                     cpuVars, history>>
  BY DEF Continue
<1>3. FlowType'
  <2>1. should_run' \in BOOLEAN
    BY <1>2
  <2> QED
    BY <1>1, <1>2, <2>1 DEF FlowType
<1>4. BusType'
  BY <1>1, <1>2 DEF BusType, sampled, dataBus
<1>5. MemoryType' /\ SpiType' /\ CpuType' /\ HistoryType'
  BY <1>1, <1>2, HistoryStep DEF memories, MemoryType, spi, SpiType, cpuVars, CpuType
<1>6. Scripted' /\ MidCycle' /\ InPhase' /\ Poised'
  BY <1>2
  DEF PhaseInv, Scripted, MidCycle, Exchanging, InPhase, Settled, Poised, Yields, Sampled, sampled, dataBus, cpuVars,
      history
<1> QED
  BY <1>3, <1>4, <1>5, <1>6 DEF PhaseInv

LEMMA UploadStep ==
    ASSUME PhaseInv, NEW a \in {b \in CpuAddresses : device(b) = "ROM"}, NEW data \in Byte, StoreInROM(a, data)
    PROVE  PhaseInv'
<1>1. FlowType /\ BusType /\ MemoryType /\ SpiType /\ CpuType /\ HistoryType
  BY DEF PhaseInv
<1>2. /\ rom' = [rom EXCEPT ![RomCell(a)] = data]
      /\ UNCHANGED <<control, clock, sampled, dataBus, ram, PHI2, SSA, RESB, spi, cpuVars, history>>
  BY DEF StoreInROM
<1>3. FlowType'
  BY <1>1, <1>2 DEF FlowType, control
<1>4. BusType'
  BY <1>1, <1>2 DEF BusType, sampled, dataBus
<1>5. SpiType' /\ CpuType' /\ HistoryType'
  BY <1>1, <1>2, HistoryStep DEF spi, SpiType, cpuVars, CpuType
<1>6. MemoryType'
  BY <1>1, <1>2 DEF MemoryType
<1>7. Scripted' /\ MidCycle' /\ InPhase' /\ Poised'
  BY <1>2
  DEF PhaseInv, Scripted, MidCycle, Exchanging, InPhase, Settled, Poised, Yields, Sampled, control, sampled, dataBus,
      cpuVars, history
<1> QED
  BY <1>3, <1>4, <1>5, <1>6, <1>7 DEF PhaseInv

LEMMA ShiftStep == ASSUME PhaseInv, ShiftDone PROVE PhaseInv'
<1>1. FlowType /\ BusType /\ MemoryType /\ SpiType /\ CpuType /\ HistoryType
  BY DEF PhaseInv
<1>2. /\ shift # "none" /\ SPDR' = shift /\ shift' = "none" /\ SPIF' = TRUE /\ armed' = FALSE
      /\ UNCHANGED <<control, clock, sampled, dataBus, memories, PHI2, SSA, RESB, cpuVars, history>>
  BY DEF ShiftDone
<1>3. FlowType'
  BY <1>1, <1>2 DEF FlowType, control
<1>4. BusType'
  BY <1>1, <1>2 DEF BusType, sampled, dataBus
<1>5. MemoryType' /\ CpuType' /\ HistoryType'
  BY <1>1, <1>2, HistoryStep DEF memories, MemoryType, cpuVars, CpuType
<1>6. SpiType'
  BY <1>1, <1>2 DEF SpiType
<1>7. Scripted' /\ MidCycle' /\ InPhase' /\ Poised'
  BY <1>2
  DEF PhaseInv, Scripted, MidCycle, Exchanging, InPhase, Settled, Poised, Yields, Sampled, control, sampled, dataBus,
      cpuVars, history
<1> QED
  BY <1>3, <1>4, <1>5, <1>6, <1>7 DEF PhaseInv

LEMMA IdleStep == ASSUME PhaseInv, UNCHANGED vars PROVE PhaseInv'
<1>1. UNCHANGED <<control, clock, sampled, dataBus, memories, PHI2, SSA, RESB, spi, cpuVars, history>>
  BY DEF vars
<1>2. FlowType' /\ BusType'
  BY <1>1 DEF PhaseInv, FlowType, BusType, control, sampled, dataBus
<1>3. MemoryType' /\ SpiType' /\ CpuType' /\ HistoryType'
  BY <1>1, HistoryStep DEF PhaseInv, memories, MemoryType, spi, SpiType, cpuVars, CpuType
<1>4. Scripted' /\ MidCycle' /\ InPhase' /\ Poised'
  BY <1>1
  DEF PhaseInv, Scripted, MidCycle, Exchanging, InPhase, Settled, Poised, Yields, Sampled, control, sampled, dataBus,
      cpuVars, history
<1> QED
  BY <1>2, <1>3, <1>4 DEF PhaseInv

LEMMA HalfCycleStep ==
    ASSUME PhaseInv, half_cycle, should_run' \in BOOLEAN
    PROVE  PhaseInv'
BY LookStep, FallStep DEF half_cycle

LEMMA PhaseStep == PhaseInv /\ [Next]_vars => PhaseInv'
<1> SUFFICES ASSUME PhaseInv, [Next]_vars PROVE PhaseInv'
  OBVIOUS
<1>1. CASE SelectSlave
  BY <1>1, SelectStep
<1>2. CASE ReleaseSlave
  BY <1>2, ReleaseStep
<1>3. CASE wait
  BY <1>3, WaitStep
<1>4. CASE EndHeld
  BY <1>4, EndHeldStep
<1>5. CASE EndReset
  BY <1>5, EndResetStep
<1>6. CASE Run
  <2>1. should_run' \in BOOLEAN
    BY <1>6 DEF Run, PhaseInv, FlowType
  <2> QED
    BY <1>6, <2>1, HalfCycleStep DEF Run
<1>7. CASE SingleStep
  <2>1. should_run' \in BOOLEAN
    BY <1>7 DEF SingleStep
  <2> QED
    BY <1>7, <2>1, HalfCycleStep DEF SingleStep
<1>8. CASE Reset
  BY <1>8, ResetStep DEF Reset, Listens
<1>9. ASSUME NEW run \in BOOLEAN, Continue(run) PROVE PhaseInv'
  BY <1>9, ContinueStep
<1>10. ASSUME NEW a \in {b \in CpuAddresses : device(b) = "ROM"}, NEW data \in Byte, StoreInROM(a, data)
       PROVE  PhaseInv'
  BY <1>10, UploadStep
<1>11. CASE ShiftDone
  BY <1>11, ShiftStep
<1>12. CASE UNCHANGED vars
  BY <1>12, IdleStep
<1>13. CASE FinishHalfCycle
  <2>1. should_run' \in BOOLEAN
    BY <1>13 DEF FinishHalfCycle, PhaseInv, FlowType
  <2> QED
    BY <1>13, <2>1, RiseStep DEF FinishHalfCycle
<1> QED
  BY <1>1, <1>2, <1>3, <1>4, <1>5, <1>6, <1>7, <1>8, <1>9, <1>10, <1>11, <1>12, <1>13
  DEF Next, Firmware, Commands

LEMMA AlwaysInPhase == Spec => []PhaseInv
BY PhaseInit, PhaseStep, PTL DEF Spec

\* Every variable keeps to its range: no script of exchanges ever runs empty in
\* spi_exchange(), and what is on the data bus or in a memory is a byte.
THEOREM TypeCorrect == Spec => []TypeOK
<1>1. PhaseInv => TypeOK
  BY TypeParts DEF PhaseInv
<1> QED
  BY <1>1, AlwaysInPhase, PTL

\* The AVR and the 6502 do not drive the data bus together, in a reset's half cycles or
\* out of them, with whatever addresses and bytes; up to the first look at RWB after a
\* reset() that raised PHI2 by itself they may.
THEOREM BusShared == Spec => []NoContention
<1>1. PhaseInv => NoContention
  BY DEF PhaseInv, InPhase, Yields, NoContention, CpuDrives
<1> QED
  BY <1>1, AlwaysInPhase, PTL

--------------------------------------------------------------------------------
(* What is stored *)

LEMMA FallStores == ASSUME PhaseInv, pc = "loop", Fall PROVE StoreRule
<1>1. PHI2 = 1 /\ Sampled /\ clock = 0
  BY DEF Fall, PhaseInv, InPhase, Settled, Yields
<1>2. ram \in [RamCells -> Byte] /\ rom \in [RomCells -> Byte] /\ cpu.address \in CpuAddresses
  BY DEF PhaseInv, MemoryType, CpuType, Cycle
<1>3. CASE cpu.reads
  <2>1. UNCHANGED memories
    BY <1>1, <1>3, FallCases DEF FallToExchange, FallAndStore, FallAfterRead, Sampled
  <2> QED
    BY <1>3, <2>1 DEF StoreRule, memories
<1>4. CASE ~cpu.reads
  <2>1. operation_requested = "WRITE" /\ address = cpu.address /\ latched_data = {cpu.data}
    <3>1. operation_requested \in {"READ", "WRITE"}
      BY DEF PhaseInv, BusType
    <3> QED
      BY <1>1, <1>4, <3>1 DEF Sampled, latched_data, CpuDrives
  <2>2. SUFFICES /\ ram' = [a \in RamCells |-> IF a = cpu.address THEN cpu.data ELSE ram[a]]
                 /\ rom' = [a \in RomCells |->
                              IF device(cpu.address) = "ROM" /\ RomCell(cpu.address) = a
                                 THEN cpu.data ELSE rom[a]]
    <3>1. PHI2' = 0 /\ ~Resetting
      BY DEF Fall, Resetting
    <3> QED
      BY <1>1, <1>4, <2>2, <3>1 DEF StoreRule, RomCell
  <2>3. CASE FallToExchange
    <3>1. ram' = ram /\ rom' = rom /\ TakesExchange(cpu.address)
      BY <2>1, <2>3 DEF FallToExchange, memories
    <3>2. device(cpu.address) # "RAM" /\ device(cpu.address) # "ROM"
      BY <3>1 DEF TakesExchange, IsUART, IsSPI
    <3>3. cpu.address \notin RamCells
      BY <3>2 DEF RamCells
    <3> QED
      BY <1>2, <3>1, <3>2, <3>3
  <2>4. CASE FallAndStore
    <3>1. /\ ram' = IF device(cpu.address) = "RAM" THEN [ram EXCEPT ![cpu.address] = cpu.data] ELSE ram
          /\ rom' = IF device(cpu.address) = "ROM" THEN [rom EXCEPT ![RomCell(cpu.address)] = cpu.data] ELSE rom
      BY <2>1, <2>4 DEF FallAndStore
    <3>2. device(cpu.address) = "RAM" <=> cpu.address \in RamCells
      BY <1>2 DEF RamCells
    <3>3. ram' = [a \in RamCells |-> IF a = cpu.address THEN cpu.data ELSE ram[a]]
      BY <1>2, <3>1, <3>2
    <3>4. rom' = [a \in RomCells |->
                    IF device(cpu.address) = "ROM" /\ RomCell(cpu.address) = a THEN cpu.data ELSE rom[a]]
      BY <1>2, <3>1
    <3> QED
      BY <3>3, <3>4
  <2>5. CASE FallAfterRead
    BY <2>1, <2>5 DEF FallAfterRead
  <2> QED
    BY <2>3, <2>4, <2>5, FallCases
<1> QED
  BY <1>3, <1>4

\* A memory's cell changes by nothing but the write that the 6502 finishes on it, an
\* upload apart, and every such write outside a reset is stored, with whatever addresses.
THEOREM OnlyWritesStore == Spec => StoresAreWrites
<1>1. PhaseInv /\ [Next]_vars => StoreRule
  <2> SUFFICES ASSUME PhaseInv, [Next]_vars PROVE StoreRule
    OBVIOUS
  <2>1. CASE SelectSlave \/ ReleaseSlave \/ EndHeld \/ EndReset \/ (\E run \in BOOLEAN : Continue(run))
    BY <2>1 DEF SelectSlave, ReleaseSlave, EndHeld, EndReset, Continue, StoreRule, memories
  <2>2. CASE Reset
    BY <2>2 DEF Reset, reset, StoreRule, memories
  <2>3. CASE wait
    BY <2>3 DEF wait, half_cycle_during_reset, Sample, Resetting, StoreRule, memories
  <2>4. CASE Run \/ SingleStep \/ FinishHalfCycle
    <3>1. CASE Rise
      BY <3>1 DEF Rise, StoreRule, memories
    <3>2. CASE Sample
      BY <3>2 DEF Sample, StoreRule, memories
    <3>3. CASE pc = "loop" /\ Fall
      BY <3>3, FallStores
    <3> QED
      BY <2>4, <3>1, <3>2, <3>3 DEF Run, SingleStep, FinishHalfCycle, half_cycle
  <2>5. CASE ShiftDone \/ UNCHANGED vars
    BY <2>5 DEF ShiftDone, vars, StoreRule, memories
  <2>6. ASSUME NEW a, NEW data, StoreInROM(a, data) PROVE StoreRule
    BY <2>6 DEF StoreInROM, StoreRule
  <2> QED
    BY <2>1, <2>2, <2>3, <2>4, <2>5, <2>6 DEF Next, Firmware, Commands
<1> QED
  BY <1>1, AlwaysInPhase, PTL DEF Spec, StoresAreWrites

--------------------------------------------------------------------------------
(* The SPI hardware's two users, and the count of a reset, as long as no reset    *)
(* overtook a device exchange                                                     *)

\* No byte is being shifted, and a flag left over goes with the next write of SPDR.
Quiet == shift = "none" /\ (SPIF => armed)

Flagged == SPIF => shift = "none"

\* While SSA is low the byte is the slave's exchange, and its flag its end.
OwnByte ==
    IF pc = "shift"
       THEN SSA = 0 /\ (IF SPIF THEN shift = "none" /\ SPDR = "slave" ELSE shift = "slave")
       ELSE SSA = 1 /\ shift # "slave"

\* The master's own exchanges, and the program once it saw TC, find the hardware idle.
Yielded ==
    /\ pc \in {"select", "held", "sequence"} => Quiet
    /\ pc = "loop" /\ (~waits \/ (PHI2 = 1 /\ PollsDone)) => Quiet

ResbLevel ==
    /\ pc \in {"loop", "sequence"} => RESB = 1
    /\ Exchanging /\ then \in {"drive", "next"} => RESB = 1
    /\ pc = "held" => RESB = 0

\* In reset the 6502 sees a fall of PHI2, and after it `sequence` counts with `left`.
Counted ==
    /\ pc = "held" => left <= 4 /\ (left = 4 => PHI2 = 1)
    /\ pc = "held" /\ (left <= 2 \/ (left = 3 /\ PHI2 = 0)) => sequence = 9
    /\ Exchanging /\ then = "held" => PHI2 = 1
    /\ Exchanging /\ then = "sequence" => sequence = 9
    /\ pc = "sequence" => 2 * sequence - left - PHI2 \in {5, 6}

ShareInv == Flagged /\ OwnByte /\ Yielded /\ Patient(cpu, waits) /\ ResbLevel /\ Counted

LEMMA ShareInit == Init => ShareInv
<1> SUFFICES ASSUME Init PROVE ShareInv
  OBVIOUS
<1>1. /\ pc = "select" /\ then = "held" /\ PHI2 = 1 /\ SSA = 1
      /\ shift = "none" /\ SPIF = FALSE /\ waits = FALSE
  BY DEF Init
<1>2. Flagged /\ OwnByte /\ Yielded
  BY <1>1 DEF Flagged, OwnByte, Yielded, Quiet
<1>3. Patient(cpu, waits) /\ ResbLevel /\ Counted
  BY <1>1 DEF Patient, ResbLevel, Counted
<1> QED
  BY <1>2, <1>3 DEF ShareInv

LEMMA SharedByOthers ==
    ASSUME ShareInv,
           UNCHANGED <<pc, then, left, spi, PHI2, SSA, RESB, dataBus, cpuVars, overtaken>>
    PROVE  ShareInv'
<1>1. Flagged' /\ OwnByte'
  BY DEF ShareInv, Flagged, OwnByte, spi
<1>2. Yielded'
  BY DEF ShareInv, Yielded, Quiet, PollsDone, spi, dataBus, cpuVars
<1>3. Patient(cpu, waits)' /\ ResbLevel' /\ Counted'
  BY DEF ShareInv, Patient, ResbLevel, Counted, Exchanging, cpuVars
<1> QED
  BY <1>1, <1>2, <1>3 DEF ShareInv

LEMMA SelectShares == ASSUME ShareInv, SelectSlave PROVE ShareInv'
<1>1. /\ pc = "select" /\ pc' = "shift" /\ SSA' = 0 /\ WriteSPDR("slave")
      /\ UNCHANGED <<then, left, PHI2, RESB, cpuVars, overtaken>>
  BY DEF SelectSlave, history
<1>2. shift' = "slave" /\ SPIF' = FALSE
  BY <1>1 DEF ShareInv, Yielded, Quiet, WriteSPDR
<1>3. Flagged' /\ OwnByte' /\ Yielded'
  BY <1>1, <1>2 DEF Flagged, OwnByte, Yielded
<1>4. Patient(cpu, waits)' /\ ResbLevel' /\ Counted'
  BY <1>1 DEF ShareInv, Patient, ResbLevel, Counted, Exchanging, cpuVars
<1> QED
  BY <1>3, <1>4 DEF ShareInv

LEMMA ShiftShares == ASSUME ShareInv, ShiftDone PROVE ShareInv'
<1>1. /\ shift # "none" /\ SPDR' = shift /\ shift' = "none" /\ SPIF' = TRUE
      /\ UNCHANGED <<pc, then, left, PHI2, SSA, RESB, dataBus, cpuVars, overtaken>>
  BY DEF ShiftDone, control, history
<1>2. Flagged'
  BY <1>1 DEF Flagged
<1>3. OwnByte'
  BY <1>1 DEF ShareInv, Flagged, OwnByte
<1>4. Yielded'
  BY <1>1 DEF ShareInv, Yielded, Quiet, PollsDone, dataBus, cpuVars
<1>5. Patient(cpu, waits)' /\ ResbLevel' /\ Counted'
  BY <1>1 DEF ShareInv, Patient, ResbLevel, Counted, Exchanging, cpuVars
<1> QED
  BY <1>2, <1>3, <1>4, <1>5 DEF ShareInv

LEMMA ResetShares == ASSUME ShareInv, pc = "loop", ~waits, reset PROVE ShareInv'
<1>1. /\ PHI2' = 1 /\ pc' = "select" /\ then' = "held"
      /\ UNCHANGED <<SSA, RESB, spi, cpuVars>>
  BY DEF reset
<1>2. Flagged' /\ OwnByte' /\ Yielded'
  BY <1>1 DEF ShareInv, Flagged, OwnByte, Yielded, Quiet, spi
<1>3. Patient(cpu, waits)' /\ ResbLevel' /\ Counted'
  BY <1>1 DEF Patient, ResbLevel, Counted, cpuVars
<1> QED
  BY <1>2, <1>3 DEF ShareInv

LEMMA EndHeldShares == ASSUME ShareInv, EndHeld PROVE ShareInv'
<1>1. /\ pc = "held" /\ left = 0 /\ pc' = "select" /\ then' = "sequence"
      /\ UNCHANGED <<SSA, spi, cpuVars, overtaken>>
  BY DEF EndHeld, history
<1>2. Flagged' /\ OwnByte' /\ Yielded'
  BY <1>1 DEF ShareInv, Flagged, OwnByte, Yielded, Quiet, spi
<1>3. Patient(cpu, waits)' /\ ResbLevel' /\ Counted'
  BY <1>1 DEF ShareInv, Patient, ResbLevel, Counted, cpuVars
<1> QED
  BY <1>2, <1>3 DEF ShareInv

LEMMA EndResetShares == ASSUME ShareInv, EndReset PROVE ShareInv'
<1>1. /\ pc = "sequence" /\ pc' = "loop"
      /\ UNCHANGED <<SSA, RESB, spi, cpuVars, overtaken>>
  BY DEF EndReset, history
<1>2. Flagged' /\ OwnByte' /\ Yielded'
  BY <1>1 DEF ShareInv, Flagged, OwnByte, Yielded, Quiet, spi
<1>3. Patient(cpu, waits)' /\ ResbLevel' /\ Counted'
  BY <1>1 DEF ShareInv, Patient, ResbLevel, Counted, Exchanging, cpuVars
<1> QED
  BY <1>2, <1>3 DEF ShareInv

LEMMA FallIsPatient ==
    ASSUME Patient(cpu, waits), CpuFalls, UNCHANGED overtaken
    PROVE  Patient(cpu, waits)'
<1>1. CASE PHI2 = 0
  BY <1>1 DEF CpuFalls, cpuVars, Patient
<1>2. CASE PHI2 # 0
  BY <1>2 DEF CpuFalls, Patient
<1> QED
  BY <1>1, <1>2

LEMMA WaitShares == ASSUME PhaseInv, ShareInv, wait PROVE ShareInv'
<1>1. pc \in {"held", "sequence"} /\ left > 0 /\ half_cycle_during_reset
  BY DEF wait
<1>2. CASE Sample
  <2>1. UNCHANGED <<pc, then, left, spi, PHI2, SSA, RESB, cpuVars, overtaken>>
    BY <1>2 DEF Sample
  <2>2. Flagged' /\ OwnByte' /\ Yielded'
    BY <1>1, <2>1 DEF ShareInv, Flagged, OwnByte, Yielded, Quiet, spi
  <2>3. Patient(cpu, waits)' /\ ResbLevel' /\ Counted'
    BY <2>1 DEF ShareInv, Patient, ResbLevel, Counted, Exchanging, cpuVars
  <2> QED
    BY <2>2, <2>3 DEF ShareInv
<1>3. CASE /\ RiseInReset \/ FallInReset
           /\ clock' = 1 - clock /\ left' = left - 1
           /\ UNCHANGED <<pc, script, then, should_run, sampled, memories, SSA, RESB, spi, history>>
  <2>1. /\ left \in 0 .. 12 /\ sequence \in 0 .. 9 /\ PHI2 \in {0, 1} /\ clock \in {0, 1}
        /\ RESB = IF pc = "held" THEN 0 ELSE 1
    BY <1>1 DEF PhaseInv, FlowType, CpuType, BusType, ShareInv, ResbLevel
  <2>2. Flagged' /\ OwnByte' /\ Yielded' /\ ResbLevel'
    BY <1>1, <1>3 DEF ShareInv, Flagged, OwnByte, Yielded, Quiet, ResbLevel, Exchanging, spi
  <2>3. Patient(cpu, waits)'
    BY <1>3, FallIsPatient DEF ShareInv, Patient, RiseInReset, FallInReset, cpuVars, history
  <2>4. left < 4 \/ pc = "sequence" => PHI2 = 1 - clock
    BY <1>1 DEF PhaseInv, InPhase, Settled, WAIT_IN_RESET
  <2>5. Counted'
    <3>1. CASE RiseInReset
      <4>1. clock = 1 /\ PHI2' = 1 /\ sequence' = sequence
        BY <3>1 DEF RiseInReset, cpuVars, PhaseInv, Poised
      <4>2. CASE pc = "held"
        BY <1>1, <1>3, <2>1, <2>4, <4>1, <4>2 DEF ShareInv, Counted, Exchanging
      <4>3. CASE pc = "sequence"
        BY <1>1, <1>3, <2>1, <2>4, <4>1, <4>3 DEF ShareInv, Counted, Exchanging
      <4> QED
        BY <1>1, <4>2, <4>3
    <3>2. CASE FallInReset
      <4>1. clock = 0 /\ PHI2' = 0 /\ (PHI2 = 1 => sequence' = Coming)
        BY <3>2 DEF FallInReset, CpuFalls
      <4>2. PHI2 = 1
        BY <1>1, <2>1, <2>4, <4>1 DEF ShareInv, Counted
      <4>3. CASE pc = "held"
        <5>1. sequence' = 9
          BY <2>1, <4>1, <4>2, <4>3 DEF Coming
        <5> QED
          BY <1>1, <1>3, <2>1, <4>1, <4>3, <5>1 DEF ShareInv, Counted, Exchanging
      <4>4. CASE pc = "sequence"
        <5>1. 2 * sequence - left - PHI2 \in {5, 6} /\ left' = left - 1 /\ pc' = pc
          BY <1>3, <4>4 DEF ShareInv, Counted
        <5>2. sequence' = sequence - 1
          <6>1. sequence # 0
            BY <1>1, <2>1, <4>2, <5>1
          <6> QED
            BY <2>1, <4>1, <4>2, <4>4, <6>1 DEF Coming
        <5>3. 2 * sequence' - left' - PHI2' \in {5, 6}
          BY <2>1, <4>1, <4>2, <5>1, <5>2
        <5> QED
          BY <4>4, <5>1, <5>3 DEF Counted, Exchanging
      <4> QED
        BY <1>1, <4>3, <4>4
    <3> QED
      BY <1>3, <3>1, <3>2
  <2> QED
    BY <2>2, <2>3, <2>5 DEF ShareInv
<1> QED
  BY <1>1, <1>2, <1>3 DEF half_cycle_during_reset

LEMMA ReleaseShares == ASSUME PhaseInv, ShareInv, ReleaseSlave PROVE ShareInv'
<1>1. /\ pc = "shift" /\ SPIF /\ SSA' = 1 /\ SPIF' = FALSE /\ Obeyed
      /\ shift' = IF shift = "slave" THEN "cut" ELSE shift
      /\ UNCHANGED <<PHI2, SPDR, cpuVars, overtaken>>
  BY DEF ReleaseSlave, Finished, history
<1>2. shift = "none" /\ SPDR = "slave" /\ Whole
  BY <1>1 DEF ShareInv, OwnByte, Whole
<1>3. /\ pc' \in {"select", "held", "sequence", "loop"}
      /\ then \in {"held", "sequence", "drive", "next"}
  BY DEF ReleaseSlave, PhaseInv, FlowType
<1>4. Flagged' /\ OwnByte' /\ Yielded'
  BY <1>1, <1>2, <1>3 DEF Flagged, OwnByte, Yielded, Quiet
<1>5. Patient(cpu, waits)'
  BY <1>1 DEF ShareInv, Patient, cpuVars
<1>6. CASE then \in {"drive", "next"}
  <2>1. Head(script) \in {"SELECT", "UART", "POLL", "data"}
    <3>1. script \in Seq({"SELECT", "UART", "POLL", "data"}) /\ script # <<>>
      BY <1>1, <1>6 DEF PhaseInv, Scripted, Exchanging
    <3> QED
      BY <3>1, HeadTailProperties
  <2>2. RESB' = RESB /\ RESB = 1
    BY <1>1, <1>6, <2>1 DEF Obeyed, ShareInv, ResbLevel, Exchanging
  <2>3. (pc' = "select" /\ then' = then) \/ pc' = "loop"
    BY <1>6 DEF ReleaseSlave
  <2>4. ResbLevel' /\ Counted'
    BY <1>6, <2>2, <2>3 DEF ResbLevel, Counted, Exchanging
  <2> QED
    BY <1>4, <1>5, <2>4 DEF ShareInv
<1>7. CASE then = "held"
  <2>1. script = <<"ASSERT_RESB">>
    BY <1>1, <1>7 DEF PhaseInv, Scripted, Exchanging
  <2>2. RESB' = 0
    BY <1>1, <1>2, <2>1 DEF Obeyed
  <2>3. pc' = "held" /\ left' = 4
    BY <1>7, <2>1 DEF ReleaseSlave, WAIT_IN_RESET
  <2>4. PHI2' = 1
    BY <1>1, <1>7 DEF ShareInv, Counted, Exchanging
  <2>5. ResbLevel' /\ Counted'
    BY <2>2, <2>3, <2>4 DEF ResbLevel, Counted, Exchanging
  <2> QED
    BY <1>4, <1>5, <2>5 DEF ShareInv
<1>8. CASE then = "sequence"
  <2>1. script = <<"RELEASE_RESB">>
    BY <1>1, <1>8 DEF PhaseInv, Scripted, Exchanging
  <2>2. RESB' = 1
    BY <1>1, <1>2, <2>1 DEF Obeyed
  <2>3. pc' = "sequence" /\ left' = 12
    BY <1>8, <2>1 DEF ReleaseSlave, WAIT_AFTER_RESET
  <2>4. sequence' = 9 /\ PHI2' \in {0, 1}
    BY <1>1, <1>8 DEF ShareInv, Counted, Exchanging, cpuVars, PhaseInv, BusType
  <2>5. 2 * sequence' - left' - PHI2' \in {5, 6}
    <3>1. CASE PHI2' = 0
      BY <2>3, <2>4, <3>1
    <3>2. CASE PHI2' = 1
      BY <2>3, <2>4, <3>2
    <3> QED
      BY <2>4, <3>1, <3>2
  <2>6. ResbLevel'
    BY <2>2, <2>3 DEF ResbLevel, Exchanging
  <2>7. Counted'
    BY <2>3, <2>5 DEF Counted, Exchanging
  <2> QED
    BY <1>4, <1>5, <2>6, <2>7 DEF ShareInv
<1> QED
  BY <1>3, <1>6, <1>7, <1>8

LEMMA RiseShares ==
    ASSUME PhaseInv, ShareInv, ~overtaken, pc = "loop", Rise
    PROVE  ShareInv'
<1>1. PHI2' = 1 /\ UNCHANGED <<SSA, RESB, overtaken>> /\ cpu' = cpu /\ waits' = waits /\ sequence' = sequence
  BY DEF Rise, cpuVars, history
<1>2. RESB = 1 /\ SSA = 1 /\ shift # "slave" /\ BusType /\ MemoryType /\ CpuType /\ Sampled
  BY DEF ShareInv, ResbLevel, OwnByte, PhaseInv, Rise, Poised, Yields
<1>3. Patient(cpu, waits)'
  BY <1>1 DEF ShareInv, Patient
<1>4. CASE RiseToExchange
  <2>1. pc' = "select" /\ then' = "drive" /\ UNCHANGED spi /\ IsUART(cpu.address)
    BY <1>4 DEF RiseToExchange
  <2>2. Quiet
    BY <2>1 DEF ShareInv, Patient, Yielded
  <2>3. Flagged' /\ OwnByte' /\ Yielded'
    BY <1>1, <1>2, <2>1, <2>2 DEF ShareInv, Flagged, OwnByte, Yielded, Quiet, spi
  <2>4. ResbLevel' /\ Counted'
    BY <1>1, <1>2, <2>1 DEF ResbLevel, Counted
  <2> QED
    BY <1>3, <2>3, <2>4 DEF ShareInv
<1>5. CASE RiseAndServe \/ RiseForWrite
  <2>1. pc' = "loop" /\ shift' = shift
    BY <1>5 DEF RiseAndServe, RiseForWrite, SpiRead, ReadSPDR, ReadSPSR, spi
  <2>2. SPIF' => SPIF
    BY <1>5 DEF RiseAndServe, RiseForWrite, SpiRead, ReadSPDR, ReadSPSR, spi
  <2>3. Flagged' /\ OwnByte'
    BY <1>1, <1>2, <2>1, <2>2 DEF ShareInv, Flagged, OwnByte
  <2>4. ResbLevel' /\ Counted'
    BY <1>1, <1>2, <2>1 DEF ResbLevel, Counted, Exchanging
  <2>5. Quiet => Quiet'
    <3>1. ReadSPDR \/ ReadSPSR \/ UNCHANGED spi
      BY <1>5 DEF RiseAndServe, RiseForWrite, SpiRead
    <3>2. CASE ReadSPDR
      BY <3>2 DEF Quiet, ReadSPDR
    <3>3. CASE ReadSPSR
      BY <3>3 DEF Quiet, ReadSPSR
    <3>4. CASE UNCHANGED spi
      BY <3>4 DEF Quiet, spi
    <3> QED
      BY <3>1, <3>2, <3>3, <3>4
  <2>6. PollsDone' => Quiet'
    <3> SUFFICES ASSUME PollsDone' PROVE Quiet'
      OBVIOUS
    <3>1. IsSPI(cpu.address, STATUS) /\ cpu.reads /\ data_to_drive' = 1
      BY <1>1 DEF PollsDone
    <3>2. ~IsSPI(cpu.address, DATA)
      BY <3>1 DEF IsSPI, STATUS, DATA
    <3>3. data_to_drive' = (IF SPIF THEN 1 ELSE 0) /\ ReadSPSR
      BY <1>5, <3>1, <3>2 DEF RiseAndServe, RiseForWrite, SpiRead
    <3>4. SPIF
      BY <3>1, <3>3
    <3> QED
      BY <3>3, <3>4 DEF ReadSPSR, Quiet, ShareInv, Flagged
  <2>7. Yielded'
    BY <1>1, <2>1, <2>5, <2>6 DEF ShareInv, Yielded
  <2> QED
    BY <1>3, <2>3, <2>4, <2>7 DEF ShareInv
<1> QED
  BY <1>2, <1>4, <1>5, RiseCases

LEMMA FallShares ==
    ASSUME PhaseInv, ShareInv, ~overtaken, pc = "loop", Fall
    PROVE  ShareInv'
<1>1. /\ clock = 0 /\ PHI2' = 0 /\ CpuFalls /\ PHI2 = 1 /\ Sampled
      /\ UNCHANGED <<SSA, RESB, overtaken>>
  BY DEF Fall, PhaseInv, InPhase, Settled, Yields, history
<1>2. RESB = 1 /\ SSA = 1 /\ shift # "slave" /\ operation_requested \in {"READ", "WRITE"}
  BY DEF ShareInv, ResbLevel, OwnByte, PhaseInv, BusType
<1>3. Patient(cpu, waits)'
  BY <1>1, FallIsPatient DEF ShareInv
<1>4. ~waits => Quiet
  BY DEF ShareInv, Yielded
<1>5. waits' = (StartsTransfer \/ (waits /\ ~PollsDone))
  BY <1>1, <1>2 DEF CpuFalls
<1>6. CASE FallToExchange
  <2>1. pc' = "select" /\ then' = "next" /\ UNCHANGED spi /\ TakesExchange(cpu.address)
    BY <1>1, <1>6 DEF FallToExchange, Sampled
  <2>2. Quiet
    BY <1>4, <2>1 DEF ShareInv, Patient, TakesExchange
  <2>3. Flagged' /\ OwnByte' /\ Yielded'
    BY <1>1, <1>2, <2>1, <2>2 DEF ShareInv, Flagged, OwnByte, Yielded, Quiet, spi
  <2>4. ResbLevel' /\ Counted'
    BY <1>1, <1>2, <2>1 DEF ResbLevel, Counted
  <2> QED
    BY <1>3, <2>3, <2>4 DEF ShareInv
<1>7. CASE FallAndStore \/ FallAfterRead
  <2>1. pc' = "loop"
    BY <1>7 DEF FallAndStore, FallAfterRead
  <2>2. ResbLevel' /\ Counted'
    BY <1>1, <1>2, <2>1 DEF ResbLevel, Counted, Exchanging
  <2>3. CASE UNCHANGED spi
    <3>1. ~StartsTransfer /\ (~waits \/ PollsDone) => Quiet
      BY <1>1 DEF ShareInv, Yielded
    <3>2. Yielded'
      <4>1. Quiet => Quiet'
        BY <2>3 DEF Quiet, spi
      <4>2. ~waits' => Quiet
        BY <1>5, <3>1
      <4> QED
        BY <1>1, <2>1, <4>1, <4>2 DEF Yielded
    <3>3. Flagged' /\ OwnByte'
      BY <1>1, <1>2, <2>1, <2>3 DEF ShareInv, Flagged, OwnByte, spi
    <3> QED
      BY <1>3, <2>2, <3>2, <3>3 DEF ShareInv
  <2>4. CASE FallAndStore /\ IsSPI(address, DATA) /\ WriteSPDR("device")
    <3>1. StartsTransfer
      BY <1>1, <2>4 DEF FallAndStore, Sampled, StartsTransfer
    <3>2. waits'
      BY <1>5, <3>1
    <3>3. Quiet
      BY <1>4, <3>1 DEF ShareInv, Patient, StartsTransfer
    <3>4. shift' = "device" /\ SPIF' = FALSE
      BY <2>4, <3>3 DEF WriteSPDR, Quiet
    <3>5. Flagged' /\ OwnByte' /\ Yielded'
      BY <1>1, <1>2, <2>1, <3>2, <3>4 DEF Flagged, OwnByte, Yielded
    <3> QED
      BY <1>3, <2>2, <3>5 DEF ShareInv
  <2> QED
    BY <1>7, <2>3, <2>4 DEF FallAndStore, FallAfterRead, SpiWrite
<1> QED
  BY <1>6, <1>7, FallCases

LEMMA LookShares == ASSUME PhaseInv, ShareInv, pc = "loop", Sample PROVE ShareInv'
<1>1. /\ clock = 1 /\ PHI2 # 1
      /\ UNCHANGED <<pc, then, left, spi, PHI2, SSA, RESB, cpuVars, overtaken>>
  BY DEF Sample, PhaseInv, InPhase, Settled
<1>2. Flagged' /\ OwnByte' /\ Yielded'
  BY <1>1 DEF ShareInv, Flagged, OwnByte, Yielded, Quiet, spi, cpuVars
<1>3. Patient(cpu, waits)' /\ ResbLevel' /\ Counted'
  BY <1>1 DEF ShareInv, Patient, ResbLevel, Counted, Exchanging, cpuVars
<1> QED
  BY <1>2, <1>3 DEF ShareInv

Shared == ~overtaken => ShareInv

LEMMA ShareStep == PhaseInv /\ Shared /\ [Next]_vars => Shared'
<1> SUFFICES ASSUME PhaseInv, Shared, [Next]_vars, ~overtaken' PROVE ShareInv'
  BY DEF Shared
<1>1. CASE Reset
  <2>1. overtaken' = (overtaken \/ waits)
    BY <1>1 DEF Reset, reset
  <2>2. ShareInv /\ ~waits
    BY <2>1 DEF Shared
  <2> QED
    BY <1>1, <2>2, ResetShares DEF Reset, Listens
<1>2. CASE ~Reset
  <2>1. overtaken' = overtaken
    BY <1>2 DEF Next, Firmware, Commands, SelectSlave, ReleaseSlave, wait, half_cycle_during_reset, EndHeld, EndReset,
       Run, SingleStep, half_cycle, FinishHalfCycle, Sample, Rise, Fall, Continue, StoreInROM, ShiftDone, history, vars
  <2>2. ShareInv /\ ~overtaken
    BY <2>1 DEF Shared
  <2>3. CASE SelectSlave
    BY <2>2, <2>3, SelectShares
  <2>4. CASE ReleaseSlave
    BY <2>2, <2>4, ReleaseShares
  <2>5. CASE wait
    BY <2>2, <2>5, WaitShares
  <2>6. CASE EndHeld
    BY <2>2, <2>6, EndHeldShares
  <2>7. CASE EndReset
    BY <2>2, <2>7, EndResetShares
  <2>8. CASE Run \/ SingleStep
    BY <2>2, <2>8, LookShares, FallShares DEF Run, SingleStep, half_cycle
  <2>9. CASE FinishHalfCycle
    BY <2>2, <2>9, RiseShares DEF FinishHalfCycle
  <2>10. ASSUME NEW run, Continue(run) PROVE ShareInv'
    BY <2>1, <2>2, <2>10, SharedByOthers DEF Continue
  <2>11. ASSUME NEW a, NEW data, StoreInROM(a, data) PROVE ShareInv'
    BY <2>1, <2>2, <2>11, SharedByOthers DEF StoreInROM, control
  <2>12. CASE ShiftDone
    BY <2>2, <2>12, ShiftShares
  <2>13. CASE UNCHANGED vars
    BY <2>1, <2>2, <2>13, SharedByOthers DEF vars, control
  <2> QED
    BY <1>2, <2>3, <2>4, <2>5, <2>6, <2>7, <2>8, <2>9, <2>10, <2>11, <2>12, <2>13 DEF Next, Firmware, Commands
<1> QED
  BY <1>1, <1>2

LEMMA AlwaysShared == Spec => []Shared
<1>1. Init => Shared
  BY ShareInit DEF Shared
<1> QED
  BY <1>1, ShareStep, AlwaysInPhase, PTL DEF Spec

\* The select line of the slave frames one byte of the SPI hardware, its own, until a
\* reset overtakes a transfer that the 6502's program waits for.
THEOREM SelectFramesByte == Spec => ExchangeWhole
<1>1. PhaseInv /\ Shared /\ [Next]_vars =>
        [~overtaken => /\ SSA = 1 /\ SSA' = 0 => shift = "none"
                       /\ SSA = 0 /\ SSA' = 1 => Whole]_vars
  <2> SUFFICES ASSUME ShareInv, Next
               PROVE  /\ SSA = 1 /\ SSA' = 0 => shift = "none"
                      /\ SSA = 0 /\ SSA' = 1 => Whole
    BY DEF vars, Shared
  <2>1. CASE SelectSlave
    BY <2>1 DEF SelectSlave, ShareInv, Yielded, Quiet
  <2>2. CASE ReleaseSlave
    BY <2>2 DEF ReleaseSlave, Finished, ShareInv, OwnByte, Whole
  <2>3. CASE wait \/ EndHeld \/ EndReset \/ Reset \/ ShiftDone
    BY <2>3 DEF wait, half_cycle_during_reset, Sample, EndHeld, EndReset, Reset, reset, ShiftDone
  <2>4. CASE Run \/ SingleStep \/ FinishHalfCycle
    BY <2>4 DEF Run, SingleStep, FinishHalfCycle, half_cycle, Sample, Rise, Fall
  <2>5. ASSUME NEW run, Continue(run) PROVE SSA' = SSA
    BY <2>5 DEF Continue
  <2>6. ASSUME NEW a, NEW data, StoreInROM(a, data) PROVE SSA' = SSA
    BY <2>6 DEF StoreInROM
  <2> QED
    BY <2>1, <2>2, <2>3, <2>4, <2>5, <2>6 DEF Next, Firmware, Commands
<1> QED
  BY <1>1, AlwaysInPhase, AlwaysShared, PTL DEF Spec, ExchangeWhole

LEMMA ReadBegins ==
    ASSUME PhaseInv, ShareInv, Next, ~Reading, Reading'
    PROVE  Served'
<1>1. pc' = "loop" /\ PHI2' = 1 /\ cpu'.reads /\ sequence' <= 2
  BY DEF Reading
<1>2. BusType /\ MemoryType /\ CpuType
  BY DEF PhaseInv
<1>3. CASE SelectSlave \/ wait \/ EndHeld \/ Reset
  BY <1>1, <1>3 DEF SelectSlave, wait, half_cycle_during_reset, Sample, EndHeld, Reset, reset
<1>4. CASE EndReset
  <2>1. 2 * sequence - left - PHI2 \in {5, 6} /\ left = 0 /\ PHI2 = 1 /\ sequence <= 2 /\ sequence \in 0 .. 9
    BY <1>1, <1>2, <1>4 DEF EndReset, ShareInv, Counted, cpuVars, CpuType
  <2> QED
    BY <2>1
<1>5. CASE ReleaseSlave
  <2>1. then = "drive"
    BY <1>1, <1>5 DEF ReleaseSlave, PhaseInv, FlowType, MidCycle, Exchanging
  <2>2. driving' = TRUE
    BY <1>1, <1>5, <2>1 DEF ReleaseSlave, Drive
  <2>3. IsUART(cpu'.address)
    BY <1>5, <2>1 DEF ReleaseSlave, PhaseInv, MidCycle, Exchanging, cpuVars
  <2>4. device(cpu'.address) # "RAM" /\ device(cpu'.address) # "ROM"
    BY <2>3 DEF IsUART
  <2> QED
    BY <2>2, <2>4 DEF Served
<1>6. CASE Run \/ SingleStep
  <2>1. CASE pc = "loop" /\ Sample
    BY <1>1, <2>1 DEF Sample, PhaseInv, InPhase, Settled
  <2>2. CASE Fall
    BY <1>1, <2>2 DEF Fall
  <2> QED
    BY <1>6, <2>1, <2>2 DEF Run, SingleStep, half_cycle
<1>7. CASE ShiftDone
  BY <1>1, <1>7 DEF ShiftDone, control, cpuVars, Reading
<1>10. CASE FinishHalfCycle
  <2>1. Rise /\ UNCHANGED <<memories, cpuVars>> /\ Sampled
    BY <1>10 DEF FinishHalfCycle, Rise, PhaseInv, Poised, Yields
  <2>2. RiseAndServe
    BY <1>1, <1>2, <2>1, RiseCases DEF RiseToExchange, RiseForWrite, cpuVars
  <2> QED
    BY <2>1, <2>2 DEF RiseAndServe, Served, memories, cpuVars
<1>8. ASSUME NEW run, Continue(run) PROVE FALSE
  BY <1>1, <1>8 DEF Continue, cpuVars, Reading
<1>9. ASSUME NEW a, NEW data, StoreInROM(a, data) PROVE FALSE
  BY <1>1, <1>9 DEF StoreInROM, control, cpuVars, Reading
<1> QED
  BY <1>3, <1>4, <1>5, <1>6, <1>7, <1>8, <1>9, <1>10 DEF Next, Firmware, Commands

LEMMA ReadLasts ==
    ASSUME PhaseInv, Next, Reading, Reading'
    PROVE  UNCHANGED dataBus
<1>1. pc = "loop" /\ PHI2 = 1 /\ pc' = "loop" /\ PHI2' = 1 /\ clock # 1
  BY DEF Reading, PhaseInv, InPhase, Settled, FlowType
<1>2. CASE SelectSlave \/ ReleaseSlave \/ wait \/ EndHeld \/ EndReset \/ Reset
  BY <1>1, <1>2 DEF SelectSlave, ReleaseSlave, wait, EndHeld, EndReset, Reset, reset
<1>3. CASE Run \/ SingleStep
  BY <1>1, <1>3 DEF Run, SingleStep, half_cycle, Sample, Fall
<1>4. CASE ShiftDone
  BY <1>4 DEF ShiftDone
<1>7. CASE FinishHalfCycle
  BY <1>1, <1>7 DEF FinishHalfCycle, Rise, PhaseInv, Poised
<1>5. ASSUME NEW run, Continue(run) PROVE UNCHANGED dataBus
  BY <1>5 DEF Continue
<1>6. ASSUME NEW a, NEW data, StoreInROM(a, data) PROVE UNCHANGED dataBus
  BY <1>6 DEF StoreInROM
<1> QED
  BY <1>2, <1>3, <1>4, <1>5, <1>6, <1>7 DEF Next, Firmware, Commands

\* From the fetch of the reset vector on, whatever the phase of PHI2 at the reset, every
\* read of memory gets its cell's byte and keeps it to its end, until a reset overtakes a
\* transfer that the 6502's program waits for.
THEOREM ReadsAnswered == Spec => ReadsServed
<1>1. PhaseInv /\ Shared /\ [Next]_vars =>
        [Reading' /\ ~overtaken' => IF Reading THEN UNCHANGED dataBus ELSE Served']_vars
  <2> SUFFICES ASSUME PhaseInv, Shared, Next, Reading', ~overtaken'
               PROVE  IF Reading THEN UNCHANGED dataBus ELSE Served'
    OBVIOUS
  <2>1. ShareInv
    BY DEF Shared, Next, Firmware, Commands, SelectSlave, ReleaseSlave, wait, half_cycle_during_reset, EndHeld,
       EndReset, Run, SingleStep, half_cycle, FinishHalfCycle, Sample, Rise, Fall, Reset, reset, Continue, StoreInROM,
       ShiftDone, history
  <2> QED
    BY <2>1, ReadBegins, ReadLasts
<1> QED
  BY <1>1, AlwaysInPhase, AlwaysShared, PTL DEF Spec, ReadsServed
================================================================================
