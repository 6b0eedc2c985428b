---------------------------- MODULE R1LinkProofs ----------------------------
(***************************************************************************)
(* Proofs about the link between the two AVRs of the R1 board, and at the  *)
(* end about the queues of the slave (RingQueue).                          *)
(*                                                                         *)
(* TypeCorrect holds whatever the timing.  The other theorems are about a  *)
(* link whose host is quiet during operations (QuietHost; see r1_rx_race   *)
(* for one that is not), for every choice of SlowRequests: they hold until *)
(* an exchange first meets a slave not done with a slow request (late),    *)
(* for every set of devices, all data, every capacity of the queues and    *)
(* any number of operations.  They do not hold after it: R1Link says what  *)
(* goes wrong then.                                                        *)
(*                                                                         *)
(* The invariant, IInv, says what byte the slave can have in hand at each  *)
(* point of the master's operation (Hand), which of the two meanings the   *)
(* slave gives to the next byte (StateAgrees), and who drives MISO and the *)
(* select lines (Lines).  DataInv adds where the data are: the answer on   *)
(* its way to the master (Answered), a byte that is being read (Receiving),*)
(* a byte that is being written (Sending), and which device the 6502 is    *)
(* about to reach (Reached).                                               *)
(***************************************************************************)
EXTENDS R1Link, RingQueue, SequenceTheorems, TLAPS

\* SSA is low.
Exchanging == {"armed", "shifting", "shifted"}

\* An operation none of whose exchanges is complete, and one with an exchange
\* behind it.
Whole ==
  \/ op = "status" /\ script = <<QUERY_UART_STATUS, POLL>>
  \/ op = "read" /\ script = <<DEQUEUE_UART_DATA, POLL>>
  \/ op = "write" /\ \E d \in TxData : script = <<SEND_VIA_UART, d>>
  \/ op = "reset" /\ script = <<ASSERT_RESB, RELEASE_RESB>>
  \/ op = "select" /\ \E id \in DeviceId \union {NO_SLAVE_SELECTED} :
                        script = <<SELECT_SLAVE_0 + id>>

Half ==
  \/ op \in {"status", "read"} /\ script = <<POLL>>
  \/ op = "write" /\ \E d \in TxData : script = <<d>>
  \/ op = "reset" /\ script = <<RELEASE_RESB>>

\* What an operation has yet to exchange, whatever the slave does.
Shape ==
  /\ Whole \/ Half \/ (op = "none" /\ script = << >>)
  /\ m_pc \in Exchanging => op # "none"
  /\ m_pc = "device" => op = "none"

\* The rest of the master's part of the type invariant.
MasterType ==
  /\ m_pc \in {"idle", "armed", "shifting", "shifted", "device"}
  /\ SPDR \in Byte /\ status \in Byte
  /\ cpu_dev \in DeviceId \union {NO_SLAVE_SELECTED}

\* Numbers as in Request.h.
LEMMA Codes ==
  /\ {POLL, ASSERT_RESB, RELEASE_RESB, QUERY_UART_STATUS, DEQUEUE_UART_DATA,
      SEND_VIA_UART, SELECT_SLAVE_0, NO_SLAVE_SELECTED} \subseteq Byte
  /\ \A id \in 0 .. 7 : SELECT_SLAVE_0 + id \in Byte /\ SELECT_SLAVE_0 + id - SELECT_SLAVE_0 = id
  /\ SelectRequest \subseteq Byte
BY DEF POLL, ASSERT_RESB, RELEASE_RESB, QUERY_UART_STATUS, DEQUEUE_UART_DATA,
       SEND_VIA_UART, SELECT_SLAVE_0, NO_SLAVE_SELECTED, SelectRequest, RELEASE_SLAVE, Byte

\* A device, or none, is one of the eight numbers that Request.h provides for.
LEMMA DeviceNumbers == DeviceId \union {NO_SLAVE_SELECTED} \subseteq 0 .. 7
BY LinkAssumption DEF NO_SLAVE_SELECTED

\* The master's script has the shape of its operation after every step.
LEMMA MasterTypePreserved ==
  ASSUME MasterType, Shape, [Next]_vars, USIDR \in Byte PROVE MasterType' /\ Shape'
<1>1. CASE Operation
  <2>1. m_pc' = "idle" /\ SPDR' = SPDR /\ cpu_dev' = cpu_dev
    BY <1>1 DEF Operation, ReadStatus, ReadData, WriteData, SelectDevice, ResetCPU, Begin,
       MasterType
  <2>2. status' \in Byte
    BY <1>1, Codes DEF Operation, ReadStatus, ReadData, WriteData, SelectDevice, ResetCPU, Begin,
       MasterType, POLL
  <2>3. Whole'
    BY <1>1 DEF Operation, ReadStatus, ReadData, WriteData, SelectDevice, ResetCPU, Begin, Whole
  <2> QED
    BY <2>1, <2>2, <2>3 DEF MasterType, Shape, Exchanging
<1>2. CASE AssertSSA \/ StartShift \/ EndShift
  <2>1. m_pc' \in Exchanging /\ UNCHANGED <<op, script, status, cpu_dev>>
    BY <1>2 DEF AssertSSA, StartShift, EndShift, Exchanging
  <2>2. SPDR' \in Byte
    <3>1. 255 \in Byte
      BY DEF Byte
    <3> QED
      BY <1>2, <3>1, LinkAssumption DEF AssertSSA, StartShift, EndShift, Received, MasterType
  <2>3. op # "none"
    BY <1>2 DEF AssertSSA, StartShift, EndShift, Shape, Exchanging, Half, Whole
  <2> QED
    BY <2>1, <2>2, <2>3 DEF Shape, MasterType, Whole, Half, Exchanging
<1>3. CASE ReleaseSSA
  <2>1. Whole \/ Half
    BY <1>3 DEF ReleaseSSA, Shape, Exchanging
  <2>2. m_pc' = "idle" /\ SPDR' = SPDR /\ status' \in Byte
    BY <1>3 DEF ReleaseSSA, MasterType
  <2>3. CASE Whole /\ op # "select"
    <3>1. PICK a, b : script = <<a, b>>
      BY <2>3 DEF Whole
    <3>2. Tail(script) = <<b>> /\ Tail(script) # << >>
      BY <3>1
    <3>3. script' = Tail(script) /\ op' = op
      BY <1>3, <3>2 DEF ReleaseSSA
    <3>4. Half'
      BY <2>3, <3>1, <3>2, <3>3 DEF Whole, Half
    <3>5. cpu_dev' \in DeviceId \union {NO_SLAVE_SELECTED}
      BY <1>3, <2>3 DEF ReleaseSSA, Chosen, MasterType
    <3> QED
      BY <2>2, <3>4, <3>5 DEF Shape, MasterType, Exchanging
  <2>4. CASE Half \/ (Whole /\ op = "select")
    <3>1. PICK a : script = <<a>>
      BY <2>4 DEF Whole, Half
    <3>2. Tail(script) = << >> /\ Head(script) = a
      BY <3>1
    <3>3. script' = << >> /\ op' = "none"
      BY <1>3, <3>2 DEF ReleaseSSA
    <3>4. op = "select" => a - SELECT_SLAVE_0 \in DeviceId \union {NO_SLAVE_SELECTED}
      <4>1. SUFFICES ASSUME op = "select"
                     PROVE  a - SELECT_SLAVE_0 \in DeviceId \union {NO_SLAVE_SELECTED}
        OBVIOUS
      <4>2. PICK id \in DeviceId \union {NO_SLAVE_SELECTED} : script = <<SELECT_SLAVE_0 + id>>
        BY <2>4, <4>1 DEF Whole, Half
      <4>3. a = SELECT_SLAVE_0 + id
        BY <3>1, <4>2
      <4> QED
        <5>1. id \in 0 .. 7
          BY DeviceNumbers
        <5>2. a - SELECT_SLAVE_0 = id
          BY <4>3, <5>1 DEF SELECT_SLAVE_0
        <5> QED
          BY <5>2
    <3>5. cpu_dev' \in DeviceId \union {NO_SLAVE_SELECTED}
      BY <1>3, <3>2, <3>4 DEF ReleaseSSA, Chosen, MasterType
    <3> QED
      BY <2>2, <3>3, <3>5 DEF Shape, MasterType, Exchanging
  <2> QED
    BY <2>1, <2>3, <2>4
<1>4. CASE StartDeviceExchange \/ EndDeviceExchange
  <2>1. m_pc' \in {"idle", "device"} /\ UNCHANGED <<op, script, SPDR, status, cpu_dev>>
        /\ op = "none"
    BY <1>4 DEF StartDeviceExchange, EndDeviceExchange, Shape
  <2> QED
    BY <2>1 DEF MasterType, Shape, Whole, Half, Exchanging
<1>5. CASE UNCHANGED master
  BY <1>5 DEF master, MasterType, Shape, Whole, Half
<1>6. UartReceive \/ UartTransmit \/ SlaveProgram \/ UNCHANGED vars => UNCHANGED master
  BY DEF UartReceive, UartTransmit, SlaveProgram, Sleep, CheckQueue, Greet, Report, Ignore,
         SetRESB, BeginSelect, ReadPort, WritePort, RememberSlave, QueryStatus, DequeueData,
         ExpectData, SendData, LoadUSIDR, MarkHot, vars
<1> QED
  BY <1>1, <1>2, <1>3, <1>4, <1>5, <1>6 DEF Next, Exchange

-----------------------------------------------------------------------------

\* The rest of the type invariant, in parts: flags, sets, numbers and queues.
FlagType ==
  /\ USIDR_hot \in BOOLEAN /\ miso \in BOOLEAN /\ resb \in BOOLEAN
  /\ tx_busy \in BOOLEAN /\ cut \in BOOLEAN /\ late \in BOOLEAN


\* The subsets.
SetType == garbled \subseteq {"in", "out"} /\ ss \subseteq 0 .. 6 /\ s_port \subseteq 0 .. 6

\* The registers of the slave.
NumberType ==
  /\ USIDR \in Byte /\ s_reply \in Byte /\ s_byte \in Byte \union {BOOT}
  /\ selected_slave_id \in 0 .. 7

\* Where the slave's program is.
ProgramType ==
  /\ state \in {"EXPECTING_REQUEST", "EXPECTING_DATA_FOR_UART"}
  /\ s_pc \in {"greet", "tosleep", "asleep", "check", "report", "switch",
               "select", "portread", "remember", "wait", "mark"}

\* The queues within their capacity.
QueueType ==
  /\ from_SPI \in Seq(Byte) /\ Len(from_SPI) <= SpiCapacity
  /\ from_UART \in Seq(Byte) /\ Len(from_UART) <= UartCapacity
  /\ udr \in Seq(Byte) /\ Len(udr) <= 1

\* The history variables.
HistoryType ==
  /\ accepted \in Seq(Byte) /\ taken \in Seq(Byte) /\ delivered \in Seq(Byte)
  /\ written \in Seq(Byte) /\ sent \in Seq(Byte) /\ answer \in Seq(Byte)

\* The program has a request in hand; it is selecting a device.
Busy == {"report", "switch", "select", "portread", "remember", "wait", "mark"}
Selecting == {"select", "portread", "remember"}
\* The byte that the program works on.
SelectByte ==
  /\ s_pc \in Busy => s_byte \in Byte
  /\ s_pc \in Selecting => s_byte \in SelectRequest

\* enqueue() keeps a queue within its capacity.
LEMMA Enqueueing ==
  ASSUME NEW q \in Seq(Byte), NEW capacity \in Nat, NEW b \in Byte, Len(q) <= capacity
  PROVE  Enqueued(q, capacity, b) \in Seq(Byte) /\ Len(Enqueued(q, capacity, b)) <= capacity
BY DEF Enqueued

\* So does dequeue().
LEMMA Dequeueing ==
  ASSUME NEW q \in Seq(Byte), NEW capacity \in Nat, Len(q) <= capacity, q # << >>
  PROVE  Tail(q) \in Seq(Byte) /\ Len(Tail(q)) <= capacity
OBVIOUS

\* A queue of one byte is empty without it.
LEMMA Single == ASSUME NEW q \in Seq(Byte), Len(q) = 1 PROVE q # << >> /\ Tail(q) = << >>
<1>1. q # << >>
  OBVIOUS
<1>2. Tail(q) \in Seq(Byte) /\ Len(Tail(q)) = 0
  BY <1>1
<1> QED
  BY <1>1, <1>2, EmptySeq

\* Histories stay sequences of bytes.
LEMMA Appending == ASSUME NEW q \in Seq(Byte), NEW b \in Byte PROVE Append(q, b) \in Seq(Byte)
OBVIOUS

\* So do two of them joined.
LEMMA Joining == ASSUME NEW p \in Seq(Byte), NEW q \in Seq(Byte) PROVE p \o q \in Seq(Byte)
OBVIOUS

\* Every step keeps flags, lines, registers and the program counter in their types.
LEMMA TypePreserved ==
  ASSUME FlagType, SetType, NumberType, ProgramType, QueueType, HistoryType, SelectByte,
         MasterType, Shape, [Next]_vars
  PROVE  FlagType' /\ SetType' /\ NumberType' /\ ProgramType' /\ SelectByte'
<1> USE DEF Next, Operation, Exchange, SlaveProgram, ReadStatus, ReadData, WriteData,
     SelectDevice, ResetCPU, Begin, AssertSSA, StartShift, EndShift, ReleaseSSA,
     StartDeviceExchange, EndDeviceExchange, UartReceive, UartTransmit, Sleep, CheckQueue,
     Emit, Greet, Report, Ignore, SetRESB, BeginSelect, ReadPort, WritePort, RememberSlave,
     Request, QueryStatus, DequeueData, ExpectData, SendData, LoadUSIDR, MarkHot, vars
<1>1. FlagType'
  <2>1. USIDR_hot' \in BOOLEAN
    BY DEF FlagType, usi
  <2>2. miso' \in BOOLEAN
    BY DEF FlagType, lines, DriveMISO, FloatMISO
  <2>3. resb' \in BOOLEAN
    BY DEF FlagType, lines
  <2>4. tx_busy' \in BOOLEAN
    BY DEF FlagType, uart
  <2>5. cut' \in BOOLEAN
    BY DEF FlagType, history
  <2>6. late' \in BOOLEAN
    BY DEF FlagType, history, Late
  <2> QED
    BY <2>1, <2>2, <2>3, <2>4, <2>5, <2>6 DEF FlagType
<1>2. ProgramType'
  <2>1. state' \in {"EXPECTING_REQUEST", "EXPECTING_DATA_FOR_UART"}
    BY DEF ProgramType, program
  <2>2. s_pc' \in {"greet", "tosleep", "asleep", "check", "report", "switch",
               "select", "portread", "remember", "wait", "mark"}
    BY DEF ProgramType, program, Woken
  <2> QED
    BY <2>1, <2>2 DEF ProgramType
<1>3. SelectByte'
  <2>1. s_pc' \in Busy => s_byte' \in Byte
    <3>1. from_SPI # << >> => Head(from_SPI) \in Byte
      BY DEF QueueType
    <3>2. \/ s_byte' = s_byte /\ (s_pc' \notin Busy \/ s_pc \in Busy)
          \/ from_SPI # << >> /\ s_byte' = Head(from_SPI)
      BY DEF program, locals, Busy, Woken
    <3> QED
      BY <3>1, <3>2 DEF SelectByte
  <2>2. s_pc' \in Selecting => s_byte' \in SelectRequest
    BY DEF SelectByte, Selecting, ProgramType, program, locals, Woken
  <2> QED
    BY <2>1, <2>2 DEF SelectByte
<1>4. SetType'
  <2>1. garbled' \subseteq {"in", "out"}
    BY DEF SetType, usi, DisturbOut
  <2>2. s_port' \subseteq 0 .. 6
    BY DEF SetType, program, locals
  <2>3. s_pc = "portread" => Wanted \in 0 .. 6
    BY DEF SelectByte, Selecting, SelectRequest, SELECT_SLAVE_0, RELEASE_SLAVE, Wanted
  <2>4. ss' \subseteq 0 .. 6
    BY <2>3 DEF SetType, lines, Released
  <2> QED
    BY <2>1, <2>2, <2>4 DEF SetType
<1>5. NumberType'
  <2>1. USIDR' \in Byte
    BY Codes DEF NumberType, usi, POLL
  <2>2. s_reply' \in Byte
    <3>1. UartStatus \in Byte /\ 255 \in Byte /\ 0 \in Byte
      BY DEF UartStatus, Byte
    <3> QED
      BY <3>1 DEF NumberType, QueueType, program, locals
  <2>3. s_byte' \in Byte \union {BOOT}
    BY DEF NumberType, QueueType, program, locals
  <2>4. s_pc = "remember" => Wanted \in 0 .. 7
    BY DEF SelectByte, Selecting, SelectRequest, SELECT_SLAVE_0, RELEASE_SLAVE, Wanted
  <2>5. selected_slave_id' \in 0 .. 7
    BY <2>4 DEF NumberType, program
  <2> QED
    BY <2>1, <2>2, <2>3, <2>5 DEF NumberType
<1> QED
  BY <1>1, <1>2, <1>3, <1>4, <1>5

\* What one step may do to the queues and to the history.
LEMMA Effects ==
  ASSUME [Next]_vars
  PROVE  /\ \/ UNCHANGED from_SPI
            \/ EndShift
            \/ CheckQueue /\ from_SPI # << >> /\ from_SPI' = Tail(from_SPI)
         /\ \/ UNCHANGED from_UART
            \/ \E b \in RxData : from_UART' = Enqueued(from_UART, UartCapacity, b)
            \/ from_UART # << >> /\ from_UART' = Tail(from_UART)
         /\ UNCHANGED udr \/ udr' = << >> \/ (s_pc = "switch" /\ udr' = <<s_byte>>)
         /\ UNCHANGED accepted \/ \E b \in RxData : accepted' = Append(accepted, b)
         /\ UNCHANGED taken \/ taken' = << >> \/ (from_UART # << >> /\ taken' = <<Head(from_UART)>>)
         /\ UNCHANGED delivered \/ delivered' = Append(delivered, SPDR)
         /\ UNCHANGED written \/ \E d \in TxData : written' = Append(written, d)
         /\ UNCHANGED sent \/ sent' = sent \o udr
         /\ UNCHANGED answer \/ answer' = << >> \/ answer' = <<UartStatus>>
              \/ answer' = <<255>> \/ (from_UART # << >> /\ answer' = <<Head(from_UART)>>)
<1> USE DEF Next, Operation, Exchange, SlaveProgram, ReadStatus, ReadData, WriteData,
     SelectDevice, ResetCPU, Begin, AssertSSA, StartShift, EndShift, ReleaseSSA,
     StartDeviceExchange, EndDeviceExchange, UartReceive, UartTransmit, Sleep, CheckQueue,
     Emit, Greet, Report, Ignore, SetRESB, BeginSelect, ReadPort, WritePort, RememberSlave,
     Request, QueryStatus, DequeueData, ExpectData, SendData, LoadUSIDR, MarkHot, vars
<1>1. UNCHANGED from_SPI \/ EndShift
        \/ (CheckQueue /\ from_SPI # << >> /\ from_SPI' = Tail(from_SPI))
  OBVIOUS
<1>2. \/ UNCHANGED from_UART
      \/ \E b \in RxData : from_UART' = Enqueued(from_UART, UartCapacity, b)
      \/ from_UART # << >> /\ from_UART' = Tail(from_UART)
  BY DEF uart
<1>3. UNCHANGED udr \/ udr' = << >> \/ (s_pc = "switch" /\ udr' = <<s_byte>>)
  BY DEF uart
<1>4. UNCHANGED accepted \/ \E b \in RxData : accepted' = Append(accepted, b)
  BY DEF uart
<1>5. UNCHANGED taken \/ taken' = << >> \/ (from_UART # << >> /\ taken' = <<Head(from_UART)>>)
  BY DEF history
<1>6. UNCHANGED delivered \/ delivered' = Append(delivered, SPDR)
  BY DEF history
<1>7. UNCHANGED written \/ \E d \in TxData : written' = Append(written, d)
  BY DEF history
<1>8. UNCHANGED sent \/ sent' = sent \o udr
  BY DEF history
<1>9. UNCHANGED answer \/ answer' = << >> \/ answer' = <<UartStatus>>
        \/ answer' = <<255>> \/ (from_UART # << >> /\ answer' = <<Head(from_UART)>>)
  BY DEF history
<1> QED
  BY <1>1, <1>2, <1>3, <1>4, <1>5, <1>6, <1>7, <1>8, <1>9

\* The script of an operation is one or two bytes long.
LEMMA ScriptTyped ==
  ASSUME Shape
  PROVE  /\ op \in {"none", "status", "read", "write", "select", "reset"}
         /\ script \in Seq(Byte) /\ Len(script) <= 2
         /\ op # "none" => script # << >>
<1>1. CASE Whole
  <2>1. PICK a, b \in Byte : script = <<a, b>> \/ script = <<a>>
    BY <1>1, Codes, DeviceNumbers, LinkAssumption DEF Whole
  <2>2. script \in Seq(Byte) /\ Len(script) <= 2 /\ script # << >>
    <3>1. CASE script = <<a, b>>
      BY <3>1
    <3>2. CASE script = <<a>>
      BY <3>2
    <3> QED
      BY <2>1, <3>1, <3>2
  <2> QED
    BY <1>1, <2>2 DEF Whole
<1>2. CASE Half
  <2>1. PICK a \in Byte : script = <<a>>
    BY <1>2, Codes, LinkAssumption DEF Half
  <2> QED
    BY <1>2, <2>1 DEF Half
<1>3. CASE op = "none" /\ script = << >>
  BY <1>3
<1> QED
  BY <1>1, <1>2, <1>3 DEF Shape

\* Every step keeps the queues within their capacity.
LEMMA QueueTypePreserved ==
  ASSUME QueueType, SelectByte, Shape, [Next]_vars
  PROVE  QueueType'
<1>1. from_SPI' \in Seq(Byte) /\ Len(from_SPI') <= SpiCapacity
  <2>1. CASE EndShift
    <3>1. PICK b \in Byte : from_SPI' = Enqueued(from_SPI, SpiCapacity, b)
      <4>1. Head(script) \in Byte
        <5>1. script \in Seq(Byte) /\ script # << >>
          BY <2>1, ScriptTyped DEF EndShift, Shape, Exchanging
        <5> QED
          BY <5>1
      <4> QED
        BY <2>1, <4>1, LinkAssumption DEF EndShift
    <3> QED
      BY <3>1, Enqueueing, LinkAssumption DEF QueueType
  <2>2. CASE from_SPI # << >> /\ from_SPI' = Tail(from_SPI)
    BY <2>2, Dequeueing, LinkAssumption DEF QueueType
  <2> QED
    BY <2>1, <2>2, Effects DEF QueueType
<1>2. from_UART' \in Seq(Byte) /\ Len(from_UART') <= UartCapacity
  <2>1. CASE \E b \in RxData : from_UART' = Enqueued(from_UART, UartCapacity, b)
    BY <2>1, Enqueueing, LinkAssumption DEF QueueType
  <2>2. CASE from_UART # << >> /\ from_UART' = Tail(from_UART)
    BY <2>2, Dequeueing, LinkAssumption DEF QueueType
  <2> QED
    BY <2>1, <2>2, Effects DEF QueueType
<1>3. udr' \in Seq(Byte) /\ Len(udr') <= 1
  <2>1. UNCHANGED udr \/ udr' = << >> \/ (s_pc = "switch" /\ udr' = <<s_byte>>)
    BY Effects
  <2>2. s_pc = "switch" => <<s_byte>> \in Seq(Byte) /\ Len(<<s_byte>>) = 1
    BY DEF SelectByte, Busy
  <2>3. CASE UNCHANGED udr
    BY <2>3 DEF QueueType
  <2>4. CASE udr' = << >>
    BY <2>4
  <2>5. CASE s_pc = "switch" /\ udr' = <<s_byte>>
    BY <2>2, <2>5
  <2> QED
    BY <2>1, <2>3, <2>4, <2>5
<1> QED
  BY <1>1, <1>2, <1>3 DEF QueueType

\* Every step keeps the histories typed.
LEMMA HistoryTypePreserved ==
  ASSUME HistoryType, QueueType, MasterType, [Next]_vars
  PROVE  HistoryType'
<1>1. accepted' \in Seq(Byte)
  <2>1. UNCHANGED accepted \/ \E b \in RxData : accepted' = Append(accepted, b)
    BY Effects
  <2>2. \A b \in RxData : Append(accepted, b) \in Seq(Byte)
    BY Appending, LinkAssumption DEF HistoryType
  <2> QED
    BY <2>1, <2>2 DEF HistoryType
<1>2. taken' \in Seq(Byte)
  <2>1. UNCHANGED taken \/ taken' = << >> \/ (from_UART # << >> /\ taken' = <<Head(from_UART)>>)
    BY Effects
  <2>2. from_UART # << >> => <<Head(from_UART)>> \in Seq(Byte)
    BY DEF QueueType
  <2>3. taken \in Seq(Byte) /\ << >> \in Seq(Byte)
    BY DEF HistoryType
  <2> QED
    BY <2>1, <2>2, <2>3
<1>3. delivered' \in Seq(Byte)
  <2>1. UNCHANGED delivered \/ delivered' = Append(delivered, SPDR)
    BY Effects
  <2>2. Append(delivered, SPDR) \in Seq(Byte)
    BY Appending DEF HistoryType, MasterType
  <2> QED
    BY <2>1, <2>2 DEF HistoryType
<1>4. written' \in Seq(Byte)
  <2>1. UNCHANGED written \/ \E d \in TxData : written' = Append(written, d)
    BY Effects
  <2>2. \A d \in TxData : Append(written, d) \in Seq(Byte)
    BY Appending, LinkAssumption DEF HistoryType
  <2> QED
    BY <2>1, <2>2 DEF HistoryType
<1>5. sent' \in Seq(Byte)
  <2>1. UNCHANGED sent \/ sent' = sent \o udr
    BY Effects
  <2>2. sent \o udr \in Seq(Byte)
    BY Joining DEF HistoryType, QueueType
  <2> QED
    BY <2>1, <2>2 DEF HistoryType
<1>6. answer' \in Seq(Byte)
  <2>1. UNCHANGED answer \/ answer' = << >> \/ answer' = <<UartStatus>>
          \/ answer' = <<255>> \/ (from_UART # << >> /\ answer' = <<Head(from_UART)>>)
    BY Effects
  <2>2. <<UartStatus>> \in Seq(Byte) /\ <<255>> \in Seq(Byte)
    <3>1. UartStatus \in Byte /\ 255 \in Byte
      BY DEF UartStatus, Byte
    <3> QED
      BY <3>1
  <2>3. from_UART # << >> => <<Head(from_UART)>> \in Seq(Byte)
    BY DEF QueueType
  <2>4. answer \in Seq(Byte) /\ << >> \in Seq(Byte)
    BY DEF HistoryType
  <2> QED
    BY <2>1, <2>2, <2>3, <2>4
<1> QED
  BY <1>1, <1>2, <1>3, <1>4, <1>5, <1>6 DEF HistoryType

\* The inductive form of TypeOK.
TInv ==
  /\ MasterType /\ Shape
  /\ FlagType /\ SetType /\ NumberType /\ ProgramType /\ SelectByte
  /\ QueueType /\ HistoryType

\* TInv implies the type invariant that the runs check.
LEMMA TInvTyped == TInv => TypeOK
<1> SUFFICES ASSUME TInv PROVE TypeOK
  OBVIOUS
<1>1. /\ op \in {"none", "status", "read", "write", "select", "reset"}
      /\ script \in Seq(Byte) /\ Len(script) <= 2
  BY ScriptTyped DEF TInv
<1>2. {accepted, taken, delivered, written, sent, answer} \subseteq Seq(Byte)
  BY DEF TInv, HistoryType
<1> QED
  BY <1>1, <1>2 DEF TInv, TypeOK, MasterType, FlagType, SetType, NumberType, ProgramType, QueueType

\* TInv holds at power-up.
LEMMA TInvInit == Init => TInv
<1> SUFFICES ASSUME Init PROVE TInv
  OBVIOUS
<1>1. 0 \in Byte /\ BOOT \notin Byte /\ NO_SLAVE_SELECTED \in 0 .. 7
  BY DEF Byte, BOOT, NO_SLAVE_SELECTED
<1>2. MasterType /\ Shape
  BY <1>1 DEF Init, MasterType, Shape, Whole, Exchanging
<1>3. FlagType
  BY DEF Init, FlagType
<1>4. SetType /\ NumberType
  BY <1>1 DEF Init, SetType, NumberType
<1>5. ProgramType /\ SelectByte
  BY DEF Init, ProgramType, SelectByte, Busy, Selecting
<1>6. QueueType
  BY LinkAssumption DEF Init, QueueType
<1>7. HistoryType
  BY DEF Init, HistoryType
<1> QED
  BY <1>2, <1>3, <1>4, <1>5, <1>6, <1>7 DEF TInv

\* TInv is preserved by every step.
LEMMA TInvPreserved == TInv /\ [Next]_vars => TInv'
<1> SUFFICES ASSUME TInv, [Next]_vars PROVE TInv'
  OBVIOUS
<1>1. MasterType' /\ Shape'
  BY MasterTypePreserved DEF TInv, NumberType
<1>2. FlagType' /\ SetType' /\ NumberType' /\ ProgramType' /\ SelectByte'
  BY TypePreserved DEF TInv
<1>3. QueueType'
  BY QueueTypePreserved DEF TInv
<1>4. HistoryType'
  BY HistoryTypePreserved DEF TInv
<1> QED
  BY <1>1, <1>2, <1>3, <1>4 DEF TInv

\* Every register, line, queue and program counter of the two AVRs stays within
\* its type, whatever the timing of slave, host and master.
THEOREM TypeCorrect == Spec => []TypeOK
  BY TInvInit, TInvPreserved, TInvTyped, PTL DEF Spec

-----------------------------------------------------------------------------

\* The host is quiet during an operation, and there is a queue at all.
QuietHost == RxDuringExchange = FALSE /\ SpiCapacity > 0

\* Once an exchange has met a slave at work on a slow request, that is remembered.
LEMMA StaysLate == late /\ [Next]_vars => late'
BY DEF Next, Operation, Exchange, SlaveProgram, ReadStatus, ReadData, WriteData,
   SelectDevice, ResetCPU, Begin, AssertSSA, StartShift, EndShift, ReleaseSSA,
   StartDeviceExchange, EndDeviceExchange, UartReceive, UartTransmit, Sleep, CheckQueue,
   Emit, Greet, Report, Ignore, SetRESB, BeginSelect, ReadPort, WritePort, RememberSlave,
   QueryStatus, DequeueData, ExpectData, SendData, LoadUSIDR, MarkHot, history, vars

\* Until then every exchange that the master has paused for finds the slave asleep.
LEMMA FindsAsleep ==
  ASSUME FlagType, ~late', (AssertSSA /\ Unhurried) \/ StartShift
  PROVE  s_pc = "asleep"
<1>1. CASE AssertSSA /\ Unhurried
  BY <1>1 DEF AssertSSA, Settled, FlagType
<1>2. CASE StartShift
  BY <1>2 DEF StartShift, Settled, FlagType
<1> QED
  BY <1>1, <1>2

\* The slave has a byte from the master that it has not finished with.
InHand == from_SPI # << >> \/ s_pc \in Busy
HandByte == IF from_SPI # << >> THEN Head(from_SPI) ELSE s_byte

\* The master clocks the link only while the slave sleeps, and a byte that was
\* received waits alone for a program that is about to look.
Drained ==
  /\ m_pc = "shifting" => s_pc = "asleep"
  /\ from_SPI # << >> => s_pc = "check" /\ Len(from_SPI) = 1

\* The steps that leave a byte in hand as it is, and those that finish with it.
Keep ==
  \/ Operation \/ AssertSSA \/ StartShift \/ ReleaseSSA \/ StartDeviceExchange
  \/ EndDeviceExchange \/ UartReceive \/ UartTransmit \/ Sleep \/ CheckQueue \/ Greet
  \/ Report \/ BeginSelect \/ ReadPort \/ WritePort \/ QueryStatus \/ DequeueData
  \/ LoadUSIDR \/ UNCHANGED vars

Finish == Ignore \/ SetRESB \/ RememberSlave \/ ExpectData \/ SendData \/ MarkHot

\* Every step is one of the three kinds.
LEMMA Steps == [Next]_vars <=> Keep \/ Finish \/ EndShift
BY DEF Next, Exchange, SlaveProgram, Keep, Finish

\* The steps of the first kind move the byte in hand, if at all, from the queue
\* to the program.
LEMMA Kept ==
  ASSUME TInv, Drained, Keep
  PROVE  (InHand' <=> InHand) /\ (InHand => HandByte' = HandByte)
<1>1. CASE CheckQueue
  <2>1. CASE from_SPI = << >>
    BY <1>1, <2>1 DEF CheckQueue, InHand, HandByte, Busy
  <2>2. CASE from_SPI # << >>
    <3>1. s_byte' = Head(from_SPI) /\ from_SPI' = Tail(from_SPI) /\ s_pc' \in Busy
      BY <1>1, <2>2 DEF CheckQueue, Busy
    <3>2. Len(from_SPI) = 1
      BY <2>2 DEF Drained
    <3>3. from_SPI' = << >>
      BY <3>1, <3>2, Single DEF TInv, QueueType
    <3> QED
      BY <2>2, <3>1, <3>3 DEF InHand, HandByte
  <2> QED
    BY <2>1, <2>2
<1>2. CASE Report \/ BeginSelect \/ ReadPort \/ WritePort \/ QueryStatus \/ DequeueData \/ LoadUSIDR
  <2>1. s_pc \in Busy /\ s_pc' \in Busy /\ UNCHANGED <<from_SPI, s_byte>>
    BY <1>2 DEF Report, Emit, BeginSelect, ReadPort, WritePort, Request, QueryStatus, DequeueData,
       LoadUSIDR, Busy, program, locals
  <2> QED
    BY <2>1 DEF InHand, HandByte
<1>3. CASE \/ AssertSSA \/ StartShift \/ ReleaseSSA \/ StartDeviceExchange \/ EndDeviceExchange
           \/ Operation \/ UartReceive \/ UartTransmit \/ Sleep \/ Greet \/ UNCHANGED vars
  <2>1. UNCHANGED <<from_SPI, s_byte>>
    BY <1>3 DEF AssertSSA, StartShift, ReleaseSSA, StartDeviceExchange, EndDeviceExchange,
       Operation, ReadStatus, ReadData, WriteData, SelectDevice, ResetCPU, Begin, UartReceive,
       UartTransmit,
       Sleep, Greet, program, locals, vars
  <2>2. s_pc' \in Busy <=> s_pc \in Busy
    BY <1>3 DEF AssertSSA, StartShift, ReleaseSSA, StartDeviceExchange, EndDeviceExchange,
       Operation, ReadStatus, ReadData, WriteData, SelectDevice, ResetCPU, Begin, UartReceive,
       UartTransmit,
       Sleep, Greet, Emit, Woken, Busy, program, vars
  <2> QED
    BY <2>1, <2>2 DEF InHand, HandByte
<1> QED
  BY <1>1, <1>2, <1>3 DEF Keep

\* The steps of the second kind leave nothing in hand.
LEMMA Finished ==
  ASSUME Drained, Finish
  PROVE  InHand /\ HandByte = s_byte /\ ~InHand' /\ UNCHANGED <<master, from_SPI>>
<1>1. s_pc \in Busy /\ s_pc' = "tosleep" /\ s_pc # "check" /\ UNCHANGED <<master, from_SPI>>
  BY DEF Finish, Ignore, SetRESB, RememberSlave, ExpectData, SendData, MarkHot, Emit, Request, Busy
<1>2. from_SPI = << >> /\ "tosleep" \notin Busy
  BY <1>1 DEF Drained, Busy
<1> QED
  BY <1>1, <1>2 DEF InHand, HandByte

\* The overflow interrupt finds the queue empty and wakes the slave.
LEMMA Arrived ==
  ASSUME TInv, Drained, garbled = {}, QuietHost, EndShift
  PROVE  /\ ~InHand /\ InHand' /\ HandByte' = Head(script)
         /\ from_SPI' = <<Head(script)>> /\ s_pc = "asleep" /\ s_pc' = "check"
<1>1. s_pc = "asleep" /\ from_SPI = << >>
  BY DEF EndShift, Drained
<1>2. s_pc' = "check" /\ from_SPI' = Enqueued(from_SPI, SpiCapacity, Head(script))
  BY <1>1 DEF EndShift, Woken
<1>3. Enqueued(<< >>, SpiCapacity, Head(script)) = <<Head(script)>>
  BY LinkAssumption DEF QuietHost, Enqueued
<1> QED
  BY <1>1, <1>2, <1>3 DEF InHand, HandByte, Busy

\* The master never clocks a slave that is awake, and no byte waits behind another.
LEMMA DrainedPreserved ==
  ASSUME TInv, Drained, garbled = {}, QuietHost, ~late', [Next]_vars
  PROVE  Drained'
<1>1. m_pc' = "shifting" => s_pc' = "asleep"
  <2>1. SUFFICES ASSUME m_pc' = "shifting" PROVE s_pc' = "asleep"
    OBVIOUS
  <2>2. CASE StartShift
    BY <2>2, FindsAsleep DEF StartShift, TInv, program
  <2>3. CASE SlaveProgram
    <3>1. m_pc = "shifting" /\ s_pc # "asleep"
      BY <2>1, <2>3 DEF SlaveProgram, Sleep, CheckQueue, Greet, Report, Ignore, SetRESB,
         BeginSelect, ReadPort, WritePort, RememberSlave, QueryStatus, DequeueData, ExpectData,
         SendData, LoadUSIDR, MarkHot, Emit, Request, master
    <3> QED
      BY <3>1 DEF Drained
  <2>4. CASE UartReceive
    <3>1. op = "none" /\ m_pc = "shifting"
      BY <2>1, <2>4 DEF UartReceive, QuietHost, master
    <3> QED
      BY <3>1 DEF TInv, Shape, Exchanging
  <2>5. CASE UartTransmit \/ Operation \/ UNCHANGED vars
    BY <2>1, <2>5 DEF UartTransmit, Operation, ReadStatus, ReadData, WriteData, SelectDevice,
       ResetCPU, Begin, Drained, master, program, vars
  <2>6. ~AssertSSA /\ ~EndShift /\ ~ReleaseSSA /\ ~StartDeviceExchange /\ ~EndDeviceExchange
    BY <2>1 DEF AssertSSA, EndShift, ReleaseSSA, StartDeviceExchange, EndDeviceExchange
  <2> QED
    BY <2>2, <2>3, <2>4, <2>5, <2>6 DEF Next, Exchange
<1>2. from_SPI' # << >> => s_pc' = "check" /\ Len(from_SPI') = 1
  <2>1. CASE EndShift
    BY <2>1, Arrived
  <2>2. CASE CheckQueue
    <3>1. from_SPI' = << >>
      <4>1. CASE from_SPI = << >>
        BY <2>2, <4>1 DEF CheckQueue
      <4>2. CASE from_SPI # << >>
        <5>1. Len(from_SPI) = 1 /\ from_SPI' = Tail(from_SPI)
          BY <2>2, <4>2 DEF CheckQueue, Drained
        <5> QED
          BY <5>1, Single DEF TInv, QueueType
      <4> QED
        BY <4>1, <4>2
    <3> QED
      BY <3>1
  <2>3. CASE ~EndShift /\ ~CheckQueue
    <3>1. from_SPI' = from_SPI
      BY <2>3, Effects
    <3>2. s_pc = "check" => s_pc' = "check"
      BY <2>3 DEF Next, Operation, Exchange, SlaveProgram, ReadStatus, ReadData, WriteData,
         SelectDevice, ResetCPU, Begin, AssertSSA, StartShift, ReleaseSSA, StartDeviceExchange,
         EndDeviceExchange, UartReceive, UartTransmit, Sleep, Greet, Report, Ignore, SetRESB,
         BeginSelect, ReadPort, WritePort, RememberSlave, QueryStatus, DequeueData, ExpectData,
         SendData, LoadUSIDR, MarkHot, Emit, Request, Woken, program, vars
    <3> QED
      BY <3>1, <3>2 DEF Drained
  <2> QED
    BY <2>1, <2>2, <2>3
<1> QED
  BY <1>1, <1>2 DEF Drained

-----------------------------------------------------------------------------

\* The request with which a two-byte operation opens.
Opening == CASE op = "status" -> QUERY_UART_STATUS
             [] op = "read" -> DEQUEUE_UART_DATA
             [] op = "write" -> SEND_VIA_UART
             [] OTHER -> ASSERT_RESB

\* What the byte in hand may be: the one just exchanged, the opening of an
\* operation that is half done, or something that needs no further exchange.
Hand ==
  InHand =>
    /\ m_pc = "shifted" => HandByte = Head(script)
    /\ m_pc # "shifted" /\ Half => HandByte = Opening
    /\ m_pc # "shifted" /\ ~Half => m_pc \in {"idle", "device"}

\* What the shape of the script says of the operation.
LEMMA WholeOrHalf ==
  ASSUME TInv
  PROVE  /\ ~(Whole /\ Half)
         /\ op # "none" => Whole \/ Half
         /\ Whole /\ op # "select" => Head(script) = Opening /\ Len(script) = 2
         /\ op = "select" => Whole
         /\ Half => Len(script) = 1 /\ op # "select"
         /\ op = "none" => ~Half /\ ~Whole
<1>1. op = "none" => ~Half /\ ~Whole
  BY DEF Half, Whole
<1>2. op # "none" => Whole \/ Half
  BY DEF TInv, Shape
<1>3. Whole /\ op # "select" => Head(script) = Opening /\ Len(script) = 2
  BY DEF Whole, Opening
<1>4. Half => Len(script) = 1 /\ op # "select"
  BY DEF Half
<1>5. op = "select" => Whole
  BY <1>2, <1>4
<1>6. ~(Whole /\ Half)
  BY <1>3, <1>4
<1> QED
  BY <1>1, <1>2, <1>3, <1>4, <1>5, <1>6

\* The end of an exchange in terms of the script.
LEMMA Popped ==
  ASSUME TInv, ReleaseSSA
  PROVE  /\ m_pc = "shifted" /\ m_pc' = "idle"
         /\ Whole /\ op # "select" => Half' /\ op' = op
         /\ Half \/ op = "select" => op' = "none" /\ ~Half'
<1>1. m_pc = "shifted" /\ m_pc' = "idle" /\ op # "none"
  BY DEF ReleaseSSA, TInv, Shape, Exchanging
<1>2. Whole /\ op # "select" => Half' /\ op' = op
  <2>1. SUFFICES ASSUME Whole, op # "select" PROVE Half' /\ op' = op
    OBVIOUS
  <2>2. PICK a, b : script = <<a, b>>
    BY <2>1 DEF Whole
  <2>3. Tail(script) = <<b>> /\ Tail(script) # << >>
    BY <2>2
  <2>4. script' = <<b>> /\ op' = op
    BY <2>3 DEF ReleaseSSA
  <2> QED
    BY <2>1, <2>2, <2>4 DEF Whole, Half
<1>3. Half \/ op = "select" => op' = "none" /\ ~Half'
  <2>1. SUFFICES ASSUME Half \/ op = "select" PROVE op' = "none"
    BY DEF Half
  <2>2. PICK a : script = <<a>>
    BY <1>1, <2>1, WholeOrHalf DEF Whole, Half
  <2>3. Tail(script) = << >>
    BY <2>2
  <2> QED
    BY <2>3 DEF ReleaseSSA
<1> QED
  BY <1>1, <1>2, <1>3

\* Only the second exchange of a two-byte operation may begin before the slave
\* has finished with the first byte.
LEMMA Hurried ==
  ASSUME TInv, Drained, QuietHost, ~late', AssertSSA, InHand
  PROVE  Half /\ op \in {"status", "read", "write"}
<1>1. s_pc # "asleep"
  BY DEF InHand, Drained, Busy
<1>2. ~Unhurried
  BY <1>1, FindsAsleep DEF TInv
<1>3. op # "none"
  BY WholeOrHalf DEF AssertSSA, TInv, Shape
<1> QED
  BY <1>2, <1>3, WholeOrHalf DEF Unhurried, Half

\* The byte in hand stays the one that the master's progress says.
LEMMA HandPreserved ==
  ASSUME TInv, TInv', Drained, Hand, garbled = {}, QuietHost, ~late', [Next]_vars
  PROVE  Hand'
<1>1. CASE Finish
  BY <1>1, Finished DEF Hand
<1>2. CASE EndShift
  <2>1. m_pc' = "shifted" /\ script' = script
    BY <1>2 DEF EndShift
  <2> QED
    BY <1>2, <2>1, Arrived DEF Hand
<1>3. CASE Operation
  <2>1. m_pc' = "idle" /\ op' # "none" /\ Whole'
    BY <1>3 DEF Operation, ReadStatus, ReadData, WriteData, SelectDevice, ResetCPU, Begin, Whole
  <2>2. ~Half'
    BY <2>1 DEF Whole, Half
  <2> QED
    BY <2>1, <2>2 DEF Hand
<1>4. CASE AssertSSA
  <2>1. m_pc = "idle" /\ m_pc' = "armed" /\ UNCHANGED <<op, script>>
    BY <1>4 DEF AssertSSA
  <2>2. InHand => Half
    BY <1>4, Hurried
  <2>3. (InHand' <=> InHand) /\ (InHand => HandByte' = HandByte)
    BY <1>4, Kept DEF Keep
  <2> QED
    BY <2>1, <2>2, <2>3 DEF Hand, Half, Opening
<1>5. CASE StartShift
  <2>1. s_pc = "asleep"
    BY <1>5, FindsAsleep DEF TInv
  <2>2. ~InHand
    BY <2>1 DEF InHand, Busy, Drained
  <2> QED
    BY <1>5, <2>2, Kept DEF Hand, Keep
<1>6. CASE ReleaseSSA
  <2>1. InHand' => InHand /\ HandByte' = Head(script)
    BY <1>6, Kept, Popped DEF Keep, Hand
  <2>2. CASE Whole /\ op # "select"
    BY <1>6, <2>1, <2>2, Popped, WholeOrHalf DEF Hand, Opening
  <2>3. CASE Half \/ op = "select"
    BY <1>6, <2>1, <2>3, Popped DEF Hand
  <2> QED
    BY <2>2, <2>3, <1>6, WholeOrHalf DEF TInv, Shape, ReleaseSSA, Exchanging
<1>7. CASE Keep /\ UNCHANGED <<m_pc, op, script>>
  BY <1>7, Kept DEF Hand, Half, Opening
<1>8. CASE StartDeviceExchange \/ EndDeviceExchange
  <2>1. m_pc # "shifted" /\ m_pc' \in {"idle", "device"} /\ UNCHANGED <<op, script>> /\ op = "none"
    BY <1>8 DEF StartDeviceExchange, EndDeviceExchange, TInv, Shape
  <2>2. ~Half /\ ~Half'
    BY <2>1 DEF Half
  <2>3. (InHand' <=> InHand) /\ (InHand => HandByte' = HandByte)
    BY <1>8, Kept DEF Keep
  <2> QED
    BY <2>1, <2>2, <2>3 DEF Hand
<1>9. /\ Keep
      /\ ~Operation /\ ~AssertSSA /\ ~StartShift /\ ~StartDeviceExchange /\ ~ReleaseSSA
      /\ ~EndDeviceExchange
      => UNCHANGED <<m_pc, op, script>>
  BY DEF Keep, UartReceive, UartTransmit, Sleep, CheckQueue, Greet, Report, BeginSelect,
     ReadPort, WritePort, QueryStatus, DequeueData, LoadUSIDR, vars, master
<1> QED
  BY <1>1, <1>2, <1>3, <1>4, <1>5, <1>6, <1>7, <1>8, <1>9, Steps

\* The steps of a request that come after loop() has looked at the state.
ProgramState ==
  /\ s_pc \in {"select", "portread", "remember", "wait", "mark"} => state = "EXPECTING_REQUEST"
  /\ s_pc \in {"wait", "mark"} => s_byte \in {QUERY_UART_STATUS, DEQUEUE_UART_DATA}

\* ProgramState is preserved by every step, whatever the timing.
LEMMA ProgramStatePreserved == ASSUME ProgramState, [Next]_vars PROVE ProgramState'
<1>1. CASE SlaveProgram
  BY <1>1 DEF SlaveProgram, ProgramState, Sleep, CheckQueue, Greet, Report, Ignore, SetRESB,
     BeginSelect, ReadPort, WritePort, RememberSlave, QueryStatus, DequeueData, ExpectData,
     SendData, LoadUSIDR, MarkHot, Emit, Request, locals
<1>2. CASE ~SlaveProgram
  <2>1. s_pc' \in {s_pc, "check"} /\ UNCHANGED <<state, s_byte>>
    BY <1>2 DEF Next, Operation, Exchange, ReadStatus, ReadData, WriteData, SelectDevice,
       ResetCPU, Begin, AssertSSA, StartShift, EndShift, ReleaseSSA, StartDeviceExchange,
       EndDeviceExchange, UartReceive, UartTransmit, Woken, program, locals, vars
  <2> QED
    BY <2>1 DEF ProgramState
<1> QED
  BY <1>1, <1>2

\* The slave has been given, and has handled, the first byte of a write and not
\* yet the second.
HalfWritten ==
  /\ op = "write"
  /\ IF m_pc = "shifted" THEN InHand <=> Half ELSE Half /\ ~InHand

\* The slave expects data exactly then, unless it is late with the data of a
\* write that is over for the master; and a SEND_VIA_UART that it has yet to
\* look at is the opening of the write in progress.
StateAgrees ==
  /\ HalfWritten => state = "EXPECTING_DATA_FOR_UART"
  /\ state = "EXPECTING_DATA_FOR_UART" => HalfWritten \/ (InHand /\ ~Half /\ m_pc \in {"idle", "device"})
  /\ InHand /\ state = "EXPECTING_REQUEST" /\ HandByte = SEND_VIA_UART
       => op = "write" /\ (m_pc = "shifted" <=> ~Half)

\* No two requests share a code, and none is in the range of the select requests.
LEMMA DistinctCodes ==
  /\ SEND_VIA_UART \notin {POLL, ASSERT_RESB, RELEASE_RESB, QUERY_UART_STATUS, DEQUEUE_UART_DATA}
  /\ SEND_VIA_UART \notin SelectRequest
  /\ \A id \in 0 .. 7 : SEND_VIA_UART # SELECT_SLAVE_0 + id
  /\ \A b \in {ASSERT_RESB, QUERY_UART_STATUS, DEQUEUE_UART_DATA, SEND_VIA_UART} :
       b \notin SelectRequest
BY DEF POLL, ASSERT_RESB, RELEASE_RESB, QUERY_UART_STATUS, DEQUEUE_UART_DATA, SEND_VIA_UART,
       SelectRequest, SELECT_SLAVE_0, RELEASE_SLAVE

\* An operation that begins with SEND_VIA_UART, or whose data is that byte, is a write.
LEMMA OpensWrite == ASSUME TInv, Head(script) = SEND_VIA_UART, op # "none" PROVE op = "write"
<1>1. CASE op = "select"
  <2>1. PICK id \in DeviceId \union {NO_SLAVE_SELECTED} : script = <<SELECT_SLAVE_0 + id>>
    BY <1>1, WholeOrHalf DEF Whole
  <2>2. Head(script) = SELECT_SLAVE_0 + id
    BY <2>1
  <2> QED
    BY <2>2, DistinctCodes, DeviceNumbers
<1>2. CASE op # "select"
  BY <1>2, WholeOrHalf, DistinctCodes DEF Half, Opening
<1> QED
  BY <1>1, <1>2

\* Master and slave keep agreeing on whether the next byte is a request or data.
LEMMA StatePreserved ==
  ASSUME TInv, Drained, Hand, StateAgrees, ProgramState, garbled = {}, QuietHost, ~late', [Next]_vars
  PROVE  StateAgrees'
<1>1. CASE Finish
  <2>1. InHand /\ HandByte = s_byte /\ ~InHand' /\ UNCHANGED <<op, m_pc, script>>
    BY <1>1, Finished DEF master
  <2>2. Half' <=> Half
    BY <2>1 DEF Half
  <2>3. HalfWritten' => s_byte = SEND_VIA_UART /\ state = "EXPECTING_REQUEST"
    <3>1. SUFFICES ASSUME HalfWritten' PROVE s_byte = SEND_VIA_UART /\ state = "EXPECTING_REQUEST"
      OBVIOUS
    <3>2. op = "write" /\ (m_pc = "shifted" <=> ~Half)
      BY <2>1, <2>2, <3>1 DEF HalfWritten
    <3>3. s_byte = SEND_VIA_UART
      BY <2>1, <3>2, WholeOrHalf DEF Hand, Opening
    <3>4. ~HalfWritten /\ ~(~Half /\ m_pc \in {"idle", "device"})
      BY <2>1, <3>2 DEF HalfWritten
    <3> QED
      BY <3>3, <3>4 DEF StateAgrees, TInv, ProgramType
  <2>4. CASE ExpectData
    <3>1. state' = "EXPECTING_DATA_FOR_UART" /\ state = "EXPECTING_REQUEST"
          /\ s_byte = SEND_VIA_UART
      BY <2>4 DEF ExpectData, Request
    <3>2. op = "write" /\ (m_pc = "shifted" <=> ~Half)
      BY <2>1, <3>1 DEF StateAgrees
    <3>3. HalfWritten'
      BY <2>1, <2>2, <3>2 DEF HalfWritten
    <3> QED
      BY <2>1, <3>1, <3>3 DEF StateAgrees
  <2>5. CASE ~ExpectData
    <3>1. state' = "EXPECTING_REQUEST" /\ ~(s_byte = SEND_VIA_UART /\ state = "EXPECTING_REQUEST")
      <4>1. CASE SendData
        BY <4>1 DEF SendData
      <4>2. CASE Ignore \/ SetRESB
        BY <4>2, DistinctCodes DEF Ignore, SetRESB, Request
      <4>3. CASE RememberSlave
        BY <4>3, DistinctCodes DEF RememberSlave, Emit, ProgramState, TInv, SelectByte, Selecting
      <4>4. CASE MarkHot
        BY <4>4, DistinctCodes DEF MarkHot, ProgramState
      <4> QED
        BY <1>1, <2>5, <4>1, <4>2, <4>3, <4>4 DEF Finish
    <3> QED
      BY <2>1, <2>3, <3>1 DEF StateAgrees
  <2> QED
    BY <2>4, <2>5
<1>2. CASE EndShift
  <2>1. m_pc = "shifting" /\ m_pc' = "shifted" /\ UNCHANGED <<op, script, state>>
    BY <1>2 DEF EndShift
  <2>2. ~InHand /\ InHand' /\ HandByte' = Head(script) /\ (Half' <=> Half)
    BY <1>2, <2>1, Arrived DEF Half
  <2>3. HalfWritten' <=> HalfWritten
    BY <2>1, <2>2 DEF HalfWritten
  <2>4. Head(script) = SEND_VIA_UART /\ state = "EXPECTING_REQUEST" => op = "write" /\ ~Half
    BY <2>1, <2>2, OpensWrite DEF StateAgrees, HalfWritten, TInv, Shape, Exchanging
  <2> QED
    BY <2>1, <2>2, <2>3, <2>4 DEF StateAgrees
<1>3. CASE ReleaseSSA
  <2>1. (InHand' <=> InHand) /\ (InHand => HandByte' = HandByte) /\ state' = state
    BY <1>3, Kept DEF Keep, ReleaseSSA
  <2>2. CASE Whole /\ op # "select"
    <3>1. ~Half /\ Half' /\ op' = op /\ m_pc = "shifted" /\ m_pc' = "idle"
      BY <1>3, <2>2, Popped, WholeOrHalf
    <3>2. HalfWritten' <=> HalfWritten
      BY <2>1, <3>1 DEF HalfWritten
    <3> QED
      BY <2>1, <3>1, <3>2 DEF StateAgrees
  <2>3. CASE Half \/ op = "select"
    <3>1. op' = "none" /\ ~Half' /\ m_pc = "shifted" /\ m_pc' = "idle"
      BY <1>3, <2>3, Popped
    <3>2. ~HalfWritten' /\ (HalfWritten => InHand)
      BY <2>3, <3>1, WholeOrHalf DEF HalfWritten
    <3>3. ~(InHand /\ state = "EXPECTING_REQUEST" /\ HandByte = SEND_VIA_UART)
      BY <2>3, <3>1, WholeOrHalf DEF StateAgrees
    <3> QED
      BY <2>1, <3>1, <3>2, <3>3 DEF StateAgrees
  <2> QED
    BY <1>3, <2>2, <2>3, WholeOrHalf DEF TInv, Shape, ReleaseSSA, Exchanging
<1>4. CASE Operation
  <2>1. op = "none" /\ m_pc = "idle" /\ m_pc' = "idle" /\ Whole' /\ state' = state
    BY <1>4 DEF Operation, ReadStatus, ReadData, WriteData, SelectDevice, ResetCPU, Begin, Whole,
       program
  <2>2. ~Half'
    BY <2>1 DEF Whole, Half
  <2>3. (InHand' <=> InHand) /\ (InHand => HandByte' = HandByte)
    BY <1>4, Kept DEF Keep
  <2> QED
    BY <2>1, <2>2, <2>3, WholeOrHalf DEF StateAgrees, HalfWritten
<1>5. CASE AssertSSA
  <2>1. m_pc = "idle" /\ m_pc' = "armed" /\ UNCHANGED <<op, script, state>>
    BY <1>5 DEF AssertSSA
  <2>2. (InHand' <=> InHand) /\ (InHand => HandByte' = HandByte /\ Half) /\ (Half' <=> Half)
    BY <1>5, <2>1, Kept, Hurried DEF Keep, Half
  <2> QED
    BY <2>1, <2>2 DEF StateAgrees, HalfWritten
<1>6. CASE StartShift
  <2>1. ~InHand
    <3>1. s_pc = "asleep"
      BY <1>6, FindsAsleep DEF TInv
    <3> QED
      BY <3>1 DEF InHand, Busy, Drained
  <2>2. m_pc # "shifted" /\ m_pc' # "shifted" /\ UNCHANGED <<op, script, state>>
    BY <1>6 DEF StartShift, program
  <2>3. ~InHand' /\ (Half' <=> Half)
    BY <1>6, <2>1, <2>2, Kept DEF Keep, Half
  <2> QED
    BY <2>1, <2>2, <2>3 DEF StateAgrees, HalfWritten
<1>9. CASE StartDeviceExchange \/ EndDeviceExchange
  <2>1. m_pc \in {"idle", "device"} /\ m_pc' \in {"idle", "device"} /\ op = "none"
        /\ UNCHANGED <<op, script, state>>
    BY <1>9 DEF StartDeviceExchange, EndDeviceExchange, program, TInv, Shape
  <2>2. (InHand' <=> InHand) /\ (InHand => HandByte' = HandByte)
    BY <1>9, Kept DEF Keep
  <2>3. ~HalfWritten /\ ~HalfWritten' /\ ~Half /\ ~Half'
    BY <2>1 DEF HalfWritten, Half
  <2> QED
    BY <2>1, <2>2, <2>3 DEF StateAgrees
<1>7. CASE Keep /\ UNCHANGED <<m_pc, op, script, state>>
  BY <1>7, Kept DEF StateAgrees, HalfWritten, Half
<1>8. /\ Keep
      /\ ~Operation /\ ~AssertSSA /\ ~StartShift /\ ~StartDeviceExchange /\ ~ReleaseSSA
      /\ ~EndDeviceExchange
      => UNCHANGED <<m_pc, op, script, state>>
  BY DEF Keep, UartReceive, UartTransmit, Sleep, CheckQueue, Greet, Report, BeginSelect,
     ReadPort, WritePort, QueryStatus, DequeueData, LoadUSIDR, vars, master, program
<1> QED
  BY <1>1, <1>2, <1>3, <1>4, <1>5, <1>6, <1>7, <1>8, <1>9, Steps

\* The slave has yet to select a device, and has not begun to.
SelectInHand == InHand /\ state = "EXPECTING_REQUEST" /\ HandByte \in SelectRequest

\* Who drives MISO and which lines are low.
Lines ==
  /\ garbled = {} /\ s_port = {}
  /\ s_pc = "remember" => ss = {Wanted}
  /\ s_pc # "remember" => ss \subseteq {selected_slave_id}
  /\ SelectInHand /\ s_pc # "remember" => ss = {}
  /\ m_pc \in {"armed", "shifting"} => ss = {} /\ miso
  /\ ss # {} \/ s_pc \in Selecting => ~miso

\* While the slave selects a device, the master does not clock the link.
LEMMA SelectingAlone ==
  ASSUME TInv, Drained, Hand, ProgramState,
         s_pc \in Busy, s_byte \in SelectRequest
  PROVE  /\ HandByte = s_byte /\ InHand /\ from_SPI = << >>
         /\ m_pc \in {"idle", "shifted", "device"} /\ ~(m_pc = "idle" /\ Half)
<1>1. from_SPI = << >> /\ InHand
  BY DEF Drained, Busy, InHand
<1>2. HandByte = s_byte
  BY <1>1 DEF HandByte
<1>3. m_pc # "shifted" => ~Half
  BY <1>1, <1>2, DistinctCodes DEF Hand, Opening
<1> QED
  BY <1>1, <1>2, <1>3 DEF Hand

\* Lines is preserved by every step.
LEMMA LinesPreserved ==
  ASSUME TInv, Drained, Hand, StateAgrees, ProgramState, Lines, QuietHost, ~late', [Next]_vars
  PROVE  Lines'
<1>1. CASE AssertSSA
  <2>1. m_pc = "idle" /\ ss' = ss \ {selected_slave_id} /\ miso' = TRUE /\ s_pc' = Woken
        /\ UNCHANGED <<garbled, s_port, selected_slave_id, s_byte>>
    BY <1>1 DEF AssertSSA, Released, DriveMISO, usi, locals
  <2>2. s_pc \notin Selecting
    <3>1. SUFFICES ASSUME s_pc \in Selecting PROVE FALSE
      OBVIOUS
    <3>2. s_pc \in Busy /\ s_byte \in SelectRequest
      BY <3>1 DEF Selecting, Busy, TInv, SelectByte
    <3> QED
      BY <1>1, <2>1, <3>2, SelectingAlone, Hurried
  <2>3. s_pc' \notin Selecting /\ s_pc # "remember" /\ s_pc' # "remember"
    BY <2>1, <2>2 DEF Woken, Selecting
  <2>4. ss' = {}
    BY <2>1, <2>3 DEF Lines
  <2> QED
    BY <2>1, <2>3, <2>4 DEF Lines
<1>2. CASE EndShift
  <2>1. m_pc = "shifting" /\ m_pc' = "shifted" /\ garbled' = {}
        /\ UNCHANGED <<ss, miso, s_port, selected_slave_id>>
    BY <1>2 DEF EndShift, lines, locals
  <2>2. s_pc' = "check"
    BY <1>2, Arrived DEF Lines
  <2>3. ss = {}
    BY <2>1 DEF Lines
  <2> QED
    BY <2>1, <2>2, <2>3 DEF Lines, Selecting
<1>3. CASE BeginSelect
  <2>1. s_pc = "switch" /\ s_byte \in SelectRequest /\ state = "EXPECTING_REQUEST"
    BY <1>3 DEF BeginSelect
  <2>2. InHand /\ HandByte = s_byte /\ m_pc \in {"idle", "shifted", "device"}
    BY <2>1, SelectingAlone DEF Busy
  <2>3. ss = {}
    BY <2>1, <2>2 DEF Lines, SelectInHand
  <2>4. m_pc' = m_pc /\ garbled' = garbled /\ s_pc' = "select" /\ miso' = FALSE
        /\ UNCHANGED <<ss, s_port, selected_slave_id>>
    BY <1>3, <2>2 DEF BeginSelect, DisturbOut, FloatMISO, master, locals
  <2> QED
    BY <2>2, <2>3, <2>4 DEF Lines, SelectInHand
<1>4. CASE ReadPort
  <2>1. s_pc = "select" /\ s_byte \in SelectRequest /\ state = "EXPECTING_REQUEST"
    BY <1>4 DEF ReadPort, Emit, ProgramState, TInv, SelectByte, Selecting
  <2>2. InHand /\ HandByte = s_byte
    BY <2>1, SelectingAlone DEF Busy
  <2>3. ss = {}
    BY <2>1, <2>2 DEF Lines, SelectInHand
  <2>4. s_port' = {} /\ s_pc' = "portread"
        /\ UNCHANGED <<m_pc, garbled, ss, miso, selected_slave_id>>
    BY <1>4, <2>3 DEF ReadPort, Emit, master, usi, lines
  <2> QED
    BY <2>1, <2>3, <2>4 DEF Lines, Selecting
<1>5. CASE WritePort
  <2>1. s_pc = "portread" /\ s_byte \in SelectRequest /\ state = "EXPECTING_REQUEST"
    BY <1>5 DEF WritePort, ProgramState, TInv, SelectByte, Selecting
  <2>2. InHand /\ HandByte = s_byte /\ m_pc \in {"idle", "shifted", "device"}
    BY <2>1, SelectingAlone DEF Busy
  <2>3. ss = {} /\ s_port = {} /\ ~miso
    BY <2>1, <2>2 DEF Lines, SelectInHand, Selecting
  <2>4. ss' = {Wanted} /\ Wanted' = Wanted /\ s_port' = {} /\ s_pc' = "remember"
    BY <1>5, <2>3 DEF WritePort, Wanted
  <2>5. UNCHANGED <<m_pc, garbled, miso, selected_slave_id>>
    BY <1>5, <2>2 DEF WritePort, DisturbOut, master
  <2> QED
    BY <2>2, <2>3, <2>4, <2>5 DEF Lines
<1>6. CASE RememberSlave
  <2>1. s_pc = "remember" /\ s_pc' = "tosleep" /\ selected_slave_id' = Wanted
    BY <1>6 DEF RememberSlave, Emit
  <2>2. UNCHANGED <<m_pc, garbled, ss, miso, s_port>>
    BY <1>6 DEF RememberSlave, Emit, master, usi, lines, locals
  <2>3. ~InHand'
    BY <1>6, Finished DEF Finish
  <2>4. ss = {Wanted} /\ ~miso
    BY <2>1 DEF Lines, Selecting
  <2> QED
    BY <2>1, <2>2, <2>3, <2>4 DEF Lines, SelectInHand, Selecting
<1>7. CASE Finish /\ ~RememberSlave
  <2>1. s_pc \notin Selecting /\ s_pc' = "tosleep"
    BY <1>7 DEF Finish, Ignore, SetRESB, ExpectData, SendData, MarkHot, Request, Selecting
  <2>2. UNCHANGED <<m_pc, garbled, ss, miso, s_port, selected_slave_id>>
    BY <1>7 DEF Finish, Ignore, SetRESB, ExpectData, SendData, MarkHot, Request,
       master, usi, lines, locals
  <2>3. ~InHand'
    BY <1>7, Finished
  <2> QED
    BY <2>1, <2>2, <2>3 DEF Lines, SelectInHand, Selecting
<1>8. CASE StartShift
  <2>1. m_pc = "armed"
        /\ UNCHANGED <<garbled, ss, miso, s_port, selected_slave_id, s_pc, state, s_byte, from_SPI>>
    BY <1>8 DEF StartShift, usi, lines, program, locals
  <2> QED
    BY <2>1 DEF Lines, SelectInHand, InHand, HandByte, Wanted
<1>9. CASE LoadUSIDR
  <2>1. s_pc = "wait" /\ s_pc' = "mark" /\ m_pc # "shifting"
    BY <1>9 DEF LoadUSIDR, Drained
  <2>2. UNCHANGED <<m_pc, garbled, ss, miso, s_port, selected_slave_id, state, s_byte, from_SPI>>
    BY <1>9, <2>1 DEF LoadUSIDR, master, lines
  <2> QED
    BY <2>1, <2>2 DEF Lines, SelectInHand, InHand, HandByte, Busy, Selecting
<1>10. CASE /\ Keep
            /\ ~AssertSSA /\ ~StartShift /\ ~BeginSelect /\ ~ReadPort /\ ~WritePort /\ ~LoadUSIDR
  <2>1. UNCHANGED <<garbled, ss, miso, s_port, selected_slave_id, state>>
    BY <1>10 DEF Keep, Operation, ReadStatus, ReadData, WriteData, SelectDevice, ResetCPU, Begin,
       ReleaseSSA, StartDeviceExchange, EndDeviceExchange, UartReceive, UartTransmit, Sleep,
       CheckQueue, Greet, Report, QueryStatus, DequeueData, usi, lines, program, locals, vars
  <2>2. m_pc' \in {"armed", "shifting"} => m_pc' = m_pc
    BY <1>10 DEF Keep, Operation, ReadStatus, ReadData, WriteData, SelectDevice, ResetCPU, Begin,
       ReleaseSSA, StartDeviceExchange, EndDeviceExchange, UartReceive, UartTransmit, Sleep,
       CheckQueue, Greet, Report, QueryStatus, DequeueData, master, vars
  <2>3. (s_pc' \in Selecting \/ s_pc \in Selecting) => UNCHANGED <<s_pc, s_byte>>
    BY <1>10 DEF Keep, Operation, ReadStatus, ReadData, WriteData, SelectDevice, ResetCPU, Begin,
       ReleaseSSA, StartDeviceExchange, EndDeviceExchange, UartReceive, UartTransmit, Sleep,
       CheckQueue, Greet, Report, QueryStatus, DequeueData, Request, Emit, Woken, Selecting,
       program, locals, vars
  <2>4. SelectInHand' => SelectInHand
    BY <1>10, <2>1, Kept DEF SelectInHand
  <2>5. s_pc' = "remember" <=> s_pc = "remember"
    BY <2>3 DEF Selecting
  <2>6. s_pc = "remember" => Wanted' = Wanted
    BY <2>3 DEF Selecting, Wanted
  <2>7. s_pc' \in Selecting <=> s_pc \in Selecting
    BY <2>3
  <2> QED
    BY <2>1, <2>2, <2>4, <2>5, <2>6, <2>7 DEF Lines
<1> QED
  BY <1>1, <1>2, <1>3, <1>4, <1>5, <1>6, <1>7, <1>8, <1>9, <1>10, Steps DEF Keep, Finish

-----------------------------------------------------------------------------

\* The inductive invariant of a link whose slave has been quick enough so far.
IInv == TInv /\ Drained /\ Hand /\ ProgramState /\ StateAgrees /\ Lines

\* It holds at power-up.
LEMMA InitIInv == Init => IInv
<1> SUFFICES ASSUME Init PROVE IInv
  OBVIOUS
<1>1. TInv
  BY TInvInit
<1>2. ~InHand /\ Drained /\ Hand
  BY DEF Init, InHand, Busy, Drained, Hand
<1>3. ProgramState /\ StateAgrees
  BY <1>2 DEF Init, ProgramState, StateAgrees, HalfWritten
<1>4. Lines
  BY <1>2 DEF Init, Lines, SelectInHand, Selecting
<1> QED
  BY <1>1, <1>2, <1>3, <1>4 DEF IInv

\* Every step at which the slave is quick enough preserves it.
LEMMA NextIInv == ASSUME QuietHost PROVE IInv /\ ~late' /\ [Next]_vars => IInv'
<1> SUFFICES ASSUME IInv, ~late', [Next]_vars PROVE IInv'
  OBVIOUS
<1>1. garbled = {}
  BY DEF IInv, Lines
<1>2. TInv'
  BY TInvPreserved DEF IInv
<1>3. Drained'
  BY <1>1, DrainedPreserved DEF IInv
<1>4. Hand'
  BY <1>1, <1>2, HandPreserved DEF IInv
<1>5. ProgramState'
  BY ProgramStatePreserved DEF IInv
<1>6. StateAgrees'
  BY <1>1, StatePreserved DEF IInv
<1>7. Lines'
  BY LinesPreserved DEF IInv
<1> QED
  BY <1>2, <1>3, <1>4, <1>5, <1>6, <1>7 DEF IInv

\* It holds until the slave is late.
LEMMA Invariance == ASSUME QuietHost PROVE Spec => [](late \/ IInv)
<1>1. (late \/ IInv) /\ [Next]_vars => (late \/ IInv)'
  BY NextIInv, StaysLate
<1> QED
  BY InitIInv, <1>1, PTL DEF Spec

\* A selection never leaves two off-board devices selected, although select_slave()
\* releases none: the interrupt of SSA has released the one before, unless an SSA edge
\* met the slave still at work on a slow request.
THEOREM OneSelected == ASSUME QuietHost PROVE Spec => []AtMostOneSelected
<1>1. late \/ IInv => AtMostOneSelected
  BY DEF IInv, Lines, AtMostOneSelected
<1> QED
  BY <1>1, Invariance, PTL

\* Slave and off-board devices never drive MISO together, unless an SSA edge met the
\* slave still at work on a slow request.
THEOREM NoTwoDrivers == ASSUME QuietHost PROVE Spec => []NoContention
<1>1. late \/ IInv => NoContention
  BY DEF IInv, Lines, NoContention
<1> QED
  BY <1>1, Invariance, PTL

\* Although loop() looks at the queue once per wake-up and sleeps in between, it is
\* never asleep with a request in the queue.
THEOREM SleepsOnlyDrained == ASSUME QuietHost PROVE Spec => []AsleepMeansDrained
<1>1. late \/ IInv => AsleepMeansDrained
  BY DEF IInv, Drained, AsleepMeansDrained
<1> QED
  BY <1>1, Invariance, PTL

-----------------------------------------------------------------------------

\* The first byte of a two-byte operation has been clocked out, the second has not.
Opened == IF m_pc = "shifted" THEN Whole ELSE Half

\* The slave has a request for an answer in hand only while the master is between
\* the two exchanges that are to fetch it.
Asked ==
  InHand /\ state = "EXPECTING_REQUEST" /\ HandByte \in {QUERY_UART_STATUS, DEQUEUE_UART_DATA}
    => op \in {"status", "read"} /\ Opened

\* The steps that move the master along without a byte arriving at the slave.
Moves == AssertSSA \/ StartShift \/ StartDeviceExchange \/ EndDeviceExchange

\* The other steps of the first kind are those of the UART and of the slave.
Aside ==
  \/ UartReceive \/ UartTransmit \/ Sleep \/ CheckQueue \/ Greet \/ Report \/ BeginSelect
  \/ ReadPort \/ WritePort \/ QueryStatus \/ DequeueData \/ LoadUSIDR \/ UNCHANGED vars

\* Every step is the end of an exchange, of an operation's byte, or one of these.
LEMMA Parts == Keep <=> Operation \/ ReleaseSSA \/ Moves \/ Aside
BY DEF Keep, Moves, Aside

\* What the steps of the first kind leave alone.
LEMMA KeptState ==
  ASSUME TInv, Keep
  PROVE  /\ state' = state
         /\ Aside => UNCHANGED <<m_pc, op, script, cpu_dev, SPDR>>
         /\ Moves => /\ UNCHANGED <<op, script, cpu_dev, SPDR>>
                     /\ m_pc # "shifted" /\ m_pc' # "shifted"
         /\ Operation => /\ op = "none" /\ op' # "none" /\ m_pc = "idle" /\ m_pc' = "idle"
                         /\ cpu_dev' = cpu_dev /\ ~Half' /\ Whole'
<1>1. state' = state
  BY DEF Keep, Operation, ReadStatus, ReadData, WriteData, SelectDevice, ResetCPU, Begin,
     AssertSSA, StartShift, ReleaseSSA, StartDeviceExchange, EndDeviceExchange, UartReceive,
     UartTransmit, Sleep, CheckQueue, Greet, Report, BeginSelect, ReadPort, WritePort,
     QueryStatus, DequeueData, LoadUSIDR, program, vars
<1>2. Aside => UNCHANGED <<m_pc, op, script, cpu_dev, SPDR>>
  BY DEF Aside, UartReceive, UartTransmit, Sleep, CheckQueue, Greet, Report, BeginSelect,
     ReadPort, WritePort, QueryStatus, DequeueData, LoadUSIDR, master, vars
<1>3. Moves => /\ UNCHANGED <<op, script, cpu_dev, SPDR>>
               /\ m_pc # "shifted" /\ m_pc' # "shifted"
  BY DEF Moves, AssertSSA, StartShift, StartDeviceExchange, EndDeviceExchange
<1>4. Operation => /\ op = "none" /\ op' # "none" /\ m_pc = "idle" /\ m_pc' = "idle"
                   /\ cpu_dev' = cpu_dev /\ Whole'
  BY DEF Operation, ReadStatus, ReadData, WriteData, SelectDevice, ResetCPU, Begin, Whole
<1>5. Whole' => ~Half'
  BY DEF Whole, Half
<1> QED
  BY <1>1, <1>2, <1>3, <1>4, <1>5

\* Half and Whole are about the operation and what it has yet to exchange.
LEMMA SameShape == ASSUME UNCHANGED <<op, script>> PROVE (Half' <=> Half) /\ (Whole' <=> Whole)
BY DEF Half, Whole

\* A byte that arrives is data exactly if it is the second of a write.
LEMMA ArrivesAs ==
  ASSUME IInv, QuietHost, EndShift
  PROVE  /\ m_pc = "shifting" /\ m_pc' = "shifted" /\ ~InHand /\ InHand' /\ HandByte' = Head(script)
         /\ UNCHANGED <<op, script, state, cpu_dev>> /\ op # "none" /\ (Half' <=> Half)
         /\ (Whole' <=> Whole)
         /\ state' = IF op = "write" /\ Half THEN "EXPECTING_DATA_FOR_UART" ELSE "EXPECTING_REQUEST"
<1>1. m_pc = "shifting" /\ m_pc' = "shifted" /\ UNCHANGED <<op, script, state, cpu_dev>>
  BY DEF EndShift
<1>2. ~InHand /\ InHand' /\ HandByte' = Head(script)
  BY Arrived DEF IInv, Lines
<1>3. op # "none"
  BY <1>1 DEF IInv, TInv, Shape, Exchanging
<1>4. HalfWritten <=> op = "write" /\ Half
  BY <1>1, <1>2 DEF HalfWritten
<1>5. state = IF op = "write" /\ Half THEN "EXPECTING_DATA_FOR_UART" ELSE "EXPECTING_REQUEST"
  BY <1>2, <1>4 DEF IInv, StateAgrees, TInv, ProgramType
<1> QED
  BY <1>1, <1>2, <1>3, <1>5, SameShape

\* The second byte of an operation that fetches an answer is no request, nor is
\* RELEASE_RESB or a selection a request for an answer.
LEMMA NoQuery ==
  ASSUME IInv, op # "none", op # "write" \/ ~Half,
         Head(script) \in {QUERY_UART_STATUS, DEQUEUE_UART_DATA}
  PROVE  op \in {"status", "read"} /\ Whole
<1>1. CASE op = "select"
  <2>1. PICK id \in DeviceId \union {NO_SLAVE_SELECTED} : script = <<SELECT_SLAVE_0 + id>>
    BY <1>1, WholeOrHalf DEF Whole, IInv
  <2>2. Head(script) = SELECT_SLAVE_0 + id /\ id \in 0 .. 7
    BY <2>1, DeviceNumbers
  <2> QED
    BY <2>2 DEF SELECT_SLAVE_0, QUERY_UART_STATUS, DEQUEUE_UART_DATA
<1>2. CASE Half
  BY <1>2 DEF Half, POLL, RELEASE_RESB, QUERY_UART_STATUS, DEQUEUE_UART_DATA
<1>3. CASE Whole /\ op # "select"
  <2>1. Head(script) = Opening /\ op \in {"status", "read", "write", "reset"}
    BY <1>3, WholeOrHalf DEF Whole, IInv
  <2> QED
    BY <1>3, <2>1 DEF Opening, SEND_VIA_UART, ASSERT_RESB, QUERY_UART_STATUS, DEQUEUE_UART_DATA
<1> QED
  BY <1>1, <1>2, <1>3, WholeOrHalf DEF IInv

\* Asked is preserved by every step.
LEMMA AskedPreserved == ASSUME IInv, Asked, QuietHost, [Next]_vars PROVE Asked'
<1>1. CASE Finish
  BY <1>1, Finished DEF IInv, Asked
<1>2. CASE EndShift
  <2>1. SUFFICES ASSUME state' = "EXPECTING_REQUEST",
                        HandByte' \in {QUERY_UART_STATUS, DEQUEUE_UART_DATA}
                 PROVE  op' \in {"status", "read"} /\ Opened'
    BY DEF Asked
  <2>2. op \in {"status", "read"} /\ Whole
    BY <1>2, <2>1, ArrivesAs, NoQuery
  <2> QED
    BY <1>2, <2>2, ArrivesAs DEF Opened
<1>3. CASE ReleaseSSA
  <2>1. SUFFICES ASSUME InHand', state' = "EXPECTING_REQUEST",
                        HandByte' \in {QUERY_UART_STATUS, DEQUEUE_UART_DATA}
                 PROVE  op' \in {"status", "read"} /\ Opened'
    BY DEF Asked
  <2>2. op \in {"status", "read"} /\ Opened
    BY <1>3, <2>1, Kept, KeptState DEF Keep, Asked, IInv
  <2>3. Whole /\ op # "select"
    BY <1>3, <2>2, Popped DEF Opened, IInv
  <2> QED
    BY <1>3, <2>2, <2>3, Popped DEF Opened, IInv
<1>4. CASE Operation
  <2>1. (InHand' <=> InHand) /\ (InHand => HandByte' = HandByte) /\ state' = state /\ op = "none"
    BY <1>4, Kept, KeptState DEF Keep, IInv
  <2> QED
    BY <2>1 DEF Asked
<1>5. CASE Moves \/ Aside
  <2>1. (InHand' <=> InHand) /\ (InHand => HandByte' = HandByte) /\ state' = state
    BY <1>5, Kept, KeptState, Parts DEF IInv
  <2>2. UNCHANGED <<op, script>> /\ (m_pc' = "shifted" <=> m_pc = "shifted")
    BY <1>5, KeptState, Parts DEF IInv
  <2>3. Opened' <=> Opened
    BY <2>2, SameShape DEF Opened
  <2> QED
    BY <2>1, <2>2, <2>3 DEF Asked
<1> QED
  BY <1>1, <1>2, <1>3, <1>4, <1>5, Steps, Parts

\* Where the answer is on its way to the master.
Answered ==
  op \in {"status", "read"} =>
    /\ Opened /\ s_pc = "wait" => answer = <<s_reply>>
    /\ Opened /\ (s_pc = "mark" \/ ~InHand) => answer = <<USIDR>>
    /\ m_pc = "shifted" /\ Half => answer = <<SPDR>>

\* The request that the slave has in hand while an answer is fetched.
LEMMA RequestInHand ==
  ASSUME IInv, op \in {"status", "read"}, InHand
  PROVE  /\ Opened => /\ HandByte = Opening /\ state = "EXPECTING_REQUEST"
         /\ m_pc = "shifted" /\ Half => HandByte = POLL /\ state = "EXPECTING_REQUEST"
<1>1. ~HalfWritten
  BY DEF HalfWritten
<1>2. Opened \/ (m_pc = "shifted" /\ Half) => state = "EXPECTING_REQUEST"
  BY <1>1 DEF IInv, StateAgrees, Opened, TInv, ProgramType
<1>3. Opened => HandByte = Opening
  BY WholeOrHalf DEF Opened, IInv, Hand
<1>4. m_pc = "shifted" /\ Half => HandByte = POLL
  BY DEF IInv, Hand, Half
<1> QED
  BY <1>2, <1>3, <1>4

\* The program has left the queue behind when it works on a request.
LEMMA AtWork ==
  ASSUME IInv, s_pc \in Busy
  PROVE  InHand /\ HandByte = s_byte /\ from_SPI = << >>
BY DEF IInv, Drained, InHand, HandByte, Busy

\* The answer to the request in hand is written down when it is computed.
LEMMA AnswerComputed ==
  ASSUME IInv, op \in {"status", "read"}, QueryStatus \/ DequeueData
  PROVE  ~(m_pc = "shifted" /\ Half) /\ s_pc' = "wait" /\ answer' = <<s_reply'>>
         /\ UNCHANGED <<m_pc, op, script>>
<1>1. s_pc = "switch" /\ s_byte \in {QUERY_UART_STATUS, DEQUEUE_UART_DATA}
  BY DEF QueryStatus, DequeueData, Request
<1>2. InHand /\ HandByte = s_byte
  BY <1>1, AtWork DEF Busy
<1>3. ~(m_pc = "shifted" /\ Half)
  BY <1>1, <1>2, RequestInHand DEF POLL, QUERY_UART_STATUS, DEQUEUE_UART_DATA
<1>4. s_pc' = "wait" /\ answer' = <<s_reply'>> /\ UNCHANGED <<m_pc, op, script>>
  BY DEF QueryStatus, DequeueData, master
<1> QED
  BY <1>3, <1>4

\* While an operation is between its exchanges, the slave finishes with its request
\* only by loading the answer.
LEMMA FinishedAnswer ==
  ASSUME IInv, op \in {"status", "read"}, Finish, Opened
  PROVE  MarkHot
<1>1. InHand /\ HandByte = s_byte
  BY Finished DEF IInv
<1>2. s_byte \in {QUERY_UART_STATUS, DEQUEUE_UART_DATA} /\ state = "EXPECTING_REQUEST"
  BY <1>1, RequestInHand DEF Opening
<1>3. ~Ignore /\ ~SetRESB /\ ~ExpectData /\ ~SendData
  BY <1>2, DistinctCodes DEF Ignore, SetRESB, ExpectData, SendData, Request, ASSERT_RESB,
     RELEASE_RESB, SEND_VIA_UART, QUERY_UART_STATUS, DEQUEUE_UART_DATA
<1>4. ~RememberSlave
  BY <1>2, DistinctCodes DEF RememberSlave, Emit, IInv, TInv, SelectByte, Selecting
<1> QED
  BY <1>3, <1>4 DEF Finish

\* What the second exchange brings.
LEMMA Fetched ==
  ASSUME IInv, QuietHost, EndShift
  PROVE  SPDR' = USIDR /\ s_pc' = "check" /\ UNCHANGED <<answer, s_reply>>
<1>1. garbled = {} /\ ss = {} /\ miso
  BY DEF EndShift, IInv, Lines
<1>2. SPDR' \in {USIDR}
  BY <1>1 DEF EndShift, Received
<1>3. s_pc' = "check"
  BY <1>1, Arrived DEF IInv
<1>4. UNCHANGED <<answer, s_reply>>
  BY DEF EndShift, history, locals
<1> QED
  BY <1>2, <1>3, <1>4

\* What the remaining steps leave of an answer.
LEMMA AnswerKept ==
  ASSUME TInv, ReleaseSSA \/ Moves \/ Aside, ~QueryStatus, ~DequeueData, ~LoadUSIDR
  PROVE  /\ UNCHANGED <<answer, s_reply, USIDR, SPDR>>
         /\ s_pc' \in {"wait", "mark"} <=> s_pc \in {"wait", "mark"}
         /\ s_pc \in {"wait", "mark"} => s_pc' = s_pc
<1>1. UNCHANGED <<answer, s_reply, USIDR, SPDR>>
  BY DEF ReleaseSSA, Moves, Aside, AssertSSA, StartShift, StartDeviceExchange,
     EndDeviceExchange, UartReceive, UartTransmit, Sleep, CheckQueue, Greet, Report, BeginSelect,
     ReadPort, WritePort, program, locals, usi, history, master, vars
<1>2. /\ s_pc' \in {"wait", "mark"} <=> s_pc \in {"wait", "mark"}
      /\ s_pc \in {"wait", "mark"} => s_pc' = s_pc
  BY DEF ReleaseSSA, Moves, Aside, AssertSSA, StartShift, StartDeviceExchange,
     EndDeviceExchange, UartReceive, UartTransmit, Sleep, CheckQueue, Greet, Report, BeginSelect,
     ReadPort, WritePort, Emit, Woken, program, vars
<1> QED
  BY <1>1, <1>2

\* Answered is preserved by every step.
LEMMA AnsweredPreserved == ASSUME IInv, IInv', Answered, QuietHost, [Next]_vars PROVE Answered'
<1>1. CASE Finish
  <2>1. SUFFICES ASSUME op \in {"status", "read"} PROVE Answered'
    BY <1>1, Finished DEF Answered, master, IInv
  <2>2. ~InHand' /\ InHand /\ UNCHANGED <<m_pc, op, script, SPDR>>
    BY <1>1, Finished DEF master, IInv
  <2>3. s_pc' = "tosleep" /\ UNCHANGED answer
    BY <1>1 DEF Finish, Ignore, SetRESB, RememberSlave, ExpectData, SendData, MarkHot, Emit, history
  <2>4. (Half' <=> Half) /\ (Opened' <=> Opened)
    BY <2>2, SameShape DEF Opened
  <2>5. Opened => s_pc = "mark" /\ UNCHANGED USIDR
    BY <1>1, <2>1, FinishedAnswer DEF MarkHot
  <2> QED
    BY <2>1, <2>2, <2>3, <2>4, <2>5 DEF Answered
<1>2. CASE EndShift
  <2>1. m_pc' = "shifted" /\ (Half' <=> Half) /\ (Whole' <=> Whole) /\ InHand' /\ s_pc' = "check"
        /\ UNCHANGED <<op, script, answer>> /\ SPDR' = USIDR /\ ~InHand /\ m_pc = "shifting"
    BY <1>2, ArrivesAs, Fetched
  <2>2. op \in {"status", "read"} /\ Half => answer = <<USIDR>>
    BY <2>1 DEF Answered, Opened
  <2> QED
    BY <2>1, <2>2 DEF Answered
<1>3. CASE Operation
  BY <1>3, KeptState DEF Keep, IInv, Answered, Opened
<1>4. CASE QueryStatus \/ DequeueData
  <2>1. SUFFICES ASSUME op \in {"status", "read"} PROVE Answered'
    BY <1>4 DEF Answered, QueryStatus, DequeueData, master
  <2>2. ~(m_pc = "shifted" /\ Half) /\ s_pc' = "wait" /\ answer' = <<s_reply'>>
         /\ UNCHANGED <<m_pc, op, script>>
    BY <1>4, <2>1, AnswerComputed
  <2>3. InHand' /\ (Half' <=> Half)
    BY <1>4, <2>2, SameShape DEF InHand, Busy
  <2> QED
    BY <2>2, <2>3 DEF Answered
<1>5. CASE LoadUSIDR
  <2>1. s_pc = "wait" /\ s_pc' = "mark" /\ USIDR' = s_reply
        /\ UNCHANGED <<m_pc, op, script, answer, SPDR>>
    BY <1>5 DEF LoadUSIDR, master, history
  <2>2. (Half' <=> Half) /\ (Opened' <=> Opened)
    BY <2>1, SameShape DEF Opened
  <2> QED
    BY <2>1, <2>2 DEF Answered
<1>6. CASE ReleaseSSA
  <2>1. SUFFICES ASSUME op' \in {"status", "read"} PROVE Answered'
    BY DEF Answered
  <2>2. Whole /\ op \in {"status", "read"} /\ Half' /\ m_pc = "shifted" /\ m_pc' = "idle"
    BY <1>6, <2>1, Popped, WholeOrHalf DEF IInv, TInv, Shape, Exchanging
  <2>3. (InHand' <=> InHand) /\ UNCHANGED <<answer, s_reply, USIDR>>
    BY <1>6, Kept, AnswerKept DEF Keep, IInv, ReleaseSSA, QueryStatus, DequeueData, LoadUSIDR, master
  <2>4. (s_pc' = "wait" => s_pc = "wait") /\ (s_pc' = "mark" => s_pc = "mark")
    BY <1>6 DEF ReleaseSSA, Woken
  <2> QED
    BY <2>2, <2>3, <2>4 DEF Answered, Opened
<1>7. CASE (Moves \/ Aside) /\ ~QueryStatus /\ ~DequeueData /\ ~LoadUSIDR
  <2>1. InHand' <=> InHand
    BY <1>7, Kept, Parts DEF IInv
  <2>2. UNCHANGED <<op, script>> /\ (m_pc' = "shifted" <=> m_pc = "shifted")
    BY <1>7, KeptState, Parts DEF IInv
  <2>3. (Opened' <=> Opened) /\ (Half' <=> Half)
    BY <2>2, SameShape DEF Opened
  <2>4. UNCHANGED <<answer, s_reply, USIDR, SPDR>>
    BY <1>7, AnswerKept DEF IInv
  <2>5. (s_pc' = "wait" => s_pc = "wait") /\ (s_pc' = "mark" => s_pc = "mark")
    BY <1>7, AnswerKept DEF IInv
  <2> QED
    BY <2>1, <2>2, <2>3, <2>4, <2>5 DEF Answered
<1> QED
  BY <1>1, <1>2, <1>3, <1>4, <1>5, <1>6, <1>7, Steps, Parts

\* The device that the 6502 will believe it has selected, and whether it will have
\* used the UART since, once SSA is high.
Target == IF m_pc = "shifted" THEN Chosen ELSE cpu_dev
CutOff == cut /\ (m_pc = "shifted" => op \notin {"select", "reset"})

\* The device reached, or about to be, is the one that the 6502 believes in.
Reached ==
  /\ m_pc = "device" => cpu_dev # NO_SLAVE_SELECTED
  /\ m_pc \in {"armed", "shifting"} /\ op \in {"status", "read", "write"}
       => cut \/ cpu_dev = NO_SLAVE_SELECTED
  /\ m_pc \in {"idle", "shifted", "device"} =>
       /\ SelectInHand => ~CutOff /\ HandByte = SELECT_SLAVE_0 + Target
       /\ ~SelectInHand /\ CutOff => ss = {} /\ miso
       /\ ~SelectInHand /\ ~CutOff /\ Target # NO_SLAVE_SELECTED => ss = {Target} /\ ~miso

\* Master steps leave the device in force alone, except that an exchange arms.
LEMMA TargetKept ==
  ASSUME IInv, Keep, ~AssertSSA, ~StartShift
  PROVE  Target' = Target /\ (CutOff' <=> CutOff)
<1>1. CASE ReleaseSSA
  <2>1. m_pc = "shifted" /\ m_pc' = "idle" /\ cpu_dev' = Chosen
        /\ cut' = (cut /\ op \notin {"select", "reset"})
    BY <1>1 DEF ReleaseSSA
  <2> QED
    BY <2>1 DEF Target, CutOff
<1>2. CASE Operation \/ StartDeviceExchange \/ EndDeviceExchange
  <2>1. m_pc # "shifted" /\ m_pc' # "shifted" /\ UNCHANGED <<cpu_dev, cut>>
    BY <1>2 DEF Operation, ReadStatus, ReadData, WriteData, SelectDevice, ResetCPU, Begin,
       StartDeviceExchange, EndDeviceExchange, history
  <2> QED
    BY <2>1 DEF Target, CutOff
<1>3. CASE Aside
  <2>1. UNCHANGED <<m_pc, op, script, cpu_dev>>
    BY <1>3, KeptState, Parts DEF IInv
  <2>2. cut' = cut
    BY <1>3 DEF Aside, UartReceive, UartTransmit, Sleep, CheckQueue, Greet, Report, BeginSelect,
       ReadPort, WritePort, QueryStatus, DequeueData, LoadUSIDR, history, vars
  <2> QED
    BY <2>1, <2>2 DEF Target, CutOff, Chosen
<1> QED
  BY <1>1, <1>2, <1>3, Parts DEF Moves

\* The remaining steps of the first kind leave lines and MISO alone.
LEMMA LinesKept ==
  ASSUME Keep, ~AssertSSA, ~BeginSelect, ~WritePort
  PROVE  UNCHANGED <<ss, miso>>
BY DEF Keep, Operation, ReadStatus, ReadData, WriteData, SelectDevice, ResetCPU, Begin,
   StartShift, ReleaseSSA, StartDeviceExchange, EndDeviceExchange, UartReceive, UartTransmit,
   Sleep, CheckQueue, Greet, Report, ReadPort, QueryStatus, DequeueData, LoadUSIDR, lines, vars

\* A program that is about to select has a selection in hand.
LEMMA SelectionAtWork ==
  ASSUME IInv, s_pc \in Selecting \/ BeginSelect PROVE SelectInHand /\ s_byte \in SelectRequest
<1>1. s_pc \in Busy /\ s_byte \in SelectRequest /\ state = "EXPECTING_REQUEST"
  BY DEF BeginSelect, Selecting, Busy, IInv, TInv, SelectByte, ProgramState
<1> QED
  BY <1>1, AtWork DEF SelectInHand

\* SSA goes low: devices are released, and the UART is used if that is the operation.
LEMMA ReachedArmed == ASSUME IInv, Reached, QuietHost, AssertSSA \/ StartShift PROVE Reached'
<1>1. UNCHANGED <<op, cpu_dev>> /\ m_pc' \in {"armed", "shifting"}
  BY DEF AssertSSA, StartShift
<1>2. CASE AssertSSA
  BY <1>1, <1>2 DEF AssertSSA, Reached
<1>3. CASE StartShift
  BY <1>1, <1>3 DEF StartShift, Reached, history
<1> QED
  BY <1>1, <1>2, <1>3

\* A byte arrives: if it selects a device, that is the one the 6502 asked for.
LEMMA ReachedArrival == ASSUME IInv, Reached, QuietHost, EndShift PROVE Reached'
<1>1. /\ m_pc = "shifting" /\ m_pc' = "shifted" /\ ~InHand /\ InHand' /\ HandByte' = Head(script)
      /\ UNCHANGED <<op, script, state, cpu_dev>> /\ op # "none" /\ (Half' <=> Half)
      /\ state' = IF op = "write" /\ Half THEN "EXPECTING_DATA_FOR_UART" ELSE "EXPECTING_REQUEST"
  BY ArrivesAs
<1>2. ss' = {} /\ miso' /\ cut' = cut
  BY <1>1 DEF EndShift, IInv, Lines, lines, history
<1>3. Target' = Chosen /\ (CutOff' <=> cut /\ op \notin {"select", "reset"})
  BY <1>1, <1>2 DEF Target, CutOff, Chosen
<1>4. CASE op = "select"
  <2>1. PICK id \in DeviceId \union {NO_SLAVE_SELECTED} : script = <<SELECT_SLAVE_0 + id>>
    BY <1>4, WholeOrHalf DEF Whole, IInv
  <2>2. Head(script) = SELECT_SLAVE_0 + id /\ id \in 0 .. 7 /\ Chosen = id
    <3>1. id \in 0 .. 7
      BY DeviceNumbers
    <3>2. Head(script) = SELECT_SLAVE_0 + id
      BY <2>1
    <3> QED
      BY <1>4, <3>1, <3>2 DEF Chosen, SELECT_SLAVE_0
  <2>3. Head(script) = SELECT_SLAVE_0 + Target' /\ Target' = id
    BY <1>3, <2>2
  <2>4. ~SelectInHand' => id = NO_SLAVE_SELECTED
    <3>1. id # 7 => Head(script) \in SelectRequest
      BY <2>2 DEF SelectRequest, SELECT_SLAVE_0, RELEASE_SLAVE
    <3> QED
      BY <1>1, <1>4, <3>1 DEF SelectInHand, NO_SLAVE_SELECTED
  <2> QED
    BY <1>1, <1>3, <1>4, <2>3, <2>4 DEF Reached
<1>5. CASE op # "select"
  <2>1. ~SelectInHand'
    <3>1. CASE op = "write" /\ Half
      BY <1>1, <3>1 DEF SelectInHand
    <3>2. CASE ~(op = "write" /\ Half)
      <4>1. Head(script) \in {POLL, RELEASE_RESB, Opening} /\ op \in {"status", "read", "write", "reset"}
        BY <1>1, <1>5, <3>2, WholeOrHalf DEF Half, IInv, Whole
      <4>2. Head(script) \notin SelectRequest
        BY <4>1, DistinctCodes DEF Opening, POLL, RELEASE_RESB, SelectRequest, SELECT_SLAVE_0,
           RELEASE_SLAVE
      <4> QED
        BY <1>1, <4>2 DEF SelectInHand
    <3> QED
      BY <3>1, <3>2
  <2>2. op # "reset" => op \in {"status", "read", "write"} /\ Target' = cpu_dev
    BY <1>1, <1>3, <1>5, WholeOrHalf DEF Chosen, IInv, Whole, Half
  <2>3. op = "reset" => Target' = NO_SLAVE_SELECTED
    BY <1>3 DEF Chosen
  <2> QED
    BY <1>1, <1>2, <1>3, <2>1, <2>2, <2>3 DEF Reached
<1> QED
  BY <1>4, <1>5

\* The slave finishes with a byte: a device it was to select is selected.
LEMMA ReachedFinish == ASSUME IInv, IInv', Reached, Finish PROVE Reached'
<1>1. InHand /\ HandByte = s_byte /\ ~InHand' /\ UNCHANGED <<m_pc, op, script, cpu_dev>>
  BY Finished DEF IInv, master
<1>2. UNCHANGED <<ss, miso, cut>>
  BY DEF Finish, Ignore, SetRESB, RememberSlave, ExpectData, SendData, MarkHot, lines, history
<1>3. ~SelectInHand' /\ Target' = Target /\ (CutOff' <=> CutOff)
  BY <1>1, <1>2 DEF SelectInHand, Target, CutOff, Chosen
<1>4. CASE RememberSlave
  <2>1. s_pc = "remember" /\ SelectInHand
    BY <1>4, SelectionAtWork DEF RememberSlave, Emit, Selecting
  <2>2. ss = {Wanted} /\ ~miso
    BY <2>1 DEF IInv, Lines, Selecting
  <2>3. m_pc \in {"idle", "shifted", "device"} => ~CutOff /\ s_byte = SELECT_SLAVE_0 + Target
    BY <1>1, <2>1 DEF Reached
  <2>4. Target \in 0 .. 7 => (s_byte = SELECT_SLAVE_0 + Target => Wanted = Target)
    BY DEF Wanted, SELECT_SLAVE_0
  <2>5. m_pc \in {"idle", "shifted", "device"} => Target \in 0 .. 7
    <3>1. cpu_dev \in 0 .. 7
      BY DeviceNumbers DEF IInv, TInv, MasterType
    <3>2. op = "select" => Chosen \in 0 .. 7
      <4>1. SUFFICES ASSUME op = "select" PROVE Chosen \in 0 .. 7
        OBVIOUS
      <4>2. PICK id \in DeviceId \union {NO_SLAVE_SELECTED} : script = <<SELECT_SLAVE_0 + id>>
        BY <4>1, WholeOrHalf DEF Whole, IInv
      <4>3. id \in 0 .. 7
        BY DeviceNumbers
      <4>4. Head(script) = SELECT_SLAVE_0 + id
        BY <4>2
      <4> QED
        BY <4>1, <4>3, <4>4 DEF Chosen, SELECT_SLAVE_0
    <3> QED
      BY <3>1, <3>2 DEF Target, Chosen, NO_SLAVE_SELECTED
  <2> QED
    BY <1>1, <1>2, <1>3, <2>2, <2>3, <2>4, <2>5 DEF Reached
<1>5. CASE ~RememberSlave
  <2>1. ~SelectInHand
    BY <1>1, <1>5, DistinctCodes DEF SelectInHand, Finish, Ignore, SetRESB, ExpectData, SendData,
       MarkHot, Request, IInv, ProgramState, RELEASE_RESB, SelectRequest, SELECT_SLAVE_0, RELEASE_SLAVE
  <2> QED
    BY <1>1, <1>2, <1>3, <2>1 DEF Reached
<1> QED
  BY <1>4, <1>5

\* Reached is preserved by every step.
LEMMA ReachedPreserved == ASSUME IInv, IInv', Reached, QuietHost, [Next]_vars PROVE Reached'
<1>1. CASE AssertSSA \/ StartShift
  BY <1>1, ReachedArmed
<1>2. CASE EndShift
  BY <1>2, ReachedArrival
<1>3. CASE Finish
  BY <1>3, ReachedFinish
<1>4. CASE Keep /\ ~AssertSSA /\ ~StartShift
  <2>1. (InHand' <=> InHand) /\ (InHand => HandByte' = HandByte) /\ state' = state
    BY <1>4, Kept, KeptState DEF IInv
  <2>2. (SelectInHand' <=> SelectInHand) /\ (SelectInHand => HandByte' = HandByte)
    BY <2>1 DEF SelectInHand
  <2>3. Target' = Target /\ (CutOff' <=> CutOff)
    BY <1>4, TargetKept
  <2>4. SelectInHand \/ UNCHANGED <<ss, miso>>
    BY <1>4, LinesKept, SelectionAtWork DEF WritePort, Selecting
  <2>5. /\ m_pc' \in {"idle", "shifted", "device"} <=> m_pc \in {"idle", "shifted", "device"}
        /\ UNCHANGED <<m_pc, op, cpu_dev, cut>> \/ m_pc' \in {"idle", "device"}
    <3>1. CASE Operation \/ ReleaseSSA \/ StartDeviceExchange \/ EndDeviceExchange
      BY <3>1 DEF Operation, ReadStatus, ReadData, WriteData, SelectDevice, ResetCPU, Begin,
         ReleaseSSA, StartDeviceExchange, EndDeviceExchange
    <3>2. CASE Aside
      <4>1. UNCHANGED <<m_pc, op, cpu_dev>>
        BY <3>2, KeptState, Parts DEF IInv
      <4>2. cut' = cut
        BY <3>2 DEF Aside, UartReceive, UartTransmit, Sleep, CheckQueue, Greet, Report, BeginSelect,
           ReadPort, WritePort, QueryStatus, DequeueData, LoadUSIDR, history, vars
      <4> QED
        BY <4>1, <4>2
    <3> QED
      BY <1>4, <3>1, <3>2, Parts DEF Moves
  <2>6. m_pc' = "device" => cpu_dev' # NO_SLAVE_SELECTED
    <3>1. CASE StartDeviceExchange
      BY <3>1 DEF StartDeviceExchange
    <3>2. CASE ~StartDeviceExchange /\ m_pc' = "device"
      <4>1. ~Operation /\ ~ReleaseSSA /\ ~EndDeviceExchange
        BY <3>2 DEF Operation, ReadStatus, ReadData, WriteData, SelectDevice, ResetCPU, Begin,
           ReleaseSSA, EndDeviceExchange
      <4>2. UNCHANGED <<m_pc, cpu_dev>>
        BY <1>4, <3>2, <4>1, KeptState, Parts DEF Moves, IInv
      <4> QED
        BY <3>2, <4>2 DEF Reached
    <3> QED
      BY <3>1, <3>2
  <2> QED
    BY <2>2, <2>3, <2>4, <2>5, <2>6 DEF Reached
<1> QED
  BY <1>1, <1>2, <1>3, <1>4, Steps

-----------------------------------------------------------------------------

\* A byte that is queued on arrival joins the end of what was accepted.
LEMMA JoinArrived ==
  ASSUME NEW d \in Seq(Byte), NEW t \in Seq(Byte), NEW q \in Seq(Byte), NEW b \in Byte
  PROVE  Append((d \o t) \o q, b) = (d \o t) \o Append(q, b)
<1>1. d \o t \in Seq(Byte) /\ <<b>> \in Seq(Byte) /\ (d \o t) \o q \in Seq(Byte)
  BY Joining
<1>2. Append((d \o t) \o q, b) = ((d \o t) \o q) \o <<b>> /\ Append(q, b) = q \o <<b>>
  BY <1>1, AppendIsConcat
<1> QED
  BY <1>1, <1>2, ConcatAssociative, SMTT(30)

\* Dequeueing splits a queue into its first byte and the rest.
LEMMA SplitHead ==
  ASSUME NEW q \in Seq(Byte), q # << >> PROVE q = <<Head(q)>> \o Tail(q)
<1>1. /\ Head(q) \in Byte /\ Tail(q) \in Seq(Byte) /\ Len(Tail(q)) = Len(q) - 1
      /\ \A i \in 1 .. Len(Tail(q)) : Tail(q)[i] = q[i + 1]
  BY HeadTailProperties
<1>2. Len(q) \in Nat \ {0}
  BY EmptySeq
<1>3. <<Head(q)>> \in Seq(Byte) /\ Len(<<Head(q)>>) = 1
  BY <1>1
<1>4. /\ <<Head(q)>> \o Tail(q) \in Seq(Byte)
      /\ Len(<<Head(q)>> \o Tail(q)) = Len(q)
      /\ \A i \in 1 .. Len(q) : (<<Head(q)>> \o Tail(q))[i] =
           IF i <= 1 THEN <<Head(q)>>[i] ELSE Tail(q)[i - 1]
  BY <1>1, <1>2, <1>3, ConcatProperties
<1>5. ASSUME NEW i \in 1 .. Len(q) PROVE (<<Head(q)>> \o Tail(q))[i] = q[i]
  <2>1. CASE i = 1
    BY <1>4, <2>1
  <2>2. CASE i > 1
    <3>1. i - 1 \in 1 .. Len(Tail(q)) /\ (i - 1) + 1 = i
      BY <1>1, <1>2, <2>2
    <3>2. Tail(q)[i - 1] = q[i]
      BY <1>1, <3>1
    <3> QED
      BY <1>4, <2>2, <3>2
  <2> QED
    BY <2>1, <2>2
<1> QED
  BY <1>4, <1>5, SeqEqual

\* The byte moves from the queue into the answer.
LEMMA JoinDequeued ==
  ASSUME NEW d \in Seq(Byte), NEW q \in Seq(Byte), q # << >>
  PROVE  (d \o << >>) \o q = (d \o <<Head(q)>>) \o Tail(q)
<1>1. Head(q) \in Byte /\ Tail(q) \in Seq(Byte)
  BY HeadTailProperties
<1>2. <<Head(q)>> \in Seq(Byte)
  BY <1>1
<1>3. d \o << >> = d
  BY ConcatEmptySeq
<1> QED
  BY <1>1, <1>2, <1>3, SplitHead, ConcatAssociative

\* The byte moves from the answer to the 6502.
LEMMA JoinDelivered ==
  ASSUME NEW d \in Seq(Byte), NEW b \in Byte
  PROVE  d \o <<b>> = Append(d, b) \o << >>
<1>1. Append(d, b) \in Seq(Byte) /\ Append(d, b) = d \o <<b>>
  BY AppendIsConcat, Appending
<1> QED
  BY <1>1, ConcatEmptySeq

\* The slave has dequeued a byte for the read in progress.
Handled ==
  \/ Opened /\ (s_pc \in {"wait", "mark"} \/ ~InHand)
  \/ m_pc = "shifted" /\ Half

\* What the status says of the receive queue, and where the byte is that a read takes.
Receiving ==
  /\ accepted = delivered \o taken \o from_UART
  /\ op # "read" => taken = << >>
  /\ op = "read" /\ Handled => taken = answer
  /\ op = "read" /\ ~Handled => taken = << >> /\ from_UART # << >>
  /\ op = "read" => status = 0
  /\ status \in {1, 3} => from_UART # << >>
  /\ op = "status" /\ answer \in {<<1>>, <<3>>} => from_UART # << >>

\* Which steps touch what Receiving is about.
LEMMA ReceiveFrame ==
  ASSUME [Next]_vars
  PROVE  /\ UartReceive \/ DequeueData \/ UNCHANGED from_UART
         /\ UartReceive \/ UNCHANGED accepted
         /\ DequeueData \/ ReleaseSSA \/ UNCHANGED taken
         /\ ReleaseSSA \/ UNCHANGED delivered
         /\ Operation \/ ReleaseSSA \/ UNCHANGED status
         /\ Operation \/ QueryStatus \/ DequeueData \/ UNCHANGED answer
<1> USE DEF Next, Exchange, SlaveProgram, AssertSSA, StartShift, EndShift,
     StartDeviceExchange, EndDeviceExchange, UartTransmit, Sleep, CheckQueue,
     Greet, Report, Ignore, SetRESB, BeginSelect, ReadPort, WritePort, RememberSlave,
     ExpectData, SendData, LoadUSIDR, MarkHot, vars
<1>1. UartReceive \/ DequeueData \/ UNCHANGED from_UART
  BY DEF Operation, ReadStatus, ReadData, WriteData, SelectDevice, ResetCPU, Begin, QueryStatus,
     ReleaseSSA, uart
<1>2. UartReceive \/ UNCHANGED accepted
  BY DEF Operation, ReadStatus, ReadData, WriteData, SelectDevice, ResetCPU, Begin, QueryStatus,
     DequeueData, ReleaseSSA, uart
<1>3. DequeueData \/ ReleaseSSA \/ UNCHANGED taken
  BY DEF Operation, ReadStatus, ReadData, WriteData, SelectDevice, ResetCPU, Begin, QueryStatus,
     UartReceive, history
<1>4. ReleaseSSA \/ UNCHANGED delivered
  BY DEF Operation, ReadStatus, ReadData, WriteData, SelectDevice, ResetCPU, Begin, QueryStatus,
     DequeueData, UartReceive, history
<1>5. Operation \/ ReleaseSSA \/ UNCHANGED status
  BY DEF QueryStatus, DequeueData, UartReceive, master
<1>6. Operation \/ QueryStatus \/ DequeueData \/ UNCHANGED answer
  BY DEF ReleaseSSA, UartReceive, history
<1> QED
  BY <1>1, <1>2, <1>3, <1>4, <1>5, <1>6

\* The step at which the slave dequeues the byte is the only one that changes Handled
\* during a read.
LEMMA HandledKept ==
  ASSUME IInv, QuietHost, op = "read", [Next]_vars, ~QueryStatus, ~DequeueData,
         ReleaseSSA => Whole
  PROVE  op' = "read" /\ (Handled' <=> Handled)
<1>1. CASE EndShift
  <2>1. /\ m_pc = "shifting" /\ m_pc' = "shifted" /\ ~InHand /\ InHand' /\ op' = op
        /\ (Half' <=> Half) /\ (Whole' <=> Whole) /\ s_pc' = "check"
    BY <1>1, ArrivesAs, Fetched
  <2>2. Whole <=> ~Half
    BY WholeOrHalf DEF IInv
  <2> QED
    BY <2>1, <2>2 DEF Handled, Opened
<1>2. CASE Finish
  <2>1. ~InHand' /\ InHand /\ UNCHANGED <<m_pc, op, script>>
    BY <1>2, Finished DEF master, IInv
  <2>2. (Half' <=> Half) /\ (Opened' <=> Opened)
    BY <2>1, SameShape DEF Opened
  <2>3. Opened => s_pc = "mark"
    BY <1>2, FinishedAnswer DEF MarkHot
  <2> QED
    BY <2>1, <2>2, <2>3 DEF Handled
<1>3. CASE ReleaseSSA
  <2>1. op' = op /\ Half' /\ ~Half /\ Whole /\ m_pc = "shifted" /\ m_pc' = "idle"
    BY <1>3, Popped, WholeOrHalf DEF IInv
  <2>2. (InHand' <=> InHand) /\ (s_pc' \in {"wait", "mark"} <=> s_pc \in {"wait", "mark"})
    BY <1>3, Kept, AnswerKept DEF Keep, IInv, ReleaseSSA, LoadUSIDR, master
  <2> QED
    BY <2>1, <2>2 DEF Handled, Opened
<1>4. CASE LoadUSIDR
  <2>1. s_pc = "wait" /\ s_pc' = "mark" /\ UNCHANGED <<m_pc, op, script>>
    BY <1>4 DEF LoadUSIDR, master
  <2>2. (Half' <=> Half) /\ (Opened' <=> Opened)
    BY <2>1, SameShape DEF Opened
  <2> QED
    BY <2>1, <2>2 DEF Handled
<1>5. CASE (Moves \/ Aside) /\ ~LoadUSIDR
  <2>1. InHand' <=> InHand
    BY <1>5, Kept, Parts DEF IInv
  <2>2. UNCHANGED <<op, script>> /\ (m_pc' = "shifted" <=> m_pc = "shifted")
    BY <1>5, KeptState, Parts DEF IInv
  <2>3. (Opened' <=> Opened) /\ (Half' <=> Half)
    BY <2>2, SameShape DEF Opened
  <2>4. s_pc' \in {"wait", "mark"} <=> s_pc \in {"wait", "mark"}
    BY <1>5, AnswerKept DEF IInv
  <2> QED
    BY <2>1, <2>2, <2>3, <2>4 DEF Handled
<1>6. ~Operation
  BY DEF Operation, ReadStatus, ReadData, WriteData, SelectDevice, ResetCPU, Begin
<1> QED
  BY <1>1, <1>2, <1>3, <1>4, <1>5, <1>6, Steps, Parts

\* The host's byte is queued, or dropped and not counted as accepted.
LEMMA ReceivingArrival == ASSUME IInv, Receiving, QuietHost, UartReceive PROVE Receiving'
<1>1. op = "none" /\ op' = "none" /\ UNCHANGED <<delivered, taken, status>>
  BY DEF UartReceive, QuietHost, master, history
<1>2. delivered \in Seq(Byte) /\ taken \in Seq(Byte) /\ from_UART \in Seq(Byte)
  BY DEF IInv, TInv, HistoryType, QueueType
<1>3. PICK b \in RxData :
        /\ from_UART' = Enqueued(from_UART, UartCapacity, b)
        /\ accepted' = IF Len(from_UART) < UartCapacity THEN Append(accepted, b) ELSE accepted
  BY DEF UartReceive
<1>4. CASE Len(from_UART) < UartCapacity
  <2>1. from_UART' = Append(from_UART, b) /\ accepted' = Append(accepted, b) /\ b \in Byte
    BY <1>3, <1>4, LinkAssumption DEF Enqueued
  <2>2. accepted' = (delivered \o taken) \o from_UART'
    BY <1>2, <2>1, JoinArrived, ZenonT(60) DEF Receiving
  <2>3. from_UART' # << >>
    BY <1>2, <2>1, AppendProperties
  <2> QED
    BY <1>1, <2>2, <2>3 DEF Receiving
<1>5. CASE ~(Len(from_UART) < UartCapacity)
  BY <1>1, <1>3, <1>5 DEF Enqueued, Receiving
<1> QED
  BY <1>4, <1>5

\* The byte that a read asks for is there, and becomes the answer.
LEMMA ReceivingDequeue == ASSUME IInv, Receiving, Asked, DequeueData PROVE Receiving'
<1>1. s_pc = "switch" /\ s_byte = DEQUEUE_UART_DATA /\ state = "EXPECTING_REQUEST"
  BY DEF DequeueData, Request
<1>2. InHand /\ HandByte = DEQUEUE_UART_DATA
  BY <1>1, AtWork DEF Busy
<1>3. op \in {"status", "read"} /\ Opened
  BY <1>1, <1>2 DEF Asked
<1>4. op = "read"
  BY <1>2, <1>3, RequestInHand DEF Opening, QUERY_UART_STATUS, DEQUEUE_UART_DATA
<1>5. ~(m_pc = "shifted" /\ Half)
  BY <1>3, WholeOrHalf DEF Opened, IInv
<1>6. ~Handled
  BY <1>1, <1>2, <1>5 DEF Handled
<1>7. taken = << >> /\ from_UART # << >> /\ status = 0
  BY <1>4, <1>6 DEF Receiving
<1>8. taken' = <<Head(from_UART)>> /\ from_UART' = Tail(from_UART) /\ answer' = taken'
      /\ s_pc' = "wait" /\ UNCHANGED <<accepted, delivered, m_pc, op, script, status>>
  BY <1>7 DEF DequeueData, master
<1>9. Handled'
  <2>1. (Half' <=> Half) /\ (Opened' <=> Opened)
    BY <1>8, SameShape DEF Opened
  <2> QED
    BY <1>3, <1>8, <2>1 DEF Handled
<1>10. accepted' = (delivered' \o taken') \o from_UART'
  <2>1. delivered \in Seq(Byte) /\ from_UART \in Seq(Byte)
    BY DEF IInv, TInv, HistoryType, QueueType
  <2>2. accepted = (delivered \o << >>) \o from_UART
    BY <1>7 DEF Receiving
  <2> QED
    BY <1>7, <1>8, <2>1, <2>2, JoinDequeued
<1> QED
  BY <1>4, <1>7, <1>8, <1>9, <1>10 DEF Receiving

\* The last exchange of a read hands over the byte, that of a status query the status.
LEMMA ReceivingReturn ==
  ASSUME IInv, Receiving, Answered, QuietHost, ReleaseSSA PROVE Receiving'
<1>1. UNCHANGED <<accepted, from_UART, answer>>
  BY DEF ReleaseSSA, uart
<1>2. CASE Whole /\ op # "select"
  <2>1. PICK a, b : script = <<a, b>>
    BY <1>2 DEF Whole
  <2>2. Tail(script) # << >> /\ op' = op
    BY <1>2, <2>1, Popped DEF IInv
  <2>3. UNCHANGED <<delivered, taken, status>>
    BY <2>2 DEF ReleaseSSA
  <2>4. op = "read" => (Handled' <=> Handled)
    BY <1>2, HandledKept DEF ReleaseSSA, QueryStatus, DequeueData, master, Next, Exchange
  <2> QED
    BY <1>1, <2>2, <2>3, <2>4 DEF Receiving
<1>3. CASE Half \/ op = "select"
  <2>1. m_pc = "shifted" /\ op' = "none"
    BY <1>3, Popped DEF IInv
  <2>2. PICK a : script = <<a>>
    BY <1>3, WholeOrHalf DEF Half, Whole, IInv
  <2>3. Tail(script) = << >>
    BY <2>2
  <2>4. CASE op = "read"
    <3>1. taken = <<SPDR>> /\ status = 0
      BY <1>3, <2>1, <2>4 DEF Answered, Receiving, Handled
    <3>2. delivered' = Append(delivered, SPDR) /\ taken' = << >> /\ status' = status
      BY <2>3, <2>4 DEF ReleaseSSA
    <3>3. delivered \in Seq(Byte) /\ SPDR \in Byte
      BY DEF IInv, TInv, HistoryType, MasterType
    <3>4. delivered \o taken = delivered' \o taken'
      BY <3>1, <3>2, <3>3, JoinDelivered
    <3> QED
      BY <1>1, <2>1, <3>1, <3>2, <3>4 DEF Receiving
  <2>5. CASE op = "status"
    <3>1. answer = <<SPDR>> /\ status' = SPDR /\ UNCHANGED <<delivered, taken>>
      BY <1>3, <2>1, <2>3, <2>5 DEF Answered, ReleaseSSA
    <3>2. SPDR \in {1, 3} => from_UART # << >>
      BY <2>5, <3>1 DEF Receiving
    <3> QED
      BY <1>1, <2>1, <2>5, <3>1, <3>2 DEF Receiving
  <2>6. CASE op \notin {"read", "status"}
    <3>1. UNCHANGED <<delivered, taken, status>>
      BY <2>6 DEF ReleaseSSA
    <3> QED
      BY <1>1, <2>1, <2>6, <3>1 DEF Receiving
  <2> QED
    BY <2>4, <2>5, <2>6
<1> QED
  BY <1>2, <1>3, Popped, WholeOrHalf DEF IInv, TInv, Shape, Exchanging

\* A read begins only after a status that has seen a byte in the queue.
LEMMA ReceivingBegin == ASSUME IInv, Receiving, Operation PROVE Receiving'
<1>1. op = "none" /\ answer' = << >> /\ UNCHANGED <<accepted, delivered, taken, from_UART>>
  BY DEF Operation, ReadStatus, ReadData, WriteData, SelectDevice, ResetCPU, Begin, uart
<1>2. ~Half' /\ m_pc' = "idle"
  BY KeptState DEF Keep, IInv
<1>3. ~Handled'
  BY <1>2 DEF Handled, Opened
<1>4. op' = "read" => status \in {1, 3} /\ status' = 0
  BY DEF Operation, ReadStatus, ReadData, WriteData, SelectDevice, ResetCPU, Begin
<1>5. status' \in {status, 0}
  BY DEF Operation, ReadStatus, ReadData, WriteData, SelectDevice, ResetCPU, Begin
<1>6. << >> \notin {<<1>>, <<3>>}
  OBVIOUS
<1> QED
  BY <1>1, <1>3, <1>4, <1>5, <1>6 DEF Receiving

\* The status that the slave reports says whether its queue holds a byte.
LEMMA ReceivingStatus == ASSUME IInv, Receiving, Asked, QueryStatus PROVE Receiving'
<1>1. s_pc = "switch" /\ s_byte = QUERY_UART_STATUS /\ state = "EXPECTING_REQUEST"
  BY DEF QueryStatus, Request
<1>2. InHand /\ HandByte = QUERY_UART_STATUS
  BY <1>1, AtWork DEF Busy
<1>3. op # "read"
  BY <1>1, <1>2, RequestInHand DEF Asked, Opening, QUERY_UART_STATUS, DEQUEUE_UART_DATA
<1>4. answer' = <<UartStatus>>
      /\ UNCHANGED <<accepted, delivered, taken, from_UART, op, status>>
  BY DEF QueryStatus, uart, master
<1>5. answer' \in {<<1>>, <<3>>} => from_UART # << >>
  <2>1. <<UartStatus>> \in {<<1>>, <<3>>} => UartStatus \in {1, 3}
    OBVIOUS
  <2>2. from_UART = << >> => UartStatus \in {0, 2}
    BY DEF UartStatus
  <2> QED
    BY <1>4, <2>1, <2>2
<1> QED
  BY <1>3, <1>4, <1>5 DEF Receiving

\* Receiving is preserved by every step.
LEMMA ReceivingPreserved ==
  ASSUME IInv, Asked, Answered, Receiving, QuietHost, [Next]_vars PROVE Receiving'
<1>1. CASE ~UartReceive /\ ~DequeueData /\ ~ReleaseSSA /\ ~Operation /\ ~QueryStatus
  <2>1. UNCHANGED <<accepted, delivered, taken, from_UART, status, answer>>
    BY <1>1, ReceiveFrame
  <2>2. op = "read" => (Handled' <=> Handled)
    BY <1>1, HandledKept
  <2>3. op' = op
    BY <1>1, KeptState, Steps, Parts, Finished, ArrivesAs DEF IInv, master
  <2> QED
    BY <2>1, <2>2, <2>3 DEF Receiving
<1> QED
  BY <1>1, ReceivingArrival, ReceivingDequeue, ReceivingReturn, ReceivingBegin, ReceivingStatus

\* The byte of a write that the slave has not yet put into the transmit register.
Pending ==
  IF op = "write" /\ ~(m_pc = "shifted" /\ Half) THEN <<script[Len(script)]>>
  ELSE IF state = "EXPECTING_DATA_FOR_UART" /\ InHand THEN <<HandByte>>
  ELSE << >>

\* Where the bytes are that the 6502 has written.
Sending ==
  /\ written = (sent \o udr) \o Pending
  /\ udr # << >> => tx_busy
  /\ op = "write" => status = 0
  /\ state = "EXPECTING_DATA_FOR_UART" /\ InHand => status = 0 /\ (op = "write" => Half)

\* Which steps touch what Sending is about.
LEMMA SendFrame ==
  ASSUME [Next]_vars
  PROVE  /\ WriteData \/ UNCHANGED written
         /\ UartTransmit \/ UNCHANGED sent
         /\ UartTransmit \/ SendData \/ (UNCHANGED udr /\ (tx_busy => tx_busy'))
<1> USE DEF Next, Exchange, SlaveProgram, AssertSSA, StartShift, EndShift,
     StartDeviceExchange, EndDeviceExchange, UartReceive, Sleep, CheckQueue, ReleaseSSA, DequeueData,
     Greet, Report, Ignore, SetRESB, BeginSelect, ReadPort, WritePort, RememberSlave, QueryStatus,
     ExpectData, LoadUSIDR, MarkHot, vars, Operation, ReadStatus, ReadData, SelectDevice,
     ResetCPU, Begin
<1>1. WriteData \/ UNCHANGED written
  BY DEF UartTransmit, SendData, history
<1>2. UartTransmit \/ UNCHANGED sent
  BY DEF SendData, WriteData, history
<1>3. UartTransmit \/ SendData \/ UNCHANGED udr
  BY DEF WriteData, uart
<1>4. UartTransmit \/ SendData \/ (tx_busy => tx_busy')
  BY DEF WriteData, uart, Emit
<1> QED
  BY <1>1, <1>2, <1>3, <1>4

\* The data of a write is the last byte of its script.
LEMMA LastByte ==
  ASSUME IInv, op = "write"
  PROVE  /\ Half => script[Len(script)] = Head(script) /\ Head(script) \in Byte
         /\ Whole => /\ Len(script) = 2 /\ script[2] \in Byte
                     /\ Tail(script) = <<script[2]>>
<1>1. CASE Half
  <2>1. PICK d \in TxData : script = <<d>>
    BY <1>1 DEF Half
  <2> QED
    BY <1>1, <2>1, LinkAssumption, WholeOrHalf DEF IInv
<1>2. CASE Whole
  <2>1. PICK d \in TxData : script = <<SEND_VIA_UART, d>>
    BY <1>2 DEF Whole
  <2> QED
    BY <1>2, <2>1, LinkAssumption, WholeOrHalf DEF IInv
<1> QED
  BY <1>1, <1>2, WholeOrHalf DEF IInv

\* A byte on its way to the transmit register stays so, and stays what it is.
LEMMA PendingKept ==
  ASSUME IInv, Sending, QuietHost, [Next]_vars, ~WriteData, ~SendData
  PROVE  Pending' = Pending
<1>1. CASE EndShift
  <2>1. /\ m_pc = "shifting" /\ m_pc' = "shifted" /\ ~InHand /\ InHand' /\ HandByte' = Head(script)
        /\ UNCHANGED <<op, script, state>> /\ (Half' <=> Half)
        /\ state' = IF op = "write" /\ Half THEN "EXPECTING_DATA_FOR_UART" ELSE "EXPECTING_REQUEST"
    BY <1>1, ArrivesAs
  <2>2. CASE op = "write" /\ Half
    <3>1. Pending = <<Head(script)>>
      BY <2>1, <2>2, LastByte DEF Pending
    <3>2. Pending' = <<HandByte'>>
      BY <2>1, <2>2 DEF Pending
    <3> QED
      BY <2>1, <3>1, <3>2
  <2>3. CASE ~(op = "write" /\ Half)
    BY <2>1, <2>3 DEF Pending
  <2> QED
    BY <2>2, <2>3
<1>2. CASE Finish
  <2>1. InHand /\ HandByte = s_byte /\ ~InHand' /\ UNCHANGED <<m_pc, op, script>>
    BY <1>2, Finished DEF master, IInv
  <2>2. state = "EXPECTING_REQUEST"
    BY <1>2 DEF Finish, Ignore, SetRESB, RememberSlave, ExpectData, MarkHot, Emit, Request,
       IInv, ProgramState
  <2>3. Half' <=> Half
    BY <2>1, SameShape
  <2> QED
    BY <2>1, <2>2, <2>3 DEF Pending
<1>3. CASE ReleaseSSA
  <2>1. (InHand' <=> InHand) /\ (InHand => HandByte' = HandByte) /\ state' = state
    BY <1>3, Kept, KeptState DEF Keep, IInv
  <2>2. CASE Whole /\ op # "select"
    <3>1. op' = op /\ Half' /\ ~Half /\ m_pc = "shifted" /\ m_pc' = "idle" /\ script' = Tail(script)
      BY <1>3, <2>2, Popped, WholeOrHalf DEF IInv, ReleaseSSA
    <3>2. CASE op = "write"
      <4>1. Pending = <<script[2]>> /\ script' = <<script[2]>>
        BY <2>2, <3>1, <3>2, LastByte DEF Pending
      <4>2. Pending' = <<script'[Len(script')]>>
        BY <3>1, <3>2 DEF Pending
      <4> QED
        BY <4>1, <4>2
    <3>3. CASE op # "write"
      BY <2>1, <3>1, <3>3 DEF Pending
    <3> QED
      BY <3>2, <3>3
  <2>3. CASE Half \/ op = "select"
    <3>1. op' = "none" /\ m_pc = "shifted"
      BY <1>3, <2>3, Popped DEF IInv
    <3> QED
      BY <2>1, <2>3, <3>1, WholeOrHalf DEF Pending
  <2> QED
    BY <1>3, <2>2, <2>3, Popped, WholeOrHalf DEF IInv, TInv, Shape, Exchanging
<1>4. CASE Operation
  <2>1. (InHand' <=> InHand) /\ (InHand => HandByte' = HandByte) /\ state' = state /\ op = "none"
    BY <1>4, Kept, KeptState DEF Keep, IInv
  <2>2. op' # "write"
    BY <1>4 DEF Operation, ReadStatus, ReadData, SelectDevice, ResetCPU, Begin
  <2> QED
    BY <2>1, <2>2 DEF Pending
<1>5. CASE Moves \/ Aside
  <2>1. (InHand' <=> InHand) /\ (InHand => HandByte' = HandByte) /\ state' = state
    BY <1>5, Kept, KeptState, Parts DEF IInv
  <2>2. UNCHANGED <<op, script>> /\ (m_pc' = "shifted" <=> m_pc = "shifted")
    BY <1>5, KeptState, Parts DEF IInv
  <2>3. Half' <=> Half
    BY <2>2, SameShape
  <2> QED
    BY <2>1, <2>2, <2>3 DEF Pending
<1> QED
  BY <1>1, <1>2, <1>3, <1>4, <1>5, Steps, Parts

\* Data for the transmit register in the slave's hands rules out a new write: the
\* 6502 has not asked for the status since.
LEMMA NoNewWrite ==
  ASSUME IInv, Sending, QuietHost, [Next]_vars
  PROVE  /\ op' = "write" => status' = 0
         /\ state' = "EXPECTING_DATA_FOR_UART" /\ InHand' => status' = 0 /\ (op' = "write" => Half')
<1>1. CASE EndShift
  <2>1. /\ UNCHANGED <<op, script, state>> /\ (Half' <=> Half)
        /\ state' = IF op = "write" /\ Half THEN "EXPECTING_DATA_FOR_UART" ELSE "EXPECTING_REQUEST"
    BY <1>1, ArrivesAs
  <2>2. status' = status
    BY <1>1 DEF EndShift
  <2> QED
    BY <2>1, <2>2 DEF Sending
<1>2. CASE Finish
  BY <1>2, Finished DEF Sending, IInv, master
<1>3. CASE ReleaseSSA
  <2>1. (InHand' <=> InHand) /\ state' = state
    BY <1>3, Kept, KeptState DEF Keep, IInv
  <2>2. InHand /\ state = "EXPECTING_DATA_FOR_UART" => op = "write"
    BY <1>3, Popped DEF IInv, StateAgrees, HalfWritten
  <2>3. op = "write" => status' = 0
    BY <1>3 DEF ReleaseSSA, Sending
  <2>4. op' \in {op, "none"}
    BY <1>3 DEF ReleaseSSA
  <2>5. InHand /\ state = "EXPECTING_DATA_FOR_UART" => Half
    BY <2>2 DEF Sending
  <2>6. Half => op' = "none"
    BY <1>3, Popped DEF IInv
  <2> QED
    BY <2>1, <2>2, <2>3, <2>4, <2>5, <2>6
<1>4. CASE Operation
  <2>1. (InHand' <=> InHand) /\ state' = state
    BY <1>4, Kept, KeptState DEF Keep, IInv
  <2>2. status' \in {status, 0} /\ (op' = "write" => status' = 0 /\ status # 0)
    BY <1>4 DEF Operation, ReadStatus, ReadData, WriteData, SelectDevice, ResetCPU, Begin
  <2> QED
    BY <2>1, <2>2 DEF Sending
<1>5. CASE Moves \/ Aside
  <2>1. (InHand' <=> InHand) /\ state' = state
    BY <1>5, Kept, KeptState, Parts DEF IInv
  <2>2. UNCHANGED <<op, script>>
    BY <1>5, KeptState, Parts DEF IInv
  <2>3. status' = status
    BY <1>5 DEF Moves, Aside, AssertSSA, StartShift, StartDeviceExchange, EndDeviceExchange,
       UartReceive, UartTransmit, Sleep, CheckQueue, Greet, Report, BeginSelect, ReadPort,
       WritePort, QueryStatus, DequeueData, LoadUSIDR, master, vars
  <2> QED
    BY <2>1, <2>2, <2>3, SameShape DEF Sending
<1> QED
  BY <1>1, <1>2, <1>3, <1>4, <1>5, Steps, Parts

\* Sequences of bytes: the 6502 writes one more.
LEMMA JoinWritten ==
  ASSUME NEW s \in Seq(Byte), NEW u \in Seq(Byte), NEW b \in Byte
  PROVE  Append((s \o u) \o << >>, b) = (s \o u) \o <<b>>
<1>1. s \o u \in Seq(Byte) /\ (s \o u) \o << >> = s \o u
  BY Joining, ConcatEmptySeq
<1> QED
  BY <1>1, AppendIsConcat

\* What is joined on the left is a prefix.
LEMMA PrefixOfConcat ==
  ASSUME NEW s \in Seq(Byte), NEW t \in Seq(Byte)
  PROVE  Len(s) <= Len(s \o t) /\ s = SubSeq(s \o t, 1, Len(s))
<1>1. /\ s \o t \in Seq(Byte) /\ Len(s \o t) = Len(s) + Len(t)
      /\ \A i \in 1 .. Len(s) + Len(t) : (s \o t)[i] = IF i <= Len(s) THEN s[i] ELSE t[i - Len(s)]
  BY ConcatProperties
<1>2. Len(s) \in Nat /\ Len(t) \in Nat
  BY LenProperties
<1>3. \A i \in 1 .. Len(s) : s[i] \in Byte /\ (s \o t)[i] = s[i]
  BY <1>1, <1>2, ElementOfSeq
<1>4. /\ SubSeq(s \o t, 1, Len(s)) \in Seq(Byte)
      /\ Len(SubSeq(s \o t, 1, Len(s))) = IF 1 <= Len(s) THEN Len(s) - 1 + 1 ELSE 0
      /\ \A i \in 1 .. Len(s) - 1 + 1 : SubSeq(s \o t, 1, Len(s))[i] = (s \o t)[1 + i - 1]
  <2>1. \A i \in 1 .. Len(s) : (s \o t)[i] \in Byte
    BY <1>3
  <2> QED
    BY <1>2, <2>1, SubSeqProperties
<1>5. Len(SubSeq(s \o t, 1, Len(s))) = Len(s)
  BY <1>2, <1>4
<1>6. \A i \in 1 .. Len(s) : SubSeq(s \o t, 1, Len(s))[i] = s[i]
  BY <1>2, <1>3, <1>4
<1> QED
  BY <1>1, <1>2, <1>4, <1>5, <1>6, SeqEqual

\* Sending is preserved by every step.
LEMMA SendingPreserved == ASSUME IInv, IInv', Sending, QuietHost, [Next]_vars PROVE Sending'
<1>1. sent \in Seq(Byte) /\ udr \in Seq(Byte) /\ sent \o udr \in Seq(Byte)
  BY Joining DEF IInv, TInv, HistoryType, QueueType
<1>2. written' = (sent' \o udr') \o Pending' /\ (udr' # << >> => tx_busy')
  <2>1. CASE WriteData
    <3>1. PICK d \in TxData : written' = Append(written, d) /\ script' = <<SEND_VIA_UART, d>>
      BY <2>1 DEF WriteData, Begin
    <3>2. op = "none" /\ op' = "write" /\ m_pc' = "idle" /\ status # 0
      BY <2>1 DEF WriteData, Begin
    <3>3. Pending = << >>
      BY <3>2 DEF Pending, Sending
    <3>4. Pending' = <<d>>
      BY <3>1, <3>2 DEF Pending
    <3>5. UNCHANGED <<sent, udr, tx_busy>>
      BY <2>1 DEF WriteData, Begin, uart
    <3>6. d \in Byte
      BY LinkAssumption
    <3> QED
      BY <1>1, <3>1, <3>3, <3>4, <3>5, <3>6, JoinWritten DEF Sending
  <2>2. CASE SendData
    <3>1. s_pc = "switch" /\ state = "EXPECTING_DATA_FOR_UART" /\ ~tx_busy /\ udr = << >>
      BY <2>2 DEF SendData, Sending
    <3>2. udr' = <<s_byte>> /\ tx_busy' /\ state' = "EXPECTING_REQUEST" /\ UNCHANGED <<written, sent>>
      BY <2>2 DEF SendData, history
    <3>3. InHand /\ HandByte = s_byte /\ ~InHand' /\ UNCHANGED <<m_pc, op, script>>
      BY <2>2, Finished DEF Finish, IInv, master
    <3>4. op = "write" => m_pc = "shifted" /\ Half
      BY <3>1, <3>3 DEF IInv, StateAgrees, HalfWritten, Sending
    <3>5. Pending = <<s_byte>>
      BY <3>1, <3>3, <3>4 DEF Pending
    <3>6. Pending' = << >>
      BY <3>2, <3>3, <3>4, SameShape DEF Pending
    <3>7. s_byte \in Byte
      BY <3>1 DEF IInv, TInv, SelectByte, Busy
    <3>8. sent \o << >> = sent /\ (sent \o <<s_byte>>) \o << >> = sent \o <<s_byte>>
      <4>1. <<s_byte>> \in Seq(Byte)
        BY <3>7
      <4>2. sent \o <<s_byte>> \in Seq(Byte)
        BY <1>1, <4>1, Joining
      <4> QED
        BY <1>1, <4>2, ConcatEmptySeq
    <3> QED
      BY <3>1, <3>2, <3>5, <3>6, <3>8 DEF Sending
  <2>3. CASE UartTransmit
    <3>1. Pending' = Pending
      BY <2>3, PendingKept DEF UartTransmit, WriteData, Begin, SendData, master
    <3>2. sent' = sent \o udr /\ udr' = << >> /\ written' = written
      BY <2>3 DEF UartTransmit
    <3>3. sent' \o udr' = sent \o udr
      BY <1>1, <3>2, ConcatEmptySeq
    <3> QED
      BY <3>1, <3>2, <3>3 DEF Sending
  <2>4. CASE ~WriteData /\ ~SendData /\ ~UartTransmit
    BY <2>4, PendingKept, SendFrame DEF Sending
  <2> QED
    BY <2>1, <2>2, <2>3, <2>4
<1> QED
  BY <1>2, NoNewWrite DEF Sending

-----------------------------------------------------------------------------

\* The inductive invariant of what the link is for.
DataInv == IInv /\ Asked /\ Answered /\ Reached /\ Receiving /\ Sending

\* It holds until the slave is late.
LEMMA DataInvariance == ASSUME QuietHost PROVE Spec => [](late \/ DataInv)
<1>1. Init => DataInv
  <2> SUFFICES ASSUME Init PROVE DataInv
    OBVIOUS
  <2>2. IInv /\ ~InHand
    BY InitIInv DEF Init, InHand, Busy
  <2>3. Asked /\ Answered
    BY <2>2 DEF Init, Asked, Answered
  <2>4. Reached
    BY <2>2 DEF Init, Reached, SelectInHand, CutOff, Target
  <2>5. Receiving
    <3>1. << >> \o << >> = << >>
      BY ConcatEmptySeq, EmptySeq
    <3> QED
      BY <3>1 DEF Init, Receiving
  <2>6. Sending
    <3>1. Pending = << >>
      BY DEF Init, Pending
    <3>2. << >> \o << >> = << >>
      BY ConcatEmptySeq, EmptySeq
    <3> QED
      BY <3>1, <3>2 DEF Init, Sending
  <2> QED
    BY <2>2, <2>3, <2>4, <2>5, <2>6 DEF DataInv
<1>2. DataInv /\ ~late' /\ [Next]_vars => DataInv'
  <2>1. SUFFICES ASSUME DataInv, ~late', [Next]_vars PROVE DataInv'
    OBVIOUS
  <2>2. IInv /\ IInv'
    BY <2>1, NextIInv DEF DataInv
  <2>3. Asked'
    BY <2>1, <2>2, AskedPreserved DEF DataInv
  <2>4. Answered'
    BY <2>1, <2>2, AnsweredPreserved DEF DataInv
  <2>5. Reached'
    BY <2>1, <2>2, ReachedPreserved DEF DataInv
  <2>6. Receiving'
    BY <2>1, <2>2, ReceivingPreserved DEF DataInv
  <2>7. Sending'
    BY <2>1, <2>2, SendingPreserved DEF DataInv
  <2> QED
    BY <2>2, <2>3, <2>4, <2>5, <2>6, <2>7 DEF DataInv
<1>3. (late \/ DataInv) /\ [Next]_vars => (late \/ DataInv)'
  BY <1>2, StaysLate
<1> QED
  BY <1>1, <1>3, PTL DEF Spec

\* When the 6502 exchanges a byte with the device it selected, no other device is
\* selected and at most one of slave and device drives MISO: the device, once the slave
\* is done with the selection, or, after the UART was used meanwhile, the slave.
THEOREM DeviceIsReached == ASSUME QuietHost PROVE Spec => []DeviceReached
<1>1. DataInv => DeviceReached
  <2>1. SUFFICES ASSUME DataInv, m_pc = "device"
                 PROVE  \/ cut /\ ss = {} /\ miso
                        \/ ~cut /\ ss = {cpu_dev} /\ ~miso
                        \/ ~cut /\ ss = {} /\ Handling
    BY DEF DeviceReached
  <2>2. Target = cpu_dev /\ (CutOff <=> cut) /\ cpu_dev # NO_SLAVE_SELECTED
    BY <2>1 DEF Target, CutOff, DataInv, Reached
  <2>3. CASE ~SelectInHand
    BY <2>1, <2>2, <2>3 DEF DataInv, Reached
  <2>4. CASE SelectInHand
    <3>1. ~cut /\ HandByte = SELECT_SLAVE_0 + cpu_dev
      BY <2>1, <2>2, <2>4 DEF DataInv, Reached
    <3>2. CASE s_pc = "remember"
      <4>1. s_byte = SELECT_SLAVE_0 + cpu_dev
        BY <2>1, <3>1, <3>2, AtWork DEF DataInv, Busy
      <4>2. cpu_dev \in 0 .. 7
        BY <2>1, DeviceNumbers DEF DataInv, IInv, TInv, MasterType
      <4>3. Wanted = cpu_dev
        BY <4>1, <4>2 DEF Wanted, SELECT_SLAVE_0
      <4> QED
        BY <2>1, <3>1, <3>2, <4>3 DEF DataInv, IInv, Lines, Selecting
    <3>3. CASE s_pc # "remember"
      <4>1. ss = {}
        BY <2>1, <2>4, <3>3 DEF DataInv, IInv, Lines
      <4>2. Handling
        BY <2>4 DEF SelectInHand, InHand, Busy, Handling
      <4> QED
        BY <3>1, <4>1, <4>2
    <3> QED
      BY <3>2, <3>3
  <2> QED
    BY <2>3, <2>4
<1>2. late => DeviceReached
  BY DEF DeviceReached
<1> QED
  BY <1>1, <1>2, DataInvariance, PTL

\* The second exchange of a status query or of a read fetches the answer to the first,
\* for all data and whatever the slave did before.
THEOREM AnswerIsFetched == ASSUME QuietHost PROVE Spec => []AnswerFetched
<1>1. late \/ DataInv => AnswerFetched
  BY WholeOrHalf DEF DataInv, IInv, Answered, AnswerFetched, Whole
<1> QED
  BY <1>1, DataInvariance, PTL

\* No byte that the slave accepted from the host is lost, repeated or reordered on its
\* way to the 6502.
THEOREM ReceivedInOrder == ASSUME QuietHost PROVE Spec => []RxConservation
<1>1. late \/ DataInv => RxConservation
  BY DEF DataInv, Receiving, RxConservation
<1> QED
  BY <1>1, DataInvariance, PTL

\* What leaves on the serial line is what the 6502 wrote, in order, and all of it once
\* the slave is at rest.
THEOREM WrittenInOrder == ASSUME QuietHost PROVE Spec => []TxConservation
<1>1. DataInv => TxConservation
  <2>1. SUFFICES ASSUME DataInv PROVE TxConservation
    OBVIOUS
  <2>2. sent \in Seq(Byte) /\ udr \in Seq(Byte) /\ written \in Seq(Byte)
    BY <2>1 DEF DataInv, IInv, TInv, HistoryType, QueueType
  <2>3. written = (sent \o udr) \o Pending
    BY <2>1 DEF DataInv, Sending
  <2>4. Pending \in Seq(Byte)
    <3>1. CASE op = "write" /\ ~(m_pc = "shifted" /\ Half)
      <4>1. script[Len(script)] \in Byte
        BY <2>1, <3>1, LastByte, WholeOrHalf DEF DataInv, IInv
      <4> QED
        BY <3>1, <4>1 DEF Pending
    <3>2. CASE InHand
      <4>1. HandByte \in Byte
        BY <2>1, <3>2 DEF DataInv, IInv, TInv, QueueType, SelectByte, InHand, HandByte
      <4> QED
        BY <3>1, <3>2, <4>1 DEF Pending
    <3>3. CASE ~InHand /\ ~(op = "write" /\ ~(m_pc = "shifted" /\ Half))
      BY <3>3 DEF Pending
    <3> QED
      BY <3>1, <3>2, <3>3
  <2>5. /\ udr \o Pending \in Seq(Byte)
        /\ written = sent \o (udr \o Pending)
    BY <2>2, <2>3, <2>4, Joining, ConcatAssociative
  <2>6. Len(sent) <= Len(written) /\ sent = SubSeq(written, 1, Len(sent))
    BY <2>2, <2>5, PrefixOfConcat
  <2>7. Quiet => written = sent \o udr
    <3>1. Quiet => Pending = << >>
      BY DEF Quiet, Pending, InHand, Busy
    <3>2. sent \o udr \in Seq(Byte)
      BY <2>2, Joining
    <3> QED
      BY <2>3, <3>1, <3>2, ConcatEmptySeq
  <2> QED
    BY <2>6, <2>7 DEF TxConservation
<1>2. late => TxConservation
  BY DEF TxConservation
<1> QED
  BY <1>1, <1>2, DataInvariance, PTL

-----------------------------------------------------------------------------
(* The queues of the slave are rings: RingQueue implements BoundedFifo *)

\* The masked index arithmetic written without a remainder: the next index
\* wraps to zero at the end of the buffer.
LEMMA NextIndex ==
  ASSUME NEW i \in Index
  PROVE  /\ next_Queue_index(i) = IF i + 1 = Size THEN 0 ELSE i + 1
         /\ next_Queue_index(i) \in Index
BY SizeAssumption DEF next_Queue_index, Index

\* queue_length() written without a remainder: the distance from tail to head.
LEMMA LengthValue ==
  ASSUME NEW h \in Index, NEW t \in Index
  PROVE  /\ length(h, t) = IF h >= t THEN h - t ELSE Size + h - t
         /\ length(h, t) \in 0 .. Size - 1
BY SizeAssumption DEF length, Index

\* The slot that holds the k-th oldest byte, written without a remainder.
LEMMA SlotValue ==
  ASSUME NEW t \in Index, NEW k \in 1 .. Size
  PROVE  /\ (t + k - 1) % Size = IF t + k - 1 < Size THEN t + k - 1
                                                     ELSE t + k - 1 - Size
         /\ (t + k - 1) % Size \in Index
BY SizeAssumption DEF Index

\* The queue is full exactly when its length is its capacity.
LEMMA FullIffCapacity ==
  ASSUME QueueTypeOK
  PROVE  IsFull <=> queue_length = queue_capacity
<1>1. head \in Index /\ tail \in Index
  BY DEF QueueTypeOK
<1>2. next_Queue_index(head) = IF head + 1 = Size THEN 0 ELSE head + 1
  BY <1>1, NextIndex
<1>3. queue_length = IF head >= tail THEN head - tail ELSE Size + head - tail
  BY <1>1, LengthValue DEF queue_length
<1> QED  BY <1>1, <1>2, <1>3, SizeAssumption DEF IsFull, queue_capacity, Index

\* The indices, the slots and the statistics of Queue.c stay in range in every
\* reachable state.
THEOREM QueueTypeCorrect == QueueSpec => []QueueTypeOK
<1>1. init_queue => QueueTypeOK
  <2>1. 0 \in Index /\ 0 \in 0 .. queue_capacity
    BY SizeAssumption DEF Index, queue_capacity
  <2> QED  BY <2>1 DEF init_queue, QueueTypeOK
<1>2. QueueTypeOK /\ [QueueNext]_queueVars => QueueTypeOK'
  <2> SUFFICES ASSUME QueueTypeOK, [QueueNext]_queueVars
               PROVE  QueueTypeOK'
    OBVIOUS
  <2>1. CASE dequeue
    <3>1. tail' \in Index /\ got' \in Data \union {NoData}
      BY <2>1, NextIndex DEF dequeue, QueueTypeOK
    <3> QED  BY <2>1, <3>1 DEF dequeue, QueueTypeOK, queue_capacity
  <2>2. ASSUME NEW d \in Data, enqueue(d)
        PROVE  QueueTypeOK'
    <3>1. CASE IsFull
      BY <2>2, <3>1 DEF enqueue, QueueTypeOK, queue_capacity
    <3>2. CASE ~IsFull
      <4>1. head' \in Index /\ tail' \in Index
        BY <2>2, <3>2, NextIndex DEF enqueue, QueueTypeOK
      <4>2. length(head', tail) \in 0 .. queue_capacity
        BY <4>1, LengthValue DEF QueueTypeOK, queue_capacity
      <4>3. max_length' \in 0 .. queue_capacity
        BY <2>2, <3>2, <4>2 DEF enqueue, QueueTypeOK
      <4>4. data' \in [Index -> Data]
        BY <2>2, <3>2 DEF enqueue, QueueTypeOK
      <4> QED  BY <2>2, <3>2, <4>1, <4>3, <4>4 DEF enqueue, QueueTypeOK, queue_capacity
    <3> QED  BY <3>1, <3>2
  <2>3. CASE UNCHANGED queueVars
    BY <2>3 DEF queueVars, QueueTypeOK, Index, queue_capacity
  <2> QED  BY <2>1, <2>2, <2>3 DEF QueueNext
<1> QED  BY <1>1, <1>2, PTL DEF QueueSpec

-----------------------------------------------------------------------------

\* What the refinement mapping reads off a buffer is a sequence of bytes of
\* the length that queue_length() computes.
LEMMA ContentsOf ==
  ASSUME NEW h \in Index, NEW t \in Index, NEW a \in [Index -> Data]
  PROVE  /\ cells(h, t, a) \in Seq(Data)
         /\ Len(cells(h, t, a)) = length(h, t)
         /\ length(h, t) \in 0 .. Size - 1
<1>1. length(h, t) \in 0 .. Size - 1
  BY LengthValue
<1>2. \A k \in 1 .. length(h, t) : a[(t + k - 1) % Size] \in Data
  <2> TAKE k \in 1 .. length(h, t)
  <2>1. k \in 1 .. Size  BY <1>1, SizeAssumption
  <2> QED  BY <2>1, SlotValue
<1>3. cells(h, t, a) \in [1 .. length(h, t) -> Data]
  BY <1>2 DEF cells
<1> QED  BY <1>1, <1>3, SizeAssumption

\* The same for the ring itself.
LEMMA ContentsType ==
  ASSUME QueueTypeOK
  PROVE  /\ Contents \in Seq(Data)
         /\ Len(Contents) = queue_length
         /\ queue_length \in 0 .. Size - 1
BY ContentsOf DEF QueueTypeOK, Contents, queue_length

\* Storing a byte at the head and advancing the head appends it.
LEMMA EnqueueAppends ==
  ASSUME QueueTypeOK, QueueTypeOK', NEW d \in Data, enqueue(d), ~IsFull
  PROVE  /\ Contents' = Append(Contents, d)
         /\ queue_length' = queue_length + 1
<1>1. /\ data' = [data EXCEPT ![head] = d]
      /\ head' = next_Queue_index(head)
      /\ tail' = tail
  BY DEF enqueue
<1>2. /\ head \in Index /\ tail \in Index /\ head' \in Index
      /\ data \in [Index -> Data] /\ data' \in [Index -> Data]
  BY <1>1 DEF QueueTypeOK
<1>3. queue_length = IF head >= tail THEN head - tail ELSE Size + head - tail
  BY <1>2, LengthValue DEF queue_length
<1>4. /\ queue_length' = queue_length + 1
      /\ queue_length' \in 1 .. Size - 1
      /\ queue_length \in 0 .. Size - 1
  <2>1. queue_length' = IF head' >= tail THEN head' - tail ELSE Size + head' - tail
    BY <1>1, <1>2, LengthValue DEF queue_length
  <2>2. head' = IF head + 1 = Size THEN 0 ELSE head + 1
    BY <1>1, <1>2, NextIndex
  <2>3. head' # tail
    BY <1>1 DEF IsFull
  <2> QED  BY <1>2, <1>3, <2>1, <2>2, <2>3, SizeAssumption DEF Index
<1>5. Len(Contents') = queue_length' /\ Contents' \in Seq(Data)
  BY <1>1, <1>2, ContentsOf DEF Contents, queue_length
<1>6. Len(Contents) = queue_length /\ Contents \in Seq(Data)
  BY <1>2, ContentsOf DEF Contents, queue_length
<1>7. ASSUME NEW k \in 1 .. queue_length'
      PROVE  Contents'[k] = Append(Contents, d)[k]
  <2>1. k \in 1 .. Size
    BY <1>4, <1>7, SizeAssumption
  <2>2. Contents'[k] = data'[(tail + k - 1) % Size]
    BY <1>1, <1>7 DEF Contents, cells, queue_length
  <2>3. (tail + k - 1) % Size = IF tail + k - 1 < Size THEN tail + k - 1
                                                ELSE tail + k - 1 - Size
    BY <1>2, <2>1, SlotValue
  <2>4. CASE k = queue_length + 1
    <3>1. (tail + k - 1) % Size = head
      BY <1>2, <1>3, <2>3, <2>4, SizeAssumption DEF Index
    <3> QED  BY <1>1, <1>2, <1>6, <2>2, <2>4, <3>1
  <2>5. CASE k # queue_length + 1
    <3>1. k \in 1 .. queue_length
      BY <1>4, <1>7, <2>5, SizeAssumption
    <3>2. (tail + k - 1) % Size # head
      BY <1>2, <1>3, <1>4, <2>3, <3>1, SizeAssumption DEF Index
    <3>3. Contents[k] = data[(tail + k - 1) % Size]
      BY <3>1 DEF Contents, cells, queue_length
    <3>4. (tail + k - 1) % Size \in Index
      BY <1>2, <2>1, SlotValue
    <3> QED  BY <1>1, <1>2, <1>6, <2>2, <3>1, <3>2, <3>3, <3>4
  <2> QED  BY <2>4, <2>5
<1>8. Append(Contents, d) \in Seq(Data) /\ Len(Append(Contents, d)) = queue_length'
  BY <1>4, <1>6
<1> QED  BY <1>4, <1>5, <1>7, <1>8, SeqEqual

\* Advancing the tail of a ring that is not empty removes the oldest byte,
\* the one the tail pointed at.
LEMMA DequeueRemoves ==
  ASSUME QueueTypeOK, QueueTypeOK', dequeue, tail # head
  PROVE  /\ Contents # << >>
         /\ Head(Contents) = data[tail]
         /\ Contents' = Tail(Contents)
<1>1. /\ data' = data
      /\ head' = head
      /\ tail' = next_Queue_index(tail)
  BY DEF dequeue
<1>2. /\ head \in Index /\ tail \in Index /\ tail' \in Index
      /\ data \in [Index -> Data]
  BY DEF QueueTypeOK
<1>3. queue_length # 0 /\ queue_length' = queue_length - 1
  <2>1. queue_length = IF head >= tail THEN head - tail ELSE Size + head - tail
    BY <1>2, LengthValue DEF queue_length
  <2>2. queue_length' = IF head >= tail' THEN head - tail' ELSE Size + head - tail'
    BY <1>1, <1>2, LengthValue DEF queue_length
  <2>3. tail' = IF tail + 1 = Size THEN 0 ELSE tail + 1
    BY <1>1, <1>2, NextIndex
  <2> QED  BY <1>2, <2>1, <2>2, <2>3, SizeAssumption DEF Index
<1>4. Len(Contents') = queue_length' /\ Contents' \in Seq(Data)
  BY <1>1, <1>2, ContentsOf DEF Contents, queue_length
<1>5. Len(Contents) = queue_length /\ Contents \in Seq(Data)
  BY ContentsType
<1>6. queue_length \in 1 .. Size - 1
  BY <1>2, <1>3, LengthValue DEF queue_length
<1>7. Contents # << >>
  BY <1>5, <1>6
<1>8. Head(Contents) = data[tail]
  <2>1. Contents[1] = data[(tail + 1 - 1) % Size]
    BY <1>6 DEF Contents, cells, queue_length
  <2>2. (tail + 1 - 1) % Size = tail
    BY <1>2, SlotValue, SizeAssumption DEF Index
  <2> QED  BY <1>5, <1>7, <2>1, <2>2
<1>9. ASSUME NEW k \in 1 .. queue_length'
      PROVE  Contents'[k] = Tail(Contents)[k]
  <2>1. k + 1 \in 1 .. queue_length /\ k \in 1 .. Size /\ k + 1 \in 1 .. Size
    BY <1>3, <1>6, <1>9, SizeAssumption
  <2>2. Contents'[k] = data[(tail' + k - 1) % Size]
    BY <1>1, <1>9 DEF Contents, cells, queue_length
  <2>3. Contents[k + 1] = data[(tail + (k + 1) - 1) % Size]
    BY <2>1 DEF Contents, cells, queue_length
  <2>4. (tail' + k - 1) % Size = (tail + (k + 1) - 1) % Size
    <3>1. tail' = IF tail + 1 = Size THEN 0 ELSE tail + 1
      BY <1>1, <1>2, NextIndex
    <3>2. (tail' + k - 1) % Size = IF tail' + k - 1 < Size THEN tail' + k - 1
                                                   ELSE tail' + k - 1 - Size
      BY <1>2, <2>1, SlotValue
    <3>3. (tail + (k + 1) - 1) % Size
            = IF tail + (k + 1) - 1 < Size THEN tail + (k + 1) - 1
                                           ELSE tail + (k + 1) - 1 - Size
      BY <1>2, <2>1, SlotValue
    <3> QED
      BY <1>2, <1>3, <1>6, <2>1, <3>1, <3>2, <3>3, SizeAssumption DEF Index
  <2>5. Tail(Contents)[k] = Contents[k + 1]
    BY <1>3, <1>5, <1>6, <1>9
  <2> QED  BY <2>2, <2>3, <2>4, <2>5
<1>10. Tail(Contents) \in Seq(Data) /\ Len(Tail(Contents)) = queue_length'
  BY <1>3, <1>5, <1>6, <1>7
<1> QED  BY <1>4, <1>7, <1>8, <1>9, <1>10, SeqEqual

-----------------------------------------------------------------------------

\* Every behaviour of the ring, seen through Contents, is one of the abstract
\* queue: the arithmetic of Queue.c never loses, repeats or reorders a byte,
\* drops one only when Size - 1 are queued, and says so in overflowed.
THEOREM QueueRefines == QueueSpec => ImplementsFifo
<1>1. init_queue => Abstract!Init
  <2> SUFFICES ASSUME init_queue
               PROVE  Abstract!Init
    OBVIOUS
  <2>1. queue_length = 0
    BY SizeAssumption DEF init_queue, queue_length, length
  <2>2. Contents = << >>
    BY <2>1 DEF Contents, cells, queue_length
  <2> QED  BY <2>2 DEF init_queue, Abstract!Init
<1>2. QueueTypeOK /\ QueueTypeOK' /\ [QueueNext]_queueVars => [Abstract!Next]_(Abstract!vars)
  <2> SUFFICES ASSUME QueueTypeOK, QueueTypeOK', [QueueNext]_queueVars
               PROVE  [Abstract!Next]_(Abstract!vars)
    OBVIOUS
  <2>1. ASSUME NEW d \in Data, enqueue(d)
        PROVE  Abstract!Put(d)
    <3>1. CASE IsFull
      <4>1. Len(Contents) = queue_capacity
        BY <3>1, FullIffCapacity, ContentsType
      <4>2. Contents' = Contents
        BY <2>1, <3>1 DEF enqueue, Contents
      <4> QED  BY <2>1, <3>1, <4>1, <4>2 DEF enqueue, Abstract!Put
    <3>2. CASE ~IsFull
      <4>1. Contents' = Append(Contents, d) /\ queue_length' = queue_length + 1
        BY <2>1, <3>2, EnqueueAppends
      <4>2. Len(Contents) = queue_length /\ queue_length < queue_capacity
        BY <3>2, FullIffCapacity, ContentsType, SizeAssumption DEF queue_capacity
      <4>3. max_length' = IF max_length < Len(Contents) + 1
                            THEN Len(Contents) + 1 ELSE max_length
        BY <2>1, <3>2, <4>1, <4>2 DEF enqueue, queue_length
      <4>4. UNCHANGED <<overflowed, got>>
        BY <2>1, <3>2 DEF enqueue
      <4> QED  BY <4>1, <4>2, <4>3, <4>4 DEF Abstract!Put
    <3> QED  BY <3>1, <3>2
  <2>2. ASSUME dequeue
        PROVE  Abstract!Get
    <3>1. overflowed' = FALSE /\ max_length' = max_length
      BY <2>2 DEF dequeue
    <3>2. CASE tail = head
      <4>1. queue_length = 0
        BY <3>2, LengthValue DEF queue_length, QueueTypeOK, Index
      <4>2. Contents = << >>
        BY <4>1, ContentsType
      <4>3. Contents' = Contents /\ got' = NoData
        BY <2>2, <3>2 DEF dequeue, Contents
      <4> QED  BY <3>1, <4>2, <4>3 DEF Abstract!Get
    <3>3. CASE tail # head
      <4>1. got' = data[tail]
        BY <2>2, <3>3 DEF dequeue
      <4> QED  BY <2>2, <3>1, <3>3, <4>1, DequeueRemoves DEF Abstract!Get
    <3> QED  BY <3>2, <3>3
  <2>3. CASE UNCHANGED queueVars
    BY <2>3 DEF queueVars, Abstract!vars, Contents
  <2> QED  BY <2>1, <2>2, <2>3 DEF QueueNext, Abstract!Next
<1> QED  BY <1>1, <1>2, QueueTypeCorrect, PTL DEF QueueSpec, ImplementsFifo, Abstract!Spec

=============================================================================
