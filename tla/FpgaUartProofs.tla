--------------------------- MODULE FpgaUartProofs ---------------------------
(***************************************************************************)
(* Proofs about FpgaUart: type correctness; that its transmitter, with     *)
(* UART_putc, is a mailbox, for every divisor, every number of data bits,  *)
(* every host and every relation of the clocks; and that its receiver      *)
(* decodes what a host types that keeps time (HostKeepsTime), and with     *)
(* UART_getc is a mailbox too, if host and program take turns.             *)
(*                                                                         *)
(* The receiver's invariant says in which phase of a frame host and        *)
(* receiver are (InPhase).  While a frame is under way it relates their    *)
(* counters: the ticks since the host began and the ticks until the next   *)
(* sample add up to a number that depends only on the bits sampled.        *)
(***************************************************************************)
EXTENDS FpgaUart, SequenceTheorems, TLAPS

\* What the UART puts on the bus in this cycle fits what the program asked for.
ReadFits ==
  /\ phi2 = HIGH /\ access = "recv" => read \in Byte

\* The levels heard are those of the frame so far.
HeardFits ==
  /\ heard \in Seq(BOOLEAN)
  /\ tx_state = "TRANSMITTING" =>
       /\ Len(heard) = frame_bit_id
       /\ \A i \in 1 .. frame_bit_id : heard[i] = frame[i - 1]

\* A bit that is being counted down to.
CountsDown == rx_state # "START" => rx_countdown >= 1

\* The program calls UART_putc with a byte, and UART_getc without.
ArgFits == pc \in {"putc", "send"} => arg \in Byte

\* The host drives levels.
HostFits == h_frame \in Seq(BOOLEAN)

\* Each access belongs to the place in the driver that makes it.
AccessFits ==
  /\ access = "status" => pc \in {"getc", "putc"}
  /\ access = "recv" => pc = "fetch"
  /\ access = "send" => pc = "send"

TInv == TypeOK /\ AccessFits /\ ReadFits /\ HeardFits /\ CountsDown /\ ArgFits /\ HostFits

\* What holds of the constants.
LEMMA Sizes ==
  /\ DataBits \in Nat \ {0} /\ LastBit \in Nat /\ LastBit = DataBits + 2
  /\ CLK_DIVISOR \in 1 .. CounterSize - 1 /\ FirstSample \in 1 .. CounterSize - 1
  /\ CLK_DIVISOR >= 1 /\ FirstSample >= 1
  /\ CounterSize = 4096
  /\ Payload \subseteq Byte
<1>1. DataBits \in Nat \ {0} /\ LastBit \in Nat /\ LastBit = DataBits + 2
  BY UartAssumption DEF LastBit
<1>2. CLK_DIVISOR \div 2 \in Nat
  BY UartAssumption
<1>3. /\ CLK_DIVISOR \in 1 .. CounterSize - 1 /\ FirstSample \in 1 .. CounterSize - 1
      /\ CLK_DIVISOR >= 1 /\ FirstSample >= 1
      /\ CounterSize = 4096
  BY <1>2, UartAssumption DEF CounterSize, FirstSample
<1>4. Payload \subseteq Byte
  BY UartAssumption DEF Byte, Bit
<1> QED  BY <1>1, <1>3, <1>4

\* framed() makes a frame, and its bits 1 to DataBits are the data.
LEMMA Framed ==
  ASSUME NEW d \in Byte
  PROVE  /\ framed(d) \in Frame
         /\ [i \in Bit |-> framed(d)[i + 1]] = d
<1>1. ASSUME NEW i \in 0 .. LastBit
      PROVE  (IF i \in 1 .. DataBits THEN d[i - 1] ELSE i > DataBits) \in BOOLEAN
  <2>1. CASE i \in 1 .. DataBits
    <3>1. i - 1 \in Bit  BY <2>1, Sizes DEF Bit
    <3> QED  BY <2>1, <3>1 DEF Byte
  <2>2. CASE i \notin 1 .. DataBits
    <3>1. (i > DataBits) \in BOOLEAN  BY Sizes
    <3> QED  BY <2>2, <3>1
  <2> QED  BY <2>1, <2>2
<1>2. framed(d) \in Frame
  BY <1>1 DEF framed, Frame
<1>3. ASSUME NEW i \in Bit
      PROVE  framed(d)[i + 1] = d[i]
  <2>1. i + 1 \in 0 .. LastBit /\ i + 1 \in 1 .. DataBits /\ (i + 1) - 1 = i
    BY Sizes DEF Bit
  <2> QED  BY <2>1 DEF framed
<1>4. [i \in Bit |-> framed(d)[i + 1]] = [i \in Bit |-> d[i]]
  BY <1>3
<1> QED  BY <1>2, <1>4 DEF Byte

\* The receiver sees a level.
LEMMA LineLevel == ASSUME HostFits PROVE rxd_line \in BOOLEAN
<1>1. CASE h_frame = << >>
  BY <1>1 DEF rxd_line, HIGH
<1>2. CASE h_frame # << >>
  <2>1. h_frame[1] \in BOOLEAN  BY <1>2 DEF HostFits
  <2> QED  BY <1>2, <2>1 DEF rxd_line
<1> QED  BY <1>1, <1>2

\* A tick keeps the flags within their types.
LEMMA FlagTypes ==
  ASSUME TypeOK, NEW v \in BOOLEAN, NEW e \in BOOLEAN, NEW o \in BOOLEAN, Flags(v, e, o)
  PROVE  rx_data_valid' \in BOOLEAN /\ frame_error' \in BOOLEAN /\ data_overrun' \in BOOLEAN
BY DEF TypeOK, Flags, Flag

\* A step of the receiver keeps its registers within their types.
LEMMA ReceiveTypes ==
  ASSUME TInv, Receive
  PROVE  /\ rx_state' \in {"START", "DATA", "STOP"} /\ rx_countdown' \in 0 .. CounterSize - 1
         /\ bit_cursor' \in Bit /\ rx_data' \in Byte
         /\ rx_data_valid' \in BOOLEAN /\ frame_error' \in BOOLEAN /\ data_overrun' \in BOOLEAN
         /\ last_acknowledge' \in BOOLEAN /\ waiting' \in BOOLEAN
         /\ CountsDown'
<1>1. TypeOK /\ CountsDown /\ rxd_line \in BOOLEAN
  BY LineLevel DEF TInv
<1>2. last_acknowledge' \in BOOLEAN
  BY <1>1 DEF TypeOK, Receive
<1>3. 0 \in Bit
  BY Sizes DEF Bit
<1>4. rx_data_valid \in BOOLEAN /\ waiting \in BOOLEAN /\ rx_countdown \in 0 .. CounterSize - 1
  BY <1>1 DEF TypeOK
<1>5. CASE ExpectStart
  <2>1. rx_data_valid' \in BOOLEAN /\ frame_error' \in BOOLEAN /\ data_overrun' \in BOOLEAN
    BY <1>1, <1>5, FlagTypes DEF ExpectStart
  <2>2. rx_data' \in Byte /\ waiting' \in BOOLEAN
    BY <1>1, <1>5 DEF ExpectStart, TypeOK
  <2>3. CASE rxd_line = LOW
    <3>1. rx_state' = "DATA" /\ bit_cursor' = 0
      BY <1>5, <2>3 DEF ExpectStart, LOW, HIGH
    <3>2. rx_countdown' = FirstSample
      BY <1>5, <2>3 DEF ExpectStart, LOW, HIGH
    <3>3. rx_countdown' \in 0 .. CounterSize - 1
      BY <3>2, Sizes
    <3>4. rx_countdown' >= 1
      BY <3>2, Sizes
    <3> QED  BY <1>2, <1>3, <2>1, <2>2, <3>1, <3>3, <3>4 DEF CountsDown
  <2>4. CASE rxd_line = HIGH
    BY <1>1, <1>2, <1>5, <2>1, <2>2, <2>4 DEF ExpectStart, CountsDown, LOW, HIGH, TypeOK
  <2> QED  BY <1>5, <2>3, <2>4 DEF ExpectStart
<1>6. CASE BetweenSamples
  <2>1. rx_data_valid' \in BOOLEAN /\ frame_error' \in BOOLEAN /\ data_overrun' \in BOOLEAN
    BY <1>1, <1>6, FlagTypes DEF BetweenSamples
  <2>2. rx_state # "START" /\ rx_countdown >= 1 /\ rx_countdown # 1
        /\ rx_countdown' = rx_countdown - 1
    BY <1>1, <1>6 DEF BetweenSamples, CountsDown
  <2>3. rx_countdown' \in 0 .. CounterSize - 1 /\ rx_countdown' >= 1
    BY <1>4, <2>2, Sizes
  <2> QED  BY <1>1, <1>2, <1>6, <2>1, <2>3 DEF BetweenSamples, CountsDown, TypeOK
<1>7. CASE SampleData
  <2>1. rx_data_valid' \in BOOLEAN /\ frame_error' \in BOOLEAN /\ data_overrun' \in BOOLEAN
    BY <1>1, <1>4, <1>7, FlagTypes DEF SampleData
  <2>2. bit_cursor \in Bit /\ rx_data \in Byte
    BY <1>1 DEF TypeOK
  <2>3. bit_cursor' \in Bit
    <3>1. bit_cursor' = (bit_cursor + 1) % DataBits
      BY <1>7 DEF SampleData
    <3> QED  BY <2>2, <3>1, Sizes DEF Bit
  <2>4. rx_data' \in Byte
    <3>1. rx_data' = [rx_data EXCEPT ![bit_cursor] = rxd_line]
      BY <1>7 DEF SampleData
    <3> QED  BY <1>1, <2>2, <3>1 DEF Byte
  <2>5. rx_state' \in {"DATA", "STOP"} /\ rx_countdown' = CLK_DIVISOR /\ waiting' = waiting
    BY <1>7 DEF SampleData
  <2>6. rx_countdown' \in 0 .. CounterSize - 1 /\ rx_countdown' >= 1
    <3>1. rx_countdown' = CLK_DIVISOR  BY <2>5
    <3>2. rx_countdown' \in 0 .. CounterSize - 1  BY <3>1, Sizes
    <3>3. rx_countdown' >= 1  BY <3>1, Sizes
    <3> QED  BY <3>2, <3>3
  <2> QED  BY <1>2, <1>4, <2>1, <2>3, <2>4, <2>5, <2>6 DEF CountsDown
<1>8. CASE SampleStop
  <2>1. rx_data_valid' \in BOOLEAN /\ frame_error' \in BOOLEAN /\ data_overrun' \in BOOLEAN
    <3>1. (~rxd_line) \in BOOLEAN  OBVIOUS
    <3> QED  BY <1>1, <1>8, <3>1, FlagTypes DEF SampleStop
  <2>2. rx_state' = "START" /\ rx_countdown' = 0 /\ waiting' \in BOOLEAN
        /\ bit_cursor' = bit_cursor /\ rx_data' = rx_data
    BY <1>8 DEF SampleStop
  <2>3. rx_countdown' \in 0 .. CounterSize - 1
    BY <2>2, Sizes
  <2> QED  BY <1>1, <1>2, <2>1, <2>2, <2>3 DEF CountsDown, TypeOK
<1> QED  BY <1>5, <1>6, <1>7, <1>8 DEF Receive

\* A step of the transmitter keeps its registers within their types, and what
\* it completes is the frame's data.
LEMMA TransmitTypes ==
  ASSUME TInv, Transmit
  PROVE  /\ tx_state' \in {"IDLE", "TRANSMITTING", "COMPLETE"}
         /\ frame' \in Frame /\ frame_bit_id' \in 0 .. LastBit
         /\ tx_countdown' \in 0 .. CounterSize - 1
         /\ HeardFits'
         /\ sent' \in Byte \union {Nothing}
         /\ EndFrame => sent' = [i \in Bit |-> frame[i + 1]]
<1>1. /\ tx_data \in Byte /\ tx_state \in {"IDLE", "TRANSMITTING", "COMPLETE"}
      /\ frame \in Frame /\ frame_bit_id \in 0 .. LastBit
      /\ tx_countdown \in 0 .. CounterSize - 1 /\ sent \in Byte \union {Nothing}
      /\ HeardFits
  BY DEF TInv, TypeOK
<1>2. CASE StartFrame
  <2>1. /\ tx_state = "IDLE" /\ tx_state' = "TRANSMITTING" /\ frame' = framed(tx_data)
        /\ frame_bit_id' = 0 /\ tx_countdown' = CLK_DIVISOR /\ heard' = << >> /\ sent' = sent
    BY <1>2 DEF StartFrame
  <2>2. frame' \in Frame
    BY <1>1, <2>1, Framed
  <2>3. HeardFits'
    BY <2>1 DEF HeardFits
  <2>4. frame_bit_id' \in 0 .. LastBit /\ tx_countdown' \in 0 .. CounterSize - 1
    BY <2>1, Sizes
  <2> QED  BY <1>1, <2>1, <2>2, <2>3, <2>4 DEF EndFrame
<1>3. CASE WithinBit
  <2>1. tx_state = "TRANSMITTING" /\ tx_countdown # 0 /\ tx_countdown' = tx_countdown - 1
        /\ UNCHANGED <<frame, frame_bit_id, tx_state, heard, sent>>
    BY <1>3 DEF WithinBit
  <2>2. tx_countdown' \in 0 .. CounterSize - 1
    BY <1>1, <2>1, Sizes
  <2> QED  BY <1>1, <2>1, <2>2 DEF EndFrame, HeardFits
<1>4. CASE NextBit
  <2>1. /\ tx_state = "TRANSMITTING" /\ tx_state' = tx_state /\ frame_bit_id # LastBit
        /\ frame_bit_id' = frame_bit_id + 1 /\ tx_countdown' = CLK_DIVISOR
        /\ heard' = Append(heard, frame[frame_bit_id]) /\ frame' = frame /\ sent' = sent
    BY <1>4 DEF NextBit, txd_line
  <2>a. LastBit \in Nat /\ CLK_DIVISOR \in 0 .. CounterSize - 1
    BY Sizes
  <2>2. frame_bit_id' \in 0 .. LastBit /\ tx_countdown' \in 0 .. CounterSize - 1
    BY <1>1, <2>1, <2>a
  <2>3. frame[frame_bit_id] \in BOOLEAN
    BY <1>1 DEF Frame
  <2>4. /\ heard \in Seq(BOOLEAN) /\ Len(heard) = frame_bit_id /\ frame_bit_id \in Nat
        /\ \A i \in 1 .. frame_bit_id : heard[i] = frame[i - 1]
    BY <1>1, <2>1, <2>a DEF HeardFits
  <2>5. heard' \in Seq(BOOLEAN) /\ Len(heard') = frame_bit_id'
    BY <2>1, <2>3, <2>4
  <2>6. ASSUME NEW i \in 1 .. frame_bit_id'
        PROVE  heard'[i] = frame'[i - 1]
    <3>1. CASE i = frame_bit_id + 1
      <4>1. heard'[i] = frame[frame_bit_id] /\ i - 1 = frame_bit_id
        BY <2>1, <2>4, <3>1
      <4> QED  BY <2>1, <4>1
    <3>2. CASE i # frame_bit_id + 1
      <4>1. i \in 1 .. frame_bit_id
        BY <2>1, <2>4, <3>2
      <4>2. heard'[i] = heard[i]
        BY <2>1, <2>4, <4>1
      <4> QED  BY <2>1, <2>4, <4>1, <4>2
    <3> QED  BY <3>1, <3>2
  <2>7. HeardFits'
    BY <2>5, <2>6 DEF HeardFits
  <2> QED  BY <1>1, <2>1, <2>2, <2>7, <1>4 DEF EndFrame, NextBit
<1>5. CASE EndFrame
  <2>1. /\ tx_state = "TRANSMITTING" /\ frame_bit_id = LastBit /\ tx_state' = "COMPLETE"
        /\ tx_countdown' = CounterSize - 1 /\ sent' = [i \in Bit |-> heard[i + 2]]
        /\ heard' = << >> /\ frame' = frame /\ frame_bit_id' = frame_bit_id
    BY <1>5 DEF EndFrame
  <2>2. ASSUME NEW i \in Bit
        PROVE  heard[i + 2] = frame[i + 1] /\ frame[i + 1] \in BOOLEAN
    <3>1. i + 2 \in 1 .. LastBit /\ (i + 2) - 1 = i + 1 /\ i + 1 \in 0 .. LastBit
      BY Sizes DEF Bit
    <3>2. \A j \in 1 .. LastBit : heard[j] = frame[j - 1]
      BY <1>1, <2>1 DEF HeardFits
    <3> QED  BY <1>1, <3>1, <3>2 DEF Frame
  <2>3. sent' = [i \in Bit |-> frame[i + 1]]
    BY <2>1, <2>2
  <2>4. sent' \in Byte
    BY <2>2, <2>3 DEF Byte
  <2>5. tx_countdown' \in 0 .. CounterSize - 1
    BY <2>1, Sizes
  <2>6. HeardFits'
    BY <2>1 DEF HeardFits
  <2> QED  BY <1>1, <2>1, <2>3, <2>4, <2>5, <2>6
<1>6. CASE BecomeIdle \/ Rest
  <2>1. /\ tx_state # "TRANSMITTING" /\ tx_state' \in {"IDLE", "COMPLETE"}
        /\ UNCHANGED <<frame, frame_bit_id, tx_countdown, heard, sent>>
    BY <1>1, <1>6 DEF BecomeIdle, Rest, transmitter
  <2> QED  BY <1>1, <2>1 DEF EndFrame, HeardFits
<1> QED  BY <1>2, <1>3, <1>4, <1>5, <1>6 DEF Transmit

\* What the host puts on the line are levels.
LEMMA HostTypes ==
  ASSUME TInv, Drive \/ Silent \/ \E b \in Payload, bit \in HostBit : Type(b, bit)
  PROVE  HostFits' /\ typed' \in Byte \union {Nothing}
<1>1. h_frame \in Seq(BOOLEAN) /\ typed \in Byte \union {Nothing}
  BY DEF TInv, HostFits, TypeOK
<1>2. CASE Drive
  <2>1. h_frame' \in Seq(BOOLEAN)
    BY <1>1, <1>2 DEF Drive
  <2> QED  BY <1>1, <1>2, <2>1 DEF Drive, HostFits
<1>3. CASE Silent
  BY <1>1, <1>3 DEF Silent, HostFits, host
<1>4. ASSUME NEW b \in Payload, NEW bit \in HostBit, Type(b, bit)
      PROVE  HostFits' /\ typed' \in Byte \union {Nothing}
  <2> DEFINE bits == [i \in 1 .. DataBits |-> b[i - 1]]
  <2>1. b \in Byte
    BY Sizes
  <2>2. bits \in Seq(BOOLEAN)
    <3>1. ASSUME NEW i \in 1 .. DataBits
          PROVE  b[i - 1] \in BOOLEAN
      <4>1. i - 1 \in Bit  BY Sizes DEF Bit
      <4> QED  BY <2>1, <4>1 DEF Byte
    <3> QED  BY <3>1, Sizes
  <2>3. <<LOW>> \in Seq(BOOLEAN) /\ <<HIGH>> \in Seq(BOOLEAN)
    BY DEF LOW, HIGH
  <2>4. h_frame' = <<LOW>> \o bits \o <<HIGH>> /\ typed' = b
    BY <1>4 DEF Type
  <2> HIDE DEF bits
  <2>5. <<LOW>> \o bits \in Seq(BOOLEAN)
    BY <2>2, <2>3
  <2>6. h_frame' \in Seq(BOOLEAN)
    BY <2>3, <2>4, <2>5
  <2> QED  BY <2>1, <2>4, <2>6 DEF HostFits
<1> QED  BY <1>2, <1>3, <1>4

-----------------------------------------------------------------------------

\* The type invariant and its strengthening hold initially.
LEMMA TypesInit == Init => TInv
<1> SUFFICES ASSUME Init PROVE TInv
  OBVIOUS
<1>1. Zero \in Byte
  BY DEF Zero, Byte, LOW
<1>2. frame \in Frame /\ frame_bit_id \in 0 .. LastBit /\ bit_cursor \in Bit
  BY <1>1, Framed, Sizes DEF Init, Bit
<1>3. tx_countdown \in 0 .. CounterSize - 1 /\ rx_countdown \in 0 .. CounterSize - 1
  <2>1. CLK_DIVISOR \in 0 .. CounterSize - 1
    BY Sizes
  <2> QED  BY <2>1 DEF Init
<1>4. TypeOK
  BY <1>1, <1>2, <1>3 DEF Init, TypeOK, LOW, HIGH
<1> QED  BY <1>4 DEF Init, TInv, AccessFits, ReadFits, HeardFits, CountsDown, ArgFits, HostFits, LOW, HIGH

\* A tick preserves it.
LEMMA TypesTick == ASSUME TInv, Tick PROVE TInv'
<1>1. /\ edge' = TRUE /\ Transmit /\ Receive
      /\ UNCHANGED <<bus, holding, acknowledge, got>>
      /\ Drive \/ Silent \/ \E b \in Payload, bit \in HostBit : Type(b, bit)
  BY DEF Tick
<1>2. HostFits' /\ typed' \in Byte \union {Nothing}
  BY <1>1, HostTypes
<1>3. TypeOK'
  BY <1>1, <1>2, ReceiveTypes, TransmitTypes DEF TInv, TypeOK, bus, holding
<1>4. HeardFits' /\ CountsDown'
  BY <1>1, ReceiveTypes, TransmitTypes
<1>5. ReadFits' /\ ArgFits' /\ AccessFits'
  BY <1>1 DEF TInv, ReadFits, ArgFits, AccessFits, bus
<1> QED  BY <1>2, <1>3, <1>4, <1>5 DEF TInv

\* A rise of PHI2 preserves it.
LEMMA TypesRise == ASSUME TInv, Rise PROVE TInv'
<1>1. /\ edge' = FALSE /\ phi2' = HIGH /\ acknowledge' \in BOOLEAN
      /\ UNCHANGED <<pc, arg, access, transmitter, holding, receiver, host, history>>
  BY DEF TInv, TypeOK, Rise
<1>2. TypeOK'
  <2>1. phi2' \in BOOLEAN /\ edge' \in BOOLEAN
    BY <1>1 DEF HIGH
  <2>2. UNCHANGED <<pc, arg, access, transmitter, holding, receiver, heard, sent, fetched>>
    BY <1>1 DEF history
  <2> QED  BY <1>1, <2>1, <2>2 DEF TInv, TypeOK, transmitter, holding, receiver, fetched
<1>3. ReadFits'
  BY <1>1 DEF TInv, TypeOK, ReadFits, Rise
<1>4. HeardFits' /\ CountsDown' /\ ArgFits' /\ HostFits' /\ AccessFits'
  BY <1>1 DEF TInv, AccessFits, HeardFits, CountsDown, ArgFits, HostFits, transmitter, receiver, host, history
<1> QED  BY <1>2, <1>3, <1>4 DEF TInv

\* A fall of PHI2 preserves it.
LEMMA TypesFall == ASSUME TInv, Fall PROVE TInv'
<1>1. /\ edge' = FALSE /\ phi2 = HIGH /\ phi2' = LOW /\ Written /\ NextAccess
      /\ UNCHANGED <<transmitter, receiver, acknowledge, host, heard, sent>>
  BY DEF Fall
<1>2. /\ pc' \in {"main", "getc", "fetch", "putc", "send"}
      /\ arg' \in Byte \union {Nothing}
      /\ got' \in Byte \union {Nothing} /\ waiting' \in BOOLEAN
      /\ typed' \in Byte \union {Nothing}
      /\ ArgFits'
  <2>1. /\ pc \in {"main", "getc", "fetch", "putc", "send"}
        /\ arg \in Byte \union {Nothing}
        /\ got \in Byte \union {Nothing} /\ waiting \in BOOLEAN
        /\ typed \in Byte \union {Nothing}
        /\ ArgFits
    BY DEF TInv, TypeOK
  <2>2. CASE GetcStatus
    BY <2>1, <2>2 DEF GetcStatus, ArgFits, fetched
  <2>3. CASE Fetch
    <3>1. read \in Byte
      BY <1>1, <2>3 DEF Fetch, TInv, ReadFits
    <3> QED  BY <2>1, <2>3, <3>1 DEF Fetch, ArgFits
  <2>4. CASE PutcStatus
    BY <2>1, <2>4 DEF PutcStatus, ArgFits, fetched
  <2>5. CASE PutcSent
    BY <2>1, <2>5 DEF PutcSent, ArgFits, fetched
  <2>6. CASE CallGetc
    BY <2>1, <2>6 DEF CallGetc, ArgFits, fetched
  <2>7. CASE CallPutc
    BY <2>1, <2>7, Sizes DEF CallPutc, ArgFits, fetched
  <2>8. CASE OtherCycle
    BY <2>1, <2>8 DEF OtherCycle, ArgFits, fetched
  <2> QED  BY <2>2, <2>3, <2>4, <2>5, <2>6, <2>7, <2>8 DEF Fall
<1>3. access' \in {"other", "status", "recv", "send"}
  BY <1>1 DEF NextAccess
<1>4. tx_data' \in Byte /\ tx_data_ready' \in BOOLEAN
  <2>1. tx_data \in Byte /\ tx_data_ready \in BOOLEAN
    BY DEF TInv, TypeOK
  <2>2. access = "send" => arg \in Byte
    BY DEF TInv, AccessFits, ArgFits
  <2> QED  BY <1>1, <2>1, <2>2 DEF Written
<1>5. TypeOK'
  BY <1>1, <1>2, <1>3, <1>4 DEF TInv, TypeOK, transmitter, receiver, LOW, HIGH
<1>6. ReadFits' /\ AccessFits'
  BY <1>1 DEF ReadFits, NextAccess, AccessFits, LOW, HIGH
<1>7. HeardFits' /\ CountsDown' /\ HostFits'
  BY <1>1 DEF TInv, HeardFits, CountsDown, HostFits, transmitter, receiver, host
<1> QED  BY <1>2, <1>5, <1>6, <1>7 DEF TInv

\* Every step preserves it.
LEMMA TypesStep == TInv /\ [Next]_vars => TInv'
<1> SUFFICES ASSUME TInv, [Next]_vars PROVE TInv'
  OBVIOUS
<1>1. CASE UNCHANGED vars
  BY <1>1 DEF TInv, TypeOK, AccessFits, ReadFits, HeardFits, CountsDown, ArgFits, HostFits, vars,
              bus, transmitter, holding, receiver, host, history, fetched
<1> QED  BY <1>1, TypesTick, TypesRise, TypesFall DEF Next

\* Type correctness: no counter over- or underflows its 12 bits, no index leaves
\* its frame, and what the driver takes for a byte is one.
THEOREM TypeCorrect == Spec => []TypeOK
<1>1. TInv => TypeOK
  BY DEF TInv
<1> QED  BY <1>1, TypesInit, TypesStep, PTL DEF Spec

-----------------------------------------------------------------------------
(* The transmitter and UART_putc *)

\* What tx_data_ready, set by PHI2, says about tx_state, moved by clk, and what
\* the program, which read it some cycles ago, may still rely on.  COMPLETE with
\* tx_data_ready lasts no longer than from a fall of PHI2 to the next tick.
Handshake ==
  /\ tx_data_ready => tx_state # "TRANSMITTING"
  /\ tx_data_ready /\ tx_state = "COMPLETE" => ~edge /\ phi2 = LOW
  /\ pc = "send" => tx_data_ready
  /\ pc = "putc" /\ access = "status" /\ phi2 = HIGH /\ read.tx_data_ready => tx_data_ready

\* Initially.
LEMMA HandshakeInit == Init => Handshake
BY DEF Init, Handshake

\* Each step preserves it.
LEMMA HandshakeStep == TInv /\ Handshake /\ [Next]_vars => Handshake'
<1> SUFFICES ASSUME TInv, Handshake, [Next]_vars PROVE Handshake'
  OBVIOUS
<1>1. CASE Tick
  <2>1. UNCHANGED <<phi2, pc, access, read, tx_data_ready>>
    BY <1>1 DEF Tick, bus, holding
  <2>2. tx_data_ready => tx_state' = "IDLE"
    <3> SUFFICES ASSUME tx_data_ready PROVE tx_state' = "IDLE"
      OBVIOUS
    <3>1. tx_state \in {"IDLE", "COMPLETE"}
      BY DEF Handshake, TInv, TypeOK
    <3>2. BecomeIdle \/ Rest
      BY <1>1, <3>1 DEF Tick, Transmit, StartFrame, WithinBit, NextBit, EndFrame
    <3> QED  BY <3>2 DEF BecomeIdle, Rest, transmitter
  <2> QED  BY <2>1, <2>2 DEF Handshake
<1>2. CASE Rise
  <2>1. edge /\ UNCHANGED <<pc, access, tx_data_ready, tx_state>>
    BY <1>2 DEF Rise, transmitter, holding
  <2>2. access = "status" => read'.tx_data_ready = tx_data_ready
    BY <1>2 DEF Rise, status_register
  <2> QED  BY <2>1, <2>2 DEF Handshake
<1>3. CASE Fall
  <2>1. /\ phi2 = HIGH /\ phi2' = LOW /\ edge' = FALSE /\ tx_state' = tx_state
        /\ tx_data_ready' = (tx_state = "COMPLETE" \/ (tx_data_ready /\ access # "send"))
    BY <1>3 DEF Fall, Written, transmitter
  <2>2. pc' = "send" => tx_data_ready /\ access # "send"
    <3> SUFFICES ASSUME pc' = "send" PROVE tx_data_ready /\ access # "send"
      OBVIOUS
    <3>1. PutcStatus \/ OtherCycle
      BY <1>3 DEF Fall, GetcStatus, Fetch, PutcSent, CallGetc, CallPutc
    <3>2. CASE PutcStatus
      BY <2>1, <3>2 DEF PutcStatus, Handshake
    <3>3. CASE OtherCycle
      BY <3>3 DEF OtherCycle, Handshake
    <3> QED  BY <3>1, <3>2, <3>3
  <2>3. tx_data_ready' => tx_state' # "TRANSMITTING"
    BY <2>1 DEF Handshake
  <2> QED  BY <2>1, <2>2, <2>3 DEF Handshake, LOW, HIGH
<1>4. CASE UNCHANGED vars
  BY <1>4 DEF Handshake, vars, bus, transmitter, holding
<1> QED  BY <1>1, <1>2, <1>3, <1>4 DEF Next

\* A write finds the transmitter idle and its mailbox empty, and fills it.
LEMMA WriteIsPut ==
  ASSUME TInv, Handshake, Fall, access = "send"
  PROVE  OutBox = << >> /\ OutBox' = <<arg>> /\ arg \in Byte
<1>1. phi2 = HIGH /\ pc = "send" /\ tx_data_ready /\ arg \in Byte
  BY DEF Fall, TInv, AccessFits, ArgFits, Handshake
<1>2. tx_state = "IDLE"
  BY <1>1 DEF Handshake, TInv, TypeOK, LOW, HIGH
<1>3. tx_state' = "IDLE" /\ tx_data' = arg /\ ~tx_data_ready'
  BY <1>2 DEF Fall, Written, transmitter
<1> QED  BY <1>1, <1>2, <1>3 DEF OutBox

\* At a tick the mailbox is emptied, into sent, or left as it is.
LEMMA TickIsTake ==
  ASSUME TInv, Handshake, Tick
  PROVE  \/ OutBox # << >> /\ sent' = OutBox[1] /\ OutBox' = << >>
         \/ UNCHANGED <<OutBox, sent>>
<1>1. Transmit /\ UNCHANGED <<tx_data, tx_data_ready>>
  BY DEF Tick, holding
<1>2. CASE StartFrame
  <2>1. tx_state = "IDLE" /\ ~tx_data_ready /\ tx_state' = "TRANSMITTING"
        /\ frame' = framed(tx_data) /\ sent' = sent
    BY <1>2 DEF StartFrame
  <2>2. [i \in Bit |-> framed(tx_data)[i + 1]] = tx_data
    BY Framed DEF TInv, TypeOK
  <2>3. OutBox = <<tx_data>>
    BY <2>1 DEF OutBox
  <2>4. OutBox' = <<[i \in Bit |-> frame'[i + 1]]>>
    BY <2>1 DEF OutBox
  <2> QED  BY <2>1, <2>2, <2>3, <2>4
<1>3. CASE WithinBit \/ NextBit
  <2>1. tx_state = "TRANSMITTING" /\ UNCHANGED <<tx_state, frame, sent>>
    BY <1>3 DEF WithinBit, NextBit
  <2> QED  BY <2>1 DEF OutBox
<1>4. CASE EndFrame
  <2>1. tx_state = "TRANSMITTING" /\ tx_state' = "COMPLETE"
    BY <1>4 DEF EndFrame
  <2>2. OutBox = <<[i \in Bit |-> frame[i + 1]]>> /\ OutBox' = << >>
    BY <2>1 DEF OutBox
  <2>3. sent' = [i \in Bit |-> frame[i + 1]]
    BY <1>1, <1>4, TransmitTypes
  <2> QED  BY <2>2, <2>3
<1>5. CASE BecomeIdle
  <2>1. tx_state = "COMPLETE" /\ tx_data_ready /\ tx_state' = "IDLE" /\ sent' = sent
    BY <1>5 DEF BecomeIdle
  <2> QED  BY <1>1, <2>1 DEF OutBox
<1>6. CASE Rest
  BY <1>1, <1>6 DEF Rest, OutBox, transmitter
<1> QED  BY <1>1, <1>2, <1>3, <1>4, <1>5, <1>6 DEF Transmit

\* A fall of PHI2 that is no write leaves the mailbox alone.
LEMMA OtherFall ==
  ASSUME TInv, Fall, access # "send"
  PROVE  UNCHANGED <<OutBox, sent>>
<1>1. /\ tx_data' = tx_data /\ UNCHANGED <<tx_state, frame, sent>>
      /\ tx_state # "COMPLETE" => tx_data_ready' = tx_data_ready
  BY DEF Fall, Written, transmitter, TInv, TypeOK
<1> QED  BY <1>1 DEF OutBox

\* Each byte that UART_putc writes leaves on the line once, as it was written,
\* and is not written over another, whatever PHI2 does relative to clk and
\* whatever the host sends meanwhile.
THEOREM TransmitterRefines == Spec => TransmitterIsMailbox
<1>1. Init => Outbox!Init
  BY DEF Init, Outbox!Init, OutBox
<1>2. TInv /\ Handshake /\ [Next]_vars => [Outbox!Next]_(Outbox!vars)
  <2> SUFFICES ASSUME TInv, Handshake, [Next]_vars PROVE [Outbox!Next]_(Outbox!vars)
    OBVIOUS
  <2>1. CASE Tick
    BY <2>1, TickIsTake DEF Outbox!Next, Outbox!Take, Outbox!vars
  <2>2. CASE Rise
    <3>1. UNCHANGED <<tx_state, tx_data, tx_data_ready, frame, sent>>
      BY <2>2 DEF Rise, transmitter, holding, history
    <3> QED  BY <3>1 DEF Outbox!vars, OutBox
  <2>3. CASE Fall /\ access = "send"
    <3>1. sent' = sent
      BY <2>3 DEF Fall
    <3>2. OutBox = << >> /\ OutBox' = <<arg>> /\ arg \in Byte
      BY <2>3, WriteIsPut
    <3> QED  BY <3>1, <3>2 DEF Outbox!Next, Outbox!Put
  <2>4. CASE Fall /\ access # "send"
    BY <2>4, OtherFall DEF Outbox!vars
  <2>5. CASE UNCHANGED vars
    BY <2>5 DEF vars, transmitter, holding, history, Outbox!vars, OutBox
  <2> QED  BY <2>1, <2>2, <2>3, <2>4, <2>5 DEF Next
<1> QED  BY <1>1, <1>2, TypesInit, TypesStep, HandshakeInit, HandshakeStep, PTL
         DEF Spec, TransmitterIsMailbox, Outbox!Spec

\* No byte that UART_putc writes is refused: the write never falls into the
\* cycle that ends a transmission.
THEOREM WritesAreKept == Spec => PutcAccepted
<1>1. TInv /\ Handshake => [Fall /\ access = "send" => OutBox' = <<arg>>]_vars
  BY WriteIsPut
<1> QED  BY <1>1, TypesInit, TypesStep, HandshakeInit, HandshakeStep, PTL
         DEF Spec, PutcAccepted

-----------------------------------------------------------------------------
(* The receiver, UART_getc and the host *)

\* The bits of the host are so long that the receiver samples each where it belongs:
\* the START bit and j data bits are over, the next one is not.  With the divisor of
\* the source, 1250, that is so for 1188 to 1319 ticks; a bit of this UART's own
\* transmitter has 1251.
HostKeepsTime ==
  \A H \in HostBit, j \in 0 .. DataBits :
    /\ (j + 1) * H <= FirstSample + j * CLK_DIVISOR
    /\ FirstSample + j * CLK_DIVISOR < (j + 2) * H

\* The k-th level of the host's frame for b, the number of the one on the line, and the
\* ticks since the frame began.
Level(b, k) == IF k = 0 THEN LOW ELSE IF k \in 1 .. DataBits THEN b[k - 1] ELSE HIGH
OnLine == LastBit - Len(h_frame)
Elapsed == OnLine * h_bit + h_bit - h_timer

\* The host keeps time, and in a frame whose byte is not received yet it is the rest of
\* the frame of `typed` that it is still to drive.
Keeping == h_bit \in HostBit /\ h_timer \in 1 .. h_bit
RestOfFrame ==
  /\ typed \in Byte
  /\ Len(h_frame) \in 1 .. LastBit
  /\ \A m \in 1 .. Len(h_frame) : h_frame[m] = Level(typed, OnLine + m - 1)

\* The data bits sampled so far.
Samples == IF rx_state = "DATA" THEN bit_cursor ELSE DataBits

Quiet    == rx_state = "START" /\ h_frame = << >>
Begun    == /\ rx_state = "START" /\ Keeping /\ RestOfFrame /\ ~waiting
            /\ Len(h_frame) = LastBit /\ h_timer = h_bit
Underway == /\ rx_state # "START" /\ Keeping /\ RestOfFrame /\ ~waiting
            /\ Elapsed + rx_countdown = FirstSample + 1 + Samples * CLK_DIVISOR
            /\ \A i \in Bit : i < Samples => rx_data[i] = typed[i]
Received == rx_state = "START" /\ Keeping /\ Len(h_frame) = 1 /\ h_frame[1] = HIGH

InPhase == Quiet \/ Begun \/ Underway \/ Received

\* The status read that UART_getc makes has seen that a byte waits.
Seen == pc = "getc" /\ access = "status" /\ phi2 = HIGH /\ read.rx_data_valid

\* A byte that is reported waits, and is reported in one place; what acknowledges the
\* flag clears it before PHI2 has another edge.
Handed ==
  /\ rx_data_valid => waiting
  /\ edge => ~Acknowledged
  /\ Seen \/ pc = "fetch" => waiting /\ ~(rx_data_valid /\ ~Acknowledged)
  /\ access = "recv" /\ phi2 = HIGH => read = rx_data

\* If they take turns, the host is silent while the program is in UART_putc.
Turns == HalfDuplex => (InPutc => h_frame = << >> /\ ~waiting) /\ (waiting => Reported)

RInv == InPhase /\ Decoded /\ Handed /\ Turns

\* One more, in products.
LEMMA OneMore ==
  ASSUME NEW m \in Nat, NEW n \in Nat
  PROVE  (m + 1) * n = m * n + n /\ (m + 2) * n = m * n + 2 * n /\ m * n \in Nat /\ 0 * n = 0
OBVIOUS

\* Products are monotonic.
LEMMA Monotonic ==
  ASSUME NEW m \in Nat, NEW n \in Nat, NEW p \in Nat, m <= p
  PROVE  m * n <= p * n
<1>1. p - m \in Nat /\ p = m + (p - m)
  OBVIOUS
<1>2. p * n = m * n + (p - m) * n
  BY <1>1
<1>3. (p - m) * n \in Nat /\ m * n \in Nat /\ p * n \in Nat
  BY <1>1
<1> QED  BY <1>2, <1>3

\* Numbers that the phases are about.
LEMMA Times ==
  ASSUME NEW H \in HostBit, NEW j \in 0 .. DataBits
  PROVE  H \in Nat \ {0} /\ j \in Nat /\ j * CLK_DIVISOR \in Nat /\ FirstSample \in Nat
BY UartAssumption, Sizes

\* When the receiver samples bit j, at the latest, the host is in that bit at the latest;
\* and at the earliest at the earliest.
LEMMA Place ==
  ASSUME HostKeepsTime, NEW H \in HostBit, NEW j \in 0 .. DataBits, NEW k \in Nat, NEW t \in 1 .. H
  PROVE  /\ k * H + H - t <= FirstSample + j * CLK_DIVISOR => k <= j + 1
         /\ FirstSample + j * CLK_DIVISOR <= k * H + H - t => j + 1 <= k
<1>1. H \in Nat \ {0} /\ j \in Nat /\ t \in Nat /\ 1 <= t /\ t <= H
  BY Times
<1>2. /\ (j + 1) * H <= FirstSample + j * CLK_DIVISOR
      /\ FirstSample + j * CLK_DIVISOR < (j + 2) * H
  BY DEF HostKeepsTime
<1>3. k * H \in Nat /\ (j + 1) * H \in Nat /\ (j + 2) * H \in Nat /\ (k + 1) * H = k * H + H
  BY <1>1, OneMore
<1>4. FirstSample + j * CLK_DIVISOR \in Nat
  BY Times
<1>5. ASSUME j + 2 <= k PROVE (j + 2) * H <= k * H
  BY <1>1, <1>5, Monotonic
<1>6. ASSUME k + 1 <= j + 1 PROVE (k + 1) * H <= (j + 1) * H
  BY <1>1, <1>6, Monotonic
<1>7. ASSUME k * H + H - t <= FirstSample + j * CLK_DIVISOR PROVE k <= j + 1
  <2>1. ~(j + 2 <= k)
    BY <1>1, <1>2, <1>3, <1>4, <1>5, <1>7
  <2> QED  BY <1>1, <2>1
<1>8. ASSUME FirstSample + j * CLK_DIVISOR <= k * H + H - t PROVE j + 1 <= k
  <2>1. ~(k + 1 <= j + 1)
    BY <1>1, <1>2, <1>3, <1>4, <1>6, <1>8
  <2> QED  BY <1>1, <2>1
<1> QED  BY <1>7, <1>8

\* The frame that the host begins with a byte.
LEMMA Typing ==
  ASSUME NEW b \in Payload, NEW bit \in HostBit, Type(b, bit)
  PROVE  /\ Keeping' /\ RestOfFrame' /\ Len(h_frame') = LastBit /\ h_timer' = h_bit'
         /\ h_frame = << >> /\ ~waiting /\ (HalfDuplex => ~InPutc)
<1> DEFINE bits == [i \in 1 .. DataBits |-> b[i - 1]]
<1>1. b \in Byte /\ DataBits \in Nat \ {0} /\ LastBit = DataBits + 2
  BY Sizes
<1>2. h_frame' = <<LOW>> \o bits \o <<HIGH>> /\ h_bit' = bit /\ h_timer' = bit /\ typed' = b
  BY DEF Type
<1>3. bits \in Seq(BOOLEAN) /\ Len(bits) = DataBits
  <2>1. ASSUME NEW i \in 1 .. DataBits PROVE b[i - 1] \in BOOLEAN
    <3>1. i - 1 \in Bit  BY Sizes DEF Bit
    <3> QED  BY <1>1, <3>1 DEF Byte
  <2> QED  BY <1>1, <2>1
<1>4. \A i \in 1 .. DataBits : bits[i] = b[i - 1]
  OBVIOUS
<1> HIDE DEF bits
<1>5. <<LOW>> \in Seq(BOOLEAN) /\ Len(<<LOW>>) = 1 /\ <<HIGH>> \in Seq(BOOLEAN) /\ Len(<<HIGH>>) = 1
  BY DEF LOW, HIGH
<1>6. /\ <<LOW>> \o bits \in Seq(BOOLEAN) /\ Len(<<LOW>> \o bits) = DataBits + 1
      /\ \A i \in 1 .. DataBits + 1 :
           (<<LOW>> \o bits)[i] = IF i <= 1 THEN <<LOW>>[i] ELSE bits[i - 1]
  BY <1>1, <1>3, <1>5, ConcatProperties
<1>7. /\ Len(h_frame') = LastBit
      /\ \A i \in 1 .. LastBit :
           h_frame'[i] = IF i <= DataBits + 1 THEN (<<LOW>> \o bits)[i] ELSE <<HIGH>>[i - (DataBits + 1)]
  BY <1>1, <1>2, <1>5, <1>6, ConcatProperties
<1>8. ASSUME NEW m \in 1 .. LastBit PROVE h_frame'[m] = Level(b, m - 1)
  <2>1. CASE m = 1
    <3>1. h_frame'[m] = <<LOW>>[1]
      BY <1>1, <1>6, <1>7, <2>1
    <3> QED  BY <2>1, <3>1 DEF Level
  <2>2. CASE m \in 2 .. DataBits + 1
    <3>1. m - 1 \in 1 .. DataBits /\ ~(m <= 1) /\ m <= DataBits + 1 /\ m - 1 # 0
      BY <1>1, <2>2
    <3>2. h_frame'[m] = bits[m - 1]
      BY <1>1, <1>6, <1>7, <2>2, <3>1
    <3>3. bits[m - 1] = b[(m - 1) - 1]
      BY <1>4, <3>1
    <3> QED  BY <3>1, <3>2, <3>3 DEF Level
  <2>3. CASE m = DataBits + 2
    <3>1. ~(m <= DataBits + 1) /\ m - (DataBits + 1) = 1 /\ m - 1 # 0 /\ m - 1 \notin 1 .. DataBits
      BY <1>1, <2>3
    <3>2. h_frame'[m] = <<HIGH>>[1]
      BY <1>7, <3>1
    <3> QED  BY <3>1, <3>2 DEF Level
  <2> QED  BY <1>1, <2>1, <2>2, <2>3
<1>9. OnLine' = 0
  BY <1>1, <1>7 DEF OnLine
<1>10. \A m \in 1 .. Len(h_frame') : h_frame'[m] = Level(typed', OnLine' + m - 1)
  <2> SUFFICES ASSUME NEW m \in 1 .. LastBit PROVE h_frame'[m] = Level(b, OnLine' + m - 1)
    BY <1>2, <1>7
  <2>1. OnLine' + m - 1 = m - 1
    BY <1>9
  <2> QED  BY <1>8, <2>1
<1>11. Len(h_frame') \in 1 .. LastBit
  BY <1>1, <1>7
<1>12. RestOfFrame'
  BY <1>1, <1>2, <1>10, <1>11 DEF RestOfFrame
<1>13. Keeping'
  BY <1>2, UartAssumption DEF Keeping
<1> QED  BY <1>2, <1>7, <1>12, <1>13 DEF Type, MayType

\* A tick of the host within a frame.
LEMMA Driving ==
  ASSUME TInv, Keeping, Len(h_frame) \in 1 .. LastBit, Drive
  PROVE  /\ Keeping' /\ h_bit' = h_bit /\ typed' = typed
         /\ Len(h_frame') \in {Len(h_frame), Len(h_frame) - 1}
         /\ h_frame' # h_frame => h_frame' = Tail(h_frame)
         /\ h_frame' = h_frame \/ Len(h_frame') = Len(h_frame) - 1
         /\ OnLine \in Nat /\ OnLine' \in Nat
         /\ Elapsed' = Elapsed + 1
<1>1. h_frame \in Seq(BOOLEAN) /\ Len(h_frame) \in Nat /\ LastBit \in Nat
  BY Sizes DEF TInv, HostFits
<1>2. h_bit \in HostBit /\ h_bit \in Nat \ {0} /\ h_timer \in 1 .. h_bit
  BY UartAssumption DEF Keeping
<1>3. h_bit' = h_bit /\ typed' = typed
  BY DEF Drive
<1>4. OnLine \in Nat
  BY <1>1 DEF OnLine
<1>5. CASE h_timer > 1 /\ h_timer' = h_timer - 1 /\ h_frame' = h_frame
  <2>1. Keeping' /\ OnLine' = OnLine
    BY <1>2, <1>3, <1>5 DEF Keeping, OnLine
  <2>2. OnLine * h_bit \in Nat
    BY <1>2, <1>4
  <2>3. Elapsed' = OnLine * h_bit + h_bit - (h_timer - 1)
    BY <1>3, <1>5, <2>1 DEF Elapsed
  <2>4. Elapsed = OnLine * h_bit + h_bit - h_timer
    BY DEF Elapsed
  <2>5. Elapsed' = Elapsed + 1
    BY <1>2, <2>2, <2>3, <2>4
  <2> QED  BY <1>3, <1>4, <1>5, <2>1, <2>5
<1>6. CASE h_timer = 1 /\ h_timer' = h_bit /\ h_frame' = Tail(h_frame)
  <2>1. Len(h_frame') = Len(h_frame) - 1
    <3>1. h_frame # << >>
      BY DEF Drive
    <3> QED  BY <1>1, <1>6, <3>1, HeadTailProperties
  <2>2. Keeping'
    BY <1>2, <1>3, <1>6 DEF Keeping
  <2>3. OnLine' = OnLine + 1
    BY <1>1, <2>1 DEF OnLine
  <2>4. OnLine * h_bit \in Nat /\ (OnLine + 1) * h_bit = OnLine * h_bit + h_bit
    BY <1>2, <1>4, OneMore
  <2>5. Elapsed' = (OnLine + 1) * h_bit + h_bit - h_bit
    BY <1>3, <1>6, <2>3 DEF Elapsed
  <2>6. Elapsed = OnLine * h_bit + h_bit - 1
    BY <1>6 DEF Elapsed
  <2>7. Elapsed' = Elapsed + 1
    BY <1>2, <2>4, <2>5, <2>6
  <2> QED  BY <1>3, <1>4, <1>6, <2>1, <2>2, <2>3, <2>7
<1> QED  BY <1>5, <1>6 DEF Drive

\* The rest of the frame after such a tick, while there is one.
LEMMA RestDriven ==
  ASSUME TInv, Keeping, RestOfFrame, Drive, Len(h_frame') >= 1
  PROVE  RestOfFrame'
<1>1. Len(h_frame) \in 1 .. LastBit /\ typed' = typed
  BY Driving DEF RestOfFrame
<1>2. CASE h_frame' = h_frame
  BY <1>1, <1>2 DEF RestOfFrame, OnLine
<1>3. CASE h_frame' = Tail(h_frame) /\ Len(h_frame') = Len(h_frame) - 1
  <2>1. h_frame \in Seq(BOOLEAN) /\ h_frame # << >> /\ LastBit \in Nat
    BY Sizes DEF TInv, HostFits, Drive
  <2>2. \A i \in 1 .. Len(h_frame') : h_frame'[i] = h_frame[i + 1]
    BY <1>3, <2>1, HeadTailProperties
  <2>3. OnLine' = OnLine + 1 /\ OnLine \in Nat
    BY <1>1, <1>3, <2>1 DEF OnLine
  <2>4. ASSUME NEW m \in 1 .. Len(h_frame') PROVE h_frame'[m] = Level(typed', OnLine' + m - 1)
    <3>1. m + 1 \in 1 .. Len(h_frame) /\ OnLine + (m + 1) - 1 = OnLine' + m - 1
      BY <1>1, <1>3, <2>3
    <3>2. h_frame[m + 1] = Level(typed, OnLine + (m + 1) - 1)
      BY <3>1 DEF RestOfFrame
    <3> QED  BY <1>1, <2>2, <3>1, <3>2
  <2>5. Len(h_frame') \in 1 .. LastBit
    BY <1>1, <1>3, <2>1
  <2> QED  BY <1>1, <2>4, <2>5 DEF RestOfFrame
<1> QED  BY <1>1, <1>2, <1>3, Driving

\* The level on the line while a frame is driven.
LEMMA LevelOnLine ==
  ASSUME TInv, RestOfFrame
  PROVE  h_frame # << >> /\ rxd_line = Level(typed, OnLine)
<1>1. Len(h_frame) \in 1 .. LastBit /\ h_frame \in Seq(BOOLEAN) /\ LastBit \in Nat
  BY Sizes DEF RestOfFrame, TInv, HostFits
<1>2. h_frame # << >>
  BY <1>1
<1>3. h_frame[1] = Level(typed, OnLine + 1 - 1)
  BY <1>1 DEF RestOfFrame
<1>4. OnLine + 1 - 1 = OnLine
  BY <1>1 DEF OnLine
<1> QED  BY <1>2, <1>3, <1>4 DEF rxd_line

\* Within a frame the host drives.
LEMMA HostDrives ==
  ASSUME Tick, h_frame # << >>
  PROVE  Drive
<1>1. Drive \/ Silent \/ \E b \in Payload, bit \in HostBit : Type(b, bit)
  BY DEF Tick
<1> QED  BY <1>1 DEF Silent, Type, MayType

\* What a tick may do to the flags and to what was received: a byte arrives when none
\* waits, or nothing does but that an acknowledgement clears the flag.
NothingReceived ==
  /\ waiting' = waiting
  /\ rx_data_valid' = (rx_data_valid /\ ~Acknowledged)
  /\ waiting => rx_data' = rx_data
ByteReceived ==
  /\ rx_data_valid' = TRUE
  /\ waiting' = TRUE /\ ~waiting
  /\ rx_data' = typed'
ErrorFree == ~frame_error' /\ ~data_overrun'

\* A tick between frames.
LEMMA TickQuiet ==
  ASSUME TInv, Decoded, Quiet, Tick
  PROVE  InPhase' /\ NothingReceived /\ ErrorFree
<1>1. rxd_line = HIGH /\ HIGH # LOW /\ ExpectStart
  BY DEF Quiet, rxd_line, Tick, Receive, BetweenSamples, SampleData, SampleStop, HIGH, LOW
<1>2. rx_state' = "START" /\ UNCHANGED <<rx_data, waiting>> /\ Flags(FALSE, FALSE, FALSE)
  BY <1>1 DEF ExpectStart, Quiet
<1>3. NothingReceived /\ ErrorFree
  <2>1. rx_data_valid' = (rx_data_valid /\ ~Acknowledged)
    BY <1>2 DEF Flags, Flag
  <2>2. ErrorFree
    BY <1>2 DEF Flags, Flag, ErrorFree, Decoded
  <2> QED  BY <1>2, <2>1, <2>2 DEF NothingReceived
<1>4. CASE Silent
  <2>1. Quiet'
    BY <1>2, <1>4 DEF Silent, host, Quiet
  <2> QED  BY <1>3, <2>1 DEF InPhase
<1>5. ASSUME NEW b \in Payload, NEW bit \in HostBit, Type(b, bit) PROVE Begun'
  BY <1>2, <1>5, Typing DEF Begun
<1> QED  BY <1>3, <1>4, <1>5 DEF Tick, Drive, Quiet, InPhase

\* The tick after the host has begun a frame.
LEMMA TickBegun ==
  ASSUME TInv, Decoded, Begun, Tick
  PROVE  InPhase' /\ NothingReceived /\ ErrorFree
<1>1. h_frame # << >> /\ rxd_line = Level(typed, OnLine)
  BY LevelOnLine DEF Begun
<1>2. OnLine = 0 /\ LastBit \in Nat /\ LastBit >= 3
  BY Sizes DEF Begun, OnLine
<1>3. rxd_line = LOW /\ LOW # HIGH
  BY <1>1, <1>2 DEF Level, LOW, HIGH
<1>4. ExpectStart
  BY DEF Begun, Tick, Receive, BetweenSamples, SampleData, SampleStop
<1>5. /\ rx_state' = "DATA" /\ bit_cursor' = 0 /\ rx_countdown' = FirstSample
      /\ UNCHANGED <<rx_data, waiting>> /\ Flags(FALSE, FALSE, FALSE)
  BY <1>3, <1>4 DEF ExpectStart
<1>6. NothingReceived /\ ErrorFree
  <2>1. rx_data_valid' = (rx_data_valid /\ ~Acknowledged)
    BY <1>5 DEF Flags, Flag
  <2>2. ErrorFree
    BY <1>5 DEF Flags, Flag, ErrorFree, Decoded
  <2> QED  BY <1>5, <2>1, <2>2 DEF NothingReceived
<1>7. Drive
  BY <1>1, HostDrives
<1>8. /\ Keeping' /\ Elapsed' = Elapsed + 1 /\ typed' = typed
      /\ Len(h_frame') \in {Len(h_frame), Len(h_frame) - 1}
  BY <1>7, Driving DEF Begun, RestOfFrame
<1>9. RestOfFrame'
  <2>1. Len(h_frame') >= 1
    BY <1>2, <1>8 DEF Begun
  <2> QED  BY <1>7, <2>1, RestDriven DEF Begun
<1>10. Elapsed = 0
  <2>1. h_bit \in Nat /\ h_timer = h_bit
    BY UartAssumption DEF Begun, Keeping
  <2>2. 0 * h_bit = 0
    BY <2>1
  <2> QED  BY <1>2, <2>1, <2>2 DEF Elapsed
<1>11. Elapsed' + rx_countdown' = FirstSample + 1 + Samples' * CLK_DIVISOR
  <2>1. Samples' = 0 /\ Elapsed' = 1
    BY <1>5, <1>8, <1>10 DEF Samples
  <2>2. 0 * CLK_DIVISOR = 0 /\ FirstSample \in Nat
    BY Sizes
  <2> QED  BY <1>5, <2>1, <2>2
<1>12. \A i \in Bit : i < Samples' => rx_data'[i] = typed'[i]
  <2>1. Samples' = 0
    BY <1>5 DEF Samples
  <2> QED  BY <2>1 DEF Bit
<1>13. ~waiting'
  BY <1>5 DEF Begun
<1>14. Underway'
  BY <1>5, <1>8, <1>9, <1>11, <1>12, <1>13 DEF Underway
<1> QED  BY <1>6, <1>14 DEF InPhase

\* A tick while the host drives the STOP bit of a frame that was received.
LEMMA TickReceived ==
  ASSUME TInv, Decoded, Received, Tick
  PROVE  InPhase' /\ NothingReceived /\ ErrorFree
<1>1. h_frame \in Seq(BOOLEAN) /\ Len(h_frame) = 1 /\ h_frame[1] = HIGH /\ LastBit \in Nat /\ LastBit >= 3
  BY Sizes DEF TInv, HostFits, Received
<1>2. h_frame # << >>
  BY <1>1
<1>3. rxd_line = HIGH /\ HIGH # LOW /\ ExpectStart
  BY <1>1, <1>2 DEF Received, rxd_line, Tick, Receive, BetweenSamples, SampleData, SampleStop, HIGH, LOW
<1>4. rx_state' = "START" /\ UNCHANGED <<rx_data, waiting>> /\ Flags(FALSE, FALSE, FALSE)
  BY <1>3 DEF ExpectStart, Received
<1>5. NothingReceived /\ ErrorFree
  <2>1. rx_data_valid' = (rx_data_valid /\ ~Acknowledged)
    BY <1>4 DEF Flags, Flag
  <2>2. ErrorFree
    BY <1>4 DEF Flags, Flag, ErrorFree, Decoded
  <2> QED  BY <1>4, <2>1, <2>2 DEF NothingReceived
<1>6. Drive
  BY <1>2, HostDrives
<1>7. Keeping' /\ (h_frame' = h_frame \/ (h_frame' = Tail(h_frame) /\ Len(h_frame') = Len(h_frame) - 1))
  BY <1>1, <1>6, Driving DEF Received
<1>8. CASE h_frame' = h_frame
  <2>1. Received'
    BY <1>4, <1>7, <1>8 DEF Received
  <2> QED  BY <1>5, <2>1 DEF InPhase
<1>9. CASE h_frame' = Tail(h_frame) /\ Len(h_frame') = Len(h_frame) - 1
  <2>1. h_frame' \in Seq(BOOLEAN) /\ Len(h_frame') = 0
    BY <1>1, <1>2, <1>9, HeadTailProperties
  <2>2. h_frame' = << >>
    BY <2>1, EmptySeq
  <2>3. Quiet'
    BY <1>4, <2>2 DEF Quiet
  <2> QED  BY <1>5, <2>3 DEF InPhase
<1> QED  BY <1>5, <1>7, <1>8, <1>9

\* A tick while a frame is received, as far as the host goes.
LEMMA FrameGoesOn ==
  ASSUME HostKeepsTime, TInv, Underway, Tick, NEW j \in 0 .. DataBits,
         Elapsed <= FirstSample + j * CLK_DIVISOR
  PROVE  /\ Keeping' /\ typed' = typed /\ Elapsed' = Elapsed + 1
         /\ Elapsed' <= FirstSample + j * CLK_DIVISOR => RestOfFrame'
         /\ OnLine \in Nat /\ OnLine <= j + 1
<1>1. h_frame # << >> /\ Len(h_frame) \in 1 .. LastBit /\ Keeping /\ RestOfFrame
  BY LevelOnLine DEF Underway, RestOfFrame
<1>2. Drive
  BY <1>1, HostDrives
<1>3. /\ Keeping' /\ typed' = typed /\ Elapsed' = Elapsed + 1 /\ OnLine \in Nat /\ OnLine' \in Nat
      /\ Len(h_frame') \in {Len(h_frame), Len(h_frame) - 1}
  BY <1>1, <1>2, Driving
<1>4. OnLine <= j + 1
  BY <1>1, <1>3, Place DEF Keeping, Elapsed
<1>5. ASSUME Elapsed' <= FirstSample + j * CLK_DIVISOR PROVE RestOfFrame'
  <2>1. OnLine' <= j + 1
    BY <1>3, <1>5, Place DEF Keeping, Elapsed
  <2>2. Len(h_frame') >= 1
    BY <1>1, <1>3, <2>1, Sizes DEF OnLine
  <2> QED  BY <1>1, <1>2, <2>2, RestDriven
<1> QED  BY <1>3, <1>4, <1>5

\* Where the host is when a bit is sampled.
LEMMA SampledLevel ==
  ASSUME HostKeepsTime, TInv, Underway, rx_countdown = 1
  PROVE  /\ Samples \in 0 .. DataBits
         /\ Elapsed = FirstSample + Samples * CLK_DIVISOR
         /\ OnLine = Samples + 1
         /\ rxd_line = Level(typed, Samples + 1)
<1>1. Samples \in 0 .. DataBits
  BY Sizes DEF Samples, TInv, TypeOK, Bit
<1>2. Elapsed = FirstSample + Samples * CLK_DIVISOR
  <2>1. Samples * CLK_DIVISOR \in Nat /\ FirstSample \in Nat
    BY <1>1, Sizes
  <2>2. Elapsed \in Int
    <3>1. OnLine \in Nat /\ h_bit \in Nat /\ h_timer \in Nat
      BY UartAssumption, Sizes DEF Underway, RestOfFrame, Keeping, OnLine
    <3> QED  BY <3>1 DEF Elapsed
  <2> QED  BY <2>1, <2>2 DEF Underway
<1>3. OnLine = Samples + 1
  <2>1. OnLine \in Nat
    BY Sizes DEF Underway, RestOfFrame, OnLine
  <2>2. OnLine <= Samples + 1 /\ Samples + 1 <= OnLine
    <3>1. h_bit \in HostBit /\ h_timer \in 1 .. h_bit
      BY DEF Underway, Keeping
    <3>2. OnLine * h_bit + h_bit - h_timer = FirstSample + Samples * CLK_DIVISOR
      BY <1>2 DEF Elapsed
    <3>3. FirstSample + Samples * CLK_DIVISOR \in Nat
      BY <1>1, Sizes, SMTT(30)
    <3> QED  BY <1>1, <2>1, <3>1, <3>2, <3>3, Place
  <2> QED  BY <1>1, <2>1, <2>2
<1> QED  BY <1>1, <1>2, <1>3, LevelOnLine DEF Underway

\* A tick between two samples.
LEMMA TickBetween ==
  ASSUME HostKeepsTime, TInv, Decoded, Underway, Tick, BetweenSamples
  PROVE  InPhase' /\ NothingReceived /\ ErrorFree
<1>1. /\ UNCHANGED <<rx_state, bit_cursor, rx_data, waiting>> /\ Flags(FALSE, FALSE, FALSE)
      /\ rx_countdown' = rx_countdown - 1 /\ rx_countdown # 1
  BY DEF BetweenSamples
<1>2. rx_countdown \in Nat /\ rx_countdown >= 2
  BY <1>1 DEF TInv, TypeOK, CountsDown, Underway
<1>3. NothingReceived /\ ErrorFree
  <2>1. rx_data_valid' = (rx_data_valid /\ ~Acknowledged)
    BY <1>1 DEF Flags, Flag
  <2>2. ErrorFree
    BY <1>1 DEF Flags, Flag, ErrorFree, Decoded
  <2> QED  BY <1>1, <2>1, <2>2 DEF NothingReceived
<1>4. Samples' = Samples /\ Samples \in 0 .. DataBits
  BY <1>1, Sizes DEF Samples, TInv, TypeOK, Bit
<1>5. Samples * CLK_DIVISOR \in Nat /\ FirstSample \in Nat
  BY <1>4, Sizes
<1>6. Elapsed \in Int
  <2>1. OnLine \in Nat /\ h_bit \in Nat /\ h_timer \in Nat
    BY UartAssumption, Sizes DEF Underway, RestOfFrame, Keeping, OnLine
  <2> QED  BY <2>1 DEF Elapsed
<1>7. Elapsed + rx_countdown = FirstSample + 1 + Samples * CLK_DIVISOR
  BY DEF Underway
<1>8. Elapsed + 1 <= FirstSample + Samples * CLK_DIVISOR
  BY <1>2, <1>5, <1>6, <1>7
<1>9. Keeping' /\ typed' = typed /\ Elapsed' = Elapsed + 1 /\ RestOfFrame'
  <2>1. Elapsed <= FirstSample + Samples * CLK_DIVISOR
    BY <1>5, <1>6, <1>8
  <2> QED  BY <1>4, <1>8, <2>1, FrameGoesOn
<1>10. Elapsed' + rx_countdown' = FirstSample + 1 + Samples' * CLK_DIVISOR
  <2>1. Elapsed' + rx_countdown' = Elapsed + rx_countdown
    BY <1>1, <1>2, <1>6, <1>9
  <2> QED  BY <1>4, <1>7, <2>1
<1>11. /\ rx_state' # "START" /\ ~waiting'
       /\ \A i \in Bit : i < Samples' => rx_data'[i] = typed'[i]
  BY <1>1, <1>4, <1>9 DEF Underway
<1>12. Underway'
  BY <1>9, <1>10, <1>11 DEF Underway
<1> QED  BY <1>3, <1>12 DEF InPhase

\* A tick at which a data bit is sampled.
LEMMA TickSample ==
  ASSUME HostKeepsTime, TInv, Decoded, Underway, Tick, SampleData, rx_data_valid => waiting
  PROVE  InPhase' /\ NothingReceived /\ ErrorFree
<1>1. /\ rx_state = "DATA" /\ rx_countdown = 1
      /\ rx_data' = [rx_data EXCEPT ![bit_cursor] = rxd_line]
      /\ bit_cursor' = (bit_cursor + 1) % DataBits
      /\ rx_state' = IF bit_cursor' = 0 THEN "STOP" ELSE "DATA"
      /\ rx_countdown' = CLK_DIVISOR
      /\ waiting' = waiting /\ ~waiting /\ ~rx_data_valid
  BY DEF SampleData, Underway
<1>2. NothingReceived /\ ErrorFree
  <2>1. Flags(FALSE, FALSE, rx_data_valid)
    BY DEF SampleData
  <2>2. rx_data_valid' = (rx_data_valid /\ ~Acknowledged)
    BY <2>1 DEF Flags, Flag
  <2>3. ErrorFree
    BY <1>1, <2>1 DEF Flags, Flag, ErrorFree, Decoded
  <2> QED  BY <1>1, <2>2, <2>3 DEF NothingReceived
<1>3. Samples = bit_cursor /\ bit_cursor \in Bit /\ bit_cursor + 1 \in 1 .. DataBits
  BY <1>1, Sizes DEF Samples, TInv, TypeOK, Bit
<1>4. /\ Elapsed = FirstSample + bit_cursor * CLK_DIVISOR
      /\ rxd_line = Level(typed, bit_cursor + 1)
  BY <1>1, <1>3, SampledLevel
<1>5. rxd_line = typed[bit_cursor]
  <2>1. bit_cursor + 1 # 0 /\ (bit_cursor + 1) - 1 = bit_cursor
    BY <1>3 DEF Bit
  <2> QED  BY <1>3, <1>4, <2>1 DEF Level
<1>6. Samples' = bit_cursor + 1
  <2>1. CASE bit_cursor + 1 < DataBits
    <3>1. bit_cursor' = bit_cursor + 1 /\ bit_cursor' # 0
      BY <1>1, <1>3, <2>1, Sizes DEF Bit
    <3> QED  BY <1>1, <3>1 DEF Samples
  <2>2. CASE bit_cursor + 1 = DataBits
    <3>1. bit_cursor' = 0
      BY <1>1, <2>2, Sizes
    <3> QED  BY <1>1, <2>2, <3>1 DEF Samples
  <2> QED  BY <1>3, <2>1, <2>2, Sizes
<1>7. /\ bit_cursor * CLK_DIVISOR \in Nat /\ FirstSample \in Nat /\ CLK_DIVISOR \in Nat
      /\ (bit_cursor + 1) * CLK_DIVISOR = bit_cursor * CLK_DIVISOR + CLK_DIVISOR
      /\ CLK_DIVISOR >= 1
  <2>1. CLK_DIVISOR \in Nat /\ bit_cursor \in Nat /\ FirstSample \in Nat /\ CLK_DIVISOR >= 1
    BY <1>3, Sizes DEF Bit
  <2> QED  BY <2>1, OneMore
<1>8. Keeping' /\ typed' = typed /\ Elapsed' = Elapsed + 1 /\ RestOfFrame'
  <2>1. /\ Elapsed <= FirstSample + (bit_cursor + 1) * CLK_DIVISOR
        /\ Elapsed + 1 <= FirstSample + (bit_cursor + 1) * CLK_DIVISOR
    BY <1>4, <1>7
  <2>2. bit_cursor + 1 \in 0 .. DataBits
    BY <1>3
  <2> QED  BY <2>1, <2>2, FrameGoesOn
<1>9. Elapsed' + rx_countdown' = FirstSample + 1 + Samples' * CLK_DIVISOR
  BY <1>1, <1>4, <1>6, <1>7, <1>8
<1>10. ASSUME NEW i \in Bit, i < Samples' PROVE rx_data'[i] = typed'[i]
  <2>1. rx_data \in Byte
    BY DEF TInv, TypeOK
  <2>2. CASE i = bit_cursor
    BY <1>1, <1>3, <1>5, <1>8, <2>1, <2>2 DEF Byte
  <2>3. CASE i # bit_cursor
    <3>1. i < Samples
      BY <1>3, <1>6, <1>10, <2>3 DEF Bit
    <3>2. rx_data'[i] = rx_data[i]
      BY <1>1, <2>1, <2>3 DEF Byte
    <3> QED  BY <1>8, <3>1, <3>2 DEF Underway
  <2> QED  BY <2>2, <2>3
<1>11. rx_state' # "START" /\ ~waiting'
  BY <1>1
<1>12. Underway'
  BY <1>8, <1>9, <1>10, <1>11 DEF Underway
<1> QED  BY <1>2, <1>12 DEF InPhase

\* The tick at which the STOP bit is sampled.
LEMMA TickStop ==
  ASSUME HostKeepsTime, TInv, Decoded, Underway, Tick, SampleStop
  PROVE  InPhase' /\ ByteReceived /\ ErrorFree
<1>1. /\ rx_state = "STOP" /\ rx_countdown = 1 /\ rx_state' = "START"
      /\ Flags(rxd_line, ~rxd_line, FALSE)
      /\ waiting' = (waiting \/ rxd_line) /\ rx_data' = rx_data /\ ~waiting
  BY DEF SampleStop, Underway
<1>2. Samples = DataBits
  BY <1>1 DEF Samples
<1>3. OnLine = DataBits + 1 /\ rxd_line = Level(typed, DataBits + 1)
  BY <1>1, <1>2, SampledLevel
<1>4. rxd_line = TRUE
  <2>1. DataBits + 1 # 0 /\ DataBits + 1 \notin 1 .. DataBits
    BY Sizes
  <2> QED  BY <1>3, <2>1 DEF Level, HIGH
<1>5. Len(h_frame) = 1 /\ h_frame # << >> /\ Keeping /\ RestOfFrame /\ LastBit \in Nat /\ 1 <= LastBit
  <2>1. h_frame # << >> /\ Keeping /\ RestOfFrame /\ Len(h_frame) \in Nat
    BY LevelOnLine DEF Underway, RestOfFrame
  <2>2. DataBits \in Nat /\ LastBit = DataBits + 2 /\ LastBit - Len(h_frame) = DataBits + 1
    BY <1>3, Sizes DEF OnLine
  <2> DEFINE n == Len(h_frame)
  <2>3. n \in Nat /\ LastBit - n = DataBits + 1
    BY <2>1, <2>2
  <2> HIDE DEF n
  <2>4. n = 1
    BY <2>2, <2>3
  <2> QED  BY <2>1, <2>2, <2>4 DEF n
<1>6. h_frame[1] = HIGH
  BY <1>4, <1>5 DEF rxd_line, HIGH
<1>7. Drive
  BY <1>5, HostDrives
<1>8. /\ Keeping' /\ typed' = typed
      /\ h_frame' = h_frame \/ (h_frame' = Tail(h_frame) /\ Len(h_frame') = Len(h_frame) - 1)
  BY <1>5, <1>7, Driving
<1>9. ByteReceived /\ ErrorFree
  <2>1. rx_data = typed
    <3>1. rx_data \in Byte /\ typed \in Byte
      BY <1>5 DEF TInv, TypeOK, RestOfFrame
    <3>2. \A i \in Bit : rx_data[i] = typed[i]
      BY <1>2, Sizes DEF Underway, Bit
    <3> QED  BY <3>1, <3>2 DEF Byte
  <2>2. rx_data_valid' = TRUE
    BY <1>1, <1>4 DEF Flags, Flag
  <2>3. ErrorFree
    BY <1>1, <1>4 DEF Flags, Flag, ErrorFree, Decoded
  <2> QED  BY <1>1, <1>4, <1>8, <2>1, <2>2, <2>3 DEF ByteReceived
<1>10. CASE h_frame' = h_frame
  <2>1. Received'
    BY <1>1, <1>5, <1>6, <1>8, <1>10 DEF Received
  <2> QED  BY <1>9, <2>1 DEF InPhase
<1>11. CASE h_frame' = Tail(h_frame) /\ Len(h_frame') = Len(h_frame) - 1
  <2>1. h_frame' \in Seq(BOOLEAN) /\ Len(h_frame') = 0
    BY <1>5, <1>11, HeadTailProperties DEF TInv, HostFits
  <2>2. h_frame' = << >>
    BY <2>1, EmptySeq
  <2>3. Quiet'
    BY <1>1, <2>2 DEF Quiet
  <2> QED  BY <1>9, <2>3 DEF InPhase
<1> QED  BY <1>8, <1>10, <1>11

\* A tick, in whatever phase.
LEMMA TickPhases ==
  ASSUME HostKeepsTime, TInv, InPhase, Decoded, Handed, Tick
  PROVE  InPhase' /\ (NothingReceived \/ ByteReceived) /\ ErrorFree
<1>1. ASSUME Underway PROVE BetweenSamples \/ SampleData \/ SampleStop
  BY <1>1 DEF Underway, Tick, Receive, ExpectStart
<1>2. rx_data_valid => waiting
  BY DEF Handed
<1> QED  BY <1>1, <1>2, TickQuiet, TickBegun, TickReceived, TickBetween, TickSample, TickStop DEF InPhase

-----------------------------------------------------------------------------

\* Nothing waits unless the receiver expects a START bit; what waits is in the registers.
LEMMA WaitingFits ==
  ASSUME TInv, InPhase, Decoded, waiting
  PROVE  rx_state = "START" /\ rx_data = typed
BY DEF InPhase, Quiet, Begun, Underway, Received, Decoded

\* The phases, and what was received, after an edge of PHI2.
LEMMA EdgePhases ==
  ASSUME TInv, InPhase, Decoded, Handed, Rise \/ Fall
  PROVE  InPhase' /\ Decoded'
<1>1. UNCHANGED <<receiver, host>>
  BY DEF Rise, Fall
<1>2. UNCHANGED <<rx_state, rx_countdown, bit_cursor, rx_data, frame_error, data_overrun,
                  h_frame, h_bit, h_timer>>
  BY <1>1 DEF receiver, host
<1>3. CASE UNCHANGED <<typed, waiting>>
  <2>1. UNCHANGED <<OnLine, Elapsed, Samples, Keeping, RestOfFrame>>
    BY <1>2, <1>3 DEF OnLine, Elapsed, Samples, Keeping, RestOfFrame
  <2>2. UNCHANGED <<Quiet, Begun, Underway, Received>>
    BY <1>2, <1>3, <2>1 DEF Quiet, Begun, Underway, Received
  <2> QED  BY <1>2, <1>3, <2>2 DEF InPhase, Decoded
<1>4. CASE pc = "fetch" /\ waiting' = FALSE
  <2>1. waiting
    BY <1>4 DEF Handed
  <2>2. Quiet \/ Received
    BY <2>1 DEF InPhase, Begun, Underway
  <2>3. Quiet' \/ Received'
    BY <1>2, <2>2 DEF Quiet, Received, Keeping
  <2> QED  BY <1>2, <1>4, <2>3 DEF InPhase, Decoded
<1>5. CASE Rise
  BY <1>3, <1>5 DEF Rise, history, fetched
<1>6. CASE Fall
  BY <1>3, <1>4, <1>6 DEF Fall, GetcStatus, Fetch, PutcStatus, PutcSent, CallGetc, CallPutc,
                          OtherCycle, fetched
<1> QED  BY <1>5, <1>6

\* Handed is preserved by a tick.
LEMMA TickHanded ==
  ASSUME TInv, InPhase, Decoded, Handed, Tick, NothingReceived \/ ByteReceived
  PROVE  Handed'
<1>1. UNCHANGED <<phi2, pc, access, read>> /\ acknowledge' = acknowledge /\ last_acknowledge' = acknowledge
  BY DEF Tick, bus, Receive
<1>2. ~Acknowledged' /\ Seen' = Seen
  BY <1>1 DEF Acknowledged, Seen
<1>3. CASE NothingReceived
  <2>1. rx_data_valid' => rx_data_valid /\ ~Acknowledged
    BY <1>3 DEF NothingReceived
  <2>2. rx_data_valid' => waiting'
    BY <1>3, <2>1 DEF NothingReceived, Handed
  <2>3. Seen' \/ pc' = "fetch" => waiting' /\ ~rx_data_valid'
    BY <1>1, <1>2, <1>3, <2>1 DEF NothingReceived, Handed
  <2>4. access' = "recv" /\ phi2' = HIGH => read' = rx_data'
    <3> SUFFICES ASSUME access = "recv", phi2 = HIGH PROVE read = rx_data'
      BY <1>1
    <3>1. pc = "fetch"
      BY DEF TInv, AccessFits
    <3> QED  BY <1>3, <3>1 DEF Handed, NothingReceived
  <2> QED  BY <1>2, <2>2, <2>3, <2>4 DEF Handed
<1>4. CASE ByteReceived
  <2>1. ~Seen /\ pc # "fetch"
    BY <1>4 DEF ByteReceived, Handed
  <2>2. access # "recv"
    BY <2>1 DEF TInv, AccessFits
  <2> QED  BY <1>1, <1>2, <1>4, <2>1, <2>2 DEF ByteReceived, Handed
<1> QED  BY <1>3, <1>4

\* Handed is preserved by a rise of PHI2.
LEMMA RiseHanded == ASSUME TInv, Handed, Rise PROVE Handed'
<1>1. /\ edge /\ ~edge' /\ phi2 = LOW /\ phi2' = HIGH
      /\ UNCHANGED <<pc, access, rx_data, rx_data_valid, last_acknowledge, waiting>>
  BY DEF Rise, receiver, history, fetched
<1>2. pc' = "fetch" => waiting' /\ ~rx_data_valid'
  BY <1>1 DEF Handed
<1>3. CASE access = "status"
  <2>1. read' = status_register /\ acknowledge' = ~acknowledge
    BY <1>3 DEF Rise
  <2>2. acknowledge \in BOOLEAN /\ last_acknowledge = acknowledge
    BY <1>1 DEF Handed, Acknowledged, TInv, TypeOK
  <2>3. Acknowledged'
    BY <1>1, <2>1, <2>2 DEF Acknowledged
  <2>4. Seen' => waiting'
    BY <1>1, <2>1 DEF Seen, status_register, Handed
  <2>5. access' # "recv"
    BY <1>1, <1>3
  <2>6. rx_data_valid' => waiting'
    BY <1>1 DEF Handed
  <2> QED  BY <1>1, <1>2, <2>3, <2>4, <2>5, <2>6 DEF Handed
<1>4. CASE access # "status"
  <2>1. ~Seen' /\ acknowledge' = acknowledge /\ (access = "recv" => read' = rx_data)
    BY <1>1, <1>4 DEF Rise, Seen
  <2> QED  BY <1>1, <1>2, <2>1 DEF Handed
<1> QED  BY <1>3, <1>4

\* Handed is preserved by a fall of PHI2.
LEMMA FallHanded == ASSUME TInv, Handed, Fall PROVE Handed'
<1>1. /\ edge /\ ~edge' /\ phi2 = HIGH /\ phi2' = LOW /\ LOW # HIGH
      /\ UNCHANGED <<rx_data, rx_data_valid, acknowledge, last_acknowledge>>
  BY DEF Fall, receiver, LOW, HIGH
<1>2. ~Acknowledged /\ ~Acknowledged'
  BY <1>1 DEF Handed, Acknowledged
<1>3. ~Seen'
  BY <1>1 DEF Seen
<1>4. CASE Fetch
  <2>1. ~rx_data_valid /\ pc' = "main"
    BY <1>2, <1>4 DEF Handed, Fetch
  <2> QED  BY <1>1, <1>3, <2>1 DEF Handed
<1>5. CASE UNCHANGED fetched
  <2>1. waiting' = waiting
    BY <1>5 DEF fetched
  <2>2. pc' = "fetch" => waiting /\ ~rx_data_valid
    <3>1. CASE pc = "fetch"
      BY <1>2, <3>1 DEF Handed
    <3>2. CASE pc # "fetch"
      <4>1. pc' = "fetch" => GetcStatus
        BY <3>2 DEF Fall, Fetch, PutcStatus, PutcSent, CallGetc, CallPutc, OtherCycle
      <4>2. GetcStatus /\ pc' = "fetch" => Seen
        BY <1>1 DEF GetcStatus, Seen
      <4> QED  BY <1>2, <4>1, <4>2 DEF Handed
    <3> QED  BY <3>1, <3>2
  <2> QED  BY <1>1, <1>2, <1>3, <2>1, <2>2 DEF Handed
<1> QED  BY <1>4, <1>5 DEF Fall, GetcStatus, PutcStatus, PutcSent, CallGetc, CallPutc, OtherCycle

\* Turns is preserved by a tick.
LEMMA TurnsTick ==
  ASSUME TInv, InPhase, Decoded, Handed, Turns, Tick, NothingReceived \/ ByteReceived
  PROVE  Turns'
<1> SUFFICES ASSUME HalfDuplex
             PROVE  (InPutc' => h_frame' = << >> /\ ~waiting') /\ (waiting' => Reported')
  BY DEF Turns
<1>1. UNCHANGED <<phi2, pc, access, read>> /\ acknowledge' = acknowledge /\ last_acknowledge' = acknowledge
  BY DEF Tick, bus, Receive
<1>2. ASSUME InPutc' PROVE h_frame' = << >> /\ ~waiting'
  <2>1. InPutc /\ h_frame = << >> /\ ~waiting
    BY <1>1, <1>2 DEF InPutc, Turns
  <2>2. Silent
    BY <2>1 DEF Tick, Drive, Type, MayType
  <2>3. rx_state = "START" /\ waiting' = waiting
    <3>1. rx_state = "START"
      <4>1. ~Underway
        BY <2>1, LevelOnLine DEF Underway
      <4> QED  BY <4>1 DEF InPhase, Quiet, Begun, Received
    <3>2. ExpectStart
      BY <3>1 DEF Tick, Receive, BetweenSamples, SampleData, SampleStop
    <3> QED  BY <3>1, <3>2 DEF ExpectStart
  <2> QED  BY <2>1, <2>2, <2>3 DEF Silent, host
<1>3. ASSUME waiting' PROVE Reported'
  <2>1. CASE ByteReceived
    BY <1>1, <2>1 DEF ByteReceived, Reported, Acknowledged
  <2>2. CASE NothingReceived
    <3>1. Reported
      BY <1>3, <2>2 DEF NothingReceived, Turns
    <3> QED  BY <1>1, <2>2, <3>1 DEF NothingReceived, Reported, Acknowledged
  <2> QED  BY <2>1, <2>2
<1> QED  BY <1>2, <1>3

\* Turns is preserved by a rise of PHI2.
LEMMA TurnsRise == ASSUME TInv, Handed, Turns, Rise PROVE Turns'
<1> SUFFICES ASSUME HalfDuplex
             PROVE  (InPutc' => h_frame' = << >> /\ ~waiting') /\ (waiting' => Reported')
  BY DEF Turns
<1>1. /\ phi2 = LOW /\ phi2' = HIGH /\ LOW # HIGH
      /\ UNCHANGED <<pc, access, rx_data_valid, last_acknowledge, waiting, h_frame>>
  BY DEF Rise, receiver, host, history, fetched, LOW, HIGH
<1>2. InPutc' => h_frame' = << >> /\ ~waiting'
  BY <1>1 DEF InPutc, Turns
<1>3. ASSUME waiting PROVE Reported'
  <2>1. Reported /\ ~InPutc
    BY <1>3 DEF Turns
  <2>2. CASE pc = "fetch"
    BY <1>1, <2>2 DEF Reported
  <2>3. CASE pc # "fetch"
    <3>1. rx_data_valid /\ ~Acknowledged
      BY <1>1, <2>1, <2>3 DEF Reported
    <3>2. CASE access = "status"
      <4>1. pc = "getc" /\ read' = status_register
        BY <2>1, <3>2 DEF TInv, AccessFits, InPutc, Rise
      <4>2. read'.rx_data_valid
        BY <3>1, <4>1 DEF status_register
      <4> QED  BY <1>1, <3>2, <4>1, <4>2 DEF Reported
    <3>3. CASE access # "status"
      <4>1. acknowledge' = acknowledge
        BY <3>3 DEF Rise
      <4> QED  BY <1>1, <3>1, <4>1 DEF Reported, Acknowledged
    <3> QED  BY <3>2, <3>3
  <2> QED  BY <2>2, <2>3
<1> QED  BY <1>1, <1>2, <1>3

\* Turns is preserved by a fall of PHI2.
LEMMA TurnsFall == ASSUME TInv, Handed, Turns, Fall PROVE Turns'
<1> SUFFICES ASSUME HalfDuplex
             PROVE  (InPutc' => h_frame' = << >> /\ ~waiting') /\ (waiting' => Reported')
  BY DEF Turns
<1>1. UNCHANGED <<rx_data_valid, acknowledge, last_acknowledge, h_frame>> /\ phi2 = HIGH
  BY DEF Fall, receiver, host
<1>2. ASSUME InPutc' PROVE h_frame' = << >> /\ ~waiting'
  <2>1. CASE CallPutc
    BY <1>1, <2>1 DEF CallPutc, fetched
  <2>2. CASE ~CallPutc
    <3>1. InPutc /\ waiting' = waiting
      BY <1>2, <2>2 DEF Fall, GetcStatus, Fetch, PutcStatus, PutcSent, CallGetc, OtherCycle, InPutc, fetched
    <3> QED  BY <1>1, <3>1 DEF Turns
  <2> QED  BY <2>1, <2>2
<1>3. ASSUME waiting' PROVE Reported'
  <2>1. ~Fetch /\ waiting
    BY <1>3 DEF Fall, GetcStatus, Fetch, PutcStatus, PutcSent, CallGetc, CallPutc, OtherCycle, fetched
  <2>2. Reported
    BY <2>1 DEF Turns
  <2>3. CASE rx_data_valid /\ ~Acknowledged
    BY <1>1, <2>3 DEF Reported, Acknowledged
  <2>4. CASE Seen
    <3>1. GetcStatus
      BY <2>4 DEF Seen, Fall, Fetch, PutcStatus, PutcSent, CallGetc, CallPutc, OtherCycle
    <3> QED  BY <2>4, <3>1 DEF Seen, GetcStatus, Reported
  <2>5. CASE pc = "fetch"
    <3>1. OtherCycle
      BY <2>1, <2>5 DEF Fall, GetcStatus, PutcStatus, PutcSent, CallGetc, CallPutc
    <3> QED  BY <2>5, <3>1 DEF OtherCycle, Reported
  <2> QED  BY <2>2, <2>3, <2>4, <2>5 DEF Reported, Seen
<1> QED  BY <1>2, <1>3

\* The invariant holds initially.
LEMMA ReceiverInit == Init => RInv
BY DEF Init, RInv, InPhase, Quiet, Decoded, Handed, Acknowledged, Seen, Turns, InPutc, Reported, LOW, HIGH

\* Every step preserves it.
LEMMA ReceiverStep == ASSUME HostKeepsTime, TInv, RInv, [Next]_vars PROVE RInv'
<1> USE DEF RInv
<1>1. CASE Tick
  <2>1. InPhase' /\ (NothingReceived \/ ByteReceived) /\ ErrorFree
    BY <1>1, TickPhases
  <2>2. Handed' /\ Turns'
    BY <1>1, <2>1, TickHanded, TurnsTick
  <2>3. waiting' => rx_data' = typed'
    <3>1. CASE ByteReceived
      BY <3>1 DEF ByteReceived
    <3>2. CASE NothingReceived
      <4> SUFFICES ASSUME waiting PROVE rx_data' = typed'
        BY <3>2 DEF NothingReceived
      <4>1. typed' = typed
        BY <1>1 DEF Tick, Drive, Silent, Type, MayType
      <4> QED  BY <3>2, <4>1 DEF NothingReceived, Decoded
    <3> QED  BY <2>1, <3>1, <3>2
  <2> QED  BY <2>1, <2>2, <2>3 DEF Decoded, ErrorFree
<1>2. CASE Rise
  BY <1>2, EdgePhases, RiseHanded, TurnsRise
<1>3. CASE Fall
  BY <1>3, EdgePhases, FallHanded, TurnsFall
<1>4. CASE UNCHANGED vars
  <2>1. UNCHANGED <<bus, edge, receiver, acknowledge, host, fetched>>
    BY <1>4 DEF vars, history
  <2>2. UNCHANGED <<OnLine, Elapsed, Samples, Keeping, RestOfFrame>>
    BY <2>1 DEF OnLine, Elapsed, Samples, Keeping, RestOfFrame, receiver, host, fetched
  <2>3. UNCHANGED <<Quiet, Begun, Underway, Received>>
    BY <2>1, <2>2 DEF Quiet, Begun, Underway, Received, receiver, host, fetched
  <2>4. UNCHANGED <<Seen, Reported, Acknowledged, InPutc>>
    BY <2>1 DEF Seen, Reported, Acknowledged, InPutc, bus, receiver
  <2> QED  BY <2>1, <2>3, <2>4 DEF InPhase, Decoded, Handed, Turns, bus, receiver, host, fetched
<1> QED  BY <1>1, <1>2, <1>3, <1>4 DEF Next

\* Whatever the host types is received as it was typed, and no error flag is ever set,
\* for every divisor and every length of the host's bits within the receiver's
\* tolerance, whatever the program does (UART.v, the receiver).
THEOREM BytesAreDecoded == ASSUME HostKeepsTime PROVE Spec => []Decoded
<1>1. RInv => Decoded
  BY DEF RInv
<1> QED  BY <1>1, TypesInit, TypesStep, ReceiverInit, ReceiverStep, PTL DEF Spec

\* If host and program take turns, a byte is reported exactly while it waits.
LEMMA ReportedWaits ==
  ASSUME RInv, HalfDuplex PROVE Reported <=> waiting
BY DEF RInv, Handed, Turns, Reported, Seen

\* "indicator: data received (and is waiting)" (UART.v:6) is so, if they take turns.
THEOREM IndicatorIsTrue ==
  ASSUME HostKeepsTime, HalfDuplex PROVE Spec => []NothingMissed
<1>1. RInv => NothingMissed
  BY ReportedWaits DEF NothingMissed
<1> QED  BY <1>1, TypesInit, TypesStep, ReceiverInit, ReceiverStep, PTL DEF Spec

\* If they take turns, the receiver with UART_getc is a mailbox: each byte is
\* fetched once, unchanged, and none replaces one that is not fetched.
THEOREM ReceiverRefines ==
  ASSUME HostKeepsTime, HalfDuplex PROVE Spec => ReceiverIsMailbox
<1>1. Init => Inbox!Init
  BY DEF Init, Inbox!Init, Reported, Acknowledged, LOW, HIGH
<1>2. ASSUME TInv, RInv, RInv', [Next]_vars PROVE [Inbox!Next]_(Inbox!vars)
  <2>1. (Reported <=> waiting) /\ (Reported' <=> waiting')
    BY <1>2, ReportedWaits DEF RInv, Handed, Turns, Reported, Seen
  <2>2. CASE Tick
    <3>1. got' = got /\ (NothingReceived \/ ByteReceived)
      BY <1>2, <2>2, TickPhases DEF Tick, RInv
    <3>2. CASE NothingReceived
      BY <2>1, <3>1, <3>2 DEF NothingReceived, Inbox!vars
    <3>3. CASE ByteReceived
      <4>1. rx_data' \in Byte
        BY <1>2, <2>2, ReceiveTypes DEF Tick
      <4>2. ~Reported /\ Reported'
        BY <2>1, <3>3 DEF ByteReceived
      <4> QED  BY <3>1, <4>1, <4>2 DEF Inbox!Next, Inbox!Put
    <3> QED  BY <3>1, <3>2, <3>3
  <2>3. CASE Rise
    <3>1. UNCHANGED <<rx_data, waiting, got>>
      BY <2>3 DEF Rise, receiver, history, fetched
    <3> QED  BY <2>1, <3>1 DEF Inbox!vars
  <2>4. CASE Fall /\ Fetch
    <3>1. pc = "fetch" /\ access = "recv" /\ phi2 = HIGH /\ got' = read /\ waiting' = FALSE
      BY <2>4 DEF Fall, Fetch
    <3>2. waiting /\ read = rx_data
      BY <1>2, <3>1 DEF RInv, Handed
    <3> QED  BY <2>1, <3>1, <3>2 DEF Inbox!Next, Inbox!Take
  <2>5. CASE Fall /\ ~Fetch
    <3>1. UNCHANGED <<rx_data, waiting, got>>
      BY <2>5 DEF Fall, GetcStatus, PutcStatus, PutcSent, CallGetc, CallPutc, OtherCycle, receiver, fetched
    <3> QED  BY <2>1, <3>1 DEF Inbox!vars
  <2>6. CASE UNCHANGED vars
    <3>1. UNCHANGED <<rx_data, waiting, got>>
      BY <2>6 DEF vars, receiver, history, fetched
    <3> QED  BY <2>1, <3>1 DEF Inbox!vars
  <2> QED  BY <1>2, <2>2, <2>3, <2>4, <2>5, <2>6 DEF Next
<1> QED  BY <1>1, <1>2, TypesInit, TypesStep, ReceiverInit, ReceiverStep, PTL
         DEF Spec, ReceiverIsMailbox, Inbox!Spec
=============================================================================
