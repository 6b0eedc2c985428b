----------------------------- MODULE FpgaSpiProofs -----------------------------
(* SPI_exchange swaps whole bytes: for every length of a byte, every divisor,   *)
(* either input clock and resets anywhere, provided that the program keeps to   *)
(* the polarity that the shifter assumes.                                       *)
EXTENDS FpgaSpi, TLAPS

Called == {"busy", "write", "complete", "take"}

ClockTypes == phi2 \in Bit /\ data_consumed \in [{0, 1} -> Bit]

ShiftTypes ==
    /\ sck_line \in Bit
    /\ data \in Byte /\ data_latch \in Byte /\ d_shift \in Byte /\ answer \in Byte
    /\ begin_exchange \in [{0, 1} -> Bit]
    /\ shift_count \in 0 .. Bits - 1 /\ d_count \in 0 .. Bits - 1

Flags == tc \in BOOLEAN /\ bsy \in BOOLEAN /\ ece \in BOOLEAN /\ selected \in BOOLEAN /\ ticked \in BOOLEAN

\* Where the program is, and what it has to do there
Places ==
    /\ pc \in {"main", "busy", "write", "complete", "take", "select", "release", "control", "divisor"}
    /\ access = "other" \/ (pc # "main" /\ access = Access[pc])
    /\ pc \in {"busy", "write"} => arg \in Byte
    /\ pc \in Called => selected

\* An exchange is the device's, and the program waits for it.
Awaited ==
    /\ UnderWay => pc = "complete" /\ ~tc
    /\ Requested => ~bsy

\* Who reads the status or the data is not misled by what happens until PHI2 falls.
ReadTrue ==
    /\ pc = "complete" /\ access = "status" /\ phi2 = HIGH /\ read.tc => ~UnderWay
    /\ access = "data" /\ phi2 = HIGH => read = data

\* The shifter sees that data was consumed before the next access.
Acknowledged ==
    /\ Consumed =>
          \/ pc = "take" /\ access = "data" /\ phi2 = HIGH /\ (ece => ~ticked)
          \/ pc = "main" /\ phi2 = LOW /\ ~ece
    /\ tc => pc \in {"complete", "take"} \/ Consumed
    /\ access = "data" /\ phi2 = HIGH => Consumed \/ ~tc

\* a's bits from the (k + 1)st, then the first k bits of b
Mix(a, b, k) == [i \in 1 .. Bits |-> IF i <= Bits - k THEN a[i + k] ELSE b[i - (Bits - k)]]

\* Between exchanges SCK rests and a selected device has its whole answer.
AtRest == ~bsy => sck_line = LOW /\ (selected => d_shift = answer /\ d_count = 0)

\* During one, each register has lost as many bits of its own as it got of the other's.
Halfway ==
    bsy => /\ d_count = shift_count
           /\ data = Mix(data_latch, answer, shift_count)
           /\ d_shift = Mix(answer, data_latch, shift_count)
           /\ sck_line = HIGH => /\ miso_latch = answer[shift_count + 1]
                                 /\ d_latch = data_latch[shift_count + 1]

Mode0 == cpol = LOW /\ cpol_latch = LOW

SpiInv ==
    /\ ClockTypes /\ ShiftTypes /\ Flags /\ Places /\ Awaited /\ ReadTrue /\ Acknowledged
    /\ AtRest /\ Halfway /\ Mode0

--------------------------------------------------------------------------------
(* Bits in a shift register *)

LEMMA Sizes == Bits \in Nat /\ Bits >= 1 /\ 1 \in 1 .. Bits /\ Bits \in 1 .. Bits
<1> QED  BY SpiAssumption

LEMMA Mixed ==
    ASSUME NEW a \in Byte, NEW b \in Byte
    PROVE  /\ Mix(a, b, 0) = a
           /\ \A k \in 0 .. Bits - 1 :
                 /\ Mix(a, b, k) \in Byte
                 /\ Mix(a, b, k)[1] = a[k + 1]
           /\ \A k \in 0 .. Bits - 2 : Shifted(Mix(a, b, k), b[k + 1]) = Mix(a, b, k + 1)
           /\ Shifted(Mix(a, b, Bits - 1), b[Bits]) = b
<1>1. Mix(a, b, 0) = a
  BY Sizes DEF Mix, Byte
<1>2. ASSUME NEW k \in 0 .. Bits - 1
      PROVE  Mix(a, b, k) \in Byte /\ Mix(a, b, k)[1] = a[k + 1]
  <2>1. \A i \in 1 .. Bits : (IF i <= Bits - k THEN a[i + k] ELSE b[i - (Bits - k)]) \in Bit
    BY Sizes DEF Byte
  <2>2. Mix(a, b, k) \in Byte
    BY <2>1 DEF Mix, Byte
  <2>3. Mix(a, b, k)[1] = a[k + 1]
    BY Sizes DEF Mix
  <2> QED  BY <2>2, <2>3
<1>3. ASSUME NEW k \in 0 .. Bits - 2
      PROVE  Shifted(Mix(a, b, k), b[k + 1]) = Mix(a, b, k + 1)
  <2>1. ASSUME NEW i \in 1 .. Bits
        PROVE  (IF i = Bits THEN b[k + 1] ELSE Mix(a, b, k)[i + 1])
               = (IF i <= Bits - (k + 1) THEN a[i + (k + 1)] ELSE b[i - (Bits - (k + 1))])
    BY Sizes DEF Mix
  <2> QED  BY <2>1 DEF Shifted, Mix
<1>4. Shifted(Mix(a, b, Bits - 1), b[Bits]) = b
  <2>1. ASSUME NEW i \in 1 .. Bits
        PROVE  (IF i = Bits THEN b[Bits] ELSE Mix(a, b, Bits - 1)[i + 1]) = b[i]
    BY Sizes DEF Mix
  <2> QED  BY <2>1 DEF Shifted, Byte
<1> QED  BY <1>1, <1>2, <1>3, <1>4

LEMMA ShiftedByte == ASSUME NEW a \in Byte, NEW b \in Bit PROVE Shifted(a, b) \in Byte
<1>1. \A i \in 1 .. Bits : (IF i = Bits THEN b ELSE a[i + 1]) \in Bit
  BY Sizes DEF Byte
<1> QED  BY <1>1 DEF Shifted, Byte

--------------------------------------------------------------------------------
(* The shifter's clock does one of six things. *)

Pause ==
    /\ ~bsy /\ ~Requested
    /\ UNCHANGED <<data, bsy, sck_line, shift_count, begin_exchange, device>>
    /\ tc' = (tc /\ ~Consumed)

Begin ==
    /\ ~bsy /\ Requested
    /\ bsy' = TRUE /\ begin_exchange' = [begin_exchange EXCEPT ![0] = begin_exchange[1]]
    /\ data' = data_latch /\ shift_count' = 0
    /\ tc' = FALSE
    /\ UNCHANGED <<sck_line, device>>

During ==
    /\ bsy /\ ~Requested
    /\ UNCHANGED begin_exchange

CountDown ==
    /\ During
    /\ UNCHANGED <<data, bsy, sck_line, shift_count, miso_latch, device>>
    /\ tc' = FALSE

Sample ==
    /\ During
    /\ sck_line = LOW /\ sck_line' = HIGH
    /\ miso_latch' = d_shift[1] /\ DeviceSamples
    /\ UNCHANGED <<data, bsy, shift_count>>
    /\ tc' = FALSE

ShiftBit ==
    /\ During
    /\ sck_line = HIGH /\ sck_line' = LOW
    /\ shift_count < Bits - 1 /\ shift_count' = shift_count + 1
    /\ data' = Shifted(data, miso_latch) /\ DeviceShifts
    /\ UNCHANGED bsy
    /\ tc' = FALSE

Finish ==
    /\ During
    /\ sck_line = HIGH /\ sck_line' = LOW
    /\ shift_count = Bits - 1 /\ shift_count' = 0
    /\ data' = Shifted(data, miso_latch) /\ DeviceReady
    /\ bsy' = FALSE
    /\ tc' = TRUE

Clocked == Pause \/ Begin \/ CountDown \/ Sample \/ ShiftBit \/ Finish

LEMMA Unrequested ==
    ASSUME begin_exchange \in [{0, 1} -> Bit]
    PROVE  /\ ~Requested => [begin_exchange EXCEPT ![0] = begin_exchange[1]] = begin_exchange
           /\ [begin_exchange EXCEPT ![0] = begin_exchange[1]] \in [{0, 1} -> Bit]
           /\ [begin_exchange EXCEPT ![0] = begin_exchange[1]][0]
              = [begin_exchange EXCEPT ![0] = begin_exchange[1]][1]
<1> QED  BY DEF Requested

LEMMA Adopted == ASSUME Mode0 PROVE sck_adopted = sck_line
<1> QED  BY DEF Mode0, sck_adopted

LEMMA ShiftCases == ASSUME SpiInv, Shift, Device PROVE Clocked
<1> USE DEF SpiInv
<1>1. sck_adopted = sck_line /\ sck_line \in {LOW, HIGH}
  BY Adopted DEF ShiftTypes, Bit
<1>2. Requested => ~bsy
  BY DEF Awaited
<1>3. CASE ~bsy
  <2>1. ~Toggles /\ ~Shifts /\ ~Samples /\ ~LastBit /\ sck_next = sck_line
    BY <1>1, <1>3 DEF Toggles, Shifts, Samples, LastBit, sck_next
  <2>2. UNCHANGED <<sck_line, device>>
    <3>1. Device => DeviceIdle
      BY <2>1, <1>1 DEF Device, LOW, HIGH
    <3>2. sck_line' = sck_line
      BY <2>1 DEF Shift
    <3> QED  BY <3>1, <3>2 DEF DeviceIdle
  <2>3. tc' = (tc /\ ~Consumed)
    BY <2>1 DEF Shift, NextTC
  <2>4. CASE Requested
    <3>1. tc' = FALSE
      BY <2>3, <2>4 DEF Awaited, UnderWay
    <3>2. bsy' = TRUE
      BY <2>1, <2>4 DEF Shift
    <3>3. data' = data_latch
      BY <2>1, <2>4 DEF Shift
    <3>4. shift_count' = 0
      BY <2>4 DEF Shift, Count
    <3>5. Begin
      BY <1>3, <2>2, <2>4, <3>1, <3>2, <3>3, <3>4 DEF Begin, Shift
    <3> QED  BY <3>5 DEF Clocked
  <2>5. CASE ~Requested
    <3>1. bsy' = bsy
      BY <1>3, <2>1, <2>5 DEF Shift, Flags
    <3>2. data' = data
      BY <2>1, <2>5 DEF Shift
    <3>3. shift_count' = shift_count
      BY <2>1, <2>5 DEF Shift, Count
    <3>4. begin_exchange' = begin_exchange
      BY <2>5, Unrequested DEF Shift, ShiftTypes
    <3>5. Pause
      BY <1>3, <2>2, <2>3, <2>5, <3>1, <3>2, <3>3, <3>4 DEF Pause
    <3> QED  BY <3>5 DEF Clocked
  <2> QED  BY <2>4, <2>5
<1>4. CASE bsy
  <2>1. ~Requested /\ ~tc /\ selected
    BY <1>2, <1>4 DEF Awaited, UnderWay, Places, Called
  <2>2. During
    BY <1>4, <2>1, Unrequested DEF During, Shift, ShiftTypes
  <2>3. CASE ~Toggles
    <3>1. ~Shifts /\ ~Samples /\ ~LastBit /\ sck_next = sck_line
      BY <1>1, <2>3 DEF Shifts, Samples, LastBit, sck_next
    <3>2. UNCHANGED <<sck_line, device>>
      <4>1. Device => DeviceIdle
        BY <3>1, <1>1 DEF Device, LOW, HIGH
      <4>2. sck_line' = sck_line
        BY <3>1 DEF Shift
      <4> QED  BY <4>1, <4>2 DEF DeviceIdle
    <3>3. tc' = FALSE
      BY <2>1, <3>1 DEF Shift, NextTC
    <3>4. bsy' = bsy
      BY <1>4, <3>1 DEF Shift, Flags
    <3>5. data' = data /\ miso_latch' = miso_latch
      BY <2>1, <3>1 DEF Shift
    <3>6. shift_count' = shift_count
      BY <2>1, <3>1 DEF Shift, Count
    <3>7. CountDown
      BY <2>2, <3>2, <3>3, <3>4, <3>5, <3>6 DEF CountDown
    <3> QED  BY <3>7 DEF Clocked
  <2>4. CASE Toggles /\ sck_line = LOW
    <3>1. sck_next = HIGH
      BY <1>1, <2>4 DEF sck_next, LOW, HIGH
    <3>2. Samples /\ ~Shifts /\ ~LastBit
      BY <2>4, <3>1 DEF Samples, Shifts, LastBit, LOW, HIGH
    <3>3. DeviceSamples
      BY <2>1, <2>4, <3>1 DEF Device, LOW, HIGH
    <3>4. sck_line' = HIGH
      BY <3>1 DEF Shift
    <3>5. tc' = FALSE
      BY <2>1, <3>2 DEF Shift, NextTC
    <3>6. bsy' = bsy
      BY <1>4, <3>2 DEF Shift, Flags
    <3>7. data' = data
      BY <2>1, <3>2 DEF Shift
    <3>8. miso_latch' = d_shift[1]
      BY <2>1, <3>2 DEF Shift, miso_line
    <3>9. shift_count' = shift_count
      BY <2>1, <3>2 DEF Shift, Count
    <3>10. Sample
      BY <2>2, <2>4, <3>3, <3>4, <3>5, <3>6, <3>7, <3>8, <3>9 DEF Sample
    <3> QED  BY <3>10 DEF Clocked
  <2>5. CASE Toggles /\ sck_line = HIGH
    <3>1. sck_next = LOW
      BY <1>1, <2>5 DEF sck_next, LOW, HIGH
    <3>2. ~Samples /\ Shifts
      BY <2>5, <3>1 DEF Samples, Shifts, LOW, HIGH
    <3>3. data' = Shifted(data, miso_latch) /\ sck_line' = LOW
      BY <3>1, <3>2 DEF Shift
    <3>4. d_count = shift_count /\ shift_count \in 0 .. Bits - 1
      BY <1>4 DEF Halfway, ShiftTypes
    <3>5. CASE shift_count = Bits - 1
      <4>1. LastBit
        BY <3>2, <3>5 DEF LastBit
      <4>2. tc' = TRUE
        BY <4>1 DEF Shift, NextTC
      <4>3. bsy' = FALSE
        BY <4>1 DEF Shift
      <4>4. shift_count' = 0
        BY <2>1, <3>2, <3>5, Sizes DEF Shift, Count
      <4>5. DeviceReady
        BY <2>1, <2>5, <3>1, <3>4, <3>5 DEF Device, LOW, HIGH
      <4>6. Finish
        BY <2>2, <2>5, <3>3, <3>5, <4>2, <4>3, <4>4, <4>5 DEF Finish
      <4> QED  BY <4>6 DEF Clocked
    <3>6. CASE shift_count < Bits - 1
      <4>1. ~LastBit
        BY <3>4, <3>6, Sizes DEF LastBit
      <4>2. tc' = FALSE
        BY <2>1, <4>1 DEF Shift, NextTC
      <4>3. bsy' = bsy
        BY <1>4, <4>1 DEF Shift, Flags
      <4>4. shift_count' = shift_count + 1
        BY <2>1, <3>2, <3>4, <3>6, Sizes DEF Shift, Count
      <4>5. DeviceShifts
        BY <2>1, <2>5, <3>1, <3>4, <3>6, Sizes DEF Device, LOW, HIGH
      <4>6. ShiftBit
        BY <2>2, <2>5, <3>3, <3>6, <4>2, <4>3, <4>4, <4>5 DEF ShiftBit
      <4> QED  BY <4>6 DEF Clocked
    <3> QED  BY <3>4, <3>5, <3>6, Sizes
  <2> QED  BY <1>1, <2>3, <2>4, <2>5
<1> QED  BY <1>3, <1>4

--------------------------------------------------------------------------------
(* What a rise of the shifter's clock does to the exchange *)

LEMMA PauseStep ==
    ASSUME SpiInv, Pause, UNCHANGED <<data_latch, selected, pc>>
    PROVE  ShiftTypes' /\ Awaited' /\ AtRest' /\ Halfway' /\ ~UnderWay' /\ data' = data
<1> USE DEF SpiInv
<1>1. UNCHANGED <<data, bsy, sck_line, shift_count, begin_exchange, d_shift, d_latch, d_count, answer>>
  BY DEF Pause, device
<1>2. ~bsy' /\ ~Requested'
  BY <1>1 DEF Pause, Requested
<1>3. ShiftTypes' /\ AtRest'
  BY <1>1 DEF ShiftTypes, AtRest
<1> QED  BY <1>1, <1>2, <1>3 DEF UnderWay, Awaited, Halfway

LEMMA BeginStep ==
    ASSUME SpiInv, Begin, UNCHANGED <<data_latch, selected, pc>>
    PROVE  ShiftTypes' /\ Awaited' /\ AtRest' /\ Halfway' /\ UnderWay
<1> USE DEF SpiInv
<1>1. UNCHANGED <<sck_line, d_shift, d_latch, d_count, answer>>
  BY DEF Begin, device
<1>2. bsy' /\ ~Requested'
  BY Unrequested DEF Begin, ShiftTypes, Requested
<1>3. pc = "complete" /\ selected
  BY DEF Begin, Awaited, UnderWay, Places, Called
<1>4. ShiftTypes'
  BY <1>1, Sizes, Unrequested DEF Begin, ShiftTypes
<1>5. Awaited'
  BY <1>2, <1>3 DEF Begin, Awaited, UnderWay
<1>6. Halfway'
  <2>1. sck_line = LOW /\ d_shift = answer /\ d_count = 0
    BY <1>3 DEF Begin, AtRest
  <2>2. data' = Mix(data_latch', answer', shift_count')
    BY <1>1, Mixed DEF Begin, ShiftTypes
  <2>3. d_shift' = Mix(answer', data_latch', shift_count')
    BY <1>1, <2>1, Mixed DEF Begin, ShiftTypes
  <2> QED  BY <1>1, <2>1, <2>2, <2>3 DEF Halfway, Begin, LOW, HIGH
<1> QED  BY <1>2, <1>4, <1>5, <1>6 DEF AtRest, UnderWay, Begin

\* In an exchange the registers hold bytes, and what was latched are their bits.
LEMMA Latched ==
    ASSUME SpiInv, bsy
    PROVE  /\ pc = "complete" /\ selected /\ ~tc
           /\ shift_count \in 0 .. Bits - 1 /\ d_count = shift_count
           /\ data = Mix(data_latch, answer, shift_count)
           /\ d_shift = Mix(answer, data_latch, shift_count)
           /\ data[1] = data_latch[shift_count + 1] /\ d_shift[1] = answer[shift_count + 1]
           /\ data_latch[shift_count + 1] \in Bit /\ answer[shift_count + 1] \in Bit
           /\ sck_line = HIGH => /\ miso_latch = answer[shift_count + 1]
                                 /\ d_latch = data_latch[shift_count + 1]
<1> USE DEF SpiInv
<1>1. pc = "complete" /\ selected /\ ~tc
  BY DEF Awaited, UnderWay, Places, Called
<1>2. /\ d_count = shift_count
      /\ data = Mix(data_latch, answer, shift_count)
      /\ d_shift = Mix(answer, data_latch, shift_count)
      /\ sck_line = HIGH => /\ miso_latch = answer[shift_count + 1]
                            /\ d_latch = data_latch[shift_count + 1]
  BY DEF Halfway
<1>3. shift_count \in 0 .. Bits - 1 /\ data_latch \in Byte /\ answer \in Byte
  BY DEF ShiftTypes
<1>4. Mix(data_latch, answer, shift_count)[1] = data_latch[shift_count + 1]
      /\ Mix(answer, data_latch, shift_count)[1] = answer[shift_count + 1]
  BY <1>3, Mixed
<1>5. data_latch[shift_count + 1] \in Bit /\ answer[shift_count + 1] \in Bit
  BY <1>3, Sizes DEF Byte
<1> QED  BY <1>1, <1>2, <1>3, <1>4, <1>5

LEMMA CountDownStep ==
    ASSUME SpiInv, CountDown, UNCHANGED <<data_latch, selected, pc>>
    PROVE  ShiftTypes' /\ Awaited' /\ AtRest' /\ Halfway' /\ UnderWay
<1> USE DEF SpiInv
<1>1. bsy /\ UNCHANGED <<data, bsy, sck_line, shift_count, begin_exchange, miso_latch, d_shift, d_latch, d_count, answer>>
  BY DEF CountDown, During, device
<1>2. bsy' /\ ~Requested' /\ ~tc'
  BY <1>1 DEF CountDown, During, Requested
<1>3. ShiftTypes'
  BY <1>1 DEF ShiftTypes
<1>4. Halfway'
  BY <1>1 DEF Halfway
<1>5. Awaited' /\ AtRest'
  BY <1>1, <1>2, Latched DEF Awaited, AtRest
<1> QED  BY <1>1, <1>3, <1>4, <1>5 DEF UnderWay

LEMMA SampleStep ==
    ASSUME SpiInv, Sample, UNCHANGED <<data_latch, selected, pc>>
    PROVE  ShiftTypes' /\ Awaited' /\ AtRest' /\ Halfway' /\ UnderWay
<1> USE DEF SpiInv
<1>1. bsy /\ UNCHANGED <<data, bsy, shift_count, begin_exchange, d_shift, d_count, answer>>
  BY DEF Sample, During, DeviceSamples
<1>2. bsy' /\ ~Requested' /\ ~tc'
  BY <1>1 DEF Sample, During, Requested
<1>3. ShiftTypes'
  BY <1>1 DEF ShiftTypes, Sample, Bit
<1>4. Halfway'
  <2>1. miso_latch' = answer[shift_count + 1] /\ d_latch' = data_latch[shift_count + 1]
    BY <1>1, Latched DEF Sample, DeviceSamples, mosi_line
  <2> QED  BY <1>1, <2>1 DEF Halfway
<1>5. Awaited' /\ AtRest'
  BY <1>1, <1>2, Latched DEF Awaited, AtRest
<1> QED  BY <1>1, <1>3, <1>4, <1>5 DEF UnderWay

LEMMA ShiftBitStep ==
    ASSUME SpiInv, ShiftBit, UNCHANGED <<data_latch, selected, pc>>
    PROVE  ShiftTypes' /\ Awaited' /\ AtRest' /\ Halfway' /\ UnderWay
<1> USE DEF SpiInv
<1>1. bsy /\ UNCHANGED <<bsy, begin_exchange, answer>>
  BY DEF ShiftBit, During, DeviceShifts
<1>2. bsy' /\ ~Requested' /\ ~tc'
  BY <1>1 DEF ShiftBit, During, Requested
<1>3. data_latch \in Byte /\ answer \in Byte /\ data \in Byte /\ d_shift \in Byte
  BY DEF ShiftTypes
<1>4. shift_count \in 0 .. Bits - 2 /\ shift_count' = shift_count + 1 /\ d_count' = shift_count + 1
  BY <1>1, Latched, Sizes DEF ShiftBit, DeviceShifts
<1>5. miso_latch = answer[shift_count + 1] /\ d_latch = data_latch[shift_count + 1]
  BY <1>1, Latched DEF ShiftBit
<1>6. data' = Mix(data_latch, answer, shift_count + 1)
  BY <1>1, <1>3, <1>4, <1>5, Latched, Mixed DEF ShiftBit
<1>7. d_shift' = Mix(answer, data_latch, shift_count + 1)
  BY <1>1, <1>3, <1>4, <1>5, Latched, Mixed DEF ShiftBit, DeviceShifts
<1>8. shift_count + 1 \in 0 .. Bits - 1
  BY <1>4, Sizes
<1>9. data' \in Byte /\ d_shift' \in Byte
  BY <1>3, <1>6, <1>7, <1>8, Mixed
<1>10. sck_line' = LOW
  BY DEF ShiftBit
<1>11. ShiftTypes'
  BY <1>1, <1>3, <1>4, <1>8, <1>9, <1>10 DEF ShiftTypes, Bit
<1>12. Halfway'
  BY <1>1, <1>4, <1>6, <1>7, <1>10 DEF Halfway, LOW, HIGH
<1>13. Awaited' /\ AtRest'
  BY <1>1, <1>2, Latched DEF Awaited, AtRest
<1> QED  BY <1>1, <1>11, <1>12, <1>13 DEF UnderWay

\* The last bit: the bytes have changed places.
LEMMA FinishStep ==
    ASSUME SpiInv, Finish, UNCHANGED <<data_latch, selected, pc>>
    PROVE  /\ ShiftTypes' /\ Awaited' /\ AtRest' /\ Halfway'
           /\ UnderWay /\ ~UnderWay' /\ pc = "complete"
           /\ data' = answer /\ received' = data_latch
<1> USE DEF SpiInv
<1>1. bsy /\ ~bsy' /\ UNCHANGED begin_exchange
  BY DEF Finish, During
<1>2. ~Requested' /\ ~UnderWay'
  BY <1>1 DEF Finish, During, Requested, UnderWay
<1>3. data_latch \in Byte /\ answer \in Byte
  BY DEF ShiftTypes
<1>4. miso_latch = answer[Bits] /\ d_latch = data_latch[Bits]
  BY <1>1, Latched, Sizes DEF Finish
<1>5. data = Mix(data_latch, answer, Bits - 1) /\ d_shift = Mix(answer, data_latch, Bits - 1)
  BY <1>1, Latched DEF Finish
<1>6. data' = answer /\ received' = data_latch
  BY <1>3, <1>4, <1>5, Mixed DEF Finish, DeviceReady
<1>7. d_shift' = answer' /\ answer' \in Byte /\ d_count' = 0 /\ sck_line' = LOW /\ shift_count' = 0
  BY SpiAssumption DEF Finish, DeviceReady
<1>8. ShiftTypes'
  BY <1>1, <1>3, <1>6, <1>7, Sizes DEF ShiftTypes, Bit
<1>9. AtRest'
  BY <1>7 DEF AtRest
<1>10. Awaited' /\ Halfway'
  BY <1>1, <1>2 DEF Awaited, Halfway
<1>11. UnderWay /\ pc = "complete"
  BY <1>1, Latched DEF UnderWay
<1> QED  BY <1>2, <1>6, <1>8, <1>9, <1>10, <1>11

LEMMA ClockedStep ==
    ASSUME SpiInv, Clocked, UNCHANGED <<data_latch, selected, pc>>
    PROVE  /\ ShiftTypes' /\ Awaited' /\ AtRest' /\ Halfway'
           /\ ~UnderWay => ~UnderWay' /\ data' = data
           /\ tc' => (tc /\ ~Consumed) \/ pc = "complete"
<1>1. tc' => (tc /\ ~Consumed) \/ pc = "complete"
  BY FinishStep DEF Clocked, Pause, Begin, CountDown, Sample, ShiftBit
<1> QED  BY <1>1, PauseStep, BeginStep, CountDownStep, SampleStep, ShiftBitStep, FinishStep DEF Clocked

--------------------------------------------------------------------------------
(* Ticks and rises *)

LEMMA TakesAtTake == ASSUME Places, access = "data" PROVE pc = "take"
<1> QED  BY DEF Places, Access

LEMMA Consuming ==
    ASSUME data_consumed \in [{0, 1} -> Bit], NEW toggled \in BOOLEAN, Consume(toggled)
    PROVE  data_consumed' \in [{0, 1} -> Bit] /\ (Consumed' <=> toggled)
<1>1. CASE toggled
  <2>1. data_consumed' = [data_consumed EXCEPT ![0] = data_consumed[1], ![1] = 1 - data_consumed[1]]
    BY <1>1 DEF Consume
  <2> QED  BY <1>1, <2>1 DEF Consumed, Bit, LOW, HIGH
<1>2. CASE ~toggled
  <2>1. data_consumed' = [data_consumed EXCEPT ![0] = data_consumed[1], ![1] = data_consumed[1]]
    BY <1>2 DEF Consume
  <2> QED  BY <1>2, <2>1 DEF Consumed, Bit, LOW, HIGH
<1> QED  BY <1>1, <1>2

LEMMA ShiftFlags == ASSUME Flags, Shift PROVE tc' \in BOOLEAN /\ bsy' \in BOOLEAN
<1> QED  BY DEF Shift, NextTC

LEMMA TickStep == ASSUME SpiInv, Tick PROVE SpiInv'
<1> USE DEF SpiInv
<1>1. UNCHANGED <<phi2, pc, arg, access, read, ece, cpol_latch, selected, data_latch>> /\ ticked' = TRUE
  BY DEF Tick, program, settings
<1>2. Clocked
  BY ShiftCases DEF Tick
<1>3. /\ ShiftTypes' /\ Awaited' /\ AtRest' /\ Halfway'
      /\ ~UnderWay => ~UnderWay' /\ data' = data
      /\ tc' => (tc /\ ~Consumed) \/ pc = "complete"
  BY <1>1, <1>2, ClockedStep
<1>4. data_consumed' \in [{0, 1} -> Bit] /\ ~Consumed'
  BY Consuming DEF Tick, ClockTypes
<1>5. ClockTypes'
  BY <1>1, <1>4 DEF ClockTypes
<1>6. Flags'
  BY <1>1, ShiftFlags DEF Flags, Tick
<1>7. Places'
  BY <1>1 DEF Places
<1>8. access = "data" => pc = "take" /\ ~UnderWay
  BY TakesAtTake DEF Awaited
<1>9. ReadTrue'
  BY <1>1, <1>3, <1>8 DEF ReadTrue
<1>10. Acknowledged'
  BY <1>1, <1>3, <1>4, <1>8 DEF Acknowledged
<1>11. Mode0'
  BY <1>1 DEF Mode0, Tick, Shift
<1> QED  BY <1>3, <1>5, <1>6, <1>7, <1>9, <1>10, <1>11

\* PHI2 is the input clock: the shifter and the registers see the same rise.
LEMMA RiseClocked == ASSUME SpiInv, Rise, ~ece PROVE SpiInv'
<1> USE DEF SpiInv
<1>1. /\ UNCHANGED <<pc, arg, access, ece, cpol_latch, selected, data_latch>>
      /\ phi2 = LOW /\ phi2' = HIGH /\ ticked' = FALSE
  BY DEF Rise, settings
<1>2. Shift /\ Device /\ Consume(access = "data")
  BY DEF Rise
<1>3. Clocked
  BY <1>2, ShiftCases
<1>4. /\ ShiftTypes' /\ Awaited' /\ AtRest' /\ Halfway'
      /\ ~UnderWay => ~UnderWay' /\ data' = data
      /\ tc' => (tc /\ ~Consumed) \/ pc = "complete"
  BY <1>1, <1>3, ClockedStep
<1>5. data_consumed' \in [{0, 1} -> Bit] /\ (Consumed' <=> access = "data")
  BY <1>2, Consuming DEF ClockTypes
<1>6. ClockTypes'
  BY <1>1, <1>5 DEF ClockTypes, Bit
<1>7. Flags'
  BY <1>1, <1>2, ShiftFlags DEF Flags
<1>8. Places'
  BY <1>1 DEF Places
<1>9. access = "data" => pc = "take" /\ ~UnderWay
  BY TakesAtTake DEF Awaited
<1>10. ReadTrue'
  <2>1. access = "status" => read'.tc = tc
    BY DEF Rise, status_register
  <2>2. access = "data" => read' = data
    BY DEF Rise
  <2>3. tc => ~UnderWay
    BY DEF Awaited
  <2> QED  BY <1>1, <1>4, <1>9, <2>1, <2>2, <2>3 DEF ReadTrue
<1>11. Acknowledged'
  BY <1>1, <1>4, <1>5, <1>9 DEF Acknowledged
<1>12. Mode0'
  BY <1>1, <1>2 DEF Mode0, Shift
<1> QED  BY <1>4, <1>6, <1>7, <1>8, <1>10, <1>11, <1>12

\* The input clock is clk: only the registers see the rise of PHI2.
LEMMA RiseUnclocked == ASSUME SpiInv, Rise, ece PROVE SpiInv'
<1> USE DEF SpiInv
<1>1. /\ UNCHANGED <<pc, arg, access, ece, cpol_latch, selected, data_latch, data, tc, bsy, cpol, sck_line,
                     begin_exchange, miso_latch, shift_count, d_shift, d_latch, d_count, answer>>
      /\ phi2 = LOW /\ phi2' = HIGH /\ ticked' = FALSE
  BY DEF Rise, settings, device
<1>2. ~Consumed
  BY <1>1 DEF Acknowledged, LOW, HIGH
<1>3. data_consumed' \in [{0, 1} -> Bit] /\ (Consumed' <=> access = "data")
  <2>1. CASE access = "data"
    <3>1. data_consumed' = [data_consumed EXCEPT ![1] = 1 - data_consumed[1]]
      BY <2>1 DEF Rise
    <3> QED  BY <1>2, <2>1, <3>1 DEF Consumed, Bit, LOW, HIGH, ClockTypes
  <2>2. CASE access # "data"
    <3>1. data_consumed' = data_consumed
      BY <2>2 DEF Rise
    <3> QED  BY <1>2, <2>2, <3>1 DEF Consumed, ClockTypes
  <2> QED  BY <2>1, <2>2
<1>4. UnderWay' <=> UnderWay
  BY <1>1 DEF UnderWay, Requested
<1>5. ClockTypes' /\ ShiftTypes' /\ Flags'
  BY <1>1, <1>3 DEF ClockTypes, ShiftTypes, Flags, Bit
<1>6. Places' /\ AtRest' /\ Halfway' /\ Mode0'
  BY <1>1 DEF Places, AtRest, Halfway, Mode0
<1>7. Awaited'
  BY <1>1, <1>4 DEF Awaited, Requested
<1>8. access = "data" => pc = "take"
  BY TakesAtTake
<1>9. ReadTrue'
  <2>1. access = "status" => read'.tc = tc
    BY DEF Rise, status_register
  <2>2. access = "data" => read' = data
    BY DEF Rise
  <2>3. tc => ~UnderWay
    BY DEF Awaited
  <2> QED  BY <1>1, <1>4, <1>8, <2>1, <2>2, <2>3 DEF ReadTrue
<1>10. Acknowledged'
  BY <1>1, <1>2, <1>3, <1>8 DEF Acknowledged
<1> QED  BY <1>5, <1>6, <1>7, <1>9, <1>10

--------------------------------------------------------------------------------
(* Falls *)

LEMMA FallCommon ==
    ASSUME SpiInv, Fall
    PROVE  /\ phi2 = HIGH /\ phi2' = LOW /\ (ece => ticked)
           /\ UNCHANGED <<data, tc, bsy, cpol, sck_line, data_consumed, miso_latch, shift_count>>
           /\ ClockTypes' /\ ReadTrue'
           /\ access' = "other" \/ (pc' # "main" /\ access' = Access[pc'])
           /\ (Consumed' <=> Consumed)
           /\ Consumed => pc = "take" /\ access = "data" /\ ~ece
<1>1. /\ phi2 = HIGH /\ phi2' = LOW /\ ticked' = FALSE /\ (ece => ticked) /\ NextAccess
      /\ UNCHANGED <<data, tc, bsy, cpol, sck_line, data_consumed, miso_latch, shift_count>>
  BY DEF Fall
<1>2. ClockTypes' /\ ReadTrue'
  BY <1>1 DEF SpiInv, ClockTypes, ReadTrue, Bit, LOW, HIGH
<1>3. Consumed => pc = "take" /\ access = "data" /\ ~ece
  BY <1>1 DEF SpiInv, Acknowledged, LOW, HIGH
<1> QED  BY <1>1, <1>2, <1>3 DEF NextAccess, Consumed

\* A step of the program that leaves the lines alone and lies outside an exchange,
\* or that waits for its end.
LEMMA QuietFall ==
    ASSUME SpiInv, Fall, SameLines, cpol_latch' = LOW, ece' \in BOOLEAN,
           pc' \in {"main", "busy", "write", "complete", "take", "select", "release", "control", "divisor"},
           pc' \in {"busy", "write"} => arg' \in Byte,
           pc' \in Called => selected,
           UnderWay => pc' = "complete",
           tc /\ ~Consumed => pc' \in {"complete", "take"},
           Consumed => pc' = "main" /\ ece' = ece
    PROVE  SpiInv'
<1> USE DEF SpiInv
<1>1. UNCHANGED <<data, tc, bsy, cpol, sck_line, data_consumed, miso_latch, shift_count, selected,
                  data_latch, begin_exchange, d_shift, d_latch, d_count, answer>>
  BY FallCommon DEF SameLines, device
<1>2. UnderWay' <=> UnderWay
  BY <1>1 DEF UnderWay, Requested
<1>3. ShiftTypes' /\ AtRest' /\ Halfway'
  BY <1>1 DEF ShiftTypes, AtRest, Halfway
<1>4. Flags'
  <2>1. ticked' \in BOOLEAN
    BY DEF Fall
  <2> QED  BY <1>1, <2>1 DEF Flags
<1>5. Places'
  BY <1>1, FallCommon DEF Places
<1>6. Awaited'
  BY <1>1, <1>2 DEF Awaited, Requested
<1>7. Acknowledged'
  <2>1. phi2' = LOW /\ (Consumed' <=> Consumed) /\ tc' = tc
    BY FallCommon
  <2>2. Consumed' => pc' = "main" /\ phi2' = LOW /\ ~ece'
    BY <2>1, FallCommon
  <2>3. tc' => pc' \in {"complete", "take"} \/ Consumed'
    BY <2>1
  <2> QED  BY <2>1, <2>2, <2>3 DEF Acknowledged, LOW, HIGH
<1>8. Mode0'
  BY <1>1 DEF Mode0
<1> QED  BY <1>3, <1>4, <1>5, <1>6, <1>7, <1>8, FallCommon

LEMMA PollBusyStep == ASSUME SpiInv, Fall, PollBusy PROVE SpiInv'
<1>1. pc = "busy" /\ pc' \in {"busy", "write"} /\ arg' = arg /\ SameSettings /\ SameLines
  BY DEF PollBusy
<1>2. arg \in Byte /\ selected /\ ~UnderWay /\ ~Consumed /\ ~tc
  BY <1>1, FallCommon DEF SpiInv, Places, Called, Awaited, Acknowledged
<1> QED  BY <1>1, <1>2, QuietFall DEF SameSettings, SpiInv, Flags, Mode0

LEMMA PollCompleteStep == ASSUME SpiInv, Fall, PollComplete PROVE SpiInv'
<1>1. pc = "complete" /\ pc' \in {"complete", "take"} /\ SameSettings /\ SameLines
  BY DEF PollComplete
<1>2. selected /\ ~Consumed
  BY <1>1, FallCommon DEF SpiInv, Places, Called
<1>3. UnderWay => pc' = "complete"
  BY FallCommon DEF PollComplete, SpiInv, ReadTrue
<1> QED  BY <1>1, <1>2, <1>3, QuietFall DEF SameSettings, SpiInv, Flags, Mode0

LEMMA TakeDataStep == ASSUME SpiInv, Fall, TakeData PROVE SpiInv'
<1>1. pc = "take" /\ access = "data" /\ pc' = "main" /\ SameSettings /\ SameLines
  BY DEF TakeData
<1>2. ~UnderWay /\ (tc => Consumed)
  BY <1>1, FallCommon DEF SpiInv, Awaited, Acknowledged
<1> QED  BY <1>1, <1>2, QuietFall DEF SameSettings, SpiInv, Flags, Mode0, Called

LEMMA CallStep == ASSUME SpiInv, Fall, Call PROVE SpiInv'
<1>1. /\ pc = "main" /\ SameSettings /\ SameLines
      /\ \/ pc' = "busy" /\ selected /\ arg' \in Payload
         \/ pc' \in {"select", "release", "control", "divisor"}
  BY DEF Call
<1>2. ~UnderWay /\ ~Consumed /\ ~tc
  BY <1>1, FallCommon DEF SpiInv, Awaited, Acknowledged
<1>3. Payload \subseteq Byte
  BY SpiAssumption
<1> QED  BY <1>1, <1>2, <1>3, QuietFall DEF SameSettings, SpiInv, Flags, Mode0, Called

LEMMA OtherStep == ASSUME SpiInv, Fall, OtherCycle PROVE SpiInv'
<1>1. access = "other" /\ pc' = pc /\ arg' = arg /\ SameSettings /\ SameLines
  BY DEF OtherCycle
<1>2. ~Consumed /\ (tc => pc \in {"complete", "take"}) /\ (UnderWay => pc = "complete")
  BY <1>1, FallCommon DEF SpiInv, Awaited, Acknowledged
<1> QED  BY <1>1, <1>2, QuietFall DEF SameSettings, SpiInv, Flags, Mode0, Places

LEMMA ControlStep ==
    ASSUME Polarities \subseteq {LOW}, SpiInv, Fall, WriteControl \/ WriteDivisor PROVE SpiInv'
<1>1. pc \in {"control", "divisor"} /\ pc' = "main" /\ SameLines
  BY DEF WriteControl, WriteDivisor
<1>2. ~UnderWay /\ ~Consumed /\ ~tc
  BY <1>1, FallCommon DEF SpiInv, Awaited, Acknowledged
<1>3. ece' \in BOOLEAN /\ cpol_latch' = LOW
  BY DEF WriteControl, WriteDivisor, SpiInv, Flags, Mode0
<1> QED  BY <1>1, <1>2, <1>3, QuietFall DEF Called

LEMMA WriteDataStep == ASSUME SpiInv, Fall, WriteData PROVE SpiInv'
<1> USE DEF SpiInv
<1>1. /\ pc = "write" /\ pc' = "complete" /\ data_latch' = arg
      /\ begin_exchange' = [begin_exchange EXCEPT ![1] = 1 - begin_exchange[1]]
      /\ UNCHANGED <<selected, d_shift, d_latch, d_count, answer, ece, cpol_latch>>
  BY DEF WriteData, device, SameSettings
<1>2. arg \in Byte /\ selected /\ ~UnderWay /\ ~Consumed /\ ~tc
  BY <1>1, FallCommon DEF Places, Called, Awaited, Acknowledged
<1>3. begin_exchange' \in [{0, 1} -> Bit]
  BY <1>1 DEF ShiftTypes, Bit, LOW, HIGH
<1>4. ShiftTypes'
  BY <1>1, <1>2, <1>3, FallCommon DEF ShiftTypes
<1>5. ~bsy' /\ AtRest' /\ Halfway' /\ Awaited'
  BY <1>1, <1>2, FallCommon DEF UnderWay, AtRest, Halfway, Awaited
<1>6. Flags'
  <2>1. ticked' \in BOOLEAN
    BY DEF Fall
  <2> QED  BY <1>1, <2>1, FallCommon DEF Flags
<1>7. Places'
  BY <1>1, <1>2, FallCommon DEF Places, Called
<1>8. Acknowledged'
  BY <1>1, <1>2, FallCommon DEF Acknowledged, LOW, HIGH
<1>9. Mode0'
  BY <1>1, FallCommon DEF Mode0
<1> QED  BY <1>4, <1>5, <1>6, <1>7, <1>8, <1>9, FallCommon

LEMMA SelectStep == ASSUME SpiInv, Fall, Select \/ Release PROVE SpiInv'
<1> USE DEF SpiInv
<1>1. /\ pc \in {"select", "release"} /\ pc' = "main"
      /\ UNCHANGED <<data_latch, begin_exchange, ece, cpol_latch>>
  BY DEF Select, Release, SameSettings
<1>2. ~UnderWay /\ ~Consumed /\ ~tc
  BY <1>1, FallCommon DEF Awaited, Acknowledged
<1>3. /\ answer' \in Byte /\ d_shift' \in Byte /\ d_count' \in 0 .. Bits - 1
      /\ selected' \in BOOLEAN
      /\ selected' => d_shift' = answer' /\ d_count' = 0
  <2>1. CASE Select
    BY <2>1, SpiAssumption, Sizes DEF Select
  <2>2. CASE Release
    BY <2>2 DEF Release, device, ShiftTypes
  <2> QED  BY <2>1, <2>2
<1>4. ShiftTypes'
  BY <1>1, <1>3, FallCommon DEF ShiftTypes
<1>5. ~bsy' /\ ~Requested'
  BY <1>1, <1>2, FallCommon DEF UnderWay, Requested
<1>6. sck_line' = LOW
  BY <1>2, FallCommon DEF UnderWay, AtRest
<1>7. AtRest' /\ Halfway' /\ Awaited'
  BY <1>3, <1>5, <1>6 DEF AtRest, Halfway, Awaited, UnderWay
<1>8. Flags'
  <2>1. ticked' \in BOOLEAN
    BY DEF Fall
  <2> QED  BY <1>1, <1>3, <2>1, FallCommon DEF Flags
<1>9. Places'
  BY <1>1, FallCommon DEF Places, Called
<1>10. Acknowledged'
  BY <1>1, <1>2, FallCommon DEF Acknowledged, LOW, HIGH
<1>11. Mode0'
  BY <1>1, FallCommon DEF Mode0
<1> QED  BY <1>4, <1>7, <1>8, <1>9, <1>10, <1>11, FallCommon

LEMMA FallStep == ASSUME Polarities \subseteq {LOW}, SpiInv, Fall PROVE SpiInv'
<1>1. \/ PollBusy \/ WriteData \/ PollComplete \/ TakeData
      \/ Select \/ Release \/ WriteControl \/ WriteDivisor \/ Call \/ OtherCycle
  BY DEF Fall
<1> QED  BY <1>1, PollBusyStep, WriteDataStep, PollCompleteStep, TakeDataStep, SelectStep, ControlStep,
            CallStep, OtherStep

--------------------------------------------------------------------------------
(* Reset, the initial state and the invariant *)

LEMMA ZeroByte == Zero \in Byte /\ [i \in {0, 1} |-> 0] \in [{0, 1} -> Bit]
<1> QED  BY DEF Zero, Byte, Bit, LOW

LEMMA SpiInit == Init => SpiInv
<1> SUFFICES ASSUME Init PROVE SpiInv
  OBVIOUS
<1>1. ~Requested /\ ~Consumed /\ ~UnderWay
  BY DEF Init, Requested, Consumed, UnderWay
<1>2. ClockTypes /\ ShiftTypes /\ Flags
  <2>1. ClockTypes
    BY ZeroByte DEF Init, ClockTypes, Bit
  <2>2. ShiftTypes
    BY ZeroByte, Sizes DEF Init, ShiftTypes, Bit
  <2>3. Flags
    BY DEF Init, Flags
  <2> QED  BY <2>1, <2>2, <2>3
<1>3. Places /\ Awaited
  BY <1>1 DEF Init, Places, Awaited, Called
<1>4. ReadTrue /\ Acknowledged /\ AtRest /\ Halfway /\ Mode0
  BY <1>1 DEF Init, ReadTrue, Acknowledged, AtRest, Halfway, Mode0
<1> QED  BY <1>2, <1>3, <1>4 DEF SpiInv

LEMMA ResetStep == ASSUME SpiInv, Reset PROVE SpiInv'
<1>1. /\ data_consumed' = [i \in {0, 1} |-> 0] /\ begin_exchange' = [i \in {0, 1} |-> 0]
      /\ pc' = "main" /\ access' = "other" /\ phi2' = LOW /\ ticked' = FALSE /\ tc' = FALSE /\ bsy' = FALSE
      /\ ece' = FALSE /\ selected' = FALSE /\ sck_line' = LOW /\ cpol' = LOW /\ data' = Zero
      /\ UNCHANGED <<cpol_latch, data_latch, d_shift, d_count, answer, shift_count>>
  BY DEF Reset, ShifterCleared, RegistersCleared, Cleared, device
<1>2. ~Requested' /\ ~Consumed' /\ ~UnderWay'
  BY <1>1 DEF Requested, Consumed, UnderWay
<1>3. ClockTypes' /\ ShiftTypes' /\ Flags'
  BY <1>1, ZeroByte DEF SpiInv, ClockTypes, ShiftTypes, Flags, Bit
<1>4. Places' /\ Awaited'
  BY <1>1, <1>2 DEF Places, Awaited, Called
<1>5. ReadTrue' /\ Acknowledged' /\ AtRest' /\ Halfway' /\ Mode0'
  BY <1>1, <1>2 DEF SpiInv, ReadTrue, Acknowledged, AtRest, Halfway, Mode0
<1> QED  BY <1>3, <1>4, <1>5 DEF SpiInv

LEMMA SpiIdle == ASSUME SpiInv, UNCHANGED vars PROVE SpiInv'
<1>1. UNCHANGED <<phi2, ticked, pc, arg, access, read, data, data_latch, tc, bsy, ece, cpol, cpol_latch,
                  sck_line, begin_exchange, data_consumed, miso_latch, shift_count, selected,
                  d_shift, d_latch, d_count, answer>>
  BY DEF vars, program, settings, shifter, device
<1>2. (UnderWay' <=> UnderWay) /\ (Requested' <=> Requested) /\ (Consumed' <=> Consumed)
  BY <1>1 DEF UnderWay, Requested, Consumed
<1>3. ClockTypes' /\ ShiftTypes' /\ Flags' /\ Places' /\ AtRest' /\ Halfway' /\ Mode0'
  BY <1>1 DEF SpiInv, ClockTypes, ShiftTypes, Flags, Places, AtRest, Halfway, Mode0
<1>4. Awaited' /\ ReadTrue' /\ Acknowledged'
  BY <1>1, <1>2 DEF SpiInv, Awaited, ReadTrue, Acknowledged
<1> QED  BY <1>3, <1>4 DEF SpiInv

LEMMA SpiStep == ASSUME Polarities \subseteq {LOW} PROVE SpiInv /\ [Next]_vars => SpiInv'
<1> SUFFICES ASSUME SpiInv, [Next]_vars PROVE SpiInv'
  OBVIOUS
<1>1. ece \/ ~ece
  OBVIOUS
<1> QED  BY <1>1, TickStep, RiseClocked, RiseUnclocked, FallStep, ResetStep, SpiIdle DEF Next

--------------------------------------------------------------------------------
(* The refinement *)

LEMMA Stages ==
    /\ Stage = "loaded" <=> UnderWay
    /\ Stage = "swapped" <=> ~UnderWay /\ pc \in {"complete", "take"}
    /\ Stage = "idle" <=> ~UnderWay /\ pc \notin {"complete", "take"}
<1> QED  BY DEF Stage

\* A rise of the shifter's clock ends an exchange, or goes unseen.
LEMMA ClockedSwaps ==
    ASSUME SpiInv, Clocked, UNCHANGED <<data_latch, selected, pc, got>>
    PROVE  Swap!Exchange \/ UNCHANGED Swap!vars
<1>1. CASE Pause
  <2>1. ~UnderWay /\ ~UnderWay' /\ data' = data
    BY <1>1, PauseStep DEF Pause, UnderWay
  <2>2. UNCHANGED <<Stage, OurByte, answer, received>>
    BY <1>1, <2>1 DEF Stage, OurByte, Pause, device
  <2> QED  BY <2>2 DEF Swap!vars
<1>2. CASE Begin \/ CountDown \/ Sample \/ ShiftBit
  <2>1. UnderWay
    BY <1>2, BeginStep, CountDownStep, SampleStep, ShiftBitStep
  <2>2. bsy'
    BY <1>2 DEF Begin, CountDown, Sample, ShiftBit, During
  <2>3. UNCHANGED <<answer, received>>
    BY <1>2 DEF Begin, CountDown, Sample, ShiftBit, device, DeviceSamples, DeviceShifts
  <2>4. UnderWay'
    BY <2>2 DEF UnderWay
  <2>5. UNCHANGED <<Stage, OurByte>>
    BY <2>1, <2>4 DEF Stage, OurByte
  <2> QED  BY <2>3, <2>5 DEF Swap!vars
<1>3. CASE Finish
  <2>1. UnderWay /\ ~UnderWay' /\ pc' = "complete" /\ data' = answer /\ received' = data_latch
    BY <1>3, FinishStep
  <2>2. Stage = "loaded" /\ Stage' = "swapped" /\ OurByte = data_latch /\ OurByte' = answer
    BY <2>1 DEF Stage, OurByte
  <2>3. answer' \in Byte
    BY <1>3, SpiAssumption DEF Finish, DeviceReady
  <2> QED  BY <2>1, <2>2, <2>3 DEF Swap!Exchange
<1> QED  BY <1>1, <1>2, <1>3 DEF Clocked

LEMMA TickSwaps == ASSUME SpiInv, Tick PROVE Swap!Exchange \/ UNCHANGED Swap!vars
<1>1. Clocked /\ UNCHANGED <<data_latch, selected, pc, got>>
  BY ShiftCases DEF Tick, program, settings
<1> QED  BY <1>1, ClockedSwaps

LEMMA RiseSwaps == ASSUME SpiInv, Rise PROVE Swap!Exchange \/ UNCHANGED Swap!vars
<1>1. UNCHANGED <<data_latch, selected, pc, got>>
  BY DEF Rise, settings
<1>2. CASE ~ece
  <2>1. Clocked
    BY <1>2, ShiftCases DEF Rise
  <2> QED  BY <1>1, <2>1, ClockedSwaps
<1>3. CASE ece
  <2>1. UNCHANGED <<data, bsy, begin_exchange, answer, received>>
    BY <1>3 DEF Rise, device
  <2> QED  BY <1>1, <2>1 DEF Swap!vars, Stage, OurByte, UnderWay, Requested
<1> QED  BY <1>2, <1>3

\* Outside an exchange the byte of the program's side is in data.
LEMMA FallSwaps ==
    ASSUME SpiInv, Fall
    PROVE  Swap!Prepare \/ Swap!Load \/ Swap!Take \/ UNCHANGED Swap!vars
<1>1. UNCHANGED <<data, bsy>>
  BY FallCommon
<1>2. UnderWay => pc = "complete"
  BY DEF SpiInv, Awaited
<1>3. CASE PollBusy \/ Call \/ OtherCycle \/ Release \/ WriteControl \/ WriteDivisor
  <2>1. /\ UNCHANGED <<data_latch, begin_exchange, answer, received, got>>
        /\ pc' = pc \/ (pc \notin {"complete", "take"} /\ pc' \notin {"complete", "take"})
    BY <1>3 DEF PollBusy, Call, OtherCycle, Release, WriteControl, WriteDivisor, SameLines, device
  <2>2. UnderWay' <=> UnderWay
    BY <1>1, <2>1 DEF UnderWay, Requested
  <2>3. UNCHANGED <<Stage, OurByte>>
    BY <1>1, <1>2, <2>1, <2>2 DEF Stage, OurByte
  <2> QED  BY <2>1, <2>3 DEF Swap!vars
<1>4. CASE WriteData
  <2>1. /\ pc = "write" /\ pc' = "complete" /\ data_latch' = arg /\ arg \in Byte
        /\ UNCHANGED <<answer, received, got>>
    BY <1>4 DEF WriteData, device, SpiInv, Places
  <2>2. ~UnderWay /\ UnderWay'
    <3>1. ~UnderWay
      BY <1>2, <2>1
    <3>2. Requested'
      BY <1>4, <3>1 DEF WriteData, UnderWay, Requested, SpiInv, ShiftTypes, Bit, LOW, HIGH
    <3> QED  BY <3>1, <3>2 DEF UnderWay
  <2>3. Stage = "idle" /\ Stage' = "loaded" /\ OurByte' \in Byte
    BY <2>1, <2>2 DEF Stage, OurByte
  <2> QED  BY <2>1, <2>3 DEF Swap!Load
<1>5. CASE PollComplete
  <2>1. /\ pc = "complete" /\ pc' \in {"complete", "take"}
        /\ UNCHANGED <<data_latch, begin_exchange, answer, received, got>>
    BY <1>5 DEF PollComplete, SameLines, device
  <2>2. UnderWay' <=> UnderWay
    BY <1>1, <2>1 DEF UnderWay, Requested
  <2>3. UNCHANGED <<Stage, OurByte>>
    BY <1>1, <2>1, <2>2 DEF Stage, OurByte
  <2> QED  BY <2>1, <2>3 DEF Swap!vars
<1>6. CASE TakeData
  <2>1. /\ pc = "take" /\ access = "data" /\ pc' = "main" /\ got' = read
        /\ UNCHANGED <<data_latch, begin_exchange, answer, received>>
    BY <1>6 DEF TakeData, SameLines, device
  <2>2. ~UnderWay /\ ~UnderWay'
    BY <1>1, <1>2, <2>1 DEF UnderWay, Requested
  <2>3. read = data
    BY <2>1, FallCommon DEF SpiInv, ReadTrue
  <2>4. Stage = "swapped" /\ Stage' = "idle" /\ OurByte = data /\ OurByte' = data
    BY <1>1, <2>1, <2>2 DEF Stage, OurByte
  <2> QED  BY <2>1, <2>3, <2>4 DEF Swap!Take
<1>7. CASE Select
  <2>1. /\ pc = "select" /\ pc' = "main" /\ answer' \in Byte
        /\ UNCHANGED <<data_latch, begin_exchange, received, got>>
    BY <1>7, SpiAssumption DEF Select
  <2>2. ~UnderWay /\ ~UnderWay'
    BY <1>1, <1>2, <2>1 DEF UnderWay, Requested
  <2>3. Stage = "idle" /\ Stage' = "idle" /\ OurByte' = OurByte
    BY <1>1, <2>1, <2>2 DEF Stage, OurByte
  <2> QED  BY <2>1, <2>3 DEF Swap!Prepare
<1> QED  BY <1>3, <1>4, <1>5, <1>6, <1>7 DEF Fall

LEMMA ResetSwaps == ASSUME SpiInv, Reset PROVE Swap!GiveUp
<1>1. /\ ~bsy' /\ pc' = "main" /\ data' = Zero /\ UNCHANGED <<answer, received, got>>
      /\ begin_exchange' = [i \in {0, 1} |-> 0]
  BY DEF Reset, ShifterCleared, RegistersCleared, Cleared, device
<1>2. ~UnderWay'
  BY <1>1 DEF UnderWay, Requested
<1> QED  BY <1>1, <1>2 DEF Swap!GiveUp, Stage, OurByte

LEMMA InitSwaps == Init => Swap!Init
<1> SUFFICES ASSUME Init PROVE Swap!Init
  OBVIOUS
<1>1. ~UnderWay
  BY DEF Init, UnderWay, Requested
<1> QED  BY <1>1, ZeroByte DEF Init, Swap!Init, Stage, OurByte

\* Every SPI_exchange swaps the program's byte for the device's, whole and once, and
\* returns the device's (SPI.v:76-117, SPI.S:35-78): for every length of a byte, every
\* divisor, either input clock and a reset at any point, as long as the program
\* leaves the clock's polarity at 0.
THEOREM SwapsWholeBytes == ASSUME Polarities \subseteq {LOW} PROVE Spec => SwapsBytes
<1>1. SpiInv /\ [Next]_vars => [Swap!Next]_(Swap!vars)
  <2> SUFFICES ASSUME SpiInv, [Next]_vars PROVE [Swap!Next]_(Swap!vars)
    OBVIOUS
  <2>1. CASE UNCHANGED vars
    BY <2>1 DEF vars, program, settings, shifter, device, Swap!vars, Stage, OurByte, UnderWay, Requested
  <2> QED  BY <2>1, TickSwaps, RiseSwaps, FallSwaps, ResetSwaps DEF Next, Swap!Next
<1> QED  BY <1>1, SpiInit, SpiStep, InitSwaps, PTL DEF Spec, SwapsBytes, Swap!Spec
================================================================================
