-------------------------- MODULE FpgaClockProofs --------------------------
(***************************************************************************)
(* Proofs about the two parts of the FPGA that follow PHI2: the control of *)
(* RESB and the cycle counter.                                             *)
(*                                                                         *)
(* RESB: however often a switch bounces, and whatever happens to STOP, GO  *)
(* and the clock scaler, an odd number of strobes between two falls of     *)
(* PHI2 keeps RESB low for two whole cycles of PHI2, and no edge of RESB   *)
(* is left over to cause a second reset.                                   *)
(*                                                                         *)
(* The counter: in whatever order the program reads and writes it, it      *)
(* counts the cycles since it was last made to start again, and the two    *)
(* bytes that are read one after the other are those of one count, up to a *)
(* carry, unless a reset was pending; all for bytes of any size. The       *)
(* invariant, CounterInv, says in which states of the machine a request    *)
(* can be pending and where the program then is, and relates the count to  *)
(* the cycles that have passed (TwoBehind) and to what was read (LoRead).  *)
(***************************************************************************)
EXTENDS ResetControl, CycleCounter, TLAPS

-----------------------------------------------------------------------------
(* RESB *)

\* The two halves of the type invariant: where PHI2 comes from, and RESB.
ClockType ==
  /\ stop \in BOOLEAN /\ dstop \in BOOLEAN \X BOOLEAN /\ go \in BOOLEAN /\ iphi2 \in BOOLEAN
ResetType ==
  /\ switch \in BOOLEAN /\ strobed \in BOOLEAN
  /\ strobed_last \in BOOLEAN /\ countdown \in 0 .. 3
  /\ {edges, due} \subseteq {"none", "odd", "even"} /\ held \in 0 .. 2

\* TypeOK is the two.
LEMMA TypeParts == TypeOK <=> ClockType /\ ResetType
BY DEF TypeOK, ClockType, ResetType

LEMMA ClockTypePreserved == ASSUME ClockType, [Next]_vars PROVE ClockType'
<1>1. CASE Tick
  <2>1. dstop' \in BOOLEAN \X BOOLEAN
    BY <1>1 DEF ClockType, Tick
  <2>2. stop' \in BOOLEAN /\ go' \in BOOLEAN /\ iphi2' \in BOOLEAN
    BY <1>1 DEF ClockType, Tick
  <2> QED
    BY <2>1, <2>2 DEF ClockType
<1>2. CASE ChangeStop \/ ChangeGo
  <2>1. dstop' = dstop /\ iphi2' = iphi2 /\ stop' \in BOOLEAN /\ go' \in BOOLEAN
    BY <1>2 DEF ClockType, ChangeStop, ChangeGo
  <2> QED
    BY <2>1 DEF ClockType
<1>3. CASE UNCHANGED clock
  BY <1>3 DEF ClockType, clock
<1> QED
  BY <1>1, <1>2, <1>3 DEF Next, vars, Strobe, LetGo

LEMMA ResetTypePreserved == ASSUME ResetType, [Next]_vars PROVE ResetType'
<1> USE DEF ResetType
<1>1. CASE Strobe
  <2>1. switch' \in BOOLEAN /\ strobed' \in BOOLEAN /\ edges' \in {"none", "odd", "even"}
    BY <1>1 DEF Strobe
  <2>2. UNCHANGED <<strobed_last, countdown, due, held>>
    BY <1>1 DEF Strobe, control
  <2> QED
    BY <2>1, <2>2
<1>2. CASE LetGo
  <2>1. switch' \in BOOLEAN /\ UNCHANGED <<strobed, strobed_last, countdown, edges, due>>
    BY <1>2 DEF LetGo, control
  <2>2. held' \in 0 .. 2
    BY <1>2 DEF LetGo
  <2> QED
    BY <2>1, <2>2
<1>3. CASE OnFall
  <2>1. switch' \in BOOLEAN
    BY <1>3 DEF OnFall
  <2>2. strobed' \in BOOLEAN /\ {edges', due'} \subseteq {"none", "odd", "even"}
    BY <1>3 DEF OnFall, Fall, reset_history
  <2>3. strobed_last' \in BOOLEAN /\ countdown' \in 0 .. 3 /\ held' \in 0 .. 2
    BY <1>3 DEF OnFall, Fall, Count, control, reset_history
  <2> QED
    BY <2>1, <2>2, <2>3
<1>4. CASE UNCHANGED vars
  BY <1>4 DEF vars, wire, control, reset_history
<1> QED
  BY <1>1, <1>2, <1>3, <1>4 DEF Next, Tick, ChangeStop, ChangeGo

LEMMA InitTyped == ASSUME Init PROVE TypeOK
<1>1. ClockType
  BY DEF Init, ClockType
<1>2. switch \in BOOLEAN /\ strobed \in BOOLEAN /\ strobed_last \in BOOLEAN
  BY DEF Init
<1>3. countdown \in 0 .. 3 /\ {edges, due} \subseteq {"none", "odd", "even"} /\ held \in 0 .. 2
  BY DEF Init
<1> QED
  BY <1>1, <1>2, <1>3, TypeParts DEF ResetType

LEMMA TypeInvariant == Spec => []TypeOK
<1>1. Init => TypeOK
  BY InitTyped
<1>2. TypeOK /\ [Next]_vars => TypeOK'
  BY TypeParts, ClockTypePreserved, ResetTypePreserved DEF TypeOK, ClockType, ResetType
<1> QED
  BY <1>1, <1>2, PTL DEF Spec

-----------------------------------------------------------------------------

\* Strobes that PHI2 has not seen yet: strobed tells whether their number is odd,
\* and the countdown has not begun.
Unseen ==
  /\ edges = "odd" => strobed # strobed_last
  /\ edges = "even" => strobed = strobed_last
  /\ edges # "none" => countdown = 0 /\ (RESB \/ held = 0)

\* How far a reset that is still due has come.
Progress ==
  due = "odd" =>
    /\ edges = "none"
    /\ \/ held = 1 /\ countdown = 3
       \/ held = 2 /\ countdown \in {2, 3}

\* What the line being high says about the history.
Idle == RESB => held = 0

\* An edge that PHI2 has not seen came from outside, or the FPGA still pulls.
Accounted == strobed # strobed_last => edges = "odd" \/ countdown # 0

IInv == TypeOK /\ Accounted /\ Unseen /\ Progress /\ Idle

\* What a falling edge of PHI2 does to the invariant.
LEMMA FallPreserves ==
  ASSUME IInv, Fall, UNCHANGED switch
  PROVE  Accounted' /\ Unseen' /\ Progress' /\ Idle'
<1> USE DEF IInv, TypeOK, RESB
<1>0. /\ edges' = "none"
      /\ due' = (IF edges # "none" THEN edges ELSE IF held < 2 THEN due ELSE "none")
  BY DEF Fall
<1>1. CASE strobed # strobed_last
  <2>1. countdown' = 3 /\ strobed_last' = strobed
    BY <1>1 DEF Fall, Count
  <2>2. held' = (IF held < 2 THEN held + 1 ELSE 2)
    BY <2>1 DEF Fall
  <2>3. Accounted' /\ Unseen' /\ Idle'
    BY <1>0, <2>1 DEF Accounted, Unseen, Idle
  <2>4. Progress'
    <3> SUFFICES ASSUME due' = "odd" PROVE held' \in {1, 2}
      BY <1>0, <2>1 DEF Progress
    <3>1. held \in 0 .. 2
      OBVIOUS
    <3> QED
      BY <2>2, <3>1
  <2> QED
    BY <2>3, <2>4
<1>2. CASE strobed = strobed_last
  <2>1. edges # "odd"
    BY <1>2 DEF Unseen
  <2>2. /\ countdown' = (IF countdown # 0 THEN countdown - 1 ELSE 0)
        /\ UNCHANGED strobed_last
    BY <1>2 DEF Fall, Count
  <2>3. strobed' = strobed
    BY <2>2 DEF Fall
  <2>4. held' = (IF ~switch /\ countdown' = 0 THEN 0 ELSE IF held < 2 THEN held + 1 ELSE 2)
    BY DEF Fall
  <2>5. Accounted' /\ Unseen' /\ Idle'
    BY <1>0, <1>2, <2>2, <2>3, <2>4 DEF Accounted, Unseen, Idle
  <2>6. ASSUME due' = "odd" PROVE held' = 2 /\ countdown' = 2
    <3>1. due = "odd" /\ held < 2
      BY <1>0, <2>1, <2>6
    <3>2. held = 1 /\ countdown = 3
      BY <3>1 DEF Progress
    <3> QED
      BY <2>2, <2>4, <3>2
  <2> QED
    BY <1>0, <2>5, <2>6 DEF Progress
<1> QED
  BY <1>1, <1>2

\* The inductive invariant.
LEMMA Inductive == Spec => []IInv
<1>1. Init => IInv
  <2> SUFFICES ASSUME Init PROVE IInv
    OBVIOUS
  <2>1. TypeOK
    BY InitTyped
  <2>2. Accounted /\ Progress
    BY DEF Init, Accounted, Progress
  <2>3. Unseen /\ Idle
    BY DEF Init, Unseen, Idle
  <2> QED
    BY <2>1, <2>2, <2>3 DEF IInv
<1>2. IInv /\ TypeOK' /\ [Next]_vars => IInv'
  <2> SUFFICES ASSUME IInv, TypeOK', [Next]_vars
               PROVE  Accounted' /\ Unseen' /\ Progress' /\ Idle'
    BY DEF IInv
  <2>1. CASE Strobe
    <3> USE <2>1 DEF Strobe, control, IInv, TypeOK
    <3>1. CASE RESB
      <4>1. /\ edges' = (IF edges = "odd" THEN "even" ELSE "odd") /\ strobed' = ~strobed
            /\ UNCHANGED <<due, held, countdown, strobed_last>> /\ switch' = TRUE
        BY <3>1
      <4>2. held = 0 /\ countdown = 0
        BY <3>1 DEF Idle, RESB
      <4>3. edges = "odd" <=> strobed # strobed_last
        BY <4>2 DEF Accounted, Unseen
      <4>4. due # "odd"
        BY <4>2 DEF Progress
      <4> QED
        BY <4>1, <4>2, <4>3, <4>4 DEF Accounted, Unseen, Progress, Idle, RESB
    <3>2. CASE ~RESB
      <4>1. /\ UNCHANGED <<strobed, edges, due, held, strobed_last, countdown>>
            /\ switch' = TRUE
        BY <3>2
      <4> QED
        BY <3>2, <4>1 DEF Accounted, Unseen, Progress, Idle, RESB
    <3> QED
      BY <3>1, <3>2
  <2>2. CASE LetGo
    <3>1. UNCHANGED <<strobed, edges, due, strobed_last, countdown>> /\ held' \in {0, held}
      BY <2>2 DEF LetGo, control
    <3>2. Accounted'
      BY <3>1 DEF IInv, Accounted
    <3>3. countdown = 0 \/ held' = held
      BY <2>2 DEF LetGo, control, RESB
    <3>4. Progress'
      BY <3>1, <3>3 DEF IInv, Progress
    <3>5. Idle'
      BY <2>2 DEF LetGo, Idle
    <3>6. Unseen'
      BY <2>2, <3>1 DEF IInv, Unseen, LetGo, RESB
    <3> QED
      BY <3>2, <3>4, <3>5, <3>6
  <2>3. ASSUME OnFall PROVE Accounted' /\ Unseen' /\ Progress' /\ Idle'
    <3>1. CASE PHI2 /\ ~PHI2' /\ Fall
      BY <2>3, <3>1, FallPreserves DEF OnFall
    <3>2. CASE UNCHANGED <<strobed, control, reset_history>>
      BY <2>3, <3>2
      DEF OnFall, control, reset_history, IInv, Accounted, Unseen, Progress, Idle, RESB
    <3> QED
      BY <2>3, <3>1, <3>2 DEF OnFall
  <2>4. CASE Tick \/ ChangeStop \/ ChangeGo
    BY <2>3, <2>4 DEF Tick, ChangeStop, ChangeGo
  <2>5. CASE UNCHANGED vars
    BY <2>5
    DEF vars, wire, control, reset_history, IInv, Accounted, Unseen, Progress, Idle, RESB
  <2> QED
    BY <2>1, <2>2, <2>4, <2>5 DEF Next
<1>3. Spec => []TypeOK
  BY TypeInvariant
<1> QED
  BY <1>1, <1>2, <1>3, PTL DEF Spec

-----------------------------------------------------------------------------

\* The types.
THEOREM TypeCorrect == Spec => []TypeOK
BY TypeInvariant

\* However often a switch bounces: an odd number of falls of RESB between two
\* falls of PHI2 is followed, from the second of the two, by two whole cycles of
\* reset (reset_control.v:6-8).
THEOREM StrobeIsHeld == Spec => []StrobeHolds
<1>1. IInv => StrobeHolds
  BY DEF IInv, TypeOK, StrobeHolds, Progress, RESB
<1> QED
  BY <1>1, Inductive, PTL

\* The edge that the FPGA's own pull causes is used up before the line is let go
\* of (reset_control.v:32), however often a switch bounces.
THEOREM NoSecondReset == Spec => []NoEdgeLeftOver
<1>1. IInv => NoEdgeLeftOver
  BY DEF IInv, Accounted, NoEdgeLeftOver, RESB
<1> QED
  BY <1>1, Inductive, PTL

-----------------------------------------------------------------------------
(* The cycle counter *)

CounterTypeOK ==
  /\ phi2 \in {"low", "high"}
  /\ access \in {"other", "read_lo", "read_hi", "write_0"}
  /\ idle \in 0 .. MinGap
  /\ state \in {"RESET", "COUNTING", "HELD"}
  /\ count \in Counts
  /\ hold_request \in BOOLEAN /\ hold_request_prior \in BOOLEAN
  /\ reset_request \in BOOLEAN /\ reset_request_prior \in BOOLEAN
  /\ data_bus_w \in Nat
  /\ lo \in (0 .. LoSize - 1) \union {NoValue}
  /\ shown \in Nat
  /\ read_at \in Counts /\ undone \in BOOLEAN
  /\ since \in Counts \union {NoValue}

\* A request to hold lives from the edge that makes it to the next one.
HoldPending == PendingHold <=> phi2 = "high" /\ access = "read_lo" /\ state = "COUNTING"

\* The program has no LO to go with the HI that it reads next.
NoPair == lo = NoValue \/ undone

\* A request to reset that is made while the count is held, or is there when it
\* gets held, is seen before the program has had the time to access the counter
\* again; so is the reset.
ResetPending ==
  PendingReset /\ state # "COUNTING" =>
    state = "HELD" /\ access = "other" /\ idle = 1 /\ NoPair /\ since = 0
Restarting ==
  state = "RESET" =>
    access = "other" /\ idle <= 2 /\ NoPair /\ since \in {NoValue, Next_count(0)}

\* A read of LO remembers whether a reset was pending.
ReadPending == phi2 = "high" /\ access = "read_lo" => (undone <=> PendingReset)

\* From the read of LO to the next reset the count is held, but for the cycle
\* of the read.
HeldOnceRead ==
  ~NoPair => state = "HELD" \/ (state = "COUNTING" /\ phi2 = "high" /\ access = "read_lo")

\* The cycle counter two cycles behind the cycles since the reset.
Ahead(c) == IF c + 2 < NoValue THEN c + 2 ELSE c + 2 - NoValue
TwoBehind == NoValue >= 3 /\ state = "COUNTING" /\ since # NoValue => since = Ahead(count)

\* The count from which LO was read, and the one that HI is read from.
LoRead ==
  ~NoPair =>
    /\ lo = Low(read_at)
    /\ count = read_at \/ (state = "HELD" /\ count = Next_count(read_at))

CounterInv ==
  /\ CounterTypeOK /\ HoldPending /\ ResetPending /\ Restarting /\ ReadPending /\ HeldOnceRead
  /\ TwoBehind /\ LoRead /\ ShownUpToCarry

\* How many values each byte, and the two together, can take.
LEMMA Sizes ==
  /\ LoSize \in Nat \ {0} /\ HiSize \in Nat \ {0} /\ NoValue \in Nat \ {0}
  /\ LoSize <= NoValue /\ NoValue = LoSize * HiSize /\ Counts = 0 .. NoValue - 1
<1>1. LoSize \in Nat \ {0} /\ HiSize \in Nat \ {0}
  BY CounterAssumption
<1>2. LoSize * HiSize \in Nat \ {0} /\ LoSize <= LoSize * HiSize
  BY <1>1
<1> QED  BY <1>1, <1>2 DEF NoValue, Counts

\* The remainder of Next_count, written as the wrap that it is.
LEMMA NextCount ==
  ASSUME NEW c \in Counts
  PROVE  Next_count(c) = (IF c + 1 = NoValue THEN 0 ELSE c + 1) /\ Next_count(c) \in Counts
<1> DEFINE w == NoValue
<1>1. w \in Nat \ {0} /\ c \in 0 .. w - 1 /\ Next_count(c) = (c + 1) % w /\ Counts = 0 .. w - 1
  BY Sizes DEF Next_count
<1> HIDE DEF w
<1>2. (c + 1) % w = (IF c + 1 = w THEN 0 ELSE c + 1)
  BY <1>1
<1>3. Next_count(c) = (IF c + 1 = w THEN 0 ELSE c + 1) /\ Next_count(c) \in Counts
  BY <1>1, <1>2
<1> QED  BY <1>3 DEF w

\* Division with remainder.
LEMMA Divided ==
  ASSUME NEW c \in Nat, NEW n \in Nat \ {0}
  PROVE  /\ c \div n \in Nat /\ c % n \in 0 .. n - 1
         /\ c = (c \div n) * n + (c % n)
OBVIOUS

\* A quotient and a remainder are those of what they are put together to.
LEMMA Quotient ==
  ASSUME NEW q \in Nat, NEW r \in Nat, NEW n \in Nat \ {0}, r < n
  PROVE  (q * n + r) \div n = q /\ (q * n + r) % n = r
OBVIOUS

\* The quotient changes with the carry, by one, and only then.
LEMMA NoCarry ==
  ASSUME NEW c \in Nat, NEW n \in Nat \ {0}, c % n # n - 1
  PROVE  (c + 1) \div n = c \div n
OBVIOUS

\* The other case.
LEMMA Carry ==
  ASSUME NEW c \in Nat, NEW n \in Nat \ {0}, c % n = n - 1
  PROVE  (c + 1) \div n = (c \div n) + 1
<1> DEFINE q == c \div n
<1>1. q \in Nat /\ c = q * n + (n - 1)
  BY Divided
<1> HIDE DEF q
<1>2. c + 1 = (q + 1) * n + 0
  BY <1>1
<1>3. ((q + 1) * n + 0) \div n = q + 1
  BY <1>1, Quotient
<1>4. (c + 1) \div n = q + 1
  BY <1>2, <1>3, Zenon
<1> QED  BY <1>4 DEF q

\* HI of the count c, or of the one after it, put before LO of c: one too high
\* only when LO was about to carry.
LEMMA PutTogether ==
  ASSUME NEW c \in Counts, NEW d \in {c, Next_count(c)}
  PROVE  LET s == High(d) * LoSize + Low(c)
         IN  \/ s = c
             \/ Low(c) = LoSize - 1 /\ s = (c + LoSize) % NoValue
<1> DEFINE q == c \div LoSize
           r == c % LoSize
           s == High(d) * LoSize + Low(c)
<1>1. /\ c \in Nat /\ c < NoValue /\ q \in Nat /\ r \in 0 .. LoSize - 1 /\ c = q * LoSize + r
  <2>1. c \in Nat /\ c < NoValue /\ LoSize \in Nat \ {0}
    BY Sizes
  <2>2. q \in Nat /\ r \in 0 .. LoSize - 1 /\ c = q * LoSize + r
    BY <2>1, Divided, Zenon
  <2> QED  BY <2>1, <2>2
<1>2. High(c) = q /\ Low(c) = r
  BY DEF High, Low
<1>3. CASE d = c
  BY <1>1, <1>2, <1>3
<1>4. CASE d = Next_count(c) /\ r # LoSize - 1
  <2>1. c + 1 # NoValue
    <3> SUFFICES ASSUME c + 1 = NoValue PROVE FALSE
      OBVIOUS
    <3>1. c = (HiSize - 1) * LoSize + (LoSize - 1) /\ HiSize - 1 \in Nat
      BY <1>1, Sizes
    <3>2. ((HiSize - 1) * LoSize + (LoSize - 1)) % LoSize = LoSize - 1
      <4>1. /\ HiSize - 1 \in Nat /\ LoSize - 1 \in Nat /\ LoSize \in Nat \ {0}
            /\ LoSize - 1 < LoSize
        BY Sizes
      <4> QED  BY <4>1, Quotient, Zenon
    <3> QED  BY <1>4, <3>1, <3>2, Zenon
  <2>2. d = c + 1
    BY <1>4, <2>1, NextCount
  <2>3. High(d) = q
    BY <1>1, <1>4, <2>2, Sizes, NoCarry DEF High
  <2> QED  BY <1>1, <1>2, <2>3
<1>5. CASE d = Next_count(c) /\ r = LoSize - 1 /\ c + 1 # NoValue
  <2>1. d = c + 1
    BY <1>5, NextCount
  <2>2. High(d) = q + 1
    BY <1>1, <1>5, <2>1, Sizes, Carry DEF High
  <2>3. s = c + LoSize
    BY <1>1, <1>2, <2>2, Sizes
  <2>4. s < NoValue
    <3>1. c + 1 = (q + 1) * LoSize /\ (q + 1) * LoSize < LoSize * HiSize
      BY <1>1, <1>5, Sizes
    <3>2. q + 1 < HiSize
      BY <1>1, <3>1, Sizes
    <3>3. (q + 2) * LoSize <= HiSize * LoSize
      BY <1>1, <3>2, Sizes
    <3> QED  BY <1>1, <1>5, <2>3, <3>3, Sizes
  <2>5. (c + LoSize) % NoValue = c + LoSize
    BY <1>1, <2>3, <2>4, Sizes
  <2> QED  BY <1>2, <1>5, <2>3, <2>5
<1>6. CASE d = Next_count(c) /\ r = LoSize - 1 /\ c + 1 = NoValue
  <2>1. d = 0
    BY <1>6, NextCount
  <2>2. High(d) = 0
    BY <2>1, Sizes DEF High
  <2>3. s = LoSize - 1
    BY <1>2, <1>6, <2>2, Sizes
  <2>4. (c + LoSize) % NoValue = LoSize - 1
    BY <1>1, <1>6, Sizes
  <2> QED  BY <1>2, <1>6, <2>3, <2>4
<1> QED  BY <1>3, <1>4, <1>5, <1>6

\* At power-on nothing is pending and the counter is about to start.
LEMMA CounterInitial == CounterInit => CounterInv
<1> SUFFICES ASSUME CounterInit PROVE CounterInv
  OBVIOUS
<1> DEFINE w == NoValue
<1>0. /\ phi2 = "low" /\ access = "other" /\ idle = 0 /\ state = "RESET" /\ count \in {0, w - 1}
      /\ hold_request = FALSE /\ hold_request_prior = FALSE
      /\ reset_request = FALSE /\ reset_request_prior = FALSE
      /\ data_bus_w = 0 /\ lo = w /\ shown = w /\ read_at = 0 /\ undone = FALSE /\ since = w
  BY DEF CounterInit, NoValue
<1>1. CounterTypeOK
  <2>1. w \in Nat \ {0} /\ Counts = 0 .. w - 1 /\ MinGap \in Nat
    BY Sizes, CounterAssumption
  <2> HIDE DEF w
  <2>2. count \in Counts /\ read_at \in Counts /\ idle \in 0 .. MinGap /\ data_bus_w \in Nat /\ shown \in Nat
    BY <1>0, <2>1
  <2> QED  BY <1>0, <2>2 DEF CounterTypeOK, w
<1>2. HoldPending /\ ResetPending /\ Restarting /\ ReadPending
  <2>1. ~PendingHold /\ ~PendingReset /\ phi2 # "high"
    BY <1>0 DEF PendingHold, PendingReset
  <2> QED  BY <1>0, <2>1 DEF HoldPending, ResetPending, Restarting, ReadPending, NoPair
<1>3. HeldOnceRead /\ TwoBehind /\ LoRead /\ ShownUpToCarry
  BY <1>0 DEF HeldOnceRead, TwoBehind, LoRead, ShownUpToCarry, NoPair
<1> QED  BY <1>1, <1>2, <1>3 DEF CounterInv

\* LO and HI of a count are bytes.
LEMMA Bytes == ASSUME NEW c \in Counts PROVE Low(c) \in 0 .. LoSize - 1 /\ High(c) \in Nat
<1>1. c \in Nat /\ LoSize \in Nat \ {0}
  BY Sizes
<1> QED  BY <1>1, Divided DEF Low, High

\* The reads.
LEMMA RisingEdgePreserves == ASSUME CounterInv, RisingEdge PROVE CounterInv'
<1>1. /\ phi2 = "low" /\ phi2' = "high"
      /\ UNCHANGED <<access, idle, state, count, hold_request_prior, reset_request,
                     reset_request_prior, since>>
  BY DEF RisingEdge, bus
<1>2. CounterTypeOK /\ ~PendingHold
  BY <1>1 DEF CounterInv, HoldPending
<1>3. CASE ReadLO
  <2>1. /\ access = "read_lo" /\ hold_request' = Hold /\ data_bus_w' = Low(count)
        /\ lo' = Low(count) /\ read_at' = count /\ undone' = PendingReset /\ shown' = NoValue
    BY <1>3 DEF ReadLO
  <2>2. Low(count) \in 0 .. LoSize - 1 /\ NoValue \in Nat
    BY <1>2, Bytes, Sizes DEF CounterTypeOK
  <2>3. CounterTypeOK'
    <3>1. hold_request' \in BOOLEAN /\ undone' \in BOOLEAN
      BY <1>2, <2>1 DEF CounterTypeOK, Hold, PendingReset
    <3>2. /\ data_bus_w' \in Nat /\ lo' \in (0 .. LoSize - 1) \union {NoValue}
          /\ read_at' \in Counts /\ shown' \in Nat
      BY <1>2, <2>1, <2>2 DEF CounterTypeOK
    <3> QED  BY <1>1, <1>2, <3>1, <3>2 DEF CounterTypeOK
  <2>4. state # "RESET" /\ (PendingReset => state = "COUNTING")
    BY <2>1 DEF CounterInv, ResetPending, Restarting
  <2>5. HoldPending' /\ ResetPending' /\ Restarting' /\ ReadPending'
    <3>1. HoldPending'
      BY <1>1, <1>2, <2>1 DEF HoldPending, PendingHold, Hold, CounterTypeOK
    <3>2. PendingReset' = PendingReset
      BY <1>1 DEF PendingReset
    <3> QED  BY <1>1, <2>1, <2>4, <3>1, <3>2 DEF ResetPending, Restarting, ReadPending
  <2>6. lo' # NoValue /\ lo' = Low(read_at)'
    BY <2>1, <2>2, Sizes DEF Low
  <2>7. HeldOnceRead' /\ LoRead'
    BY <1>1, <1>2, <2>1, <2>4, <2>6 DEF HeldOnceRead, LoRead, NoPair, CounterTypeOK, NoValue
  <2>8. TwoBehind' /\ ShownUpToCarry'
    BY <1>1, <2>1 DEF CounterInv, TwoBehind, ShownUpToCarry, NoValue, Ahead
  <2> QED  BY <2>3, <2>5, <2>7, <2>8 DEF CounterInv
<1>4. CASE ReadHI
  <2>1. /\ access = "read_hi" /\ data_bus_w' = High(count)
        /\ shown' = (IF lo = NoValue THEN NoValue ELSE High(count) * LoSize + lo)
        /\ UNCHANGED <<hold_request, lo, read_at, undone>>
    BY <1>4 DEF ReadHI
  <2>2. High(count) \in Nat /\ NoValue \in Nat /\ LoSize \in Nat
    BY <1>2, Bytes, Sizes DEF CounterTypeOK
  <2>3. shown' \in Nat
    <3>1. CASE lo = NoValue
      BY <2>1, <2>2, <3>1
    <3>2. CASE lo # NoValue
      <4>1. lo \in 0 .. LoSize - 1
        BY <1>2, <3>2 DEF CounterTypeOK
      <4>2. High(count) * LoSize \in Nat
        BY <2>2
      <4> QED  BY <2>1, <3>2, <4>1, <4>2
    <3> QED  BY <3>1, <3>2
  <2>4. CounterTypeOK'
    BY <1>1, <1>2, <2>1, <2>2, <2>3 DEF CounterTypeOK
  <2>5. HoldPending' /\ ResetPending' /\ Restarting' /\ ReadPending'
    BY <1>1, <2>1
       DEF CounterInv, HoldPending, ResetPending, Restarting, ReadPending, PendingHold, PendingReset,
           NoPair, NoValue, Next_count
  <2>6. HeldOnceRead' /\ TwoBehind' /\ LoRead'
    BY <1>1, <2>1 DEF CounterInv, HeldOnceRead, TwoBehind, LoRead, NoPair, NoValue, Low, Next_count, Ahead
  <2>7. ShownUpToCarry'
    <3> SUFFICES ASSUME shown' # NoValue, ~undone' PROVE ShownUpToCarry'
      BY DEF ShownUpToCarry, NoValue
    <3>1. lo # NoValue /\ shown' = High(count) * LoSize + lo /\ ~undone
      BY <2>1
    <3>2. read_at \in Counts /\ lo = Low(read_at) /\ count \in {read_at, Next_count(read_at)}
      BY <1>2, <3>1 DEF CounterInv, CounterTypeOK, LoRead, NoPair
    <3>3. \/ shown' = read_at
          \/ Low(read_at) = LoSize - 1 /\ shown' = (read_at + LoSize) % NoValue
      BY <3>1, <3>2, PutTogether
    <3> QED  BY <2>1, <3>3 DEF ShownUpToCarry, NoValue
  <2> QED  BY <2>4, <2>5, <2>6, <2>7 DEF CounterInv
<1>5. CASE NoRead
  <2>1. /\ access \notin {"read_lo", "read_hi"}
        /\ UNCHANGED <<hold_request, data_bus_w, lo, shown, read_at, undone>>
    BY <1>5 DEF NoRead, program
  <2>2. CounterTypeOK'
    BY <1>1, <1>2, <2>1 DEF CounterTypeOK
  <2>3. HoldPending' /\ ResetPending' /\ Restarting' /\ ReadPending'
    BY <1>1, <2>1
       DEF CounterInv, HoldPending, ResetPending, Restarting, ReadPending, PendingHold, PendingReset,
           NoPair, NoValue, Next_count
  <2>4. HeldOnceRead' /\ TwoBehind' /\ LoRead' /\ ShownUpToCarry'
    BY <1>1, <2>1
       DEF CounterInv, HeldOnceRead, TwoBehind, LoRead, ShownUpToCarry, NoPair, NoValue, Low, Next_count, Ahead
  <2> QED  BY <2>2, <2>3, <2>4 DEF CounterInv
<1> QED  BY <1>3, <1>4, <1>5 DEF RisingEdge

\* The state machine, the write, and the bus cycle that follows.
LEMMA FallingEdgePreserves == ASSUME CounterInv, FallingEdge PROVE CounterInv'
<1>1. /\ phi2 = "high" /\ phi2' = "low" /\ Write /\ CountSince /\ NextAccess
      /\ lo' = (IF access = "write_0" THEN NoValue ELSE lo)
      /\ UNCHANGED <<hold_request, data_bus_w, shown, read_at, undone>>
  BY DEF FallingEdge
<1>2. CounterTypeOK /\ HoldPending /\ ResetPending /\ Restarting /\ ReadPending /\ HeldOnceRead
  BY DEF CounterInv
<1>3. Restart \/ CountCycle \/ HoldCount
  BY DEF FallingEdge
<1>4. MinGap \in Nat /\ MinGap >= 3 /\ NoValue \in Nat \ {0} /\ Counts = 0 .. NoValue - 1
  BY Sizes, CounterAssumption
\* The bus cycle that follows.
<1>5. /\ access' \in {"other", "read_lo", "read_hi", "write_0"} /\ idle' \in 0 .. MinGap
      /\ access # "other" => access' = "other" /\ idle' = 1
      /\ access' # "other" => access = "other" /\ idle >= 2
      /\ access = "other" /\ access' = "other" => idle' <= idle + 1
  BY <1>1, <1>2, <1>4 DEF NextAccess, CounterTypeOK
<1>6. NoPair \/ access = "write_0" <=> NoPair'
  BY <1>1, <1>2 DEF NoPair, NoValue
<1>7. ReadPending'
  BY <1>1 DEF ReadPending
\* The state machine.
<1>9. /\ state' \in {"RESET", "COUNTING", "HELD"}
      /\ hold_request_prior' \in BOOLEAN /\ reset_request_prior' \in BOOLEAN
  BY <1>2, <1>3 DEF Restart, CountCycle, HoldCount, CounterTypeOK
<1>10. count' \in Counts
  <2>1. 0 \in Counts /\ Next_count(count) \in Counts
    BY <1>2, <1>4, NextCount DEF CounterTypeOK
  <2> QED  BY <1>2, <1>3, <2>1 DEF Restart, CountCycle, HoldCount, CounterTypeOK
<1>11. reset_request' \in BOOLEAN /\ since' \in Counts \union {NoValue}
  <2>1. 0 \in Counts
    BY <1>4
  <2>2. since # NoValue => Next_count(since) \in Counts
    BY <1>2, NextCount DEF CounterTypeOK
  <2> QED  BY <1>1, <1>2, <2>1, <2>2 DEF Write, CountSince, CounterTypeOK
<1>12. CounterTypeOK'
  <2>1. lo' \in (0 .. LoSize - 1) \union {NoValue}
    BY <1>1, <1>2 DEF CounterTypeOK
  <2> QED  BY <1>1, <1>2, <1>5, <1>9, <1>10, <1>11, <2>1 DEF CounterTypeOK
<1>13. ~PendingHold'
  BY <1>1, <1>2, <1>3
     DEF Restart, CountCycle, HoldCount, HoldPending, PendingHold, CounterTypeOK
<1>14. HoldPending'
  BY <1>1, <1>13 DEF HoldPending
<1>15. ShownUpToCarry'
  BY <1>1 DEF CounterInv, ShownUpToCarry, NoValue, Low
\* What the three steps of the state machine do to the rest.
<1>16. CASE Restart
  <2>1. /\ state = "RESET" /\ count' = 0 /\ state' = "COUNTING"
        /\ UNCHANGED <<hold_request_prior, reset_request_prior>>
    BY <1>16 DEF Restart
  <2>2. access = "other" /\ NoPair /\ since \in {NoValue, Next_count(0)}
    BY <1>2, <2>1 DEF Restarting
  <2>3. NoPair' /\ since' = (IF since = NoValue THEN NoValue ELSE Next_count(since))
    BY <1>1, <1>6, <2>2 DEF CountSince, StartsAgain
  <2>4. ResetPending' /\ Restarting' /\ HeldOnceRead' /\ LoRead'
    BY <2>1, <2>3 DEF ResetPending, Restarting, HeldOnceRead, LoRead
  <2>5. TwoBehind'
    <3> SUFFICES ASSUME NoValue >= 3, since' # NoValue PROVE since' = Ahead(0)
      BY <2>1 DEF TwoBehind, Ahead, NoValue
    <3>1. 0 \in Counts /\ 1 \in Counts
      BY <1>4
    <3>2. Next_count(0) = 1 /\ Next_count(1) = 2
      BY <1>4, <3>1, NextCount
    <3>3. since' = 2
      BY <2>2, <2>3, <3>2
    <3> QED  BY <1>4, <3>3 DEF Ahead
  <2> QED  BY <1>7, <1>12, <1>14, <1>15, <2>4, <2>5 DEF CounterInv
<1>17. CASE CountCycle
  <2>1. /\ state = "COUNTING" /\ count' = Next_count(count)
        /\ state' = (IF PendingHold THEN "HELD" ELSE "COUNTING")
        /\ reset_request_prior' = reset_request_prior
    BY <1>17 DEF CountCycle
  <2>2. PendingHold <=> access = "read_lo"
    BY <1>1, <1>2, <2>1 DEF HoldPending
  <2>3. ~NoPair => access = "read_lo"
    BY <1>2, <2>1 DEF HeldOnceRead
  <2>4. since' = (IF access = "read_lo" /\ PendingReset THEN 0
                  ELSE IF since = NoValue THEN NoValue ELSE Next_count(since))
    BY <1>1, <2>1 DEF CountSince, StartsAgain
  <2>5. ResetPending'
    <3> SUFFICES ASSUME PendingReset', state' = "HELD"
                 PROVE  access' = "other" /\ idle' = 1 /\ NoPair' /\ since' = 0
      BY <2>1 DEF ResetPending, NoPair, NoValue
    <3>1. access = "read_lo"
      BY <2>1, <2>2
    <3>2. reset_request' = reset_request
      BY <1>1, <3>1 DEF Write
    <3>3. PendingReset
      BY <2>1, <3>2 DEF PendingReset
    <3>4. undone /\ NoPair
      BY <1>1, <1>2, <3>1, <3>3 DEF ReadPending, NoPair
    <3> QED  BY <1>5, <1>6, <2>4, <3>1, <3>3, <3>4
  <2>6. Restarting'
    BY <2>1 DEF Restarting
  <2>7. HeldOnceRead'
    BY <1>6, <2>1, <2>2, <2>3 DEF HeldOnceRead
  <2>8. LoRead'
    <3> SUFFICES ASSUME ~NoPair'
                 PROVE  lo = Low(read_at) /\ state' = "HELD" /\ count' = Next_count(read_at)
      BY <1>1 DEF LoRead, Next_count, Low, NoPair, NoValue
    <3>1. ~NoPair /\ access = "read_lo"
      BY <1>6, <2>3
    <3>2. lo = Low(read_at) /\ count = read_at
      BY <2>1, <3>1 DEF CounterInv, LoRead
    <3> QED  BY <2>1, <2>2, <3>1, <3>2
  <2>9. TwoBehind'
    <3> SUFFICES ASSUME NoValue >= 3, state' = "COUNTING", since' # NoValue
                 PROVE  since' = Ahead(count')
      BY DEF TwoBehind, Ahead, NoValue
    <3>1. since # NoValue /\ since' = Next_count(since)
      BY <2>1, <2>2, <2>4
    <3>2. since = Ahead(count)
      BY <2>1, <3>1 DEF CounterInv, TwoBehind
    <3>3. count \in Counts /\ since \in Counts
      BY <1>2, <3>1 DEF CounterTypeOK
    <3>4. /\ Next_count(count) = (IF count + 1 = NoValue THEN 0 ELSE count + 1)
          /\ Next_count(since) = (IF since + 1 = NoValue THEN 0 ELSE since + 1)
      BY <3>3, NextCount, Zenon
    <3> QED  BY <1>4, <2>1, <3>1, <3>2, <3>3, <3>4 DEF Ahead
  <2> QED  BY <1>7, <1>12, <1>14, <1>15, <2>5, <2>6, <2>7, <2>8, <2>9 DEF CounterInv
<1>18. CASE HoldCount
  <2>1. /\ state = "HELD" /\ state' = (IF PendingReset THEN "RESET" ELSE "HELD")
        /\ reset_request_prior' = reset_request /\ count' = count
    BY <1>18 DEF HoldCount
  <2>2. CASE access = "write_0"
    <3>1. ~PendingReset /\ state' = "HELD"
      BY <1>2, <2>1, <2>2 DEF ResetPending
    <3>2. since' = 0 /\ NoPair' /\ access' = "other" /\ idle' = 1
      BY <1>1, <1>5, <1>6, <2>1, <2>2 DEF CountSince, StartsAgain
    <3>3. ResetPending' /\ Restarting' /\ HeldOnceRead' /\ TwoBehind' /\ LoRead'
      BY <3>1, <3>2
         DEF ResetPending, Restarting, HeldOnceRead, TwoBehind, LoRead
    <3> QED  BY <1>7, <1>12, <1>14, <1>15, <3>3 DEF CounterInv
  <2>3. CASE access # "write_0"
    <3>1. /\ reset_request' = reset_request /\ NoPair' = NoPair
          /\ access = "read_lo" => ~PendingReset
          /\ since' = (IF since = NoValue THEN NoValue ELSE Next_count(since))
      <4>1. access = "read_lo" => ~PendingReset
        BY <1>2, <2>1 DEF ResetPending
      <4>2. since' = (IF since = NoValue THEN NoValue ELSE Next_count(since))
        BY <1>1, <2>3, <4>1 DEF CountSince, StartsAgain
      <4>3. lo' = lo /\ undone' = undone
        BY <1>1, <2>3
      <4>4. NoPair' = NoPair
        BY <4>3 DEF NoPair, NoValue
      <4> QED  BY <1>1, <2>3, <4>1, <4>2, <4>4 DEF Write
    <3>2. ~PendingReset'
      BY <2>1, <3>1 DEF PendingReset
    <3>3. ResetPending'
      BY <3>2 DEF ResetPending
    <3>4. Restarting'
      <4> SUFFICES ASSUME state' = "RESET"
                   PROVE  /\ access' = "other" /\ idle' <= 2 /\ NoPair'
                          /\ since' \in {NoValue, Next_count(0)}
        BY DEF Restarting, NoValue, Next_count
      <4>1. access = "other" /\ idle = 1 /\ NoPair /\ since = 0
        BY <1>2, <2>1 DEF ResetPending
      <4>2. access' = "other" /\ idle' <= 2
        BY <1>4, <1>5, <4>1
      <4> QED  BY <3>1, <4>1, <4>2
    <3>5. ~NoPair => state' = "HELD"
      BY <1>2, <2>1 DEF ResetPending
    <3>6. HeldOnceRead' /\ TwoBehind' /\ LoRead'
      <4>1. ~NoPair' => ~NoPair /\ lo' = lo
        BY <1>1, <1>6, <2>3
      <4>2. HeldOnceRead' /\ TwoBehind'
        BY <2>1, <3>5, <4>1 DEF HeldOnceRead, TwoBehind
      <4>3. LoRead'
        BY <1>1, <2>1, <3>5, <4>1 DEF CounterInv, LoRead, Low, Next_count
      <4> QED  BY <4>2, <4>3
    <3> QED  BY <1>7, <1>12, <1>14, <1>15, <3>3, <3>4, <3>6 DEF CounterInv
  <2> QED  BY <2>2, <2>3
<1> QED  BY <1>3, <1>16, <1>17, <1>18

\* Hence the invariant.
LEMMA CounterInvariant == CounterSpec => []CounterInv
<1>1. CounterInv /\ [CounterNext]_counterVars => CounterInv'
  <2> SUFFICES ASSUME CounterInv, [CounterNext]_counterVars PROVE CounterInv'
    OBVIOUS
  <2>1. CASE CounterNext
    BY <2>1, RisingEdgePreserves, FallingEdgePreserves DEF CounterNext
  <2>2. CASE UNCHANGED counterVars
    BY <2>2
       DEF CounterInv, CounterTypeOK, HoldPending, ResetPending, Restarting, HeldOnceRead,
           ReadPending, TwoBehind, LoRead, ShownUpToCarry, PendingHold, PendingReset, NoPair,
           counterVars, bus, requests, program, history, NoValue, Low, Next_count, Ahead
  <2> QED  BY <2>1, <2>2
<1> QED  BY <1>1, CounterInitial, PTL DEF CounterSpec

\* In whatever order the program reads and writes: as long as it counts, the counter
\* has counted the cycles since a write that found it held, or a read of LO that
\* found a write pending, but for two.
THEOREM CountedFromReset == CounterSpec => []CountsFromReset
<1>1. CounterInv => CountsFromReset
  <2> SUFFICES ASSUME CounterInv, state = "COUNTING", since # NoValue, since >= 2
               PROVE  count = since - 2
    BY DEF CountsFromReset
  <2>1. NoValue \in Nat /\ count \in 0 .. NoValue - 1 /\ since \in 0 .. NoValue - 1
    BY Sizes DEF CounterInv, CounterTypeOK
  <2>2. since = Ahead(count)
    BY <2>1 DEF CounterInv, TwoBehind
  <2> QED  BY <2>1, <2>2 DEF Ahead
<1> QED  BY <1>1, CounterInvariant, PTL

\* Unless a reset was pending when show_cycle_count read LO, what it prints is the
\* count at that time, or one of HI more when LO was about to carry.
THEOREM ShownUpToTheCarry == CounterSpec => []ShownUpToCarry
<1>1. CounterInv => ShownUpToCarry
  BY DEF CounterInv
<1> QED  BY <1>1, CounterInvariant, PTL

=============================================================================
