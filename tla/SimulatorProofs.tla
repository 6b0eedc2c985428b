---------------------------- MODULE SimulatorProofs ----------------------------
(* Proofs about the host simulator, for every size of the queues, every file,   *)
(* every program and everything that is typed, with a reset in whichever half   *)
(* of whichever cycle update_RAM() finds the file changed.                      *)
(*                                                                              *)
(* The invariant says what the level of CLK is in each step of a half cycle     *)
(* (Clocked), that the 6502 only reads once it has noticed RESB (Silent), that  *)
(* what was sampled before CLK rose is what the 6502 still does, or is left     *)
(* over from the cycle that a reset cut (Sampled, Stale), and where a byte is   *)
(* that was taken from the queue for the 6502 (Holding, Received).              *)
EXTENDS Simulator, SequenceTheorems, TLAPS

Marked == 0 .. ANY      \* bytes, and what a reset lost or made up

TypeInv ==
    /\ pc \in {"reset", "pull", "held", "sequence", "loop", "sleep", "load"}
    /\ step \in {"begin", "clock", "end"} /\ left \in 0 .. 14 /\ parity \in {0, 1}
    /\ CLK \in {0, 1} /\ sequence \in 0 .. 7
    /\ currently_resetting \in BOOLEAN /\ driving \in BOOLEAN
    /\ cpu \in Cycle /\ finished \in Cycle \union {NoCycle}
    /\ microprocessor_is \in {"READING", "WRITING"}

\* Bytes and addresses.
Bytes ==
    /\ content \in Files /\ memory \in [Address -> Byte]
    /\ current_address \in Address
    /\ latched_data \in Byte /\ DOUT \in Byte /\ st.size \in Nat
    /\ receive_queue \in Seq(Byte) /\ Len(receive_queue) <= Capacity

Histories ==
    /\ send_queue \in Seq(Byte) /\ held \in Seq(Byte) /\ typed \in Seq(Byte) /\ sent \in Seq(Byte)
    /\ delivered \in Seq(Marked) /\ written \in Seq(Marked)

\* Where perform_reset() and the loop are.
Phases ==
    /\ pc \in {"sequence", "loop", "sleep", "load"} => ~currently_resetting /\ RESB = 1
    /\ pc \in {"pull", "held"} => currently_resetting
    /\ pc = "reset" /\ currently_resetting => CLK = 0 /\ microprocessor_is = "READING"
    /\ pc = "pull" => CLK = 1
    /\ pc = "held" => RESB = 0 /\ sequence = 7 /\ left <= 4
    /\ pc \in {"sleep", "load", "reset", "pull"} => step = "begin"
    /\ pc \in {"held", "sequence"} /\ left = 0 => step = "begin"

\* half_cycles knows the level of CLK, until perform_reset() raises it.
Level == IF step = "end" THEN parity ELSE 1 - parity
Clocked ==
    /\ ~currently_resetting => CLK = Level
    /\ pc = "held" => IF left = 4 /\ step # "end" THEN CLK = 1 ELSE CLK = Level

\* With RESB low the 6502 reads from the first fall of CLK on, until its sequence ends.
FallenInReset == pc = "held" /\ (CLK = 0 \/ left <= 2 \/ (left = 3 /\ parity = 1))
Silent ==
    sequence > 0 /\ (~currently_resetting \/ FallenInReset) =>
        cpu.reads /\ cpu.address \notin SerialPort

\* A write is served that the reset cut short.
Stale == pc = "sequence" /\ left = 14 /\ interrupted = current_address

\* What was sampled is what the 6502 does, before CLK rises, while it is high, and when
\* it has fallen.
Rising ==
    /\ microprocessor_is = "WRITING" <=> ~cpu.reads
    /\ current_address = cpu.address
    /\ ~cpu.reads => ~driving

High ==
    /\ ~cpu.reads => /\ microprocessor_is = "WRITING" /\ current_address = cpu.address /\ ~driving
                     /\ step = "clock" => latched_data = cpu.data
    /\ microprocessor_is = "WRITING" /\ cpu.reads => Stale

Fallen ==
    /\ ~finished.reads => /\ microprocessor_is = "WRITING" /\ current_address = finished.address
                          /\ latched_data = finished.data
    /\ microprocessor_is = "WRITING" /\ finished.reads => Stale

\* In reset the samples stay; those of a write are of the one that was cut.
Cut == microprocessor_is = "WRITING" => interrupted = current_address

Sampled ==
    /\ ~currently_resetting /\ parity = 1 /\ step # "begin" => Rising
    /\ ~currently_resetting /\ parity = 0 /\ step # "end" => High
    /\ ~currently_resetting /\ parity = 0 /\ step = "end" => Fallen
    /\ pc = "pull" /\ parity = 0 => Cut
    /\ pc = "held" /\ (left + parity) % 2 = 0 => Cut

\* The byte that was taken for the 6502 is on the bus until CLK falls.
Holding ==
    held = <<>> \/ (Len(held) = 1 /\ held[1] = DOUT /\ CLK = 1 /\ parity = 0 /\ step # "end")

\* What was typed has been taken for the 6502, is being, or waits.
Received ==
    \E fetched \in Seq(Byte) : /\ Agrees(delivered, fetched)
                               /\ typed = fetched \o held \o receive_queue

Control == TypeInv /\ Phases /\ Clocked /\ Silent /\ Sampled /\ Holding
Inv == /\ Control /\ Bytes /\ Histories /\ NoContention /\ ReadsServed
       /\ Received /\ Agrees(written, sent \o send_queue)

\* Numbers of the byte's range.
LEMMA Numbers ==
    /\ 0 \in Byte /\ Base - 1 \in Byte /\ Byte \subseteq Marked /\ ANY \in Marked
    /\ SERIAL \in Nat /\ SERIAL % 2 = 0 /\ (SERIAL + 1) % 2 = 1
    /\ Capacity \in Nat /\ \A n \in Nat : n <= Capacity => n \in Byte
    /\ 0 \in Address
<1>1. Base \in Nat \ {0}
  BY BaseAssumption
<1>2. SERIAL \in Int /\ 0 <= SERIAL /\ SERIAL % 2 = 0
  BY SimulatorAssumption DEF Address
<1>3. 0 \in Byte /\ Base - 1 \in Byte
  BY <1>1 DEF Byte
<1>4. (SERIAL + 1) % 2 = 1
  BY <1>2
<1>5. Capacity \in Nat /\ \A n \in Nat : n <= Capacity => n \in Byte
  BY <1>1, SimulatorAssumption DEF Byte
<1>6. Byte \subseteq Marked /\ ANY \in Marked
  BY <1>1 DEF Byte, Marked, ANY
<1>7. 0 \in Address
  <2>1. Base * Base \in Int /\ Base * Base > 0
    BY <1>1
  <2> QED
    BY <2>1 DEF Address, Word
<1> QED
  BY <1>2, <1>3, <1>4, <1>5, <1>6, <1>7

\* The steps of a half cycle, in a reset and in the loop.
Turn == (Wait \/ Run) /\ half_cycle

\* The steps that touch neither bus nor 6502.
Rest == CheckFile \/ Second \/ Load \/ Edit \/ Clock \/ UNCHANGED vars

\* Every step is of one of these kinds.
LEMMA Steps ==
    ASSUME [Next]_vars
    PROVE  Turn \/ RaiseCLK \/ PullRESB \/ ReleaseRESB \/ EndReset \/ poll_serial_port \/ Rest
BY DEF Next, Rest, Wait, Run, Turn

\* The step, the parity and the count of a half cycle.
LEMMA TurnFrame ==
    ASSUME TypeInv, Phases, Turn
    PROVE  /\ pc \in {"held", "sequence", "loop"} /\ pc' = pc
           /\ pc = "loop" \/ left > 0
           /\ left' = IF step = "end" /\ pc # "loop" THEN left - 1 ELSE left
           /\ step' = CASE step = "begin" -> "clock" [] step = "clock" -> "end" [] step = "end" -> "begin"
           /\ parity' = IF step = "end" THEN 1 - parity ELSE parity
           /\ finished' = IF CLK = 1 /\ CLK' = 0 THEN cpu ELSE NoCycle
           /\ UNCHANGED <<content, currently_resetting, RESB, typed, sent, interrupted>>
           /\ currently_resetting <=> pc = "held"
           /\ Sample \/ Latch \/ DriveCLK \/ Serve \/ Store \/ NothingInReset
BY DEF Turn, Wait, Run, half_cycle, fileVars, Phases, TypeInv

\* The steps that leave the bus alone: what they change of the loop, of memory, and the file.
LEMMA RestFrame ==
    ASSUME Rest
    PROVE  /\ UNCHANGED <<left, step, parity, currently_resetting, busVars, pins, queues, cpuVars,
                          held, finished, interrupted, serialVars>>
           /\ \/ pc' = pc
              \/ pc = "loop" /\ step = "begin" /\ pc' = "sleep"
              \/ pc = "sleep" /\ pc' = "load"
              \/ pc = "load" /\ pc' = "reset"
           /\ memory' = memory \/ (pc = "load" /\ memory' = load_prg_file(content, bytes_to_load(st.size)))
           /\ content' = content \/ content' \in Files
BY DEF Rest, CheckFile, Second, Load, Edit, Clock, Between, vars, loopVars, ramVars, fileVars, Save, SecondOver

--------------------------------------------------------------------------------

\* The fall of CLK.
Falls == step = "clock" /\ parity = 0 /\ CLK = 1 /\ CLK' = 0 /\ DriveCLK /\ CpuFalls

\* In the course of a half cycle only a fall of CLK moves the 6502.
LEMMA CpuSteps ==
    ASSUME TypeInv, Phases, Turn
    PROVE  \/ Falls
           \/ ~(CLK = 1 /\ CLK' = 0) /\ UNCHANGED cpuVars
<1>1. CASE DriveCLK
  <2>1. step = "clock" /\ CLK' = parity
    BY <1>1 DEF DriveCLK
  <2>2. CASE CLK = 1 /\ parity = 0
    BY <1>1, <2>1, <2>2 DEF DriveCLK, Falls
  <2>3. CASE ~(CLK = 1 /\ parity = 0)
    BY <1>1, <2>1, <2>3 DEF DriveCLK, TypeInv
  <2> QED
    BY <2>2, <2>3
<1>2. CASE Sample \/ Latch \/ Serve \/ Store \/ NothingInReset
  BY <1>2 DEF Sample, Latch, Serve, Store, NothingInReset, TypeInv
<1> QED
  BY <1>1, <1>2, TurnFrame

\* The next cycle of the 6502, when CLK has fallen.
LEMMA NextCycleTyped ==
    ASSUME TypeInv, NextCycle
    PROVE  /\ cpu' \in Cycle /\ sequence' \in 0 .. 7
           /\ sequence' > 0 => cpu'.reads /\ cpu'.address \notin SerialPort
           /\ sequence' = (IF RESB = 0 THEN 7 ELSE IF sequence = 0 THEN 0 ELSE sequence - 1)
BY DEF NextCycle, TypeInv

\* What a reset makes of the cycle it cuts is a cycle.
LEMMA CutCycle ==
    ASSUME cpu \in Cycle, PullRESB
    PROVE  cpu' \in Cycle
<1>1. cpu' = cpu \/ cpu' = [cpu EXCEPT !.reads = TRUE, !.data = 0]
  BY DEF PullRESB
<1>2. [cpu EXCEPT !.reads = TRUE, !.data = 0] \in Cycle
  BY Numbers DEF Cycle
<1> QED
  BY <1>1, <1>2

\* Levels, phases and cycles stay of their kinds.
LEMMA TypeInvPreserved == ASSUME TypeInv, Phases, [Next]_vars PROVE TypeInv'
<1>1. CASE Turn
  <2>1. /\ pc' = pc /\ step' \in {"begin", "clock", "end"} /\ parity' \in {0, 1} /\ left' \in 0 .. 14
        /\ currently_resetting' = currently_resetting
    BY <1>1, TurnFrame DEF TypeInv
  <2>2. CLK' \in {0, 1} /\ driving' \in BOOLEAN /\ microprocessor_is' \in {"READING", "WRITING"}
    <3>1. CASE DriveCLK
      BY <3>1 DEF DriveCLK, TypeInv, busVars
    <3>2. CASE Sample \/ Latch \/ Serve \/ Store \/ NothingInReset
      <4>1. CLK' = CLK
        BY <3>2 DEF Sample, Latch, Serve, Store, NothingInReset
      <4>2. driving' = (driving /\ cpu.reads) \/ driving' = TRUE \/ driving' = driving
        BY <3>2 DEF Sample, Latch, Serve, Store, NothingInReset, LetGo
      <4>3. microprocessor_is' \in {"READING", "WRITING", microprocessor_is}
        BY <3>2 DEF Sample, Latch, Serve, Store, NothingInReset, busVars
      <4> QED
        BY <4>1, <4>2, <4>3 DEF TypeInv
    <3> QED
      BY <1>1, <3>1, <3>2, TurnFrame
  <2>3. cpu' \in Cycle /\ sequence' \in 0 .. 7
    <3>1. CASE Falls
      BY <3>1, NextCycleTyped DEF Falls, CpuFalls
    <3>2. CASE UNCHANGED cpuVars
      BY <3>2 DEF cpuVars, TypeInv
    <3> QED
      BY <1>1, <3>1, <3>2, CpuSteps
  <2>4. finished' \in Cycle \union {NoCycle}
    BY <1>1, TurnFrame DEF TypeInv
  <2> QED
    BY <2>1, <2>2, <2>3, <2>4 DEF TypeInv
<1>2. CASE RaiseCLK
  BY <1>2 DEF RaiseCLK, TypeInv, busVars
<1>3. CASE PullRESB
  <2>1. cpu' \in Cycle
    BY <1>3, CutCycle DEF TypeInv
  <2> QED
    BY <1>3, <2>1 DEF PullRESB, TypeInv, busVars
<1>4. CASE ReleaseRESB
  <2>1. /\ pc' = "sequence" /\ left' = 14 /\ currently_resetting' = FALSE
        /\ UNCHANGED <<step, parity, CLK, driving, cpu, sequence, finished, microprocessor_is>>
    BY <1>4 DEF ReleaseRESB, cpuVars, busVars
  <2>2. currently_resetting' \in BOOLEAN
    BY <2>1
  <2>3. left' \in 0 .. 14 /\ pc' \in {"sequence"}
    BY <2>1
  <2> QED
    BY <2>1, <2>2, <2>3 DEF TypeInv
<1>5. CASE EndReset
  BY <1>5 DEF EndReset, TypeInv, cpuVars, pins, busVars
<1>6. CASE poll_serial_port
  BY <1>6 DEF poll_serial_port, TypeInv, cpuVars, pins, loopVars, busVars
<1>7. CASE Rest
  BY <1>7, RestFrame DEF TypeInv, cpuVars, pins, busVars
<1> QED
  BY <1>1, <1>2, <1>3, <1>4, <1>5, <1>6, <1>7, Steps

\* The phases of loop() and perform_reset() follow each other.
LEMMA PhasesPreserved == ASSUME TypeInv, Phases, [Next]_vars PROVE Phases'
<1>1. CASE Turn
  <2>1. RESB = 0 /\ sequence = 7 => sequence' = 7
    <3>1. CASE Falls
      BY <3>1, NextCycleTyped DEF Falls, CpuFalls
    <3>2. CASE UNCHANGED cpuVars
      BY <3>2 DEF cpuVars
    <3> QED
      BY <1>1, <3>1, <3>2, CpuSteps
  <2>2. /\ pc \in {"held", "sequence", "loop"} /\ pc' = pc /\ UNCHANGED <<currently_resetting, RESB>>
        /\ left' = left \/ (left' = left - 1 /\ step' = "begin")
        /\ pc # "loop" => left > 0
    BY <1>1, TurnFrame DEF TypeInv
  <2> QED
    BY <2>1, <2>2 DEF Phases, TypeInv
<1>2. CASE RaiseCLK
  BY <1>2 DEF RaiseCLK, Phases
<1>3. CASE PullRESB
  BY <1>3 DEF PullRESB, Phases
<1>4. CASE ReleaseRESB
  BY <1>4 DEF ReleaseRESB, Phases
<1>5. CASE EndReset
  BY <1>5 DEF EndReset, Phases, pins
<1>6. CASE poll_serial_port
  BY <1>6 DEF poll_serial_port, Phases, pins, loopVars, cpuVars, busVars
<1>7. CASE Rest
  BY <1>7, RestFrame DEF Phases, pins, cpuVars, busVars
<1> QED
  BY <1>1, <1>2, <1>3, <1>4, <1>5, <1>6, <1>7, Steps

\* CLK keeps the level that half_cycles says.
LEMMA ClockedPreserved == ASSUME TypeInv, Phases, Clocked, [Next]_vars PROVE Clocked'
<1>1. CASE Turn
  <2>1. CASE DriveCLK
    <3>1. step = "clock" /\ step' = "end" /\ CLK' = parity /\ parity' = parity
      BY <1>1, <2>1, TurnFrame DEF DriveCLK
    <3> QED
      BY <3>1 DEF Clocked, Level
  <2>2. CASE Sample \/ Latch \/ Serve \/ Store \/ NothingInReset
    <3>1. step # "clock" /\ CLK' = CLK
      BY <2>2 DEF Sample, Latch, Serve, Store, NothingInReset
    <3>2. /\ pc' = pc /\ currently_resetting' = currently_resetting
          /\ left' = IF step = "end" /\ pc # "loop" THEN left - 1 ELSE left
      BY <1>1, TurnFrame
    <3>3. CASE step = "begin"
      <4>1. step' = "clock" /\ parity' = parity /\ left' = left
        BY <1>1, <3>2, <3>3, TurnFrame
      <4> QED
        BY <3>1, <3>2, <3>3, <4>1 DEF Clocked, Level
    <3>4. CASE step = "end"
      <4>1. step' = "begin" /\ parity' = 1 - parity /\ (pc = "held" => left' < 4)
        BY <1>1, <3>2, <3>4, TurnFrame DEF Phases, TypeInv
      <4> QED
        BY <3>1, <3>2, <3>4, <4>1 DEF Clocked, Level, TypeInv
    <3> QED
      BY <3>1, <3>3, <3>4 DEF TypeInv
  <2> QED
    BY <1>1, <2>1, <2>2, TurnFrame
<1>2. CASE RaiseCLK
  BY <1>2 DEF RaiseCLK, Clocked, Level
<1>3. CASE PullRESB
  BY <1>3 DEF PullRESB, Phases, Clocked, Level
<1>4. CASE ReleaseRESB
  BY <1>4 DEF ReleaseRESB, Clocked, Level
<1>5. CASE EndReset
  BY <1>5 DEF EndReset, Clocked, Level, pins
<1>6. CASE poll_serial_port
  BY <1>6 DEF poll_serial_port, Clocked, Level, pins, loopVars
<1>7. CASE Rest
  BY <1>7, RestFrame DEF Clocked, Level, pins
<1> QED
  BY <1>1, <1>2, <1>3, <1>4, <1>5, <1>6, <1>7, Steps

\* The 6502 reads from the first fall of CLK in reset on.
LEMMA SilentPreserved == ASSUME TypeInv, Phases, Clocked, Silent, [Next]_vars PROVE Silent'
<1>1. CASE Turn
  <2>1. CASE Falls
    BY <2>1, NextCycleTyped DEF Falls, CpuFalls, Silent
  <2>2. CASE ~(CLK = 1 /\ CLK' = 0) /\ UNCHANGED cpuVars
    <3>1. FallenInReset' => FallenInReset
      <4>1. SUFFICES ASSUME pc = "held", FallenInReset' PROVE FallenInReset
        BY <1>1, TurnFrame DEF FallenInReset
      <4>2. CLK' = 0 => CLK = 0
        BY <2>2 DEF TypeInv
      <4>3. CASE step = "end"
        <5>4. left' = left - 1 /\ parity' = 1 - parity /\ left > 0
          BY <1>1, <4>1, <4>3, TurnFrame
        <5>5. CLK = parity
          BY <4>1, <4>3 DEF Clocked, Level
        <5>1. /\ left \in 1 .. 4 /\ left' = left - 1 /\ parity' = 1 - parity /\ CLK = parity
              /\ parity \in {0, 1}
          BY <4>1, <5>4, <5>5 DEF TypeInv, Phases
        <5>2. left = 4 => FallenInReset
          BY <4>1, <4>2, <5>1 DEF FallenInReset
        <5>3. left = 3 => FallenInReset
          BY <4>1, <4>2, <5>1 DEF FallenInReset
        <5> QED
          BY <4>1, <5>1, <5>2, <5>3 DEF FallenInReset
      <4>4. CASE step # "end"
        <5>1. left' = left /\ parity' = parity
          BY <1>1, <4>4, TurnFrame
        <5> QED
          BY <4>1, <4>2, <5>1 DEF FallenInReset
      <4> QED
        BY <4>3, <4>4
    <3> QED
      BY <1>1, <2>2, <3>1, TurnFrame DEF Silent, cpuVars
  <2> QED
    BY <1>1, <2>1, <2>2, CpuSteps
<1>2. CASE RaiseCLK
  BY <1>2 DEF RaiseCLK, Silent, FallenInReset
<1>3. CASE PullRESB
  BY <1>3 DEF PullRESB, Phases, Silent, FallenInReset
<1>4. CASE ReleaseRESB
  BY <1>4 DEF ReleaseRESB, Silent, FallenInReset, cpuVars
<1>5. CASE EndReset
  BY <1>5 DEF EndReset, Silent, FallenInReset, pins, cpuVars
<1>6. CASE poll_serial_port
  BY <1>6 DEF poll_serial_port, Silent, FallenInReset, pins, loopVars, cpuVars
<1>7. CASE Rest
  BY <1>7, RestFrame DEF Silent, FallenInReset, pins, cpuVars
<1> QED
  BY <1>1, <1>2, <1>3, <1>4, <1>5, <1>6, <1>7, Steps

--------------------------------------------------------------------------------

\* A served half cycle goes on with what was sampled.
LEMMA SampledInTurn ==
    ASSUME TypeInv, Phases, Clocked, Silent, Sampled, Turn, ~currently_resetting
    PROVE  Sampled'
<1>1. /\ ~currently_resetting' /\ pc' = pc /\ pc \notin {"pull", "held"}
      /\ interrupted' = interrupted
  BY TurnFrame DEF Phases
<1>2. CASE Sample
  <2>1. /\ step' = "clock" /\ parity' = 1
        /\ current_address' = cpu.address /\ microprocessor_is' = (IF cpu.reads THEN "READING" ELSE "WRITING")
        /\ driving' = (driving /\ cpu.reads) /\ cpu' = cpu
    BY <1>2, TurnFrame DEF Sample, SampledAddress, LetGo, cpuVars
  <2>2. Rising'
    BY <2>1 DEF Rising
  <2> QED
    BY <1>1, <2>1, <2>2 DEF Sampled
<1>3. CASE Latch
  <2>1. /\ step = "begin" /\ step' = "clock" /\ parity = 0 /\ parity' = 0 /\ left' = left
        /\ UNCHANGED <<current_address, microprocessor_is, driving, cpu>>
    BY <1>3, TurnFrame DEF Latch, cpuVars
  <2>2. CLK = 1
    BY <2>1 DEF Clocked, Level
  <2>3. High
    BY <2>1 DEF Sampled
  <2>4. ~cpu.reads => latched_data' = cpu.data
    BY <1>3, <2>2, <2>3 DEF Latch, High, OnBus, CpuDrives
  <2>5. High'
    BY <1>1, <2>1, <2>3, <2>4 DEF High, Stale
  <2> QED
    BY <1>1, <2>1, <2>5 DEF Sampled
<1>4. CASE DriveCLK
  <2>1. /\ step = "clock" /\ step' = "end" /\ CLK' = parity /\ parity' = parity /\ left' = left
        /\ UNCHANGED <<current_address, microprocessor_is, latched_data, driving>>
    BY <1>4, TurnFrame DEF DriveCLK, busVars
  <2>2. CASE parity = 1
    <3>1. cpu' = cpu
      BY <2>1, <2>2, CpuSteps DEF Falls, cpuVars
    <3>2. Rising
      BY <2>1, <2>2 DEF Sampled
    <3>3. Rising'
      BY <2>1, <3>1, <3>2 DEF Rising
    <3> QED
      BY <1>1, <2>1, <2>2, <3>3 DEF Sampled
  <2>3. CASE parity = 0
    <3>1. CLK = 1
      BY <2>1, <2>3 DEF Clocked, Level
    <3>2. finished' = cpu
      BY <2>1, <2>3, <3>1, TurnFrame
    <3>3. High
      BY <2>1, <2>3 DEF Sampled
    <3>4. Fallen'
      BY <1>1, <2>1, <3>2, <3>3 DEF High, Fallen, Stale
    <3> QED
      BY <1>1, <2>1, <2>3, <3>4 DEF Sampled
  <2> QED
    BY <2>2, <2>3 DEF TypeInv
<1>5. CASE Serve
  <2>1. /\ step = "end" /\ step' = "begin" /\ parity = 1 /\ parity' = 0
        /\ UNCHANGED <<current_address, microprocessor_is, cpu>>
        /\ microprocessor_is # "READING" => driving' = driving
    BY <1>5, TurnFrame DEF Serve, busVars, cpuVars
  <2>2. Rising
    BY <2>1 DEF Sampled
  <2>3. High'
    BY <2>1, <2>2 DEF Rising, High
  <2> QED
    BY <1>1, <2>1, <2>3 DEF Sampled
<1>6. CASE Store
  <2>1. step' = "begin" /\ parity' = 1
    BY <1>6, TurnFrame DEF Store
  <2> QED
    BY <1>1, <2>1 DEF Sampled
<1> QED
  BY <1>2, <1>3, <1>4, <1>5, <1>6, TurnFrame DEF NothingInReset

\* In a half cycle in reset the samples stay as they are.
LEMMA SampledInReset ==
    ASSUME TypeInv, Phases, Sampled, Turn, currently_resetting
    PROVE  Sampled'
<1>1. /\ currently_resetting' /\ pc = "held" /\ pc' = pc /\ left \in 1 .. 4 /\ parity \in {0, 1}
      /\ interrupted' = interrupted
  <2>1. pc = "held" /\ pc' = pc /\ left > 0 /\ currently_resetting' = currently_resetting
        /\ interrupted' = interrupted
    BY TurnFrame
  <2> QED
    BY <2>1 DEF Phases, TypeInv
<1>2. UNCHANGED <<current_address, microprocessor_is>>
  BY TurnFrame DEF Sample, Latch, Serve, Store, DriveCLK, NothingInReset, busVars
<1>3. Cut => Cut'
  BY <1>1, <1>2 DEF Cut
<1>4. (left' + parity') % 2 = (left + parity) % 2
  <2>1. CASE step = "end"
    <3>1. left' = left - 1 /\ parity' = 1 - parity
      BY <1>1, <2>1, TurnFrame
    <3> QED
      BY <1>1, <3>1
  <2>2. CASE step # "end"
    BY <2>2, TurnFrame
  <2> QED
    BY <2>1, <2>2
<1> QED
  BY <1>1, <1>3, <1>4 DEF Sampled

\* What was sampled stays what the 6502 does, or what it did when it was reset.
LEMMA SampledPreserved ==
    ASSUME TypeInv, Phases, Clocked, Silent, Sampled, [Next]_vars
    PROVE  Sampled'
<1>1. CASE Turn
  BY <1>1, SampledInTurn, SampledInReset
<1>2. CASE RaiseCLK
  <2>1. /\ pc = "reset" /\ pc' = "pull" /\ currently_resetting' = TRUE /\ step = "begin"
        /\ UNCHANGED <<parity, current_address, microprocessor_is>>
        /\ interrupted' = IF CLK = 1 /\ ~cpu.reads THEN cpu.address ELSE NOWHERE
    BY <1>2 DEF RaiseCLK, busVars, Phases
  <2>2. ASSUME parity = 0 PROVE Cut'
    <3>1. CASE currently_resetting
      BY <2>1, <3>1 DEF Phases, Cut
    <3>2. CASE ~currently_resetting
      <4>1. CLK = 1 /\ High
        BY <2>1, <2>2, <3>2 DEF Clocked, Level, Sampled
      <4> QED
        BY <2>1, <4>1 DEF High, Stale, Cut
    <3> QED
      BY <3>1, <3>2
  <2> QED
    BY <2>1, <2>2 DEF Sampled
<1>3. CASE PullRESB
  <2>1. /\ pc = "pull" /\ pc' = "held" /\ left' = 4 /\ currently_resetting'
        /\ UNCHANGED <<parity, current_address, microprocessor_is, interrupted>>
    BY <1>3 DEF PullRESB, busVars, Phases
  <2>2. (left' + parity') % 2 = 0 => parity = 0
    BY <2>1 DEF TypeInv
  <2>3. Cut => Cut'
    BY <2>1 DEF Cut
  <2> QED
    BY <2>1, <2>2, <2>3 DEF Sampled
<1>4. CASE ReleaseRESB
  <2>1. /\ pc = "held" /\ left = 0 /\ pc' = "sequence" /\ left' = 14 /\ step' = "begin" /\ step = "begin"
        /\ UNCHANGED <<parity, current_address, microprocessor_is, interrupted, cpu>>
    BY <1>4 DEF ReleaseRESB, busVars, cpuVars, Phases
  <2>2. cpu.reads
    BY <2>1 DEF Silent, FallenInReset, Phases
  <2>3. ASSUME parity = 0 PROVE High'
    <3>1. (left + parity) % 2 = 0
      BY <2>1, <2>3
    <3>2. Cut
      BY <2>1, <3>1 DEF Sampled
    <3> QED
      BY <2>1, <2>2, <3>2 DEF High, Stale, Cut
  <2> QED
    BY <2>1, <2>3 DEF Sampled
<1>5. CASE EndReset
  <2>1. /\ pc = "sequence" /\ left = 0 /\ pc' = "loop" /\ step = "begin"
        /\ UNCHANGED <<step, parity, currently_resetting, current_address, microprocessor_is, cpu, driving>>
    BY <1>5 DEF EndReset, busVars, cpuVars, pins, Phases
  <2>2. High => High'
    BY <2>1 DEF High, Stale
  <2> QED
    BY <2>1, <2>2 DEF Sampled
<1>6. CASE poll_serial_port \/ (Rest /\ pc' = pc)
  <2>1. UNCHANGED <<pc, left, step, parity, currently_resetting, current_address, microprocessor_is,
                    latched_data, driving, cpu, finished, interrupted>>
    BY <1>6, RestFrame DEF poll_serial_port, loopVars, busVars, pins, cpuVars
  <2>2. (Rising => Rising') /\ (High => High') /\ (Fallen => Fallen') /\ (Cut => Cut')
    BY <2>1 DEF Rising, High, Fallen, Cut, Stale
  <2> QED
    BY <2>1, <2>2 DEF Sampled
<1>7. CASE Rest /\ pc' # pc
  <2>1. /\ pc' \in {"sleep", "load", "reset"} /\ pc \in {"loop", "sleep", "load"} /\ step = "begin"
        /\ UNCHANGED <<left, step, parity, currently_resetting, current_address, microprocessor_is,
                    latched_data, driving, cpu, finished, interrupted>>
    BY <1>7, RestFrame DEF busVars, pins, cpuVars, Phases
  <2>2. High => High'
    BY <2>1 DEF High, Stale
  <2> QED
    BY <2>1, <2>2 DEF Sampled
<1> QED
  BY <1>1, <1>2, <1>3, <1>4, <1>5, <1>6, <1>7, Steps

\* What a read of a device puts on the bus.
LEMMA ReadEffect ==
    ASSUME Bytes, DeviceRead
    PROVE  /\ DOUT' \in Byte
           /\ current_address \notin SerialPort => DOUT' = memory[current_address]
           /\ current_address = SERIAL => DOUT' = Len(receive_queue)
           /\ \/ /\ UNCHANGED <<receive_queue, held>>
                 /\ current_address = SERIAL + 1 => DOUT' = Base - 1
              \/ /\ receive_queue # <<>> /\ current_address = SERIAL + 1
                 /\ DOUT' = Head(receive_queue) /\ receive_queue' = Tail(receive_queue)
                 /\ held' = <<DOUT'>>
<1>1. SERIAL \in SerialPort /\ SERIAL + 1 \in SerialPort
  BY DEF SerialPort
<1>2. CASE current_address \notin SerialPort
  <2>1. DOUT' = memory[current_address] /\ UNCHANGED <<receive_queue, held>>
    BY <1>2 DEF DeviceRead, addressed_device
  <2> QED
    BY <1>1, <1>2, <2>1 DEF Bytes
<1>3. CASE current_address = SERIAL
  <2>1. DOUT' = Len(receive_queue) /\ UNCHANGED <<receive_queue, held>>
    BY <1>1, <1>3, Numbers DEF DeviceRead, addressed_device, SerialRead
  <2>2. Len(receive_queue) \in Byte
    BY Numbers, LenProperties DEF Bytes
  <2> QED
    BY <1>1, <1>3, <2>1, <2>2, Numbers
<1>4. CASE current_address = SERIAL + 1
  <2>1. SerialRead(current_address)
    BY <1>1, <1>4 DEF DeviceRead, addressed_device
  <2>2. CASE receive_queue # <<>>
    <3>1. /\ DOUT' = Head(receive_queue) /\ receive_queue' = Tail(receive_queue)
          /\ held' = <<Head(receive_queue)>>
      BY <1>4, <2>1, <2>2, Numbers DEF SerialRead
    <3>2. Head(receive_queue) \in Byte
      BY <2>2, HeadTailProperties DEF Bytes
    <3> QED
      BY <1>1, <1>4, <2>2, <3>1, <3>2, Numbers
  <2>3. CASE receive_queue = <<>>
    <3>1. DOUT' = Base - 1 /\ UNCHANGED <<receive_queue, held>>
      BY <1>4, <2>1, <2>3, Numbers DEF SerialRead
    <3> QED
      BY <1>1, <1>4, <3>1, Numbers
  <2> QED
    BY <2>2, <2>3
<1> QED
  BY <1>2, <1>3, <1>4 DEF SerialPort

\* The byte that was taken for the 6502 stays on the bus until CLK falls.
LEMMA HoldingPreserved ==
    ASSUME Control, Bytes, [Next]_vars
    PROVE  Holding'
<1> USE DEF Control
<1>1. CASE Turn
  <2>1. CASE Falls
    BY <2>1 DEF Falls, CpuFalls, Holding
  <2>2. CASE DriveCLK /\ ~Falls
    <3>1. step = "clock" /\ CLK' = parity /\ ~(CLK = 1 /\ CLK' = 0)
      BY <1>1, <2>2, CpuSteps DEF DriveCLK
    <3>2. held' = held
      BY <2>2, <3>1 DEF DriveCLK
    <3>3. held = <<>>
      BY <3>1 DEF Holding
    <3> QED
      BY <3>2, <3>3 DEF Holding
  <2>3. CASE Serve
    <3>1. step = "end" /\ parity = 1 /\ step' = "begin" /\ parity' = 0 /\ CLK' = CLK /\ CLK = 1
      BY <1>1, <2>3, TurnFrame DEF Serve, Clocked, Level
    <3>2. held = <<>>
      BY <3>1 DEF Holding
    <3>3. CASE held' = held
      BY <3>2, <3>3 DEF Holding
    <3>4. CASE held' = <<DOUT'>>
      BY <3>1, <3>4 DEF Holding
    <3> QED
      BY <2>3, <3>3, <3>4, ReadEffect DEF Serve
  <2>4. CASE Sample \/ Latch \/ Store \/ NothingInReset
    <3>1. UNCHANGED <<held, DOUT, CLK>> /\ step # "clock"
      BY <2>4 DEF Sample, Latch, Store, NothingInReset
    <3>2. CASE held = <<>>
      BY <3>1, <3>2 DEF Holding
    <3>3. CASE held # <<>>
      <4>1. step = "begin" /\ parity = 0
        BY <3>1, <3>3 DEF Holding, TypeInv
      <4>2. step' = "clock" /\ parity' = 0
        BY <1>1, <4>1, TurnFrame
      <4> QED
        BY <3>1, <3>3, <4>2 DEF Holding
    <3> QED
      BY <3>2, <3>3
  <2> QED
    BY <1>1, <2>1, <2>2, <2>3, <2>4, TurnFrame
<1>2. CASE RaiseCLK
  <2>1. UNCHANGED <<held, DOUT, step, parity>> /\ CLK' = 1
    BY <1>2 DEF RaiseCLK
  <2> QED
    BY <2>1 DEF Holding
<1>3. CASE PullRESB
  BY <1>3 DEF PullRESB, Holding
<1>4. CASE ReleaseRESB \/ EndReset \/ poll_serial_port \/ Rest
  <2>1. UNCHANGED <<held, DOUT, CLK, step, parity>>
    BY <1>4, RestFrame DEF ReleaseRESB, EndReset, poll_serial_port, pins, loopVars
  <2> QED
    BY <2>1 DEF Holding
<1> QED
  BY <1>1, <1>2, <1>3, <1>4, Steps

--------------------------------------------------------------------------------

\* Joining sequences of bytes.
LEMMA Joining == ASSUME NEW p \in Seq(Byte), NEW q \in Seq(Byte) PROVE p \o q \in Seq(Byte)
BY ConcatProperties

\* Joining is associative.
LEMMA Regrouping ==
    ASSUME NEW p \in Seq(Byte), NEW q \in Seq(Byte), NEW r \in Seq(Byte)
    PROVE  (p \o q) \o r = p \o (q \o r)
BY ConcatAssociative, SMTT(30)

\* Appending a byte, or a marked one.
LEMMA Appending ==
    /\ \A p \in Seq(Byte), b \in Byte : Append(p, b) \in Seq(Byte)
    /\ \A p \in Seq(Marked), b \in Marked : Append(p, b) \in Seq(Marked)
OBVIOUS

\* The first byte of a queue, and the rest.
LEMMA Splitting ==
    ASSUME NEW q \in Seq(Byte), q # <<>>
    PROVE  /\ Head(q) \in Byte /\ Tail(q) \in Seq(Byte) /\ <<Head(q)>> \in Seq(Byte)
           /\ Len(Tail(q)) = Len(q) - 1
<1>1. Head(q) \in Byte /\ Tail(q) \in Seq(Byte) /\ Len(Tail(q)) = Len(q) - 1
  BY HeadTailProperties
<1> QED
  BY <1>1

\* A byte that is queued joins the end of all that came this way.
LEMMA JoinQueued ==
    ASSUME NEW s \in Seq(Byte), NEW q \in Seq(Byte), NEW b \in Byte
    PROVE  Append(s \o q, b) = s \o Append(q, b)
<1>1. <<b>> \in Seq(Byte) /\ s \o q \in Seq(Byte)
  BY Joining
<1>2. Append(s \o q, b) = (s \o q) \o <<b>> /\ Append(q, b) = q \o <<b>>
  BY <1>1, AppendIsConcat
<1> QED
  BY <1>1, <1>2, Regrouping

\* Taking the first byte of a queue splits it.
LEMMA SplitHead ==
    ASSUME NEW q \in Seq(Byte), q # <<>> PROVE q = <<Head(q)>> \o Tail(q)
<1>1. /\ Head(q) \in Byte /\ Tail(q) \in Seq(Byte) /\ Len(Tail(q)) = Len(q) - 1
      /\ \A i \in 1 .. Len(Tail(q)) : Tail(q)[i] = q[i + 1]
  BY HeadTailProperties
<1>2. Len(q) \in Nat \ {0}
  BY EmptySeq
<1>3. <<Head(q)>> \in Seq(Byte) /\ Len(<<Head(q)>>) = 1
  BY <1>1
<1>4. /\ <<Head(q)>> \o Tail(q) \in Seq(Byte)
      /\ Len(<<Head(q)>> \o Tail(q)) = Len(q)
      /\ \A i \in 1 .. Len(q) : (<<Head(q)>> \o Tail(q))[i] =
           IF i <= 1 THEN <<Head(q)>>[i] ELSE Tail(q)[i - 1]
  BY <1>1, <1>2, <1>3, ConcatProperties
<1>5. ASSUME NEW i \in 1 .. Len(q) PROVE (<<Head(q)>> \o Tail(q))[i] = q[i]
  <2>1. CASE i = 1
    BY <1>4, <2>1
  <2>2. CASE i > 1
    <3>1. i - 1 \in 1 .. Len(Tail(q)) /\ (i - 1) + 1 = i
      BY <1>1, <1>2, <2>2
    <3>2. Tail(q)[i - 1] = q[i]
      BY <1>1, <3>1
    <3> QED
      BY <1>4, <2>2, <3>2
  <2> QED
    BY <2>1, <2>2
<1> QED
  BY <1>4, <1>5, SeqEqual

\* A byte moves from the queue to the 6502.
LEMMA JoinTaken ==
    ASSUME NEW d \in Seq(Byte), NEW q \in Seq(Byte), q # <<>>
    PROVE  (d \o <<>>) \o q = (d \o <<Head(q)>>) \o Tail(q)
<1>1. Tail(q) \in Seq(Byte) /\ <<Head(q)>> \in Seq(Byte)
  BY Splitting
<1>2. d \o <<>> = d
  BY ConcatEmptySeq
<1> QED
  BY <1>1, <1>2, SplitHead, Regrouping

\* Sequences of bytes are sequences of marked ones.
LEMMA Unmarked == ASSUME NEW s \in Seq(Byte) PROVE s \in Seq(Marked)
BY Numbers

\* Agreement grows byte by byte.
LEMMA AgreesAppend ==
    ASSUME NEW m \in Seq(Marked), NEW s \in Seq(Byte), Agrees(m, s), NEW b \in Byte, NEW x \in {b, ANY}
    PROVE  Agrees(Append(m, x), Append(s, b))
<1>1. x \in Marked /\ Len(m) = Len(s) /\ Len(m) \in Nat
  BY Numbers, LenProperties DEF Agrees
<1>2. /\ Len(Append(m, x)) = Len(m) + 1 /\ Append(m, x)[Len(m) + 1] = x
      /\ \A i \in 1 .. Len(m) : Append(m, x)[i] = m[i]
  BY <1>1, AppendProperties
<1>3. /\ Len(Append(s, b)) = Len(s) + 1 /\ Append(s, b)[Len(s) + 1] = b
      /\ \A i \in 1 .. Len(s) : Append(s, b)[i] = s[i]
  BY AppendProperties
<1>4. ASSUME NEW i \in 1 .. Len(m) + 1 PROVE Append(m, x)[i] \in {Append(s, b)[i], ANY}
  <2>1. CASE i = Len(m) + 1
    BY <1>1, <1>2, <1>3, <2>1
  <2>2. CASE i \in 1 .. Len(m)
    BY <1>1, <1>2, <1>3, <2>2 DEF Agrees
  <2> QED
    BY <1>1, <2>1, <2>2
<1> QED
  BY <1>1, <1>2, <1>3, <1>4 DEF Agrees

\* What follows both is the same.
LEMMA AgreesConcat ==
    ASSUME NEW m \in Seq(Marked), NEW s \in Seq(Byte), NEW c \in Seq(Byte), Agrees(m, s)
    PROVE  m \o c \in Seq(Marked) /\ s \o c \in Seq(Byte) /\ Agrees(m \o c, s \o c)
<1>1. c \in Seq(Marked) /\ Len(m) = Len(s) /\ Len(m) \in Nat /\ Len(c) \in Nat
  BY Unmarked, LenProperties DEF Agrees
<1>2. /\ m \o c \in Seq(Marked) /\ Len(m \o c) = Len(m) + Len(c)
      /\ \A i \in 1 .. Len(m) + Len(c) : (m \o c)[i] = IF i <= Len(m) THEN m[i] ELSE c[i - Len(m)]
  BY <1>1, ConcatProperties
<1>3. /\ s \o c \in Seq(Byte) /\ Len(s \o c) = Len(s) + Len(c)
      /\ \A i \in 1 .. Len(s) + Len(c) : (s \o c)[i] = IF i <= Len(s) THEN s[i] ELSE c[i - Len(s)]
  BY ConcatProperties
<1>4. ASSUME NEW i \in 1 .. Len(m) + Len(c) PROVE (m \o c)[i] \in {(s \o c)[i], ANY}
  <2>1. CASE i <= Len(m)
    BY <1>1, <1>2, <1>3, <2>1 DEF Agrees
  <2>2. CASE i > Len(m)
    BY <1>1, <1>2, <1>3, <2>2
  <2> QED
    BY <1>1, <2>1, <2>2
<1> QED
  BY <1>1, <1>2, <1>3, <1>4 DEF Agrees

\* A queue takes a byte or is full.
LEMMA Accepted ==
    ASSUME NEW q \in Seq(Byte), NEW b \in Byte
    PROVE  /\ Accept(q, b) \in Seq(Byte)
           /\ Len(q) < Capacity => Accept(q, b) = Append(q, b) /\ Len(Accept(q, b)) = Len(q) + 1
           /\ ~(Len(q) < Capacity) => Accept(q, b) = q
BY DEF Accept

\* The next byte of a sequence of bytes is a byte.
LEMMA Picking ==
    ASSUME NEW p \in Seq(Byte), NEW q \in Seq(Byte), Len(p) < Len(q) PROVE q[Len(p) + 1] \in Byte
<1>1. Len(p) \in Nat /\ Len(q) \in Nat
  BY LenProperties
<1>2. Len(p) + 1 \in 1 .. Len(q)
  BY <1>1
<1> QED
  BY <1>2, ElementOfSeq

\* What was read of a file is a sequence of bytes.
LEMMA Prefix ==
    ASSUME NEW s \in Seq(Byte), NEW n \in Nat, n <= Len(s)
    PROVE  SubSeq(s, 1, n) \in Seq(Byte) /\ Len(SubSeq(s, 1, n)) = n
<1>1. \A i \in 1 .. n : s[i] \in Byte
  BY ElementOfSeq, LenProperties
<1>2. SubSeq(s, 1, n) \in Seq(Byte) /\ Len(SubSeq(s, 1, n)) = IF 1 <= n THEN n - 1 + 1 ELSE 0
  BY <1>1, SubSeqProperties
<1> QED
  BY <1>2

\* The image of a file, or of the part of it that was read, is memory.
LEMMA LoadTyped ==
    ASSUME Bytes PROVE load_prg_file(content, bytes_to_load(st.size)) \in [Address -> Byte]
<1> DEFINE n == Min({2 + bytes_to_load(st.size), Len(content)})
           f == SubSeq(content, 1, n)
<1>1. content \in Seq(Byte) /\ Len(content) \in Nat
  BY FilesAssumption, LenProperties DEF Bytes
<1>2. bytes_to_load(st.size) \in Nat
  <2>1. Word \in Nat /\ Word > 0
    BY BaseAssumption DEF Word
  <2> QED
    BY <2>1 DEF bytes_to_load, Bytes
<1>3. n \in Nat /\ n <= Len(content)
  <2>1. PICK m \in {2 + bytes_to_load(st.size), Len(content)} :
           \A k \in {2 + bytes_to_load(st.size), Len(content)} : m <= k
    BY <1>1, <1>2
  <2>2. \A k \in {2 + bytes_to_load(st.size), Len(content)} : n <= k
    BY <2>1 DEF Min
  <2>3. n \in {2 + bytes_to_load(st.size), Len(content)}
    BY <2>1 DEF Min
  <2> QED
    BY <1>1, <1>2, <2>2, <2>3
<1>4. f \in Seq(Byte) /\ Len(f) = n
  BY <1>1, <1>3, Prefix
<1> HIDE DEF f
<1>5. Image(f, memory) \in [Address -> Byte]
  <2>1. ASSUME NEW i \in 0 .. Len(f) - 3 PROVE f[i + 3] \in Byte
    <3>1. i + 3 \in 1 .. Len(f)
      BY <1>3, <1>4
    <3> QED
      BY <1>4, <3>1, ElementOfSeq
  <2>2. DOMAIN memory = Address /\ \A a \in Address : memory[a] \in Byte
    BY DEF Bytes
  <2> QED
    BY <2>1, <2>2 DEF Image
<1> QED
  BY <1>5 DEF load_prg_file, Bytes, f

--------------------------------------------------------------------------------

\* Bytes, addresses and the receive queue stay what they are.
LEMMA BytesPreserved == ASSUME Control, Bytes, Histories, [Next]_vars PROVE Bytes'
<1> USE DEF Control
<1>1. CASE Turn
  <2>1. content' = content /\ st' = st
    BY <1>1, TurnFrame DEF Turn, half_cycle
  <2>2. CASE Sample
    <3>1. cpu.address \in Address
      BY SimulatorAssumption DEF TypeInv, Cycle
    <3> QED
      BY <2>1, <2>2, <3>1 DEF Sample, SampledAddress, Bytes, queues
  <2>3. CASE Latch
    <3>1. cpu.data \in Byte
      BY DEF TypeInv, Cycle
    <3>2. OnBus \subseteq Byte
      BY <3>1 DEF OnBus, Bytes
    <3>3. latched_data' \in Byte
      BY <2>3, <3>2 DEF Latch, Bytes
    <3> QED
      BY <2>1, <2>3, <3>3 DEF Latch, Bytes, queues
  <2>4. CASE DriveCLK \/ NothingInReset
    BY <2>1, <2>4 DEF DriveCLK, NothingInReset, Bytes, busVars, queues
  <2>5. CASE Serve
    <3>1. UNCHANGED <<current_address, latched_data, memory>>
      BY <2>5 DEF Serve, busVars
    <3>2. CASE microprocessor_is = "READING"
      <4>1. DOUT' \in Byte /\ (receive_queue' = receive_queue
                               \/ (receive_queue # <<>> /\ receive_queue' = Tail(receive_queue)))
        BY <2>5, <3>2, ReadEffect DEF Serve
      <4>2. receive_queue' \in Seq(Byte) /\ Len(receive_queue') <= Len(receive_queue)
        BY <4>1, Splitting, LenProperties DEF Bytes
      <4>3. Len(receive_queue') <= Capacity
        BY <4>2, Numbers, LenProperties DEF Bytes
      <4> QED
        BY <2>1, <3>1, <4>1, <4>2, <4>3 DEF Bytes
    <3>3. CASE microprocessor_is # "READING"
      BY <2>1, <2>5, <3>1, <3>3 DEF Serve, Bytes
    <3> QED
      BY <3>2, <3>3
  <2>6. CASE Store
    <3>1. memory' = memory \/ memory' = [memory EXCEPT ![current_address] = latched_data]
      BY <2>6 DEF Store, DeviceWrite
    <3>2. memory' \in [Address -> Byte]
      BY <3>1 DEF Bytes
    <3> QED
      BY <2>1, <2>6, <3>2 DEF Store, busVars, Bytes
  <2> QED
    BY <1>1, <2>2, <2>3, <2>4, <2>5, <2>6, TurnFrame
<1>2. CASE RaiseCLK \/ PullRESB \/ ReleaseRESB \/ EndReset
  BY <1>2 DEF RaiseCLK, PullRESB, ReleaseRESB, EndReset, Bytes, fileVars, busVars, ramVars, pins, queues
<1>3. CASE poll_serial_port
  <2>1. receive_queue' = receive_queue \/ (/\ Len(typed) < Len(Input)
                                           /\ receive_queue' = Accept(receive_queue, Input[Len(typed) + 1]))
    BY <1>3 DEF poll_serial_port
  <2>2. UNCHANGED <<content, memory, st, current_address, latched_data, DOUT>>
    BY <1>3 DEF poll_serial_port, fileVars, busVars, ramVars, pins
  <2>3. ASSUME NEW b, receive_queue' = Accept(receive_queue, b), b \in Byte
        PROVE  receive_queue' \in Seq(Byte) /\ Len(receive_queue') <= Capacity
    <3>1. receive_queue \in Seq(Byte) /\ Len(receive_queue) <= Capacity /\ Capacity \in Nat
      BY Numbers DEF Bytes
    <3>2. Len(receive_queue) \in Nat
      BY <3>1, LenProperties
    <3>3. CASE Len(receive_queue) < Capacity
      BY <2>3, <3>1, <3>2, <3>3, Accepted
    <3>4. CASE ~(Len(receive_queue) < Capacity)
      BY <2>3, <3>1, <3>4, Accepted
    <3> QED
      BY <3>3, <3>4
  <2>4. Len(typed) < Len(Input) => Input[Len(typed) + 1] \in Byte
    BY Picking, SimulatorAssumption DEF Histories
  <2>5. receive_queue' \in Seq(Byte) /\ Len(receive_queue') <= Capacity
    <3>1. CASE receive_queue' = receive_queue
      BY <3>1 DEF Bytes
    <3>2. CASE Len(typed) < Len(Input) /\ receive_queue' = Accept(receive_queue, Input[Len(typed) + 1])
      BY <2>3, <2>4, <3>2
    <3> QED
      BY <2>1, <3>1, <3>2
  <2> QED
    BY <2>2, <2>5 DEF Bytes
<1>4. CASE Rest
  <2>1. memory' \in [Address -> Byte]
    BY <1>4, RestFrame, LoadTyped DEF Bytes
  <2>2. content' \in Files
    BY <1>4, RestFrame DEF Bytes
  <2>3. st'.size \in Nat
    <3>1. CASE st' = st
      BY <3>1 DEF Bytes
    <3>2. CASE CheckFile
      <4>1. Len(content) \in Nat
        BY FilesAssumption, LenProperties DEF Bytes
      <4> QED
        BY <3>2, <4>1 DEF CheckFile
    <3> QED
      BY <1>4, <3>1, <3>2 DEF Rest, Second, Load, Edit, Clock, ramVars, vars
  <2> QED
    BY <1>4, <2>1, <2>2, <2>3, RestFrame DEF Bytes, busVars, pins, queues
<1> QED
  BY <1>1, <1>2, <1>3, <1>4, Steps

\* The byte that was taken for the 6502 goes to it or is lost; one is taken for it; one
\* comes in.
Delivers ==
    /\ \/ held = <<>> /\ delivered' = delivered
       \/ held # <<>> /\ \E m \in {DOUT, ANY} : delivered' = Append(delivered, m)
    /\ held' = <<>> /\ UNCHANGED <<receive_queue, typed>>
Takes ==
    /\ held = <<>> /\ receive_queue # <<>>
    /\ receive_queue' = Tail(receive_queue) /\ held' = <<Head(receive_queue)>>
    /\ UNCHANGED <<delivered, typed>>
Comes ==
    /\ \E b \in Byte : typed' = Append(typed, b) /\ receive_queue' = Append(receive_queue, b)
    /\ UNCHANGED <<delivered, held>>

\* Every step does one of these to the bytes on their way in, or leaves them alone.
LEMMA ReceiveSteps ==
    ASSUME Control, Bytes, Histories, [Next]_vars
    PROVE  \/ Delivers \/ Takes \/ Comes
           \/ UNCHANGED <<delivered, held, receive_queue, typed>>
<1> USE DEF Control
<1>1. CASE Turn
  <2>1. typed' = typed
    BY <1>1, TurnFrame
  <2>2. CASE Falls
    <3>1. receive_queue' = receive_queue
      BY <2>2 DEF Falls, DriveCLK, queues
    <3> QED
      BY <2>1, <2>2, <3>1 DEF Falls, CpuFalls, Delivers
  <2>3. CASE DriveCLK /\ ~Falls
    BY <1>1, <2>1, <2>3, CpuSteps DEF DriveCLK, cpuVars, queues
  <2>4. CASE Serve
    <3>1. held = <<>> /\ delivered' = delivered
      BY <2>4 DEF Serve, Holding, cpuVars
    <3>2. CASE microprocessor_is = "READING"
      BY <2>1, <2>4, <3>1, <3>2, ReadEffect DEF Serve, Takes
    <3>3. CASE microprocessor_is # "READING"
      BY <2>1, <2>4, <3>1, <3>3 DEF Serve
    <3> QED
      BY <3>2, <3>3
  <2>5. CASE Sample \/ Latch \/ Store \/ NothingInReset
    BY <2>1, <2>5 DEF Sample, Latch, Store, NothingInReset, cpuVars, queues
  <2> QED
    BY <1>1, <2>2, <2>3, <2>4, <2>5, TurnFrame
<1>2. CASE PullRESB
  BY <1>2 DEF PullRESB, Delivers, queues, serialVars
<1>3. CASE poll_serial_port
  <2>1. UNCHANGED <<delivered, held>>
    BY <1>3 DEF poll_serial_port, cpuVars
  <2>2. CASE UNCHANGED <<typed, receive_queue>>
    BY <2>1, <2>2
  <2>3. CASE /\ Len(typed) < Len(Input)
             /\ receive_queue' = Accept(receive_queue, Input[Len(typed) + 1])
             /\ typed' = IF Len(receive_queue) < Capacity THEN Append(typed, Input[Len(typed) + 1]) ELSE typed
    <3>1. Input[Len(typed) + 1] \in Byte
      BY <2>3, Picking, SimulatorAssumption DEF Histories
    <3>2. CASE Len(receive_queue) < Capacity
      BY <2>1, <2>3, <3>1, <3>2 DEF Comes, Accept
    <3>3. CASE ~(Len(receive_queue) < Capacity)
      BY <2>1, <2>3, <3>3 DEF Accept
    <3> QED
      BY <3>2, <3>3
  <2> QED
    BY <1>3, <2>2, <2>3 DEF poll_serial_port
<1>4. CASE RaiseCLK \/ ReleaseRESB \/ EndReset \/ Rest
  BY <1>4, RestFrame DEF RaiseCLK, ReleaseRESB, EndReset, cpuVars, queues, serialVars
<1> QED
  BY <1>1, <1>2, <1>3, <1>4, Steps

\* A byte goes out, or all that wait.
Sends ==
    /\ \E b \in Byte : \E m \in {b, ANY} : send_queue' = Append(send_queue, b) /\ written' = Append(written, m)
    /\ UNCHANGED sent
Empties == sent' = sent \o send_queue /\ send_queue' = <<>> /\ UNCHANGED written

\* What a store does to the queue, and to the history of what was to go.
LEMMA StoreSends ==
    ASSUME Control, Bytes, Histories, Store
    PROVE  \/ UNCHANGED <<send_queue, written>>
           \/ \E b \in Byte : \E m \in {b, ANY} :
                 send_queue' = Append(send_queue, b) /\ written' = Append(written, m)
<1> USE DEF Control
<1>1. Fallen /\ NoteWritten
  BY DEF Store, Sampled
<1>2. send_queue \in Seq(Byte) /\ latched_data \in Byte /\ Len(send_queue) \in Nat
  BY LenProperties DEF Bytes, Histories
<1>3. /\ Len(send_queue) < Capacity => /\ Accept(send_queue, latched_data) = Append(send_queue, latched_data)
                                       /\ Len(Accept(send_queue, latched_data)) = Len(send_queue) + 1
      /\ ~(Len(send_queue) < Capacity) => Accept(send_queue, latched_data) = send_queue
  BY <1>2, Accepted
<1>4. send_queue' = IF microprocessor_is = "WRITING" /\ current_address \in SerialPort
                       THEN Accept(send_queue, latched_data) ELSE send_queue
  BY DEF Store, DeviceWrite, addressed_device
<1>5. CASE ~finished.reads /\ finished.address \in SerialPort
  <2>1. send_queue' = Accept(send_queue, latched_data) /\ latched_data = finished.data
    BY <1>1, <1>4, <1>5 DEF Fallen
  <2>2. CASE Len(send_queue) < Capacity
    <3>1. written' = Append(written, latched_data)
      BY <1>1, <1>5, <2>1, <2>2 DEF NoteWritten
    <3> QED
      BY <1>2, <1>3, <2>1, <2>2, <3>1
  <2>3. CASE ~(Len(send_queue) < Capacity)
    BY <1>1, <1>3, <1>5, <2>1, <2>3 DEF NoteWritten
  <2> QED
    BY <2>2, <2>3
<1>6. CASE ~(~finished.reads /\ finished.address \in SerialPort)
  <2>1. written' = IF Len(send_queue) < Len(send_queue') THEN Append(written, ANY) ELSE written
    BY <1>1, <1>6 DEF NoteWritten
  <2>2. CASE send_queue' = send_queue
    BY <1>2, <2>1, <2>2
  <2>3. CASE send_queue' # send_queue
    <3>1. send_queue' = Append(send_queue, latched_data) /\ Len(send_queue') = Len(send_queue) + 1
      BY <1>3, <1>4, <2>3
    <3>2. written' = Append(written, ANY)
      BY <1>2, <2>1, <3>1
    <3> QED
      BY <1>2, <3>1, <3>2
  <2> QED
    BY <2>2, <2>3
<1> QED
  BY <1>5, <1>6

\* Every step does one of these to the bytes on their way out, or leaves them alone.
LEMMA SendSteps ==
    ASSUME Control, Bytes, Histories, [Next]_vars
    PROVE  Sends \/ Empties \/ UNCHANGED <<send_queue, written, sent>>
<1> USE DEF Control
<1>1. CASE Turn
  <2>1. sent' = sent
    BY <1>1, TurnFrame
  <2>2. CASE Store
    BY <2>1, <2>2, StoreSends DEF Sends
  <2>3. CASE Sample \/ Latch \/ DriveCLK \/ Serve \/ NothingInReset
    BY <2>1, <2>3 DEF Sample, Latch, DriveCLK, Serve, NothingInReset, queues
  <2> QED
    BY <1>1, <2>2, <2>3, TurnFrame
<1>2. CASE poll_serial_port
  BY <1>2 DEF poll_serial_port, Empties
<1>3. CASE RaiseCLK \/ PullRESB \/ ReleaseRESB \/ EndReset \/ Rest
  BY <1>3, RestFrame DEF RaiseCLK, PullRESB, ReleaseRESB, EndReset, queues, serialVars
<1> QED
  BY <1>1, <1>2, <1>3, Steps

\* The histories stay sequences of bytes, of marked ones.
LEMMA HistoriesPreserved == ASSUME Control, Bytes, Histories, [Next]_vars PROVE Histories'
<1> USE DEF Control
<1>1. held' \in Seq(Byte) /\ typed' \in Seq(Byte) /\ delivered' \in Seq(Marked)
  <2>1. CASE Delivers
    <3>1. DOUT \in Marked /\ ANY \in Marked
      BY Numbers DEF Bytes
    <3>2. <<>> \in Seq(Byte)
      OBVIOUS
    <3> QED
      BY <2>1, <3>1, <3>2, Appending DEF Delivers, Histories
  <2>2. CASE Takes
    <3>1. <<Head(receive_queue)>> \in Seq(Byte)
      BY <2>2, Splitting DEF Takes, Bytes
    <3> QED
      BY <2>2, <3>1 DEF Takes, Histories
  <2>3. CASE Comes
    BY <2>3, Appending DEF Comes, Histories
  <2> QED
    BY <2>1, <2>2, <2>3, ReceiveSteps DEF Histories
<1>2. send_queue' \in Seq(Byte) /\ sent' \in Seq(Byte) /\ written' \in Seq(Marked)
  <2>1. CASE Sends
    <3>1. \A b \in Byte : b \in Marked /\ ANY \in Marked
      BY Numbers
    <3> QED
      BY <2>1, <3>1, Appending DEF Sends, Histories
  <2>2. CASE Empties
    <3>1. sent \o send_queue \in Seq(Byte) /\ <<>> \in Seq(Byte)
      BY Joining DEF Histories
    <3> QED
      BY <2>2, <3>1 DEF Empties, Histories
  <2> QED
    BY <2>1, <2>2, SendSteps DEF Histories
<1> QED
  BY <1>1, <1>2 DEF Histories

--------------------------------------------------------------------------------

\* What was typed stays in order on its way to the 6502.
LEMMA ReceivedPreserved ==
    ASSUME Control, Bytes, Histories, Received, [Next]_vars
    PROVE  Received'
<1>1. PICK f \in Seq(Byte) : Agrees(delivered, f) /\ typed = f \o held \o receive_queue
  BY DEF Received
<1>2. /\ receive_queue \in Seq(Byte) /\ held \in Seq(Byte) /\ delivered \in Seq(Marked)
      /\ <<>> \in Seq(Byte)
  BY DEF Bytes, Histories
<1>3. CASE Delivers
  <2>1. CASE held = <<>>
    <3>1. Agrees(delivered', f) /\ typed' = f \o held' \o receive_queue'
      BY <1>1, <1>3, <2>1 DEF Delivers
    <3> QED
      BY <3>1 DEF Received
  <2>2. CASE held # <<>>
    <3>1. PICK m \in {DOUT, ANY} : delivered' = Append(delivered, m)
      BY <1>3, <2>2 DEF Delivers
    <3>2. Len(held) = 1 /\ held[1] = DOUT /\ DOUT \in Byte
      BY <2>2 DEF Control, Holding, Bytes
    <3>3. held = <<DOUT>>
      BY <1>2, <3>2
    <3>4. Agrees(Append(delivered, m), Append(f, DOUT))
      BY <1>1, <1>2, <3>2, AgreesAppend
    <3>5. Append(f, DOUT) \in Seq(Byte) /\ Append(f, DOUT) = f \o held
      BY <3>2, <3>3, Appending, AppendIsConcat
    <3>6. (f \o held) \o <<>> = f \o held
      BY <1>2, Joining, ConcatEmptySeq
    <3>7. typed' = Append(f, DOUT) \o held' \o receive_queue'
      BY <1>1, <1>3, <3>5, <3>6 DEF Delivers
    <3> QED
      BY <3>1, <3>4, <3>5, <3>7 DEF Received
  <2> QED
    BY <2>1, <2>2
<1>4. CASE Takes
  <2>1. (f \o <<>>) \o receive_queue = (f \o <<Head(receive_queue)>>) \o Tail(receive_queue)
    BY <1>2, <1>4, JoinTaken DEF Takes
  <2>2. Agrees(delivered', f) /\ typed' = f \o held' \o receive_queue'
    BY <1>1, <1>4, <2>1 DEF Takes
  <2> QED
    BY <2>2 DEF Received
<1>5. CASE Comes
  <2>1. PICK b \in Byte : typed' = Append(typed, b) /\ receive_queue' = Append(receive_queue, b)
    BY <1>5 DEF Comes
  <2>2. f \o held \in Seq(Byte)
    BY <1>2, Joining
  <2>3. Append((f \o held) \o receive_queue, b) = (f \o held) \o Append(receive_queue, b)
    BY <1>2, <2>2, JoinQueued, ZenonT(60)
  <2>4. Agrees(delivered', f) /\ typed' = f \o held' \o receive_queue'
    BY <1>1, <1>5, <2>1, <2>3 DEF Comes
  <2> QED
    BY <2>4 DEF Received
<1>6. CASE UNCHANGED <<delivered, held, receive_queue, typed>>
  BY <1>6 DEF Received
<1> QED
  BY <1>3, <1>4, <1>5, <1>6, ReceiveSteps

\* What the 6502 wrote stays in order on its way out.
LEMMA SentPreserved ==
    ASSUME Control, Bytes, Histories, Agrees(written, sent \o send_queue), [Next]_vars
    PROVE  Agrees(written, sent \o send_queue)'
<1>1. /\ send_queue \in Seq(Byte) /\ sent \in Seq(Byte) /\ written \in Seq(Marked)
      /\ sent \o send_queue \in Seq(Byte)
  BY Joining DEF Histories
<1>2. CASE Sends
  <2>1. PICK b \in Byte : \E m \in {b, ANY} : send_queue' = Append(send_queue, b) /\ written' = Append(written, m)
    BY <1>2 DEF Sends
  <2>2. PICK m \in {b, ANY} : send_queue' = Append(send_queue, b) /\ written' = Append(written, m)
    BY <2>1
  <2>3. Agrees(Append(written, m), Append(sent \o send_queue, b))
    BY <1>1, AgreesAppend
  <2>4. Append(sent \o send_queue, b) = sent \o Append(send_queue, b)
    BY <1>1, JoinQueued, ZenonT(60)
  <2> QED
    BY <1>2, <2>2, <2>3, <2>4 DEF Sends
<1>3. CASE Empties
  <2>1. (sent \o send_queue) \o <<>> = sent \o send_queue
    BY <1>1, ConcatEmptySeq
  <2> QED
    BY <1>3, <2>1 DEF Empties
<1>4. CASE UNCHANGED <<send_queue, written, sent>>
  BY <1>4
<1> QED
  BY <1>2, <1>3, <1>4, SendSteps

\* NoContention is preserved by every step.
LEMMA ContentionPreserved ==
    ASSUME Control, Control', NoContention, [Next]_vars
    PROVE  NoContention'
<1> USE DEF Control
<1>1. CASE ~currently_resetting'
  <2>1. CASE parity' = 1
    BY <1>1, <2>1 DEF Clocked, Level, Sampled, Rising, NoContention, CpuDrives
  <2>2. CASE parity' = 0
    BY <1>1, <2>2 DEF Clocked, Level, Sampled, High, NoContention, CpuDrives
  <2> QED
    BY <2>1, <2>2 DEF TypeInv
<1>2. CASE RaiseCLK
  <2>1. UNCHANGED <<driving, cpu>> /\ unsampled' = (CLK = 0) /\ pc = "reset"
    BY <1>2 DEF RaiseCLK
  <2>2. CASE CLK = 1
    <3>1. ~currently_resetting /\ step = "begin"
      BY <2>1, <2>2 DEF Phases
    <3>2. parity = 0
      BY <2>2, <3>1 DEF Clocked, Level, TypeInv
    <3>3. ~cpu.reads => ~driving
      BY <3>1, <3>2 DEF Sampled, High
    <3> QED
      BY <2>1, <3>3 DEF NoContention, CpuDrives
  <2>3. CASE CLK = 0
    BY <2>1, <2>3 DEF NoContention
  <2> QED
    BY <2>2, <2>3 DEF TypeInv
<1>3. CASE PullRESB
  <2>1. UNCHANGED <<driving, CLK, unsampled>>
    BY <1>3 DEF PullRESB
  <2>2. cpu' = cpu \/ cpu'.reads
    <3>1. CASE cpu' = [cpu EXCEPT !.reads = TRUE, !.data = 0]
      BY <3>1 DEF TypeInv, Cycle
    <3> QED
      BY <1>3, <3>1 DEF PullRESB
  <2> QED
    BY <2>1, <2>2 DEF NoContention, CpuDrives
<1>4. CASE Turn /\ currently_resetting'
  <2>1. pc = "held" /\ currently_resetting
    BY <1>4, TurnFrame
  <2>2. driving' = driving
    BY <1>4, <2>1, TurnFrame DEF Sample, Latch, Serve, Store, DriveCLK, NothingInReset
  <2>3. CASE Falls
    BY <2>3 DEF Falls, NoContention, CpuDrives
  <2>4. CASE UNCHANGED cpuVars
    <3>1. cpu' = cpu /\ unsampled' = unsampled
      BY <2>4 DEF cpuVars
    <3>2. CASE CLK = 1
      BY <2>2, <3>1, <3>2 DEF NoContention, CpuDrives
    <3>3. CASE CLK = 0
      <4>1. cpu.reads
        BY <2>1, <3>3 DEF Silent, FallenInReset, Phases
      <4> QED
        BY <3>1, <4>1 DEF NoContention, CpuDrives
    <3> QED
      BY <3>2, <3>3 DEF TypeInv
  <2> QED
    BY <1>4, <2>3, <2>4, CpuSteps
<1>5. CASE EndReset \/ poll_serial_port \/ Rest
  BY <1>5, RestFrame DEF EndReset, poll_serial_port, pins, cpuVars, NoContention, CpuDrives
<1>6. CASE ReleaseRESB
  BY <1>1, <1>6 DEF ReleaseRESB
<1> QED
  BY <1>1, <1>2, <1>3, <1>4, <1>5, <1>6, Steps

\* The read is answered after CLK has risen.
LEMMA ServedOnRise ==
    ASSUME Control, Bytes, Turn, Serve
    PROVE  ReadsServed'
<1> USE DEF Control
<1>1. /\ Rising /\ held = <<>>
      /\ UNCHANGED <<current_address, microprocessor_is, memory, cpu>>
  BY DEF Serve, Sampled, Holding, busVars, cpuVars
<1>2. CASE cpu.reads
  <2>1. microprocessor_is = "READING" /\ current_address = cpu.address
    <3>1. microprocessor_is # "WRITING"
      BY <1>1, <1>2 DEF Rising
    <3>2. driving' = driving \/ microprocessor_is = "READING"
      BY DEF Serve
    <3> QED
      BY <1>1, <3>1 DEF Rising, TypeInv
  <2>2. DeviceRead /\ driving' = TRUE
    BY <2>1 DEF Serve
  <2>3. SERIAL # SERIAL + 1 /\ SERIAL \in SerialPort /\ SERIAL + 1 \in SerialPort
    BY Numbers DEF SerialPort
  <2>4. cpu.address \notin SerialPort => DOUT' = memory'[cpu.address]
    BY <1>1, <2>1, <2>2, ReadEffect
  <2>5. cpu.address = SERIAL => DOUT' <= Len(receive_queue')
    <3>1. ASSUME cpu.address = SERIAL PROVE DOUT' <= Len(receive_queue')
      <4>1. DOUT' = Len(receive_queue) /\ receive_queue' = receive_queue
        BY <2>1, <2>2, <2>3, <3>1, ReadEffect
      <4> QED
        BY <4>1, LenProperties DEF Bytes
    <3> QED
      BY <3>1
  <2>6. /\ cpu.address = SERIAL + 1 => DOUT' = IF held' = <<>> THEN Base - 1 ELSE held'[1]
        /\ held' # <<>> => cpu.address = SERIAL + 1
    <3>1. CASE held' = held /\ (current_address = SERIAL + 1 => DOUT' = Base - 1)
      BY <1>1, <2>1, <3>1
    <3>2. CASE held' = <<DOUT'>> /\ current_address = SERIAL + 1
      BY <2>1, <3>2
    <3> QED
      BY <2>2, <3>1, <3>2, ReadEffect
  <2> QED
    BY <1>1, <2>2, <2>4, <2>5, <2>6 DEF ReadsServed
<1>3. CASE ~cpu.reads
  BY <1>1, <1>3 DEF ReadsServed
<1> QED
  BY <1>2, <1>3

\* ReadsServed is preserved by every step.
LEMMA ServedPreserved ==
    ASSUME Control, Bytes, Histories, ReadsServed, [Next]_vars
    PROVE  ReadsServed'
<1> USE DEF Control
<1>1. ASSUME UNCHANGED <<CLK, parity, cpu, sequence, driving, DOUT, memory, held>>,
             pc \in {"sequence", "loop"}, Len(receive_queue) <= Len(receive_queue')
      PROVE  ReadsServed'
  <2>1. ASSUME DOUT <= Len(receive_queue) PROVE DOUT <= Len(receive_queue')
    <3>1. Bytes'
      BY BytesPreserved
    <3> QED
      BY <1>1, <2>1, <3>1, LenProperties DEF Bytes, Byte
  <2> QED
    BY <1>1, <2>1 DEF ReadsServed
<1>2. CASE Turn
  <2>1. CASE Serve
    BY <1>2, <2>1, ServedOnRise
  <2>2. CASE Latch
    <3>1. /\ UNCHANGED <<CLK, cpu, sequence, driving, DOUT, memory, held, receive_queue>>
          /\ step = "begin" /\ ~currently_resetting
      BY <2>2 DEF Latch, cpuVars, queues
    <3>2. pc \in {"sequence", "loop"} /\ parity' = parity
      BY <1>2, <3>1, TurnFrame
    <3>3. Len(receive_queue) <= Len(receive_queue')
      BY <3>1, LenProperties DEF Bytes
    <3> QED
      BY <1>1, <3>1, <3>2, <3>3
  <2>3. CASE Sample \/ Store
    <3>1. parity' = 1
      BY <1>2, <2>3, TurnFrame DEF Sample, Store
    <3> QED
      BY <3>1 DEF ReadsServed
  <2>4. CASE DriveCLK
    <3>1. CLK' = parity /\ parity' = parity
      BY <1>2, <2>4, TurnFrame DEF DriveCLK
    <3> QED
      BY <3>1 DEF ReadsServed
  <2>5. CASE NothingInReset
    <3>1. pc' = "held"
      BY <1>2, <2>5, TurnFrame DEF NothingInReset
    <3> QED
      BY <3>1 DEF ReadsServed
  <2> QED
    BY <1>2, <2>1, <2>2, <2>3, <2>4, <2>5, TurnFrame
<1>3. CASE RaiseCLK \/ PullRESB
  BY <1>3 DEF RaiseCLK, PullRESB, ReadsServed
<1>4. CASE ReleaseRESB
  <2>1. sequence' = 7
    BY <1>4 DEF ReleaseRESB, cpuVars, Phases
  <2> QED
    BY <2>1 DEF ReadsServed
<1>5. CASE EndReset
  <2>1. /\ UNCHANGED <<CLK, parity, cpu, sequence, driving, DOUT, memory, held, receive_queue>>
        /\ pc = "sequence"
    BY <1>5 DEF EndReset, pins, cpuVars, ramVars, queues
  <2>2. Len(receive_queue) <= Len(receive_queue')
    BY <2>1, LenProperties DEF Bytes
  <2> QED
    BY <1>1, <2>1, <2>2
<1>6. CASE poll_serial_port
  <2>1. /\ UNCHANGED <<CLK, parity, cpu, sequence, driving, DOUT, memory, held>>
        /\ pc = "loop"
    BY <1>6 DEF poll_serial_port, Between, pins, cpuVars, ramVars, loopVars
  <2>2. receive_queue' = receive_queue \/ \E b \in Byte : receive_queue' = Append(receive_queue, b)
    <3>1. CASE Comes
      BY <3>1 DEF Comes
    <3>2. CASE UNCHANGED <<delivered, held, receive_queue, typed>>
      BY <3>2
    <3>3. CASE Delivers
      BY <3>3 DEF Delivers
    <3>4. CASE Takes
      BY <2>1, <3>4 DEF Takes
    <3> QED
      BY <3>1, <3>2, <3>3, <3>4, ReceiveSteps
  <2>3. Len(receive_queue) <= Len(receive_queue')
    BY <2>2, LenProperties, AppendProperties DEF Bytes
  <2> QED
    BY <1>1, <2>1, <2>3
<1>7. CASE Rest
  <2>1. CASE pc' \in {"sequence", "loop"}
    <3>1. /\ UNCHANGED <<CLK, parity, cpu, sequence, driving, DOUT, memory, held, receive_queue>>
          /\ pc \in {"sequence", "loop"}
      BY <1>7, <2>1, RestFrame DEF pins, cpuVars, queues
    <3>2. Len(receive_queue) <= Len(receive_queue')
      BY <3>1, LenProperties DEF Bytes
    <3> QED
      BY <1>1, <3>1, <3>2
  <2>2. CASE pc' \notin {"sequence", "loop"}
    BY <2>2 DEF ReadsServed
  <2> QED
    BY <2>1, <2>2
<1> QED
  BY <1>2, <1>3, <1>4, <1>5, <1>6, <1>7, Steps

--------------------------------------------------------------------------------

\* The board starts with RESB low and the data bus driven.
LEMMA InvInit == ASSUME Init PROVE Inv
<1>1. NoCycle \in {NoCycle} /\ 0 \in Byte /\ 0 \in Address
  BY Numbers
<1>2. TypeInv /\ Phases /\ Clocked /\ Silent /\ Sampled /\ Holding
  BY <1>1 DEF Init, TypeInv, Phases, Clocked, Silent, FallenInReset, Sampled, Holding
<1>3. Bytes
  BY <1>1, Numbers DEF Init, FileInit, Bytes
<1>4. Histories
  BY DEF Init, Histories
<1>5. NoContention /\ ReadsServed
  BY DEF Init, NoContention, CpuDrives, ReadsServed
<1>6. Agrees(<<>>, <<>>) /\ <<>> \o <<>> = <<>> /\ <<>> \in Seq(Byte)
  BY DEF Agrees
<1>7. Received /\ Agrees(written, sent \o send_queue)
  BY <1>6 DEF Init, Received
<1> QED
  BY <1>2, <1>3, <1>4, <1>5, <1>7 DEF Inv, Control

\* The invariant is inductive.
LEMMA InvNext == ASSUME Inv, [Next]_vars PROVE Inv'
<1> USE DEF Inv
<1>1. Control'
  BY TypeInvPreserved, PhasesPreserved, ClockedPreserved, SilentPreserved, SampledPreserved,
     HoldingPreserved DEF Control
<1>2. Bytes' /\ Histories'
  BY BytesPreserved, HistoriesPreserved
<1>3. NoContention'
  BY <1>1, ContentionPreserved
<1>4. ReadsServed'
  BY ServedPreserved
<1>5. Received' /\ Agrees(written, sent \o send_queue)'
  BY ReceivedPreserved, SentPreserved
<1> QED
  BY <1>1, <1>2, <1>3, <1>4, <1>5

\* The invariant holds of the simulator, whichever cycle a reset cuts short (main.c).
THEOREM Invariance == Spec => []Inv
<1>1. Init => Inv
  BY InvInit
<1>2. Inv /\ [Next]_vars => Inv'
  BY InvNext
<1> QED
  BY <1>1, <1>2, PTL DEF Spec

\* The 6502 and the simulator do not drive the data bus together, unless a reset raised
\* CLK for a cycle that had not been sampled (half_cycle(), perform_reset()).
THEOREM BusIsShared == Spec => []NoContention
<1>1. Inv => NoContention
  BY DEF Inv
<1> QED
  BY <1>1, Invariance, PTL

\* Once a reset has been released every read is answered by the device that the 6502
\* addresses, from the first cycle of its sequence on (half_cycle(), perform_reset()).
THEOREM ReadsAreServed == Spec => []ReadsServed
<1>1. Inv => ReadsServed
  BY DEF Inv
<1> QED
  BY <1>1, Invariance, PTL

\* What had room in its queue arrives once and in order, both ways, but for what a reset
\* lost or made up (serial_port.c, half_cycle(), perform_reset()).
THEOREM SerialIsInOrder == Spec => []SerialInOrder
<1>1. ASSUME Inv PROVE SerialInOrder
  <2>1. PICK f \in Seq(Byte) : Agrees(delivered, f) /\ typed = f \o held \o receive_queue
    BY <1>1 DEF Inv, Received
  <2>2. held \in Seq(Byte) /\ receive_queue \in Seq(Byte) /\ delivered \in Seq(Marked)
    BY <1>1 DEF Inv, Bytes, Histories
  <2>3. delivered \o held \in Seq(Marked) /\ f \o held \in Seq(Byte) /\ Agrees(delivered \o held, f \o held)
    BY <2>1, <2>2, AgreesConcat
  <2>4. Agrees((delivered \o held) \o receive_queue, (f \o held) \o receive_queue)
    BY <2>2, <2>3, AgreesConcat
  <2> QED
    BY <1>1, <2>1, <2>4 DEF Inv, SerialInOrder
<1> QED
  BY <1>1, Invariance, PTL

\* What a step may do to memory, outside its loading.
LEMMA MemorySteps ==
    ASSUME Inv, [Next]_vars
    PROVE  \/ pc = "load"
           \/ IF /\ step = "end" /\ step' = "begin" /\ parity = 0 /\ ~currently_resetting
                 /\ ~finished.reads /\ finished.address \notin SerialPort
              THEN memory' = [memory EXCEPT ![finished.address] = finished.data]
              ELSE \/ memory' = memory
                   \/ /\ pc = "sequence" /\ left = 14 /\ interrupted \in Address
                      /\ \E d \in Byte : memory' = [memory EXCEPT ![interrupted] = d]
<1> USE DEF Inv, Control
<1>1. CASE Turn /\ Store
  <2>1. Fallen /\ step = "end" /\ step' = "begin" /\ parity = 0 /\ ~currently_resetting
    BY <1>1, TurnFrame DEF Store, Sampled
  <2>2. memory' = IF microprocessor_is = "WRITING" /\ current_address \notin SerialPort
                     THEN [memory EXCEPT ![current_address] = latched_data] ELSE memory
    BY <1>1 DEF Store, DeviceWrite, addressed_device
  <2>3. latched_data \in Byte /\ current_address \in Address
    BY DEF Bytes
  <2>4. CASE finished.reads
    <3>1. CASE microprocessor_is = "WRITING"
      <4>1. pc = "sequence" /\ left = 14 /\ interrupted = current_address
        BY <2>1, <2>4, <3>1 DEF Fallen, Stale
      <4> QED
        BY <2>2, <2>3, <2>4, <4>1
    <3>2. CASE microprocessor_is # "WRITING"
      BY <2>2, <2>4, <3>2
    <3> QED
      BY <3>1, <3>2
  <2>5. CASE ~finished.reads
    <3>1. /\ microprocessor_is = "WRITING" /\ current_address = finished.address
          /\ latched_data = finished.data
      BY <2>1, <2>5 DEF Fallen
    <3> QED
      BY <2>1, <2>2, <2>5, <3>1
  <2> QED
    BY <2>4, <2>5
<1>2. CASE Turn /\ (Sample \/ Latch \/ DriveCLK \/ Serve \/ NothingInReset)
  <2>1. memory' = memory
    BY <1>2 DEF Sample, Latch, DriveCLK, Serve, NothingInReset
  <2>2. ~(step = "end" /\ parity = 0 /\ ~currently_resetting)
    BY <1>2 DEF Sample, Latch, DriveCLK, Serve, NothingInReset
  <2> QED
    BY <2>1, <2>2
<1>3. CASE RaiseCLK \/ PullRESB \/ ReleaseRESB \/ EndReset \/ poll_serial_port \/ Rest
  <2>1. step' = step
    BY <1>3, RestFrame DEF RaiseCLK, PullRESB, ReleaseRESB, EndReset, poll_serial_port, loopVars
  <2>2. memory' = memory \/ pc = "load"
    BY <1>3, RestFrame DEF RaiseCLK, PullRESB, ReleaseRESB, EndReset, poll_serial_port, ramVars
  <2> QED
    BY <2>1, <2>2
<1> QED
  BY <1>1, <1>2, <1>3, Steps, TurnFrame

\* Memory changes as the 6502 meant it, or by the loading of the file, or where a reset
\* cut a write short (half_cycle(), RAM.c).
THEOREM StoresAreMeant == Spec => StoresAreWrites
<1>1. Inv /\ [Next]_vars =>
       [\/ pc = "load"
        \/ IF /\ step = "end" /\ step' = "begin" /\ parity = 0 /\ ~currently_resetting
              /\ ~finished.reads /\ finished.address \notin SerialPort
           THEN memory' = [memory EXCEPT ![finished.address] = finished.data]
           ELSE \/ memory' = memory
                \/ /\ pc = "sequence" /\ left = 14 /\ interrupted \in Address
                   /\ \E d \in Byte : memory' = [memory EXCEPT ![interrupted] = d]]_vars
  BY MemorySteps
<1> QED
  BY <1>1, Invariance, PTL DEF Spec, StoresAreWrites
================================================================================
